------------------------------ MODULE MCPipeline ------------------------------
(***************************************************************************)
(* Small instances of Pipeline.  Two families: every combination of the    *)
(* toggles over a few bodies, and the shipped toggles with the classifier  *)
(* on over every body of up to MaxMsgs messages, of which those that hold  *)
(* external data or a system message also come with a deep message.        *)
(***************************************************************************)
EXTENDS Pipeline

MaxMsgs == 2
MaxExt == 1

SeqsOf(S) == UNION {[1..n -> S] : n \in 0..MaxMsgs}

Chat(msgs, ext) == [route |-> "chat", msgs |-> msgs, ext |-> ext, deep |-> {}]
Deep(b, i) == [b EXCEPT !.deep = {i}]
Completion(prompt, ext) ==
    [route |-> "completions", msgs |-> <<prompt>>, ext |-> ext, deep |-> {}]

\* The toggles that are on, all others off.
On(names) == [t \in DOMAIN CHOOSE c \in ConfigType : TRUE |-> t \in names]

Detecting == {"provenance", "normalizer", "heuristic", "classifier"}
Guarding == {"output_guard", "canary_enabled"}

\* The normalizer only matters to the scores, which are free: it follows
\* provenance here.
AllConfigs == {c \in ConfigType : c.normalizer = c.provenance}
FullConfigs ==
    {On(Detecting \cup Guarding), On(Detecting \cup Guarding \cup {"fail_closed"})}

AllChatBodies ==
    {Chat(m, e) : m \in SeqsOf(Kinds \ {"list"}), e \in 0..MaxExt}

FewBodies ==
    {Chat(<<"bad", "sys">>, 0), Chat(<<"usr", "void">>, 0), Chat(<<"mute", "hid">>, 0),
     Chat(<<"ret", "usr">>, 1), Deep(Chat(<<"part", "usr">>, 0), 2),
     Completion("usr", 1), Completion("list", 0)}

DeepBodies ==
    {Deep(Chat(<<first, second>>, 1), 1) :
        first \in {"usr", "ret", "sys"}, second \in {"usr", "ret", "sys", "void"}}

AllCases ==
    (FullConfigs \X (AllChatBodies \cup DeepBodies)) \cup (AllConfigs \X FewBodies)

FewCases == FullConfigs \X FewBodies
===============================================================================

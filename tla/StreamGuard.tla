----------------------------- MODULE StreamGuard -----------------------------
(***************************************************************************)
(* A streamed response on its way to the client: body_iterator of          *)
(* /v1/chat/completions and completion_stream of /v1/completions.  Bytes   *)
(* are positions 1..size of the upstream body; the canary occurs verbatim  *)
(* ending at the positions of leaks.  The proxy holds back a chunk in      *)
(* which it finds the token by searching a rolling window of the last      *)
(* CanaryLen + Slack bytes, and when the stream ends it searches the text  *)
(* reassembled from the SSE events.                                        *)
(***************************************************************************)
EXTENDS Naturals, FiniteSets

CONSTANTS
    CanaryLen,  \* length of the canary token in bytes
    Slack,      \* bytes kept beyond it: 32 in the code
    MaxBytes,   \* bound: length of the longest upstream body
    MaxChunk    \* bound: longest chunk the transport delivers

ASSUME LengthsTyped ==
    /\ CanaryLen \in Nat \ {0}
    /\ Slack \in Nat
    /\ MaxBytes \in Nat
    /\ MaxChunk \in Nat \ {0}

VARIABLES
    route,        \* "chat" or "completions"
    size,         \* length of the upstream body
    leaks,        \* end positions of verbatim tokens in the body
    textLeak,     \* the text of the whole body holds the token
    malformed,    \* some event makes reassemble_stream_text raise
    armed,        \* ctx.canary_token is set
    pc,           \* "reading", "ended", "closed", "gone"
    pos,          \* bytes received from upstream
    lo,           \* rolling is the bytes lo + 1 .. pos
    delivered,    \* bytes yielded to the client
    interrupted,  \* interrupted_for_canary
    hit,          \* ctx.canary_hit: the request is marked and an alert raised
    told,         \* the event the proxy itself sent at the end
    status        \* what _record_request was given

response == <<route, size, leaks, textLeak, malformed, armed>>
vars == <<response, pc, pos, lo, delivered, interrupted, hit, told, status>>

Told == {"nothing", "waf_block", "upstream_error", "upstream_timeout", "proxy_error"}
Statuses == {"none", "200", "upstream", "504", "502"}

TypeOK ==
    /\ route \in {"chat", "completions"}
    /\ size \in 0..MaxBytes
    /\ leaks \subseteq CanaryLen..size
    /\ textLeak \in BOOLEAN /\ malformed \in BOOLEAN /\ armed \in BOOLEAN
    /\ pc \in {"reading", "ended", "closed", "gone"}
    /\ pos \in 0..size /\ lo \in 0..pos /\ delivered \in 0..pos
    /\ interrupted \in BOOLEAN /\ hit \in BOOLEAN
    /\ told \in Told
    /\ status \in Statuses

\* A verbatim token need not be in the text (another JSON field) and a token
\* in the text need not be verbatim (split over two events); either can only
\* come back from upstream if the token was put into the prompt.
Init ==
    /\ route \in {"chat", "completions"}
    /\ size \in 0..MaxBytes
    /\ leaks \in SUBSET (CanaryLen..size)
    /\ textLeak \in BOOLEAN /\ malformed \in BOOLEAN /\ armed \in BOOLEAN
    /\ ~armed => leaks = {} /\ ~textLeak
    /\ pc = "reading"
    /\ pos = 0 /\ lo = 0 /\ delivered = 0
    /\ interrupted = FALSE /\ hit = FALSE
    /\ told = "nothing"
    /\ status = "none"

-------------------------------------------------------------------------------
\* Keeping no more than the token's own length.
Bug_WindowStart(last) == IF last > lo + CanaryLen THEN last - CanaryLen ELSE lo

\* Counting back from the end without regard to a short buffer.
Bug_WindowUnclamped(last) == last - (CanaryLen + Slack)

\* rolling = (rolling + chunk)[-(len(canary) + 32):], where rolling + chunk is
\* the bytes lo + 1 .. last.
WindowStart(last) ==
    IF last > lo + CanaryLen + Slack THEN last - (CanaryLen + Slack) ELSE lo

\* canary in rolling
TokenIn(from, to) == \E p \in leaks : p - CanaryLen >= from /\ p <= to

\* A chunk that is searched and passed on.
ForwardChunk(n) ==
    LET last == pos + n
        from == WindowStart(last)
    IN  /\ pc = "reading"
        /\ last <= size
        /\ ~(armed /\ TokenIn(from, last))
        /\ pos' = last
        /\ lo' = IF armed THEN from ELSE lo
        /\ delivered' = last
        /\ UNCHANGED <<response, pc, interrupted, hit, told, status>>

\* The token is in the window: leave the loop without yielding the chunk.
HoldChunk(n) ==
    LET last == pos + n
        from == WindowStart(last)
    IN  /\ pc = "reading"
        /\ last <= size
        /\ armed /\ TokenIn(from, last)
        /\ pos' = last
        /\ lo' = from
        /\ interrupted' = TRUE
        /\ pc' = "ended"
        /\ UNCHANGED <<response, delivered, hit, told, status>>

\* Upstream closes the stream.
UpstreamEnds ==
    /\ pc = "reading"
    /\ pos = size
    /\ pc' = "ended"
    /\ UNCHANGED <<response, pos, lo, delivered, interrupted, hit, told, status>>

\* Without the marker that stands for a token seen in the raw bytes.
Bug_GuardSees == textLeak

\* Appending the token whether or not the loop was interrupted.
Bug_GuardSeesAlways == TRUE

\* Trusting the window alone.
Bug_GuardSeesWindow == interrupted

\* guard_text: the reassembled text, and the token itself when the loop was
\* left because of it.
GuardSees == interrupted \/ textLeak

\* Only the part of the stream that was received is reassembled, so a loop
\* left early may not have met the malformed event.
CheckOutput ==
    /\ pc = "ended"
    /\ malformed => interrupted
    /\ hit' = (armed /\ GuardSees)
    /\ told' = IF hit' THEN "waf_block" ELSE told
    /\ status' = "200"
    /\ pc' = "closed"
    /\ UNCHANGED <<response, pos, lo, delivered, interrupted>>

\* reassemble_stream_text raises: the generic handler answers and the guard
\* is not asked.
ReassemblyRaises ==
    /\ pc = "ended"
    /\ malformed
    /\ told' = "proxy_error"
    /\ status' = "502"
    /\ pc' = "closed"
    /\ UNCHANGED <<response, pos, lo, delivered, interrupted, hit>>

\* The handlers of the loop: an HTTP error comes before any byte, the others
\* at any time.  /v1/completions has no handler of its own for timeouts.
Failed(event, code) ==
    /\ pc = "reading"
    /\ told' = event
    /\ status' = code
    /\ pc' = "closed"
    /\ UNCHANGED <<response, pos, lo, delivered, interrupted, hit>>

UpstreamRefuses == pos = 0 /\ Failed("upstream_error", "upstream")
UpstreamTimesOut == route = "chat" /\ Failed("upstream_timeout", "504")
UpstreamBreaks == Failed("proxy_error", "502")

\* The client goes away: the generator is closed and only the finally clause
\* runs.
ClientLeaves ==
    /\ pc = "reading"
    /\ status' = "200"
    /\ pc' = "gone"
    /\ UNCHANGED <<response, pos, lo, delivered, interrupted, hit, told>>

Closed == pc \in {"closed", "gone"} /\ UNCHANGED vars

Chunk == \E n \in 1..MaxChunk : ForwardChunk(n) \/ HoldChunk(n)
Finish == UpstreamEnds \/ CheckOutput \/ ReassemblyRaises
Interrupt == UpstreamRefuses \/ UpstreamTimesOut \/ UpstreamBreaks \/ ClientLeaves
Next == Chunk \/ Finish \/ Interrupt \/ Closed

Spec == Init /\ [][Next]_vars

-------------------------------------------------------------------------------
\* While no chunk is longer than Slack + 1 bytes, the client never receives
\* the last byte of a verbatim token, however the token is cut into chunks.
TokenNeverForwarded == MaxChunk <= Slack + 1 => \A p \in leaks : delivered < p

\* "Detect an ASCII canary even when it crosses network chunk boundaries"
\* (routes.py): the last byte of a verbatim token is not forwarded, whatever
\* the chunks.
TokenHeldBack == \A p \in leaks : delivered < p

\* A body whose text holds the token, split over events or past the window,
\* does not end as a success: the client gets the block event last and the hit
\* is recorded, unless it left, upstream broke off or an event did not parse.
LateLeakIsReported ==
    (pc = "closed" /\ status = "200" /\ textLeak) => hit /\ told = "waf_block"

\* A chunk withheld from the client is accounted for at the end: by the block
\* event and a recorded hit or, without a hit, by the error of an event that did
\* not parse and the status 502.
HeldChunkIsReported ==
    (pc = "closed" /\ delivered < pos) =>
        \/ hit /\ told = "waf_block" /\ status = "200"
        \/ malformed /\ ~hit /\ told = "proxy_error" /\ status = "502"

\* A response without the token is never blamed, and what was received of it
\* was passed on.
CleanStreamUntouched ==
    (leaks = {} /\ ~textLeak) => ~hit /\ told # "waf_block" /\ delivered = pos
===============================================================================

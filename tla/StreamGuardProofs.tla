-------------------------- MODULE StreamGuardProofs --------------------------
(***************************************************************************)
(* Proofs about StreamGuard for every token length, slack, body length and *)
(* chunk bound.                                                            *)
(***************************************************************************)
EXTENDS StreamGuard, TLAPS

\* Init gives every variable a value of its type and every step keeps it.
LEMMA NextTypeOK == TypeOK /\ [Next]_vars => TypeOK'
<1> SUFFICES ASSUME TypeOK, [Next]_vars PROVE TypeOK'
  OBVIOUS
<1> USE LengthsTyped
<1>1. ASSUME NEW n \in 1..MaxChunk, ForwardChunk(n) PROVE TypeOK'
  <2>1. WindowStart(pos + n) \in 0..(pos + n)
    BY DEF WindowStart, TypeOK
  <2>2. lo' \in 0..pos' /\ pos' \in 0..size /\ delivered' \in 0..pos'
    BY <1>1, <2>1 DEF ForwardChunk, TypeOK
  <2> QED
    BY <1>1, <2>2 DEF ForwardChunk, response, TypeOK
<1>2. ASSUME NEW n \in 1..MaxChunk, HoldChunk(n) PROVE TypeOK'
  <2>1. WindowStart(pos + n) \in 0..(pos + n)
    BY DEF WindowStart, TypeOK
  <2>2. lo' \in 0..pos' /\ pos' \in 0..size /\ delivered' \in 0..pos'
    BY <1>2, <2>1 DEF HoldChunk, TypeOK
  <2> QED
    BY <1>2, <2>2 DEF HoldChunk, response, TypeOK
<1>3. CASE Finish
  <2>1. /\ UNCHANGED <<response, pos, lo, delivered, interrupted>>
        /\ pc' \in {"ended", "closed"}
    BY <1>3 DEF Finish, UpstreamEnds, CheckOutput, ReassemblyRaises
  <2>2. hit' \in BOOLEAN
    BY <1>3 DEF Finish, UpstreamEnds, CheckOutput, ReassemblyRaises, TypeOK
  <2>3. told' \in Told /\ status' \in Statuses
    BY <1>3 DEF Finish, UpstreamEnds, CheckOutput, ReassemblyRaises, TypeOK, Told, Statuses
  <2> QED
    BY <2>1, <2>2, <2>3 DEF response, TypeOK
<1>4. CASE Interrupt
  <2>1. /\ UNCHANGED <<response, pos, lo, delivered, interrupted, hit>>
        /\ pc' \in {"closed", "gone"}
    BY <1>4 DEF Interrupt, UpstreamRefuses, UpstreamTimesOut, UpstreamBreaks, Failed, ClientLeaves
  <2>2. told' \in Told /\ status' \in Statuses
    BY <1>4 DEF Interrupt, UpstreamRefuses, UpstreamTimesOut, UpstreamBreaks, Failed,
                ClientLeaves, TypeOK, Told, Statuses
  <2> QED
    BY <2>1, <2>2 DEF response, TypeOK
<1>5. CASE UNCHANGED vars
  BY <1>5 DEF vars, response, TypeOK
<1> QED
  BY <1>1, <1>2, <1>3, <1>4, <1>5 DEF Next, Chunk, Closed

\* Type correctness of a streamed response.
THEOREM StreamTypeOK == Spec => []TypeOK
<1>1. Init => TypeOK
  <2> SUFFICES ASSUME Init PROVE TypeOK
    OBVIOUS
  <2>1. pos \in 0..size /\ lo \in 0..pos /\ delivered \in 0..pos
    BY LengthsTyped DEF Init
  <2>2. leaks \subseteq CanaryLen..size
    BY DEF Init
  <2> QED
    BY <2>1, <2>2 DEF Init, TypeOK, Told, Statuses
<1> QED
  BY <1>1, NextTypeOK, PTL DEF Spec

-------------------------------------------------------------------------------
(***************************************************************************)
(* The strengthening: while the loop runs, everything received has been    *)
(* forwarded, no token is complete, and the window reaches back exactly    *)
(* CanaryLen + Slack bytes, or to the start of the body.                   *)
(***************************************************************************)
WindowInv ==
    /\ leaks # {} => armed
    /\ pc = "reading" =>
          /\ delivered = pos
          /\ \A p \in leaks : pos < p
          /\ armed => (lo = 0 \/ lo + CanaryLen + Slack <= pos)
    /\ \A p \in leaks : delivered < p

\* A token completed by a chunk of at most Slack + 1 bytes lies in the window.
LEMMA CompletedTokenIsSeen ==
    ASSUME TypeOK, WindowInv, pc = "reading", armed,
           NEW n \in 1..(Slack + 1), NEW p \in leaks, p <= pos + n
    PROVE  TokenIn(WindowStart(pos + n), pos + n)
<1> USE LengthsTyped
<1>1. p \in Nat /\ CanaryLen <= p /\ pos < p /\ pos \in Nat /\ lo \in Nat
  BY DEF TypeOK, WindowInv
<1>2. p - CanaryLen >= WindowStart(pos + n)
  <2>1. CASE pos + n > lo + CanaryLen + Slack
    BY <1>1, <2>1 DEF WindowStart
  <2>2. CASE ~(pos + n > lo + CanaryLen + Slack)
    BY <1>1, <2>2 DEF WindowStart, WindowInv
  <2> QED
    BY <2>1, <2>2
<1> QED
  BY <1>2 DEF TokenIn

LEMMA NextWindowInv ==
    ASSUME MaxChunk <= Slack + 1
    PROVE  TypeOK /\ WindowInv /\ [Next]_vars => WindowInv'
<1> SUFFICES ASSUME TypeOK, WindowInv, [Next]_vars PROVE WindowInv'
  OBVIOUS
<1> USE LengthsTyped
<1>1. ASSUME NEW n \in 1..MaxChunk, ForwardChunk(n) PROVE WindowInv'
  <2>1. n \in 1..(Slack + 1)
    OBVIOUS
  <2>2. \A p \in leaks : pos + n < p
    <3>1. SUFFICES ASSUME NEW p \in leaks, p <= pos + n PROVE FALSE
      BY DEF TypeOK
    <3>2. armed
      BY DEF WindowInv
    <3>3. TokenIn(WindowStart(pos + n), pos + n)
      BY <1>1, <2>1, <3>1, <3>2, CompletedTokenIsSeen DEF ForwardChunk
    <3> QED
      BY <1>1, <3>2, <3>3 DEF ForwardChunk
  <2>3. armed => (lo' = 0 \/ lo' + CanaryLen + Slack <= pos')
    BY <1>1 DEF ForwardChunk, WindowStart, WindowInv, TypeOK
  <2> QED
    BY <1>1, <2>2, <2>3 DEF ForwardChunk, WindowInv, response
<1>2. ASSUME NEW n \in 1..MaxChunk, HoldChunk(n) PROVE WindowInv'
  BY <1>2 DEF HoldChunk, WindowInv, response
<1>3. CASE Finish
  BY <1>3 DEF Finish, UpstreamEnds, CheckOutput, ReassemblyRaises, WindowInv, response
<1>4. CASE Interrupt
  BY <1>4 DEF Interrupt, UpstreamRefuses, UpstreamTimesOut, UpstreamBreaks,
              Failed, ClientLeaves, WindowInv, response
<1>5. CASE UNCHANGED vars
  BY <1>5 DEF vars, response, WindowInv
<1> QED
  BY <1>1, <1>2, <1>3, <1>4, <1>5 DEF Next, Chunk, Closed

\* With chunks of at most Slack + 1 bytes no verbatim token ever reaches the
\* client whole, whatever the token, the body and the way it is cut.
THEOREM SmallChunksHoldToken == Spec => []TokenNeverForwarded
<1>1. CASE MaxChunk <= Slack + 1
  <2>1. ASSUME Init PROVE WindowInv
    <3>1. \A p \in leaks : p \in Nat /\ 0 < p
      BY <2>1, LengthsTyped DEF Init
    <3>2. leaks # {} => armed
      BY <2>1 DEF Init
    <3>3. pos = 0 /\ lo = 0 /\ delivered = 0
      BY <2>1 DEF Init
    <3> QED
      BY <3>1, <3>2, <3>3 DEF WindowInv
  <2>2. WindowInv => TokenNeverForwarded
    BY DEF WindowInv, TokenNeverForwarded
  <2>3. TypeOK /\ WindowInv /\ [Next]_vars => WindowInv'
    BY <1>1, NextWindowInv
  <2> QED
    BY <2>1, <2>2, <2>3, StreamTypeOK, PTL DEF Spec
<1>2. CASE ~(MaxChunk <= Slack + 1)
  <2>1. TokenNeverForwarded
    BY <1>2 DEF TokenNeverForwarded
  <2> QED
    BY <2>1, PTL
<1> QED
  BY <1>1, <1>2

-------------------------------------------------------------------------------
(***************************************************************************)
(* What the end of a response says about the stream.  Nothing here depends *)
(* on the window's size: a chunk is withheld only by leaving the loop for  *)
(* the canary, which leads to the guard or to the handler of a broken      *)
(* event, and nothing else sets hit or sends the block event.              *)
(***************************************************************************)
LoopInv ==
    /\ armed \/ (leaks = {} /\ ~textLeak)
    /\ interrupted => armed /\ leaks # {}
    /\ interrupted \/ delivered = pos
    /\ pc = "reading" => ~interrupted
    /\ pc # "closed" => ~hit /\ told = "nothing"

ClosingInv ==
    /\ hit => told = "waf_block" /\ (interrupted \/ textLeak)
    /\ told = "waf_block" => hit
    /\ pc = "closed" /\ interrupted =>
          \/ hit /\ status = "200"
          \/ malformed /\ ~hit /\ told = "proxy_error" /\ status = "502"
    /\ pc = "closed" /\ status = "200" /\ textLeak => hit

LEMMA NextAccount ==
    TypeOK /\ LoopInv /\ ClosingInv /\ [Next]_vars => LoopInv' /\ ClosingInv'
<1> SUFFICES ASSUME TypeOK, LoopInv, ClosingInv, [Next]_vars PROVE LoopInv' /\ ClosingInv'
  OBVIOUS
<1> USE DEF response
<1>1. ASSUME NEW n \in 1..MaxChunk, ForwardChunk(n) PROVE LoopInv' /\ ClosingInv'
  BY <1>1 DEF ForwardChunk, LoopInv, ClosingInv
<1>2. ASSUME NEW n \in 1..MaxChunk, HoldChunk(n) PROVE LoopInv' /\ ClosingInv'
  <2>1. armed /\ leaks # {}
    BY <1>2 DEF HoldChunk, TokenIn
  <2> QED
    BY <1>2, <2>1 DEF HoldChunk, LoopInv, ClosingInv
<1>3. CASE UpstreamEnds
  BY <1>3 DEF UpstreamEnds, LoopInv, ClosingInv
<1>4. CASE CheckOutput
  <2>1. hit' = (interrupted \/ textLeak)
    BY <1>4 DEF CheckOutput, GuardSees, LoopInv
  <2> QED
    BY <1>4, <2>1 DEF CheckOutput, LoopInv, ClosingInv
<1>5. CASE ReassemblyRaises
  BY <1>5 DEF ReassemblyRaises, LoopInv, ClosingInv
<1>6. CASE Interrupt
  BY <1>6 DEF Interrupt, UpstreamRefuses, UpstreamTimesOut, UpstreamBreaks,
              Failed, ClientLeaves, LoopInv, ClosingInv
<1>7. CASE UNCHANGED vars
  BY <1>7 DEF vars, LoopInv, ClosingInv
<1> QED
  BY <1>1, <1>2, <1>3, <1>4, <1>5, <1>6, <1>7 DEF Next, Chunk, Finish, Closed

LEMMA Account == Spec => [](LoopInv /\ ClosingInv)
<1>1. Init => LoopInv /\ ClosingInv
  BY DEF Init, LoopInv, ClosingInv
<1> QED
  BY <1>1, StreamTypeOK, NextAccount, PTL DEF Spec

\* A response never ends as a success without the block event if the token is in
\* the text reassembled from it, however it was cut, split or scrolled out of the
\* window.  Of a token in other fields this says nothing.
THEOREM LateLeaksReported == Spec => []LateLeakIsReported
<1>1. LoopInv /\ ClosingInv => LateLeakIsReported
  BY DEF ClosingInv, LateLeakIsReported
<1> QED
  BY <1>1, Account, PTL

\* A response that ends without a chunk the client never got says so: with a
\* recorded hit and the block event or, no hit being recorded, with the error of
\* an event that did not parse; for every chunk size.
THEOREM HeldChunksReported == Spec => []HeldChunkIsReported
<1>1. TypeOK /\ LoopInv /\ ClosingInv => HeldChunkIsReported
  BY DEF TypeOK, LoopInv, ClosingInv, HeldChunkIsReported
<1> QED
  BY <1>1, StreamTypeOK, Account, PTL

\* No false alarm: a response without the token is passed on in full as far
\* as it was received and never ends with the block event.
THEOREM CleanStreamsUntouched == Spec => []CleanStreamUntouched
<1>1. LoopInv /\ ClosingInv => CleanStreamUntouched
  BY DEF LoopInv, ClosingInv, CleanStreamUntouched
<1> QED
  BY <1>1, Account, PTL
===============================================================================

---------------------------- MODULE MCStreamGuard ----------------------------
(***************************************************************************)
(* StreamGuard with a token of two bytes and a slack of two, over every    *)
(* body of up to eight bytes, every placement of the token in it and every *)
(* division into chunks of up to MaxChunk bytes.                           *)
(***************************************************************************)
EXTENDS StreamGuard

\* The longest chunk the window is safe for, and one byte more.
SafeChunk == Slack + 1
LongChunk == Slack + 2
===============================================================================

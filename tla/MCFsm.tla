------------------------------- MODULE MCFsm -------------------------------
(* Fsm and its histories on a small envelope.                              *)
EXTENDS FsmHistory

Ack(n, s, d) == [op |-> "o1", seq |-> s, nonce |-> n, decision |-> d]

\* Enough to answer a first handoff and a second one, to offer a spent token
\* again and a lower one after a higher.
MCAcks == {Ack(2, 1, "Resume"), Ack(1, 1, "Abort"), Ack(3, 2, "Retune")}
=============================================================================

------------------------------- MODULE MCFuse -------------------------------
(* The whole tick on a small envelope.                                     *)
EXTENDS Fuse

Ack(n, s, d) == [op |-> "o1", seq |-> s, nonce |-> n, decision |-> d]

MCAcks == {Ack(1, 1, "Resume"), Ack(2, 2, "Abort")}
=============================================================================

----------------------------- MODULE MCFsmLive -----------------------------
(* Fsm alone on an envelope small enough for its liveness.                  *)
EXTENDS Fsm

MCAcks == {[op |-> "o1", seq |-> 1, nonce |-> 1, decision |-> "Resume"]}
=============================================================================

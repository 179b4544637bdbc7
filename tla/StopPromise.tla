---------------------------- MODULE StopPromise ----------------------------
(***************************************************************************)
(* What the fuse promises to whoever watches it, without its counters,     *)
(* scores and limits: a stop that has begun is finished, a robot that      *)
(* stands moves again only out of a bounded budget or on a fresh operator  *)
(* token, the point it is held at does not wander, and the fail-closed     *)
(* latch is final.  Sections 5.5 and 6 of docs/ARCHITECTURE.md state it in *)
(* prose; Fsm is shown to implement it.                                    *)
(***************************************************************************)
EXTENDS Integers

CONSTANTS Budget,        \* automatic releases per episode
          Box,           \* points the robot may be held at
          Operators

VARIABLES phase,         \* "Idle", "Moving", "Stopping", "Standing", "Asking",
                         \* "Failed" or "Ended"
          setpoint,      \* where a standing robot is held
          released,      \* automatic releases so far
          spent          \* the highest token spent by each operator

vars == <<phase, setpoint, released, spent>>

Init ==
  /\ phase = "Idle"
  /\ setpoint \in Int
  /\ released = 0
  /\ spent = [o \in Operators |-> 0]

\* A new episode forgets everything.
Begin ==
  /\ phase' = "Moving"
  /\ setpoint' \in Int
  /\ released' = 0
  /\ spent' = [o \in Operators |-> 0]

Brake ==
  /\ phase = "Moving" /\ phase' = "Stopping"
  /\ UNCHANGED <<setpoint, released, spent>>

Stand ==
  /\ phase = "Stopping" /\ phase' = "Standing"
  /\ setpoint' \in Box
  /\ UNCHANGED <<released, spent>>

Release ==
  /\ phase = "Standing" /\ phase' = "Moving"
  /\ released < Budget /\ released' = released + 1
  /\ UNCHANGED <<setpoint, spent>>

Ask ==
  /\ phase = "Standing" /\ phase' = "Asking"
  /\ UNCHANGED <<setpoint, released, spent>>

\* An operator answers with a token higher than every one spent before.
Answer ==
  /\ phase \in {"Standing", "Asking"} /\ phase' \in {"Moving", "Ended"}
  /\ \E o \in Operators :
       /\ spent'[o] > spent[o]
       /\ spent' = [spent EXCEPT ![o] = spent'[o]]
  /\ UNCHANGED <<setpoint, released>>

Expire ==
  /\ phase = "Asking" /\ phase' = "Ended"
  /\ UNCHANGED <<setpoint, released, spent>>

\* The fail-closed latch can close from anywhere; once closed it is final.
Fail ==
  /\ phase # "Failed" /\ phase' = "Failed"
  /\ setpoint' \in Box
  /\ UNCHANGED <<released, spent>>

-----------------------------------------------------------------------------
(* The same steps by the tick that causes them, for whoever hands the      *)
(* ticks in.                                                               *)

\* A tick refused by GUARD.
Refuse == IF phase = "Failed" THEN UNCHANGED vars ELSE Fail

\* A tick that brings token n of operator o while an operator is asked.
Accept(o, n, to) ==
  /\ phase = "Asking" /\ phase' = to
  /\ spent' = [spent EXCEPT ![o] = n]
  /\ Answer

\* Any other tick.
Decide ==
  Brake \/ Stand \/ Release \/ Ask \/ Expire \/ Fail \/ UNCHANGED vars

-----------------------------------------------------------------------------
Next == Begin \/ Brake \/ Stand \/ Release \/ Ask \/ Answer \/ Expire \/ Fail

Spec == Init /\ [][Next]_vars
=============================================================================

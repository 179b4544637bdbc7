------------------------------- MODULE Envelope -------------------------------
(***************************************************************************)
(* crates/lictor-core/src/envelope.rs: the part of a signed envelope that  *)
(* the braking checks read, what validate() demands of it and what         *)
(* compile() makes of it.  One dimension, integers, one tick the unit of   *)
(* time; k_p = k_v, so that a setpoint is reached within a tick.           *)
(***************************************************************************)
EXTENDS Integers

BrakeKinds == {"pd_second_order", "first_order_decay", "bounded_accel",
               "jerk_limited", "zero_velocity_hold"}

ActionKinds == {"joint_position", "joint_velocity"}

\* SafetyEnvelope and its BrakeModel, before any check.
Envelopes ==
  [action : ActionKinds, kind : BrakeKinds, box_lo : Int, box_hi : Int,
   margin : Int, a_max : Int, j_max : Int, k_v : Int, horizon : Nat,
   exec_steps : Nat, commit_steps : Nat, react_ticks : Nat]

\* validate_brake
BrakeAccepted(e) ==
  /\ e.k_v > 0
  /\ e.commit_steps \in 1..e.horizon
  /\ e.kind = "pd_second_order" => e.action = "joint_position"
  /\ e.kind = "zero_velocity_hold" => e.action = "joint_velocity"

\* EmbodimentManifest::validate
EmbodimentAccepted(e) == e.horizon > 0 /\ e.exec_steps \in 1..e.horizon

\* validate
Accepted(e) ==
  /\ EmbodimentAccepted(e)
  /\ e.margin >= 0
  /\ e.box_lo + e.margin < e.box_hi - e.margin
  /\ e.a_max > 0 /\ e.j_max > 0
  /\ BrakeAccepted(e)

\* compile: the box every check uses is the one inside the margin.
Compiled(e) ==
  [lo |-> e.box_lo + e.margin, hi |-> e.box_hi - e.margin, env |-> e]
=============================================================================

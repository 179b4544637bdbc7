-------------------------------- MODULE MCBrake --------------------------------
(* Envelopes of every kind, sound and unsound ones, chunks of three rows of   *)
(* which one, two or all are committed.                                        *)
EXTENDS Brake

MCManifests ==
  [action : ActionKinds, kind : BrakeKinds, box_lo : {0}, box_hi : {12},
   margin : {1}, a_max : {1, 2}, j_max : {1}, k_v : {4}, horizon : {3},
   exec_steps : {2}, commit_steps : {1, 2, 3}, react_ticks : {0, 1}]

MCRows == {-2, 1, 4}
=============================================================================

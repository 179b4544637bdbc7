----------------------------- MODULE MCExecutor -----------------------------
(* Every constructor up to a horizon of five rows, every pattern of spikes. *)
EXTENDS Executor
=============================================================================

------------------------------ MODULE EpisodeLog ------------------------------
(***************************************************************************)
(* What a ledger promises to whoever reads it: the receipts of an arm in   *)
(* the order they were entered, to which entries are only ever added, one  *)
(* at a time.  A reader may be refused the whole ledger, then for good; it *)
(* is never shown another history.                                         *)
(***************************************************************************)
EXTENDS Sequences

CONSTANTS
  Receipts,   \* what can be entered
  Lost        \* the ledger can no longer be read

VARIABLE log

Enter == log # Lost /\ \E r \in Receipts : log' = Append(log, r)

Lose == log' = Lost

LogSpec == log = <<>> /\ [][Enter \/ Lose]_log
=============================================================================

----------------------------- MODULE MCArtefacts -----------------------------
(* Two episodes that may be written and written again, every write cut.    *)
EXTENDS Artefacts, TLC

Symmetric == Permutations(Keys)
=============================================================================

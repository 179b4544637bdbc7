------------------------------- MODULE MCProxy -------------------------------
(* Two rows per frame, frames enough for several connections.                *)
EXTENDS Proxy
=============================================================================

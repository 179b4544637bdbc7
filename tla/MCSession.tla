------------------------------ MODULE MCSession ------------------------------
(* One operator, one episode key that is run again and again.              *)
EXTENDS Replay

MCKeys == {"a"}
MCOperators == {"o"}
MCTokens ==
  [op : MCOperators, digest : {<<"a", 1>>}, nonce : {1, 2},
   decision : {"Resume", "Abort"}]
  \cup
  [op : MCOperators, digest : {<<"a", 2>>}, nonce : {2}, decision : {"Resume"}]
=============================================================================

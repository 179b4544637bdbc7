----------------------------- MODULE FsmClaims -----------------------------
(***************************************************************************)
(* What the documentation says of the predictive window, on a history of   *)
(* the ticks themselves.  next() does otherwise.                           *)
(***************************************************************************)
EXTENDS Fsm

VARIABLE hitRun   \* predictive hits on consecutive ticks the robot moved through

claimVars == <<fsmVars, hitRun>>

Observe(inp) ==
  hitRun' = IF 0 \in inp.window /\ state' \in Moving
              THEN IF hitRun < K THEN hitRun + 1 ELSE K
              ELSE 0

CInit == Init /\ hitRun = 0

CTick == \E inp \in FsmInputs : Transition(inp) /\ Observe(inp)

CNext == CTick \/ (Reset /\ hitRun' = 0)

CSpec == CInit /\ [][CNext]_claimVars

-----------------------------------------------------------------------------

\* envelope-schema.md: "K-of-N on the predictive channel".  Of k ticks in a row
\* with a hit the last one stops the robot: they are k of the last n.
SustainedHitsBrake == hitRun < K
=============================================================================

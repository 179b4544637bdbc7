----------------------------- MODULE FsmHistory -----------------------------
(***************************************************************************)
(* Fsm with history variables, and what the state machine promises about   *)
(* whole runs.  The counters of FuseRt are what the rows decide by, so a   *)
(* property stated with them would repeat the guards; the histories below  *)
(* are kept from the states passed through and the inputs seen alone.      *)
(***************************************************************************)
EXTENDS Fsm

VARIABLES
  dwell,     \* full ticks spent in this visit to Braking, Held or Escalated
  still,     \* stopped ticks in a row up to the end of the last braking
  calm,      \* clean ticks in a row in this visit to Held
  autos,     \* automatic re-arms of this episode
  clamped    \* ticks of this episode that ended in a clamp

history == <<dwell, still, calm, autos, clamped>>
vars == <<fsmVars, history>>

Timed == {"Braking", "Held", "Escalated"}
Latched == {"Held", "Escalated", "Terminated"}

Record(inp) ==
  /\ dwell' = IF state' = state /\ state \in Timed THEN dwell + 1 ELSE 0
  /\ still' = IF state = "Braking" THEN IF inp.stopped THEN still + 1 ELSE 0
              ELSE IF state' = "Braking" THEN 0 ELSE still
  /\ calm' = IF state = "Held" /\ state' = "Held" /\ Clean(inp)
               THEN calm + 1 ELSE 0
  /\ autos' = IF out'.reason = "RearmedAuto" THEN autos + 1 ELSE autos
  /\ clamped' = IF state' = "Clamped" /\ out'.reason = "ClampSoft"
                  THEN clamped + 1 ELSE clamped

HInit ==
  /\ Init
  /\ dwell = 0 /\ still = 0 /\ calm = 0 /\ autos = 0 /\ clamped = 0

HTick == \E inp \in FsmInputs : Transition(inp) /\ Record(inp)

HReset ==
  /\ Reset
  /\ dwell' = 0 /\ still' = 0 /\ calm' = 0 /\ autos' = 0 /\ clamped' = 0

HNext == HTick \/ HReset

HSpec == HInit /\ [][HNext]_vars

-----------------------------------------------------------------------------
(* Invariants.                                                             *)

\* The fuse is well typed and the histories count.
TypeOK ==
  /\ FsmTypeOK
  /\ dwell \in Nat /\ still \in Nat /\ calm \in Nat
  /\ autos \in Nat /\ clamped \in Nat

\* No visit to a waiting state outlives its limit, on the first visit of an
\* episode or a later one: rows 14, 12 and 7 end it, whatever the inputs.  A
\* per-visit counter not cleared on entry, or one that saturates below its
\* limit, breaks this.
WaitsAreBounded ==
  /\ state = "Braking" => dwell <= BrakeTimeout
  /\ state = "Held" => dwell <= EscalateAfter
  /\ state = "Escalated" => dwell <= HandoffTimeout

\* The fuse takes the robot to be standing only after stop_confirm_ticks
\* stopped ticks in a row, this braking's own and at least one of them; stopped
\* ticks of an earlier braking or before a moving tick do not count (row 15).
HeldMeansStopped ==
  state \in {"Held", "Escalated"} => still >= 1 /\ still >= StopConfirm

\* The policy is never let through while the last n ticks hold k hits: a fire
\* of the predictive channel always stops the robot, and every way back to a
\* moving state has cleared the window (rows 6, 9, 11, 18 and 21).
NeverMovesOverThreshold == state \in Moving => Hits(window) < K

\* An episode is clamped at most once over its budget, over every re-arm and
\* clear-down: clamps never restarts inside an episode (rows 19 and 20).  A
\* budget of 65535 is the counter's own limit and bounds nothing.
ClampsAreBounded == MaxClamps < U16Max => clamped <= MaxClamps + 1

\* While the fuse waits in Held, Escalated or Terminated the setpoint it holds
\* is a point of the workspace box.
HoldInBox == state \in Latched \cup {"Fault"} => hold \in BoxLo..BoxHi

-----------------------------------------------------------------------------
(* Action properties.                                                      *)

\* A stop is given up, a human is asked and a handoff expires only after the
\* whole configured wait of this very visit: never early because a counter
\* kept what an earlier visit had counted (rows 7, 12 and 14).
WaitsAreFull ==
  [][/\ out'.reason = "FaultBrakeTimeout" => dwell >= BrakeTimeout
     /\ state = "Held" /\ state' = "Escalated" => dwell >= EscalateAfter
     /\ out'.reason = "TerminatedTimeout" => dwell >= HandoffTimeout]_vars

\* The robot moves again by itself only when auto re-arming is signed, after
\* rearm_hold clean ticks in a row of this visit to Held and within max_rearms
\* automatic re-arms of the episode (row 11).
AutoRearmEarned ==
  [][out'.reason = "RearmedAuto" /\ state = "Held" /\ state' = "Armed"
       => Rearm = "auto" /\ calm >= RearmHold /\ autos < MaxRearms]_vars

\* Where a standing robot is held never moves: through Held, Escalated and
\* Terminated, and inside Fault, no tick re-latches the setpoint, so it cannot
\* creep with the measured position (rows 1, 2, 3, 8, 12 and 13).
HoldPinned ==
  [][\/ state \in Latched /\ state' \in Latched
     \/ state = "Fault" /\ state' = "Fault"
     => hold' = hold]_vars

\* A robot that stands is released only by automatic re-arming or by an
\* operator token above all that operator spent in the episode, and no tick
\* ever lowers the record of spent tokens: no token releases it twice.
TokensSpentOnce ==
  [][~HReset =>
       /\ \A o \in Operators : last_nonce'[o] >= last_nonce[o]
       /\ state \in Latched /\ state' \in Moving /\ out'.reason # "RearmedAuto"
            => \E o \in Operators : last_nonce'[o] > last_nonce[o]]_vars

\* What a stop can still take: the rest of this wait and the waits after it.
Remaining ==
  CASE state = "Braking" -> BrakeTimeout + EscalateAfter + HandoffTimeout + 2 - dwell
    [] state = "Held" -> EscalateAfter + HandoffTimeout + 2 - dwell
    [] state = "Escalated" -> HandoffTimeout + 1 - dwell
    [] OTHER -> 0

\* A stop is over within the three waits and two ticks more: every tick of it,
\* whatever its input, leaves less of it, from Braking through Held and
\* Escalated, and no way leads back to an earlier wait of the same stop.
StopsCountDown ==
  [][~HReset /\ state \in Timed => Remaining > 0 /\ Remaining' < Remaining]_vars

-----------------------------------------------------------------------------
(* Why they hold: what the counters of FuseRt say of the histories.        *)

DwellCounted ==
  /\ state = "Braking" => dwell = brake_ticks
  /\ state = "Held" => dwell = held_ticks
  /\ state = "Escalated" => dwell = escalated_ticks

StillCounted == state = "Braking" => stopped_ticks <= still

CalmCounted == state = "Held" => held_clean <= calm

AutosCounted == autos <= rearms /\ autos <= MaxRearms

ClampsCounted ==
  MaxClamps < U16Max => clamped <= clamps /\ clamps <= MaxClamps + 1

\* The counters the rows decide by never claim more than what happened: a wait
\* is counted exactly, stopped and clean ticks at most as often as they came in
\* a row in this visit, re-arms and clamps at least as often as in the episode.
\* With the invariants above it is inductive.
CountersAreHonest ==
  /\ DwellCounted /\ StillCounted /\ CalmCounted
  /\ AutosCounted /\ ClampsCounted

IInv ==
  /\ TypeOK
  /\ CountersAreHonest
  /\ WaitsAreBounded /\ HeldMeansStopped /\ NeverMovesOverThreshold
  /\ HoldInBox

-----------------------------------------------------------------------------
(* What the fuse promises to whoever watches it.                           *)

PhaseOf ==
  [s \in States |->
     CASE s = "Idle" -> "Idle"
       [] s \in Moving -> "Moving"
       [] s = "Braking" -> "Stopping"
       [] s = "Held" -> "Standing"
       [] s = "Escalated" -> "Asking"
       [] s = "Fault" -> "Failed"
       [] s = "Terminated" -> "Ended"]

Promise == INSTANCE StopPromise
  WITH phase <- PhaseOf[state], setpoint <- hold, released <- autos,
       spent <- last_nonce, Budget <- MaxRearms, Box <- BoxLo..BoxHi

\* The state machine with all its counters implements StopPromise.
PromiseKept == Promise!Spec

\* What the session is told to expect of one call of next(): a GUARD input is
\* refused, an ack accepted in Escalated is answered as it says, any other call
\* that brings no ack to a robot that stands decides by itself, and the handoffs
\* are numbered as they open.
Contract(inp) ==
  /\ Faulting(inp) => Promise!Refuse
  /\ ~Faulting(inp) =>
       IF state = "Escalated" /\ Accepted(inp.ack)
         THEN Promise!Accept(inp.ack.op, inp.ack.nonce,
                             IF inp.ack.decision = "Resume" THEN "Moving"
                                                            ELSE "Ended")
         ELSE state # "Held" \/ ~Accepted(inp.ack) => Promise!Decide
  /\ handoff_seq' = IF state # "Escalated" /\ state' = "Escalated"
                      THEN WrapInc(handoff_seq) ELSE handoff_seq

\* Whatever is handed to next(), it keeps to what Session takes it to do on a
\* GUARD tick, on an operator's answer and on every other tick: the session's own
\* bookkeeping needs none of the counters behind it.
TickContract ==
  [][\A inp \in FsmInputs : Transition(inp) /\ Record(inp) => Contract(inp)]_vars

-----------------------------------------------------------------------------
(* Why an episode comes to an end.                                         *)

\* Re-arms left, then phases left: an automatic re-arm costs one and wins back
\* the two phases from Held to Moving.
Fuel ==
  3 * (MaxRearms - autos) +
    CASE PhaseOf[state] = "Idle" -> 6
      [] PhaseOf[state] = "Moving" -> 5
      [] PhaseOf[state] = "Stopping" -> 4
      [] PhaseOf[state] = "Standing" -> 3
      [] PhaseOf[state] = "Asking" -> 2
      [] PhaseOf[state] = "Ended" -> 1
      [] PhaseOf[state] = "Failed" -> 0

\* Left to itself an episode runs down: unless a Resume is applied, every tick
\* that changes the phase burns fuel and no tick adds any, so between two Resumes
\* the robot starts, stops and re-arms no more than 3 * max_rearms + 5 times.
EpisodesRunDown ==
  [][~HReset /\ out'.reason # "RearmedAck" =>
       /\ Fuel >= 0
       /\ IF PhaseOf[state'] = PhaseOf[state] THEN Fuel' = Fuel ELSE Fuel' < Fuel]_vars
=============================================================================

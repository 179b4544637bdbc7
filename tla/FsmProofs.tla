----------------------------- MODULE FsmProofs -----------------------------
(***************************************************************************)
(* Theorems about the state machine of Fsm and the histories of FsmHistory *)
(* for every envelope: every k-of-n, every limit and every counter width   *)
(* the assumptions of Fsm admit.                                           *)
(***************************************************************************)
EXTENDS FsmHistory, FsmLemmas, FiniteSetTheorems

-----------------------------------------------------------------------------
(* Type correctness.                                                       *)

\* Every call of next(), its histories kept, preserves the type invariant.
LEMMA TickTypes ==
  ASSUME TypeOK, NEW inp \in FsmInputs, Transition(inp), Record(inp)
  PROVE  TypeOK'
<1>1. FsmTypeOK'
  BY TransitionTypes DEF TypeOK
<1>2. dwell' \in Nat /\ still' \in Nat /\ calm' \in Nat
  BY DEF TypeOK, Record
<1>3. autos' \in Nat /\ clamped' \in Nat
  BY DEF TypeOK, Record
<1> QED BY <1>1, <1>2, <1>3 DEF TypeOK

\* A fresh fuse and a reset one are well typed, with empty histories.
LEMMA FreshHistories ==
  /\ HInit => TypeOK
  /\ HReset => TypeOK'
BY FreshTypes DEF HInit, HReset, TypeOK

\* A step that changes nothing keeps every state predicate used below.
LEMMA StutterTypes ==
  ASSUME TypeOK, UNCHANGED vars
  PROVE  TypeOK'
BY DEF TypeOK, FsmTypeOK, vars, fsmVars, motionVars, brakeVars, heldVars,
   handoffVars, ackVars, history

\* Type correctness, for every envelope: no counter of FuseRt leaves its
\* integer type, and next() answers only with states, trips and reasons it
\* declares.
THEOREM TypeCorrect == HSpec => []TypeOK
<1>1. HInit => TypeOK
  BY FreshHistories
<1>2. TypeOK /\ [HNext]_vars => TypeOK'
  <2> SUFFICES ASSUME TypeOK, [HNext]_vars PROVE TypeOK'
    OBVIOUS
  <2>1. CASE HTick
    BY <2>1, TickTypes DEF HTick
  <2>2. CASE HReset
    BY <2>2, FreshHistories
  <2>3. CASE UNCHANGED vars
    BY <2>3, StutterTypes
  <2> QED BY <2>1, <2>2, <2>3 DEF HNext
<1> QED BY <1>1, <1>2, PTL DEF HSpec

-----------------------------------------------------------------------------
(* The inductive invariant.                                                *)

\* An empty window has no hits, so it is below every k.
LEMMA EmptyWindow == Hits({}) < K
BY FS_EmptySet, HysteresisAssumption DEF Hits

\* A row that is not MustBrake leaves a window below k, and a moving state is
\* left only over k or by a row that says so.
LEMMA BelowThreshold ==
  ASSUME TypeOK, NEW inp \in FsmInputs, ~Faulting(inp), ~MustBrake(inp)
  PROVE  Hits(inp.window) < K
<1>1. inp.window \in SUBSET (0..(N - 1)) /\ ~Fires(inp.window)
  BY InputFacts DEF TypeOK, FsmTypeOK, MustBrake, InputType
<1>2. IsFiniteSet(0..(N - 1))
  BY FS_Interval, HysteresisAssumption
<1>3. Hits(inp.window) \in Nat
  BY <1>1, <1>2, FS_Subset, FS_CardinalityType DEF Hits
<1> QED BY <1>1, <1>3, HysteresisAssumption DEF Fires

\* One call of next(), its histories kept, preserves the parts of the
\* inductive invariant beyond the types.
LEMMA TickInvariant ==
  ASSUME IInv, NEW inp \in FsmInputs, Transition(inp), Record(inp), TypeOK'
  PROVE  IInv'
<1> USE WidthAssumption, HysteresisAssumption
<1>1. TypeOK /\ FsmTypeOK
  BY DEF IInv, TypeOK
<1>2. inp \in InputType
  BY <1>1, InputFacts DEF FsmTypeOK
<1>3. ClampToBox(inp.pos) \in BoxLo..BoxHi
  BY <1>2, ClampFacts DEF InputType
<1>4. /\ rearms < U8Max => SatInc(rearms, U8Max) = rearms + 1
      /\ SatInc(rearms, U8Max) \in rearms..(rearms + 1)
      /\ clamps < U16Max => SatInc(clamps, U16Max) = clamps + 1
      /\ brake_ticks < U16Max => SatInc(brake_ticks, U16Max) = brake_ticks + 1
      /\ held_ticks < U16Max => SatInc(held_ticks, U16Max) = held_ticks + 1
      /\ SatInc(held_clean, U16Max) \in held_clean..(held_clean + 1)
      /\ SatInc(stopped_ticks, U8Max) \in stopped_ticks..(stopped_ticks + 1)
      /\ escalated_ticks < U32Max
           => SatInc(escalated_ticks, U32Max) = escalated_ticks + 1
  BY <1>1, SatIncFacts DEF FsmTypeOK
<1> USE DEF IInv, TypeOK, FsmTypeOK, CountersAreHonest, DwellCounted,
        StillCounted, CalmCounted, AutosCounted, ClampsCounted,
        WaitsAreBounded, HeldMeansStopped, NeverMovesOverThreshold,
        HoldInBox, Record, Timed, Latched, Moving, Emit, motionVars,
        brakeVars, heldVars, handoffVars, ackVars
<1>5. CASE RearmAck(inp) /\ clean_run' = 0 /\ window' = {}
  BY <1>1, <1>4, <1>5, EmptyWindow DEF RearmAck
<1>6. CASE RearmAuto(inp) /\ window' = {}
  BY <1>1, <1>4, <1>6, EmptyWindow DEF RearmAuto, MayRearm
<1>7. CASE ClearDown(inp) /\ window' = {}
  BY <1>1, <1>7, EmptyWindow DEF ClearDown
<1>8. CASE Storing(inp) /\ window' = inp.window
  <2>1. CASE FailClosed(inp)
    BY <1>1, <1>2, <1>3, <1>8, <2>1 DEF FailClosed, LatchOnEntry, LatchHold, FaultReason
  <2>2. CASE FailIdle(inp)
    BY <1>1, <1>2, <1>3, <1>8, <2>2 DEF FailIdle, LatchHold
  <2>3. CASE StayLatched(inp)
    BY <1>1, <1>2, <1>8, <2>3 DEF StayLatched
  <2>4. CASE AckAbort(inp)
    BY <1>1, <1>2, <1>8, <2>4 DEF AckAbort
  <2>5. CASE AckRetune(inp)
    BY <1>1, <1>2, <1>8, <2>5 DEF AckRetune
  <2>6. CASE ExpireHandoff(inp)
    BY <1>1, <1>2, <1>8, <2>6 DEF ExpireHandoff
  <2>7. CASE AwaitAck(inp)
    BY <1>1, <1>2, <1>4, <1>8, <2>7 DEF AwaitAck
  <2>8. CASE Escalate(inp)
    <3>1. state' = "Escalated" /\ out'.reason \notin {"RearmedAuto", "ClampSoft"}
      BY <2>8 DEF Escalate
    <3>2. escalated_ticks' = 0 /\ state = "Held"
      BY <2>8 DEF Escalate, StillHeld
    <3>3. UNCHANGED <<rearms, clamps, hold>>
      BY <2>8 DEF Escalate
    <3> QED BY <1>1, <3>1, <3>2, <3>3
  <2>9. CASE StandStill(inp)
    <3>1. /\ state = "Held" /\ state' = "Held" /\ dwell' = dwell + 1
          /\ out'.reason \notin {"RearmedAuto", "ClampSoft"}
          /\ autos' = autos /\ clamped' = clamped /\ still' = still
      BY <1>1, <2>9 DEF StandStill, StillHeld
    <3>2. held_ticks' = held_ticks + 1 /\ held_ticks' <= EscalateAfter
      BY <1>1, <1>4, <2>9 DEF StandStill
    <3>3. held_clean' <= calm'
      <4>1. CASE Clean(inp)
        BY <1>1, <1>4, <2>9, <3>1, <4>1 DEF StandStill
      <4>2. CASE ~Clean(inp)
        BY <1>1, <2>9, <3>1, <4>2 DEF StandStill
      <4> QED BY <4>1, <4>2
    <3>4. UNCHANGED <<rearms, clamps, hold>>
      BY <2>9 DEF StandStill
    <3> QED BY <1>1, <3>1, <3>2, <3>3, <3>4
  <2>10. CASE TimeOutBrake(inp)
    BY <1>1, <1>2, <1>3, <1>8, <2>10 DEF TimeOutBrake, LatchHold
  <2>11. CASE ConfirmStop(inp)
    BY <1>1, <1>2, <1>3, <1>8, <2>11 DEF ConfirmStop, LatchHold, EnterHeld, StopConfirmed
  <2>12. CASE KeepBraking(inp)
    BY <1>1, <1>2, <1>4, <1>8, <2>12 DEF KeepBraking
  <2>13. CASE Brake(inp)
    BY <1>1, <1>2, <1>8, <2>13 DEF Brake, EnterBraking
  <2>14. CASE Clamp(inp)
    BY <1>1, <1>2, <1>4, BelowThreshold, <1>8, <2>14 DEF Clamp, MustBrake, BudgetSpent
  <2>15. CASE Proceed(inp)
    BY <1>1, <1>2, BelowThreshold, <1>8, <2>15 DEF Proceed
  <2> QED BY <1>8, <2>1, <2>2, <2>3, <2>4, <2>5, <2>6, <2>7, <2>8, <2>9, <2>10, <2>11, <2>12, <2>13, <2>14, <2>15 DEF Storing
<1> QED BY <1>5, <1>6, <1>7, <1>8 DEF Transition, Storing

\* The invariant holds in every reachable state, for every envelope.
THEOREM Invariance == HSpec => []IInv
<1>1. HInit => IInv
  <2> SUFFICES ASSUME HInit PROVE IInv
    OBVIOUS
  <2>1. TypeOK
    BY FreshHistories
  <2>2. state = "Idle" /\ autos = 0 /\ rearms = 0 /\ clamped = 0 /\ clamps = 0
    BY DEF HInit, Init
  <2> QED BY <2>1, <2>2, HysteresisAssumption
     DEF IInv, CountersAreHonest, DwellCounted, StillCounted, CalmCounted,
     AutosCounted, ClampsCounted, WaitsAreBounded, HeldMeansStopped,
     NeverMovesOverThreshold, HoldInBox, Latched, Moving
<1>2. IInv /\ [HNext]_vars => IInv'
  <2> SUFFICES ASSUME IInv, [HNext]_vars PROVE IInv'
    OBVIOUS
  <2>1. CASE HTick
    BY <2>1, TickInvariant, TickTypes DEF HTick, IInv
  <2>2. CASE HReset
    <3>1. TypeOK'
      BY <2>2, FreshHistories
    <3>2. /\ state' = "Armed" /\ window' = {} /\ autos' = 0 /\ rearms' = 0
          /\ clamped' = 0 /\ clamps' = 0
      BY <2>2 DEF HReset, Reset
    <3> QED BY <3>1, <3>2, EmptyWindow, HysteresisAssumption
       DEF IInv, CountersAreHonest, DwellCounted, StillCounted, CalmCounted,
       AutosCounted, ClampsCounted, WaitsAreBounded, HeldMeansStopped,
       NeverMovesOverThreshold, HoldInBox, Latched
  <2>3. CASE UNCHANGED vars
    <3>1. TypeOK'
      BY <2>3, StutterTypes DEF IInv
    <3> QED BY <2>3, <3>1
       DEF IInv, CountersAreHonest, DwellCounted, StillCounted, CalmCounted,
       AutosCounted, ClampsCounted, WaitsAreBounded, HeldMeansStopped,
       NeverMovesOverThreshold, HoldInBox, vars, fsmVars, motionVars,
       brakeVars, heldVars, handoffVars, ackVars, history
  <2> QED BY <2>1, <2>2, <2>3 DEF HNext
<1> QED BY <1>1, <1>2, PTL DEF HSpec

\* The counters of FuseRt never claim more than what happened.
THEOREM CountersHonest == HSpec => []CountersAreHonest
<1>1. IInv => CountersAreHonest
  BY DEF IInv
<1> QED BY <1>1, Invariance, PTL

\* No visit to Braking, Held or Escalated outlives its limit.
THEOREM WaitsBounded == HSpec => []WaitsAreBounded
<1>1. IInv => WaitsAreBounded
  BY DEF IInv
<1> QED BY <1>1, Invariance, PTL

\* Held and Escalated are reached only after stop_confirm_ticks stopped ticks
\* in a row.
THEOREM HeldIsStopped == HSpec => []HeldMeansStopped
<1>1. IInv => HeldMeansStopped
  BY DEF IInv
<1> QED BY <1>1, Invariance, PTL

\* The policy is never let through with k hits in the window.
THEOREM MovesBelowThreshold == HSpec => []NeverMovesOverThreshold
<1>1. IInv => NeverMovesOverThreshold
  BY DEF IInv
<1> QED BY <1>1, Invariance, PTL

\* The clamp budget of an episode is exceeded by at most one tick.
THEOREM ClampsBounded == HSpec => []ClampsAreBounded
<1>1. IInv => ClampsAreBounded
  BY HysteresisAssumption, WidthAssumption
     DEF IInv, TypeOK, FsmTypeOK, CountersAreHonest, ClampsCounted,
     ClampsAreBounded
<1> QED BY <1>1, Invariance, PTL

\* The hold setpoint of a latched state lies in the workspace box.
THEOREM HoldsInBox == HSpec => []HoldInBox
<1>1. IInv => HoldInBox
  BY DEF IInv
<1> QED BY <1>1, Invariance, PTL

-----------------------------------------------------------------------------
(* What one row may do.                                                    *)

\* An applied ack.
Spends(a) ==
  Accepted(a) /\ last_nonce' = [last_nonce EXCEPT ![a.op] = a.nonce]

\* Each reason and each change of a latched state belongs to one row.
RowOf(inp) ==
  /\ out'.reason = "FaultBrakeTimeout"
       => state = "Braking" /\ brake_ticks >= BrakeTimeout
  /\ state = "Held" /\ state' = "Escalated" => held_ticks >= EscalateAfter
  /\ out'.reason = "TerminatedTimeout"
       => state = "Escalated" /\ escalated_ticks >= HandoffTimeout
  /\ out'.reason = "RearmedAuto" => state = "Held" /\ MayRearm(inp)
  /\ \/ state \in Latched /\ state' \in Latched
     \/ state = "Fault" /\ state' = "Fault"
     => hold' = hold
  /\ last_nonce' = last_nonce \/ Spends(inp.ack)
  /\ state \in Latched /\ state' \in Moving /\ out'.reason # "RearmedAuto"
       => Spends(inp.ack)

\* What one call of next() shows, read off the rows of its table.
LEMMA RowFacts ==
  ASSUME NEW inp, Transition(inp)
  PROVE  RowOf(inp)
<1> USE DEF RowOf, Latched, Moving, Emit
<1>1. CASE RearmAck(inp)
  BY <1>1 DEF RearmAck, Answers, ConsumeNonce, Spends
<1>2. CASE RearmAuto(inp)
  BY <1>2 DEF RearmAuto, StillHeld
<1>3. CASE ClearDown(inp)
  BY <1>3 DEF ClearDown, ackVars
<1>4. CASE FailClosed(inp)
  BY <1>4 DEF FailClosed, LatchOnEntry, FaultReason, ackVars
<1>5. CASE FailIdle(inp)
  BY <1>5 DEF FailIdle, ackVars
<1>6. CASE StayLatched(inp)
  BY <1>6 DEF StayLatched, ackVars
<1>7. CASE AckAbort(inp)
  BY <1>7 DEF AckAbort, Answers, ConsumeNonce, Spends
<1>8. CASE AckRetune(inp)
  BY <1>8 DEF AckRetune, Answers, ConsumeNonce, Spends
<1>9. CASE ExpireHandoff(inp)
  BY <1>9 DEF ExpireHandoff, ackVars
<1>10. CASE AwaitAck(inp)
  BY <1>10 DEF AwaitAck, ackVars
<1>11. CASE Escalate(inp)
  BY <1>11 DEF Escalate, ackVars, StillHeld
<1>12. CASE StandStill(inp)
  BY <1>12 DEF StandStill, ackVars, StillHeld
<1>13. CASE TimeOutBrake(inp)
  BY <1>13 DEF TimeOutBrake, ackVars
<1>14. CASE ConfirmStop(inp)
  BY <1>14 DEF ConfirmStop, ackVars
<1>15. CASE KeepBraking(inp)
  BY <1>15 DEF KeepBraking, ackVars
<1>16. CASE Brake(inp)
  BY <1>16 DEF Brake, ackVars
<1>17. CASE Clamp(inp)
  BY <1>17 DEF Clamp, ackVars
<1>18. CASE Proceed(inp)
  BY <1>18 DEF Proceed, ackVars
<1> QED
  BY <1>1, <1>2, <1>3, <1>4, <1>5, <1>6, <1>7, <1>8, <1>9, <1>10, <1>11,
     <1>12, <1>13, <1>14, <1>15, <1>16, <1>17, <1>18
     DEF Transition

-----------------------------------------------------------------------------
(* Action properties.                                                      *)

\* Every wait is full when it ends a stop, a hold or a handoff.
THEOREM WaitsFull == HSpec => WaitsAreFull
<1>1. IInv /\ [HNext]_vars
        => [/\ out'.reason = "FaultBrakeTimeout" => dwell >= BrakeTimeout
            /\ state = "Held" /\ state' = "Escalated" => dwell >= EscalateAfter
            /\ out'.reason = "TerminatedTimeout"
                 => dwell >= HandoffTimeout]_vars
  <2> SUFFICES ASSUME IInv, HNext
               PROVE  /\ out'.reason = "FaultBrakeTimeout"
                           => dwell >= BrakeTimeout
                      /\ state = "Held" /\ state' = "Escalated"
                           => dwell >= EscalateAfter
                      /\ out'.reason = "TerminatedTimeout"
                           => dwell >= HandoffTimeout
    OBVIOUS
  <2>1. CASE HTick
    <3>1. PICK inp \in FsmInputs : Transition(inp)
      BY <2>1 DEF HTick
    <3>2. RowOf(inp)
      BY <3>1, RowFacts
    <3> QED BY <3>2 DEF RowOf, IInv, CountersAreHonest, DwellCounted
  <2>2. CASE HReset
    BY <2>2 DEF HReset, Reset
  <2> QED BY <2>1, <2>2 DEF HNext
<1> QED BY <1>1, Invariance, PTL DEF HSpec, WaitsAreFull

\* An automatic re-arm is signed for, earned in this visit and in budget.
THEOREM RearmsEarned == HSpec => AutoRearmEarned
<1>1. IInv /\ [HNext]_vars
        => [out'.reason = "RearmedAuto" /\ state = "Held" /\ state' = "Armed"
              => Rearm = "auto" /\ calm >= RearmHold /\ autos < MaxRearms]_vars
  <2> SUFFICES ASSUME IInv, HNext, out'.reason = "RearmedAuto"
               PROVE  Rearm = "auto" /\ calm >= RearmHold /\ autos < MaxRearms
    OBVIOUS
  <2>1. CASE HTick
    <3>1. PICK inp \in FsmInputs : Transition(inp)
      BY <2>1 DEF HTick
    <3>2. state = "Held" /\ MayRearm(inp)
      BY <3>1, RowFacts DEF RowOf
    <3> QED BY <3>2, HysteresisAssumption, WidthAssumption
       DEF MayRearm, IInv, TypeOK, FsmTypeOK, CountersAreHonest, CalmCounted,
       AutosCounted
  <2>2. CASE HReset
    BY <2>2 DEF HReset, Reset
  <2> QED BY <2>1, <2>2 DEF HNext
<1> QED BY <1>1, Invariance, PTL DEF HSpec, AutoRearmEarned

\* The setpoint of a robot that stands does not move.
THEOREM HoldsPinned == HSpec => HoldPinned
<1>1. [HNext]_vars
        => [\/ state \in Latched /\ state' \in Latched
            \/ state = "Fault" /\ state' = "Fault"
            => hold' = hold]_vars
  <2> SUFFICES ASSUME HNext,
                      \/ state \in Latched /\ state' \in Latched
                      \/ state = "Fault" /\ state' = "Fault"
               PROVE  hold' = hold
    OBVIOUS
  <2>1. CASE HTick
    BY <2>1, RowFacts DEF HTick, RowOf
  <2>2. CASE HReset
    BY <2>2 DEF HReset, Reset, Latched
  <2> QED BY <2>1, <2>2 DEF HNext
<1> QED BY <1>1, PTL DEF HSpec, HoldPinned

\* No operator token releases the robot twice.
THEOREM TokensOnce == HSpec => TokensSpentOnce
<1>1. IInv /\ [HNext]_vars
        => [~HReset =>
              /\ \A o \in Operators : last_nonce'[o] >= last_nonce[o]
              /\ state \in Latched /\ state' \in Moving /\ out'.reason # "RearmedAuto"
                   => \E o \in Operators : last_nonce'[o] > last_nonce[o]]_vars
  <2> SUFFICES ASSUME IInv, HTick
               PROVE  /\ \A o \in Operators : last_nonce'[o] >= last_nonce[o]
                      /\ state \in Latched /\ state' \in Moving /\ out'.reason # "RearmedAuto"
                           => \E o \in Operators : last_nonce'[o] > last_nonce[o]
    BY DEF HNext
  <2>1. PICK inp \in FsmInputs : Transition(inp)
    BY DEF HTick
  <2>2. RowOf(inp) /\ last_nonce \in [Operators -> Nat]
    BY <2>1, RowFacts DEF IInv, TypeOK, FsmTypeOK
  <2>3. inp.ack \in Acks \cup {NoAck}
    BY InputFacts DEF IInv, TypeOK, FsmTypeOK, InputType
  <2>4. ASSUME Spends(inp.ack)
        PROVE  /\ \A o \in Operators : last_nonce'[o] >= last_nonce[o]
               /\ \E o \in Operators : last_nonce'[o] > last_nonce[o]
    <3>1. /\ inp.ack.op \in Operators /\ inp.ack.nonce \in Nat
          /\ inp.ack.nonce > last_nonce[inp.ack.op]
      BY <2>3, <2>4, AckFacts DEF Spends
    <3> QED BY <2>2, <2>4, <3>1 DEF Spends
  <2> QED BY <2>2, <2>4 DEF RowOf
<1> QED BY <1>1, Invariance, PTL DEF HSpec, TokensSpentOnce

-----------------------------------------------------------------------------
(* Refinement.                                                             *)

\* The phase a watcher sees in each state; only Fault looks failed.
LEMMA PhaseFacts ==
  /\ PhaseOf["Idle"] = "Idle" /\ PhaseOf["Braking"] = "Stopping"
  /\ PhaseOf["Held"] = "Standing" /\ PhaseOf["Escalated"] = "Asking"
  /\ PhaseOf["Fault"] = "Failed" /\ PhaseOf["Terminated"] = "Ended"
  /\ \A s \in Moving : PhaseOf[s] = "Moving"
  /\ \A s \in States : PhaseOf[s] = "Failed" => s = "Fault"
<1> USE DEF PhaseOf, States, Moving
<1>1. PhaseOf["Idle"] = "Idle" /\ PhaseOf["Braking"] = "Stopping"
  OBVIOUS
<1>2. PhaseOf["Held"] = "Standing" /\ PhaseOf["Escalated"] = "Asking"
  OBVIOUS
<1>3. PhaseOf["Fault"] = "Failed" /\ PhaseOf["Terminated"] = "Ended"
  OBVIOUS
<1>4. \A s \in Moving : PhaseOf[s] = "Moving"
  OBVIOUS
<1>5. \A s \in States : PhaseOf[s] = "Failed" => s = "Fault"
  BY <1>1, <1>2, <1>3, <1>4
<1> QED BY <1>1, <1>2, <1>3, <1>4, <1>5

\* An applied ack, as a watcher sees it.
AnswersTo(a) ==
  /\ state \in {"Held", "Escalated"} /\ Accepted(a)
  /\ Promise!Answer
  /\ last_nonce' = [last_nonce EXCEPT ![a.op] = a.nonce]
  /\ PhaseOf[state'] = IF a.decision = "Resume" THEN "Moving" ELSE "Ended"

\* Every call of next() answers its ack or decides by itself.
LEMMA TickDecides ==
  ASSUME IInv, NEW inp \in FsmInputs, Transition(inp), Record(inp)
  PROVE  AnswersTo(inp.ack) \/ Promise!Decide
<1>1. /\ state \in States
      /\ last_nonce \in [Operators -> Nat]
      /\ inp \in InputType
      /\ rearms \in Nat /\ MaxRearms \in Nat /\ autos \in Nat
      /\ autos <= rearms
  BY InputFacts, HysteresisAssumption, WidthAssumption
     DEF IInv, TypeOK, FsmTypeOK, CountersAreHonest, AutosCounted
<1>2. ClampToBox(inp.pos) \in BoxLo..BoxHi
  BY <1>1, ClampFacts DEF InputType
<1>3. autos' = IF out'.reason = "RearmedAuto" THEN autos + 1 ELSE autos
  BY DEF Record
<1>4. ASSUME Accepted(inp.ack), ConsumeNonce(inp.ack)
      PROVE  \E o \in Operators :
               /\ last_nonce'[o] > last_nonce[o]
               /\ last_nonce' = [last_nonce EXCEPT ![o] = last_nonce'[o]]
  <2>1. /\ inp.ack.op \in Operators /\ inp.ack.nonce \in Nat
        /\ inp.ack.nonce > last_nonce[inp.ack.op]
    BY <1>1, <1>4, AckFacts DEF InputType
  <2>2. last_nonce'[inp.ack.op] = inp.ack.nonce
    BY <1>1, <1>4, <2>1 DEF ConsumeNonce
  <2>3. last_nonce' = [last_nonce EXCEPT ![inp.ack.op] = last_nonce'[inp.ack.op]]
    BY <1>4, <2>2 DEF ConsumeNonce
  <2> QED BY <2>1, <2>2, <2>3
<1>5. CASE RearmAck(inp)
  <2>1. Promise!Answer
    BY <1>3, <1>4, <1>5, PhaseFacts
       DEF RearmAck, Answers, Emit, Moving, Promise!Answer
  <2> QED BY <1>5, <2>1, PhaseFacts
          DEF RearmAck, Answers, ConsumeNonce, Emit, Moving, AnswersTo
<1>6. CASE RearmAuto(inp)
  <2>1. Promise!Release
    BY <1>1, <1>3, <1>6, PhaseFacts
       DEF RearmAuto, StillHeld, MayRearm, Emit, Moving, Promise!Release
  <2> QED BY <2>1 DEF Promise!Decide
<1>7. CASE ClearDown(inp)
  BY <1>3, <1>7, PhaseFacts DEF ClearDown, Emit, Moving, ackVars, Promise!vars, Promise!Decide
<1>8. CASE FailClosed(inp)
  <2>1. state' = "Fault" /\ UNCHANGED <<autos, last_nonce>>
    BY <1>3, <1>8 DEF FailClosed, Emit, FaultReason, ackVars
  <2>2. CASE state = "Fault"
    BY <1>8, <2>1, <2>2 DEF FailClosed, LatchOnEntry, Promise!vars, Promise!Decide
  <2>3. CASE state # "Fault"
    <3>1. PhaseOf[state] # "Failed"
      BY <1>1, <2>3, PhaseFacts
    <3>2. Promise!Fail
      BY <1>2, <1>8, <2>1, <2>3, <3>1, PhaseFacts
         DEF FailClosed, LatchOnEntry, LatchHold, Promise!Fail
    <3> QED BY <3>2 DEF Promise!Decide
  <2> QED BY <2>2, <2>3
<1>9. CASE FailIdle(inp)
  <2>1. Promise!Fail
    BY <1>2, <1>3, <1>9, PhaseFacts
       DEF FailIdle, LatchHold, Emit, ackVars, Promise!Fail
  <2> QED BY <2>1 DEF Promise!Decide
<1>10. CASE StayLatched(inp) \/ AwaitAck(inp) \/ StandStill(inp)
            \/ KeepBraking(inp)
  BY <1>3, <1>10 DEF StayLatched, AwaitAck, StandStill, StillHeld, KeepBraking,
     Emit, ackVars, Promise!vars, Promise!Decide
<1>11. CASE AckAbort(inp) \/ AckRetune(inp)
  <2>1. Promise!Answer
    BY <1>3, <1>4, <1>11, PhaseFacts
       DEF AckAbort, AckRetune, Answers, Emit, Promise!Answer
  <2> QED BY <1>11, <2>1, PhaseFacts
          DEF AckAbort, AckRetune, Answers, ConsumeNonce, Emit, AnswersTo
<1>12. CASE ExpireHandoff(inp)
  <2>1. Promise!Expire
    BY <1>3, <1>12, PhaseFacts DEF ExpireHandoff, Emit, ackVars, Promise!Expire
  <2> QED BY <2>1 DEF Promise!Decide
<1>13. CASE Escalate(inp)
  <2>1. Promise!Ask
    BY <1>3, <1>13, PhaseFacts
       DEF Escalate, StillHeld, Emit, ackVars, Promise!Ask
  <2> QED BY <2>1 DEF Promise!Decide
<1>14. CASE TimeOutBrake(inp)
  <2>1. Promise!Fail
    BY <1>2, <1>3, <1>14, PhaseFacts
       DEF TimeOutBrake, LatchHold, Emit, ackVars, Promise!Fail
  <2> QED BY <2>1 DEF Promise!Decide
<1>15. CASE ConfirmStop(inp)
  <2>1. Promise!Stand
    BY <1>2, <1>3, <1>15, PhaseFacts
       DEF ConfirmStop, LatchHold, Emit, ackVars, Promise!Stand
  <2> QED BY <2>1 DEF Promise!Decide
<1>16. CASE Brake(inp)
  <2>1. Promise!Brake
    BY <1>3, <1>16, PhaseFacts DEF Brake, Emit, ackVars, Promise!Brake
  <2> QED BY <2>1 DEF Promise!Decide
<1>17. CASE Clamp(inp) \/ Proceed(inp)
  <2>1. state \in Moving /\ state' \in Moving
    BY <1>17 DEF Clamp, Proceed, Emit, Moving
  <2>2. UNCHANGED <<hold, last_nonce, autos>>
    BY <1>3, <1>17 DEF Clamp, Proceed, Emit, ackVars
  <2> QED BY <2>1, <2>2, PhaseFacts DEF Promise!vars, Promise!Decide
<1> QED
  BY <1>5, <1>6, <1>7, <1>8, <1>9, <1>10, <1>11, <1>12, <1>13, <1>14, <1>15,
     <1>16, <1>17 DEF Transition

\* Every call of next() is one step of the promise, or none.
LEMMA TickPromise ==
  ASSUME IInv, NEW inp \in FsmInputs, Transition(inp), Record(inp)
  PROVE  [Promise!Next]_(Promise!vars)
BY TickDecides DEF AnswersTo, Promise!Decide, Promise!Next

\* The state machine with all its counters implements StopPromise, whatever the
\* envelope: a begun stop is finished, a standing robot moves again only out of
\* the re-arm budget or on a fresh token, the setpoint does not wander and the
\* fail-closed latch is final.
THEOREM KeepsPromise == HSpec => PromiseKept
<1>1. HInit => Promise!Init
  BY PhaseFacts DEF HInit, Init, Promise!Init
<1>2. IInv /\ [HNext]_vars => [Promise!Next]_(Promise!vars)
  <2> SUFFICES ASSUME IInv, [HNext]_vars PROVE [Promise!Next]_(Promise!vars)
    OBVIOUS
  <2>1. CASE HTick
    BY <2>1, TickPromise DEF HTick
  <2>2. CASE HReset
    <3>1. Promise!Begin
      BY <2>2, PhaseFacts DEF HReset, Reset, Moving, Promise!Begin
    <3> QED BY <3>1 DEF Promise!Next
  <2>3. CASE UNCHANGED vars
    BY <2>3 DEF vars, fsmVars, ackVars, history, Promise!vars
  <2> QED BY <2>1, <2>2, <2>3 DEF HNext
<1> QED BY <1>1, <1>2, Invariance, PTL DEF HSpec, PromiseKept, Promise!Spec

-----------------------------------------------------------------------------
(* The contract with the session.                                          *)

\* Which rows a GUARD input and an accepted ack leave, and which row opens a
\* handoff.
RowsFor(inp) ==
  /\ Faulting(inp) => FailClosed(inp)
  /\ ~Faulting(inp) /\ state = "Escalated" /\ Accepted(inp.ack)
       => RearmAck(inp) \/ AckAbort(inp) \/ AckRetune(inp)
  /\ handoff_seq' = IF state # "Escalated" /\ state' = "Escalated"
                      THEN WrapInc(handoff_seq) ELSE handoff_seq

LEMMA RowsByInput ==
  ASSUME NEW inp, Transition(inp)
  PROVE  RowsFor(inp)
<1> USE DEF RowsFor, Emit
<1>1. CASE RearmAck(inp)
  BY <1>1 DEF RearmAck, Answers
<1>2. CASE RearmAuto(inp)
  BY <1>2 DEF RearmAuto, StillHeld, handoffVars
<1>3. CASE ClearDown(inp)
  BY <1>3 DEF ClearDown, Moving, handoffVars
<1>4. CASE FailClosed(inp)
  BY <1>4 DEF FailClosed, handoffVars
<1>5. CASE FailIdle(inp)
  BY <1>5 DEF FailIdle, handoffVars
<1>6. CASE StayLatched(inp)
  BY <1>6 DEF StayLatched, handoffVars
<1>7. CASE AckAbort(inp)
  BY <1>7 DEF AckAbort
<1>8. CASE AckRetune(inp)
  BY <1>8 DEF AckRetune
<1>9. CASE ExpireHandoff(inp)
  BY <1>9 DEF ExpireHandoff
<1>10. CASE AwaitAck(inp)
  BY <1>10 DEF AwaitAck
<1>11. CASE Escalate(inp)
  BY <1>11 DEF Escalate, StillHeld
<1>12. CASE StandStill(inp)
  BY <1>12 DEF StandStill, StillHeld, handoffVars
<1>13. CASE TimeOutBrake(inp)
  BY <1>13 DEF TimeOutBrake, handoffVars
<1>14. CASE ConfirmStop(inp)
  BY <1>14 DEF ConfirmStop, handoffVars
<1>15. CASE KeepBraking(inp)
  BY <1>15 DEF KeepBraking, handoffVars
<1>16. CASE Brake(inp)
  BY <1>16 DEF Brake, Moving, handoffVars
<1>17. CASE Clamp(inp)
  BY <1>17 DEF Clamp, Moving, handoffVars
<1>18. CASE Proceed(inp)
  BY <1>18 DEF Proceed, Moving, handoffVars
<1> QED
  BY <1>1, <1>2, <1>3, <1>4, <1>5, <1>6, <1>7, <1>8, <1>9, <1>10, <1>11,
     <1>12, <1>13, <1>14, <1>15, <1>16, <1>17, <1>18
     DEF Transition

\* One call of next() against what its caller is told to expect.
LEMMA TickKeepsContract ==
  ASSUME IInv, NEW inp \in FsmInputs, Transition(inp), Record(inp)
  PROVE  Contract(inp)
<1>1. /\ state \in States /\ last_nonce \in [Operators -> Nat]
      /\ inp \in InputType
      /\ AnswersTo(inp.ack) \/ Promise!Decide
  BY TickDecides, InputFacts DEF IInv, TypeOK, FsmTypeOK
<1>2. ASSUME Faulting(inp) PROVE Promise!Refuse
  <2>1. FailClosed(inp)
    BY <1>2, RowsByInput DEF RowsFor
  <2>2. state' = "Fault"
    BY <2>1 DEF FailClosed, Emit
  <2>3. CASE state = "Fault"
    <3>1. UNCHANGED Promise!vars
      BY <2>1, <2>2, <2>3
         DEF FailClosed, Emit, FaultReason, LatchOnEntry, ackVars, Record, Promise!vars
    <3> QED BY <2>3, <3>1, PhaseFacts DEF Promise!Refuse
  <2>4. CASE state # "Fault"
    <3>1. PhaseOf[state] # "Failed" /\ PhaseOf[state'] = "Failed"
      BY <1>1, <2>2, <2>4, PhaseFacts
    <3>2. Promise!Fail
      BY <1>1, <3>1
         DEF AnswersTo, Promise!Decide, Promise!Brake, Promise!Stand, Promise!Release,
             Promise!Ask, Promise!Expire, Promise!vars
    <3> QED BY <3>1, <3>2 DEF Promise!Refuse
  <2> QED BY <2>3, <2>4
<1>3. ASSUME ~Faulting(inp), state = "Escalated", Accepted(inp.ack)
      PROVE  Promise!Accept(inp.ack.op, inp.ack.nonce,
                            IF inp.ack.decision = "Resume" THEN "Moving" ELSE "Ended")
  <2>1. RearmAck(inp) \/ AckAbort(inp) \/ AckRetune(inp)
    BY <1>3, RowsByInput DEF RowsFor
  <2>2. last_nonce' = [last_nonce EXCEPT ![inp.ack.op] = inp.ack.nonce]
    BY <2>1 DEF RearmAck, AckAbort, AckRetune, ConsumeNonce
  <2>3. /\ inp.ack.op \in Operators /\ inp.ack.nonce \in Nat
        /\ inp.ack.nonce > last_nonce[inp.ack.op]
    BY <1>1, <1>3, AckFacts DEF InputType
  <2>4. last_nonce' # last_nonce
    BY <1>1, <2>2, <2>3
  <2>5. AnswersTo(inp.ack)
    BY <1>1, <2>4
       DEF Promise!Decide, Promise!Brake, Promise!Stand, Promise!Release,
           Promise!Ask, Promise!Expire, Promise!Fail, Promise!vars
  <2> QED BY <1>3, <2>5, PhaseFacts DEF AnswersTo, Promise!Accept
<1>4. ASSUME ~Faulting(inp), ~(state = "Escalated" /\ Accepted(inp.ack)),
             state # "Held" \/ ~Accepted(inp.ack)
      PROVE  Promise!Decide
  BY <1>1, <1>4 DEF AnswersTo
<1> QED BY <1>2, <1>3, <1>4, RowsByInput DEF RowsFor, Contract

\* A caller that knows the phase alone is told the truth about every tick.
THEOREM ContractKept == HSpec => TickContract
<1>1. IInv => \A inp \in FsmInputs : Transition(inp) /\ Record(inp) => Contract(inp)
  BY TickKeepsContract
<1> QED BY <1>1, Invariance, PTL DEF TickContract

-----------------------------------------------------------------------------
(* How long a stop and an episode can take.                                *)

\* What one call of next() makes of the state and of the histories that bound
\* the waits and the re-arms.
Stays ==
  state' = state /\ autos' = autos /\ (state \in Timed => dwell' = dwell + 1)

GoesOn ==
  /\ autos' = autos
  /\ \/ state \in Moving /\ state' \in Moving
     \/ state \in Moving /\ state' = "Braking" /\ dwell' = 0
     \/ state = "Braking" /\ state' = "Held" /\ dwell' = 0 /\ dwell < BrakeTimeout
     \/ state = "Held" /\ state' = "Escalated" /\ dwell' = 0
     \/ state \in {"Held", "Escalated"} /\ state' = "Terminated"
     \/ state # "Fault" /\ state' = "Fault"

Rearms ==
  \/ state = "Held" /\ state' = "Armed" /\ autos < MaxRearms /\ autos' = autos + 1
  \/ state \in {"Held", "Escalated"} /\ state' = "Armed" /\ out'.reason = "RearmedAck"

LEMMA TickGoes ==
  ASSUME IInv, NEW inp \in FsmInputs, Transition(inp), Record(inp)
  PROVE  Stays \/ GoesOn \/ Rearms
<1> USE DEF Emit, Record
<1>1. /\ state \in States /\ dwell \in Nat /\ autos \in Nat /\ autos <= rearms
      /\ rearms \in Nat /\ MaxRearms \in Nat
  BY HysteresisAssumption, WidthAssumption
     DEF IInv, TypeOK, FsmTypeOK, CountersAreHonest, AutosCounted
<1>2. CASE RearmAck(inp)
  BY <1>2 DEF RearmAck, Rearms
<1>3. CASE RearmAuto(inp)
  BY <1>1, <1>3 DEF RearmAuto, StillHeld, MayRearm, Rearms
<1>4. CASE ClearDown(inp) \/ Clamp(inp) \/ Proceed(inp)
  BY <1>4 DEF ClearDown, Clamp, Proceed, Moving, GoesOn
<1>5. CASE FailClosed(inp) \/ FailIdle(inp)
  BY <1>5 DEF FailClosed, FailIdle, FaultReason, Timed, Stays, GoesOn
<1>6. CASE StayLatched(inp) \/ AwaitAck(inp) \/ StandStill(inp) \/ KeepBraking(inp)
  BY <1>6 DEF StayLatched, AwaitAck, StandStill, StillHeld, KeepBraking, Timed, Stays
<1>7. CASE AckAbort(inp) \/ AckRetune(inp) \/ ExpireHandoff(inp)
  BY <1>7 DEF AckAbort, AckRetune, ExpireHandoff, GoesOn
<1>8. CASE Escalate(inp)
  BY <1>8 DEF Escalate, StillHeld, GoesOn
<1>9. CASE TimeOutBrake(inp) \/ ConfirmStop(inp)
  BY <1>9 DEF TimeOutBrake, ConfirmStop, GoesOn, IInv, CountersAreHonest, DwellCounted
<1>10. CASE Brake(inp)
  BY <1>10 DEF Brake, Moving, GoesOn
<1> QED BY <1>2, <1>3, <1>4, <1>5, <1>6, <1>7, <1>8, <1>9, <1>10 DEF Transition

\* Every tick of a stop leaves less of it.
LEMMA StopNearer ==
  ASSUME IInv, HNext, ~HReset, state \in Timed
  PROVE  Remaining > 0 /\ Remaining' < Remaining
<1>1. PICK inp \in FsmInputs : Transition(inp) /\ Record(inp)
  BY DEF HNext, HTick
<1>2. Stays \/ GoesOn \/ Rearms
  BY <1>1, TickGoes
<1>3. /\ BrakeTimeout \in Nat /\ EscalateAfter \in Nat /\ HandoffTimeout \in Nat
      /\ dwell \in Nat
  BY HysteresisAssumption, WidthAssumption DEF IInv, TypeOK
<1>4. /\ state = "Braking" => dwell <= BrakeTimeout
      /\ state = "Held" => dwell <= EscalateAfter
      /\ state = "Escalated" => dwell <= HandoffTimeout
  BY DEF IInv, WaitsAreBounded
<1>5. CASE state = "Braking"
  <2>1. Remaining = BrakeTimeout + EscalateAfter + HandoffTimeout + 2 - dwell
    BY <1>5 DEF Remaining
  <2>2. \/ Remaining' = Remaining - 1
        \/ Remaining' = EscalateAfter + HandoffTimeout + 2 /\ dwell < BrakeTimeout
        \/ Remaining' = 0
    <3>1. CASE Stays
      BY <1>3, <1>5, <2>1, <3>1 DEF Stays, Remaining, Timed
    <3>2. CASE GoesOn
      BY <1>3, <1>5, <3>2 DEF GoesOn, Remaining, Moving
    <3> QED BY <1>2, <1>5, <3>1, <3>2 DEF Rearms
  <2> QED BY <1>3, <1>4, <1>5, <2>1, <2>2
<1>6. CASE state = "Held"
  <2>1. Remaining = EscalateAfter + HandoffTimeout + 2 - dwell
    BY <1>6 DEF Remaining
  <2>2. Remaining' = Remaining - 1 \/ Remaining' \in {HandoffTimeout + 1, 0}
    <3>1. CASE Stays
      BY <1>3, <1>6, <2>1, <3>1 DEF Stays, Remaining, Timed
    <3>2. CASE GoesOn
      BY <1>3, <1>6, <3>2 DEF GoesOn, Remaining, Moving
    <3>3. CASE Rearms
      BY <3>3 DEF Rearms, Remaining
    <3> QED BY <1>2, <3>1, <3>2, <3>3
  <2> QED BY <1>3, <1>4, <1>6, <2>1, <2>2
<1>7. CASE state = "Escalated"
  <2>1. Remaining = HandoffTimeout + 1 - dwell
    BY <1>7 DEF Remaining
  <2>2. Remaining' = Remaining - 1 \/ Remaining' = 0
    <3>1. CASE Stays
      BY <1>3, <1>7, <2>1, <3>1 DEF Stays, Remaining, Timed
    <3>2. CASE GoesOn
      BY <1>7, <3>2 DEF GoesOn, Remaining, Moving
    <3>3. CASE Rearms
      BY <3>3 DEF Rearms, Remaining
    <3> QED BY <1>2, <3>1, <3>2, <3>3
  <2> QED BY <1>3, <1>4, <1>7, <2>1, <2>2
<1> QED BY <1>5, <1>6, <1>7 DEF Timed

\* A stop is over within its three waits, tick by tick.
THEOREM StopsRunOut == HSpec => StopsCountDown
<1>1. IInv /\ [HNext]_vars
        => [~HReset /\ state \in Timed => Remaining > 0 /\ Remaining' < Remaining]_vars
  BY StopNearer
<1> QED BY <1>1, Invariance, PTL DEF HSpec, StopsCountDown

\* A change of phase that is no Resume burns fuel.
LEMMA EpisodeNearer ==
  ASSUME IInv, HNext, ~HReset, out'.reason # "RearmedAck"
  PROVE  /\ Fuel >= 0
         /\ IF PhaseOf[state'] = PhaseOf[state] THEN Fuel' = Fuel ELSE Fuel' < Fuel
<1>1. PICK inp \in FsmInputs : Transition(inp) /\ Record(inp)
  BY DEF HNext, HTick
<1>2. Stays \/ GoesOn \/ Rearms
  BY <1>1, TickGoes
<1>3. /\ state \in States /\ autos \in Nat /\ MaxRearms \in Nat
      /\ autos <= MaxRearms
  BY HysteresisAssumption, WidthAssumption
     DEF IInv, TypeOK, FsmTypeOK, CountersAreHonest, AutosCounted
<1>4. PICK left \in Nat : left = 3 * (MaxRearms - autos)
  BY <1>3
<1>5. Fuel = left +
        CASE PhaseOf[state] = "Idle" -> 6
          [] PhaseOf[state] = "Moving" -> 5
          [] PhaseOf[state] = "Stopping" -> 4
          [] PhaseOf[state] = "Standing" -> 3
          [] PhaseOf[state] = "Asking" -> 2
          [] PhaseOf[state] = "Ended" -> 1
          [] PhaseOf[state] = "Failed" -> 0
  BY <1>4 DEF Fuel
<1>6. ASSUME autos' = autos
      PROVE  Fuel' = left +
        CASE PhaseOf[state'] = "Idle" -> 6
          [] PhaseOf[state'] = "Moving" -> 5
          [] PhaseOf[state'] = "Stopping" -> 4
          [] PhaseOf[state'] = "Standing" -> 3
          [] PhaseOf[state'] = "Asking" -> 2
          [] PhaseOf[state'] = "Ended" -> 1
          [] PhaseOf[state'] = "Failed" -> 0
  BY <1>4, <1>6 DEF Fuel
<1>7. state \in Moving \cup {"Idle", "Braking", "Held", "Escalated", "Terminated", "Fault"}
  BY <1>3 DEF States, Moving
<1>8. Fuel >= 0
  BY <1>5, <1>7, PhaseFacts
<1>9. CASE Stays
  <2>1. autos' = autos /\ state' = state
    BY <1>9 DEF Stays
  <2>2. Fuel' = Fuel
    BY <1>5, <1>6, <1>7, <2>1, PhaseFacts
  <2> QED BY <1>8, <2>1, <2>2
<1>10. CASE GoesOn
  BY <1>5, <1>6, <1>7, <1>10, PhaseFacts DEF GoesOn
<1>11. CASE Rearms
  <2>1. /\ state = "Held" /\ state' = "Armed" /\ autos' = autos + 1
    BY <1>11 DEF Rearms
  <2>2. 3 * (MaxRearms - autos') = left - 3
    BY <1>3, <1>4, <2>1
  <2>3. Fuel' = 3 * (MaxRearms - autos') + 5
    BY <2>1, PhaseFacts DEF Fuel, Moving
  <2>4. Fuel = left + 3
    BY <1>5, <2>1, PhaseFacts
  <2> QED BY <2>1, <2>2, <2>3, <2>4, PhaseFacts DEF Moving
<1> QED BY <1>2, <1>8, <1>9, <1>10, <1>11

\* An episode runs down unless it is resumed.
THEOREM EpisodesEnd == HSpec => EpisodesRunDown
<1>1. IInv /\ [HNext]_vars
        => [~HReset /\ out'.reason # "RearmedAck" =>
              /\ Fuel >= 0
              /\ IF PhaseOf[state'] = PhaseOf[state] THEN Fuel' = Fuel
                 ELSE Fuel' < Fuel]_vars
  BY EpisodeNearer
<1> QED BY <1>1, Invariance, PTL DEF HSpec, EpisodesRunDown

-----------------------------------------------------------------------------
(* The same over whole runs: what the steps above add up to.               *)

VARIABLES
  waited,    \* full ticks of the present stop: Braking, Held and Escalated
  changes    \* changes of phase since the episode began or was resumed

Count ==
  /\ waited' = IF ~HReset /\ state \in Timed /\ state' \in Timed
                 THEN waited + 1 ELSE 0
  /\ changes' = IF HReset \/ out'.reason = "RearmedAck" THEN 0
                ELSE IF PhaseOf[state'] = PhaseOf[state] THEN changes
                ELSE changes + 1

CountInit == HInit /\ waited = 0 /\ changes = 0

CountSpec == CountInit /\ [][HNext /\ Count]_<<vars, waited, changes>>

\* From the tick that begins a stop to the one that ends it, whatever the
\* inputs: brake_timeout_ticks, escalate_after_hold_ticks and handoff_timeout_ticks
\* are waited for once each, and no stop goes back to a wait it has left.
StopsAreShort ==
  waited <= BrakeTimeout + EscalateAfter + HandoffTimeout + 1

\* Between two Resumes of an operator an episode starts, stops and re-arms no
\* more often than max_rearms allows.
EpisodesAreShort == changes <= 3 * MaxRearms + 5

\* What is done and what is left never exceed what there was.
CountInv ==
  /\ waited \in Nat /\ changes \in Nat
  /\ state \in Timed
       => waited + Remaining <= BrakeTimeout + EscalateAfter + HandoffTimeout + 2
  /\ state \notin Timed => waited = 0
  /\ state = "Idle" => changes = 0
  /\ state # "Idle" => changes + Fuel <= 3 * MaxRearms + 5

LEMMA RemainingBounded ==
  ASSUME IInv, state \in Timed
  PROVE  /\ Remaining \in Nat /\ Remaining > 0
         /\ Remaining <= BrakeTimeout + EscalateAfter + HandoffTimeout + 2
<1>1. /\ BrakeTimeout \in Nat /\ EscalateAfter \in Nat /\ HandoffTimeout \in Nat
      /\ dwell \in Nat
  BY HysteresisAssumption, WidthAssumption DEF IInv, TypeOK
<1>2. /\ state = "Braking" => dwell <= BrakeTimeout
      /\ state = "Held" => dwell <= EscalateAfter
      /\ state = "Escalated" => dwell <= HandoffTimeout
  BY DEF IInv, WaitsAreBounded
<1> QED BY <1>1, <1>2 DEF Remaining, Timed

FuelLeft ==
  /\ Fuel \in Nat /\ MaxRearms \in Nat
  /\ state \in Moving => Fuel <= 3 * MaxRearms + 5
  /\ state = "Fault" => Fuel <= 3 * MaxRearms

LEMMA FuelBounded == IInv => FuelLeft
<1> SUFFICES ASSUME IInv PROVE FuelLeft
  OBVIOUS
<1>1. /\ state \in States /\ autos \in Nat /\ MaxRearms \in Nat
      /\ autos <= MaxRearms
  BY HysteresisAssumption, WidthAssumption
     DEF IInv, TypeOK, FsmTypeOK, CountersAreHonest, AutosCounted
<1>2. PICK left \in Nat : left = 3 * (MaxRearms - autos)
  BY <1>1
<1>3. state \in Moving \cup {"Idle", "Braking", "Held", "Escalated", "Terminated", "Fault"}
  BY <1>1 DEF States, Moving
<1>4. Fuel = left +
      CASE PhaseOf[state] = "Idle" -> 6
        [] PhaseOf[state] = "Moving" -> 5
        [] PhaseOf[state] = "Stopping" -> 4
        [] PhaseOf[state] = "Standing" -> 3
        [] PhaseOf[state] = "Asking" -> 2
        [] PhaseOf[state] = "Ended" -> 1
        [] PhaseOf[state] = "Failed" -> 0
  BY <1>2 DEF Fuel
<1>5. /\ Fuel \in left..(left + 6)
      /\ state \in Moving => Fuel = left + 5
      /\ state = "Fault" => Fuel = left
  BY <1>2, <1>3, <1>4, PhaseFacts
<1> QED BY <1>1, <1>2, <1>5 DEF FuelLeft

LEMMA CountStart == CountInit => CountInv
<1> SUFFICES ASSUME CountInit PROVE CountInv
  OBVIOUS
<1>1. state = "Idle" /\ waited = 0 /\ changes = 0
  BY DEF CountInit, HInit, Init
<1> QED BY <1>1 DEF CountInv, Timed

LEMMA ResetGoes == HReset => state' \in Moving /\ autos' = 0
  BY DEF HReset, Reset, Moving

LEMMA ResumeGoes ==
  ASSUME NEW inp, Transition(inp), out'.reason = "RearmedAck"
  PROVE  state' = "Armed"
<1> USE DEF Emit
<1>1. CASE RearmAck(inp) \/ RearmAuto(inp)
  BY <1>1 DEF RearmAck, RearmAuto
<1>2. ~ClearDown(inp) /\ ~Clamp(inp) /\ ~Brake(inp)
  BY DEF ClearDown, Clamp, Brake
<1>3. ~Proceed(inp)
  BY DEF Proceed
<1>4. ~FailClosed(inp) /\ ~FailIdle(inp) /\ ~StayLatched(inp)
  BY DEF FailClosed, FaultReason, FailIdle, StayLatched
<1>5. ~AckAbort(inp) /\ ~AckRetune(inp) /\ ~ExpireHandoff(inp) /\ ~AwaitAck(inp)
  BY DEF AckAbort, AckRetune, ExpireHandoff, AwaitAck
<1>6. ~Escalate(inp) /\ ~StandStill(inp)
  BY DEF Escalate, StandStill
<1>7. ~TimeOutBrake(inp) /\ ~ConfirmStop(inp) /\ ~KeepBraking(inp)
  BY DEF TimeOutBrake, ConfirmStop, KeepBraking
<1> QED BY <1>1, <1>2, <1>3, <1>4, <1>5, <1>6, <1>7 DEF Transition

\* What StopsCountDown takes from the rest of a stop, waited gains.
LEMMA WaitedStep ==
  ASSUME IInv, CountInv, HNext, Count
  PROVE  /\ waited' \in Nat
         /\ state' \in Timed
              => waited' + Remaining' <= BrakeTimeout + EscalateAfter + HandoffTimeout + 2
         /\ state' \notin Timed => waited' = 0
<1>1. waited \in Nat
  BY DEF CountInv
<1>2. CASE ~HReset /\ state \in Timed /\ state' \in Timed
  <2>1. waited' = waited + 1
    BY <1>2 DEF Count
  <2>2. /\ Remaining \in Nat /\ Remaining' < Remaining
        /\ waited + Remaining <= BrakeTimeout + EscalateAfter + HandoffTimeout + 2
    BY <1>2, StopNearer, RemainingBounded DEF CountInv
  <2>3. Remaining' \in Int
    <3>1. PICK inp \in FsmInputs : Transition(inp) /\ Record(inp)
      BY <1>2 DEF HNext, HTick
    <3>2. dwell' \in Int
      BY <3>1 DEF Record, IInv, TypeOK
    <3>3. BrakeTimeout \in Nat /\ EscalateAfter \in Nat /\ HandoffTimeout \in Nat
      BY HysteresisAssumption, WidthAssumption
    <3> QED BY <1>2, <3>2, <3>3 DEF Remaining, Timed
  <2>4. BrakeTimeout \in Nat /\ EscalateAfter \in Nat /\ HandoffTimeout \in Nat
    BY HysteresisAssumption, WidthAssumption
  <2>5. PICK total \in Nat : total = BrakeTimeout + EscalateAfter + HandoffTimeout + 2
    BY <2>4
  <2>6. PICK left \in Nat : left = Remaining
    BY <2>2
  <2>7. PICK leftover \in Int : leftover = Remaining'
    BY <2>3
  <2>8. waited + 1 + leftover <= total
    BY <1>1, <2>2, <2>5, <2>6, <2>7
  <2>9. waited + 1 \in Nat
    BY <1>1
  <2> QED BY <1>2, <2>1, <2>5, <2>7, <2>8, <2>9
<1>3. CASE ~HReset /\ state \notin Timed /\ state' \in Timed
  <2>1. waited' = 0
    BY <1>3 DEF Count
  <2>2. PICK inp \in FsmInputs : Transition(inp) /\ Record(inp)
    BY <1>3 DEF HNext, HTick
  <2>3. state' = "Braking" /\ dwell' = 0
    BY <1>3, <2>2, TickGoes DEF Stays, GoesOn, Rearms, Timed, Moving
  <2>4. BrakeTimeout \in Nat /\ EscalateAfter \in Nat /\ HandoffTimeout \in Nat
    BY HysteresisAssumption, WidthAssumption
  <2> QED BY <1>3, <2>1, <2>3, <2>4 DEF Remaining
<1>4. CASE HReset \/ state' \notin Timed
  <2>1. waited' = 0 /\ state' \notin Timed
    BY <1>4, ResetGoes DEF Count, Timed, Moving
  <2> QED BY <2>1
<1> QED BY <1>2, <1>3, <1>4

\* A change of phase is paid for by the fuel it burns.
LEMMA ChangesStep ==
  ASSUME IInv, CountInv, HNext, Count,
         NEW most, most = 3 * MaxRearms + 5,
         NEW left \in Nat, left = Fuel',
         state' \in Moving => left <= most,
         state' = "Fault" => left <= most - 5
  PROVE  /\ changes' \in Nat
         /\ state' = "Idle" => changes' = 0
         /\ state' # "Idle" => changes' + left <= most
<1>1. changes \in Nat /\ Fuel \in Nat /\ MaxRearms \in Nat
  BY FuelBounded DEF CountInv, FuelLeft
<1> PICK fuel \in Nat : fuel = Fuel
  BY <1>1
<1>m. most \in Nat
  BY <1>1
<1>c. (state = "Idle" => changes = 0) /\ (state # "Idle" => changes + fuel <= most)
  BY DEF CountInv
<1>2. CASE HReset
  <2>1. changes' = 0 /\ state' \in Moving
    BY <1>2, ResetGoes DEF Count
  <2> QED BY <1>m, <2>1 DEF Moving
<1>3. CASE ~HReset
  <2>1. PICK inp \in FsmInputs : Transition(inp) /\ Record(inp)
    BY <1>3 DEF HNext, HTick
  <2>2. Stays \/ GoesOn \/ Rearms
    BY <2>1, TickGoes
  <2>3. CASE out'.reason = "RearmedAck"
    <3>1. state' \in Moving /\ changes' = 0
      BY <2>1, <2>3, ResumeGoes DEF Count, Moving
    <3> QED BY <1>m, <3>1 DEF Moving
  <2>4. CASE out'.reason # "RearmedAck"
    <3>1. IF PhaseOf[state'] = PhaseOf[state] THEN left = fuel ELSE left < fuel
      BY <1>3, <2>4, EpisodeNearer
    <3>2. changes' = IF PhaseOf[state'] = PhaseOf[state] THEN changes ELSE changes + 1
      BY <1>3, <2>4 DEF Count
    <3>3. CASE PhaseOf[state'] = PhaseOf[state]
      <4>1. left = fuel /\ changes' = changes
        BY <3>1, <3>2, <3>3
      <4>2. state' = "Idle" <=> state = "Idle"
        BY <2>2, <3>3, PhaseFacts DEF Stays, GoesOn, Rearms, Moving
      <4> QED BY <1>1, <1>c, <4>1, <4>2
    <3>4. CASE PhaseOf[state'] # PhaseOf[state]
      <4>1. left < fuel /\ changes' = changes + 1
        BY <3>1, <3>2, <3>4
      <4>2. CASE state = "Idle"
        <5>1. state' = "Fault" /\ changes = 0
          BY <1>c, <2>2, <3>4, <4>2 DEF Stays, GoesOn, Rearms, Moving
        <5>2. left + 1 <= most
          BY <1>m, <5>1
        <5> QED BY <4>1, <5>1, <5>2
      <4>3. CASE state # "Idle"
        <5>1. state' # "Idle" /\ changes + fuel <= most
          BY <1>c, <2>2, <3>4, <4>3 DEF Stays, GoesOn, Rearms, Moving
        <5>2. PICK done \in Nat : done = changes
          BY <1>1
        <5>3. left < fuel /\ done + fuel <= most
          BY <4>1, <5>1, <5>2
        <5>4. done + 1 + left <= most /\ done + 1 \in Nat
          BY <1>m, <5>3
        <5> QED BY <4>1, <5>1, <5>2, <5>4
      <4> QED BY <4>2, <4>3
    <3> QED BY <3>3, <3>4
  <2> QED BY <2>3, <2>4
<1> QED BY <1>2, <1>3

LEMMA CountStep ==
  IInv /\ FuelLeft' /\ CountInv /\ [HNext /\ Count]_<<vars, waited, changes>>
    => CountInv'
<1> SUFFICES ASSUME IInv, FuelLeft', CountInv,
                    [HNext /\ Count]_<<vars, waited, changes>>
             PROVE  CountInv'
  OBVIOUS
<1>1. CASE UNCHANGED <<vars, waited, changes>>
  BY <1>1 DEF CountInv, Remaining, Fuel, vars, fsmVars, history
<1>2. CASE HNext /\ Count
  <2>1. /\ waited' \in Nat
        /\ state' \in Timed
             => waited' + Remaining' <= BrakeTimeout + EscalateAfter + HandoffTimeout + 2
        /\ state' \notin Timed => waited' = 0
    BY <1>2, WaitedStep
  <2>2. /\ Fuel' \in Nat /\ MaxRearms \in Nat
        /\ state' \in Moving => Fuel' <= 3 * MaxRearms + 5
        /\ state' = "Fault" => Fuel' <= 3 * MaxRearms
    BY DEF FuelLeft
  <2>3. PICK left \in Nat : left = Fuel'
    BY <2>2
  <2>4. PICK most : most = 3 * MaxRearms + 5
    OBVIOUS
  <2>5. (state' \in Moving => left <= most) /\ (state' = "Fault" => left <= most - 5)
    BY <2>2, <2>3, <2>4
  <2>6. /\ changes' \in Nat
        /\ state' = "Idle" => changes' = 0
        /\ state' # "Idle" => changes' + left <= most
    BY <1>2, <2>3, <2>4, <2>5, ChangesStep
  <2> QED BY <2>1, <2>3, <2>4, <2>6 DEF CountInv
<1> QED BY <1>1, <1>2

LEMMA OnlyCounts == CountSpec => HSpec
<1>1. CountInit => HInit
  BY DEF CountInit
<1>2. [HNext /\ Count]_<<vars, waited, changes>> => [HNext]_vars
  BY DEF vars
<1> QED BY <1>1, <1>2, PTL DEF CountSpec, HSpec

LEMMA Counted == CountSpec => []CountInv
<1>1. CountInit => CountInv
  BY CountStart
<1>2. IInv /\ FuelLeft' /\ CountInv /\ [HNext /\ Count]_<<vars, waited, changes>>
        => CountInv'
  BY CountStep
<1>3. IInv => FuelLeft
  BY FuelBounded
<1> QED BY <1>1, <1>2, <1>3, OnlyCounts, Invariance, PTL DEF CountSpec

\* A stop is over, or has failed closed, within the three configured waits and
\* two ticks, in every run and whatever is handed to next().
THEOREM StopsShort == CountSpec => []StopsAreShort
<1>1. IInv /\ CountInv => StopsAreShort
  <2> SUFFICES ASSUME IInv, CountInv PROVE StopsAreShort
    OBVIOUS
  <2>1. BrakeTimeout \in Nat /\ EscalateAfter \in Nat /\ HandoffTimeout \in Nat
    BY HysteresisAssumption, WidthAssumption
  <2>2. CASE state \in Timed
    <3>1. PICK left \in Nat : left = Remaining
      BY <2>2, RemainingBounded
    <3>2. left > 0 /\ waited \in Nat
          /\ waited + left <= BrakeTimeout + EscalateAfter + HandoffTimeout + 2
      BY <2>2, <3>1, RemainingBounded DEF CountInv
    <3> QED BY <2>1, <3>1, <3>2 DEF StopsAreShort
  <2>3. CASE state \notin Timed
    BY <2>1, <2>3 DEF CountInv, StopsAreShort
  <2> QED BY <2>2, <2>3
<1> QED BY <1>1, OnlyCounts, Counted, Invariance, PTL

\* Left without an operator's Resume the robot starts and stops again no more
\* often than the envelope's automatic re-arms pay for.
THEOREM EpisodesShort == CountSpec => []EpisodesAreShort
<1>1. IInv /\ CountInv => EpisodesAreShort
  <2> SUFFICES ASSUME IInv, CountInv PROVE EpisodesAreShort
    OBVIOUS
  <2>1. PICK left \in Nat : left = Fuel
    BY FuelBounded DEF FuelLeft
  <2>2. MaxRearms \in Nat
    BY FuelBounded DEF FuelLeft
  <2>3. /\ changes \in Nat
        /\ state = "Idle" => changes = 0
        /\ state # "Idle" => changes + left <= 3 * MaxRearms + 5
    BY <2>1 DEF CountInv
  <2> QED BY <2>1, <2>2, <2>3 DEF EpisodesAreShort
<1> QED BY <1>1, OnlyCounts, Counted, Invariance, PTL

=============================================================================

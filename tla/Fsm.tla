-------------------------------- MODULE Fsm --------------------------------
(***************************************************************************)
(* The escalation state machine of the fuse: fsm::next of                  *)
(* crates/lictor-fuse/src/fsm.rs, one action per row (or per group of rows *)
(* with the same body) of its transition table, together with the counters *)
(* of FuseRt the rows read and write.                                      *)
(*                                                                         *)
(* One step is one call of next().  Its argument is an FsmInput record;    *)
(* FsmInputs is the set of records decide() and fault_tick() can build.    *)
(* Rows are tried top-down and the first match wins, so the guard of an    *)
(* action excludes the rows above it.                                      *)
(*                                                                         *)
(* A definition marked "Mutation of X" is X with a plausible bug; nothing  *)
(* uses it.  Putting it in X's place breaks the property PROJECT.json      *)
(* names, which shows that the property depends on that piece of the code. *)
(***************************************************************************)
EXTENDS Integers, FiniteSets

CONSTANTS
  K, N,                \* k-of-n on the predictive channel
  ClearTicks,          \* clear_ticks
  ClampStreakToBrake,  \* clamp_streak_to_brake
  MaxClamps,           \* max_clamps_per_episode
  StopConfirm,         \* stop_confirm_ticks
  BrakeTimeout,        \* brake_timeout_ticks
  Rearm,               \* rearm: "auto" or "ack_only"
  RearmHold,           \* rearm_hold
  MaxRearms,           \* max_rearms
  EscalateAfter,       \* escalate_after_hold_ticks
  HandoffTimeout,      \* handoff_timeout_ticks
  ClampMode,           \* clamp_mode: "off" or "project"
  Mode,                \* mode: "observe" or "enforce"
  U8Max, U16Max, U32Max,  \* the largest value of each counter's type
  Positions,           \* the coordinates a finite observation can carry
  BoxLo, BoxHi,        \* the workspace box
  Operators,           \* slots of the operator keys in the signed envelope
  Acks,                \* the verified acks the runtime may hand in
  NoAck

States == {"Idle", "Armed", "Watching", "Clamped", "Braking", "Held",
           "Escalated", "Fault", "Terminated"}
Moving == {"Armed", "Watching", "Clamped"}

FaultBits == {"NONFINITE", "SCHEMA", "WATCHDOG"}
Tier0Bits == {"SOFT", "BRAKE"}   \* SOFT stands for any of the six soft bits
FsmBits == {"TIER1_CP", "CLAMP_BUDGET", "HANDOFF_TIMEOUT", "OPERATOR_ABORT",
            "BRAKE_TIMEOUT", "REARM_BUDGET"}
Decisions == {"Resume", "Abort", "Retune"}
AckTokens == [op : Operators, seq : 0..U32Max, nonce : Nat,
              decision : Decisions]

(***************************************************************************)
(* What SafetyEnvelope::validate and the field types guarantee.            *)
(***************************************************************************)
ASSUME WidthAssumption ==
  /\ U8Max \in Nat \ {0}
  /\ U16Max \in Nat /\ U16Max >= U8Max
  /\ U32Max \in Nat /\ U32Max >= U16Max

ASSUME HysteresisAssumption ==
  /\ K \in Nat /\ N \in Nat /\ 1 <= K /\ K <= N
  /\ {ClearTicks, ClampStreakToBrake, StopConfirm, MaxRearms} \subseteq 0..U8Max
  /\ {MaxClamps, BrakeTimeout, RearmHold, EscalateAfter} \subseteq 0..U16Max
  /\ HandoffTimeout \in 0..U32Max
  /\ Rearm \in {"auto", "ack_only"}
  /\ ClampMode \in {"off", "project"}
  /\ Mode \in {"observe", "enforce"}

ASSUME InputAssumption ==
  /\ BoxLo \in Int /\ BoxHi \in Int /\ BoxLo <= BoxHi
  /\ Positions \subseteq Int /\ 0 \in Positions
  /\ Acks \subseteq AckTokens
  /\ NoAck \notin AckTokens

VARIABLES
  state,
  clean_run,                     \* clean ticks in a row, counted in every state
  clamp_streak, clamps,          \* clamped chunks since clear-down; clamped ticks
  brake_ticks, stopped_ticks,    \* this visit to Braking
  held_ticks, held_clean,        \* this visit to Held
  escalated_ticks,               \* this visit to Escalated
  handoff_seq, handoff_pending,
  rearms, last_nonce,
  window,                        \* ages of the hits in the n-bit ring; 0 is newest
  hold,                          \* the latched hold setpoint
  out                            \* what next() returned: extra trips and reason

motionVars  == <<clamp_streak, clamps>>
brakeVars   == <<brake_ticks, stopped_ticks>>
heldVars    == <<held_ticks, held_clean>>
handoffVars == <<escalated_ticks, handoff_seq, handoff_pending>>
ackVars     == <<rearms, last_nonce>>
fsmVars == <<state, clean_run, motionVars, brakeVars, heldVars, handoffVars,
             ackVars, window, hold, out>>

-----------------------------------------------------------------------------
(* Arithmetic, the window and the box.                                     *)

\* Mutation of SatInc: a plain + 1.
SatIncUnbounded(x, max) == x + 1

\* Mutation of SatInc: saturates one short of the type's maximum.
SatIncShort(x, max) == IF x + 1 < max THEN x + 1 ELSE x

\* u8/u16/u32::saturating_add(1)
SatInc(x, max) == IF x < max THEN x + 1 ELSE max

\* handoff_seq.wrapping_add(1)
WrapInc(x) == IF x = U32Max THEN 0 ELSE x + 1

\* bits = ((bits << 1) | hit) & mask, on the set of the bits that are one
Push(w, hit) ==
  {a \in 0..(N - 1) : (a = 0 /\ hit) \/ (a > 0 /\ a - 1 \in w)}

Hits(w) == Cardinality(w)

\* Mutation of Fires: k + 1 of n.
FiresLate(w) == Hits(w) > K

\* window_hits >= cfg.hyst.k
Fires(w) == Hits(w) >= K

ClampToBox(p) == IF p < BoxLo THEN BoxLo ELSE IF p > BoxHi THEN BoxHi ELSE p

-----------------------------------------------------------------------------
(* FsmInput.                                                               *)

\* What fault_tick() passes: the guard bits, nothing ingested, no ack.  Only
\* row 1 reads it, so chunk_boundary is left at FALSE.
GuardInput(bits, pos) ==
  [trips |-> bits, predictive |-> FALSE, warn |-> FALSE, stopped |-> FALSE,
   chunk_boundary |-> FALSE, chunk_ok |-> FALSE, ack |-> NoAck,
   pos |-> pos, window |-> window]

\* What decide() passes once the window has taken this tick's hit.  The score
\* is "low", in the "warn" band below tau, or a "hit" above tau.  The observer
\* takes the robot for stopped.
DecideInput(trips, score, still, chunk, ack, pos) ==
  LET w == Push(window, score = "hit") IN
  [trips |-> trips, predictive |-> Fires(w), warn |-> score = "warn",
   stopped |-> Mode = "observe" \/ still,
   chunk_boundary |-> chunk, chunk_ok |-> chunk /\ trips = {}, ack |-> ack,
   pos |-> pos, window |-> w]

FsmInputs ==
  {GuardInput(b, p) : b \in (SUBSET FaultBits) \ {{}}, p \in Positions}
  \cup
  {DecideInput(t, s, z, c, a, p) :
     t \in SUBSET Tier0Bits, s \in {"low", "warn", "hit"}, z \in BOOLEAN,
     c \in BOOLEAN, a \in Acks \cup {NoAck}, p \in Positions}

Faulting(inp) == inp.trips \cap FaultBits # {}

Clean(inp) == inp.trips = {} /\ ~inp.warn /\ ~inp.predictive

\* Mutation of Accepted: any nonce but the last one counts as fresh.
AcceptedIfOther(a) ==
  /\ a # NoAck
  /\ a.seq = handoff_seq
  /\ a.nonce # last_nonce[a.op]

\* accepted_ack: the two integers next() re-checks itself
Accepted(a) ==
  /\ a # NoAck
  /\ a.seq = handoff_seq
  /\ a.nonce > last_nonce[a.op]

Answers(inp, d) == Accepted(inp.ack) /\ inp.ack.decision = d

FaultReason(trips) ==
  IF "NONFINITE" \in trips THEN "FaultNonFinite"
  ELSE IF "SCHEMA" \in trips THEN "FaultSchema" ELSE "FaultWatchdog"

-----------------------------------------------------------------------------
(* Pieces the rows share.                                                  *)

Emit(s, extra, reason) ==
  /\ state' = s
  /\ out' = [extra |-> extra, reason |-> reason]

CleanRunAfter(inp) == IF Clean(inp) THEN SatInc(clean_run, U16Max) ELSE 0

\* Mutation of LatchHold: the position is not pulled into the box.
LatchHoldRaw(inp) == hold' = inp.pos

\* latch_hold, on one coordinate
LatchHold(inp) == hold' = ClampToBox(inp.pos)

\* Mutation of LatchOnEntry: a Fault that keeps faulting chases the position.
LatchAlways(inp) == LatchHold(inp)

\* Row 1 latches the hold on entry only.
LatchOnEntry(inp) == IF state = "Fault" THEN UNCHANGED hold ELSE LatchHold(inp)

\* Mutation of ConsumeNonce: the nonce is not recorded.
ConsumeNonceLost(a) == UNCHANGED last_nonce

ConsumeNonce(a) == last_nonce' = [last_nonce EXCEPT ![a.op] = a.nonce]

\* Mutation of EnterBraking: stopped ticks of an earlier braking still count.
EnterBrakingStale == brake_ticks' = 0 /\ UNCHANGED stopped_ticks

EnterBraking == brake_ticks' = 0 /\ stopped_ticks' = 0

\* Mutation of EnterHeld: the wait of an earlier visit still counts.
EnterHeldStale == UNCHANGED heldVars

EnterHeld == held_ticks' = 0 /\ held_clean' = 0

-----------------------------------------------------------------------------
(* The rows.  Each is a conjunct of Transition, which has counted clean_run *)
(* and, unless the row clears it, stored the pushed window.                *)

\* Row 1: any state, a fail-closed bit.
FailClosed(inp) ==
  /\ Faulting(inp)
  /\ LatchOnEntry(inp)
  /\ Emit("Fault", {}, FaultReason(inp.trips))
  /\ UNCHANGED <<motionVars, brakeVars, heldVars, handoffVars, ackVars>>

\* The Idle arm: a tick outside an episode fails closed.
FailIdle(inp) ==
  /\ state = "Idle"
  /\ ~Faulting(inp)
  /\ LatchHold(inp)
  /\ Emit("Fault", {}, "FaultInternal")
  /\ UNCHANGED <<motionVars, brakeVars, heldVars, handoffVars, ackVars>>

\* Rows 2 and 3.
StayLatched(inp) ==
  /\ state \in {"Terminated", "Fault"}
  /\ ~Faulting(inp)
  /\ Emit(state, {}, "HeldStandstill")
  /\ UNCHANGED <<motionVars, brakeVars, heldVars, handoffVars, ackVars, hold>>

\* Rows 4 and 10.
AckAbort(inp) ==
  /\ state \in {"Escalated", "Held"}
  /\ ~Faulting(inp)
  /\ Answers(inp, "Abort")
  /\ ConsumeNonce(inp.ack)
  /\ handoff_pending' = FALSE
  /\ Emit("Terminated", {"OPERATOR_ABORT"}, "TerminatedAbort")
  /\ UNCHANGED <<motionVars, brakeVars, heldVars, escalated_ticks, handoff_seq,
                 rearms, hold>>

\* Row 5.
AckRetune(inp) ==
  /\ state = "Escalated"
  /\ ~Faulting(inp)
  /\ Answers(inp, "Retune")
  /\ ConsumeNonce(inp.ack)
  /\ handoff_pending' = FALSE
  /\ Emit("Terminated", {}, "TerminatedRetune")
  /\ UNCHANGED <<motionVars, brakeVars, heldVars, escalated_ticks, handoff_seq,
                 rearms, hold>>

\* Rows 6 and 9: the window and clean_run are cleared too.
RearmAck(inp) ==
  /\ state \in {"Escalated", "Held"}
  /\ ~Faulting(inp)
  /\ Answers(inp, "Resume")
  /\ ConsumeNonce(inp.ack)
  /\ rearms' = SatInc(rearms, U8Max)
  /\ clamp_streak' = 0
  /\ EnterHeld
  /\ escalated_ticks' = 0
  /\ handoff_pending' = FALSE
  /\ Emit("Armed", {}, "RearmedAck")
  /\ UNCHANGED <<clamps, brakeVars, handoff_seq, hold>>

\* Row 7.
ExpireHandoff(inp) ==
  /\ state = "Escalated"
  /\ ~Faulting(inp)
  /\ ~Accepted(inp.ack)
  /\ escalated_ticks >= HandoffTimeout
  /\ handoff_pending' = FALSE
  /\ Emit("Terminated", {"HANDOFF_TIMEOUT"}, "TerminatedTimeout")
  /\ UNCHANGED <<motionVars, brakeVars, heldVars, escalated_ticks, handoff_seq,
                 ackVars, hold>>

\* Row 8.
AwaitAck(inp) ==
  /\ state = "Escalated"
  /\ ~Faulting(inp)
  /\ ~Accepted(inp.ack)
  /\ escalated_ticks < HandoffTimeout
  /\ escalated_ticks' = SatInc(escalated_ticks, U32Max)
  /\ Emit("Escalated", {}, "HeldStandstill")
  /\ UNCHANGED <<motionVars, brakeVars, heldVars, handoff_seq, handoff_pending,
                 ackVars, hold>>

\* Held with no ack that counts there: a Retune is not a row and falls through.
StillHeld(inp) ==
  /\ state = "Held"
  /\ ~Faulting(inp)
  /\ ~Answers(inp, "Resume")
  /\ ~Answers(inp, "Abort")

\* Mutation of MayRearm: one re-arm over the budget.
MayRearmOnceMore(inp) ==
  /\ Rearm = "auto"
  /\ held_clean >= RearmHold
  /\ inp.chunk_ok
  /\ rearms <= MaxRearms

\* Mutation of MayRearm: the fresh chunk's own checks do not count.
MayRearmBlind(inp) ==
  /\ Rearm = "auto"
  /\ held_clean >= RearmHold
  /\ inp.chunk_boundary
  /\ rearms < MaxRearms

MayRearm(inp) ==
  /\ Rearm = "auto"
  /\ held_clean >= RearmHold
  /\ inp.chunk_ok
  /\ rearms < MaxRearms

\* Row 11: only the window is cleared.
RearmAuto(inp) ==
  /\ StillHeld(inp)
  /\ MayRearm(inp)
  /\ rearms' = SatInc(rearms, U8Max)
  /\ Emit("Armed", {}, "RearmedAuto")
  /\ UNCHANGED <<motionVars, brakeVars, heldVars, handoffVars, last_nonce, hold>>

\* Row 12.
Escalate(inp) ==
  /\ StillHeld(inp)
  /\ ~MayRearm(inp)
  /\ held_ticks >= EscalateAfter
  /\ handoff_seq' = WrapInc(handoff_seq)
  /\ handoff_pending' = TRUE
  /\ escalated_ticks' = 0
  /\ IF rearms >= MaxRearms
       THEN Emit("Escalated", {"REARM_BUDGET"}, "EscalateRearmBudget")
       ELSE Emit("Escalated", {}, IF inp.predictive
                                    THEN "EscalateTier1Persistent"
                                    ELSE "EscalateHoldTimeout")
  /\ UNCHANGED <<motionVars, brakeVars, heldVars, ackVars, hold>>

\* Row 13.
StandStill(inp) ==
  /\ StillHeld(inp)
  /\ ~MayRearm(inp)
  /\ held_ticks < EscalateAfter
  /\ held_ticks' = SatInc(held_ticks, U16Max)
  /\ held_clean' = IF Clean(inp) THEN SatInc(held_clean, U16Max) ELSE 0
  /\ Emit("Held", {}, "HeldStandstill")
  /\ UNCHANGED <<motionVars, brakeVars, handoffVars, ackVars, hold>>

StopConfirmed(inp) == inp.stopped /\ stopped_ticks + 1 >= StopConfirm

\* Row 14: a stop that never confirms.
TimeOutBrake(inp) ==
  /\ state = "Braking"
  /\ ~Faulting(inp)
  /\ brake_ticks >= BrakeTimeout
  /\ LatchHold(inp)
  /\ Emit("Fault", {"BRAKE_TIMEOUT"}, "FaultBrakeTimeout")
  /\ UNCHANGED <<motionVars, brakeVars, heldVars, handoffVars, ackVars>>

\* Row 15.
ConfirmStop(inp) ==
  /\ state = "Braking"
  /\ ~Faulting(inp)
  /\ brake_ticks < BrakeTimeout
  /\ StopConfirmed(inp)
  /\ LatchHold(inp)
  /\ EnterHeld
  /\ Emit("Held", {}, "HeldStandstill")
  /\ UNCHANGED <<motionVars, brakeVars, handoffVars, ackVars>>

\* Row 16.
KeepBraking(inp) ==
  /\ state = "Braking"
  /\ ~Faulting(inp)
  /\ brake_ticks < BrakeTimeout
  /\ ~StopConfirmed(inp)
  /\ brake_ticks' = SatInc(brake_ticks, U16Max)
  /\ stopped_ticks' = IF inp.stopped THEN SatInc(stopped_ticks, U8Max) ELSE 0
  /\ Emit("Braking", {}, "Stopping")
  /\ UNCHANGED <<motionVars, heldVars, handoffVars, ackVars, hold>>

Soft(inp) == "SOFT" \in inp.trips

\* Mutation of BudgetSpent: only clamped chunks count, never clamped ticks.
BudgetSpentByStreak == clamp_streak >= ClampStreakToBrake

BudgetSpent == clamp_streak >= ClampStreakToBrake \/ clamps > MaxClamps

\* The conditions of rows 17, 17b, 18 and 19.
MustBrake(inp) ==
  \/ "BRAKE" \in inp.trips
  \/ Soft(inp) /\ ClampMode = "off"
  \/ inp.predictive
  \/ BudgetSpent

\* Rows 17, 17b, 18 and 19: the first cause that holds names the reason.
Brake(inp) ==
  /\ state \in Moving
  /\ ~Faulting(inp)
  /\ MustBrake(inp)
  /\ EnterBraking
  /\ IF "BRAKE" \in inp.trips THEN Emit("Braking", {}, "BrakeInfeasible")
     ELSE IF Soft(inp) /\ ClampMode = "off"
       THEN Emit("Braking", {}, "ClampSoft")
     ELSE IF inp.predictive
       THEN Emit("Braking", {"TIER1_CP"}, "BrakeTier1Cp")
     ELSE Emit("Braking", {"CLAMP_BUDGET"}, "BrakeClampBudget")
  /\ UNCHANGED <<motionVars, heldVars, handoffVars, ackVars, hold>>

\* Row 20.
Clamp(inp) ==
  /\ state \in Moving
  /\ ~Faulting(inp)
  /\ ~MustBrake(inp)
  /\ Soft(inp)
  /\ clamps' = SatInc(clamps, U16Max)
  /\ clamp_streak' = IF inp.chunk_boundary THEN SatInc(clamp_streak, U8Max)
                     ELSE clamp_streak
  /\ Emit("Clamped", {}, "ClampSoft")
  /\ UNCHANGED <<brakeVars, heldVars, handoffVars, ackVars, hold>>

MayClear(inp) == state # "Armed" /\ CleanRunAfter(inp) >= ClearTicks

\* Row 21: the window is cleared.
ClearDown(inp) ==
  /\ state \in Moving
  /\ ~Faulting(inp)
  /\ ~MustBrake(inp)
  /\ ~Soft(inp)
  /\ MayClear(inp)
  /\ clamp_streak' = 0
  /\ Emit("Armed", {}, "Ok")
  /\ UNCHANGED <<clamps, brakeVars, heldVars, handoffVars, ackVars, hold>>

\* Rows 22, 23 and the two stay rows.
Proceed(inp) ==
  /\ state \in Moving
  /\ ~Faulting(inp)
  /\ ~MustBrake(inp)
  /\ ~Soft(inp)
  /\ ~MayClear(inp)
  /\ IF inp.warn \/ Hits(inp.window) >= 1 THEN Emit("Watching", {}, "WatchBand")
     ELSE IF state = "Armed"
       THEN Emit("Armed", {}, IF Mode = "observe" THEN "ObserveOnly" ELSE "Ok")
     ELSE Emit(state, {}, IF state = "Watching" THEN "WatchBand" ELSE "Ok")
  /\ UNCHANGED <<motionVars, brakeVars, heldVars, handoffVars, ackVars, hold>>

-----------------------------------------------------------------------------
(* next() and reset().                                                     *)

Transition(inp) ==
  \/ /\ RearmAck(inp)
     /\ clean_run' = 0 /\ window' = {}
  \/ /\ RearmAuto(inp) \/ ClearDown(inp)
     /\ clean_run' = CleanRunAfter(inp) /\ window' = {}
  \/ /\ \/ FailClosed(inp) \/ FailIdle(inp) \/ StayLatched(inp)
        \/ AckAbort(inp) \/ AckRetune(inp)
        \/ ExpireHandoff(inp) \/ AwaitAck(inp)
        \/ Escalate(inp) \/ StandStill(inp)
        \/ TimeOutBrake(inp) \/ ConfirmStop(inp) \/ KeepBraking(inp)
        \/ Brake(inp) \/ Clamp(inp) \/ Proceed(inp)
     /\ clean_run' = CleanRunAfter(inp) /\ window' = inp.window

\* FuseRt::new
Init ==
  /\ state = "Idle"
  /\ clean_run = 0 /\ clamp_streak = 0 /\ clamps = 0
  /\ brake_ticks = 0 /\ stopped_ticks = 0
  /\ held_ticks = 0 /\ held_clean = 0
  /\ escalated_ticks = 0 /\ handoff_seq = 0 /\ handoff_pending = FALSE
  /\ rearms = 0 /\ last_nonce = [o \in Operators |-> 0]
  /\ window = {} /\ hold = 0
  /\ out = [extra |-> {}, reason |-> "None"]

\* FuseRt::reset, at every episode_begin
Reset ==
  /\ state' = "Armed"
  /\ clean_run' = 0 /\ clamp_streak' = 0 /\ clamps' = 0
  /\ brake_ticks' = 0 /\ stopped_ticks' = 0
  /\ held_ticks' = 0 /\ held_clean' = 0
  /\ escalated_ticks' = 0 /\ handoff_seq' = 0 /\ handoff_pending' = FALSE
  /\ rearms' = 0 /\ last_nonce' = [o \in Operators |-> 0]
  /\ window' = {} /\ hold' = 0
  /\ out' = [extra |-> {}, reason |-> "None"]

Tick == \E inp \in FsmInputs : Transition(inp)

Next == Tick \/ Reset

Spec == Init /\ [][Next]_fsmVars

\* The host calls the fuse once per control period while an episode is open and
\* opens the next one when it is not: calls do not cease.
FairSpec == Spec /\ WF_fsmVars(Next)

-----------------------------------------------------------------------------
(* Types.                                                                  *)

Reasons == {"None", "Ok", "ObserveOnly", "WatchBand", "ClampSoft",
            "BrakeInfeasible", "BrakeTier1Cp", "BrakeClampBudget", "Stopping",
            "HeldStandstill", "RearmedAuto", "RearmedAck",
            "EscalateRearmBudget", "EscalateTier1Persistent",
            "EscalateHoldTimeout", "TerminatedAbort", "TerminatedRetune",
            "TerminatedTimeout", "FaultBrakeTimeout", "FaultNonFinite",
            "FaultSchema", "FaultWatchdog", "FaultInternal"}

\* Every counter of FuseRt stays within its integer type, the window within its
\* n bits, and next() answers with a state, extra trips and a reason it knows.
FsmTypeOK ==
  /\ state \in States
  /\ clean_run \in 0..U16Max /\ clamps \in 0..U16Max
  /\ brake_ticks \in 0..U16Max /\ held_ticks \in 0..U16Max
  /\ held_clean \in 0..U16Max
  /\ clamp_streak \in 0..U8Max /\ stopped_ticks \in 0..U8Max
  /\ rearms \in 0..U8Max
  /\ escalated_ticks \in 0..U32Max /\ handoff_seq \in 0..U32Max
  /\ handoff_pending \in BOOLEAN
  /\ last_nonce \in [Operators -> Nat]
  /\ window \in SUBSET (0..(N - 1))
  /\ hold \in Int
  /\ out \in [extra : SUBSET FsmBits, reason : Reasons]

-----------------------------------------------------------------------------
(* Liveness, under FairSpec.                                               *)

\* Every stop, hold and handoff ends, whatever the inputs are: none of the
\* counters behind rows 7, 12 and 14 can be starved, reset or saturated short
\* of its limit.
StopsResolve ==
  \A s \in {"Braking", "Held", "Escalated"} : (state = s) ~> (state # s)

\* An episode cannot brake, hold and re-arm for ever by itself: unless new
\* episodes or operators' resumes keep coming, it ends up moving for good or
\* latched for good.
EpisodeSettles ==
  \/ []<>(out.reason \in {"None", "RearmedAck"})
  \/ <>[](state \in Moving)
  \/ <>[](state \in {"Fault", "Terminated"})
=============================================================================

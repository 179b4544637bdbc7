----------------------------- MODULE FsmLemmas -----------------------------
(***************************************************************************)
(* What the proofs about next() share: its input, its arithmetic, and type *)
(* correctness of the state machine, for every envelope.                   *)
(***************************************************************************)
EXTENDS Fsm, TLAPS

-----------------------------------------------------------------------------
(* The input and the arithmetic.                                           *)

InputType ==
  [trips : SUBSET (FaultBits \cup Tier0Bits), predictive : BOOLEAN,
   warn : BOOLEAN, stopped : BOOLEAN, chunk_boundary : BOOLEAN,
   chunk_ok : BOOLEAN, ack : Acks \cup {NoAck}, pos : Int,
   window : SUBSET (0..(N - 1))]

\* Whatever decide() and fault_tick() hand to next() is an FsmInput of these
\* types; a tick without a fail-closed bit has counted its window.
LEMMA InputFacts ==
  ASSUME window \in SUBSET (0..(N - 1)), NEW inp \in FsmInputs
  PROVE  /\ inp \in InputType
         /\ ~Faulting(inp) => (inp.predictive <=> Fires(inp.window))
<1>1. CASE \E b \in (SUBSET FaultBits) \ {{}}, p \in Positions :
             inp = GuardInput(b, p)
  <2>1. PICK b \in (SUBSET FaultBits) \ {{}}, p \in Positions :
          inp = GuardInput(b, p)
    BY <1>1
  <2>2. inp.trips = b /\ b \cap FaultBits = b /\ b # {}
    BY <2>1 DEF GuardInput
  <2>3. Faulting(inp)
    BY <2>2 DEF Faulting
  <2>4. p \in Int
    BY InputAssumption
  <2>5. inp \in InputType
    BY <2>1, <2>4 DEF GuardInput, InputType
  <2> QED BY <2>3, <2>5
<1>2. CASE \E t \in SUBSET Tier0Bits, s \in {"low", "warn", "hit"},
              z \in BOOLEAN, c \in BOOLEAN, a \in Acks \cup {NoAck},
              p \in Positions : inp = DecideInput(t, s, z, c, a, p)
  <2>1. PICK t \in SUBSET Tier0Bits, s \in {"low", "warn", "hit"},
             z \in BOOLEAN, c \in BOOLEAN, a \in Acks \cup {NoAck},
             p \in Positions : inp = DecideInput(t, s, z, c, a, p)
    BY <1>2
  <2>2. Push(window, s = "hit") \in SUBSET (0..(N - 1))
    BY DEF Push
  <2>3. p \in Int
    BY InputAssumption
  <2>4. Fires(Push(window, s = "hit")) \in BOOLEAN
    BY DEF Fires
  <2>5. inp \in InputType
    BY <2>1, <2>2, <2>3, <2>4 DEF DecideInput, InputType
  <2>6. inp.predictive = Fires(inp.window)
    BY <2>1 DEF DecideInput
  <2> QED BY <2>5, <2>6
<1> QED BY <1>1, <1>2 DEF FsmInputs

\* A saturating increment stays in its type, and is exact below the maximum.
LEMMA SatIncFacts ==
  ASSUME NEW max \in Nat, NEW x \in 0..max
  PROVE  /\ SatInc(x, max) \in 0..max
         /\ SatInc(x, max) \in x..(x + 1)
         /\ x < max => SatInc(x, max) = x + 1
BY DEF SatInc

\* A clamped point is an integer of the box.
LEMMA ClampFacts ==
  ASSUME NEW p \in Int
  PROVE  ClampToBox(p) \in BoxLo..BoxHi /\ ClampToBox(p) \in Int
BY InputAssumption DEF ClampToBox

\* An accepted ack names an operator and a nonce above the last one.
LEMMA AckFacts ==
  ASSUME NEW a \in Acks \cup {NoAck}, Accepted(a)
  PROVE  a.op \in Operators /\ a.nonce \in Nat /\ a.nonce > last_nonce[a.op]
BY InputAssumption DEF Accepted, AckTokens

-----------------------------------------------------------------------------
(* Type correctness.                                                       *)

\* The rows that store the pushed window.
Storing(inp) ==
  \/ FailClosed(inp) \/ FailIdle(inp) \/ StayLatched(inp)
  \/ AckAbort(inp) \/ AckRetune(inp)
  \/ ExpireHandoff(inp) \/ AwaitAck(inp)
  \/ Escalate(inp) \/ StandStill(inp)
  \/ TimeOutBrake(inp) \/ ConfirmStop(inp) \/ KeepBraking(inp)
  \/ Brake(inp) \/ Clamp(inp) \/ Proceed(inp)

\* Every call of next() keeps every field of FuseRt in its type.
LEMMA TransitionTypes ==
  ASSUME FsmTypeOK, NEW inp \in FsmInputs, Transition(inp)
  PROVE  FsmTypeOK'
<1> USE WidthAssumption, HysteresisAssumption
<1>1. inp \in InputType
  BY InputFacts DEF FsmTypeOK
<1>2. CleanRunAfter(inp) \in 0..U16Max
  <2>1. SatInc(clean_run, U16Max) \in 0..U16Max
    BY SatIncFacts DEF FsmTypeOK
  <2> QED BY <2>1 DEF CleanRunAfter
<1>3. ClampToBox(inp.pos) \in Int
  BY <1>1, ClampFacts DEF InputType
<1>4. ASSUME Accepted(inp.ack)
      PROVE  [last_nonce EXCEPT ![inp.ack.op] = inp.ack.nonce]
               \in [Operators -> Nat]
  BY <1>1, <1>4, AckFacts DEF InputType, FsmTypeOK
<1>5. /\ SatInc(rearms, U8Max) \in 0..U8Max
      /\ SatInc(clamp_streak, U8Max) \in 0..U8Max
      /\ SatInc(stopped_ticks, U8Max) \in 0..U8Max
      /\ SatInc(clamps, U16Max) \in 0..U16Max
      /\ SatInc(brake_ticks, U16Max) \in 0..U16Max
      /\ SatInc(held_ticks, U16Max) \in 0..U16Max
      /\ SatInc(held_clean, U16Max) \in 0..U16Max
      /\ SatInc(escalated_ticks, U32Max) \in 0..U32Max
  BY SatIncFacts DEF FsmTypeOK
<1> DEFINE Stores == clean_run' = CleanRunAfter(inp) /\ window' = inp.window
<1>6. CASE RearmAck(inp) /\ clean_run' = 0 /\ window' = {}
  <2>1. last_nonce' \in [Operators -> Nat]
    BY <1>4, <1>6 DEF RearmAck, Answers, ConsumeNonce
  <2>2. state' \in States /\ out' \in [extra : SUBSET FsmBits, reason : Reasons]
    BY <1>6 DEF RearmAck, Emit, States, Reasons
  <2>3. /\ clean_run' = 0 /\ clamp_streak' = 0 /\ held_ticks' = 0
        /\ held_clean' = 0 /\ escalated_ticks' = 0 /\ window' = {}
        /\ handoff_pending' = FALSE /\ rearms' = SatInc(rearms, U8Max)
    BY <1>6 DEF RearmAck, EnterHeld
  <2>4. UNCHANGED <<clamps, brake_ticks, stopped_ticks, handoff_seq, hold>>
    BY <1>6 DEF RearmAck, brakeVars
  <2>5. 0 \in 0..U8Max /\ 0 \in 0..U16Max /\ 0 \in 0..U32Max
    OBVIOUS
  <2>6. {} \in SUBSET (0..(N - 1)) /\ FALSE \in BOOLEAN
    OBVIOUS
  <2> HIDE WidthAssumption, HysteresisAssumption
  <2> QED BY <1>5, <2>1, <2>2, <2>3, <2>4, <2>5, <2>6 DEF FsmTypeOK
<1>7. CASE /\ RearmAuto(inp) \/ ClearDown(inp)
           /\ clean_run' = CleanRunAfter(inp) /\ window' = {}
  <2>1. CASE RearmAuto(inp)
    BY <1>2, <1>5, <1>7, <2>1 DEF RearmAuto, Emit, States, Reasons, FsmTypeOK,
       motionVars, brakeVars, heldVars, handoffVars
  <2>2. CASE ClearDown(inp)
    BY <1>2, <1>7, <2>2 DEF ClearDown, Emit, States, Reasons, FsmTypeOK,
       brakeVars, heldVars, handoffVars, ackVars
  <2> QED BY <1>7, <2>1, <2>2
<1>8. CASE Storing(inp) /\ Stores
  <2>1. clean_run' \in 0..U16Max /\ window' \in SUBSET (0..(N - 1))
    BY <1>1, <1>2, <1>8 DEF InputType
  <2>2. CASE FailClosed(inp)
    BY <1>3, <2>1, <2>2
       DEF FailClosed, LatchOnEntry, LatchHold, FaultReason, Emit,
       States, Reasons, FsmBits, FsmTypeOK, motionVars, brakeVars, heldVars,
       handoffVars, ackVars
  <2>3. CASE FailIdle(inp)
    BY <1>3, <2>1, <2>3
       DEF FailIdle, LatchHold, Emit,
       States, Reasons, FsmBits, FsmTypeOK, motionVars, brakeVars, heldVars,
       handoffVars, ackVars
  <2>4. CASE StayLatched(inp)
    BY <2>1, <2>4
       DEF StayLatched, Emit,
       States, Reasons, FsmBits, FsmTypeOK, motionVars, brakeVars, heldVars,
       handoffVars, ackVars
  <2>5. CASE AckAbort(inp)
    BY <1>4, <2>1, <2>5
       DEF AckAbort, ConsumeNonce, Answers, Emit,
       States, Reasons, FsmBits, FsmTypeOK, motionVars, brakeVars, heldVars,
       handoffVars, ackVars
  <2>6. CASE AckRetune(inp)
    BY <1>4, <2>1, <2>6
       DEF AckRetune, ConsumeNonce, Answers, Emit,
       States, Reasons, FsmBits, FsmTypeOK, motionVars, brakeVars, heldVars,
       handoffVars, ackVars
  <2>7. CASE ExpireHandoff(inp)
    BY <2>1, <2>7
       DEF ExpireHandoff, Emit,
       States, Reasons, FsmBits, FsmTypeOK, motionVars, brakeVars, heldVars,
       handoffVars, ackVars
  <2>8. CASE AwaitAck(inp)
    BY <1>5, <2>1, <2>8
       DEF AwaitAck, Emit,
       States, Reasons, FsmBits, FsmTypeOK, motionVars, brakeVars, heldVars,
       handoffVars, ackVars
  <2>9. CASE Escalate(inp)
    BY <2>1, <2>9
       DEF Escalate, WrapInc, Emit,
       States, Reasons, FsmBits, FsmTypeOK, motionVars, brakeVars, heldVars,
       handoffVars, ackVars
  <2>10. CASE StandStill(inp)
    BY <1>5, <2>1, <2>10
       DEF StandStill, StillHeld, Emit,
       States, Reasons, FsmBits, FsmTypeOK, motionVars, brakeVars, heldVars,
       handoffVars, ackVars
  <2>11. CASE TimeOutBrake(inp)
    BY <1>3, <2>1, <2>11
       DEF TimeOutBrake, LatchHold, Emit,
       States, Reasons, FsmBits, FsmTypeOK, motionVars, brakeVars, heldVars,
       handoffVars, ackVars
  <2>12. CASE ConfirmStop(inp)
    BY <1>3, <2>1, <2>12
       DEF ConfirmStop, LatchHold, EnterHeld, Emit,
       States, Reasons, FsmBits, FsmTypeOK, motionVars, brakeVars, heldVars,
       handoffVars, ackVars
  <2>13. CASE KeepBraking(inp)
    BY <1>5, <2>1, <2>13
       DEF KeepBraking, Emit,
       States, Reasons, FsmBits, FsmTypeOK, motionVars, brakeVars, heldVars,
       handoffVars, ackVars
  <2>14. CASE Brake(inp)
    BY <2>1, <2>14
       DEF Brake, EnterBraking, Emit,
       States, Reasons, FsmBits, FsmTypeOK, motionVars, brakeVars, heldVars,
       handoffVars, ackVars
  <2>15. CASE Clamp(inp)
    BY <1>5, <2>1, <2>15
       DEF Clamp, Emit,
       States, Reasons, FsmBits, FsmTypeOK, motionVars, brakeVars, heldVars,
       handoffVars, ackVars
  <2>16. CASE Proceed(inp)
    BY <2>1, <2>16
       DEF Proceed, Emit,
       States, Reasons, FsmBits, FsmTypeOK, motionVars, brakeVars, heldVars,
       handoffVars, ackVars
  <2> QED BY <1>8, <2>2, <2>3, <2>4, <2>5, <2>6, <2>7, <2>8, <2>9, <2>10, <2>11, <2>12, <2>13, <2>14, <2>15, <2>16 DEF Storing
<1> QED BY <1>6, <1>7, <1>8 DEF Transition, Storing

\* A fresh FuseRt and a reset one are well typed.
LEMMA FreshTypes ==
  /\ Init => FsmTypeOK
  /\ Reset => FsmTypeOK'
<1>1. 0 \in 0..U8Max /\ 0 \in 0..U16Max /\ 0 \in 0..U32Max
  BY WidthAssumption
<1>2. [o \in Operators |-> 0] \in [Operators -> Nat]
  OBVIOUS
<1>3. [extra |-> {}, reason |-> "None"]
        \in [extra : SUBSET FsmBits, reason : Reasons]
  BY DEF Reasons
<1>4. {} \in SUBSET (0..(N - 1)) /\ {"Idle", "Armed"} \subseteq States
  BY DEF States
<1>5. /\ Init => handoff_pending \in BOOLEAN
      /\ Reset => handoff_pending' \in BOOLEAN
  BY Zenon DEF Init, Reset
<1>6. Init => FsmTypeOK
  BY <1>1, <1>2, <1>3, <1>4, <1>5 DEF Init, FsmTypeOK
<1>7. Reset => FsmTypeOK'
  BY <1>1, <1>2, <1>3, <1>4, <1>5 DEF Reset, FsmTypeOK
<1> QED BY <1>6, <1>7

\* A step that changes nothing keeps the types.
LEMMA FsmStutter ==
  ASSUME FsmTypeOK, UNCHANGED fsmVars
  PROVE  FsmTypeOK'
BY DEF FsmTypeOK, fsmVars, motionVars, brakeVars, heldVars, handoffVars, ackVars

\* Type correctness, for every envelope: no counter of FuseRt leaves its
\* integer type, and next() answers only with states, trips and reasons it
\* declares.
THEOREM FsmTypeCorrect == Spec => []FsmTypeOK
<1>1. Init => FsmTypeOK
  BY FreshTypes
<1>2. FsmTypeOK /\ [Next]_fsmVars => FsmTypeOK'
  BY TransitionTypes, FreshTypes, FsmStutter DEF Next, Tick
<1> QED BY <1>1, <1>2, PTL DEF Spec
=============================================================================

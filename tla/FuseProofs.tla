----------------------------- MODULE FuseProofs -----------------------------
(***************************************************************************)
(* Theorems about the tick of Fuse, for every envelope.                    *)
(***************************************************************************)
EXTENDS Fuse, FsmLemmas

\* The position kept is always one that some observation carried.
PosSeen == pos \in Positions

\* Neither decide() nor fault_tick() writes a position no observation carried.
LEMMA FusePosSeen == FuseSpec => []PosSeen
<1>1. FuseInit => PosSeen
  BY InputAssumption DEF FuseInit, PosSeen
<1>2. PosSeen /\ [FuseNext]_fuseVars => PosSeen'
  BY InputAssumption
     DEF PosSeen, FuseNext, FuseTick, FaultTick, Decide, SeenPositions,
     TickInputs, FuseReset, fuseVars
<1> QED BY <1>1, <1>2, PTL DEF FuseSpec

\* A GUARD tick and an admitted tick are each one call of next() on an input
\* FsmInputs has.
LEMMA TickIsTransition ==
  ASSUME PosSeen, FuseTick
  PROVE  Tick
<1>1. ASSUME NEW bits \in (SUBSET FaultBits) \ {{}},
             NEW seen \in SeenPositions(bits), FaultTick(bits, seen)
      PROVE  Tick
  <2>1. seen \in Positions
    BY DEF PosSeen, SeenPositions
  <2>2. GuardInput(bits, seen) \in FsmInputs
    BY <2>1 DEF FsmInputs
  <2> QED BY <1>1, <2>2 DEF FaultTick, Tick
<1>2. ASSUME NEW inp \in TickInputs, Decide(inp)
      PROVE  Tick
  <2>1. /\ inp.trips \in SUBSET Tier0Bits
        /\ inp.score \in {"low", "warn", "hit"}
        /\ inp.still \in BOOLEAN
        /\ inp.ack \in Acks \cup {NoAck}
        /\ inp.pos \in Positions
    BY DEF TickInputs
  <2>2. \A t \in SUBSET Tier0Bits, s \in {"low", "warn", "hit"},
           z \in BOOLEAN, c \in BOOLEAN, a \in Acks \cup {NoAck},
           p \in Positions : DecideInput(t, s, z, c, a, p) \in FsmInputs
    BY DEF FsmInputs
  <2>3. Delivers(inp) \in BOOLEAN
    BY DEF Delivers
  <2>4. DecideInput(inp.trips, inp.score, inp.still, Delivers(inp), inp.ack,
                    inp.pos) \in FsmInputs
    BY <2>1, <2>2, <2>3
  <2> QED BY <1>2, <2>4 DEF Decide, Tick
<1> QED BY <1>1, <1>2 DEF FuseTick

\* decide() implements the state machine: only next() and reset() write its
\* variables, once per tick, so every theorem about Fsm holds of the fuse.
THEOREM FuseImplementsFsm == FuseSpec => Spec
<1>1. FuseInit => Init
  BY DEF FuseInit
<1>2. PosSeen /\ [FuseNext]_fuseVars => [Next]_fsmVars
  <2> SUFFICES ASSUME PosSeen, [FuseNext]_fuseVars PROVE [Next]_fsmVars
    OBVIOUS
  <2>1. CASE FuseTick
    BY <2>1, TickIsTransition DEF Next
  <2>2. CASE FuseReset
    BY <2>2 DEF FuseReset, Next
  <2>3. CASE UNCHANGED fuseVars
    BY <2>3 DEF fuseVars
  <2> QED BY <2>1, <2>2, <2>3 DEF FuseNext
<1> QED BY <1>1, <1>2, FusePosSeen, PTL DEF FuseSpec, Spec

-----------------------------------------------------------------------------
(* What a verdict tells its reader.                                        *)

\* Which rows touch the handoff and the nonces, and how their reasons tell.
Signals(inp) ==
  \/ /\ state # "Escalated" /\ state' = "Escalated"
     /\ handoff_seq' = WrapInc(handoff_seq) /\ handoff_pending' = TRUE
     /\ last_nonce' = last_nonce
     /\ out'.reason \notin AckReasons
  \/ /\ state' # "Escalated"
     /\ handoff_seq' = handoff_seq /\ handoff_pending' = FALSE
     /\ Accepted(inp.ack)
     /\ last_nonce' = [last_nonce EXCEPT ![inp.ack.op] = inp.ack.nonce]
     /\ out'.reason \in AckReasons
  \/ /\ state' # "Escalated"
     /\ handoff_seq' = handoff_seq /\ handoff_pending' = FALSE
     /\ last_nonce' = last_nonce
     /\ out'.reason = "TerminatedTimeout"
  \/ /\ ~(state # "Escalated" /\ state' = "Escalated")
     /\ handoff_seq' = handoff_seq /\ handoff_pending' = handoff_pending
     /\ last_nonce' = last_nonce
     /\ out'.reason \notin AckReasons \cup {"TerminatedTimeout"}

\* Each row's reason tells what it did to the handoff and to the nonces.
LEMMA RowSignals ==
  ASSUME NEW inp, Transition(inp)
  PROVE  Signals(inp)
<1> USE DEF Signals, AckReasons, Emit, handoffVars, ackVars
<1>1. CASE RearmAck(inp)
  BY <1>1 DEF RearmAck, Answers, ConsumeNonce
<1>2. CASE RearmAuto(inp)
  BY <1>2 DEF RearmAuto, StillHeld
<1>3. CASE ClearDown(inp)
  BY <1>3 DEF ClearDown, Moving
<1>4. CASE FailClosed(inp)
  BY <1>4 DEF FailClosed, FaultReason
<1>5. CASE FailIdle(inp)
  BY <1>5 DEF FailIdle
<1>6. CASE StayLatched(inp)
  BY <1>6 DEF StayLatched
<1>7. CASE AckAbort(inp)
  BY <1>7 DEF AckAbort, Answers, ConsumeNonce
<1>8. CASE AckRetune(inp)
  BY <1>8 DEF AckRetune, Answers, ConsumeNonce
<1>9. CASE ExpireHandoff(inp)
  BY <1>9 DEF ExpireHandoff
<1>10. CASE AwaitAck(inp)
  BY <1>10 DEF AwaitAck
<1>11. CASE Escalate(inp)
  <2>1. /\ state = "Held" /\ state' = "Escalated"
        /\ handoff_seq' = WrapInc(handoff_seq) /\ handoff_pending' = TRUE
        /\ last_nonce' = last_nonce
    BY <1>11 DEF Escalate, StillHeld
  <2>2. out'.reason \in {"EscalateRearmBudget", "EscalateTier1Persistent",
                         "EscalateHoldTimeout"}
    <3>1. CASE rearms >= MaxRearms
      BY <1>11, <3>1 DEF Escalate
    <3>2. CASE ~(rearms >= MaxRearms) /\ inp.predictive
      BY <1>11, <3>2 DEF Escalate
    <3>3. CASE ~(rearms >= MaxRearms) /\ ~inp.predictive
      BY <1>11, <3>3 DEF Escalate
    <3> QED BY <3>1, <3>2, <3>3
  <2> QED BY <2>1, <2>2
<1>12. CASE StandStill(inp)
  BY <1>12 DEF StandStill, StillHeld
<1>13. CASE TimeOutBrake(inp)
  BY <1>13 DEF TimeOutBrake
<1>14. CASE ConfirmStop(inp)
  BY <1>14 DEF ConfirmStop
<1>15. CASE KeepBraking(inp)
  BY <1>15 DEF KeepBraking
<1>16. CASE Brake(inp)
  BY <1>16 DEF Brake
<1>17. CASE Clamp(inp)
  BY <1>17 DEF Clamp
<1>18. CASE Proceed(inp)
  BY <1>18 DEF Proceed, Moving
<1> QED
  BY <1>1, <1>2, <1>3, <1>4, <1>5, <1>6,
     <1>7, <1>8, <1>9, <1>10, <1>11, <1>12,
     <1>13, <1>14, <1>15, <1>16, <1>17, <1>18
     DEF Transition

\* A GUARD tick touches neither, and takes no ack.
LEMMA GuardSignals ==
  ASSUME NEW bits \in (SUBSET FaultBits) \ {{}}, NEW seen,
         FaultTick(bits, seen)
  PROVE  /\ UNCHANGED <<handoff_seq, handoff_pending, last_nonce>>
         /\ verdict'.handoff = FALSE /\ verdict'.ackConsumed = FALSE
         /\ out'.reason \notin AckReasons \cup {"TerminatedTimeout"}
<1> DEFINE inp == GuardInput(bits, seen)
<1>1. Transition(inp) /\ Faulting(inp)
  BY DEF FaultTick, Faulting, GuardInput
<1>2. FailClosed(inp)
  BY <1>1 DEF Transition, RearmAck, RearmAuto, ClearDown, StillHeld, FailIdle,
     StayLatched, AckAbort, AckRetune, ExpireHandoff, AwaitAck, Escalate,
     StandStill, TimeOutBrake, ConfirmStop, KeepBraking, Brake, Clamp, Proceed
<1>3. out'.reason \in {"FaultNonFinite", "FaultSchema", "FaultWatchdog"}
  BY <1>2 DEF FailClosed, Emit, FaultReason
<1> QED BY <1>2, <1>3
   DEF FailClosed, handoffVars, ackVars, FaultTick, AckReasons

\* What a verdict says of the handoff and of the ack, case by case.
LEMMA DecideSignals ==
  ASSUME FsmTypeOK, HostKnowsHandoff, NEW inp \in TickInputs, Decide(inp)
  PROVE  HostKnowsHandoff' /\ (verdict'.ackConsumed <=> last_nonce' # last_nonce)
<1> DEFINE di == DecideInput(inp.trips, inp.score, inp.still, Delivers(inp),
                             inp.ack, inp.pos)
<1>1. /\ Transition(di)
      /\ di.ack = inp.ack
      /\ inp.ack \in Acks \cup {NoAck}
  BY DEF Decide, DecideInput, TickInputs
<1>2. /\ verdict'.handoff = (state' = "Escalated" /\ state # "Escalated")
      /\ verdict'.ackConsumed = (inp.ack # NoAck /\ out'.reason \in AckReasons)
  BY DEF Decide
<1>3. /\ asked' = IF verdict'.handoff THEN WrapInc(asked) ELSE asked
      /\ open' = \/ verdict'.handoff
                 \/ /\ open
                    /\ ~verdict'.ackConsumed
                    /\ out'.reason # "TerminatedTimeout"
  BY DEF Decide, Announce
<1>4. handoff_seq = asked /\ handoff_pending = open /\ open \in BOOLEAN
  BY DEF HostKnowsHandoff, FsmTypeOK
<1>5. Signals(di)
  <2> HIDE DEF di
  <2> QED BY <1>1, RowSignals
<1> HIDE DEF di
<1>6. CASE /\ state # "Escalated" /\ state' = "Escalated"
           /\ handoff_seq' = WrapInc(handoff_seq) /\ handoff_pending' = TRUE
           /\ last_nonce' = last_nonce
           /\ out'.reason \notin AckReasons
  <2>1. asked' = WrapInc(asked) /\ open' = TRUE /\ ~verdict'.ackConsumed
    BY <1>2, <1>3, <1>6
  <2> QED BY <2>1, <1>4, <1>6 DEF HostKnowsHandoff
<1>7. CASE /\ state' # "Escalated"
           /\ handoff_seq' = handoff_seq /\ handoff_pending' = FALSE
           /\ Accepted(di.ack)
           /\ last_nonce' = [last_nonce EXCEPT ![di.ack.op] = di.ack.nonce]
           /\ out'.reason \in AckReasons
  <2>1. inp.ack # NoAck
    BY <1>1, <1>7 DEF Accepted
  <2>2. asked' = asked /\ open' = FALSE /\ verdict'.ackConsumed
    BY <1>2, <1>3, <1>7, <2>1
  <2>3. inp.ack.op \in Operators /\ inp.ack.nonce \in Nat
    BY <1>1, <1>7, AckFacts
  <2>4. last_nonce' # last_nonce
    <3>1. /\ last_nonce'[inp.ack.op] = inp.ack.nonce
          /\ last_nonce[inp.ack.op] \in Nat
          /\ inp.ack.nonce > last_nonce[inp.ack.op]
      BY <1>1, <1>7, <2>3 DEF FsmTypeOK, Accepted
    <3> QED BY <3>1, <2>3
  <2> QED BY <2>2, <2>4, <1>4, <1>7 DEF HostKnowsHandoff
<1>8. CASE /\ state' # "Escalated"
           /\ handoff_seq' = handoff_seq /\ handoff_pending' = FALSE
           /\ last_nonce' = last_nonce
           /\ out'.reason = "TerminatedTimeout"
  <2>1. asked' = asked /\ open' = FALSE /\ ~verdict'.ackConsumed
    BY <1>2, <1>3, <1>8 DEF AckReasons
  <2> QED BY <2>1, <1>4, <1>8 DEF HostKnowsHandoff
<1>9. CASE /\ ~(state # "Escalated" /\ state' = "Escalated")
           /\ handoff_seq' = handoff_seq /\ handoff_pending' = handoff_pending
           /\ last_nonce' = last_nonce
           /\ out'.reason \notin AckReasons \cup {"TerminatedTimeout"}
  <2>1. verdict'.handoff = FALSE /\ verdict'.ackConsumed = FALSE
        /\ out'.reason # "TerminatedTimeout"
    BY <1>2, <1>9
  <2>2. asked' = asked
    BY <1>3, <2>1
  <2>3. open' = open
    BY <1>3, <1>4, <2>1
  <2> QED BY <2>1, <2>2, <2>3, <1>4, <1>9 DEF HostKnowsHandoff
<1> QED BY <1>5, <1>6, <1>7, <1>8, <1>9 DEF Signals

\* The same for a GUARD tick.
LEMMA FaultSignals ==
  ASSUME FsmTypeOK, HostKnowsHandoff,
         NEW bits \in (SUBSET FaultBits) \ {{}}, NEW seen, FaultTick(bits, seen)
  PROVE  HostKnowsHandoff' /\ (verdict'.ackConsumed <=> last_nonce' # last_nonce)
<1>1. /\ UNCHANGED <<handoff_seq, handoff_pending, last_nonce>>
      /\ verdict'.handoff = FALSE /\ verdict'.ackConsumed = FALSE
      /\ out'.reason # "TerminatedTimeout"
  BY GuardSignals
<1>2. /\ asked' = IF verdict'.handoff THEN WrapInc(asked) ELSE asked
      /\ open' = \/ verdict'.handoff
                 \/ /\ open
                    /\ ~verdict'.ackConsumed
                    /\ out'.reason # "TerminatedTimeout"
  BY DEF FaultTick, Announce
<1>3. handoff_seq = asked /\ handoff_pending = open /\ open \in BOOLEAN
  BY DEF HostKnowsHandoff, FsmTypeOK
<1>4. asked' = asked /\ open' = open
  BY <1>1, <1>2, <1>3
<1> QED BY <1>1, <1>3, <1>4 DEF HostKnowsHandoff

\* Every step of the fuse keeps the host's account right and reports an ack
\* exactly when its nonce is spent.
LEMMA SignalsKept ==
  ASSUME FsmTypeOK, HostKnowsHandoff, [FuseNext]_fuseVars
  PROVE  /\ HostKnowsHandoff'
         /\ [~FuseReset => (verdict'.ackConsumed <=> last_nonce' # last_nonce)]_fuseVars
<1>1. CASE \E bits \in (SUBSET FaultBits) \ {{}} :
             \E seen \in SeenPositions(bits) : FaultTick(bits, seen)
  BY <1>1, FaultSignals
<1>2. CASE \E inp \in TickInputs : Decide(inp)
  BY <1>2, DecideSignals
<1>3. CASE FuseReset
  BY <1>3 DEF FuseReset, Reset, HostKnowsHandoff
<1>4. CASE UNCHANGED fuseVars
  BY <1>4 DEF fuseVars, fsmVars, handoffVars, HostKnowsHandoff
<1> QED BY <1>1, <1>2, <1>3, <1>4 DEF FuseNext, FuseTick

\* The fuse types the machine's state: it implements the machine.
LEMMA FuseKeepsFsmTypes == FuseSpec => []FsmTypeOK
BY FuseImplementsFsm, FsmTypeCorrect, PTL

\* A host that reads only verdicts knows which handoff is outstanding: the
\* number next() compares an ack with, and whether it is still pending.
THEOREM HostInformed == FuseSpec => []HostKnowsHandoff
<1>1. FuseInit => HostKnowsHandoff
  BY DEF FuseInit, Init, HostKnowsHandoff
<1> QED BY <1>1, SignalsKept, FuseKeepsFsmTypes, PTL DEF FuseSpec

\* A verdict reports an ack as consumed exactly when next() spent its nonce.
THEOREM AcksReported == FuseSpec => AckReportedIffSpent
<1> QED BY HostInformed, SignalsKept, FuseKeepsFsmTypes, PTL
        DEF FuseSpec, AckReportedIffSpent

-----------------------------------------------------------------------------
(* What a verdict lets through.                                            *)

\* Whichever row moves the robot has looked at the trips of its tick, but for the
\* operator's Resume; a fresh chunk counts as ok only without trips.
LEMMA RowPolicies ==
  ASSUME NEW inp, Transition(inp), inp.chunk_ok => inp.trips = {}
  PROVE  /\ state' \in {"Armed", "Watching"} /\ inp.trips \cap Tier0Bits # {}
              => out'.reason = "RearmedAck"
         /\ state' = "Clamped" => "BRAKE" \notin inp.trips
         /\ out'.extra \subseteq FsmBits
<1> USE DEF Emit, Tier0Bits, FsmBits
<1>1. CASE RearmAck(inp)
  BY <1>1 DEF RearmAck
<1>2. CASE RearmAuto(inp)
  BY <1>2 DEF RearmAuto, MayRearm
<1>3. CASE ClearDown(inp)
  BY <1>3 DEF ClearDown, MustBrake, Soft
<1>4. CASE FailClosed(inp) \/ FailIdle(inp) \/ StayLatched(inp)
  BY <1>4 DEF FailClosed, FailIdle, StayLatched
<1>5. CASE AckAbort(inp) \/ AckRetune(inp) \/ ExpireHandoff(inp) \/ AwaitAck(inp)
  BY <1>5 DEF AckAbort, AckRetune, ExpireHandoff, AwaitAck
<1>6. CASE Escalate(inp)
  BY <1>6 DEF Escalate
<1>7. CASE StandStill(inp) \/ TimeOutBrake(inp) \/ ConfirmStop(inp) \/ KeepBraking(inp)
  BY <1>7 DEF StandStill, TimeOutBrake, ConfirmStop, KeepBraking
<1>8. CASE Brake(inp)
  BY <1>8 DEF Brake
<1>9. CASE Clamp(inp)
  BY <1>9 DEF Clamp, MustBrake
<1>10. CASE Proceed(inp)
  BY <1>10 DEF Proceed, MustBrake, Soft
<1> QED
  BY <1>1, <1>2, <1>3, <1>4, <1>5, <1>6, <1>7, <1>8, <1>9, <1>10 DEF Transition

\* The same of the verdict of a tick that passed GUARD.
LEMMA DecidePolicies ==
  ASSUME NEW inp \in TickInputs, Decide(inp) PROVE TripsAreActedOn'
<1> DEFINE di == DecideInput(inp.trips, inp.score, inp.still, Delivers(inp),
                             inp.ack, inp.pos)
<1>1. /\ Transition(di) /\ di.trips = inp.trips /\ (di.chunk_ok => di.trips = {})
      /\ verdict'.trips = inp.trips \cup out'.extra
      /\ verdict'.src = IF Mode = "observe" THEN "Policy" ELSE SourceOf(state')
      /\ Admitted(inp) /\ cur' = CurAfter(inp) /\ inp.chunk \in Deliveries
  BY DEF Decide, DecideInput, TickInputs
<1> HIDE DEF di
<1>2. /\ state' \in {"Armed", "Watching"} /\ inp.trips \cap Tier0Bits # {}
           => out'.reason = "RearmedAck"
      /\ state' = "Clamped" => "BRAKE" \notin inp.trips
      /\ out'.extra \subseteq FsmBits
  BY <1>1, RowPolicies
<1>3. cur' # "empty"
  BY <1>1 DEF Admitted, CurAfter, Delivers, Deliveries
<1>4. verdict'.trips \cap Tier0Bits = inp.trips \cap Tier0Bits
  BY <1>1, <1>2 DEF FsmBits, Tier0Bits
<1>5. ASSUME Mode = "enforce"
      PROVE  /\ verdict'.src = "Policy" => state' \in {"Armed", "Watching"}
             /\ verdict'.src = "Clamped" => state' = "Clamped"
  BY <1>1, <1>5 DEF SourceOf
<1>6. "BRAKE" \in verdict'.trips => "BRAKE" \in inp.trips
  BY <1>4 DEF Tier0Bits
<1> QED BY <1>2, <1>3, <1>4, <1>5, <1>6 DEF TripsAreActedOn

\* In Enforce no row the checks tripped on reaches the robot as the policy's,
\* but on the tick of a Resume.
THEOREM TripsHeeded == FuseSpec => []TripsAreActedOn
<1>1. FuseInit => TripsAreActedOn
  BY DEF FuseInit, NoVerdict, TripsAreActedOn
<1>2. TripsAreActedOn /\ [FuseNext]_fuseVars => TripsAreActedOn'
  <2> SUFFICES ASSUME TripsAreActedOn, [FuseNext]_fuseVars PROVE TripsAreActedOn'
    OBVIOUS
  <2>1. CASE \E bits \in (SUBSET FaultBits) \ {{}} :
               \E seen \in SeenPositions(bits) : FaultTick(bits, seen)
    BY <2>1 DEF FaultTick, TripsAreActedOn
  <2>2. CASE \E inp \in TickInputs : Decide(inp)
    BY <2>2, DecidePolicies
  <2>3. CASE FuseReset
    BY <2>3 DEF FuseReset, NoVerdict, TripsAreActedOn
  <2>4. CASE UNCHANGED fuseVars
    BY <2>4 DEF fuseVars, fsmVars, TripsAreActedOn
  <2> QED BY <2>1, <2>2, <2>3, <2>4 DEF FuseNext, FuseTick
<1> QED BY <1>1, <1>2, PTL DEF FuseSpec

\* Every row that brings the robot to a stand latches the position of its tick.
LEMMA RowLatches ==
  ASSUME NEW inp, Transition(inp)
  PROVE  state' \in {"Held", "Fault"} /\ state' # state => hold' = ClampToBox(inp.pos)
<1> USE DEF Emit
<1>1. CASE FailClosed(inp)
  BY <1>1 DEF FailClosed, LatchOnEntry, LatchHold
<1>2. CASE FailIdle(inp) \/ TimeOutBrake(inp) \/ ConfirmStop(inp)
  BY <1>2 DEF FailIdle, TimeOutBrake, ConfirmStop, LatchHold
<1>3. CASE StayLatched(inp) \/ StandStill(inp)
  BY <1>3 DEF StayLatched, StandStill, StillHeld
<1>4. CASE RearmAck(inp) \/ RearmAuto(inp) \/ ClearDown(inp) \/ Clamp(inp) \/ KeepBraking(inp)
  BY <1>4 DEF RearmAck, RearmAuto, ClearDown, Clamp, KeepBraking
<1>5. CASE AckAbort(inp) \/ AckRetune(inp) \/ ExpireHandoff(inp) \/ AwaitAck(inp)
  BY <1>5 DEF AckAbort, AckRetune, ExpireHandoff, AwaitAck
<1>6. CASE Escalate(inp)
  BY <1>6 DEF Escalate
<1>7. CASE Brake(inp)
  BY <1>7 DEF Brake
<1>8. CASE Proceed(inp)
  BY <1>8 DEF Proceed, Moving
<1> QED
  BY <1>1, <1>2, <1>3, <1>4, <1>5, <1>6, <1>7, <1>8 DEF Transition

\* A robot that comes to a stand is held at the position it was last seen at.
THEOREM HeldThere == FuseSpec => HeldWhereItStood
<1>1. ASSUME [FuseNext]_fuseVars
      PROVE  [state' \in {"Held", "Fault"} /\ state' # state => hold' = ClampToBox(pos')]_fuseVars
  <2>1. CASE \E bits \in (SUBSET FaultBits) \ {{}} :
               \E seen \in SeenPositions(bits) : FaultTick(bits, seen)
    <3>1. PICK bits \in (SUBSET FaultBits) \ {{}} :
                 \E seen \in SeenPositions(bits) : FaultTick(bits, seen)
      BY <2>1
    <3>2. PICK seen \in SeenPositions(bits) : FaultTick(bits, seen)
      BY <3>1
    <3>3. Transition(GuardInput(bits, seen)) /\ GuardInput(bits, seen).pos = pos'
      BY <3>2 DEF FaultTick, GuardInput
    <3> QED BY <3>3, RowLatches
  <2>2. CASE \E inp \in TickInputs : Decide(inp)
    <3>1. PICK inp \in TickInputs : Decide(inp)
      BY <2>2
    <3> DEFINE di == DecideInput(inp.trips, inp.score, inp.still, Delivers(inp),
                                 inp.ack, inp.pos)
    <3>2. Transition(di) /\ di.pos = pos'
      BY <3>1 DEF Decide, DecideInput
    <3> HIDE DEF di
    <3> QED BY <3>2, RowLatches
  <2>3. CASE FuseReset
    BY <2>3 DEF FuseReset, Reset
  <2> QED BY <1>1, <2>1, <2>2, <2>3 DEF FuseNext, FuseTick
<1> QED BY <1>1, PTL DEF FuseSpec, HeldWhereItStood

-----------------------------------------------------------------------------
(* Types.                                                                  *)

VerdictOK ==
  /\ pos \in Positions /\ cur \in {"empty", "kept", "moved"}
  /\ verdict.src \in {"None", "Policy", "Clamped", "Brake", "Hold"}
  /\ verdict.trips \subseteq FaultBits \cup Tier0Bits \cup FsmBits

\* The verdict and the chunk buffer have the shapes the wire sends on.
THEOREM FuseTypeCorrect == FuseSpec => []FuseTypeOK
<1>1. FuseInit => VerdictOK
  BY InputAssumption DEF FuseInit, NoVerdict, VerdictOK
<1>2. VerdictOK /\ FsmTypeOK' /\ [FuseNext]_fuseVars => VerdictOK'
  <2> SUFFICES ASSUME VerdictOK, FsmTypeOK', [FuseNext]_fuseVars PROVE VerdictOK'
    OBVIOUS
  <2>1. out'.extra \subseteq FsmBits
    BY DEF FsmTypeOK
  <2>2. CASE \E bits \in (SUBSET FaultBits) \ {{}} :
               \E seen \in SeenPositions(bits) : FaultTick(bits, seen)
    BY <2>1, <2>2 DEF FaultTick, SeenPositions, VerdictOK
  <2>3. CASE \E inp \in TickInputs : Decide(inp)
    <3>1. PICK inp \in TickInputs : Decide(inp)
      BY <2>3
    <3>2. pos' \in Positions /\ cur' \in {"empty", "kept", "moved"}
      BY <3>1 DEF Decide, TickInputs, CurAfter, Delivers, Deliveries, VerdictOK
    <3>3. verdict'.src \in {"None", "Policy", "Clamped", "Brake", "Hold"}
      BY <3>1 DEF Decide, SourceOf
    <3>4. verdict'.trips \subseteq FaultBits \cup Tier0Bits \cup FsmBits
      BY <2>1, <3>1 DEF Decide, TickInputs
    <3> QED BY <3>2, <3>3, <3>4 DEF VerdictOK
  <2>4. CASE FuseReset
    BY <2>4, InputAssumption DEF FuseReset, NoVerdict, VerdictOK
  <2>5. CASE UNCHANGED fuseVars
    BY <2>5 DEF fuseVars, fsmVars, VerdictOK
  <2> QED BY <2>2, <2>3, <2>4, <2>5 DEF FuseNext, FuseTick
<1>3. VerdictOK /\ HostKnowsHandoff /\ FsmTypeOK => FuseTypeOK
  BY DEF VerdictOK, HostKnowsHandoff, FsmTypeOK, FuseTypeOK
<1> QED BY <1>1, <1>2, <1>3, HostInformed, FuseKeepsFsmTypes, PTL DEF FuseSpec
=============================================================================

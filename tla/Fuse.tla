-------------------------------- MODULE Fuse --------------------------------
(***************************************************************************)
(* decide() and fault_tick() of crates/lictor-fuse/src/fuse.rs: the nine   *)
(* stages of one tick around the state machine of Fsm, and the verdict a   *)
(* tick returns.                                                           *)
(*                                                                         *)
(* A tick's input is what the stages tell apart: the GUARD bits its data   *)
(* raises, the position, the chunk it delivers, the Tier-0 bits of the     *)
(* chunk or row checked, the Tier-1 score, the velocity and the ack.  A    *)
(* delivered chunk is "kept" when the projection leaves its rows alone and *)
(* "moved" when it changes them, which it does only if a soft check trips. *)
(***************************************************************************)
EXTENDS Fsm

VARIABLES
  pos,       \* the last finite position
  cur,       \* the rows later ticks index: "empty", "kept" or "moved"
  verdict,   \* what the last tick returned
  asked,     \* history: the handoffs verdicts have announced, in the episode
  open       \* history: the last one announced is neither answered nor expired

fuseVars == <<fsmVars, pos, cur, verdict, asked, open>>

Deliveries == {"none", "kept", "moved"}

NoVerdict == [src |-> "None", prev |-> "None", trips |-> {},
              substituted |-> FALSE, handoff |-> FALSE, ackConsumed |-> FALSE,
              reachedEnv |-> FALSE]

-----------------------------------------------------------------------------
(* Stages 0 to 2.                                                          *)

\* What reaches a GUARD tick: the bits guard() raises and the position the hold
\* may latch, which is this tick's only if it is finite and of the right shape.
Unreadable(bits) == bits \cap {"NONFINITE", "SCHEMA"} # {}

SeenPositions(bits) ==
  Positions \cup IF Unreadable(bits) THEN {pos} ELSE {}

\* What reaches the stages after GUARD.  Only a soft trip under Project moves
\* rows, and a tick that delivers no chunk has one to index into (guard() raises
\* SCHEMA otherwise, which is a GUARD tick).
TickInputs ==
  [pos : Positions, chunk : Deliveries, trips : SUBSET Tier0Bits,
   score : {"low", "warn", "hit"}, still : BOOLEAN, ack : Acks \cup {NoAck}]

Delivers(inp) == inp.chunk # "none"

Admitted(inp) ==
  /\ Delivers(inp) \/ cur # "empty"
  /\ inp.chunk = "moved" => "SOFT" \in inp.trips /\ ClampMode = "project"

\* Mutation of CurAfter: a tick that delivers nothing drops the chunk.
CurAfterDrop(inp) == inp.chunk

\* In Enforce cur takes the projection, accepted or rejected; in Observe the
\* raw chunk.
CurAfter(inp) ==
  IF ~Delivers(inp) THEN cur
  ELSE IF Mode = "observe" THEN "kept" ELSE inp.chunk

-----------------------------------------------------------------------------
(* Stage 7.                                                                *)

SourceOf(s) ==
  CASE s \in {"Armed", "Watching"} -> "Policy"
    [] s = "Clamped" -> "Clamped"
    [] s = "Braking" -> "Brake"
    [] OTHER -> "Hold"

\* Mutation of AckReasons: an abort is applied but not reported.
AckReasonsShort == {"RearmedAck", "TerminatedRetune"}

AckReasons == {"RearmedAck", "TerminatedAbort", "TerminatedRetune"}

\* The histories follow the verdict alone, as a host does.
Announce ==
  /\ asked' = IF verdict'.handoff THEN WrapInc(asked) ELSE asked
  /\ open' = \/ verdict'.handoff
             \/ /\ open
                /\ ~verdict'.ackConsumed
                /\ out'.reason # "TerminatedTimeout"

\* rt.pos moves before next() runs, so row 1 latches this tick's position.
FaultTick(bits, seen) ==
  /\ pos' = seen
  /\ UNCHANGED cur
  /\ Transition(GuardInput(bits, seen))
  /\ verdict' = [src |-> "Hold", prev |-> state, trips |-> bits \cup out'.extra,
                 substituted |-> TRUE, handoff |-> FALSE,
                 ackConsumed |-> FALSE, reachedEnv |-> FALSE]
  /\ Announce

Decide(inp) ==
  LET would == SourceOf(state')
      observe == Mode = "observe" IN
  /\ Admitted(inp)
  /\ pos' = inp.pos
  /\ cur' = CurAfter(inp)
  /\ Transition(DecideInput(inp.trips, inp.score, inp.still, Delivers(inp),
                            inp.ack, inp.pos))
  /\ verdict' = [src |-> IF observe THEN "Policy" ELSE would,
                 prev |-> state,
                 trips |-> inp.trips \cup out'.extra,
                 substituted |-> ~observe /\ would # "Policy",
                 handoff |-> state' = "Escalated" /\ state # "Escalated",
                 ackConsumed |-> inp.ack # NoAck /\ out'.reason \in AckReasons,
                 reachedEnv |-> observe /\ would # "Policy"]
  /\ Announce

FuseTick ==
  \/ \E bits \in (SUBSET FaultBits) \ {{}} :
       \E seen \in SeenPositions(bits) : FaultTick(bits, seen)
  \/ \E inp \in TickInputs : Decide(inp)

FuseInit ==
  /\ Init
  /\ pos = 0 /\ cur = "empty" /\ verdict = NoVerdict
  /\ asked = 0 /\ open = FALSE

FuseReset ==
  /\ Reset
  /\ pos' = 0 /\ cur' = "empty" /\ verdict' = NoVerdict
  /\ asked' = 0 /\ open' = FALSE

FuseNext == FuseTick \/ FuseReset

FuseSpec == FuseInit /\ [][FuseNext]_fuseVars

-----------------------------------------------------------------------------
(* Properties.                                                             *)

\* The verdict and the chunk buffer have the shapes the wire sends on.
FuseTypeOK ==
  /\ pos \in Positions
  /\ cur \in {"empty", "kept", "moved"}
  /\ verdict.src \in {"None", "Policy", "Clamped", "Brake", "Hold"}
  /\ verdict.trips \subseteq FaultBits \cup Tier0Bits \cup FsmBits
  /\ asked \in 0..U32Max
  /\ open \in BOOLEAN

\* In Enforce a row the checks of its own tick tripped on reaches the robot as
\* the policy's only on the tick an operator's Resume is applied, a clamped row
\* never had an infeasible brake, and no row at all reaches it before a chunk
\* was ingested: the automatic re-arm, the clear-down and the stay rows all let
\* the policy through on clean ticks only.
TripsAreActedOn ==
  Mode = "enforce" =>
    /\ verdict.src = "Policy" /\ verdict.trips \cap Tier0Bits # {}
         => out.reason = "RearmedAck"
    /\ verdict.src = "Clamped" => "BRAKE" \notin verdict.trips
    /\ verdict.src \in {"Policy", "Clamped"} => cur # "empty"

\* A host that reads the verdicts alone knows the outstanding handoff: the
\* number next() wants an ack to carry is the number of handoffs announced,
\* and one is pending exactly when the last announced is neither answered nor
\* expired, a Fault in between included.
HostKnowsHandoff == handoff_seq = asked /\ handoff_pending = open

\* A verdict says that an ack was consumed exactly when its nonce was spent: the
\* report is inferred from the reason after next(), not returned by it, and a
\* GUARD tick drops the ack with neither.
AckReportedIffSpent ==
  [][~FuseReset => (verdict'.ackConsumed <=> last_nonce' # last_nonce)]_fuseVars

\* A robot that comes to a stand is held at the last finite position it was
\* seen at, pulled into the box, this tick's own if it is usable: fault_tick()
\* updates the position before row 1 latches it.
HeldWhereItStood ==
  [][state' \in {"Held", "Fault"} /\ state' # state
       => hold' = ClampToBox(pos')]_fuseVars

-----------------------------------------------------------------------------
(* What the documentation says and the code does not do.                   *)

\* verdict-schema.md: a policy verdict's action is "the policy's row for this
\* tick, unchanged".
PolicyRowIsRaw == verdict.src = "Policy" => cur # "moved"

\* fuse.rs: "a rejected chunk never reaches the action".
RejectedRowNeverPassed ==
  Mode = "enforce" /\ verdict.src = "Policy" => "BRAKE" \notin verdict.trips
=============================================================================

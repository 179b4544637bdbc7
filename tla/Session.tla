------------------------------- MODULE Session -------------------------------
(***************************************************************************)
(* crates/lictor-runtime/src/session.rs: the handlers of one `lictor       *)
(* serve` process, the fault latch, the nonce table that outlives episodes *)
(* and restarts, and the staging of a wire tick beside the continuity      *)
(* checks of guard() in the fuse.                                          *)
(*                                                                         *)
(* The fuse inside the session is the one of StopPromise: a tick that      *)
(* passes GUARD takes one of its steps.  Requests are records of what the  *)
(* handlers tell apart.  A crash may come between any two of them.         *)
(***************************************************************************)
EXTENDS Integers, Sequences

CONSTANTS
  Budget, Operators,   \* as in StopPromise
  Keys,                \* run, arm and episode index of an episode
  Tokens,              \* what operators have signed, a subset of TokenSet
  SeqMod,              \* chunk numbers wrap at SeqMod (2^32 in the code)
  MaxTicks,            \* bound: ticks of one episode
  Persist,             \* serve --out is given, nonces are saved
  NoToken, NoChunk, NoEpisode, Torn

ASSUME SessionAssumption ==
  /\ Budget \in Nat /\ MaxTicks \in Nat
  /\ SeqMod \in Nat \ {0, 1}
  /\ Persist \in BOOLEAN
  /\ NoEpisode \notin Keys
  /\ NoChunk \notin 0..(SeqMod - 1)

VARIABLES
  up,                        \* the process runs
  \* the fuse
  phase, released, spent,    \* as in StopPromise
  asked,                     \* handoff_seq
  seq, next_chunk, filled,   \* ticks decided; next_chunk_seq; cur.is_filled()
  tally,                     \* the counts that end in the receipt
  \* the session
  ep,                        \* the open episode's key or NoEpisode
  faulted, phantom,
  staging,                   \* Staging::next_seq
  last_nonce,                \* by operator, kept across episodes
  saved,                     \* the nonce file, or Torn
  events, timing, folding,   \* verdict events, timing events, PendingTiming
  handoffs, pending,         \* outcomes; index of the unresolved one or 0
  reply,                     \* kind of the last response
  \* histories
  told,                      \* a fatal error was reported in this episode
  high,                      \* the highest nonce ever applied, by operator
  lossy                      \* some nonce table was not saved

fuseVars == <<phase, released, spent, asked, seq, next_chunk, filled, tally>>
ackVars  == <<last_nonce, saved, high, lossy>>
bookVars == <<events, timing, folding, handoffs, pending>>
sessVars == <<up, fuseVars, ep, faulted, phantom, staging, ackVars, bookVars,
              reply, told>>

Promise == INSTANCE StopPromise WITH setpoint <- 0, Box <- {0}

Numbers == 0..(SeqMod - 1)

\* A handoff's digest binds the episode and the verdict chain.  The worst case
\* is taken: the same episode run again repeats itself tick for tick, and the
\* digest is the episode and the number of the handoff in it.
TokenSet == [op : Operators, digest : Keys \X Nat, nonce : Nat \ {0},
             decision : {"Resume", "Abort", "Retune"}]

ASSUME TokenAssumption == Tokens \subseteq TokenSet /\ NoToken \notin TokenSet

\* A tick as stage() and guard() read it: t against last_t, the dimensions and
\* the labels of chunk and row, whether all is finite and in time, the number
\* of the chunk delivered and the ack.
TickReqs ==
  [t : {"zero", "next", "other"}, shape : BOOLEAN, usable : BOOLEAN,
   chunk : Numbers \cup {NoChunk}, ack : Tokens \cup {NoToken}]

Open == ep # NoEpisode

-----------------------------------------------------------------------------
(* Pieces the handlers share.                                              *)

\* Mutation of Wrap: the number does not wrap.
WrapLost(n) == n + 1

Wrap(n) == (n + 1) % SeqMod

\* fold_pending_timing
Fold ==
  /\ timing' = IF Open /\ folding THEN timing + 1 ELSE timing
  /\ folding' = (folding /\ ~Open)

\* Under --on-fault abort the next step is a Stop.
ReplyError == reply' = "error" /\ UNCHANGED up

\* Mutation of Fail: the error is reported and forgotten.
FailForgotten == ReplyError /\ told' = (told \/ Open) /\ UNCHANGED faulted

Fail ==
  /\ ReplyError
  /\ faulted' = (faulted \/ Open)
  /\ told' = (told \/ Open)

\* A request or a line that is answered by fail() and does nothing else.
Refused ==
  /\ Fold
  /\ Fail
  /\ UNCHANGED <<fuseVars, ep, phantom, staging, ackVars, events, handoffs,
                 pending>>

\* Mutation of ResetNumbers: the chunk number of the last episode survives.
ResetNumbersShort == seq' = 0 /\ filled' = FALSE /\ UNCHANGED next_chunk

ResetNumbers == seq' = 0 /\ filled' = FALSE /\ next_chunk' = 0

\* Tally::default, as far as the records below can contradict it.
NoTally == [ticks |-> 0, escalations |-> 0, rearms |-> 0, stopped |-> FALSE,
            terminal |-> "Idle"]

\* FuseRt::reset
ResetFuse == Promise!Begin /\ asked' = 0 /\ ResetNumbers /\ tally' = NoTally

-----------------------------------------------------------------------------
(* A tick.                                                                 *)

\* stage(): a tick at t = 0 restarts the numbering before anything is checked.
Expected(req) == IF req.t = "zero" THEN 0 ELSE staging

Staged(req) == req.shape /\ req.chunk \in {NoChunk, Expected(req)}

Delivered(req) == Staged(req) /\ req.chunk # NoChunk

Stage(req) ==
  staging' = IF Delivered(req) THEN Wrap(req.chunk) ELSE Expected(req)

\* guard(): the bits as one condition.
Guarded(req, schema_fault) ==
  \/ schema_fault
  \/ ~req.usable
  \/ req.t # IF seq = 0 THEN "zero" ELSE "next"
  \/ IF Delivered(req) THEN req.chunk # next_chunk ELSE ~filled

\* What a GUARD tick does to the fuse, and what the others may do: a verified
\* ack of a handoff that is still open is answered on the tick that brings it.
\* That the state machine does no other is shown of Fsm (TickContract).
FaultStep == Promise!Refuse /\ UNCHANGED <<asked, next_chunk, filled>>

AnswerStep(tok) ==
  Promise!Accept(tok.op, tok.nonce,
                 IF tok.decision = "Resume" THEN "Moving" ELSE "Ended")

DecideStep(req, tok) ==
  /\ IF tok # NoToken /\ phase = "Asking" THEN AnswerStep(tok) ELSE Promise!Decide
  /\ asked' = IF phase' = "Asking" /\ phase # "Asking" THEN asked + 1 ELSE asked
  /\ next_chunk' = IF Delivered(req) THEN Wrap(next_chunk) ELSE next_chunk
  /\ filled' = (filled \/ Delivered(req))

\* Tally::record: one verdict, and what the state machine did on its tick.
Record ==
  tally' = [ticks |-> tally.ticks + 1,
            escalations |-> IF phase' = "Asking" /\ phase # "Asking"
                              THEN tally.escalations + 1 ELSE tally.escalations,
            rearms |-> IF phase \in {"Standing", "Asking"} /\ phase' = "Moving"
                         THEN tally.rearms + 1 ELSE tally.rearms,
            stopped |-> tally.stopped \/ phase' \notin {"Idle", "Moving"},
            terminal |-> phase']

StepFuse(req, tok, schema_fault) ==
  /\ seq' = seq + 1
  /\ IF Guarded(req, schema_fault) THEN FaultStep ELSE DecideStep(req, tok)
  /\ Record

\* Mutation of Verified: the last nonce is good for another time.
VerifiedAgain(tok) ==
  /\ tok # NoToken
  /\ pending # 0
  /\ tok.digest = <<ep, pending>>
  /\ tok.nonce >= last_nonce[tok.op]

\* check_ack and verify_ack: the token of the pending handoff, with a nonce
\* above every one this table remembers.
Verified(tok) ==
  /\ tok # NoToken
  /\ pending # 0
  /\ tok.digest = <<ep, pending>>
  /\ tok.nonce > last_nonce[tok.op]

\* Mutation of SaveNonces: the nonce goes to the file, not into the table.
SaveNoncesOnDisk(tok) ==
  /\ UNCHANGED last_nonce
  /\ saved' \in IF Persist
                  THEN {[last_nonce EXCEPT ![tok.op] = tok.nonce], saved, Torn}
                  ELSE {saved}
  /\ lossy' = (lossy \/ saved' # last_nonce')

\* The nonce is burnt whether or not the fuse looked at the ack.  The file may
\* not be opened, or be cut short: a warning, nothing more.
SaveNonces(tok) ==
  /\ last_nonce' = [last_nonce EXCEPT ![tok.op] = tok.nonce]
  /\ saved' \in IF Persist THEN {last_nonce', saved, Torn} ELSE {saved}
  /\ lossy' = (lossy \/ saved' # last_nonce')

\* Whether the verdict reports the ack as consumed.
Consumed(tok) == tok # NoToken /\ phase = "Asking" /\ phase' \in {"Moving", "Ended"}

\* Mutation of Outcome: a handoff that expires is left open.
OutcomeNoTimeout(tok) ==
  IF Consumed(tok) THEN tok.decision ELSE "unacked"

Outcome(tok) ==
  IF Consumed(tok) THEN tok.decision
  ELSE IF phase = "Asking" /\ phase' = "Ended" THEN "timeout" ELSE "unacked"

\* The records: the pending one is resolved, then a new one is opened.
KeepHandoffs(tok) ==
  LET resolved ==
        IF pending = 0 THEN handoffs
        ELSE [handoffs EXCEPT ![pending] = Outcome(tok)]
      opened == asked' # asked IN
  /\ handoffs' = IF opened THEN Append(resolved, "unacked") ELSE resolved
  /\ pending' = IF opened THEN Len(resolved) + 1
                ELSE IF pending # 0 /\ resolved[pending] # "unacked" THEN 0
                ELSE pending

\* Mutation of Chain: a tick that was refused is not chained.
ChainAcceptedOnly(ok) ==
  /\ events' = IF ok THEN events + 1 ELSE events
  /\ timing' = IF folding THEN timing + 1 ELSE timing
  /\ folding' = TRUE

\* The event of this tick is chained and its timing left pending; the timing
\* of the tick before was folded when the request came in.
Chain(ok) ==
  /\ events' = events + 1
  /\ timing' = IF folding THEN timing + 1 ELSE timing
  /\ folding' = TRUE

TickInEpisode(req) ==
  LET tok == IF Verified(req.ack) THEN req.ack ELSE NoToken IN
  /\ Stage(req)
  /\ faulted' = (faulted \/ ~Staged(req))
  /\ StepFuse(req, tok, faulted')
  /\ IF tok = NoToken THEN UNCHANGED <<last_nonce, saved, lossy>>
                      ELSE SaveNonces(tok)
  /\ high' = IF Consumed(tok) THEN [high EXCEPT ![tok.op] = tok.nonce] ELSE high
  /\ Chain(Staged(req))
  /\ KeepHandoffs(tok)
  /\ IF Staged(req) THEN reply' = "verdict" /\ UNCHANGED <<up, told>>
                    ELSE ReplyError /\ told' = TRUE
  /\ UNCHANGED <<ep, phantom>>

\* Without an episode the first tick is an error and resets the fuse; later
\* ones are stepped through it as schema faults and answered by a verdict.
FirstPhantomTick ==
  /\ phantom' = TRUE /\ faulted' = TRUE
  /\ ResetFuse
  /\ ReplyError
  /\ UNCHANGED <<ep, staging, ackVars, bookVars, told>>

PhantomTick(req) ==
  /\ Stage(req)
  /\ StepFuse(req, NoToken, TRUE)
  /\ reply' = "verdict"
  /\ UNCHANGED <<up, ep, faulted, phantom, ackVars, bookVars, told>>

-----------------------------------------------------------------------------
(* The requests.                                                           *)

Hello(matches) ==
  IF Open THEN Refused
  ELSE /\ IF matches THEN reply' = "hello_ok" /\ UNCHANGED up ELSE ReplyError
       /\ UNCHANGED <<fuseVars, ep, faulted, phantom, staging, ackVars,
                      bookVars, told>>

EpisodeBegin(key, weights) ==
  IF Open THEN Refused
  ELSE IF ~weights
    THEN /\ ReplyError
         /\ UNCHANGED <<fuseVars, ep, faulted, phantom, staging, ackVars,
                        bookVars, told>>
    ELSE /\ ep' = key
         /\ ResetFuse
         /\ staging' = 0
         /\ faulted' = FALSE /\ phantom' = FALSE /\ told' = FALSE
         /\ events' = 0 /\ timing' = 0 /\ folding' = FALSE
         /\ handoffs' = <<>> /\ pending' = 0
         /\ reply' = "episode_ok"
         /\ UNCHANGED <<up, ackVars>>

Tick(req) ==
  /\ seq < MaxTicks
  /\ IF Open THEN TickInEpisode(req)
     ELSE IF ~phantom THEN FirstPhantomTick
     ELSE PhantomTick(req)

\* The episode is taken out before its files are written: an error in between
\* is reported and the episode is gone.
EpisodeEnd(written) ==
  IF ~Open THEN Refused
  ELSE /\ Fold
       /\ ep' = NoEpisode
       /\ faulted' = FALSE
       /\ IF written THEN reply' = "receipt" /\ UNCHANGED up ELSE ReplyError
       /\ UNCHANGED <<fuseVars, phantom, staging, ackVars, events, handoffs,
                      pending, told>>

\* handle_bad_line: a line the codec rejects.
BadLine == Refused

\* handle(): a request of any kind whose id is not above the last one.
Stale == Refused

\* What a process knows before its first request, but for the nonces.
Blank ==
  /\ phase' = "Idle" /\ released' = 0 /\ spent' = [o \in Operators |-> 0]
  /\ asked' = 0 /\ ResetNumbers /\ tally' = NoTally
  /\ ep' = NoEpisode /\ faulted' = FALSE /\ phantom' = FALSE /\ staging' = 0
  /\ events' = 0 /\ timing' = 0 /\ folding' = FALSE
  /\ handoffs' = <<>> /\ pending' = 0
  /\ reply' = "none" /\ told' = FALSE

\* bye, end of input, an error on a pipe, --on-fault abort or a kill: only the nonce file is left.
Stop == up' = FALSE /\ Blank /\ UNCHANGED ackVars

\* Mutation of Restart: the nonce file is not read.
RestartEmpty ==
  /\ ~up /\ saved # Torn
  /\ up' = TRUE
  /\ last_nonce' = [o \in Operators |-> 0]
  /\ Blank
  /\ UNCHANGED <<saved, high, lossy>>

\* Session::new: refused when the nonce file does not parse.
Restart ==
  /\ ~up /\ saved # Torn
  /\ up' = TRUE
  /\ last_nonce' = saved
  /\ Blank
  /\ UNCHANGED <<saved, high, lossy>>

Requests ==
  \/ BadLine \/ Stale \/ Stop
  \/ \E matches \in BOOLEAN : Hello(matches)
  \/ \E key \in Keys, weights \in BOOLEAN : EpisodeBegin(key, weights)
  \/ \E req \in TickReqs : Tick(req)
  \/ \E written \in BOOLEAN : EpisodeEnd(written)

SessInit ==
  /\ up = TRUE
  /\ phase = "Idle" /\ released = 0 /\ spent = [o \in Operators |-> 0]
  /\ asked = 0 /\ seq = 0 /\ next_chunk = 0 /\ filled = FALSE /\ tally = NoTally
  /\ ep = NoEpisode /\ faulted = FALSE /\ phantom = FALSE /\ staging = 0
  /\ last_nonce = [o \in Operators |-> 0] /\ saved = last_nonce
  /\ events = 0 /\ timing = 0 /\ folding = FALSE
  /\ handoffs = <<>> /\ pending = 0
  /\ reply = "none"
  /\ told = FALSE /\ high = last_nonce /\ lossy = FALSE

SessNext == (up /\ Requests) \/ Restart

SessSpec == SessInit /\ [][SessNext]_sessVars

-----------------------------------------------------------------------------
(* Properties.                                                             *)

\* The state has the shapes the handlers assume; a chunk number stays in its
\* width and the pending handoff is one of the records.
SessTypeOK ==
  /\ phase \in {"Idle", "Moving", "Stopping", "Standing", "Asking", "Failed",
                "Ended"}
  /\ {staging, next_chunk} \subseteq Numbers
  /\ ep \in Keys \cup {NoEpisode}
  /\ last_nonce \in [Operators -> Nat]
  /\ saved \in [Operators -> Nat] \cup {Torn}
  /\ pending \in 0..Len(handoffs)
  /\ {faulted, phantom, folding, told, lossy, up, filled} \subseteq BOOLEAN

\* Once the host was told of a fatal error in an episode, and whenever there is
\* no episode, a verdict comes from the latched fuse: no order of stale ids, bad
\* lines, refused requests and good ticks lets the robot move on.
NoVerdictPastFault == reply = "verdict" /\ (told \/ ~Open) => phase = "Failed"

\* docs/wire-protocol.md, "Error discipline": the host that was told of a fatal
\* error sends episode_end, and the receipt has terminal_state "fault".  The code
\* takes the terminal state from the ticks the fuse decided; an error answered
\* by fail() reaches the fuse only with another tick.
ToldFaultIsRecorded == reply = "receipt" /\ told => tally.terminal = "Failed"

\* stage() and guard() number chunks apart, and both count what was accepted:
\* while the fuse has not failed they wait for the same number, so a host that
\* numbers its deliveries is refused by neither.
NumberingAgrees == Open /\ phase # "Failed" => staging = next_chunk

\* The records of an episode are the handoffs the fuse announced, at most the
\* last is unresolved, and one is pending exactly while the fuse asks, or after
\* it failed while asking.  The counts of the receipt tell the same story: as many
\* escalations, no re-arm and no handoff without a stop, and an end only by the
\* last record.
HandoffBooks ==
  Open =>
    /\ Len(handoffs) = asked /\ tally.escalations = asked
    /\ asked > 0 \/ tally.rearms > 0 => tally.stopped
    /\ tally.terminal = "Ended" =>
         Len(handoffs) > 0 /\ handoffs[Len(handoffs)] \in {"Abort", "Retune", "timeout"}
    /\ \A i \in 1..Len(handoffs) : handoffs[i] = "unacked" <=> i = pending
    /\ phase = "Asking" => pending = Len(handoffs) /\ pending # 0
    /\ pending # 0 => pending = Len(handoffs) /\ phase \in {"Asking", "Failed"}

\* Every tick the fuse decided in the episode is counted once, is in the verdict
\* chain once and in the timing chain once, the last one possibly still to be
\* folded: faulted ticks, refused ticks and refused requests in between change
\* nothing of it.
ChainsAgree ==
  Open => /\ events = seq /\ events = tally.ticks
          /\ events = IF folding THEN timing + 1 ELSE timing

\* verify_ack and accepted_ack check a token apart, against the records and the
\* nonces of the session and against the counters of the fuse, and the session
\* burns what it verified: all it verifies the fuse takes on that very tick, the
\* number of the handoff and the nonce included, unless the latch has closed.
VerifiedIsTaken ==
  Open => \A tok \in Tokens :
    Verified(tok) =>
      \/ phase = "Failed"
      \/ phase = "Asking" /\ tok.digest = <<ep, asked>> /\ tok.nonce > spent[tok.op]

\* An operator's signature is applied at most once, over all episodes and
\* restarts: whenever the fuse spends a nonce, it is above every one ever applied,
\* the highest itself included, unless a save of the table had failed.  The fuse
\* forgets what was spent with every episode, the process with every restart.
TokensReleaseOnce ==
  [][\A o \in Operators :
       spent'[o] > spent[o] => spent'[o] > high[o] \/ lossy]_sessVars
=============================================================================

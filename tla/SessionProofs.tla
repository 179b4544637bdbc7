----------------------------- MODULE SessionProofs -----------------------------
(***************************************************************************)
(* The session's properties for any operators, keys, tokens and numbers of *)
(* ticks, episodes, crashes and restarts.                                  *)
(***************************************************************************)
EXTENDS Replay, TLAPS

Phases == {"Idle", "Moving", "Stopping", "Standing", "Asking", "Failed", "Ended"}

Outcomes == {"Resume", "Abort", "Retune", "timeout", "unacked"}

Tallies ==
  [ticks : Nat, escalations : Nat, rearms : Nat, stopped : BOOLEAN, terminal : Phases]

\* The fuse's part, the session's part and the part that outlives both.
FuseShape ==
  /\ phase \in Phases
  /\ asked \in Nat /\ seq \in Nat
  /\ next_chunk \in Numbers /\ filled \in BOOLEAN
  /\ tally \in Tallies

SessShape ==
  /\ up \in BOOLEAN /\ ep \in Keys \cup {NoEpisode}
  /\ faulted \in BOOLEAN /\ phantom \in BOOLEAN /\ told \in BOOLEAN
  /\ staging \in Numbers
  /\ events \in Nat /\ timing \in Nat /\ folding \in BOOLEAN
  /\ handoffs \in Seq(Outcomes) /\ pending \in 0..Len(handoffs)

AckShape ==
  /\ last_nonce \in [Operators -> Nat] /\ high \in [Operators -> Nat]
  /\ saved \in [Operators -> Nat] \cup {Torn}
  /\ lossy \in BOOLEAN

\* A fault that was reported is latched until the episode is over.
Latched ==
  /\ Open /\ told => faulted
  /\ NoVerdictPastFault

\* Both sides start from zero and count the same deliveries.
Numbered ==
  Open =>
    /\ seq = 0 => staging = 0 /\ next_chunk = 0
    /\ phase # "Failed" => staging = next_chunk

\* The records against the state of the fuse, not only against its last verdict.
Booked ==
  Open =>
    /\ Len(handoffs) = asked /\ tally.escalations = asked
    /\ asked > 0 \/ tally.rearms > 0 => tally.stopped
    /\ phase \notin {"Idle", "Moving"} => tally.stopped
    /\ tally.terminal \in {phase, "Idle"}
    /\ phase = "Ended" =>
         Len(handoffs) > 0 /\ handoffs[Len(handoffs)] \in {"Abort", "Retune", "timeout"}
    /\ \A i \in 1..Len(handoffs) : handoffs[i] = "unacked" <=> i = pending
    /\ phase = "Asking" => pending = Len(handoffs) /\ pending # 0
    /\ pending # 0 => pending = Len(handoffs) /\ phase \in {"Asking", "Failed"}

\* What was applied is below what is remembered, and that is what was saved.
Remembered ==
  ~lossy =>
    /\ saved = last_nonce
    /\ \A o \in Operators : high[o] <= last_nonce[o]

SessInv ==
  /\ FuseShape /\ SessShape /\ AckShape
  /\ Latched /\ Numbered /\ Booked /\ ChainsAgree /\ Remembered

\* The fuse has spent nothing in this episode that the session forgot.
SpentKnown ==
  /\ spent \in [Operators -> Nat]
  /\ \A o \in Operators : spent[o] <= last_nonce[o]

-----------------------------------------------------------------------------
(* What the pieces do.                                                     *)

LEMMA WrapStays == ASSUME NEW n \in Numbers PROVE Wrap(n) \in Numbers
PROOF BY SessionAssumption DEF Wrap, Numbers

LEMMA ZeroIsANumber == 0 \in Numbers
PROOF BY SessionAssumption DEF Numbers

\* How the fuse may turn on a tick it decides without an answer.
Turns ==
  \/ phase = "Moving" /\ phase' = "Stopping"
  \/ phase = "Stopping" /\ phase' = "Standing"
  \/ phase = "Standing" /\ phase' \in {"Moving", "Asking"}
  \/ phase = "Asking" /\ phase' = "Ended"
  \/ phase' = "Failed"
  \/ phase' = phase

AnswersWith(tok) ==
  tok # NoToken /\ phase = "Asking"
  /\ phase' = IF tok.decision = "Resume" THEN "Moving" ELSE "Ended"

LEMMA FaultTurn ==
  ASSUME FaultStep PROVE phase' = "Failed" /\ UNCHANGED <<asked, next_chunk, filled>>
PROOF BY DEF FaultStep, Promise!Refuse, Promise!Fail, Promise!vars

LEMMA DecideTurn ==
  ASSUME NEW req \in TickReqs, NEW tok, DecideStep(req, tok)
  PROVE  /\ \/ AnswersWith(tok)
            \/ ~(tok # NoToken /\ phase = "Asking") /\ Turns
         /\ asked' = IF phase' = "Asking" /\ phase # "Asking" THEN asked + 1 ELSE asked
         /\ next_chunk' = IF Delivered(req) THEN Wrap(next_chunk) ELSE next_chunk
         /\ filled' = (filled \/ Delivered(req))
PROOF
  <1>1. CASE tok # NoToken /\ phase = "Asking"
    BY <1>1 DEF DecideStep, AnswerStep, AnswersWith, Promise!Accept
  <1>2. CASE ~(tok # NoToken /\ phase = "Asking")
    <2>1. \/ Promise!Brake \/ Promise!Stand \/ Promise!Release
          \/ Promise!Ask \/ Promise!Expire \/ Promise!Fail
          \/ UNCHANGED <<phase, released, spent>>
      BY <1>2 DEF DecideStep, Promise!Decide, Promise!vars
    <2>2. Turns
      BY <2>1 DEF Turns, Promise!Brake, Promise!Stand, Promise!Release, Promise!Ask,
                  Promise!Expire, Promise!Fail
    <2> QED BY <1>2, <2>2 DEF DecideStep
  <1> QED BY <1>1, <1>2

LEMMA StepShape ==
  ASSUME FuseShape, NEW req \in TickReqs, NEW tok, NEW fault \in BOOLEAN,
         StepFuse(req, tok, fault)
  PROVE  /\ FuseShape' /\ seq' = seq + 1
         /\ phase' = "Failed" \/ AnswersWith(tok)
              \/ (~(tok # NoToken /\ phase = "Asking") /\ Turns)
         /\ asked' = IF phase' = "Asking" /\ phase # "Asking" THEN asked + 1 ELSE asked
         /\ Record
PROOF
  <1>1. seq' = seq + 1 /\ Record
    BY DEF StepFuse
  <1>2. /\ phase' = "Failed" \/ AnswersWith(tok)
             \/ (~(tok # NoToken /\ phase = "Asking") /\ Turns)
        /\ asked' = IF phase' = "Asking" /\ phase # "Asking" THEN asked + 1 ELSE asked
        /\ next_chunk' = next_chunk \/ next_chunk' = Wrap(next_chunk)
        /\ filled' = filled \/ filled' = TRUE \/ filled' = (filled \/ Delivered(req))
    <2>1. CASE Guarded(req, fault)
      <3>1. FaultStep BY <2>1 DEF StepFuse
      <3> QED BY <3>1, FaultTurn
    <2>2. CASE ~Guarded(req, fault)
      <3>1. DecideStep(req, tok) BY <2>2 DEF StepFuse
      <3> QED BY <3>1, DecideTurn
    <2> QED BY <2>1, <2>2
  <1>3. phase' \in Phases
    BY <1>2 DEF FuseShape, Phases, AnswersWith, Turns
  <1>4. asked' \in Nat /\ seq' \in Nat
    BY <1>1, <1>2 DEF FuseShape
  <1>5. next_chunk' \in Numbers
    BY <1>2, WrapStays DEF FuseShape
  <1>6. filled' \in BOOLEAN
    BY <1>2 DEF FuseShape
  <1>7. tally' \in Tallies
    <2>1. tally.ticks + 1 \in Nat /\ tally.escalations + 1 \in Nat /\ tally.rearms + 1 \in Nat
          /\ tally.escalations \in Nat /\ tally.rearms \in Nat
      BY DEF FuseShape, Tallies
    <2>2. (tally.stopped \/ phase' \notin {"Idle", "Moving"}) \in BOOLEAN
      OBVIOUS
    <2> QED BY <1>1, <1>3, <2>1, <2>2 DEF Record, Tallies
  <1> QED BY <1>1, <1>2, <1>3, <1>4, <1>5, <1>6, <1>7 DEF FuseShape

-----------------------------------------------------------------------------
(* Requests that are no tick of an episode.                                *)

\* Without an episode there is little to keep.
LEMMA Closed ==
  ASSUME FuseShape', SessShape', AckShape', Remembered', ep' = NoEpisode,
         reply' = "verdict" => phase' = "Failed"
  PROVE  SessInv'
PROOF BY DEF SessInv, Latched, NoVerdictPastFault, Numbered, Booked, ChainsAgree, Open

LEMMA AcksKept ==
  ASSUME AckShape, Remembered, UNCHANGED ackVars
  PROVE  AckShape' /\ Remembered'
PROOF
  <1>1. UNCHANGED <<last_nonce, saved, high, lossy>>
    BY DEF ackVars
  <1> QED BY <1>1 DEF AckShape, Remembered

LEMMA FuseKept == ASSUME FuseShape, UNCHANGED fuseVars PROVE FuseShape'
PROOF BY DEF fuseVars, FuseShape

\* What only reports: the timing in flight may be folded, the episode taken out.
LEMMA SessionOnly ==
  ASSUME SessInv,
         UNCHANGED <<fuseVars, phantom, staging, ackVars, events, handoffs, pending>>,
         ep' = ep \/ ep' = NoEpisode,
         up' \in BOOLEAN, faulted' \in BOOLEAN, told' \in BOOLEAN,
         ep' # NoEpisode /\ told' => faulted', reply' # "verdict",
         timing' \in Nat, folding' \in BOOLEAN,
         (IF folding' THEN timing' + 1 ELSE timing')
           = (IF folding THEN timing + 1 ELSE timing)
           \/ ep' = NoEpisode
  PROVE  SessInv'
PROOF
  <1>1. FuseShape' /\ AckShape' /\ Remembered'
    BY AcksKept, FuseKept DEF SessInv
  <1>2. SessShape'
    BY DEF SessInv, SessShape
  <1>3. CASE ep' = NoEpisode
    BY <1>1, <1>2, <1>3, Closed
  <1>4. CASE ep' = ep /\ ep # NoEpisode
    <2>1. UNCHANGED <<phase, asked, seq, next_chunk, tally, staging, events, handoffs, pending>>
      BY DEF fuseVars
    <2>2. Latched'
      BY <1>4 DEF Latched, NoVerdictPastFault, Open
    <2>3. Numbered' /\ ChainsAgree'
      BY <1>4, <2>1 DEF SessInv, Numbered, ChainsAgree, Open
    <2>4. Booked'
      BY <1>4, <2>1 DEF SessInv, Booked, Open
    <2> QED BY <1>1, <1>2, <2>2, <2>3, <2>4 DEF SessInv
  <1> QED BY <1>3, <1>4

LEMMA Folds ==
  ASSUME SessShape, Fold
  PROVE  /\ timing' \in Nat /\ folding' \in BOOLEAN
         /\ (IF folding' THEN timing' + 1 ELSE timing')
              = (IF folding THEN timing + 1 ELSE timing)
PROOF
  <1>1. timing \in Nat /\ timing + 1 \in Nat /\ folding \in BOOLEAN
    BY DEF SessShape
  <1>2. CASE folding /\ Open
    <2>1. timing' = timing + 1 /\ folding' = FALSE
      BY <1>2 DEF Fold
    <2> QED BY <1>1, <1>2, <2>1
  <1>3. CASE ~(folding /\ Open)
    <2>1. timing' = timing /\ folding' = folding
      BY <1>1, <1>3 DEF Fold
    <2> QED BY <1>1, <2>1
  <1> QED BY <1>2, <1>3

LEMMA RefusedKeeps == SessInv /\ Refused => SessInv'
PROOF
  <1> SUFFICES ASSUME SessInv, Refused PROVE SessInv' OBVIOUS
  <1>1. /\ UNCHANGED <<fuseVars, ep, phantom, staging, ackVars, events, handoffs, pending>>
        /\ UNCHANGED up /\ reply' = "error"
        /\ faulted' = (faulted \/ Open) /\ told' = (told \/ Open) /\ Fold
    BY DEF Refused, Fail, ReplyError
  <1>2. up' \in BOOLEAN /\ faulted' \in BOOLEAN /\ told' \in BOOLEAN
    BY <1>1 DEF SessInv, SessShape
  <1>3. ep' # NoEpisode /\ told' => faulted'
    BY <1>1 DEF SessInv, Latched, Open
  <1> QED BY <1>1, <1>2, <1>3, Folds, SessionOnly DEF SessInv

\* An answer about nothing: hello, or a begin that does not match.
LEMMA AnsweredOnly ==
  ASSUME SessInv, reply' # "verdict",
         UNCHANGED <<up, fuseVars, ep, faulted, phantom, staging, ackVars, bookVars, told>>
  PROVE  SessInv'
PROOF
  <1>1. UNCHANGED <<events, timing, folding, handoffs, pending>>
    BY DEF bookVars
  <1>2. /\ up' \in BOOLEAN /\ faulted' \in BOOLEAN /\ told' \in BOOLEAN
        /\ timing' \in Nat /\ folding' \in BOOLEAN
        /\ ep' # NoEpisode /\ told' => faulted'
    BY <1>1 DEF SessInv, SessShape, Latched, Open
  <1> QED BY <1>1, <1>2, SessionOnly

LEMMA HelloKeeps ==
  ASSUME NEW matches \in BOOLEAN PROVE SessInv /\ Hello(matches) => SessInv'
PROOF
  <1> SUFFICES ASSUME SessInv, Hello(matches) PROVE SessInv' OBVIOUS
  <1>1. CASE Open
    BY <1>1, RefusedKeeps DEF Hello
  <1>2. CASE ~Open
    BY <1>2, AnsweredOnly DEF Hello, ReplyError
  <1> QED BY <1>1, <1>2

\* The books of a new episode.
LEMMA NewBooks ==
  ASSUME faulted' = FALSE, phantom' = FALSE, told' = FALSE, staging' = 0,
         events' = 0, timing' = 0, folding' = FALSE, handoffs' = <<>>, pending' = 0,
         up' \in BOOLEAN, ep' \in Keys \cup {NoEpisode}
  PROVE  SessShape'
PROOF
  <1>1. handoffs' \in Seq(Outcomes) /\ pending' \in 0..Len(handoffs')
    OBVIOUS
  <1>2. faulted' \in BOOLEAN /\ phantom' \in BOOLEAN /\ told' \in BOOLEAN /\ folding' \in BOOLEAN
    OBVIOUS
  <1>3. events' \in Nat /\ timing' \in Nat
    OBVIOUS
  <1> QED BY <1>1, <1>2, <1>3, ZeroIsANumber DEF SessShape

\* A fuse that was reset.
LEMMA ResetShape ==
  ASSUME phase' \in Phases, asked' = 0, ResetNumbers, tally' = NoTally
  PROVE  FuseShape' /\ seq' = 0 /\ next_chunk' = 0
PROOF
  <1>1. tally' \in Tallies
    BY DEF NoTally, Tallies, Phases
  <1> QED BY <1>1, ZeroIsANumber DEF ResetNumbers, FuseShape

LEMMA BeginKeeps ==
  ASSUME NEW key \in Keys, NEW weights \in BOOLEAN
  PROVE  SessInv /\ EpisodeBegin(key, weights) => SessInv'
PROOF
  <1> SUFFICES ASSUME SessInv, EpisodeBegin(key, weights) PROVE SessInv' OBVIOUS
  <1>1. CASE Open
    BY <1>1, RefusedKeeps DEF EpisodeBegin
  <1>2. CASE ~Open /\ ~weights
    BY <1>2, AnsweredOnly DEF EpisodeBegin, ReplyError
  <1>3. CASE ~Open /\ weights
    <2>1. /\ ep' = key /\ phase' = "Moving" /\ asked' = 0 /\ ResetNumbers /\ tally' = NoTally
          /\ staging' = 0 /\ faulted' = FALSE /\ phantom' = FALSE /\ told' = FALSE
          /\ events' = 0 /\ timing' = 0 /\ folding' = FALSE
          /\ handoffs' = <<>> /\ pending' = 0 /\ reply' = "episode_ok"
          /\ UNCHANGED up /\ UNCHANGED ackVars
      BY <1>3 DEF EpisodeBegin, ResetFuse, Promise!Begin
    <2>2. FuseShape' /\ seq' = 0 /\ next_chunk' = 0
      BY <2>1, ResetShape DEF Phases
    <2>3. SessShape'
      <3>1. up' \in BOOLEAN /\ ep' \in Keys \cup {NoEpisode}
        BY <2>1 DEF SessInv, SessShape
      <3> QED BY <2>1, <3>1, NewBooks
    <2>4. AckShape' /\ Remembered'
      BY <2>1, AcksKept DEF SessInv
    <2>5. Latched' /\ Numbered'
      BY <2>1, <2>2 DEF Latched, NoVerdictPastFault, Numbered
    <2>6. ChainsAgree' /\ Booked'
      BY <2>1, <2>2 DEF ChainsAgree, Booked, NoTally
    <2> QED BY <2>2, <2>3, <2>4, <2>5, <2>6 DEF SessInv
  <1> QED BY <1>1, <1>2, <1>3

LEMMA EndKeeps ==
  ASSUME NEW written \in BOOLEAN PROVE SessInv /\ EpisodeEnd(written) => SessInv'
PROOF
  <1> SUFFICES ASSUME SessInv, EpisodeEnd(written) PROVE SessInv' OBVIOUS
  <1>1. CASE ~Open
    BY <1>1, RefusedKeeps DEF EpisodeEnd
  <1>2. CASE Open
    <2>1. /\ UNCHANGED <<fuseVars, phantom, staging, ackVars, events, handoffs, pending>>
          /\ ep' = NoEpisode /\ faulted' = FALSE /\ UNCHANGED <<told, up>>
          /\ reply' \in {"receipt", "error"} /\ Fold
      BY <1>2 DEF EpisodeEnd, ReplyError
    <2>2. up' \in BOOLEAN /\ faulted' \in BOOLEAN /\ told' \in BOOLEAN
      BY <2>1 DEF SessInv, SessShape
    <2> QED BY <2>1, <2>2, Folds, SessionOnly DEF SessInv
  <1> QED BY <1>1, <1>2

LEMMA BlankKeeps ==
  ASSUME AckShape', Remembered', up' \in BOOLEAN, Blank PROVE SessInv'
PROOF
  <1>1. /\ phase' = "Idle" /\ asked' = 0 /\ ResetNumbers /\ tally' = NoTally
        /\ ep' = NoEpisode /\ faulted' = FALSE /\ phantom' = FALSE /\ staging' = 0
        /\ events' = 0 /\ timing' = 0 /\ folding' = FALSE
        /\ handoffs' = <<>> /\ pending' = 0 /\ reply' = "none" /\ told' = FALSE
    BY DEF Blank
  <1>2. FuseShape'
    BY <1>1, ResetShape DEF Phases
  <1>3. SessShape'
    BY <1>1, NewBooks
  <1> QED BY <1>1, <1>2, <1>3, Closed

LEMMA StopKeeps == SessInv /\ (Stop \/ Restart) => SessInv'
PROOF
  <1> SUFFICES ASSUME SessInv, Stop \/ Restart PROVE SessInv' OBVIOUS
  <1>1. CASE Stop
    <2>1. up' = FALSE /\ Blank /\ UNCHANGED ackVars
      BY <1>1 DEF Stop
    <2>2. AckShape' /\ Remembered'
      BY <2>1, AcksKept DEF SessInv
    <2> QED BY <2>1, <2>2, BlankKeeps
  <1>2. CASE Restart
    <2>1. up' = TRUE /\ Blank /\ saved # Torn /\ last_nonce' = saved
          /\ UNCHANGED <<saved, high, lossy>>
      BY <1>2 DEF Restart
    <2>2. AckShape' /\ Remembered'
      BY <2>1 DEF SessInv, AckShape, Remembered
    <2> QED BY <2>1, <2>2, BlankKeeps
  <1> QED BY <1>1, <1>2

-----------------------------------------------------------------------------
(* A tick, one part of the state after the other.                          *)

LEMMA StageShape ==
  ASSUME SessShape, NEW req \in TickReqs, Stage(req) PROVE staging' \in Numbers
PROOF
  <1>1. Delivered(req) => req.chunk \in Numbers
    BY DEF Delivered, TickReqs
  <1>2. Expected(req) \in Numbers
    BY ZeroIsANumber DEF Expected, SessShape
  <1> QED BY <1>1, <1>2, WrapStays DEF Stage

\* An unguarded tick delivers, if anything, the number both sides wait for.
LEMMA NumbersKeep ==
  ASSUME FuseShape, SessShape, Numbered, Open, UNCHANGED ep,
         NEW req \in TickReqs, NEW tok, NEW fault \in BOOLEAN,
         Stage(req), StepFuse(req, tok, fault)
  PROVE  Numbered'
PROOF
  <1>1. seq' = seq + 1 /\ seq \in Nat
    BY DEF StepFuse, FuseShape
  <1>2. ASSUME phase' # "Failed" PROVE staging' = next_chunk'
    <2>1. ~Guarded(req, fault) /\ DecideStep(req, tok)
      BY <1>2, FaultTurn DEF StepFuse
    <2>2. /\ AnswersWith(tok) \/ Turns
          /\ next_chunk' = IF Delivered(req) THEN Wrap(next_chunk) ELSE next_chunk
      BY <2>1, DecideTurn
    <2>3. phase # "Failed"
      BY <1>2, <2>2 DEF AnswersWith, Turns
    <2>4. Expected(req) = next_chunk
      <3>1. CASE seq = 0
        BY <2>1, <3>1 DEF Guarded, Expected, Numbered
      <3>2. CASE seq # 0
        BY <2>1, <2>3, <3>2 DEF Guarded, Expected, Numbered
      <3> QED BY <3>1, <3>2
    <2>5. Delivered(req) => req.chunk = next_chunk
      BY <2>1 DEF Guarded
    <2> QED BY <2>2, <2>4, <2>5 DEF Stage
  <1>3. seq' # 0
    BY <1>1
  <1> QED BY <1>2, <1>3 DEF Numbered

\* The pending record takes the outcome, the others stay.
LEMMA ResolvedIs ==
  ASSUME SessShape, NEW out \in Outcomes, NEW r,
         r = IF pending = 0 THEN handoffs ELSE [handoffs EXCEPT ![pending] = out]
  PROVE  /\ r \in Seq(Outcomes) /\ Len(r) = Len(handoffs)
         /\ \A i \in 1..Len(handoffs) : r[i] = IF i = pending THEN out ELSE handoffs[i]
PROOF
  <1>1. CASE pending = 0
    BY <1>1 DEF SessShape
  <1>2. CASE pending # 0
    BY <1>2 DEF SessShape
  <1> QED BY <1>1, <1>2

\* The counts of the receipt.
LEMMA TallyKeeps ==
  ASSUME FuseShape, FuseShape', Booked, Open, UNCHANGED ep, Record,
         asked' = IF phase' = "Asking" /\ phase # "Asking" THEN asked + 1 ELSE asked
  PROVE  /\ tally'.escalations = asked' /\ tally'.terminal = phase'
         /\ asked' > 0 \/ tally'.rearms > 0 => tally'.stopped
         /\ phase' \notin {"Idle", "Moving"} => tally'.stopped
PROOF
  <1>1. /\ tally.escalations = asked
        /\ asked > 0 \/ tally.rearms > 0 => tally.stopped
        /\ phase \notin {"Idle", "Moving"} => tally.stopped
    BY DEF Booked
  <1>2. /\ tally'.escalations = IF phase' = "Asking" /\ phase # "Asking"
                                  THEN tally.escalations + 1 ELSE tally.escalations
        /\ tally'.rearms = IF phase \in {"Standing", "Asking"} /\ phase' = "Moving"
                              THEN tally.rearms + 1 ELSE tally.rearms
        /\ tally'.stopped = (tally.stopped \/ phase' \notin {"Idle", "Moving"})
        /\ tally'.terminal = phase'
    BY DEF Record
  <1>3. asked \in Nat /\ tally.rearms \in Nat
    BY DEF FuseShape, Tallies
  <1> QED BY <1>1, <1>2, <1>3

LEMMA BooksKeep ==
  ASSUME FuseShape, FuseShape', SessShape, Booked, Open, UNCHANGED ep,
         NEW tok, tok = NoToken \/ tok \in TokenSet,
         phase' = "Failed" \/ AnswersWith(tok)
           \/ (~(tok # NoToken /\ phase = "Asking") /\ Turns),
         asked' = IF phase' = "Asking" /\ phase # "Asking" THEN asked + 1 ELSE asked,
         Record, KeepHandoffs(tok)
  PROVE  Booked' /\ handoffs' \in Seq(Outcomes) /\ pending' \in 0..Len(handoffs')
PROOF
  <1> DEFINE n == Len(handoffs)
             out == Outcome(tok)
             r == IF pending = 0 THEN handoffs ELSE [handoffs EXCEPT ![pending] = out]
  <1>1. /\ n = asked /\ n \in Nat /\ asked \in Nat /\ pending \in 0..n
        /\ handoffs \in Seq(Outcomes)
    BY DEF Booked, SessShape, FuseShape
  <1>2. out \in Outcomes /\ (tok # NoToken => tok.decision \in {"Resume", "Abort", "Retune"})
    BY DEF Outcome, Outcomes, Consumed, TokenSet
  <1>3. /\ r \in Seq(Outcomes) /\ Len(r) = n
        /\ \A i \in 1..n : r[i] = IF i = pending THEN out ELSE handoffs[i]
    <2>1. out \in Outcomes /\ r = IF pending = 0 THEN handoffs
                                  ELSE [handoffs EXCEPT ![pending] = out]
      BY <1>2
    <2> HIDE DEF out, r
    <2> QED BY ONLY SessShape, <1>1, <2>1, ResolvedIs
  <1>4. /\ handoffs' = IF asked' # asked THEN Append(r, "unacked") ELSE r
        /\ pending' = IF asked' # asked THEN Len(r) + 1
                      ELSE IF pending # 0 /\ r[pending] # "unacked" THEN 0 ELSE pending
    BY DEF KeepHandoffs
  <1>5. /\ \A i \in 1..n : handoffs[i] = "unacked" <=> i = pending
        /\ phase = "Asking" => pending = n /\ pending # 0
        /\ pending # 0 => pending = n /\ phase \in {"Asking", "Failed"}
        /\ phase = "Ended" => n > 0 /\ handoffs[n] \in {"Abort", "Retune", "timeout"}
    BY DEF Booked
  <1> HIDE DEF n, out, r
  <1>6. SUFFICES
          /\ handoffs' \in Seq(Outcomes) /\ Len(handoffs') = asked'
          /\ pending' \in 0..Len(handoffs')
          /\ phase' = "Ended" =>
               /\ Len(handoffs') > 0
               /\ handoffs'[Len(handoffs')] \in {"Abort", "Retune", "timeout"}
          /\ \A i \in 1..Len(handoffs') : handoffs'[i] = "unacked" <=> i = pending'
          /\ phase' = "Asking" => pending' = Len(handoffs') /\ pending' # 0
          /\ pending' # 0 => pending' = Len(handoffs') /\ phase' \in {"Asking", "Failed"}
    <2>1. /\ tally'.escalations = asked' /\ tally'.terminal = phase'
          /\ asked' > 0 \/ tally'.rearms > 0 => tally'.stopped
          /\ phase' \notin {"Idle", "Moving"} => tally'.stopped
      BY TallyKeeps
    <2> QED BY <1>6, <2>1 DEF Booked
  <1>7. CASE asked' # asked
    <2>1. phase' = "Asking" /\ phase = "Standing" /\ asked' = asked + 1
      BY <1>7 DEF AnswersWith, Turns
    <2>2. pending = 0 /\ handoffs' = Append(r, "unacked") /\ pending' = n + 1
      BY <1>3, <1>4, <1>5, <1>7, <2>1
    <2>3. \A i \in 1..n : r[i] # "unacked"
      BY <1>1, <1>3, <1>5, <2>2
    <2>4. /\ Len(handoffs') = n + 1 /\ handoffs' \in Seq(Outcomes)
          /\ handoffs'[n + 1] = "unacked"
          /\ \A i \in 1..n : handoffs'[i] = r[i]
      BY <1>1, <1>3, <2>2 DEF Outcomes
    <2> QED BY <1>1, <2>1, <2>2, <2>3, <2>4
  <1>8. CASE asked' = asked
    <2>1. /\ handoffs' = r
          /\ pending' = IF pending # 0 /\ r[pending] # "unacked" THEN 0 ELSE pending
      BY <1>4, <1>8
    <2>2. CASE phase = "Asking"
      <3>1. pending = n /\ n \in 1..n /\ r[n] = out
        BY <1>1, <1>3, <1>5, <2>2
      <3>2. \/ out # "unacked" /\ phase' = "Moving"
            \/ out \in {"Abort", "Retune", "timeout"} /\ phase' = "Ended"
            \/ out = "unacked" /\ phase' \in {"Asking", "Failed"}
        BY <1>2, <2>2 DEF AnswersWith, Turns, Outcome, Consumed, out
      <3> QED BY <1>1, <1>3, <1>5, <1>8, <2>1, <3>1, <3>2
    <2>3. CASE phase # "Asking"
      <3>1. out = "unacked"
        BY <2>3 DEF Outcome, Consumed, out
      <3>2. /\ \A i \in 1..n : r[i] = handoffs[i]
            /\ pending' = pending
        BY <1>1, <1>3, <1>5, <2>1, <3>1
      <3>3. phase' # "Asking" /\ (phase' = "Ended" => phase = "Ended")
            /\ (pending # 0 => phase' = "Failed")
        BY <1>1, <1>5, <1>8, <2>3 DEF AnswersWith, Turns
      <3> QED BY <1>1, <1>3, <1>5, <1>8, <2>1, <3>2, <3>3
    <2> QED BY <2>2, <2>3
  <1> QED BY <1>7, <1>8

\* A tick's nonce is above all that is remembered, hence above all applied.
LEMMA NoncesKeep ==
  ASSUME AckShape, Remembered, NEW tok,
         tok = NoToken \/ (tok \in TokenSet /\ Verified(tok)),
         IF tok = NoToken THEN UNCHANGED <<last_nonce, saved, lossy>>
                          ELSE SaveNonces(tok),
         high' = IF Consumed(tok) THEN [high EXCEPT ![tok.op] = tok.nonce] ELSE high
  PROVE  AckShape' /\ Remembered'
PROOF
  <1>1. CASE tok = NoToken
    <2>1. UNCHANGED <<last_nonce, saved, lossy, high>>
      BY <1>1 DEF Consumed
    <2> QED BY <2>1 DEF AckShape, Remembered
  <1>2. CASE tok # NoToken
    <2>1. /\ tok.op \in Operators /\ tok.nonce \in Nat /\ tok.nonce > last_nonce[tok.op]
          /\ last_nonce' = [last_nonce EXCEPT ![tok.op] = tok.nonce]
          /\ saved' \in {last_nonce', saved, Torn}
          /\ lossy' = (lossy \/ saved' # last_nonce')
      BY <1>2 DEF SaveNonces, Verified, TokenSet
    <2>2. high' = high \/ high' = [high EXCEPT ![tok.op] = tok.nonce]
      OBVIOUS
    <2>3. last_nonce' \in [Operators -> Nat] /\ high' \in [Operators -> Nat]
      BY <2>1, <2>2 DEF AckShape
    <2>4. AckShape'
      BY <2>1, <2>3 DEF AckShape
    <2>5. ~lossy => \A o \in Operators : high'[o] <= last_nonce'[o]
      BY <2>1, <2>2 DEF AckShape, Remembered
    <2>6. Remembered'
      BY <2>1, <2>5 DEF Remembered
    <2> QED BY <2>4, <2>6
  <1> QED BY <1>1, <1>2

LEMMA EpisodeTickKeeps ==
  ASSUME SessInv, Open, NEW req \in TickReqs, TickInEpisode(req)
  PROVE  SessInv'
PROOF
  <1> DEFINE tok == IF Verified(req.ack) THEN req.ack ELSE NoToken
  <1>1. tok = NoToken \/ (tok \in TokenSet /\ Verified(tok))
    <2>1. Verified(req.ack) => req.ack \in TokenSet
      BY TokenAssumption DEF Verified, TickReqs
    <2> QED BY <2>1
  <1>2. /\ Stage(req) /\ faulted' = (faulted \/ ~Staged(req))
        /\ StepFuse(req, tok, faulted') /\ Chain(Staged(req)) /\ KeepHandoffs(tok)
        /\ IF tok = NoToken THEN UNCHANGED <<last_nonce, saved, lossy>> ELSE SaveNonces(tok)
        /\ high' = IF Consumed(tok) THEN [high EXCEPT ![tok.op] = tok.nonce] ELSE high
        /\ UNCHANGED <<ep, phantom, up>>
        /\ IF Staged(req) THEN reply' = "verdict" /\ UNCHANGED told
                          ELSE reply' = "error" /\ told' = TRUE
    BY DEF TickInEpisode, ReplyError
  <1> HIDE DEF tok
  <1>3. faulted' \in BOOLEAN /\ told' \in BOOLEAN
    <2>1. faulted \in BOOLEAN /\ told \in BOOLEAN
      BY DEF SessInv, SessShape
    <2>2. told' = told \/ told' = TRUE
      BY <1>2
    <2> QED BY <1>2, <2>1, <2>2
  <1>4. /\ FuseShape' /\ seq' = seq + 1
        /\ phase' = "Failed" \/ AnswersWith(tok)
             \/ (~(tok # NoToken /\ phase = "Asking") /\ Turns)
        /\ asked' = IF phase' = "Asking" /\ phase # "Asking" THEN asked + 1 ELSE asked
        /\ Record
    BY <1>2, <1>3, StepShape DEF SessInv
  <1>5. Booked' /\ handoffs' \in Seq(Outcomes) /\ pending' \in 0..Len(handoffs')
    BY <1>1, <1>2, <1>4, BooksKeep DEF SessInv
  <1>6. staging' \in Numbers
    BY <1>2, StageShape DEF SessInv
  <1>7. /\ events' = events + 1 /\ folding' = TRUE
        /\ timing' = IF folding THEN timing + 1 ELSE timing
    BY <1>2 DEF Chain
  <1>8. SessShape'
    <2>1. events' \in Nat /\ timing' \in Nat
      BY <1>7 DEF SessInv, SessShape
    <2>2. folding' \in BOOLEAN
      BY <1>7
    <2> QED BY <1>2, <1>3, <1>5, <1>6, <2>1, <2>2 DEF SessInv, SessShape
  <1>9. AckShape' /\ Remembered'
    BY <1>1, <1>2, NoncesKeep DEF SessInv
  <1>10. Numbered'
    BY <1>2, <1>3, NumbersKeep DEF SessInv
  <1>11. ChainsAgree'
    <2>1. tally'.ticks = tally.ticks + 1
      BY <1>4 DEF Record
    <2>2. events = seq /\ events = tally.ticks /\ events = IF folding THEN timing + 1 ELSE timing
      BY DEF SessInv, ChainsAgree
    <2>3. events' = timing' + 1
      BY <1>7, <2>2
    <2> QED BY <1>4, <1>7, <2>1, <2>2, <2>3 DEF ChainsAgree
  <1>12. Latched'
    <2>1. told => faulted
      BY DEF SessInv, Latched
    <2>2. told' => faulted'
      BY <1>2, <2>1
    <2>3. faulted' => phase' = "Failed"
      BY <1>2, FaultTurn DEF StepFuse, Guarded
    <2> QED BY <1>2, <2>2, <2>3 DEF Latched, NoVerdictPastFault, Open
  <1> QED BY <1>4, <1>5, <1>8, <1>9, <1>10, <1>11, <1>12 DEF SessInv

LEMMA PhantomKeeps ==
  ASSUME SessInv, ~Open, NEW req \in TickReqs, FirstPhantomTick \/ PhantomTick(req)
  PROVE  SessInv'
PROOF
  <1>1. ep = NoEpisode /\ UNCHANGED <<up, ep, ackVars, bookVars, told>>
    BY DEF Open, FirstPhantomTick, PhantomTick, ReplyError
  <1>2. AckShape' /\ Remembered'
    BY <1>1, AcksKept DEF SessInv
  <1>3. /\ FuseShape' /\ staging' \in Numbers
        /\ faulted' \in BOOLEAN /\ phantom' \in BOOLEAN
        /\ reply' = "verdict" => phase' = "Failed"
    <2>1. CASE FirstPhantomTick
      <3>1. /\ phantom' = TRUE /\ faulted' = TRUE /\ phase' = "Moving" /\ asked' = 0
            /\ ResetNumbers /\ tally' = NoTally /\ reply' = "error" /\ staging' = staging
        BY <2>1 DEF FirstPhantomTick, ResetFuse, ReplyError, Promise!Begin
      <3>2. FuseShape'
        BY <3>1, ResetShape DEF Phases
      <3>3. phantom' \in BOOLEAN /\ faulted' \in BOOLEAN
        BY <3>1
      <3> QED BY <3>1, <3>2, <3>3 DEF SessInv, SessShape
    <2>2. CASE PhantomTick(req)
      <3>1. Stage(req) /\ StepFuse(req, NoToken, TRUE) /\ UNCHANGED <<faulted, phantom>>
        BY <2>2 DEF PhantomTick
      <3>2. FuseShape'
        BY <3>1, StepShape DEF SessInv
      <3>3. phase' = "Failed"
        BY <3>1, FaultTurn DEF StepFuse, Guarded
      <3>4. staging' \in Numbers
        BY <3>1, StageShape DEF SessInv
      <3> QED BY <3>1, <3>2, <3>3, <3>4 DEF SessInv, SessShape
    <2> QED BY <2>1, <2>2
  <1>4. SessShape'
    BY <1>1, <1>3 DEF SessInv, SessShape, bookVars
  <1> QED BY <1>1, <1>2, <1>3, <1>4, Closed

LEMMA TickKeeps ==
  ASSUME NEW req \in TickReqs PROVE SessInv /\ Tick(req) => SessInv'
PROOF
  <1> SUFFICES ASSUME SessInv, Tick(req) PROVE SessInv' OBVIOUS
  <1>1. CASE Open
    BY <1>1, EpisodeTickKeeps DEF Tick
  <1>2. CASE ~Open
    BY <1>2, PhantomKeeps DEF Tick
  <1> QED BY <1>1, <1>2

-----------------------------------------------------------------------------
(* The theorems.                                                           *)

LEMMA SessStart == SessInit => SessInv
PROOF
  <1> SUFFICES ASSUME SessInit PROVE SessInv OBVIOUS
  <1>1. ep = NoEpisode /\ reply = "none"
    BY DEF SessInit
  <1>2. FuseShape
    <2>1. tally \in Tallies
      BY DEF SessInit, NoTally, Tallies, Phases
    <2> QED BY <2>1, ZeroIsANumber DEF SessInit, FuseShape, Phases
  <1>3. SessShape
    <2>1. handoffs \in Seq(Outcomes) /\ pending \in 0..Len(handoffs)
      BY DEF SessInit
    <2>2. /\ up \in BOOLEAN /\ faulted \in BOOLEAN /\ phantom \in BOOLEAN
          /\ told \in BOOLEAN /\ folding \in BOOLEAN
      BY DEF SessInit
    <2>3. ep \in Keys \cup {NoEpisode} /\ staging \in Numbers /\ events \in Nat /\ timing \in Nat
      BY ZeroIsANumber DEF SessInit
    <2> QED BY <2>1, <2>2, <2>3 DEF SessShape
  <1>4. AckShape /\ Remembered
    <2>1. last_nonce = [o \in Operators |-> 0] /\ high = last_nonce /\ saved = last_nonce
          /\ lossy = FALSE
      BY DEF SessInit
    <2>2. lossy \in BOOLEAN
      BY <2>1
    <2> QED BY <2>1, <2>2 DEF AckShape, Remembered
  <1> QED BY <1>1, <1>2, <1>3, <1>4
          DEF SessInv, Latched, NoVerdictPastFault, Numbered, Booked, ChainsAgree, Open

LEMMA SessStep == SessInv /\ [SessNext]_sessVars => SessInv'
PROOF
  <1> SUFFICES ASSUME SessInv, [SessNext]_sessVars PROVE SessInv' OBVIOUS
  <1>1. CASE BadLine \/ Stale
    BY <1>1, RefusedKeeps DEF BadLine, Stale
  <1>2. CASE Stop \/ Restart
    BY <1>2, StopKeeps
  <1>3. CASE \E matches \in BOOLEAN : Hello(matches)
    BY <1>3, HelloKeeps
  <1>4. CASE \E key \in Keys, weights \in BOOLEAN : EpisodeBegin(key, weights)
    BY <1>4, BeginKeeps
  <1>5. CASE \E req \in TickReqs : Tick(req)
    BY <1>5, TickKeeps
  <1>6. CASE \E written \in BOOLEAN : EpisodeEnd(written)
    BY <1>6, EndKeeps
  <1>7. CASE UNCHANGED sessVars
    <2>1. UNCHANGED <<up, fuseVars, ep, faulted, phantom, staging, ackVars, bookVars, reply, told>>
      BY <1>7 DEF sessVars
    <2>2. FuseShape' /\ AckShape' /\ Remembered'
      BY <2>1, FuseKept, AcksKept DEF SessInv
    <2>3. SessShape'
      BY <2>1 DEF SessInv, SessShape, bookVars
    <2>4. Latched' /\ Numbered'
      BY <2>1 DEF SessInv, Latched, NoVerdictPastFault, Numbered, Open, fuseVars
    <2>5. Booked' /\ ChainsAgree'
      BY <2>1 DEF SessInv, Booked, ChainsAgree, Open, fuseVars, bookVars
    <2> QED BY <2>2, <2>3, <2>4, <2>5 DEF SessInv
  <1> QED BY <1>1, <1>2, <1>3, <1>4, <1>5, <1>6, <1>7 DEF SessNext, Requests

\* The inductive invariant: the latch, both chunk numberings, the records against
\* the phase of the fuse, the chains and the nonce tables, in every session.
THEOREM SessInvariance == SessSpec => []SessInv
PROOF
  <1>1. SessInit => SessInv BY SessStart
  <1>2. SessInv /\ [SessNext]_sessVars => SessInv' BY SessStep
  <1> QED BY <1>1, <1>2, PTL DEF SessSpec

\* The state has the shapes the handlers assume, chunk numbers their width.
THEOREM SessTypeCorrect == SessSpec => []SessTypeOK
PROOF
  <1>1. SessInv => SessTypeOK
    BY DEF SessInv, FuseShape, SessShape, AckShape, SessTypeOK, Phases
  <1> QED BY <1>1, SessInvariance, PTL

\* No session lets a robot move after a fatal error was reported to its host.
THEOREM FaultsStayLatched == SessSpec => []NoVerdictPastFault
PROOF
  <1>1. SessInv => NoVerdictPastFault
    BY DEF SessInv, Latched
  <1> QED BY <1>1, SessInvariance, PTL

\* The staging and the fuse never come to disagree about the next chunk.
THEOREM NumberingsMeet == SessSpec => []NumberingAgrees
PROOF
  <1>1. SessInv => NumberingAgrees
    BY DEF SessInv, Numbered, NumberingAgrees
  <1> QED BY <1>1, SessInvariance, PTL

\* The handoff records tell what the fuse did, and so do the counts.
THEOREM BooksBalance == SessSpec => []HandoffBooks
PROOF
  <1>1. SessInv => HandoffBooks
    BY DEF SessInv, Booked, HandoffBooks
  <1> QED BY <1>1, SessInvariance, PTL

\* Every decided tick is chained, timed and counted once.
THEOREM ChainsMatch == SessSpec => []ChainsAgree
PROOF
  <1>1. SessInv => ChainsAgree
    BY DEF SessInv
  <1> QED BY <1>1, SessInvariance, PTL

-----------------------------------------------------------------------------
(* The nonces of the fuse and of the session.                              *)

\* What one tick spends: nothing, or the nonce of the ack it was given.
LEMMA SpentBy ==
  ASSUME NEW req \in TickReqs, NEW tok, NEW fault \in BOOLEAN, StepFuse(req, tok, fault)
  PROVE  \/ spent' = spent
         \/ tok # NoToken /\ spent' = [spent EXCEPT ![tok.op] = tok.nonce]
PROOF
  <1>1. CASE Guarded(req, fault)
    BY <1>1 DEF StepFuse, FaultStep, Promise!Refuse, Promise!Fail, Promise!vars
  <1>2. CASE ~Guarded(req, fault)
    <2>1. DecideStep(req, tok)
      BY <1>2 DEF StepFuse
    <2>2. CASE tok # NoToken /\ phase = "Asking"
      BY <2>1, <2>2 DEF DecideStep, AnswerStep, Promise!Accept
    <2>3. CASE ~(tok # NoToken /\ phase = "Asking")
      <3>1. Promise!Decide
        BY <2>1, <2>3 DEF DecideStep
      <3>2. spent' = spent
        BY <3>1 DEF Promise!Decide, Promise!Brake, Promise!Stand, Promise!Release,
                    Promise!Ask, Promise!Expire, Promise!Fail, Promise!vars
      <3> QED BY <3>2
    <2> QED BY <2>2, <2>3
  <1> QED BY <1>1, <1>2

LEMMA TickSpends ==
  ASSUME SessInv, SpentKnown, NEW req \in TickReqs, Tick(req)
  PROVE  SpentKnown'
PROOF
  <1>1. CASE Open
    <2> DEFINE tok == IF Verified(req.ack) THEN req.ack ELSE NoToken
    <2>1. tok # NoToken =>
            tok.op \in Operators /\ tok.nonce \in Nat /\ tok.nonce > last_nonce[tok.op]
      BY TokenAssumption DEF Verified, TickReqs, TokenSet
    <2>2. /\ StepFuse(req, tok, faulted') /\ faulted' = (faulted \/ ~Staged(req))
          /\ IF tok = NoToken THEN UNCHANGED <<last_nonce, saved, lossy>> ELSE SaveNonces(tok)
      BY <1>1 DEF Tick, TickInEpisode
    <2> HIDE DEF tok
    <2>3. faulted' \in BOOLEAN
      BY <2>2 DEF SessInv, SessShape
    <2>4. \/ spent' = spent
          \/ tok # NoToken /\ spent' = [spent EXCEPT ![tok.op] = tok.nonce]
      BY <2>2, <2>3, SpentBy
    <2>5. /\ last_nonce \in [Operators -> Nat]
          /\ last_nonce' = IF tok = NoToken THEN last_nonce
                           ELSE [last_nonce EXCEPT ![tok.op] = tok.nonce]
      BY <2>2 DEF SessInv, AckShape, SaveNonces
    <2> QED BY <2>1, <2>4, <2>5 DEF SpentKnown
  <1>2. CASE ~Open /\ ~phantom
    <2>1. spent' = [o \in Operators |-> 0] /\ last_nonce' = last_nonce
      BY <1>2 DEF Tick, FirstPhantomTick, ResetFuse, Promise!Begin, ackVars
    <2> QED BY <2>1 DEF SpentKnown, SessInv, AckShape
  <1>3. CASE ~Open /\ phantom
    <2>1. StepFuse(req, NoToken, TRUE) /\ last_nonce' = last_nonce
      BY <1>3 DEF Tick, PhantomTick, ackVars
    <2>2. spent' = spent
      BY <2>1, SpentBy
    <2> QED BY <2>1, <2>2 DEF SpentKnown
  <1> QED BY <1>1, <1>2, <1>3

LEMMA SpentStep == SessInv /\ SpentKnown /\ [SessNext]_sessVars => SpentKnown'
PROOF
  <1> SUFFICES ASSUME SessInv, SpentKnown, [SessNext]_sessVars PROVE SpentKnown' OBVIOUS
  <1>1. ASSUME UNCHANGED <<spent, last_nonce>> PROVE SpentKnown'
    BY <1>1 DEF SpentKnown
  <1>2. ASSUME spent' = [o \in Operators |-> 0], last_nonce' \in [Operators -> Nat]
        PROVE  SpentKnown'
    BY <1>2 DEF SpentKnown
  <1>3. CASE BadLine \/ Stale
    BY <1>1, <1>3 DEF BadLine, Stale, Refused, fuseVars, ackVars
  <1>4. CASE Stop \/ Restart
    BY <1>2, <1>4 DEF Stop, Restart, Blank, ackVars, SessInv, AckShape
  <1>5. CASE \E matches \in BOOLEAN : Hello(matches)
    BY <1>1, <1>5 DEF Hello, Refused, fuseVars, ackVars
  <1>6. ASSUME NEW key \in Keys, NEW weights \in BOOLEAN, EpisodeBegin(key, weights)
        PROVE  SpentKnown'
    <2>1. CASE Open \/ ~weights
      BY <1>1, <1>6, <2>1 DEF EpisodeBegin, Refused, fuseVars, ackVars
    <2>2. CASE ~(Open \/ ~weights)
      <3>1. spent' = [o \in Operators |-> 0] /\ last_nonce' = last_nonce
        BY <1>6, <2>2 DEF EpisodeBegin, ResetFuse, Promise!Begin, ackVars
      <3> QED BY <1>2, <3>1 DEF SessInv, AckShape
    <2> QED BY <2>1, <2>2
  <1>7. CASE \E req \in TickReqs : Tick(req)
    BY <1>7, TickSpends
  <1>8. CASE \E written \in BOOLEAN : EpisodeEnd(written)
    BY <1>1, <1>8 DEF EpisodeEnd, Refused, fuseVars, ackVars
  <1>9. CASE UNCHANGED sessVars
    BY <1>1, <1>9 DEF sessVars, fuseVars, ackVars
  <1> QED BY <1>3, <1>4, <1>5, <1>6, <1>7, <1>8, <1>9 DEF SessNext, Requests

\* What the session verifies and burns the fuse takes, or is latched: the two
\* checks of a token never part, whatever was spent, burnt, lost or forgotten.
THEOREM VerifiedMeansTaken == SessSpec => []VerifiedIsTaken
PROOF
  <1>1. SessInit => SpentKnown
    BY DEF SessInit, SpentKnown
  <1>2. SessInv /\ SpentKnown => VerifiedIsTaken
    <2> SUFFICES ASSUME SessInv, SpentKnown, Open, NEW tok \in Tokens, Verified(tok),
                        phase # "Failed"
                 PROVE  /\ phase = "Asking" /\ tok.digest = <<ep, asked>>
                        /\ tok.nonce > spent[tok.op]
      BY DEF VerifiedIsTaken
    <2>1. /\ pending # 0 /\ tok.digest = <<ep, pending>>
          /\ tok.nonce > last_nonce[tok.op]
      BY DEF Verified
    <2>2. tok.op \in Operators /\ tok.nonce \in Nat
      BY TokenAssumption DEF TokenSet
    <2>3. pending = asked /\ phase = "Asking"
      BY <2>1 DEF SessInv, Booked
    <2>4. spent[tok.op] <= last_nonce[tok.op]
          /\ spent[tok.op] \in Nat /\ last_nonce[tok.op] \in Nat
      BY <2>2 DEF SpentKnown, SessInv, AckShape
    <2> QED BY <2>1, <2>2, <2>3, <2>4
  <1> QED BY <1>1, <1>2, SpentStep, SessInvariance, PTL DEF SessSpec

\* A tick spends no nonce that was applied before, unless a save was lost.
LEMMA TickAppliesAbove ==
  ASSUME SessInv, SpentKnown, NEW req \in TickReqs, Tick(req), ~lossy,
         NEW o \in Operators, spent'[o] > spent[o]
  PROVE  spent'[o] > high[o]
PROOF
  <1>1. CASE Open
    <2> DEFINE tok == IF Verified(req.ack) THEN req.ack ELSE NoToken
    <2>1. tok # NoToken => tok.nonce \in Nat /\ tok.nonce > last_nonce[tok.op]
      BY TokenAssumption DEF Verified, TickReqs, TokenSet
    <2>2. StepFuse(req, tok, faulted') /\ faulted' = (faulted \/ ~Staged(req))
      BY <1>1 DEF Tick, TickInEpisode
    <2> HIDE DEF tok
    <2>3. faulted' \in BOOLEAN
      BY <2>2 DEF SessInv, SessShape
    <2>4. \/ spent' = spent
          \/ tok # NoToken /\ spent' = [spent EXCEPT ![tok.op] = tok.nonce]
      BY <2>2, <2>3, SpentBy
    <2>5. spent \in [Operators -> Nat]
      BY DEF SpentKnown
    <2>6. spent'[o] # spent[o]
      BY <2>5
    <2>7. tok # NoToken /\ o = tok.op /\ spent'[o] = tok.nonce
      BY <2>4, <2>5, <2>6
    <2>8. high[o] \in Nat /\ last_nonce[o] \in Nat /\ high[o] <= last_nonce[o]
      BY DEF SessInv, AckShape, Remembered
    <2> QED BY <2>1, <2>7, <2>8
  <1>2. CASE ~Open /\ ~phantom
    <2>1. spent'[o] = 0
      BY <1>2 DEF Tick, FirstPhantomTick, ResetFuse, Promise!Begin
    <2> QED BY <2>1 DEF SpentKnown
  <1>3. CASE ~Open /\ phantom
    <2>1. StepFuse(req, NoToken, TRUE)
      BY <1>3 DEF Tick, PhantomTick
    <2>2. spent' = spent
      BY <2>1, SpentBy
    <2> QED BY <2>2 DEF SpentKnown
  <1> QED BY <1>1, <1>2, <1>3

\* Nothing but a tick spends a nonce.
LEMMA AppliesAbove ==
  ASSUME SessInv, SpentKnown, [SessNext]_sessVars,
         NEW o \in Operators, spent'[o] > spent[o]
  PROVE  spent'[o] > high[o] \/ lossy
PROOF
  <1>1. spent[o] \in Nat /\ spent' # spent
    BY DEF SpentKnown
  <1>2. spent' # [q \in Operators |-> 0]
    BY <1>1
  <1>3. CASE \E req \in TickReqs : Tick(req)
    BY <1>3, TickAppliesAbove
  <1>4. CASE BadLine \/ Stale
    BY <1>1, <1>4 DEF BadLine, Stale, Refused, fuseVars
  <1>5. CASE Stop \/ Restart
    BY <1>2, <1>5 DEF Stop, Restart, Blank
  <1>6. CASE \E matches \in BOOLEAN : Hello(matches)
    BY <1>1, <1>6 DEF Hello, Refused, fuseVars
  <1>7. CASE \E key \in Keys, weights \in BOOLEAN : EpisodeBegin(key, weights)
    BY <1>1, <1>2, <1>7 DEF EpisodeBegin, Refused, ResetFuse, Promise!Begin, fuseVars
  <1>8. CASE \E written \in BOOLEAN : EpisodeEnd(written)
    BY <1>1, <1>8 DEF EpisodeEnd, Refused, fuseVars
  <1>9. CASE UNCHANGED sessVars
    BY <1>1, <1>9 DEF sessVars, fuseVars
  <1> QED BY <1>3, <1>4, <1>5, <1>6, <1>7, <1>8, <1>9 DEF SessNext, Requests

\* A signature is applied at most once, over all episodes and restarts, as long as
\* the nonce table could be saved.
THEOREM TokensOnceAcross == SessSpec => TokensReleaseOnce
PROOF
  <1>1. SessInit => SpentKnown
    BY DEF SessInit, SpentKnown
  <1>2. SessInv /\ SpentKnown /\ [SessNext]_sessVars
          => [\A o \in Operators : spent'[o] > spent[o] => spent'[o] > high[o] \/ lossy]_sessVars
    BY AppliesAbove
  <1> QED
    BY <1>1, <1>2, SpentStep, SessInvariance, PTL DEF SessSpec, TokensReleaseOnce

-----------------------------------------------------------------------------
(* The replay.                                                             *)

\* The replayed session is the session, but for what it forgot.
Twins ==
  Traces =>
    /\ twin \in [faulted : BOOLEAN, nonce : [Operators -> Nat], agrees : BOOLEAN]
    /\ twin.faulted = faulted
    /\ \A o \in Operators : twin.nonce[o] <= last_nonce[o]
    /\ twin.agrees

LEMMA ReplayedTick ==
  ASSUME SessInv, Twins, NEW req \in TickReqs, Tick(req), Replays(req)
  PROVE  Twins'
PROOF
  <1>1. CASE ~Traces \/ SpentBefore(req.ack)
    BY <1>1 DEF Replays, Twins, Traces
  <1>2. CASE Traces /\ ~SpentBefore(req.ack)
    <2> DEFINE verified == Verifies(req.ack)
               fault == twin.faulted \/ ~Staged(req)
    <2>1. /\ twin \in [faulted : BOOLEAN, nonce : [Operators -> Nat], agrees : BOOLEAN]
          /\ twin.faulted = faulted /\ twin.agrees
          /\ \A o \in Operators : twin.nonce[o] <= last_nonce[o]
          /\ last_nonce \in [Operators -> Nat] /\ faulted \in BOOLEAN
      BY <1>2 DEF Twins, SessInv, AckShape, SessShape
    <2>2. TickInEpisode(req)
      BY <1>2 DEF Tick, Traces
    <2>3. req.ack # NoToken => req.ack.op \in Operators /\ req.ack.nonce \in Nat
      BY TokenAssumption DEF TickReqs, TokenSet
    <2>4. verified <=> Verified(req.ack)
      <3>1. CASE req.ack = NoToken
        BY <3>1 DEF Verifies, Verified
      <3>2. CASE req.ack # NoToken
        <4>1. req.ack.nonce > twin.nonce[req.ack.op] <=> req.ack.nonce > last_nonce[req.ack.op]
          BY <1>2, <2>1, <2>3, <3>2 DEF SpentBefore
        <4> QED BY <3>2, <4>1 DEF Verifies, Verified
      <3> QED BY <3>1, <3>2
    <2>5. faulted' = (faulted \/ ~Staged(req))
      BY <2>2 DEF TickInEpisode
    <2>6. twin' = [faulted |-> fault,
                   nonce |-> IF verified
                               THEN [twin.nonce EXCEPT ![req.ack.op] = req.ack.nonce]
                               ELSE twin.nonce,
                   agrees |-> /\ twin.agrees
                              /\ fault = faulted'
                              /\ verified = Verified(req.ack)]
      BY <1>2 DEF Replays
    <2>7. fault = faulted' /\ fault \in BOOLEAN
      BY <2>1, <2>5
    <2>8. last_nonce' = IF verified THEN [last_nonce EXCEPT ![req.ack.op] = req.ack.nonce]
                                    ELSE last_nonce
      BY <2>2, <2>4 DEF TickInEpisode, SaveNonces, Verified
    <2>9. verified => req.ack # NoToken
      BY DEF Verifies
    <2>10. verified \in BOOLEAN /\ Verified(req.ack) \in BOOLEAN
      BY DEF Verifies, Verified
    <2> HIDE DEF verified, fault
    <2>11. verified = Verified(req.ack)
      BY <2>4, <2>10
    <2>12. twin'.faulted = faulted' /\ twin'.faulted \in BOOLEAN
      BY <2>6, <2>7
    <2>13. twin'.agrees = TRUE
      BY <2>1, <2>6, <2>7, <2>11
    <2>14. twin'.nonce \in [Operators -> Nat]
      BY <2>1, <2>3, <2>6, <2>9
    <2>15. \A o \in Operators : twin'.nonce[o] <= last_nonce'[o]
      BY <2>1, <2>3, <2>6, <2>8, <2>9
    <2>16. twin' \in [faulted : BOOLEAN, nonce : [Operators -> Nat], agrees : BOOLEAN]
      BY <2>6, <2>12, <2>13, <2>14
    <2> QED BY <2>12, <2>13, <2>15, <2>16 DEF Twins
  <1> QED BY <1>1, <1>2

LEMMA TwinsStep == SessInv /\ Twins /\ [RepNext]_repVars => Twins'
PROOF
  <1> SUFFICES ASSUME SessInv, Twins, [RepNext]_repVars PROVE Twins' OBVIOUS
  <1>1. CASE Untraced
    BY <1>1 DEF Untraced, Twins, Traces
  <1>2. CASE Stale /\ Refuse   \* a tick, of the ids refused
    <2>1. CASE ~Traces
      BY <1>2, <2>1 DEF Refuse, Twins, Traces
    <2>2. CASE Traces
      <3>1. /\ twin' = [twin EXCEPT !.faulted = TRUE]
            /\ faulted' = (faulted \/ Open) /\ last_nonce' = last_nonce /\ Open
        BY <1>2, <2>2 DEF Refuse, Stale, Refused, Fail, ackVars, Traces
      <3>2. faulted' = TRUE
        BY <3>1
      <3>3. /\ twin \in [faulted : BOOLEAN, nonce : [Operators -> Nat], agrees : BOOLEAN]
            /\ \A o \in Operators : twin.nonce[o] <= last_nonce[o]
            /\ twin.agrees
        BY <2>2 DEF Twins
      <3>4. twin' = [faulted |-> TRUE, nonce |-> twin.nonce, agrees |-> twin.agrees]
        BY <3>1, <3>3
      <3>5. /\ twin' \in [faulted : BOOLEAN, nonce : [Operators -> Nat], agrees : BOOLEAN]
            /\ twin'.faulted = TRUE /\ twin'.nonce = twin.nonce /\ twin'.agrees = twin.agrees
        BY <3>3, <3>4
      <3>6. twin'.agrees
        BY <3>3, <3>5
      <3>7. \A o \in Operators : twin'.nonce[o] <= last_nonce'[o]
        BY <3>1, <3>3, <3>5
      <3>8. twin'.faulted = faulted'
        BY <3>2, <3>5
      <3> QED BY <3>5, <3>6, <3>7, <3>8 DEF Twins
    <2> QED BY <2>1, <2>2
  <1>3. CASE \E key \in Keys, weights \in BOOLEAN :
               /\ EpisodeBegin(key, weights)
               /\ twin' = IF ~Open /\ weights THEN Fresh ELSE Lost
    <2>1. PICK key \in Keys, weights \in BOOLEAN :
               /\ EpisodeBegin(key, weights)
               /\ twin' = IF ~Open /\ weights THEN Fresh ELSE Lost
      BY <1>3
    <2>2. CASE ~Open /\ weights
      <3>1. twin' = Fresh /\ faulted' = FALSE /\ last_nonce' = last_nonce
        BY <2>1, <2>2 DEF EpisodeBegin, ackVars
      <3>2. /\ Fresh \in [faulted : BOOLEAN, nonce : [Operators -> Nat], agrees : BOOLEAN]
            /\ Fresh.faulted = FALSE /\ Fresh.agrees = TRUE
            /\ \A o \in Operators : Fresh.nonce[o] = 0
        BY DEF Fresh
      <3>3. \A o \in Operators : last_nonce[o] \in Nat
        BY DEF SessInv, AckShape
      <3>4. \A o \in Operators : twin'.nonce[o] <= last_nonce'[o]
        BY <3>1, <3>2, <3>3
      <3>5. twin'.agrees /\ twin'.faulted = faulted'
        BY <3>1, <3>2
      <3>6. twin' \in [faulted : BOOLEAN, nonce : [Operators -> Nat], agrees : BOOLEAN]
        BY <3>1, <3>2
      <3> QED BY <3>4, <3>5, <3>6 DEF Twins
    <2>3. CASE ~(~Open /\ weights)
      BY <2>1, <2>3 DEF Twins, Traces
    <2> QED BY <2>2, <2>3
  <1>4. CASE \E req \in TickReqs : Tick(req) /\ Replays(req)
    BY <1>4, ReplayedTick
  <1>5. CASE UNCHANGED repVars
    BY <1>5 DEF repVars, sessVars, ackVars, Twins, Traces, Open
  <1> QED BY <1>1, <1>2, <1>3, <1>4, <1>5 DEF RepNext, RepRequests, RefuseId

\* Everything shown of a session holds while its trace is kept.
LEMMA TracedSession == [RepNext]_repVars => [SessNext]_sessVars
PROOF BY DEF RepNext, RepRequests, RefuseId, SessNext, Requests, repVars

\* An honest trace gives every tick of its replay the inputs it was decided on,
\* outside the cases the trace is known not to carry.
THEOREM ReplayFaithful == RepSpec => []ReplayAgrees
PROOF
  <1>1. RepInit => SessInv /\ Twins
    BY SessStart DEF RepInit, Twins, Traces
  <1>2. SessInv /\ Twins /\ [RepNext]_repVars => (SessInv /\ Twins)'
    BY SessStep, TwinsStep, TracedSession
  <1>3. Twins => ReplayAgrees
    BY DEF Twins, ReplayAgrees
  <1> QED BY <1>1, <1>2, <1>3, PTL DEF RepSpec
=============================================================================

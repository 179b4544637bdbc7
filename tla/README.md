# Lictor in TLA+

Lictor sits between a robot policy and the robot. Once per control tick the
host shows it the observation and, when there is one, a new chunk of actions;
it answers with a verdict that carries the action the host must apply. When
checks trip it clamps, brakes, holds the robot still, asks a human, and as a
last resort latches a fault until the episode ends. Every tick enters a hash
chain; every episode ends in a signed receipt and a line of a ledger.

This directory specifies that behaviour. `*.tla` are the specifications and
their proofs, `*.cfg` the TLC configurations, `PROJECT.json` lists the runs,
the lines each definition stands for, the known hazards, the disagreements found
and the theorems.

## The system

| part | state | operations | talks to | what makes it correct |
|---|---|---|---|---|
| state machine, `lictor-fuse/src/fsm.rs` | state, per-visit and per-episode counters, window, hold setpoint, nonces | `next` (23 rows), `reset` | called once per tick by `decide` and `fault_tick` | stops finish, waits are whole and bounded, releases are earned or signed |
| tick, `lictor-fuse/src/fuse.rs` | position, velocity, chunk buffers, continuity counters, tally | `decide`, `fault_tick`, `reset`, `finish` | Tier 0, Tier 1, the state machine; called by the session | a trip reaches the action of its own tick; the verdict tells what happened |
| Tier 0 and braking, `lictor-detect` | none | `check_chunk`, `check_action`, `brake_feasible` | pure, from the tick | what is let through can still be braked inside the box |
| Tier 1 and conformal score, `lictor-detect` | previous chunk, trail | `features`, `standardise`, `aggregate`, `trip` | from the tick | |
| session, `lictor-runtime/src/session.rs` | open episode, fault latch, phantom flag, last id, nonces of all episodes, pending handoff, chains | `hello`, `episode_begin`, `tick`, `episode_end`, bad line, stop, restart | JSON lines from the host; files; the tick | a fault stays latched; records, counts and chains agree |
| trace and replay, `trace.rs`, `cmd/replay.rs` | the lines of an episode | write, read back | the serve loop | an honest trace leads to the chain of its receipt |
| artefacts, `episode.rs`, `lictor-receipt` | receipt, ticks and timing files, ledger, nonce file | `write_episode`, `append_ledger`, `verify*`, crash receipt | written by the session, or by the host after a crash | what was reported as written verifies; the ledger only grows |
| hosts, `adapters/` | child process, episode, tick and chunk numbers, last safe action | `begin`, `tick`, `end`, `close` with a deadline | the session, over pipes; a client over a socket | never stuck, never out of step, one writer |
| executor, `harness/executor.py` | chunk in flight, current chunk | `needs_chunk`, `fulfil`, `tick` | decides what the host sends | the labels are those of the row executed |
| envelope, `lictor-core/src/envelope.rs` | none at run time | `validate`, `compile` | loaded by the session | what it accepts is enough for the braking check |
| canonical JSON, signatures, calibration, statistics, command line | none at run time | pure | | |

What is hard here: counters that must restart with each visit and others that
must never restart in an episode; rows whose order matters; acks that arrive on
the worst tick or twice; a verdict that is the host's only knowledge of the
handoff; buffers read several ticks after they were written; errors that reach
the session between `begin` and `end`; two parties who number the same chunks;
crashes between the receipt and the ledger, and inside either; answers that race
a deadline. `PROJECT.json` lists each at its line, with the properties that
watch it or the reason none does.

## Modules

| module | models |
|---|---|
| `Fsm` | `fsm::next`: one action per row, or per group of rows with the same body; `FuseRt::new` and `reset` |
| `FsmHistory` | `Fsm` with history variables, its safety properties, the inductive invariant and the refinement |
| `StopPromise` | abstract: what a watcher of the fuse may rely on |
| `FsmClaims` | a history and a claim of the documentation the code does not keep |
| `Fuse` | `decide` and `fault_tick` around `Fsm`: GUARD, INGEST, chunk buffers, ACTION, the verdict |
| `Session` | the handlers of a `lictor serve` process, crashes and restarts; its fuse is `StopPromise` |
| `Replay` | `Session` with the trace it leaves and the session a replay of it ends in |
| `Artefacts` | the files of an arm, every write of which may be cut, and `lictor verify` |
| `EpisodeLog` | abstract: what a ledger promises its reader |
| `Proxy` | openpi proxy, LeRobot `Fuse`, `LictorClient` and a child that may be slow, refuse or die |
| `Executor` | the chunk executor of the experiments and the labels the fuse accepts of it |
| `Envelope` | what `validate` demands and `compile` makes of the braking part of an envelope |
| `Brake` | the closed-form braking check, the leash and the brake and hold actions in one loop with a plant |
| `MC*` | values for the model-checking runs |
| `FsmLemmas`, `FsmProofs`, `FuseProofs`, `SessionProofs`, `ArtefactsProofs`, `ProxyProofs`, `ExecutorProofs`, `BrakeProofs` | theorems |

How they fit together. `Fsm` implements `StopPromise` (`PromiseKept`), and a
step of `Fuse` is a step of `Fsm` (`FuseImplementsFsm`); so `Session` needs no
counters of the state machine and takes a step of `StopPromise` per tick. Which
one, it may assume of the kind of tick alone (`Refuse`, `Accept`, `Decide`), and
`ContractKept` shows that `Fsm` keeps to it. `Proxy` in turn sees of the session only which requests it
accepts and how it numbers ticks and chunks: an error or a verdict for a tick
outside an episode, as `FirstPhantomTick` and `PhantomTick` give. `Artefacts` begins where the
session's `episode_end` hands over. `Brake` begins where `Fuse` treats the result
of the braking check as an input.

### Fsm

A step is one call of `next`. Its argument is a record with the fields of
`FsmInput`; `FsmInputs` is exactly the set of records `decide` and `fault_tick`
can build, so `predictive` always agrees with the window, `chunk_ok` with the
trips, and a fail-closed bit never comes with an ack. The table is tried
top-down: each action's guard excludes the rows above it, and `Transition`
adds what `next` does on every row (count `clean_run`, keep or clear the window).

| rows | action | rows | action |
|---|---|---|---|
| 1 | `FailClosed` | 14 | `TimeOutBrake` |
| 2, 3 | `StayLatched` | 15 | `ConfirmStop` |
| 4, 10 | `AckAbort` | 16 | `KeepBraking` |
| 5 | `AckRetune` | 17, 17b, 18, 19 | `Brake` |
| 6, 9 | `RearmAck` | 20 | `Clamp` |
| 7 | `ExpireHandoff` | 21 | `ClearDown` |
| 8 | `AwaitAck` | 22, 23 and the two stay rows | `Proceed` |
| 11, 12, 13 | `RearmAuto`, `Escalate`, `StandStill` | the `Idle` arm | `FailIdle` |

Data: the six soft bits are one bit `SOFT` (no row tells them apart except in
the wording of the reason); the window is the set of positions of its one
bits, 0 the newest; a position is one integer coordinate, which is enough to
see it clamped or not clamped; counters keep their widths through `U8Max`,
`U16Max` and `U32Max`, which are parameters so that saturation can be reached by
TLC. `WidthAssumption`, `HysteresisAssumption` and `InputAssumption` are what
the field types and `SafetyEnvelope::validate` guarantee, and nothing else is
assumed: a limit of zero or of the type's maximum is allowed, as in the code.
The equality of a nonce and an ack's operator slot are kept; signatures were
verified by the session before.

### FsmHistory and StopPromise

The counters are what the rows decide by. A property stated with them would
repeat the guards, so the properties are stated with histories kept from the
states passed and the inputs seen: `dwell` (ticks of this visit), `still`
(stopped ticks in a row when braking ended), `calm` (clean ticks in a row in
Held), `autos` and `clamped` (per episode).

`Remaining` is what a stop can still take and `Fuel` what an episode can:
`StopsCountDown` and `EpisodesRunDown` say that every tick leaves less of the
one, and no tick but an operator's Resume adds to the other.

`StopPromise` has seven phases and three numbers. `PromiseKept` says that
`Fsm` implements it under `PhaseOf`, with the re-arm budget as `Budget` and
the workspace box as `Box`: a begun stop is finished or fails closed; a
standing robot is released only out of the budget or on a higher token; the
setpoint does not wander; a closed latch is final until the next episode.

The same steps, sorted by the tick that causes them, are what `Session` is built
on: a tick refused by GUARD (`Refuse`), one that brings a verified token while an
operator is asked (`Accept`), any other (`Decide`). `TickContract` says that `next`
does no more than that, and numbers handoffs as the session counts them. It
quantifies over every input in every step, which TLC would have to enumerate
twice; it is proved, and no run lists it.

### Fuse

A tick's input is what the stages tell apart. `guard()` is abstracted to the
bits it raises, which may be any non-empty set; a tick without them is
admitted only if there is a chunk to index. What Tier 0 and Tier 1 compute is an
input: whether a soft bit or BRAKE is raised, whether the projection moves
rows, and whether the score is low, in the warn band or a hit. `cur` records
whether later ticks index untouched rows or projected ones. `asked` and
`open` are histories kept from the verdicts alone: what a host knows of the
handoff. The continuity counters are in `Session`, the row labels in
`Executor`; velocity and `last_cmd` are in `Brake` as far as it needs them.

### Session and Replay

| code | action or operator |
|---|---|
| `handle`: an id not above the last | `Stale` |
| `handle_bad_line` | `BadLine` |
| `hello`, its digests matching or not | `Hello(matches)` |
| `episode_begin`, the weights known or not | `EpisodeBegin(key, weights)` |
| `tick`: in an episode, first and later ones outside | `TickInEpisode`, `FirstPhantomTick`, `PhantomTick` |
| `stage`, `Staging::next_seq` | `Staged`, `Expected`, `Stage` |
| `guard`, `FuseRt::next_chunk_seq` | `Guarded`, `next_chunk` |
| `check_ack`, `verify_ack`, the nonce file | `Verified`, `SaveNonces` |
| handoff records, `resolve`d a tick later | `Outcome`, `KeepHandoffs` |
| `fold_pending_timing`, the two chains | `Fold`, `Chain` |
| `Tally::record` | `Record` |
| `episode_end`, its files written or not | `EpisodeEnd(written)` |
| `bye`, end of input, `--on-fault abort`, a kill | `Stop` |
| `Session::new` | `Restart`, impossible with a torn nonce file |

A request is a record of what the handlers tell apart: a tick has `t` as zero,
the next or another, good or bad dimensions, whether it passes the other checks
of `guard`, the number of the chunk it delivers, and an ack. A save of the
nonce table may succeed, leave the old file, or leave it torn; `lossy` notes that
one did not succeed. An operator token is bound to an episode and a handoff's
number in it, the worst the digest allows: the same episode run again word for
word. `Stop` may come between any two requests and loses everything but the
nonce file. The receipt itself is in `Artefacts`; of the tally `Session` keeps
what the records can contradict (ticks, escalations, re-arms, whether it
stopped, the terminal phase). Ticks and handoffs are counted without wrapping:
they are 32-bit numbers of one episode.

`Replay` adds `twin`, the part of a replayed session that can differ from
the real one: the fault latch and the nonce table, which a replay starts
empty. `agrees` says that each decided tick got the same schema fault and the
same ack. `twin = Lost` marks what the code does not trace or traces
wrongly, and nothing is claimed then (see the observations below). A request
refused for its id is handled by its kind (`RefuseId`): behind a tick the loop goes
on tracing (`Refuse`), while an `episode_begin` opens another trace and an
`episode_end` ends the trace, whatever the session answered, and a `hello` is not
traced (`Untraced`).

### Artefacts and EpisodeLog

`Sign` is `episode_end` or `crash-receipt` reading the ledger and signing;
`WriteReceipt`, `WriteTicks`, `WriteTiming` and `AppendLedger` follow in the order
of `write_episode`, and each has a `Cut` action, in which a crash or a failed
write leaves the old file, a torn one, or one cut between two events.
Afterwards any episode may be signed again. `EnterByHand` is `lictor ledger
append`. A hash is modelled as everything it covers, so two hashes are equal
exactly when what they cover is, which is the assumption made of SHA-256. A
ledger is a sequence of lines and whether the last one ended: the code appends
to the end of the file, so a line cut before its newline is complete, and the
next one is glued to it. `Intact` is `lictor verify` with all companions:
embedded ticks under each policy, ticks file, timing file, ledger.

`EpisodeLog` is the ledger as a reader sees it: one more entry at a time, or
unreadable for good. `LedgerOnlyGrows` states that `Artefacts` implements it.

### Proxy

One variable `at` says which call of the host is running: waiting for a
frame, `begin`, `tick`, `end`, the crash receipt, `close`. The pipes hold one request and
one answer, since `LictorClient.request` waits for the answer. `GiveUp` is
the deadline of `_read_line` or the end of the pipe, and kills the child
before anything else is done (`Kill`); an answer may have been on its way. The
child takes the labels as `Session` does, and may refuse any `begin` or `end`
with an error, as it does when it is in a fault or a file cannot be written.
Each connection has a child of its own.

### Executor

A row is a chunk's number and an index. The constructor's arguments are
chosen in `ExecInit`: `sync`, or `async` with `drop` or `freeze`, and every
horizon, execution horizon and delay it accepts; a spike may be added to
each delay. `FuseTakes` is what `stage` and `guard` accept of a label and where the
fuse looks; `acted` is the row the robot executes.

### Envelope and Brake

One dimension, integers, one tick per unit of time. `Accepted` has the checks of
`validate` on the fields the braking check reads, `Compiled` the box inside the
margin. `Feasible` is `brake_feasible` for the closed-form kinds: the ball
of the present velocity, of the row at hand, and of each later committed row of
the Euler rollout fits the box. The host may name any row below the horizon on
any tick, with a delivery or without one (`Host`): `guard` asks for no more, and
the experiments' asynchronous executor does deliver at a later row and drain the
rows from `exec_steps` on. The state machine may brake, hold or re-arm on any
tick (`BrakeTick`, `HoldTick`, `RearmTick`), and `ResumeTick` executes a row
whatever the check said, as the code does. `Execute` includes the leash of
`check_action`: on a tick without a delivery any row between the last command and
the chunk's may move the robot, although it was in no rollout.

From `commit_steps` on a row is in no rollout: of such a tick the check looks only
at where the robot is and how fast. The history `unchecked` notes that the row
that last moved the robot was one of these, or one a Resume let through
although its rollout does not fit. It is about the last row only: `StaysInBox`
claims the box again as soon as a row is admitted.

## Runs

| run | checks | bounds | states |
|---|---|---|---|
| `fsm_safety` | the invariants, action properties and the refinement of `FsmHistory` | k = 2 of n = 2, every limit 1 or 2, three acks, counters of at most 2 | 28 026 |
| `fsm_live` | `StopsResolve`, `EpisodeSettles` | k = n = 1, brake timeout 2, escalation 2, one ack | 7 019 |
| `fuse` | the tick's invariants and action properties | k = n = 1, limits 1, two positions (inside and outside the box), two acks | 35 014 |
| `session` | the session's invariants, replay, both checks of a token, `TokensReleaseOnce` | one operator, one key run again and again, five tokens, chunk numbers modulo 3, 7 ticks an episode, one automatic re-arm | 186 021 |
| `artefacts` | files, ledger, verification, what a verified file proves, the refinement | two keys, episodes of 0 and 2 ticks, 2 receipts, 5 ledger lines, a tail of 1 | 159 241 |
| `executor` | labels and underruns | horizons to 5, spikes to 3, 16 ticks | 126 154 |
| `proxy` | numbers, single writer, `AnswersDrawNear`, `NeverStuck` | 2 rows a frame, 10 frames over all connections | 161 452 |
| `brake` | `StaysInBox` | a box of 10, chunks of 3 rows out of three velocities, every closed-form kind with every number of committed rows, any row named on any tick, sound or not | 343 719 |
| `fsm_sustained_hits` | violated: `SustainedHitsBrake` | shipped k = 3, n = 5, clear_ticks = 5 | |
| `fuse_policy_row` | violated: `PolicyRowIsRaw` | k = n = 2 | |
| `fuse_rejected_row` | violated: `RejectedRowNeverPassed` | as `fuse` | |
| `session_told_fault` | violated: `ToldFaultIsRecorded` | as `session`, two ticks an episode | |

Why the bounds are enough. In `fsm_safety` two hits fire the window, and one
followed by a tick without ages out of it; the stop needs two confirmations and the
brake times out after two ticks, so a confirmation can be interrupted; the
re-arm budget is one, so it can be spent and refused, and every waiting state
can be visited twice in an episode with counters left over from the first
visit; the clamp budget can be exceeded; the counters' maxima equal the largest
limits, so saturation is reached; the acks answer a first and a second
handoff, and contain a token lower than one already spent. Ticks are unbounded:
saturation makes the state space finite, and the histories are bounded by the
invariants themselves, except `still`, which stops growing when the braking
it counts ends. `fuse` uses the smallest limits because its question is what
surrounds `next`. Both are in Enforce mode with `rearm = auto` and projection;
the theorems hold for both modes and policies.

In `session` seven ticks are enough to escalate, release, escalate again and
expire, with a faulted tick before or after each; chunk numbers wrap within an
episode; tokens of the first and the second handoff share a nonce, so a token can
be below, at or above what is remembered; the key is run again after crashes and
restarts, so a token of the last run is tried in the next, with the table saved,
not saved, or torn. In `artefacts` the second receipt
may be of the same episode, and then overwrites the files of the first one by
one, or of the other; besides the header and the two entries of receipts the
ledger has room for two made by hand, so for an entry dropped or exchanged in
the middle; an episode of two ticks is longer than the embedded tail and can be
cut between its events.
In `executor` delays and spikes together exceed the horizon. In `proxy` ten
frames allow several connections of several episodes, each with a fault. In
`brake` the box is a few times the stopping distance of the fastest row, and with
one or two of three rows committed the robot is moved by rows of no rollout and
by admitted ones after them.

Deadlock is checked where the system cannot stop (`fsm_safety`, `fsm_live`, `fuse`).
`session` ends when a restart is refused, the others when a bound is reached;
their configurations say so.

Fairness. `FairSpec` adds weak fairness of `Next` only: the host calls the
fuse once per control period while an episode is open and opens the next one
when it is not. No input is assumed to arrive: the liveness properties hold
whatever the ticks contain. `EpisodeSettles` excuses a run in which episodes or
operator resumes never cease, because both legitimately restart the machine.
`FairProxy` adds weak fairness of the host's own steps: every read has a
deadline, so a wait ends without the child's help, and the
`crash-receipt` command is taken to terminate. Two things in `lictor_client.py` are
left out: after part of a line `readline` waits for the rest without a deadline
(line 280), and `_kill` goes on when a killed child is not gone after its second
wait. Apart from that nothing is assumed of the child or of the client.

Every passing property has a mutation: a copy of one definition with a
plausible bug, next to the original and marked "Mutation of", under which the
same run reports that property violated.

## What disagrees with the code

* `SustainedHitsBrake`. A hit that does not complete k of n counts as a clean
  tick, and the clear-down of row 21 empties the window after `clear_ticks`
  clean ticks. After five quiet ticks, a predictor that fires on every tick
  makes the fuse alternate between Watching and Armed and never brakes.
* `PolicyRowIsRaw`. After a clamped delivery, later ticks of the chunk may
  report a projected row as the policy's own.
* `RejectedRowNeverPassed`. A Resume applied on a tick whose chunk the brake
  check rejects emits that chunk's row.
* `ToldFaultIsRecorded`. A fatal error answered by `fail()` (a bad line, a stale
  id, a `hello` or `episode_begin` in an episode) reaches the fuse only with
  another tick. A host that does what the protocol asks, stops stepping and sends
  `episode_end`, gets a receipt with the terminal state of the last tick.

Each is quoted with its line in `PROJECT.json`. Met while modelling, without a
run of their own:

* `clamp_streak` is zeroed only on a clear-down or an ack re-arm (`fsm.rs:288`), so
  clamped chunks with unclamped ones between them add up to the brake, while
  `docs/envelope-schema.md:111` says "consecutive clamped CHUNKS".
* `validate()` accepts envelopes under which the braking check does not keep
  the robot in the box: `react_ticks` of 0, and `first_order_decay` for a
  velocity kind, which the fuse brakes with a ramp. `StaysInBox` is stated for
  the others (`Sound`); without that condition TLC finds both.
* `commit_steps` below `horizon` is accepted too, and rows from `commit_steps` on are
  in no rollout. A synchronous host executes them when `exec_steps` is above
  `commit_steps`, an asynchronous one whenever it drains a chunk
  (`harness/executor.py:149`), whatever `exec_steps` is. Without `unchecked` in
  `StaysInBox` TLC finds such a row leaving the box under a sound envelope and
  without a Resume.
* A trace replays to another chain when its episode had a bad line or a hello,
  a refused `episode_begin`, an `episode_end` refused for its id, or an ack whose
  nonce an earlier episode had spent. After the refused `episode_end` the episode
  is still open, and its later ticks are in the chain and in no trace
  (`serve.rs:239`). `docs/wire-protocol.md:131` says every request line is traced. A
  refused `episode_begin` also truncates the trace of the key it names.
* A ledger created by a process that dies before the header is written gets
  entries without a header, which `lictor verify` refuses; a line without its
  newline makes the next append spoil the file for good. Both are excused in
  `ReportedIsIntact`.
* The nonce file is rewritten in place; torn, it stops every later start.
* `Fuse.end()` of the LeRobot adapter that finds the child dead only then raises and writes no
  crash receipt. The proxy's holds after a fault repeat the last observation
  the fuse saw, and rows after `exec_steps` the last fused action.
* Under a spike the executor may raise in the middle of an episode, although
  its constructor bounded the delay (`RowsInTime` says exactly when).
* `ARCHITECTURE.md` calls Terminated absorbing while row 1 leads from it to
  Fault; `StopPromise!Fail` allows it, as the code does.

## Proofs

For every value of the constants the named assumptions allow. An invariant a run
checks is seldom inductive; each proof module begins with the one that is.

**State machine** (`FsmLemmas`, `FsmProofs`). `TypeCorrect`, `FsmTypeCorrect`:
types, by one case per action in `TransitionTypes`. `Invariance`: `IInv` is
inductive. The properties of `FsmHistory` speak of histories, the guards of
counters; `CountersAreHonest` ties the two. A wait is counted exactly (`dwell =
held_ticks`), `stopped_ticks` and `held_clean` never exceed the streaks they
stand for, `rearms` and `clamps` are never below the events they bound. Without
it a Held state with `held_ticks` ahead of `dwell` would escalate early.
`WaitsBounded`, `HeldIsStopped`, `MovesBelowThreshold`, `ClampsBounded`,
`HoldsInBox` (in no run of its own: `PromiseKept` contains it), `CountersHonest`
follow from it; `WaitsFull`, `RearmsEarned`,
`HoldsPinned` and `TokensOnce` are action properties, from it and `RowFacts`,
which reads the reason and the state change of each row. `KeepsPromise`:
initial states map to initial states, and `TickPromise` maps each row to one
action of `StopPromise` or a stutter. `ContractKept` is the stronger fact `Session` is
built on: not only some step, but the one that belongs to the kind of tick
(`RowsByInput` sorts the rows by input, `TickKeepsContract` the steps). `StopsRunOut` and `EpisodesEnd` are the part
of `StopsResolve` and `EpisodeSettles` that needs no fairness: that ticks bring a
stop, or an episode, nearer to its end, with a number that cannot fall below
zero. The first rests on `CountersAreHonest` (`dwell` is the counter the row
compares with its limit), the second on `rearms` never being below `autos`.
`StopsShort` and `EpisodesShort` add the steps up (`CountSpec`: two counters beside
the specification, which no step reads): a stop stays in its three waits for at
most `brake_timeout_ticks + escalate_after_hold_ticks + handoff_timeout_ticks + 1`
ticks after the one that began it, and between two Resumes the phase changes at
most `3 * max_rearms + 5` times. With the constants of `fsm_safety` and `proxy` these
two numbers and that of `FramesShort` below are reached, so none is too large.
That ticks go on happening is what remains to TLC.

**Tick** (`FuseProofs`). `FuseImplementsFsm`: a tick is one call of `next` on an
input of `FsmInputs` or, between ticks, nothing; so every theorem about `Fsm`
holds of the fuse. `HostInformed`, `AcksReported`: `RowSignals` shows what each
row does to handoff and nonces and under which reason; the verdict's fields
follow. `TripsHeeded`, `HeldThere`: the emitted row and the setpoint, from the
state each row ends in.

**Session** (`SessionProofs`). `SessInv` adds to the properties: `Latched` (what
was told is in the fault latch), `Numbered` (both sides start at zero, without
which equality is not kept by the first delivery), `Booked` (the records
against the phase of the fuse, not only the last verdict), `Remembered` (what was
applied is below what is remembered, and that is what was saved, unless a save
failed). `StepShape` is the one lemma about the fuse's freedom: whatever step of
`StopPromise` it takes. From it `SessTypeCorrect`, `FaultsStayLatched`,
`NumberingsMeet`, `BooksBalance`, `ChainsMatch`. `TokensOnceAcross` is an action
property: what the fuse spends on a tick was verified on that tick
(`TickAppliesAbove`), so it is above all that is remembered, hence, by `Remembered`,
above all that was ever applied, and nothing but a tick spends (`AppliesAbove`).
`ReplayFaithful` needs that the twin's nonces lie between nothing and the
session's. `VerifiedMeansTaken` compares two checks of one token, made apart: the
session's against records and nonces that outlive the episode, the fuse's against
counters reset with it. `SpentKnown` is what makes them agree, that the fuse has
spent no nonce the session does not remember; it fails if a nonce is saved and
not remembered.

**Artefacts** (`ArtefactsProofs`). `ArtInv` says of the receipt in flight that it is
new to the ledger and binds its present head (`InFlight`), what of it is on disk
at each stage (`Placed`), that what is on disk is genuine (`Kept`), that the
ledger's entries are linked (`Linked`) and are receipts that were signed (`Known`),
and that a reported episode has files and an entry next to the one it binds
(`Bound`). `FilesBeforeLedgerHolds`, `ReportedIsIntactHolds`, `ReportedIsEnteredHolds` follow;
`ChainHoldsAlways` shows that a linked chain has no break and where an entry
dropped, exchanged or edited is found; `LedgerOnlyGrowsHolds` is the refinement
of `EpisodeLog`.

What a hash says of the past is proved of all ledgers and files there could be,
not only of reachable ones. `HashPinsHistory`: who has noted the hash of an entry
has noted every entry up to it. `ReceiptPinsHistory`: a receipt verifies only in
ledgers that agree on everything before it. `ReceiptPinsTicks`: at most one ticks
file verifies with it; `VerifiedIsGenuineHolds` follows with `Kept`. They rest on
`SamePast`, that two linked sequences with one equal element agree on all before
it, by induction on the length; the induction is `SetInduction`, stated for sets
of numbers and proved from the well-foundedness of the naturals, because the
library's own induction theorem has an operator parameter. The assumption is the
model's: a hash determines what it covers.

**Proxy** (`ProxyProofs`). `ProxyInv`: where the host is and what it may be waiting
for (`Places`), that a child given up on is gone (`Gone`), that between requests
the two agree and the pipes are empty (`Settled`), and how far they may be
apart while an answer is under way (`Asked`). `NumbersNeverPart`,
`CrashReceiptAlone` follow. `AnswersNear` gives `AnswersDrawNear`: each step of the
host lowers `Left` (`HostNearer`, by `RowsLeft`: a row is awaited only while one is
left), and the child's steps do not touch it (`ChildApart`). `FramesShort` adds
the steps up: with a counter beside the specification, no frame takes more than
2 * `ExecSteps` + 5 of the proxy's own; `NeverStuck` needs in addition that they
are taken.

**Executor** (`ExecutorProofs`). `ExecInv`: both sides count the same chunks
(`Counted`), the next row is the one its age asks for (`Aged`), a request is never
missed and on its way for at most the spike (`Awaited`). `LabelsRight`,
`RowsTimely`.

**Braking** (`BrakeProofs`). `RoomToStop`: inside the box, and with 2 a (distance)
at least the square of the velocity, after every admitted row and every step of
the ramp from there (`Stoppable`). An admitted row needs nothing of the rows before
it, because the check starts from where the robot is; so any row may precede
it. The lemmas are the arithmetic of that inequality: one tick of
dead time pays for the tick the row itself takes, and a leashed row is slower
than one of the two it lies between. `BoxKept`.

Only model-checked: liveness (`StopsResolve`, `EpisodeSettles`, `NeverStuck`; the
prover has no ENABLED, so weak fairness is beyond it, and the three bounds above
are what it can say) and the violated claims.

## Not modelled

* The exact rollout of `pd_second_order`. It simulates the held setpoint, while
  Braking latches a new setpoint each tick; whether it bounds what the fuse
  does is a question about matrices of floating-point numbers.
* Soft limits, projection, Tier 1, the conformal score, velocity estimates and
  every other floating-point value: the state machine sees one of a few
  outcomes of each, and every order of those is an input. The sums of scores and
  the first-tick fields of the tally.
* Canonical JSON, digests and signatures: encodings and cryptography without
  control state; a hash is what it covers, a signature was verified.
* The redundant counts of a receipt's body, its statistics and the handoff
  digests; TOML, units and the other checks of `validate`.
* What a hold of a host contains, msgpack, the upstream policy, the files two
  connections of a proxy share when they start within the same minute.
* Calibration, statistics and reports, offline numerics; the command line's
  arguments and printing.

What could be added next: the first-tick fields of the tally over `Fuse`; the nonce
table and the ledger under two `serve` processes, which nothing in the code locks;
the trail ring of Tier 1 against a reference definition.

------------------------------- MODULE Executor -------------------------------
(***************************************************************************)
(* harness/executor.py: the executor of the experiments, which delays the  *)
(* chunks of a policy and says on the wire which row of which chunk each   *)
(* tick executes, and the labels stage() and guard() accept of it          *)
(* (crates/lictor-runtime/src/session.rs, crates/lictor-fuse/src/fuse.rs). *)
(* A row is known by the number of its chunk and its index.                *)
(***************************************************************************)
EXTENDS Integers

CONSTANTS
  MaxHorizon,   \* bound: rows of a chunk
  MaxSpike,     \* latency_spike: what inject.py may add to a delay
  MaxT,         \* bound: ticks of an episode
  None

ASSUME ExecutorAssumption ==
  /\ MaxHorizon \in Nat /\ MaxSpike \in Nat /\ MaxT \in Nat
  /\ None \notin Nat /\ None \notin Nat \X Nat
  /\ None \notin [arrival : Nat, req : Nat]

VARIABLES
  cfg,                  \* the arguments of the constructor
  t,                    \* the next tick
  emit, seq, pos,       \* the current chunk: cur_emit, cur_seq, exec_pos
  next_req, inflight,   \* next_req_t, _inflight
  raised,               \* the executor gave up
  \* the fuse
  next_chunk, chunk,    \* next_chunk_seq; the chunk it holds, or None
  \* the last tick and what became of it
  acted,                \* its row and whether it was a hold
  checked,              \* the row the fuse looked at, or None if it refused
  \* histories
  born,                 \* the tick the current chunk was requested at
  held,                 \* the last tick was a hold
  spike,                \* the largest delay so far
  underrun              \* some tick was a hold

fuseVars == <<next_chunk, chunk>>
execVars == <<cfg, t, emit, seq, pos, next_req, inflight, raised, fuseVars,
              acted, checked, born, held, spike, underrun>>

\* __init__
Configs ==
  {c \in [mode : {"sync", "async"}, stitch : {"drop", "freeze"},
          d : 0..MaxHorizon, exec : 1..MaxHorizon, horizon : 1..MaxHorizon] :
     /\ c.exec <= c.horizon
     /\ c.mode = "async" /\ c.stitch = "drop" => c.d < c.horizon}

Drops == cfg.mode = "async" /\ cfg.stitch = "drop"

Max2(a, b) == IF a >= b THEN a ELSE b

-----------------------------------------------------------------------------
(* A tick on the wire.                                                     *)

\* Where the fuse looks, if stage() and guard() take the labels.
FuseTakes(delivers, number, emitted, idx) ==
  IF delivers
    THEN IF number = next_chunk /\ emitted <= t /\ idx = t - emitted /\ idx < cfg.horizon
           THEN /\ next_chunk' = next_chunk + 1
                /\ chunk' = number
                /\ checked' = <<number, idx>>
           ELSE checked' = None /\ UNCHANGED fuseVars
    ELSE /\ checked' = IF chunk # None /\ idx < cfg.horizon THEN <<chunk, idx>> ELSE None
         /\ UNCHANGED fuseVars

Emit(idx, hold) ==
  /\ acted' = <<seq', idx>>
  /\ held' = hold
  /\ underrun' = (underrun \/ hold)
  /\ t' = t + 1

\* Mutation of Deliver: the rows already gone by are executed late.
DeliverLate(req) ==
  /\ inflight' = None
  /\ seq' = seq + 1
  /\ emit' = t /\ pos' = 1 /\ born' = req
  /\ Emit(0, FALSE)
  /\ FuseTakes(TRUE, seq', emit', 0)
  /\ next_req' = Max2(req + cfg.exec, t + 1)
  /\ UNCHANGED raised

\* _deliver and the first row of the chunk; a chunk all of whose rows are of the
\* past is an error.
Deliver(req) ==
  LET idx == IF Drops THEN t - req ELSE 0 IN
  /\ inflight' = None
  /\ seq' = seq + 1
  /\ emit' = IF Drops THEN req ELSE t
  /\ pos' = idx + 1
  /\ born' = req
  /\ IF idx >= cfg.horizon
       THEN /\ raised' = TRUE
            /\ UNCHANGED <<t, next_req, fuseVars, acted, checked, held, underrun>>
       ELSE /\ Emit(idx, FALSE)
            /\ FuseTakes(TRUE, seq', emit', idx)
            /\ next_req' = IF Drops THEN Max2(req + cfg.exec, t + 1) ELSE t + cfg.exec
            /\ UNCHANGED raised

\* No chunk arrives: the next row of this one, or its last one again.
Limit == IF cfg.mode = "sync" THEN cfg.exec ELSE cfg.horizon

\* Mutation of Drain: a hold is labelled with the row after the last.
DrainPast ==
  /\ UNCHANGED <<emit, seq, next_req, raised, born>>
  /\ pos' = IF pos < Limit THEN pos + 1 ELSE pos
  /\ Emit(IF pos < Limit THEN pos ELSE Limit - 1, pos >= Limit)
  /\ FuseTakes(FALSE, seq, emit, pos)

Drain ==
  LET idx == IF pos < Limit THEN pos ELSE Limit - 1 IN
  /\ UNCHANGED <<emit, seq, next_req, raised, born>>
  /\ pos' = IF pos < Limit THEN pos + 1 ELSE pos
  /\ Emit(idx, pos >= Limit)
  /\ FuseTakes(FALSE, seq, emit, idx)

-----------------------------------------------------------------------------

NeedsChunk == inflight = None /\ next_req = t

\* delay_for: none for the first chunk of an episode.
Delays == IF t = 0 THEN {0} ELSE {cfg.d + extra : extra \in 0..MaxSpike}

\* A chunk requested on an earlier tick arrives.
Arrive ==
  /\ inflight # None /\ inflight.arrival = t
  /\ Deliver(inflight.req)
  /\ UNCHANGED spike

\* fulfil() and tick(): the request goes out, and is answered at once or later.
Request ==
  /\ NeedsChunk
  /\ \E delay \in Delays :
       /\ spike' = Max2(spike, delay)
       /\ IF delay = 0 THEN Deliver(t)
          ELSE inflight' = [arrival |-> t + delay, req |-> t] /\ Drain

Proceed ==
  /\ ~NeedsChunk
  /\ inflight # None => inflight.arrival # t
  /\ Drain
  /\ UNCHANGED <<inflight, spike>>

ExecInit ==
  /\ cfg \in Configs
  /\ t = 0
  /\ emit = 0 /\ seq = -1 /\ pos = 0
  /\ next_req = 0 /\ inflight = None /\ raised = FALSE
  /\ next_chunk = 0 /\ chunk = None
  /\ acted = None /\ checked = None
  /\ born = 0 /\ held = FALSE /\ spike = 0 /\ underrun = FALSE

ExecNext ==
  /\ ~raised /\ t < MaxT
  /\ Arrive \/ Request \/ Proceed
  /\ UNCHANGED cfg

ExecSpec == ExecInit /\ [][ExecNext]_execVars

-----------------------------------------------------------------------------
(* Properties.                                                             *)

\* Whatever the delays, the stitch and the spikes, the fuse refuses no tick of
\* the executor, and the row it checks is the row the robot executes: on a
\* delivery, between deliveries and on a hold.
ChecksWhatIsExecuted == t > 0 => checked # None /\ checked = acted

\* When a delay leaves enough spare rows, one more chunk is there before they
\* run out; under "drop" a row that is not a hold is then the one the
\* policy meant for this very tick.  The executor gives up only where delay and spike
\* together reach the horizon, which its constructor did not exclude.
RowsInTime ==
  /\ t > 0 /\ Drops /\ ~held /\ ~raised => born + acted[2] = t - 1
  /\ underrun /\ cfg.mode = "async" =>
       spike + (IF Drops THEN Max2(cfg.exec, spike + 1) ELSE cfg.exec) > cfg.horizon
  /\ raised => Drops /\ spike >= cfg.horizon
=============================================================================

---------------------------- MODULE ExecutorProofs ----------------------------
(***************************************************************************)
(* The executor's two properties for every horizon, delay, stitch and      *)
(* pattern of spikes.                                                      *)
(***************************************************************************)
EXTENDS Executor, TLAPS

\* The tick the rows of the current chunk are counted from.
Base == IF Drops THEN born ELSE emit

\* How long after it the next chunk is asked for, at the latest.
Ahead(s) == IF Drops THEN Max2(cfg.exec, s + 1) ELSE cfg.exec

ExecTypeOK ==
  /\ cfg \in Configs
  /\ {t, emit, pos, next_req, next_chunk, born, spike} \subseteq Nat
  /\ seq \in Int
  /\ inflight # None => inflight \in [arrival : Nat, req : Nat]
  /\ {raised, held, underrun} \subseteq BOOLEAN

\* Before the first tick nothing was asked for, so the first tick delivers.
AtStart == t = 0 => next_req = 0 /\ inflight = None /\ seq = -1 /\ ~underrun

\* Both sides count the same chunks.
Counted ==
  /\ next_chunk = seq + 1
  /\ t > 0 => seq \in Nat /\ chunk = seq

\* The row executed next is the one its age asks for, until the rows run out.
Aged ==
  /\ t > 0 /\ cfg.mode = "async" => Base + pos <= t
  /\ t > 0 /\ Drops /\ pos < cfg.horizon => born + pos = t

\* A request is never missed, and what was asked for is on its way.
Awaited ==
  /\ inflight = None => next_req >= t /\ (t > 0 => next_req <= Base + Ahead(spike))
  /\ inflight # None =>
       /\ inflight.arrival >= t /\ inflight.req < t
       /\ inflight.arrival <= inflight.req + spike
       /\ inflight.req <= Base + Ahead(spike)

ExecInv ==
  /\ ExecTypeOK
  /\ ~raised => AtStart /\ Counted /\ Aged /\ Awaited
  /\ ChecksWhatIsExecuted /\ RowsInTime

LEMMA Later ==
  ASSUME NEW from \in Nat, NEW delay \in Nat, NEW most \in Nat, delay > 0, most >= delay
  PROVE  from + delay \in Nat /\ from + delay > from /\ from + delay <= from + most
PROOF OBVIOUS

\* What FuseTakes leaves when the labels are those it expects.
LEMMA Delivery ==
  ASSUME ExecInv, ~raised, NEW req \in Nat, req <= t, Deliver(req),
         UNCHANGED cfg, spike' \in Nat, spike' >= spike, t - req <= spike'
  PROVE  ExecInv'
PROOF
  <1> DEFINE idx == IF Drops THEN t - req ELSE 0
  <1>1. /\ cfg \in Configs /\ cfg' = cfg /\ t \in Nat /\ seq \in Int /\ Drops' = Drops
        /\ cfg.exec \in Nat /\ cfg.horizon \in Nat /\ cfg.exec >= 1 /\ cfg.horizon >= 1
        /\ next_chunk = seq + 1 /\ seq + 1 \in Nat
    BY ExecutorAssumption DEF ExecInv, ExecTypeOK, AtStart, Counted, Configs, Drops
  <1>2. idx \in Nat /\ inflight' = None /\ seq' = seq + 1 /\ born' = req /\ pos' = idx + 1
        /\ emit' = IF Drops THEN req ELSE t
    BY <1>1 DEF Deliver
  <1>3. CASE idx >= cfg.horizon
    <2>1. raised' = TRUE /\ UNCHANGED <<t, next_req, fuseVars, acted, checked, held, underrun>>
      BY <1>3 DEF Deliver
    <2>2. Drops /\ spike' >= cfg.horizon
      BY <1>1, <1>3
    <2>3. ExecTypeOK'
      BY <1>1, <1>2, <2>1 DEF ExecInv, ExecTypeOK, fuseVars
    <2>4. ChecksWhatIsExecuted'
      BY <2>1 DEF ExecInv, ChecksWhatIsExecuted
    <2>5. RowsInTime'
      <3>1. Drops' /\ cfg.mode = "async" /\ spike + 1 \in Nat
        BY <1>1, <2>2 DEF Drops, ExecInv, ExecTypeOK
      <3>2. spike' + Max2(cfg.exec, spike' + 1) > cfg.horizon
        BY <1>1, <2>2, <3>1 DEF Max2
      <3> QED BY <1>1, <2>1, <2>2, <3>1, <3>2 DEF RowsInTime, Drops
    <2> QED BY <2>1, <2>3, <2>4, <2>5 DEF ExecInv
  <1>4. CASE ~(idx >= cfg.horizon)
    <2>1. /\ raised' = FALSE /\ t' = t + 1 /\ acted' = <<seq', idx>> /\ held' = FALSE
          /\ underrun' = underrun
          /\ next_req' = IF Drops THEN Max2(req + cfg.exec, t + 1) ELSE t + cfg.exec
          /\ FuseTakes(TRUE, seq', emit', idx)
      BY <1>4 DEF Deliver, Emit, ExecInv, ExecTypeOK
    <2>2. /\ next_chunk' = next_chunk + 1 /\ chunk' = seq' /\ checked' = <<seq', idx>>
      BY <1>1, <1>2, <1>4, <2>1 DEF FuseTakes
    <2>3. next_req' \in Nat /\ next_req' >= t' /\ next_req' <= Base' + Ahead(spike)'
      BY <1>1, <1>2, <2>1 DEF Max2, Base, Ahead
    <2>4. ExecTypeOK'
      <3>1. {t', emit', pos', next_req', next_chunk', born', spike'} \subseteq Nat
        BY <1>1, <1>2, <2>1, <2>2, <2>3
      <3>2. {raised', held', underrun'} \subseteq BOOLEAN
        BY <2>1 DEF ExecInv, ExecTypeOK
      <3> QED BY <1>1, <1>2, <3>1, <3>2 DEF ExecTypeOK
    <2>5. AtStart' /\ Counted'
      BY <1>1, <1>2, <2>1, <2>2 DEF AtStart, Counted
    <2>6. Aged'
      BY <1>1, <1>2, <2>1 DEF Aged, Base
    <2>7. Awaited'
      BY <1>2, <2>3 DEF Awaited, Ahead
    <2>8. ChecksWhatIsExecuted'
      <3>1. <<seq', idx>> \in Nat \X Nat
        BY <1>1, <1>2
      <3> QED BY <2>1, <2>2, <3>1, ExecutorAssumption DEF ChecksWhatIsExecuted
    <2>9. RowsInTime'
      <3>1. Drops => born' + acted'[2] = t' - 1
        BY <1>1, <1>2, <2>1
      <3>2. underrun' /\ cfg.mode = "async" =>
              spike' + (IF Drops THEN Max2(cfg.exec, spike' + 1) ELSE cfg.exec) > cfg.horizon
        BY <1>1, <2>1 DEF ExecInv, ExecTypeOK, RowsInTime, Max2
      <3> QED BY <1>1, <2>1, <3>1, <3>2 DEF RowsInTime
    <2> QED BY <2>1, <2>4, <2>5, <2>6, <2>7, <2>8, <2>9 DEF ExecInv
  <1> QED BY <1>3, <1>4

\* A tick that executes the next row, or the last one again.
LEMMA Draining ==
  ASSUME ExecInv, ~raised, t > 0, Drain, UNCHANGED cfg,
         spike' \in Nat, spike' >= spike, 
         \/ inflight' = None /\ inflight = None /\ next_req > t
         \/ /\ inflight' # None /\ inflight' \in [arrival : Nat, req : Nat]
            /\ inflight'.arrival > t /\ inflight'.req <= t
            /\ inflight'.arrival <= inflight'.req + spike'
            /\ inflight'.req <= Base + Ahead(spike')
  PROVE  ExecInv'
PROOF
  <1> DEFINE idx == IF pos < Limit THEN pos ELSE Limit - 1
  <1>1. /\ cfg \in Configs /\ cfg' = cfg /\ {t, pos, seq, emit, born, spike} \subseteq Nat
        /\ Drops' = Drops /\ chunk = seq /\ next_chunk = seq + 1
        /\ cfg.exec \in Nat /\ cfg.horizon \in Nat /\ cfg.exec >= 1 /\ cfg.exec <= cfg.horizon
    BY ExecutorAssumption DEF ExecInv, ExecTypeOK, Counted, Configs, Drops
  <1>2. Limit \in Nat /\ Limit >= 1 /\ Limit <= cfg.horizon
        /\ (cfg.mode = "async" => Limit = cfg.horizon)
    BY <1>1 DEF Limit, Configs
  <1>3. idx \in Nat /\ idx < cfg.horizon
    BY <1>1, <1>2
  <1>4. /\ UNCHANGED <<emit, seq, next_req, raised, born>>
        /\ pos' = (IF pos < Limit THEN pos + 1 ELSE pos)
        /\ acted' = <<seq', idx>> /\ held' = (pos >= Limit)
        /\ underrun' = (underrun \/ pos >= Limit) /\ t' = t + 1
        /\ FuseTakes(FALSE, seq, emit, idx)
    BY DEF Drain, Emit
  <1>5. checked' = <<seq, idx>> /\ UNCHANGED <<next_chunk, chunk>>
    BY <1>1, <1>3, <1>4, ExecutorAssumption DEF FuseTakes, fuseVars
  <1>6. ExecTypeOK'
    BY <1>1, <1>2, <1>4, <1>5 DEF ExecInv, ExecTypeOK
  <1>7. AtStart' /\ Counted'
    BY <1>1, <1>4, <1>5 DEF AtStart, Counted
  <1>8. Aged'
    BY <1>1, <1>2, <1>4 DEF ExecInv, Aged, Base, Drops
  <1>9. Base \in Nat /\ Base' = Base /\ Ahead(spike)' = Ahead(spike')
        /\ Ahead(spike) <= Ahead(spike') /\ Ahead(spike) \in Nat /\ Ahead(spike') \in Nat
    BY <1>1, <1>4 DEF Base, Ahead, Max2
  <1>10. Awaited'
    BY <1>1, <1>4, <1>9 DEF ExecInv, ExecTypeOK, Awaited
  <1>11. ChecksWhatIsExecuted'
    <2>1. <<seq, idx>> \in Nat \X Nat
      BY <1>1, <1>3
    <2> QED BY <1>4, <1>5, <2>1, ExecutorAssumption DEF ChecksWhatIsExecuted
  <1>12. RowsInTime'
    <2>1. Drops /\ ~held' => born' + acted'[2] = t' - 1
      <3>1. ASSUME Drops, ~held' PROVE born' + acted'[2] = t' - 1
        <4>0. ~(pos >= Limit) /\ Limit = cfg.horizon
          BY <1>2, <1>4, <3>1 DEF Drops
        <4>1. pos < cfg.horizon /\ idx = pos
          BY <1>1, <1>2, <4>0
        <4>2. born + pos = t
          BY <3>1, <4>1 DEF ExecInv, Aged
        <4> QED BY <1>1, <1>4, <4>1, <4>2
      <3> QED BY <3>1
    <2>2. ASSUME pos >= Limit, cfg.mode = "async"
          PROVE  spike' + Ahead(spike') > cfg.horizon
      <3>1. cfg.horizon <= t - Base
        BY <1>1, <1>2, <1>9, <2>2 DEF ExecInv, Aged
      <3>2. t < Base + Ahead(spike') + spike'
        BY <1>1, <1>9 DEF ExecInv, ExecTypeOK, Awaited
      <3> QED BY <1>1, <1>9, <3>1, <3>2
    <2>3. underrun /\ cfg.mode = "async" => spike' + Ahead(spike') > cfg.horizon
      BY <1>1, <1>9 DEF ExecInv, RowsInTime, Ahead
    <2>4. underrun' /\ cfg.mode = "async" => spike' + Ahead(spike') > cfg.horizon
      BY <1>4, <2>2, <2>3
    <2> QED BY <1>1, <1>4, <2>1, <2>4 DEF RowsInTime, Ahead
  <1> QED BY <1>4, <1>6, <1>7, <1>8, <1>10, <1>11, <1>12 DEF ExecInv

LEMMA ExecStart == ExecInit => ExecInv
PROOF
  <1> SUFFICES ASSUME ExecInit PROVE ExecInv OBVIOUS
  <1>1. ExecTypeOK
    <2>1. seq \in Int /\ {t, emit, pos, next_req, next_chunk, born, spike} \subseteq Nat
      BY DEF ExecInit
    <2>2. cfg \in Configs /\ inflight = None /\ {raised, held, underrun} \subseteq BOOLEAN
      BY DEF ExecInit
    <2> QED BY <2>1, <2>2 DEF ExecTypeOK
  <1>3. AtStart /\ Counted /\ Aged /\ Awaited
    BY DEF ExecInit, AtStart, Counted, Aged, Awaited
  <1>2. ChecksWhatIsExecuted /\ RowsInTime
    BY DEF ExecInit, ChecksWhatIsExecuted, RowsInTime
  <1> QED BY <1>1, <1>2, <1>3 DEF ExecInv

LEMMA ExecStep == ExecInv /\ [ExecNext]_execVars => ExecInv'
PROOF
  <1> SUFFICES ASSUME ExecInv, [ExecNext]_execVars PROVE ExecInv' OBVIOUS
  <1>t. cfg \in Configs /\ t \in Nat /\ spike \in Nat /\ cfg.d \in Nat /\ MaxSpike \in Nat
    BY ExecutorAssumption DEF ExecInv, ExecTypeOK, Configs
  <1>1. CASE ~raised /\ Arrive /\ UNCHANGED cfg
    <2>1. inflight.req \in Nat /\ inflight.req <= t /\ t - inflight.req <= spike'
      BY <1>1, <1>t DEF ExecInv, ExecTypeOK, Awaited, Arrive
    <2> QED BY <1>1, <1>t, <2>1, Delivery DEF Arrive
  <1>2. CASE ~raised /\ Request /\ UNCHANGED cfg
    <2>1. PICK delay \in Delays :
            /\ spike' = Max2(spike, delay)
            /\ IF delay = 0 THEN Deliver(t)
               ELSE inflight' = [arrival |-> t + delay, req |-> t] /\ Drain
      BY <1>2 DEF Request
    <2>2. delay \in Nat /\ (t = 0 => delay = 0)
      BY <1>t DEF Delays
    <2>3. spike' \in Nat /\ spike' >= spike /\ spike' >= delay
      BY <1>t, <2>1, <2>2 DEF Max2
    <2>4. CASE delay = 0
      BY <1>2, <1>t, <2>1, <2>3, <2>4, Delivery
    <2>5. CASE delay # 0
      <3>1. inflight' = [arrival |-> t + delay, req |-> t] /\ Drain /\ t > 0
        BY <1>t, <2>1, <2>2, <2>5
      <3>2. inflight' \in [arrival : Nat, req : Nat] /\ inflight'.arrival > t
            /\ inflight'.req <= t /\ inflight'.arrival <= inflight'.req + spike'
        <4>1. inflight'.arrival = t + delay /\ inflight'.req = t
          BY <3>1
        <4>2. t + delay \in Nat /\ t + delay > t /\ t + delay <= t + spike'
          <5>1. delay > 0
            BY <2>2, <2>5
          <5>2. t \in Nat /\ delay \in Nat /\ spike' \in Nat /\ spike' >= delay
            BY <1>t, <2>2, <2>3
          <5> QED BY <5>1, <5>2, Later
        <4> QED BY <1>t, <3>1, <4>1, <4>2
      <3>3. inflight'.req <= Base + Ahead(spike')
        BY <1>2, <1>t, <2>3, <3>1, ExecutorAssumption
        DEF ExecInv, ExecTypeOK, Awaited, NeedsChunk, Request, Ahead, Max2, Base, Configs
      <3>4. CASE inflight' # None
        BY <1>2, <2>3, <3>1, <3>2, <3>3, <3>4, Draining
      <3>5. CASE inflight' = None
        BY <3>2, <3>5, ExecutorAssumption
      <3> QED BY <3>4, <3>5
    <2> QED BY <2>4, <2>5
  <1>3. CASE ~raised /\ Proceed /\ UNCHANGED cfg
    <2>1. t > 0
      BY <1>3, <1>t DEF ExecInv, AtStart, Proceed, NeedsChunk
    <2>2. CASE inflight = None
      <3>1. next_req > t
        BY <1>3, <1>t, <2>2 DEF ExecInv, ExecTypeOK, Awaited, Proceed, NeedsChunk
      <3> QED BY <1>3, <1>t, <2>1, <2>2, <3>1, Draining DEF Proceed
    <2>3. CASE inflight # None
      <3>1. inflight \in [arrival : Nat, req : Nat] /\ inflight.arrival > t /\ inflight.req <= t
            /\ inflight.arrival <= inflight.req + spike /\ inflight.req <= Base + Ahead(spike)
        BY <1>3, <1>t, <2>3 DEF ExecInv, ExecTypeOK, Awaited, Proceed
      <3> QED BY <1>3, <1>t, <2>1, <2>3, <3>1, Draining DEF Proceed
    <2> QED BY <2>2, <2>3
  <1>4. CASE UNCHANGED execVars
    BY <1>4 DEF execVars, fuseVars, ExecInv, ExecTypeOK, AtStart, Counted, Aged, Awaited, Base,
       Ahead, Drops, ChecksWhatIsExecuted, RowsInTime
  <1> QED BY <1>1, <1>2, <1>3, <1>4 DEF ExecNext

\* The inductive invariant: the counters of the executor against those of the
\* fuse, the age of the current chunk and when the next one is due.
THEOREM ExecInvariance == ExecSpec => []ExecInv
PROOF
  <1> QED BY ExecStart, ExecStep, PTL DEF ExecSpec

\* The fuse refuses no tick of the executor and checks the row it executes, for
\* every constructor and every pattern of delays.
THEOREM LabelsRight == ExecSpec => []ChecksWhatIsExecuted
PROOF
  <1>1. ExecInv => ChecksWhatIsExecuted
    BY DEF ExecInv
  <1> QED BY <1>1, ExecInvariance, PTL

\* A row is executed at the tick it was meant for, and holds and give-ups only
\* come from delays past the spare rows, for every constructor.
THEOREM RowsTimely == ExecSpec => []RowsInTime
PROOF
  <1>1. ExecInv => RowsInTime
    BY DEF ExecInv
  <1> QED BY <1>1, ExecInvariance, PTL
=============================================================================

-------------------------------- MODULE Replay --------------------------------
(***************************************************************************)
(* The trace `lictor serve` keeps of an episode (the loop of               *)
(* crates/lictor-cli/src/cmd/serve.rs, crates/lictor-runtime/src/trace.rs) *)
(* and what `lictor replay` makes of it (crates/lictor-cli/src/cmd/        *)
(* replay.rs): a fresh Session, without the nonce file, is fed the lines.  *)
(* decide() is deterministic, so the replay computes the verdict chain of  *)
(* the receipt exactly when every tick gives it the inputs it had then.    *)
(***************************************************************************)
EXTENDS Session

CONSTANT Lost   \* nothing is claimed of the replay of the open episode

VARIABLE twin   \* the session a replay of the trace so far would end in

repVars == <<sessVars, twin>>

Fresh == [faulted |-> FALSE, nonce |-> [o \in Operators |-> 0], agrees |-> TRUE]

Traces == Open /\ twin # Lost

\* Neither a line the codec rejects nor a hello is traced; any episode_begin
\* starts a trace anew, also one that is refused because an episode is open; and
\* the trace ends with any episode_end, also one that is refused and leaves the
\* episode open: what it does from there on is chained and not traced.
Untraced == twin' = Lost

\* Mutation of Refuse: a line is traced once it has been handled.
RefuseUntraced == UNCHANGED twin

\* A tick that is refused for its id is traced, and refused again: the ids of a
\* trace are those the session saw.
Refuse == twin' = IF Traces THEN [twin EXCEPT !.faulted = TRUE] ELSE Lost

\* An ack of an earlier episode or process: the session remembers its nonce, the
\* replay does not.
SpentBefore(tok) ==
  /\ tok # NoToken
  /\ twin.nonce[tok.op] < tok.nonce /\ tok.nonce <= last_nonce[tok.op]

\* The replay's verify_ack: its handoffs are the session's, its nonces its own.
Verifies(tok) ==
  /\ tok # NoToken
  /\ pending # 0
  /\ tok.digest = <<ep, pending>>
  /\ tok.nonce > twin.nonce[tok.op]

\* Of a tick: the schema fault and the ack are what decide() gets besides the line.
Replays(req) ==
  LET verified == Verifies(req.ack)
      fault == twin.faulted \/ ~Staged(req) IN
  twin' = IF ~Traces \/ SpentBefore(req.ack) THEN Lost
          ELSE [faulted |-> fault,
                nonce |-> IF verified
                            THEN [twin.nonce EXCEPT ![req.ack.op] = req.ack.nonce]
                            ELSE twin.nonce,
                agrees |-> /\ twin.agrees
                           /\ fault = faulted'
                           /\ verified = Verified(req.ack)]

\* handle() refuses an id that is not above the last: the loop goes on tracing
\* only behind a tick.  After a bye the process ends whatever was answered (Stop).
RefuseId(kind) == Stale /\ IF kind = "tick" THEN Refuse ELSE Untraced

\* The loop of run(): a line is traced before it is handled.
RepRequests ==
  \/ BadLine /\ Untraced
  \/ \E kind \in {"hello", "episode_begin", "tick", "episode_end"} : RefuseId(kind)
  \/ Stop /\ Untraced
  \/ \E matches \in BOOLEAN : Hello(matches) /\ Untraced
  \/ \E key \in Keys, weights \in BOOLEAN :
       /\ EpisodeBegin(key, weights)
       /\ twin' = IF ~Open /\ weights THEN Fresh ELSE Lost
  \/ \E req \in TickReqs : Tick(req) /\ Replays(req)
  \/ \E written \in BOOLEAN : EpisodeEnd(written) /\ Untraced

RepInit == SessInit /\ twin = Lost

RepNext == (up /\ RepRequests) \/ (Restart /\ Untraced)

RepSpec == RepInit /\ [][RepNext]_repVars

\* Every tick of an episode, refused ones included, is decided in the replay of
\* its trace on the inputs it was decided on, so the heads are equal: only a bad
\* line, a hello, a begin or a refused end inside the episode and an ack spent in
\* an earlier one can make an honest trace disagree with its receipt.
ReplayAgrees == Traces => twin.agrees
=============================================================================

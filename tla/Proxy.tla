--------------------------------- MODULE Proxy ---------------------------------
(***************************************************************************)
(* adapters/openpi/lictor_proxy.py over adapters/lerobot/lictor_lerobot.py *)
(* (class Fuse) over adapters/lictor_client.py: one connection after       *)
(* another, each with a `lictor serve` child of its own, which may be slow *)
(* or die at any moment.  A frame of the client is answered by rows the    *)
(* fuse has ticked or by a hold.                                           *)
(*                                                                         *)
(* What is held after a fault is left out; the child is Session as far as  *)
(* the host can tell.                                                      *)
(***************************************************************************)
EXTENDS Integers

CONSTANTS
  ExecSteps,      \* --exec-steps: rows ticked per frame
  MaxFrames,      \* bound: frames of all connections
  None

ASSUME ProxyAssumption ==
  ExecSteps \in Nat \ {0} /\ MaxFrames \in Nat /\ None \notin Int

VARIABLES
  \* the proxy
  at,                    \* what it is doing
  row,                   \* rows of the frame ticked
  closing,               \* the client is gone
  frames,                \* frames so far
  \* class Fuse
  open, t, next_seq, faulted, dead,
  \* LictorClient
  killed, waiting,
  \* the child
  up, inbox, outbox,     \* it runs; the pipes
  c_ep, c_seq, c_staging, receipt

proxyVars == <<at, row, closing, frames>>
epVars    == <<open, t, next_seq, faulted, dead>>
childVars == <<c_ep, c_seq, c_staging, receipt>>
pipeVars  == <<killed, waiting, up, inbox, outbox>>
allVars   == <<proxyVars, epVars, pipeVars, childVars>>

-----------------------------------------------------------------------------
(* Pieces of the host.                                                     *)

Alive == ~killed /\ up

\* fault_response: a hold is sent, unless the client is gone.
Hold == at' = IF closing THEN "close" ELSE "idle"

Send(request) ==
  /\ inbox' = request /\ waiting' = TRUE
  /\ UNCHANGED <<killed, up, outbox>>

\* Mutation of Kill: the child is left to itself.
KillNot ==
  /\ waiting' = FALSE /\ killed' = TRUE
  /\ UNCHANGED <<up, inbox, outbox>>

\* _fault: the child is terminated and waited for, the pipes are closed.
Kill ==
  /\ waiting' = FALSE /\ killed' = TRUE
  /\ up' = FALSE /\ inbox' = None /\ outbox' = None

AfterEnd == IF closing THEN "close" ELSE "begin"

\* Mutation of Faulted: the row is tried again.
FaultedAgain ==
  CASE at = "tick" -> UNCHANGED <<at, row, open, t, faulted, dead>>
    [] at = "begin" \/ at = "end" ->
         /\ Hold
         /\ UNCHANGED <<row, open, t, faulted, dead>>

\* The LictorFault of a request: what the caller makes of it.
Faulted ==
  CASE at = "tick" ->
         /\ dead' = TRUE /\ faulted' = TRUE /\ row' = row + 1
         /\ UNCHANGED <<at, open, t>>
    [] at = "begin" \/ at = "end" ->
         /\ Hold
         /\ UNCHANGED <<row, open, t, faulted, dead>>

-----------------------------------------------------------------------------
(* The host, one call after the other.                                     *)

\* A frame that cannot be read, or one the upstream does not answer: no
\* tick is made.
BadFrame ==
  /\ at = "idle" /\ frames < MaxFrames
  /\ frames' = frames + 1
  /\ UNCHANGED <<at, row, closing, epVars, pipeVars, childVars>>

\* on_request: a reset key ends the episode, a missing one is begun.
Frame(reset) ==
  /\ at = "idle" /\ frames < MaxFrames
  /\ frames' = frames + 1
  /\ row' = 0
  /\ at' = IF open THEN IF reset THEN "end" ELSE "tick" ELSE "begin"
  /\ UNCHANGED <<closing, epVars, pipeVars, childVars>>

\* Mutation of EndEpisode: chunks are counted for ticks.
EndEpisodeShort ==
  /\ at = "end" /\ ~waiting
  /\ open' = FALSE
  /\ IF dead THEN at' = "crash" /\ UNCHANGED pipeVars
     ELSE IF Alive THEN Send([kind |-> "end", steps |-> next_seq]) /\ UNCHANGED at
     ELSE Hold /\ Kill
  /\ UNCHANGED <<row, closing, frames, t, next_seq, faulted, dead, childVars>>

\* Fuse.end: the steps are the wire ticks.
EndEpisode ==
  /\ at = "end" /\ ~waiting
  /\ open' = FALSE
  /\ IF dead THEN at' = "crash" /\ UNCHANGED pipeVars
     ELSE IF Alive THEN Send([kind |-> "end", steps |-> t]) /\ UNCHANGED at
     ELSE Hold /\ Kill
  /\ UNCHANGED <<row, closing, frames, t, next_seq, faulted, dead, childVars>>

\* `lictor crash-receipt` ends, one way or the other.
CrashReceipt ==
  /\ at = "crash"
  /\ at' = AfterEnd
  /\ UNCHANGED <<row, closing, frames, epVars, pipeVars, childVars>>

\* _reset_episode
ResetEpisode ==
  /\ t' = 0 /\ next_seq' = 0 /\ faulted' = FALSE /\ dead' = FALSE

\* Fuse.begin: everything of the last episode is forgotten, its dead child too,
\* before the child is asked.
BeginEpisode ==
  /\ at = "begin" /\ ~waiting
  /\ ResetEpisode
  /\ IF Alive THEN Send([kind |-> "begin"]) /\ UNCHANGED at
              ELSE Hold /\ Kill
  /\ UNCHANGED <<row, closing, frames, open, childVars>>

\* An observation without a state or a chunk of another shape, found out when
\* the episode is open.
Misshapen ==
  /\ at = "tick" /\ row = 0 /\ ~waiting
  /\ Hold
  /\ UNCHANGED <<row, closing, frames, epVars, pipeVars, childVars>>

\* Fuse.tick: the first row of a frame delivers the chunk.
TickRow ==
  /\ at = "tick" /\ row < ExecSteps /\ ~waiting
  /\ IF dead \/ faulted THEN row' = row + 1 /\ UNCHANGED <<epVars, pipeVars, at>>
     ELSE /\ next_seq' = IF row = 0 THEN next_seq + 1 ELSE next_seq
          /\ IF ~Alive THEN Faulted /\ Kill
             ELSE /\ Send([kind |-> "tick", chunk |-> IF row = 0 THEN next_seq ELSE None])
                  /\ UNCHANGED <<row, open, t, faulted, dead, at>>
  /\ UNCHANGED <<closing, frames, childVars>>

\* An answer in time.  An error from a child that is gone counts as a fault.
Receive ==
  /\ waiting /\ outbox # None
  /\ IF outbox = "error" /\ ~up THEN Faulted /\ Kill
     ELSE /\ waiting' = FALSE /\ outbox' = None
          /\ UNCHANGED <<killed, up, inbox, dead>>
          /\ CASE at = "tick" ->
                    /\ row' = row + 1 /\ t' = t + 1
                    /\ faulted' = (outbox = "error")
                    /\ UNCHANGED <<at, open>>
               [] at = "begin" ->
                    open' = TRUE /\ at' = "tick" /\ UNCHANGED <<row, t, faulted>>
               [] at = "end" ->
                    at' = AfterEnd /\ UNCHANGED <<row, open, t, faulted>>
  /\ UNCHANGED <<closing, frames, next_seq, childVars>>

\* Mutation of GiveUp: a read without a deadline.
GiveUpOnEof ==
  /\ waiting /\ ~up
  /\ Faulted /\ Kill
  /\ UNCHANGED <<closing, frames, next_seq, childVars>>

\* The deadline passes, or the pipe is found closed.
GiveUp ==
  /\ waiting
  /\ Faulted /\ Kill
  /\ UNCHANGED <<closing, frames, next_seq, childVars>>

Answer ==
  /\ at = "tick" /\ row = ExecSteps /\ ~waiting
  /\ at' = "idle"
  /\ UNCHANGED <<row, closing, frames, epVars, pipeVars, childVars>>

\* The client leaves: an open episode is ended, the child told to go.
Disconnect ==
  /\ at = "idle"
  /\ closing' = TRUE
  /\ at' = IF open THEN "end" ELSE "close"
  /\ UNCHANGED <<row, frames, epVars, pipeVars, childVars>>

Close ==
  /\ at = "close" /\ at' = "gone"
  /\ Kill
  /\ UNCHANGED <<row, closing, frames, epVars, childVars>>

\* Another connection, with a child of its own.
Connect ==
  /\ at = "gone" /\ at' = "idle"
  /\ closing' = FALSE /\ row' = 0
  /\ open' = FALSE /\ ResetEpisode
  /\ killed' = FALSE /\ waiting' = FALSE
  /\ up' = TRUE /\ inbox' = None /\ outbox' = None
  /\ c_ep' = FALSE /\ c_seq' = 0 /\ c_staging' = 0 /\ receipt' = None
  /\ UNCHANGED frames

-----------------------------------------------------------------------------
(* The child.                                                              *)

Says(kind) ==
  /\ inbox' = None /\ outbox' = kind
  /\ UNCHANGED <<killed, waiting, up>>

\* episode_begin, refused or not.
ChildBegins ==
  \/ Says("error") /\ UNCHANGED childVars
  \/ /\ ~c_ep
     /\ Says("ok")
     /\ c_ep' = TRUE /\ c_seq' = 0 /\ c_staging' = 0
     /\ UNCHANGED receipt

\* tick: labels that do not continue those before are an error, and the tick
\* counts.  Without an episode the first is an error and later ones are answered
\* by verdicts of the latched fuse; they do not count.
ChildTicks ==
  \/ ~c_ep /\ (Says("error") \/ Says("ok")) /\ UNCHANGED childVars
  \/ /\ c_ep
     /\ IF inbox.chunk \in {None, c_staging}
          THEN /\ Says("ok")
               /\ c_staging' = IF inbox.chunk = None THEN c_staging ELSE c_staging + 1
          ELSE Says("error") /\ UNCHANGED c_staging
     /\ c_seq' = c_seq + 1
     /\ UNCHANGED <<c_ep, receipt>>

ChildEnds ==
  /\ c_ep' = FALSE
  /\ \/ Says("error") /\ UNCHANGED receipt
     \/ c_ep /\ Says("ok") /\ receipt' = [steps |-> inbox.steps, ticks |-> c_seq]
  /\ UNCHANGED <<c_seq, c_staging>>

ChildHandles ==
  /\ up /\ inbox # None /\ outbox = None
  /\ CASE inbox.kind = "begin" -> ChildBegins
       [] inbox.kind = "tick" -> ChildTicks
       [] inbox.kind = "end" -> ChildEnds
  /\ UNCHANGED <<proxyVars, epVars>>

ChildDies ==
  /\ up /\ up' = FALSE
  /\ UNCHANGED <<proxyVars, epVars, killed, waiting, inbox, outbox, childVars>>

-----------------------------------------------------------------------------

ProxyInit ==
  /\ at = "idle" /\ row = 0 /\ closing = FALSE /\ frames = 0
  /\ open = FALSE /\ t = 0 /\ next_seq = 0 /\ faulted = FALSE /\ dead = FALSE
  /\ killed = FALSE /\ waiting = FALSE
  /\ up = TRUE /\ inbox = None /\ outbox = None
  /\ c_ep = FALSE /\ c_seq = 0 /\ c_staging = 0 /\ receipt = None

\* What the proxy does by itself, without a frame and without its child.
HostSteps ==
  EndEpisode \/ CrashReceipt \/ BeginEpisode \/ Misshapen \/ TickRow
  \/ Receive \/ GiveUp \/ Answer \/ Close

ProxyNext ==
  \/ HostSteps
  \/ BadFrame
  \/ \E reset \in BOOLEAN : Frame(reset)
  \/ Disconnect \/ Connect
  \/ ChildHandles \/ ChildDies

ProxySpec == ProxyInit /\ [][ProxyNext]_allVars

\* Every wait of the host ends: _read_line has a deadline, and the crash-receipt
\* command is taken to terminate.  Nothing is asked of the child.
FairProxy == ProxySpec /\ WF_allVars(HostSteps)

-----------------------------------------------------------------------------
(* Properties.                                                             *)

\* While an episode goes on, host and child agree on the tick they are at and
\* the chunk they expect, and a receipt binds as many steps as it has ticks:
\* after faults, late answers, refused requests and reconnections.
NumbersAgree ==
  /\ open /\ c_ep /\ ~faulted /\ ~waiting /\ Alive => t = c_seq /\ next_seq = c_staging
  /\ receipt # None => receipt.steps = receipt.ticks

\* The crash receipt is written when nobody else can write to the ledger: the
\* child the host gave up on is not merely slow, it is gone.
SingleWriter == at = "crash" => ~up

\* What the proxy can still have to do until the frame is answered or the
\* connection closed: two steps per row, and those before the first row.
Left ==
  LET rows == 2 * (ExecSteps - row) IN
  CASE at \in {"idle", "gone"} -> 0
    [] at = "close" -> 1
    [] at = "tick" -> rows + IF waiting THEN 0 ELSE 1
    [] at = "begin" -> rows + IF waiting THEN 2 ELSE 3
    [] at = "crash" -> rows + 4
    [] at = "end" -> rows + IF waiting THEN 4 ELSE 5

\* Every step of the proxy brings the answer nearer, whatever it finds of its
\* child: no fault makes it do a row, a begin or an end again, and what only the
\* child does puts nothing off.  A frame takes at most 2 * ExecSteps + 5 steps.
AnswersDrawNear ==
  [][at \notin {"idle", "gone"} =>
       /\ Left > 0
       /\ Left' < Left \/ UNCHANGED <<proxyVars, epVars, killed, waiting>>]_allVars

\* A frame is always answered and a connection always closed, however slow or
\* dead the child is.
NeverStuck == at \notin {"idle", "gone"} ~> at \in {"idle", "gone"}
=============================================================================

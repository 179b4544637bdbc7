------------------------------- MODULE Artefacts -------------------------------
(***************************************************************************)
(* What an episode leaves on disk: receipt, ticks file and timing file of  *)
(* its key, then one entry in the ledger of the arm                        *)
(* (crates/lictor-runtime/src/episode.rs, crates/lictor-receipt).  One     *)
(* process writes at a time: `lictor serve`, `lictor crash-receipt` for an *)
(* episode whose serve died, or `lictor ledger append`.  It may die, or a  *)
(* write may fail, at every write and half way through one.                *)
(*                                                                         *)
(* A hash is all that it covers: the hash of an element of a chain is the  *)
(* hash it was linked to and its own content.  A file or a line that was   *)
(* cut where nothing can be read of it is Torn.                            *)
(***************************************************************************)
EXTENDS Integers, Sequences, FiniteSets, SequencesExt

CONSTANTS
  Keys,        \* the episodes of one run and arm
  Lengths,     \* bound: the numbers of ticks an episode may have
  MaxJobs,     \* bound: receipts ever signed
  MaxLedger,   \* bound: lines of the ledger
  TailMax,     \* ticks embedded under "tail32" (32 in the code)
  Policies,    \* the --ticks a serve is started with
  NoFile, Torn, Header, NoJob

ASSUME ArtefactsAssumption ==
  /\ Lengths \subseteq Nat /\ MaxJobs \in Nat /\ MaxLedger \in Nat
  /\ TailMax \in Nat \ {0}
  /\ Policies \subseteq {"all", "tail32", "none"}

\* ZERO_HASH, the hash of nothing.
Genesis == <<>>

TickHashes == Seq(Nat \X (Nat \X Nat))

TickEvents ==
  [seq : Nat, prev : TickHashes, tick : Nat \X Nat, hash : TickHashes]

EntryHashes == Seq(Nat \X Keys \X Nat)

LedgerEntries ==
  [seq : Nat, prev : EntryHashes, key : Keys, id : Nat, hash : EntryHashes]

ReceiptBodies ==
  [id : Nat, key : Keys, n : Nat, head : TickHashes,
   policy : {"all", "tail32", "none"}, ticks : Seq(TickEvents),
   ledger_prev : EntryHashes]

EventFiles == [key : Keys, events : Seq(TickEvents)]

ASSUME SentinelAssumption ==
  /\ {NoFile, Torn} \cap (ReceiptBodies \cup EventFiles) = {}
  /\ {Torn, Header} \cap LedgerEntries = {} /\ Torn # Header
  /\ NoFile \notin [lines : Seq(LedgerEntries \cup {Torn, Header}), ended : BOOLEAN]

VARIABLES
  receipts, ticks, timings,   \* by key: NoFile, Torn or what was written
  ledger,                     \* NoFile or its lines and whether the last ended
  job, stage,                 \* the receipt being written and its next write
  \* histories
  jobs,                       \* receipts signed so far
  touched,                    \* by key: the last one to reach the receipt file
  acked,                      \* those reported as written
  handed                      \* those entered by `lictor ledger append`

files == <<receipts, ticks, timings>>
artVars == <<files, ledger, job, stage, jobs, touched, acked, handed>>

-----------------------------------------------------------------------------
(* Chains: crates/lictor-receipt/src/tick.rs and ledger.rs.                *)

TickHash(e) == Append(e.prev, <<e.seq, e.tick>>)

\* The events of the episode receipt `id` is about, each chained to the last.
EventsOf(id, n) ==
  LET upTo(i) == [j \in 1..i |-> <<j - 1, <<id, j>>>>]
  IN [i \in 1..n |-> [seq |-> i - 1, prev |-> upTo(i - 1), tick |-> <<id, i>>,
                      hash |-> upTo(i)]]

HeadOf(chain) == IF chain = <<>> THEN Genesis ELSE chain[Len(chain)].hash

\* walk(): numbers from `first` on, links from `start` on, and the hashes
\* recomputed.
BadLinks(chain, first, start, recomputed) ==
  {i \in 1..Len(chain) :
     \/ chain[i].seq # first + i - 1
     \/ chain[i].prev # IF i = 1 THEN start ELSE chain[i - 1].hash
     \/ chain[i].hash # recomputed[i]}

TickChainOk(chain, start) ==
  BadLinks(chain, IF chain = <<>> THEN 0 ELSE chain[1].seq, start,
           [i \in 1..Len(chain) |-> TickHash(chain[i])]) = {}

EntryHash(e) == Append(e.prev, <<e.seq, e.key, e.id>>)

\* Mutation of Entry: the head is the one read when the receipt was signed.
EntryStale(chain, r) ==
  LET e == [seq |-> Len(chain), prev |-> r.ledger_prev, key |-> r.key, id |-> r.id]
  IN [seq |-> e.seq, prev |-> e.prev, key |-> e.key, id |-> e.id,
      hash |-> EntryHash(e)]

\* ledger_entry
Entry(chain, r) ==
  LET e == [seq |-> Len(chain), prev |-> HeadOf(chain), key |-> r.key, id |-> r.id]
  IN [seq |-> e.seq, prev |-> e.prev, key |-> e.key, id |-> e.id,
      hash |-> EntryHash(e)]

\* verify_ledger: the number of the first bad entry, or -1.
BreakAt(chain) ==
  LET bad == BadLinks(chain, 0, Genesis, [i \in 1..Len(chain) |-> EntryHash(chain[i])])
  IN IF bad = {} THEN -1 ELSE (CHOOSE i \in bad : \A j \in bad : i <= j) - 1

-----------------------------------------------------------------------------
(* The ledger file.                                                        *)

Lines == IF ledger = NoFile THEN <<>> ELSE ledger.lines

\* read_ledger: one line that is not JSON spoils the file.
Readable == \A i \in 1..Len(Lines) : Lines[i] # Torn

\* The header, which can only be the first line, is no entry.
Headed == Lines # <<>> /\ Lines[1] = Header

Entries == IF Headed THEN Tail(Lines) ELSE Lines

\* Mutation of Glue: a line without an end is written over.
GlueOver(file, line) ==
  IF file.ended THEN Append(file.lines, line)
  ELSE [file.lines EXCEPT ![Len(file.lines)] = line]

\* Text goes to the end of the file, the end of a line or not.
Glue(file, line) ==
  IF file.ended THEN Append(file.lines, line)
  ELSE [file.lines EXCEPT ![Len(file.lines)] = Torn]

WithLine(file, line) == [lines |-> Glue(file, line), ended |-> TRUE]

\* Where the write of a line can stop: before it, inside it, before its newline.
CutShort(file, line) ==
  {file, [lines |-> Glue(file, Torn), ended |-> FALSE],
   [lines |-> Glue(file, line), ended |-> FALSE]}

Empty == [lines |-> <<>>, ended |-> TRUE]

\* Mutation of Opened: the file is truncated, as File::create would.
OpenedAnew == WithLine(Empty, Header)

\* append_ledger: a file it creates gets a header first.
Opened == IF ledger = NoFile THEN WithLine(Empty, Header) ELSE ledger

Appended(r) == WithLine(Opened, Entry(Entries, r))

AppendCutShort(r) ==
  CutShort(Opened, Entry(Entries, r)) \cup {ledger, Appended(r)}
    \cup IF ledger = NoFile THEN CutShort(Empty, Header) ELSE {}

-----------------------------------------------------------------------------
(* Writing an episode.                                                     *)

\* The ticks embedded in a receipt.
Embedded(events, policy) ==
  CASE policy = "all" -> events
    [] policy = "none" -> <<>>
    [] policy = "tail32" ->
         IF Len(events) <= TailMax THEN events
         ELSE SubSeq(events, Len(events) - TailMax + 1, Len(events))

\* Mutation of Signed: the receipt binds no ledger entry.
SignedFree(id, key, n, policy) ==
  LET events == EventsOf(id, n)
  IN [id |-> id, key |-> key, n |-> n, head |-> HeadOf(events),
      policy |-> policy, ticks |-> Embedded(events, policy),
      ledger_prev |-> Genesis]

\* The signed body: what of it the checks below read.
Signed(id, key, n, policy) ==
  LET events == EventsOf(id, n)
  IN [id |-> id, key |-> key, n |-> n, head |-> HeadOf(events),
      policy |-> policy, ticks |-> Embedded(events, policy),
      ledger_prev |-> HeadOf(Entries)]

EventFile(r) == [key |-> r.key, events |-> EventsOf(r.id, r.n)]

\* episode_end, or crash-receipt, which reports no ticks at all: the ledger is
\* read before anything is written, and an unreadable one is an error.
Sign(key, n, policy) ==
  /\ stage = "idle" /\ jobs < MaxJobs
  /\ Readable
  /\ jobs' = jobs + 1
  /\ job' = Signed(jobs + 1, key, n, policy)
  /\ stage' = "receipt"
  /\ UNCHANGED <<files, ledger, touched, acked, handed>>

Idle == job' = NoJob /\ stage' = "idle"

WriteReceipt ==
  /\ stage = "receipt" /\ stage' = "ticks"
  /\ receipts' = [receipts EXCEPT ![job.key] = job]
  /\ touched' = [touched EXCEPT ![job.key] = job.id]
  /\ UNCHANGED <<ticks, timings, ledger, job, jobs, acked, handed>>

WriteTicks ==
  /\ stage = "ticks" /\ stage' = "timing"
  /\ ticks' = [ticks EXCEPT ![job.key] = EventFile(job)]
  /\ UNCHANGED <<receipts, timings, ledger, job, jobs, touched, acked, handed>>

\* Mutation of WriteTiming: the ledger is appended first.
WriteTimingLate ==
  /\ stage = "timing" /\ stage' = "ledger"
  /\ ledger' = Appended(job)
  /\ UNCHANGED <<files, job, jobs, touched, acked, handed>>

WriteTiming ==
  /\ stage = "timing" /\ stage' = "ledger"
  /\ timings' = [timings EXCEPT ![job.key] = EventFile(job)]
  /\ UNCHANGED <<receipts, ticks, ledger, job, jobs, touched, acked, handed>>

AppendLedger ==
  /\ stage = "ledger" /\ Idle
  /\ Readable
  /\ Len(Lines) < MaxLedger
  /\ ledger' = Appended(job)
  /\ acked' = acked \cup {job.id}
  /\ UNCHANGED <<files, jobs, touched, handed>>

\* write_synced stopped by a crash or an error: the file is as it was, cut, or
\* cut between two events.  Cut after its last byte is the next one cut before
\* its first.
LeftOver(file) == {file[job.key], Torn}

CutBetween(written) ==
  {[written EXCEPT !.events = SubSeq(@, 1, m)] : m \in 0..Len(written.events)}

CutReceipt ==
  /\ stage = "receipt" /\ Idle
  /\ \E left \in LeftOver(receipts) :
       /\ receipts' = [receipts EXCEPT ![job.key] = left]
       /\ touched' = [touched EXCEPT ![job.key] =
                        IF left = receipts[job.key] THEN @ ELSE job.id]
  /\ UNCHANGED <<ticks, timings, ledger, jobs, acked, handed>>

CutTicks ==
  /\ stage = "ticks" /\ Idle
  /\ \E left \in LeftOver(ticks) \cup CutBetween(EventFile(job)) :
       ticks' = [ticks EXCEPT ![job.key] = left]
  /\ UNCHANGED <<receipts, timings, ledger, jobs, touched, acked, handed>>

CutTiming ==
  /\ stage = "timing" /\ Idle
  /\ \E left \in LeftOver(timings) \cup CutBetween(EventFile(job)) :
       timings' = [timings EXCEPT ![job.key] = left]
  /\ UNCHANGED <<receipts, ticks, ledger, jobs, touched, acked, handed>>

CutLedger ==
  /\ stage = "ledger" /\ Idle
  /\ Len(Lines) < MaxLedger
  /\ ledger' \in AppendCutShort(job)
  /\ UNCHANGED <<files, jobs, touched, acked, handed>>

EmbeddedOk(r) ==
  LET expected == CASE r.policy = "all" -> r.n
                    [] r.policy = "none" -> 0
                    [] r.policy = "tail32" -> IF r.n <= TailMax THEN r.n ELSE TailMax
      start == IF r.policy = "all" THEN Genesis ELSE r.ticks[1].prev IN
  /\ Len(r.ticks) = expected
  /\ IF r.ticks = <<>> THEN r.n = 0 => r.head = Genesis
     ELSE /\ TickChainOk(r.ticks, start)
          /\ r.policy = "tail32" => r.ticks[1].seq = r.n - Len(r.ticks)
          /\ HeadOf(r.ticks) = r.head

\* `lictor ledger append`: a receipt that verifies on its own, once more or for
\* the first time.
EnterByHand(key) ==
  /\ stage = "idle"
  /\ Len(Lines) < MaxLedger
  /\ receipts[key] \notin {NoFile, Torn} /\ EmbeddedOk(receipts[key])
  /\ Readable
  /\ ledger' \in AppendCutShort(receipts[key])
  /\ handed' = handed \cup {receipts[key].id}
  /\ UNCHANGED <<files, job, stage, jobs, touched, acked>>

-----------------------------------------------------------------------------

ArtInit ==
  /\ receipts = [k \in Keys |-> NoFile]
  /\ ticks = receipts /\ timings = receipts
  /\ ledger = NoFile
  /\ job = NoJob /\ stage = "idle"
  /\ jobs = 0 /\ touched = [k \in Keys |-> 0] /\ acked = {} /\ handed = {}

ArtNext ==
  \/ \E k \in Keys, n \in Lengths, p \in Policies :
       Sign(k, n, p)
  \/ WriteReceipt \/ WriteTicks \/ WriteTiming \/ AppendLedger
  \/ CutReceipt \/ CutTicks \/ CutTiming \/ CutLedger
  \/ \E k \in Keys : EnterByHand(k)

ArtSpec == ArtInit /\ [][ArtNext]_artVars

-----------------------------------------------------------------------------
(* `lictor verify` with every companion: cmd/verify.rs.                    *)

\* Mutation of EventFileOk: the head is not compared with the signed one.
EventFileOkUnbound(r, file) ==
  /\ file \notin {NoFile, Torn}
  /\ file.key = r.key
  /\ TickChainOk(file.events, Genesis)
  /\ Len(file.events) = r.n

EventFileOk(r, file) ==
  /\ file \notin {NoFile, Torn}
  /\ file.key = r.key
  /\ TickChainOk(file.events, Genesis)
  /\ Len(file.events) = r.n
  /\ HeadOf(file.events) = r.head

\* The embedded tail is where the ticks file has it.
TailOk(r, file) ==
  r.ticks # <<>> =>
    \E i \in 1..Len(file.events) :
      /\ file.events[i].seq = r.ticks[1].seq
      /\ file.events[i].prev = r.ticks[1].prev
      /\ file.events[i].hash = r.ticks[1].hash

\* check_ledger: headed, readable, unbroken, and the first entry with this
\* receipt's digest is the one after the entry the receipt binds.
LedgerOk(r) ==
  LET mine == {i \in 1..Len(Entries) : Entries[i].key = r.key /\ Entries[i].id = r.id} IN
  /\ Headed
  /\ Readable
  /\ BreakAt(Entries) = -1
  /\ \E i \in mine : (\A j \in mine : i <= j) /\ Entries[i].prev = r.ledger_prev

Intact(r) ==
  /\ EmbeddedOk(r)
  /\ EventFileOk(r, ticks[r.key]) /\ TailOk(r, ticks[r.key])
  /\ EventFileOk(r, timings[r.key])
  /\ LedgerOk(r)

-----------------------------------------------------------------------------
(* Properties.                                                             *)

\* No entry of the ledger precedes the files it stands for: as long as no later
\* receipt was begun for the episode, an entered receipt is on disk, whole,
\* whatever was cut, and so are its ticks and timing files unless it was entered
\* by hand.
FilesBeforeLedger ==
  \A i \in 1..Len(Lines) :
    LET e == Lines[i]
        k == e.key IN
    e \notin {Torn, Header} /\ touched[k] = e.id =>
      /\ receipts[k] \notin {NoFile, Torn} /\ receipts[k].id = e.id
      /\ \/ e.id \in handed
         \/ ticks[k] = EventFile(receipts[k]) /\ timings[k] = EventFile(receipts[k])

\* An episode reported as written verifies with all its companions, whatever
\* crashed before it or after it, until it is run again: the writer and the
\* verifier agree on every chain.  The ledger must still be readable, and must
\* have been given its header when it was created.
ReportedIsIntact ==
  \A k \in Keys :
    touched[k] \in acked /\ Readable /\ Headed => Intact(receipts[k])

\* A ticks or timing file that verifies with the receipt on disk is that
\* receipt's own: what a crash left of an earlier run of the episode, or cut
\* between two events, never passes for it, whichever of the three was written.
VerifiedIsGenuine ==
  \A k \in Keys :
    receipts[k] \notin {NoFile, Torn} =>
      \A file \in {ticks[k], timings[k]} :
        EventFileOk(receipts[k], file) => file = EventFile(receipts[k])

\* Crashes leave no break in the chain, and a break in it is found where it is:
\* an entry dropped before the last, two exchanged or one edited.
ChainHolds ==
  Readable =>
  LET es == Entries
      n == Len(es) IN
  /\ BreakAt(es) = -1
  /\ \A i \in 1..(n - 1) : BreakAt(RemoveAt(es, i)) = i - 1
  /\ \A i, j \in 1..n : i < j => BreakAt([es EXCEPT ![i] = es[j], ![j] = es[i]]) = i - 1
  /\ \A i \in 1..n : BreakAt([es EXCEPT ![i].id = 0]) = i - 1

\* What was reported as written stays in the ledger as long as that can be read.
ReportedIsEntered ==
  Readable => acked \subseteq {Entries[i].id : i \in 1..Len(Entries)}

\* The ledger keeps the promise of EpisodeLog: one more entry, or unreadable for
\* good.
Log == INSTANCE EpisodeLog WITH
  Receipts <- 1..MaxJobs, Lost <- <<0>>,
  log <- IF Readable THEN [i \in 1..Len(Entries) |-> Entries[i].id] ELSE <<0>>

LedgerOnlyGrows == Log!LogSpec
=============================================================================

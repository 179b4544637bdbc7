---------------------------- MODULE ArtefactsProofs ----------------------------
(***************************************************************************)
(* What a reader of the files of an arm may rely on, for any episodes,     *)
(* numbers of ticks, writes cut short and entries made by hand.            *)
(***************************************************************************)
EXTENDS Artefacts, SequenceTheorems, WellFoundedInduction, TLAPS

LineSet == LedgerEntries \cup {Torn, Header}

LedgerFiles == [lines : Seq(LineSet), ended : BOOLEAN]

LedgerShape ==
  /\ ledger \in LedgerFiles \cup {NoFile}
  /\ ledger # NoFile /\ ~ledger.ended => ledger.lines # <<>>
  /\ \A i \in 1..Len(Lines) : Lines[i] = Header => i = 1

-----------------------------------------------------------------------------
(* Shapes.                                                                 *)

LEMMA GenesisIs == Genesis \in TickHashes /\ Genesis \in EntryHashes
PROOF BY DEF Genesis, TickHashes, EntryHashes

LEMMA EventsAre ==
  ASSUME NEW id \in Nat, NEW n \in Nat
  PROVE  /\ EventsOf(id, n) \in Seq(TickEvents)
         /\ Len(EventsOf(id, n)) = n
         /\ \A i \in 1..n :
              /\ EventsOf(id, n)[i].seq = i - 1
              /\ EventsOf(id, n)[i].prev =
                   IF i = 1 THEN Genesis ELSE EventsOf(id, n)[i - 1].hash
              /\ EventsOf(id, n)[i].hash = TickHash(EventsOf(id, n)[i])
PROOF
  <1> DEFINE upTo(i) == [j \in 1..i |-> <<j - 1, <<id, j>>>>]
             event(i) == [seq |-> i - 1, prev |-> upTo(i - 1), tick |-> <<id, i>>,
                          hash |-> upTo(i)]
  <1>1. \A i \in Nat : upTo(i) \in TickHashes /\ Len(upTo(i)) = i
    BY DEF TickHashes
  <1>2. \A i \in 1..n : event(i) \in TickEvents
    <2> SUFFICES ASSUME NEW i \in 1..n PROVE event(i) \in TickEvents
      OBVIOUS
    <2> HIDE DEF upTo
    <2>1. i - 1 \in Nat /\ i \in Nat
      OBVIOUS
    <2>2. upTo(i - 1) \in TickHashes /\ upTo(i) \in TickHashes
      BY <1>1, <2>1, Zenon
    <2> QED BY <2>1, <2>2 DEF TickEvents
  <1>3. EventsOf(id, n) = [i \in 1..n |-> event(i)]
    BY DEF EventsOf
  <1> HIDE DEF event
  <1>4. EventsOf(id, n) \in Seq(TickEvents) /\ Len(EventsOf(id, n)) = n
    BY <1>2, <1>3
  <1>5. upTo(0) = Genesis
    BY DEF Genesis
  <1>6. ASSUME NEW i \in 1..n PROVE upTo(i) = Append(upTo(i - 1), <<i - 1, <<id, i>>>>)
    <2>1. i - 1 \in Nat /\ i \in Nat OBVIOUS
    <2>2. upTo(i - 1) \in TickHashes /\ Len(upTo(i - 1)) = i - 1
      BY <1>1, <2>1
    <2> QED BY <2>1, <2>2 DEF TickHashes
  <1>7. ASSUME NEW i \in 1..n
        PROVE  /\ event(i).seq = i - 1
               /\ event(i).prev = IF i = 1 THEN Genesis ELSE event(i - 1).hash
               /\ event(i).hash = TickHash(event(i))
    <2>1. event(i).seq = i - 1 /\ event(i).prev = upTo(i - 1)
          /\ event(i).tick = <<id, i>> /\ event(i).hash = upTo(i)
      BY DEF event
    <2>2. i # 1 => event(i - 1).hash = upTo(i - 1)
      BY DEF event
    <2> QED BY <2>1, <2>2, <1>5, <1>6 DEF TickHash
  <1> QED BY <1>3, <1>4, <1>7

LEMMA HeadIs ==
  ASSUME NEW S, NEW chain \in Seq(S), chain # <<>>
  PROVE  Len(chain) \in 1..Len(chain) /\ HeadOf(chain) = chain[Len(chain)].hash
PROOF BY DEF HeadOf

LEMMA EmbeddedAre ==
  ASSUME NEW events \in Seq(TickEvents), NEW policy \in {"all", "tail32", "none"}
  PROVE  Embedded(events, policy) \in Seq(TickEvents)
PROOF
  <1>1. CASE policy = "all" BY <1>1 DEF Embedded
  <1>2. CASE policy = "none" BY <1>2 DEF Embedded
  <1>3. CASE policy = "tail32"
    <2>1. CASE Len(events) <= TailMax BY <1>3, <2>1 DEF Embedded
    <2>2. CASE ~(Len(events) <= TailMax)
      <3>1. TailMax \in Nat \ {0} BY ArtefactsAssumption
      <3>2. SubSeq(events, Len(events) - TailMax + 1, Len(events)) \in Seq(TickEvents)
        BY <3>1, <2>2
      <3> QED BY <1>3, <2>2, <3>2 DEF Embedded
    <2> QED BY <2>1, <2>2
  <1> QED BY <1>1, <1>2, <1>3

\* A receipt that reports its own ticks.
Genuine(r) ==
  LET events == EventsOf(r.id, r.n) IN
  /\ r.head = HeadOf(events)
  /\ r.ticks = Embedded(events, r.policy)

LEMMA SignedIs ==
  ASSUME NEW id \in Nat, NEW key \in Keys, NEW n \in Nat,
         NEW policy \in {"all", "tail32", "none"}, HeadOf(Entries) \in EntryHashes
  PROVE  /\ Signed(id, key, n, policy) \in ReceiptBodies
         /\ Signed(id, key, n, policy).id = id
         /\ Signed(id, key, n, policy).key = key
         /\ Signed(id, key, n, policy).ledger_prev = HeadOf(Entries)
         /\ Genuine(Signed(id, key, n, policy))
PROOF
  <1> DEFINE events == EventsOf(id, n)
  <1>1. events \in Seq(TickEvents)
    BY EventsAre
  <1>2. HeadOf(events) \in TickHashes
    <2>1. CASE events = <<>> BY <2>1, GenesisIs DEF HeadOf
    <2>2. CASE events # <<>>
      <3>1. events[Len(events)] \in TickEvents BY <1>1, <2>2
      <3> QED BY <3>1, <1>1, <2>2, HeadIs DEF TickEvents
    <2> QED BY <2>1, <2>2
  <1>3. Embedded(events, policy) \in Seq(TickEvents)
    BY <1>1, EmbeddedAre
  <1> HIDE DEF events
  <1>4. Signed(id, key, n, policy) =
          [id |-> id, key |-> key, n |-> n, head |-> HeadOf(events),
           policy |-> policy, ticks |-> Embedded(events, policy),
           ledger_prev |-> HeadOf(Entries)]
    BY DEF Signed, events
  <1> QED BY <1>2, <1>3, <1>4 DEF ReceiptBodies, Genuine, events

LEMMA EventFileIs ==
  ASSUME NEW r \in ReceiptBodies
  PROVE  EventFile(r) \in EventFiles /\ CutBetween(EventFile(r)) \subseteq EventFiles
PROOF
  <1>1. r.id \in Nat /\ r.n \in Nat /\ r.key \in Keys
    BY DEF ReceiptBodies
  <1>2. EventsOf(r.id, r.n) \in Seq(TickEvents)
    BY <1>1, EventsAre
  <1>3. EventFile(r) \in EventFiles
    BY <1>1, <1>2 DEF EventFile, EventFiles
  <1>4. ASSUME NEW f \in EventFiles, NEW m \in 0..Len(f.events)
        PROVE  [f EXCEPT !.events = SubSeq(@, 1, m)] \in EventFiles
    <2>1. f.events \in Seq(TickEvents) BY DEF EventFiles
    <2>2. SubSeq(f.events, 1, m) \in Seq(TickEvents) BY <2>1
    <2> QED BY <2>2 DEF EventFiles
  <1> QED BY <1>3, <1>4 DEF CutBetween

LEMMA EntryIs ==
  ASSUME NEW chain \in Seq(LedgerEntries), NEW r \in ReceiptBodies
  PROVE  /\ Entry(chain, r) \in LedgerEntries
         /\ Entry(chain, r).seq = Len(chain)
         /\ Entry(chain, r).prev = HeadOf(chain)
         /\ Entry(chain, r).key = r.key /\ Entry(chain, r).id = r.id
         /\ Entry(chain, r).hash = EntryHash(Entry(chain, r))
         /\ HeadOf(chain) \in EntryHashes
PROOF
  <1>1. HeadOf(chain) \in EntryHashes
    <2>1. CASE chain = <<>> BY <2>1, GenesisIs DEF HeadOf
    <2>2. CASE chain # <<>>
      <3>1. chain[Len(chain)] \in LedgerEntries BY <2>2
      <3> QED BY <3>1, <2>2, HeadIs DEF LedgerEntries
    <2> QED BY <2>1, <2>2
  <1>2. r.key \in Keys /\ r.id \in Nat /\ Len(chain) \in Nat
    BY DEF ReceiptBodies
  <1> DEFINE e == [seq |-> Len(chain), prev |-> HeadOf(chain), key |-> r.key, id |-> r.id]
  <1>3. EntryHash(e) = Append(HeadOf(chain), <<Len(chain), r.key, r.id>>)
    BY DEF EntryHash
  <1>4. EntryHash(e) \in EntryHashes
    <2>1. <<Len(chain), r.key, r.id>> \in Nat \X Keys \X Nat
      BY <1>2
    <2> HIDE DEF e
    <2> QED BY <1>1, <1>3, <2>1 DEF EntryHashes
  <1>5. Entry(chain, r) = [seq |-> Len(chain), prev |-> HeadOf(chain), key |-> r.key,
                           id |-> r.id, hash |-> EntryHash(e)]
    BY DEF Entry
  <1>6. EntryHash(Entry(chain, r)) = Append(HeadOf(chain), <<Len(chain), r.key, r.id>>)
    BY <1>5 DEF EntryHash
  <1> DEFINE hash == EntryHash(e)
  <1>7. hash = Append(HeadOf(chain), <<Len(chain), r.key, r.id>>) /\ hash \in EntryHashes
    BY <1>3, <1>4
  <1>8. Entry(chain, r) = [seq |-> Len(chain), prev |-> HeadOf(chain), key |-> r.key,
                           id |-> r.id, hash |-> hash]
    BY <1>5
  <1> HIDE DEF hash
  <1> QED BY <1>1, <1>2, <1>6, <1>7, <1>8 DEF LedgerEntries

-----------------------------------------------------------------------------
(* The ledger file.                                                        *)

LEMMA Narrower ==
  ASSUME NEW S, NEW T, NEW s \in Seq(S), \A i \in 1..Len(s) : s[i] \in T
  PROVE  s \in Seq(T)
PROOF OBVIOUS

LEMMA LinesAre ==
  ASSUME LedgerShape PROVE Lines \in Seq(LineSet)
PROOF BY DEF LedgerShape, LedgerFiles, Lines

LEMMA EntriesAre ==
  ASSUME LedgerShape, Readable
  PROVE  /\ Entries \in Seq(LedgerEntries)
         /\ Len(Lines) = IF Headed THEN Len(Entries) + 1 ELSE Len(Entries)
         /\ \A i \in 1..Len(Entries) :
              Entries[i] = Lines[IF Headed THEN i + 1 ELSE i]
PROOF
  <1>1. Lines \in Seq(LineSet)
    BY LinesAre
  <1>2. \A i \in 1..Len(Lines) : Lines[i] # Torn
    BY DEF Readable
  <1>3. \A i \in 1..Len(Lines) : i = 1 \/ Lines[i] \in LedgerEntries
    BY <1>1, <1>2 DEF LineSet, LedgerShape
  <1>4. CASE Headed
    <2>1. Lines # <<>> /\ Entries = Tail(Lines)
      BY <1>4 DEF Headed, Entries
    <2>2. Len(Tail(Lines)) = Len(Lines) - 1
          /\ \A i \in 1..Len(Tail(Lines)) : Tail(Lines)[i] = Lines[i + 1]
      BY <1>1, <2>1
    <2>3. \A i \in 1..Len(Tail(Lines)) : Tail(Lines)[i] \in LedgerEntries
      BY <1>1, <1>3, <2>2
    <2>4. Tail(Lines) \in Seq(LineSet)
      BY <1>1, <2>1
    <2>5. Tail(Lines) \in Seq(LedgerEntries)
      BY <2>3, <2>4, Narrower
    <2> QED BY <1>4, <2>1, <2>2, <2>5
  <1>5. CASE ~Headed
    <2>1. Entries = Lines
      BY <1>5 DEF Entries
    <2>2. \A i \in 1..Len(Lines) : Lines[i] \in LedgerEntries
      <3> SUFFICES ASSUME NEW i \in 1..Len(Lines), i = 1 PROVE Lines[i] \in LedgerEntries
        BY <1>3
      <3>1. Lines # <<>>
        BY <1>1
      <3> QED BY <1>1, <1>2, <1>5, <3>1 DEF Headed, LineSet
    <2> QED BY <1>1, <1>5, <2>1, <2>2
  <1> QED BY <1>4, <1>5

\* What an append of r may make of a ledger that could be read: nothing, an
\* unreadable file, or one more entry.  No line comes from elsewhere.
Enters(r) ==
  LET e == Entry(Entries, r) IN
  /\ \/ Readable' /\ Entries' = Entries
     \/ Readable' /\ Entries' = Append(Entries, e)
     \/ ~Readable'
  /\ \A i \in 1..Len(Lines') :
       \/ Lines'[i] \in {Torn, Header, e}
       \/ \E j \in 1..Len(Lines) : Lines'[i] = Lines[j]

\* What a whole line makes of a ledger that can be read afterwards.
EntersWhole(r) ==
  Readable' => Entries' = Append(Entries, Entry(Entries, r))

LEMMA GlueIs ==
  ASSUME NEW file \in LedgerFiles, NEW line \in LineSet,
         ~file.ended => file.lines # <<>>
  PROVE  /\ Glue(file, line) \in Seq(LineSet) /\ Glue(file, line) # <<>>
         /\ file.ended => Glue(file, line) = Append(file.lines, line)
         /\ ~file.ended =>
              /\ Len(Glue(file, line)) = Len(file.lines)
              /\ Glue(file, line)[Len(file.lines)] = Torn
              /\ \A i \in 1..Len(file.lines) :
                   Glue(file, line)[i] \in {Torn, file.lines[i]}
PROOF
  <1>1. file.lines \in Seq(LineSet) /\ file.ended \in BOOLEAN
    BY DEF LedgerFiles
  <1>2. CASE file.ended
    <2>1. Glue(file, line) = Append(file.lines, line)
      BY <1>2 DEF Glue
    <2>2. Append(file.lines, line) \in Seq(LineSet)
          /\ Len(Append(file.lines, line)) = Len(file.lines) + 1
      BY <1>1
    <2>3. Append(file.lines, line) # <<>>
      <3> DEFINE more == Append(file.lines, line)
      <3>1. Len(more) = Len(file.lines) + 1 /\ Len(file.lines) \in Nat
        BY <1>1, <2>2
      <3> HIDE DEF more
      <3>2. more # <<>>
        BY ONLY <3>1
      <3> QED BY <3>2 DEF more
    <2> QED BY <1>2, <2>1, <2>2, <2>3
  <1>3. CASE ~file.ended
    <2>1. Glue(file, line) = [file.lines EXCEPT ![Len(file.lines)] = Torn]
      BY <1>3 DEF Glue
    <2>2. Len(file.lines) \in 1..Len(file.lines) /\ Torn \in LineSet
      BY <1>1, <1>3 DEF LineSet
    <2>3. [file.lines EXCEPT ![Len(file.lines)] = Torn] \in Seq(LineSet)
          /\ Len([file.lines EXCEPT ![Len(file.lines)] = Torn]) = Len(file.lines)
      BY <1>1, <2>2
    <2>4. Glue(file, line) # <<>>
      BY <1>1, <2>1, <2>2, <2>3
    <2> QED BY <1>1, <1>3, <2>1, <2>2, <2>3, <2>4
  <1> QED BY <1>1, <1>2, <1>3

LEMMA GlueEnters ==
  ASSUME LedgerShape, Readable, ledger # NoFile,
         NEW r \in ReceiptBodies, NEW line \in {Torn, Entry(Entries, r)},
         NEW b \in BOOLEAN,
         ledger' = [lines |-> Glue(ledger, line), ended |-> b]
  PROVE  LedgerShape' /\ Enters(r) /\ (line # Torn => EntersWhole(r))
PROOF
  <1> DEFINE e == Entry(Entries, r)
  <1>1. ledger \in LedgerFiles /\ Lines = ledger.lines
        /\ (~ledger.ended => ledger.lines # <<>>)
    BY DEF LedgerShape, Lines
  <1>2. Lines \in Seq(LineSet) /\ Entries \in Seq(LedgerEntries)
    BY LinesAre, EntriesAre
  <1>3. e \in LedgerEntries /\ e # Torn /\ e # Header /\ Torn # Header
        /\ Torn \in LineSet /\ e \in LineSet
    BY <1>2, EntryIs, SentinelAssumption DEF LineSet
  <1> HIDE DEF e
  <1>4. line \in {Torn, e}
    BY DEF e
  <1> DEFINE glued == Glue(ledger, line)
  <1>5. /\ glued \in Seq(LineSet) /\ glued # <<>>
        /\ ledger.ended => glued = Append(Lines, line)
        /\ ~ledger.ended =>
             /\ Len(glued) = Len(Lines) /\ glued[Len(Lines)] = Torn
             /\ \A i \in 1..Len(Lines) : glued[i] \in {Torn, Lines[i]}
    BY <1>1, <1>3, <1>4, GlueIs
  <1> HIDE DEF glued
  <1>6. ledger' = [lines |-> glued, ended |-> b]
    BY DEF glued
  <1>7. ledger' \in LedgerFiles /\ ledger' # NoFile /\ Lines' = glued /\ ledger'.lines = glued
    <2>1. ledger' \in LedgerFiles
      BY <1>5, <1>6 DEF LedgerFiles
    <2>2. ledger' # NoFile
      BY <2>1, SentinelAssumption DEF LedgerFiles, LineSet
    <2> QED BY <1>6, <2>1, <2>2 DEF Lines
  <1>8. \A i \in 1..Len(Lines) : (Lines[i] = Header => i = 1) /\ Lines[i] # Torn
    BY DEF LedgerShape, Readable
  <1>9. CASE ledger.ended
    <2>1. /\ Len(glued) = Len(Lines) + 1 /\ glued[Len(Lines) + 1] = line
          /\ \A i \in 1..Len(Lines) : glued[i] = Lines[i]
      BY <1>2, <1>3, <1>4, <1>5, <1>9
    <2>2. Len(Lines) \in Nat
      BY <1>2
    <2>3. \A i \in 1..Len(glued) : i \in 1..Len(Lines) \/ i = Len(Lines) + 1
      BY <2>1, <2>2
    <2>4. \A i \in 1..Len(glued) : glued[i] = Header => i = 1
      BY <1>3, <1>4, <1>8, <2>1, <2>3
    <2>5. LedgerShape'
      BY <1>5, <1>7, <2>4 DEF LedgerShape
    <2>6. \A i \in 1..Len(Lines') :
            Lines'[i] \in {Torn, Header, e} \/ \E j \in 1..Len(Lines) : Lines'[i] = Lines[j]
      BY <1>4, <1>7, <2>1, <2>3
    <2>7. CASE line = Torn
      <3>1. ~Readable'
        BY <1>7, <2>1, <2>2, <2>7 DEF Readable
      <3> QED BY <2>5, <2>6, <2>7, <3>1 DEF Enters, e
    <2>8. CASE line = e
      <3>1. Readable'
        BY <1>3, <1>7, <1>8, <2>1, <2>3, <2>8 DEF Readable
      <3>2. Headed' <=> Headed
        <4>1. CASE Lines = <<>>
          BY <1>3, <1>7, <2>1, <2>8, <4>1 DEF Headed
        <4>2. CASE Lines # <<>>
          <5>1. 1 \in 1..Len(Lines) BY <1>2, <4>2
          <5> QED BY <1>5, <1>7, <2>1, <4>2, <5>1 DEF Headed
        <4> QED BY <4>1, <4>2
      <3>3. Entries' = Append(Entries, e)
        <4>1. CASE Headed
          <5>1. Lines # <<>> /\ Entries = Tail(Lines) /\ Entries' = Tail(glued)
            BY <1>7, <3>2, <4>1 DEF Entries, Headed
          <5>2. glued = Append(Lines, e)
            BY <1>5, <1>9, <2>8
          <5>3. Tail(Append(Lines, e)) = Append(Tail(Lines), e)
            BY <1>2, <1>3, <5>1
          <5> QED BY <5>1, <5>2, <5>3
        <4>2. CASE ~Headed
          BY <1>5, <1>7, <1>9, <2>8, <3>2, <4>2 DEF Entries
        <4> QED BY <4>1, <4>2
      <3> QED BY <2>5, <2>6, <3>1, <3>3 DEF Enters, EntersWhole, e
    <2> QED BY <1>4, <2>7, <2>8
  <1>10. CASE ~ledger.ended
    <2>1. Lines # <<>> /\ Len(Lines) \in 1..Len(Lines)
      BY <1>1, <1>2, <1>10
    <2>2. ~Readable'
      BY <1>5, <1>7, <1>10, <2>1 DEF Readable
    <2>3. \A i \in 1..Len(glued) : glued[i] = Header => i = 1
      BY <1>3, <1>5, <1>8, <1>10
    <2>4. LedgerShape'
      BY <1>5, <1>7, <2>3 DEF LedgerShape
    <2>5. \A i \in 1..Len(Lines') :
            Lines'[i] \in {Torn, Header, e} \/ \E j \in 1..Len(Lines) : Lines'[i] = Lines[j]
      BY <1>5, <1>7, <1>10
    <2> QED BY <2>2, <2>4, <2>5 DEF Enters, EntersWhole, e
  <1> QED BY <1>1, <1>9, <1>10 DEF LedgerFiles

LEMMA Longer ==
  ASSUME NEW S, NEW s \in Seq(S), NEW x \in S
  PROVE  /\ Append(s, x) \in Seq(S)
         /\ Len(Append(s, x)) = Len(s) + 1
         /\ \A i \in 1..Len(s) : Append(s, x)[i] = s[i]
         /\ Append(s, x)[Len(s) + 1] = x
PROOF OBVIOUS

LEMMA Two ==
  ASSUME NEW S, NEW a \in S, NEW b \in S, NEW s \in Seq(S), NEW t \in Seq(S),
         Len(s) = 1, s[1] = a, Len(t) = 2, t[1] = a, t[2] = b
  PROVE  Append(s, b) = t
PROOF
  <1> DEFINE more == Append(s, b)
  <1>1. /\ more \in Seq(S) /\ Len(more) = Len(s) + 1
        /\ \A i \in 1..Len(s) : more[i] = s[i]
        /\ more[Len(s) + 1] = b
    BY ONLY s \in Seq(S), b \in S, Longer
  <1> HIDE DEF more
  <1>2. Len(more) = 2
    BY <1>1
  <1>3. \A i \in 1..Len(more) : more[i] = t[i]
    BY <1>1, <1>2
  <1>4. more = t
    BY <1>1, <1>2, <1>3, SeqEqual
  <1> QED BY <1>4 DEF more

LEMMA Pair ==
  ASSUME NEW S, NEW a \in S, NEW b \in S
  PROVE  Append(<<a>>, b) = <<a, b>>
PROOF
  <1> DEFINE one == <<a>>  two == <<a, b>>
  <1>1. one \in Seq(S) /\ Len(one) = 1 /\ one[1] = a
    OBVIOUS
  <1>2. two \in Seq(S) /\ Len(two) = 2 /\ two[1] = a /\ two[2] = b
    OBVIOUS
  <1> HIDE DEF one, two
  <1>3. Append(one, b) = two
    BY <1>1, <1>2, Two
  <1> QED BY <1>3 DEF one, two

LEMMA Literals ==
  ASSUME NEW S, NEW a \in S, NEW b \in S
  PROVE  /\ <<>> \in Seq(S) /\ <<a>> \in Seq(S) /\ <<a, b>> \in Seq(S)
         /\ Append(<<>>, a) = <<a>> /\ Append(<<a>>, b) = <<a, b>>
         /\ Len(<<a>>) = 1 /\ <<a>>[1] = a /\ <<a>> # <<>> /\ Tail(<<a>>) = <<>>
         /\ Len(<<a, b>>) = 2 /\ <<a, b>>[1] = a /\ <<a, b>>[2] = b
         /\ <<a, b>> # <<>> /\ Tail(<<a, b>>) = <<b>>
PROOF
  <1>1. <<>> \in Seq(S) /\ <<a>> \in Seq(S) /\ <<a, b>> \in Seq(S)
    OBVIOUS
  <1>2. Append(<<>>, a) = <<a>>
    OBVIOUS
  <1>3. Len(<<a, b>>) = 2 /\ <<a, b>>[1] = a /\ <<a, b>>[2] = b /\ <<a, b>> # <<>>
    OBVIOUS
  <1>4. Len(<<a>>) = 1 /\ <<a>>[1] = a /\ <<a>> # <<>>
    OBVIOUS
  <1>5. Append(<<a>>, b) = <<a, b>>
    BY <1>1, Pair, Zenon
  <1>6. Tail(<<a>>) = <<>>
    OBVIOUS
  <1>7. Tail(<<a, b>>) = <<b>>
    <2>1. Tail(Append(<<a>>, b)) = Append(Tail(<<a>>), b)
      BY <1>1, <1>4, HeadTailAppend
    <2>2. Append(<<>>, b) = <<b>>
      OBVIOUS
    <2> QED BY <1>5, <1>6, <2>1, <2>2
  <1> QED BY <1>1, <1>2, <1>3, <1>4, <1>5, <1>6, <1>7

LEMMA FileIs ==
  ASSUME NEW l \in Seq(LineSet), NEW b \in BOOLEAN, ledger' = [lines |-> l, ended |-> b]
  PROVE  /\ Lines' = l /\ ledger' \in LedgerFiles /\ ledger' # NoFile
         /\ ledger'.lines = l /\ ledger'.ended = b
PROOF
  <1>1. ledger' \in LedgerFiles
    BY DEF LedgerFiles
  <1>2. ledger' # NoFile
    BY <1>1, SentinelAssumption DEF LedgerFiles, LineSet
  <1> QED BY <1>1, <1>2 DEF Lines

\* The first append creates the file.
LEMMA CreateEnters ==
  ASSUME LedgerShape, ledger = NoFile, NEW r \in ReceiptBodies,
         ledger' \in AppendCutShort(r)
  PROVE  LedgerShape' /\ Enters(r) /\ (ledger' = Appended(r) => EntersWhole(r))
PROOF
  <1> DEFINE e == Entry(Entries, r)
  <1>1. Lines = <<>> /\ Entries = <<>>
    BY DEF Lines, Entries, Headed
  <1>2. e \in LedgerEntries /\ e # Torn /\ e # Header /\ Torn # Header
    <2>1. Entries \in Seq(LedgerEntries)
      BY <1>1
    <2>2. e \in LedgerEntries
      BY <2>1, EntryIs
    <2> HIDE DEF e
    <2> QED BY <2>2, SentinelAssumption
  <1>3. Torn \in LineSet /\ e \in LineSet /\ Header \in LineSet
    BY <1>2 DEF LineSet
  <1> HIDE DEF e
  <1>4. Opened = [lines |-> <<Header>>, ended |-> TRUE]
    <2>1. Append(<<>>, Header) = <<Header>>
      BY <1>3, Literals
    <2> QED BY <2>1 DEF Opened, WithLine, Empty, Glue
  <1> DEFINE file(l, b) == [lines |-> l, ended |-> b]
  <1>5. /\ Appended(r) = file(<<Header, e>>, TRUE)
        /\ \/ ledger' = NoFile
           \/ ledger' = file(<<>>, TRUE)
           \/ \E b \in BOOLEAN : ledger' = file(<<Header>>, b)
           \/ ledger' = file(<<Torn>>, FALSE)
           \/ ledger' = file(<<Header, Torn>>, FALSE)
           \/ \E b \in BOOLEAN : ledger' = file(<<Header, e>>, b)
    <2>1. \A line \in {Torn, e} : Glue(Opened, line) = <<Header, line>>
      <3> SUFFICES ASSUME NEW line \in {Torn, e} PROVE Glue(Opened, line) = <<Header, line>>
        OBVIOUS
      <3> DEFINE one == <<Header>>
      <3>0. line \in LineSet /\ Header \in LineSet
        BY <1>3
      <3>1. Append(one, line) = <<Header, line>>
        BY <3>0, Pair, Zenon
      <3>2. Opened = [lines |-> one, ended |-> TRUE]
        BY <1>4, Zenon
      <3> HIDE DEF one
      <3>3. Glue(Opened, line) = Append(one, line)
        BY <3>2 DEF Glue
      <3> QED BY <3>1, <3>3
    <2>2. \A line \in {Torn, Header} : Glue(Empty, line) = <<line>>
      <3> SUFFICES ASSUME NEW line \in {Torn, Header} PROVE Glue(Empty, line) = <<line>>
        OBVIOUS
      <3>1. Append(<<>>, line) = <<line>>
        BY <1>3, Literals
      <3> QED BY <3>1 DEF Glue, Empty
    <2>3. CutShort(Opened, e) =
            {file(<<Header>>, TRUE), file(<<Header, Torn>>, FALSE), file(<<Header, e>>, FALSE)}
      BY <2>1, <1>4 DEF CutShort
    <2>4. CutShort(Empty, Header) =
            {file(<<>>, TRUE), file(<<Torn>>, FALSE), file(<<Header>>, FALSE)}
      BY <2>2 DEF CutShort, Empty
    <2>5. Appended(r) = file(<<Header, e>>, TRUE)
      <3>1. Appended(r) = file(Glue(Opened, e), TRUE)
        BY DEF Appended, WithLine, e
      <3> QED BY <2>1, <3>1
    <2> HIDE DEF file
    <2>6. AppendCutShort(r) =
            CutShort(Opened, e) \cup {NoFile, Appended(r)} \cup CutShort(Empty, Header)
      BY DEF AppendCutShort, e
    <2> QED BY <2>3, <2>4, <2>5, <2>6
  <1>6. ASSUME ledger' = NoFile PROVE LedgerShape' /\ Enters(r)
    <2>1. Lines' = <<>> /\ Entries' = <<>>
      BY <1>6 DEF Lines, Entries, Headed
    <2> QED BY <1>1, <1>6, <2>1 DEF LedgerShape, Enters, Readable
  <1>7. ASSUME ledger' = file(<<>>, TRUE) PROVE LedgerShape' /\ Enters(r)
    <2>1. Lines' = <<>> /\ ledger' \in LedgerFiles /\ ledger'.ended
      BY <1>3, <1>7, FileIs, Literals
    <2>2. Entries' = <<>>
      BY <2>1 DEF Entries, Headed
    <2> QED BY <1>1, <2>1, <2>2 DEF LedgerShape, Enters, Readable
  <1>8. ASSUME \E b \in BOOLEAN : ledger' = file(<<Header>>, b)
        PROVE  LedgerShape' /\ Enters(r)
    <2>1. Lines' = <<Header>> /\ ledger' \in LedgerFiles /\ ledger'.lines = <<Header>>
      <3>1. <<Header>> \in Seq(LineSet) BY <1>3, Literals
      <3> QED BY <1>8, <3>1, FileIs
    <2>2. Len(Lines') = 1 /\ Lines'[1] = Header /\ Lines' # <<>> /\ Tail(Lines') = <<>>
      BY <1>3, <2>1, Literals
    <2>3. Entries' = <<>>
      BY <2>2 DEF Entries, Headed
    <2> QED BY <1>1, <1>2, <2>1, <2>2, <2>3 DEF LedgerShape, Enters, Readable
  <1>9. ASSUME ledger' = file(<<Torn>>, FALSE) PROVE LedgerShape' /\ Enters(r)
    <2>1. Lines' = <<Torn>> /\ ledger' \in LedgerFiles /\ ledger'.lines = <<Torn>>
      <3>1. <<Torn>> \in Seq(LineSet) BY <1>3, Literals
      <3> QED BY <1>9, <3>1, FileIs
    <2>2. Len(Lines') = 1 /\ Lines'[1] = Torn /\ Lines' # <<>>
      BY <1>3, <2>1, Literals
    <2> QED BY <1>2, <2>1, <2>2 DEF LedgerShape, Enters, Readable
  <1>10. ASSUME ledger' = file(<<Header, Torn>>, FALSE) PROVE LedgerShape' /\ Enters(r)
    <2>1. Lines' = <<Header, Torn>> /\ ledger' \in LedgerFiles
          /\ ledger'.lines = <<Header, Torn>>
      <3>1. <<Header, Torn>> \in Seq(LineSet) BY <1>3, Literals
      <3> QED BY <1>10, <3>1, FileIs
    <2>2. Len(Lines') = 2 /\ Lines'[1] = Header /\ Lines'[2] = Torn /\ Lines' # <<>>
      BY <1>3, <2>1, Literals
    <2> QED BY <1>2, <2>1, <2>2 DEF LedgerShape, Enters, Readable
  <1>11. ASSUME \E b \in BOOLEAN : ledger' = file(<<Header, e>>, b)
         PROVE  LedgerShape' /\ Enters(r) /\ EntersWhole(r)
    <2>1. Lines' = <<Header, e>> /\ ledger' \in LedgerFiles
          /\ ledger'.lines = <<Header, e>>
      <3>1. <<Header, e>> \in Seq(LineSet) BY <1>3, Literals
      <3> QED BY <1>11, <3>1, FileIs
    <2>2. /\ Len(Lines') = 2 /\ Lines'[1] = Header /\ Lines'[2] = e /\ Lines' # <<>>
          /\ Tail(Lines') = <<e>>
      BY <1>3, <2>1, Literals
    <2>3. Entries' = <<e>>
      BY <2>2 DEF Entries, Headed
    <2>4. Entries' = Append(Entries, e)
      BY <1>1, <1>3, <2>3, Literals
    <2>5. LedgerShape'
      BY <1>2, <2>1, <2>2 DEF LedgerShape
    <2>6. Readable' /\ \A i \in 1..Len(Lines') : Lines'[i] \in {Torn, Header, e}
      BY <1>2, <2>2 DEF Readable
    <2> QED BY <1>1, <2>4, <2>5, <2>6 DEF Enters, EntersWhole, Readable, e
  <1>12. ledger' = Appended(r) => \E b \in BOOLEAN : ledger' = file(<<Header, e>>, b)
    BY <1>5
  <1> HIDE DEF file
  <1> QED BY <1>5, <1>6, <1>7, <1>8, <1>9, <1>10, <1>11, <1>12

LEMMA AppendEnters ==
  ASSUME LedgerShape, Readable, NEW r \in ReceiptBodies, ledger' \in AppendCutShort(r)
  PROVE  LedgerShape' /\ Enters(r)
PROOF
  <1>1. CASE ledger = NoFile BY <1>1, CreateEnters
  <1>2. CASE ledger # NoFile
    <2> DEFINE e == Entry(Entries, r)
    <2>1. Opened = ledger
      BY <1>2 DEF Opened
    <2>2. \/ ledger' = ledger
          \/ \E line \in {Torn, e}, b \in BOOLEAN :
               ledger' = [lines |-> Glue(ledger, line), ended |-> b]
      BY <1>2, <2>1 DEF AppendCutShort, CutShort, Appended, WithLine
    <2>3. CASE ledger' = ledger
      <3>1. Lines' = Lines /\ Entries' = Entries /\ (Readable' <=> Readable)
        BY <2>3 DEF Lines, Entries, Headed, Readable
      <3> QED BY <2>3, <3>1 DEF LedgerShape, Enters
    <2> QED BY <1>2, <2>2, <2>3, GlueEnters
  <1> QED BY <1>1, <1>2

\* What append_ledger does when nothing stops it.
LEMMA AppendedIs ==
  ASSUME LedgerShape, Readable, NEW r \in ReceiptBodies, ledger' = Appended(r)
  PROVE  LedgerShape' /\ Enters(r) /\ EntersWhole(r)
PROOF
  <1>1. ledger' \in AppendCutShort(r)
    BY DEF AppendCutShort
  <1>2. CASE ledger = NoFile BY <1>1, <1>2, CreateEnters
  <1>3. CASE ledger # NoFile
    <2> DEFINE e == Entry(Entries, r)
    <2>1. ledger' = [lines |-> Glue(ledger, e), ended |-> TRUE]
      BY <1>3 DEF Appended, Opened, WithLine
    <2>2. e # Torn
      <3>1. e \in LedgerEntries
        BY EntriesAre, EntryIs
      <3> HIDE DEF e
      <3> QED BY <3>1, SentinelAssumption
    <2> QED BY <1>3, <2>1, <2>2, GlueEnters
  <1> QED BY <1>2, <1>3

-----------------------------------------------------------------------------
(* The inductive invariant.                                                *)

TypesHold ==
  /\ receipts \in [Keys -> ReceiptBodies \cup {NoFile, Torn}]
  /\ ticks \in [Keys -> EventFiles \cup {NoFile, Torn}]
  /\ timings \in [Keys -> EventFiles \cup {NoFile, Torn}]
  /\ LedgerShape
  /\ stage \in {"idle", "receipt", "ticks", "timing", "ledger"}
  /\ jobs \in 0..MaxJobs
  /\ touched \in [Keys -> 0..jobs]
  /\ acked \subseteq 1..jobs

\* Every entry is about a receipt that was signed.
Known ==
  \A i \in 1..Len(Lines) :
    Lines[i] \notin {Torn, Header} => Lines[i].id \in 1..jobs

\* The receipt being written is new to the ledger, which is as it was when the
\* receipt was signed.
InFlight ==
  stage # "idle" =>
    /\ job \in ReceiptBodies /\ job.id = jobs /\ jobs \in Nat \ {0} /\ Genuine(job)
    /\ jobs \notin acked
    /\ Readable /\ job.ledger_prev = HeadOf(Entries)
    /\ \A i \in 1..Len(Lines) : Lines[i] \notin {Torn, Header} => Lines[i].id # jobs
    /\ \A k \in Keys : touched[k] = jobs => k = job.key /\ stage # "receipt"

\* What is on disk of it.
Placed ==
  /\ stage \in {"ticks", "timing", "ledger"} =>
       receipts[job.key] = job /\ touched[job.key] = jobs
  /\ stage \in {"timing", "ledger"} => ticks[job.key] = EventFile(job)
  /\ stage = "ledger" => timings[job.key] = EventFile(job)

Kept ==
  \A k \in Keys :
    receipts[k] \notin {NoFile, Torn} =>
      /\ receipts[k].key = k /\ receipts[k].id = touched[k]
      /\ receipts[k].id \in 1..jobs /\ Genuine(receipts[k])

Chained(chain) ==
  \A i \in 1..Len(chain) :
    /\ chain[i].seq = i - 1
    /\ chain[i].prev = IF i = 1 THEN Genesis ELSE chain[i - 1].hash
    /\ chain[i].hash = EntryHash(chain[i])

Linked == Readable => Chained(Entries)

\* The first entry of r is the one after the entry r binds.
BoundIn(chain, r) ==
  \E i \in 1..Len(chain) :
    /\ chain[i].key = r.key /\ chain[i].id = r.id /\ chain[i].prev = r.ledger_prev
    /\ \A j \in 1..Len(chain) : chain[j].key = r.key /\ chain[j].id = r.id => i <= j

\* A reported episode has its files and its entry.
Bound ==
  \A k \in Keys :
    touched[k] \in acked =>
      /\ receipts[k] \notin {NoFile, Torn}
      /\ ticks[k] = EventFile(receipts[k]) /\ timings[k] = EventFile(receipts[k])
      /\ Readable => BoundIn(Entries, receipts[k])

ArtInv ==
  /\ TypesHold /\ Known /\ InFlight /\ Placed /\ Kept
  /\ FilesBeforeLedger /\ Linked /\ ReportedIsEntered /\ Bound

-----------------------------------------------------------------------------
(* What an append keeps.                                                   *)

LEMMA ChainGrows ==
  ASSUME NEW chain \in Seq(LedgerEntries), NEW r \in ReceiptBodies, Chained(chain)
  PROVE  Chained(Append(chain, Entry(chain, r)))
PROOF
  <1> DEFINE e == Entry(chain, r)
             longer == Append(chain, e)
  <1>1. e \in LedgerEntries /\ e.seq = Len(chain) /\ e.prev = HeadOf(chain)
        /\ e.hash = EntryHash(e)
    BY EntryIs
  <1> HIDE DEF e
  <1>2. /\ Len(longer) = Len(chain) + 1 /\ longer[Len(chain) + 1] = e
        /\ \A i \in 1..Len(chain) : longer[i] = chain[i]
    BY <1>1, AppendProperties
  <1> HIDE DEF longer
  <1>3. HeadOf(chain) = IF Len(chain) + 1 = 1 THEN Genesis ELSE longer[Len(chain)].hash
    BY <1>2 DEF HeadOf
  <1> SUFFICES ASSUME NEW i \in 1..Len(longer)
               PROVE  /\ longer[i].seq = i - 1
                      /\ longer[i].prev = IF i = 1 THEN Genesis ELSE longer[i - 1].hash
                      /\ longer[i].hash = EntryHash(longer[i])
    BY DEF Chained, longer, e
  <1>4. CASE i \in 1..Len(chain)
    BY <1>2, <1>4 DEF Chained
  <1>5. CASE i = Len(chain) + 1
    BY <1>1, <1>2, <1>3, <1>5
  <1> QED BY <1>2, <1>4, <1>5

\* An entry made for r binds it unless r had one; entries made later change
\* nothing.
LEMMA BoundGrows ==
  ASSUME NEW chain \in Seq(LedgerEntries), NEW r \in ReceiptBodies, NEW s \in ReceiptBodies,
         BoundIn(chain, r)
  PROVE  BoundIn(Append(chain, Entry(chain, s)), r)
PROOF
  <1> DEFINE e == Entry(chain, s)
             longer == Append(chain, e)
  <1>1. e \in LedgerEntries
    BY EntryIs
  <1> HIDE DEF e
  <1>2. /\ Len(longer) = Len(chain) + 1
        /\ \A i \in 1..Len(chain) : longer[i] = chain[i]
    BY <1>1, AppendProperties
  <1> HIDE DEF longer
  <1>3. BoundIn(longer, r)
    BY <1>2 DEF BoundIn
  <1> QED BY <1>3 DEF longer, e

LEMMA BindsNow ==
  ASSUME NEW chain \in Seq(LedgerEntries), NEW r \in ReceiptBodies,
         r.ledger_prev = HeadOf(chain),
         \A i \in 1..Len(chain) : chain[i].id # r.id
  PROVE  BoundIn(Append(chain, Entry(chain, r)), r)
PROOF
  <1> DEFINE e == Entry(chain, r)
             longer == Append(chain, e)
  <1>1. e \in LedgerEntries /\ e.key = r.key /\ e.id = r.id /\ e.prev = HeadOf(chain)
    BY EntryIs
  <1> HIDE DEF e
  <1>2. /\ Len(longer) = Len(chain) + 1 /\ longer[Len(chain) + 1] = e
        /\ \A i \in 1..Len(chain) : longer[i] = chain[i]
    BY <1>1, AppendProperties
  <1> HIDE DEF longer
  <1>3. BoundIn(longer, r)
    BY <1>1, <1>2 DEF BoundIn
  <1> QED BY <1>3 DEF longer, e

-----------------------------------------------------------------------------
(* Steps that leave the ledger alone.                                      *)

LEMMA LedgerSame ==
  ASSUME ledger' = ledger
  PROVE  /\ Lines' = Lines /\ Entries' = Entries /\ (Readable' <=> Readable)
         /\ (Headed' <=> Headed)
         /\ LedgerShape => LedgerShape'
PROOF
  <1>1. Lines' = Lines BY DEF Lines
  <1>2. Headed' <=> Headed BY <1>1 DEF Headed
  <1>3. Entries' = Entries BY <1>1, <1>2 DEF Entries
  <1> QED BY <1>1, <1>2, <1>3 DEF Readable, LedgerShape

LEMMA LedgerKept ==
  ASSUME ledger' = ledger, Known, Linked, ReportedIsEntered,
         jobs \in Nat, jobs' \in Nat, jobs' >= jobs, acked' = acked
  PROVE  Known' /\ Linked' /\ ReportedIsEntered'
PROOF
  <1>1. Lines' = Lines /\ Entries' = Entries /\ (Readable' <=> Readable)
    BY LedgerSame
  <1>2. Known'
    <2> SUFFICES ASSUME NEW i \in 1..Len(Lines), Lines[i] \notin {Torn, Header}
                 PROVE  Lines[i].id \in 1..jobs'
      BY <1>1 DEF Known
    <2>1. Lines[i].id \in 1..jobs BY DEF Known
    <2> QED BY <2>1
  <1>3. Linked' BY <1>1 DEF Linked, Chained
  <1>4. ReportedIsEntered' BY <1>1 DEF ReportedIsEntered
  <1> QED BY <1>2, <1>3, <1>4

\* Nothing moves for an episode whose files stay.
LEMMA FilesKept ==
  ASSUME FilesBeforeLedger, UNCHANGED <<receipts, ticks, timings, ledger, touched, handed>>
  PROVE  FilesBeforeLedger'
PROOF
  <1>1. Lines' = Lines BY LedgerSame
  <1> QED BY <1>1 DEF FilesBeforeLedger

LEMMA InitHolds == ArtInit => ArtInv
PROOF
  <1> SUFFICES ASSUME ArtInit PROVE ArtInv
    OBVIOUS
  <1> USE DEF ArtInit
  <1>1. Lines = <<>> /\ Entries = <<>>
    BY DEF Lines, Entries, Headed
  <1>2. TypesHold
    BY <1>1, ArtefactsAssumption DEF TypesHold, LedgerShape
  <1>3. Kept /\ Bound
    BY DEF Kept, Bound
  <1> QED BY <1>1, <1>2, <1>3 DEF ArtInv, Known, InFlight, Placed, FilesBeforeLedger, Linked,
            Chained, ReportedIsEntered

LEMMA StutterKeeps == ArtInv /\ UNCHANGED artVars => ArtInv'
PROOF
  <1> SUFFICES ASSUME ArtInv, UNCHANGED artVars PROVE ArtInv'
    OBVIOUS
  <1> USE DEF ArtInv, artVars, files
  <1>1. Lines' = Lines /\ Entries' = Entries /\ (Readable' <=> Readable) /\ LedgerShape'
    BY LedgerSame DEF TypesHold
  <1>2. TypesHold' BY <1>1 DEF TypesHold
  <1>3. Known' /\ Linked' /\ ReportedIsEntered'
    BY <1>1 DEF Known, Linked, Chained, ReportedIsEntered
  <1>4. InFlight' BY <1>1 DEF InFlight, Genuine
  <1>5. Placed' BY DEF Placed, EventFile
  <1>6. Kept' BY DEF Kept, Genuine
  <1>7. FilesBeforeLedger' BY FilesKept
  <1>8. Bound' BY <1>1 DEF Bound, BoundIn
  <1> QED BY <1>2, <1>3, <1>4, <1>5, <1>6, <1>7, <1>8

LEMMA SignKeeps ==
  ASSUME ArtInv, NEW key \in Keys, NEW n \in Lengths, NEW policy \in Policies,
         Sign(key, n, policy)
  PROVE  ArtInv'
PROOF
  <1> USE DEF ArtInv
  <1>1. /\ stage = "idle" /\ jobs < MaxJobs /\ Readable
        /\ jobs' = jobs + 1 /\ stage' = "receipt"
        /\ job' = Signed(jobs + 1, key, n, policy)
        /\ UNCHANGED <<receipts, ticks, timings, ledger, touched, acked, handed>>
    BY DEF Sign, files
  <1>2. jobs \in Nat /\ jobs + 1 \in Nat /\ jobs' \in 1..MaxJobs /\ MaxJobs \in Nat
    BY <1>1, ArtefactsAssumption DEF TypesHold
  <1>3. Lines' = Lines /\ Entries' = Entries /\ (Readable' <=> Readable) /\ LedgerShape'
    BY <1>1, LedgerSame DEF TypesHold
  <1>4. Entries \in Seq(LedgerEntries)
    BY <1>1, EntriesAre DEF TypesHold
  <1>5. HeadOf(Entries) \in EntryHashes
    <2>1. CASE Entries = <<>> BY <2>1, GenesisIs DEF HeadOf
    <2>2. CASE Entries # <<>>
      <3>1. Entries[Len(Entries)] \in LedgerEntries BY <1>4, <2>2
      <3> QED BY <3>1, <1>4, <2>2, HeadIs DEF LedgerEntries
    <2> QED BY <2>1, <2>2
  <1>6. /\ job' \in ReceiptBodies /\ job'.id = jobs' /\ Genuine(job')
        /\ job'.ledger_prev = HeadOf(Entries)
    <2>1. n \in Nat /\ policy \in {"all", "tail32", "none"}
      BY ArtefactsAssumption
    <2> QED BY <1>1, <1>2, <1>5, <2>1, SignedIs
  <1>7. TypesHold'
    BY <1>1, <1>2, <1>3 DEF TypesHold
  <1>8. Known' /\ Linked' /\ ReportedIsEntered'
    BY <1>1, <1>2, LedgerKept
  <1>9. InFlight'
    <2>1. jobs' \notin acked'
      BY <1>1, <1>2 DEF TypesHold
    <2>2. \A i \in 1..Len(Lines') : Lines'[i] \notin {Torn, Header} => Lines'[i].id # jobs'
      BY <1>1, <1>2, <1>3 DEF Known
    <2>3. \A k \in Keys : touched'[k] # jobs'
      BY <1>1, <1>2 DEF TypesHold
    <2>4. Readable' /\ job'.ledger_prev = HeadOf(Entries')
      BY <1>1, <1>3, <1>6
    <2> QED BY <1>2, <1>6, <2>1, <2>2, <2>3, <2>4 DEF InFlight, Genuine
  <1>10. Placed'
    BY <1>1 DEF Placed
  <1>11. Kept'
    BY <1>1, <1>2 DEF Kept, Genuine
  <1>12. FilesBeforeLedger'
    BY <1>1, FilesKept
  <1>13. Bound'
    BY <1>1, <1>3 DEF Bound, BoundIn
  <1> QED BY <1>7, <1>8, <1>9, <1>10, <1>11, <1>12, <1>13

\* A receipt is not one of the things a file can be instead.
LEMMA BodyIsWhole ==
  ASSUME NEW r \in ReceiptBodies PROVE r \notin {NoFile, Torn}
PROOF BY SentinelAssumption

\* The files of one episode may change while the last receipt begun for it is
\* neither reported nor entered.
LEMMA Elsewhere ==
  ASSUME ArtInv, NEW k0 \in Keys, UNCHANGED <<ledger, acked, handed>>,
         touched'[k0] \notin acked,
         \A i \in 1..Len(Lines) : Lines[i] \notin {Torn, Header} => Lines[i].id # touched'[k0],
         \A k \in Keys \ {k0} :
           /\ receipts'[k] = receipts[k] /\ ticks'[k] = ticks[k]
           /\ timings'[k] = timings[k] /\ touched'[k] = touched[k]
  PROVE  FilesBeforeLedger' /\ Bound'
PROOF
  <1> USE DEF ArtInv
  <1>1. Lines' = Lines /\ Entries' = Entries /\ (Readable' <=> Readable)
    BY LedgerSame
  <1>2. FilesBeforeLedger'
    <2> SUFFICES ASSUME NEW i \in 1..Len(Lines), Lines[i] \notin {Torn, Header},
                        touched'[Lines[i].key] = Lines[i].id
                 PROVE  LET k == Lines[i].key IN
                        /\ receipts'[k] \notin {NoFile, Torn} /\ receipts'[k].id = Lines[i].id
                        /\ \/ Lines[i].id \in handed
                           \/ ticks'[k] = EventFile(receipts'[k])
                              /\ timings'[k] = EventFile(receipts'[k])
      BY <1>1 DEF FilesBeforeLedger, EventFile
    <2>1. Lines[i].key # k0
      OBVIOUS
    <2>2. Lines[i].key \in Keys
      <3>1. Lines[i] \in LedgerEntries
        BY LinesAre DEF TypesHold, LineSet
      <3> QED BY <3>1 DEF LedgerEntries
    <2> QED BY <2>1, <2>2 DEF FilesBeforeLedger
  <1>3. Bound'
    <2> SUFFICES ASSUME NEW k \in Keys, touched'[k] \in acked
                 PROVE  /\ receipts'[k] \notin {NoFile, Torn}
                        /\ ticks'[k] = EventFile(receipts'[k])
                        /\ timings'[k] = EventFile(receipts'[k])
                        /\ Readable => BoundIn(Entries, receipts'[k])
      BY <1>1 DEF Bound, BoundIn, EventFile
    <2>1. k # k0
      OBVIOUS
    <2> QED BY <2>1 DEF Bound
  <1> QED BY <1>2, <1>3

LEMMA WriteReceiptKeeps ==
  ASSUME ArtInv, WriteReceipt
  PROVE  ArtInv'
PROOF
  <1> USE DEF ArtInv
  <1> DEFINE k0 == job.key
  <1>1. /\ stage = "receipt" /\ stage' = "ticks"
        /\ receipts' = [receipts EXCEPT ![k0] = job]
        /\ touched' = [touched EXCEPT ![k0] = job.id]
        /\ UNCHANGED <<ticks, timings, ledger, job, jobs, acked, handed>>
    BY DEF WriteReceipt
  <1>2. /\ job \in ReceiptBodies /\ job.id = jobs /\ jobs \in Nat \ {0} /\ Genuine(job)
        /\ jobs \notin acked /\ Readable /\ job.ledger_prev = HeadOf(Entries)
        /\ \A i \in 1..Len(Lines) : Lines[i] \notin {Torn, Header} => Lines[i].id # jobs
        /\ \A k \in Keys : touched[k] # jobs
    BY <1>1 DEF InFlight
  <1>3. Lines' = Lines /\ Entries' = Entries /\ (Readable' <=> Readable) /\ LedgerShape'
    BY <1>1, LedgerSame DEF TypesHold
  <1>4. k0 \in Keys /\ jobs \in 0..MaxJobs /\ jobs \in 1..jobs
    BY <1>2 DEF ReceiptBodies, TypesHold
  <1> HIDE DEF k0
  <1>5. /\ receipts'[k0] = job /\ touched'[k0] = jobs
        /\ \A k \in Keys : k # k0 => receipts'[k] = receipts[k] /\ touched'[k] = touched[k]
    BY <1>1, <1>2, <1>4 DEF TypesHold
  <1>6. TypesHold'
    BY <1>1, <1>2, <1>3, <1>4 DEF TypesHold
  <1>7. Known' /\ Linked' /\ ReportedIsEntered'
    BY <1>1, <1>4, LedgerKept
  <1>8. InFlight'
    BY <1>1, <1>2, <1>3, <1>5 DEF InFlight, Genuine, k0
  <1>9. Placed'
    BY <1>1, <1>5 DEF Placed, k0
  <1>10. Kept'
    <2> SUFFICES ASSUME NEW k \in Keys, receipts'[k] \notin {NoFile, Torn}
                 PROVE  /\ receipts'[k].key = k /\ receipts'[k].id = touched'[k]
                        /\ receipts'[k].id \in 1..jobs /\ Genuine(receipts'[k])
      BY <1>1 DEF Kept, Genuine
    <2>1. CASE k = k0 BY <1>2, <1>4, <1>5, <2>1 DEF k0
    <2>2. CASE k # k0 BY <1>5, <2>2 DEF Kept
    <2> QED BY <2>1, <2>2
  <1>11. FilesBeforeLedger' /\ Bound'
    BY <1>1, <1>2, <1>4, <1>5, Elsewhere
  <1> QED BY <1>6, <1>7, <1>8, <1>9, <1>10, <1>11

\* What is written next for the receipt in flight.
LEMMA WriteTicksKeeps ==
  ASSUME ArtInv, WriteTicks
  PROVE  ArtInv'
PROOF
  <1> USE DEF ArtInv
  <1> DEFINE k0 == job.key
  <1>1. /\ stage = "ticks" /\ stage' = "timing"
        /\ ticks' = [ticks EXCEPT ![k0] = EventFile(job)]
        /\ UNCHANGED <<receipts, timings, ledger, job, jobs, touched, acked, handed>>
    BY DEF WriteTicks
  <1>2. /\ job \in ReceiptBodies /\ job.id = jobs /\ jobs \in Nat \ {0} /\ Genuine(job)
        /\ jobs \notin acked /\ Readable /\ job.ledger_prev = HeadOf(Entries)
        /\ \A i \in 1..Len(Lines) : Lines[i] \notin {Torn, Header} => Lines[i].id # jobs
        /\ \A k \in Keys : touched[k] = jobs => k = k0
    BY <1>1 DEF InFlight
  <1>3. receipts[k0] = job /\ touched[k0] = jobs
    BY <1>1 DEF Placed
  <1>4. k0 \in Keys /\ EventFile(job) \in EventFiles
    BY <1>2, EventFileIs DEF ReceiptBodies
  <1>5. Lines' = Lines /\ Entries' = Entries /\ (Readable' <=> Readable) /\ LedgerShape'
    BY <1>1, LedgerSame DEF TypesHold
  <1> HIDE DEF k0
  <1>6. TypesHold'
    BY <1>1, <1>4, <1>5 DEF TypesHold
  <1>7. Known' /\ Linked' /\ ReportedIsEntered'
    BY <1>1, <1>2, LedgerKept
  <1>8. InFlight'
    BY <1>1, <1>2, <1>5 DEF InFlight, Genuine, k0
  <1>9. Placed'
    <2>1. ticks'[k0] = EventFile(job)
      BY <1>1, <1>4 DEF TypesHold
    <2> QED BY <1>1, <1>3, <2>1 DEF Placed, EventFile, k0
  <1>10. Kept'
    BY <1>1 DEF Kept, Genuine
  <1>11. FilesBeforeLedger' /\ Bound'
    BY <1>1, <1>2, <1>3, <1>4, Elsewhere DEF TypesHold
  <1> QED BY <1>6, <1>7, <1>8, <1>9, <1>10, <1>11

LEMMA WriteTimingKeeps ==
  ASSUME ArtInv, WriteTiming
  PROVE  ArtInv'
PROOF
  <1> USE DEF ArtInv
  <1> DEFINE k0 == job.key
  <1>1. /\ stage = "timing" /\ stage' = "ledger"
        /\ timings' = [timings EXCEPT ![k0] = EventFile(job)]
        /\ UNCHANGED <<receipts, ticks, ledger, job, jobs, touched, acked, handed>>
    BY DEF WriteTiming
  <1>2. /\ job \in ReceiptBodies /\ job.id = jobs /\ jobs \in Nat \ {0} /\ Genuine(job)
        /\ jobs \notin acked /\ Readable /\ job.ledger_prev = HeadOf(Entries)
        /\ \A i \in 1..Len(Lines) : Lines[i] \notin {Torn, Header} => Lines[i].id # jobs
        /\ \A k \in Keys : touched[k] = jobs => k = k0
    BY <1>1 DEF InFlight
  <1>3. receipts[k0] = job /\ touched[k0] = jobs /\ ticks[k0] = EventFile(job)
    BY <1>1 DEF Placed
  <1>4. k0 \in Keys /\ EventFile(job) \in EventFiles
    BY <1>2, EventFileIs DEF ReceiptBodies
  <1>5. Lines' = Lines /\ Entries' = Entries /\ (Readable' <=> Readable) /\ LedgerShape'
    BY <1>1, LedgerSame DEF TypesHold
  <1> HIDE DEF k0
  <1>6. TypesHold'
    BY <1>1, <1>4, <1>5 DEF TypesHold
  <1>7. Known' /\ Linked' /\ ReportedIsEntered'
    BY <1>1, <1>2, LedgerKept
  <1>8. InFlight'
    BY <1>1, <1>2, <1>5 DEF InFlight, Genuine, k0
  <1>9. Placed'
    <2>1. timings'[k0] = EventFile(job)
      BY <1>1, <1>4 DEF TypesHold
    <2> QED BY <1>1, <1>3, <2>1 DEF Placed, EventFile, k0
  <1>10. Kept'
    BY <1>1 DEF Kept, Genuine
  <1>11. FilesBeforeLedger' /\ Bound'
    BY <1>1, <1>2, <1>3, <1>4, Elsewhere DEF TypesHold
  <1> QED BY <1>6, <1>7, <1>8, <1>9, <1>10, <1>11

LEMMA CutReceiptKeeps ==
  ASSUME ArtInv, CutReceipt
  PROVE  ArtInv'
PROOF
  <1> USE DEF ArtInv
  <1> DEFINE k0 == job.key
  <1>1. PICK left \in {receipts[k0], Torn} :
          /\ receipts' = [receipts EXCEPT ![k0] = left]
          /\ touched' = [touched EXCEPT ![k0] = IF left = receipts[k0] THEN @ ELSE job.id]
    BY DEF CutReceipt, LeftOver
  <1>2. /\ stage = "receipt" /\ stage' = "idle"
        /\ UNCHANGED <<ticks, timings, ledger, jobs, acked, handed>>
    BY DEF CutReceipt, Idle
  <1>3. /\ job \in ReceiptBodies /\ job.id = jobs /\ jobs \in Nat \ {0}
        /\ jobs \notin acked
        /\ \A i \in 1..Len(Lines) : Lines[i] \notin {Torn, Header} => Lines[i].id # jobs
    BY <1>2 DEF InFlight
  <1>4. k0 \in Keys /\ jobs \in 0..MaxJobs /\ jobs \in 0..jobs
    BY <1>3 DEF ReceiptBodies, TypesHold
  <1>5. Lines' = Lines /\ Entries' = Entries /\ (Readable' <=> Readable) /\ LedgerShape'
    BY <1>2, LedgerSame DEF TypesHold
  <1> HIDE DEF k0
  <1>6. TypesHold'
    BY <1>1, <1>2, <1>3, <1>4, <1>5 DEF TypesHold
  <1>7. Known' /\ Linked' /\ ReportedIsEntered'
    BY <1>2, <1>3, LedgerKept
  <1>8. InFlight' /\ Placed'
    BY <1>2 DEF InFlight, Placed
  <1>9. CASE left = receipts[k0]
    <2>1. receipts' = receipts /\ touched' = touched
      BY <1>1, <1>4, <1>9 DEF TypesHold
    <2>2. Kept'
      BY <1>2, <2>1 DEF Kept, Genuine
    <2>3. FilesBeforeLedger'
      BY <1>2, <2>1, FilesKept
    <2>4. Bound'
      BY <1>2, <1>5, <2>1 DEF Bound, BoundIn
    <2> QED BY <1>6, <1>7, <1>8, <2>2, <2>3, <2>4
  <1>10. CASE left # receipts[k0]
    <2>1. /\ receipts'[k0] = Torn /\ touched'[k0] = jobs
          /\ \A k \in Keys : k # k0 => receipts'[k] = receipts[k] /\ touched'[k] = touched[k]
      BY <1>1, <1>3, <1>4, <1>10 DEF TypesHold
    <2>2. Kept'
      <3> SUFFICES ASSUME NEW k \in Keys, receipts'[k] \notin {NoFile, Torn}
                   PROVE  /\ receipts'[k].key = k /\ receipts'[k].id = touched'[k]
                          /\ receipts'[k].id \in 1..jobs /\ Genuine(receipts'[k])
        BY <1>2 DEF Kept, Genuine
      <3> QED BY <2>1 DEF Kept
    <2>3. FilesBeforeLedger' /\ Bound'
      BY <1>2, <1>3, <1>4, <2>1, Elsewhere
    <2> QED BY <1>6, <1>7, <1>8, <2>2, <2>3
  <1> QED BY <1>9, <1>10

LEMMA CutTicksKeeps ==
  ASSUME ArtInv, CutTicks
  PROVE  ArtInv'
PROOF
  <1> USE DEF ArtInv
  <1> DEFINE k0 == job.key
  <1>1. /\ stage = "ticks" /\ stage' = "idle"
        /\ UNCHANGED <<receipts, timings, ledger, jobs, touched, acked, handed>>
    BY DEF CutTicks, Idle
  <1>2. /\ job \in ReceiptBodies /\ jobs \in Nat /\ jobs \notin acked
        /\ \A i \in 1..Len(Lines) : Lines[i] \notin {Torn, Header} => Lines[i].id # jobs
    BY <1>1 DEF InFlight
  <1>3. touched[k0] = jobs
    BY <1>1 DEF Placed
  <1>4. k0 \in Keys /\ CutBetween(EventFile(job)) \subseteq EventFiles
    BY <1>2, EventFileIs DEF ReceiptBodies
  <1>5. PICK left \in {ticks[k0], Torn} \cup CutBetween(EventFile(job)) :
          ticks' = [ticks EXCEPT ![k0] = left]
    BY DEF CutTicks, LeftOver
  <1>6. Lines' = Lines /\ Entries' = Entries /\ (Readable' <=> Readable) /\ LedgerShape'
    BY <1>1, LedgerSame DEF TypesHold
  <1> HIDE DEF k0
  <1>7. TypesHold'
    BY <1>1, <1>4, <1>5, <1>6 DEF TypesHold
  <1>8. Known' /\ Linked' /\ ReportedIsEntered'
    BY <1>1, <1>2, LedgerKept
  <1>9. InFlight' /\ Placed' /\ Kept'
    BY <1>1 DEF InFlight, Placed, Kept, Genuine
  <1>10. FilesBeforeLedger' /\ Bound'
    BY <1>1, <1>2, <1>3, <1>4, <1>5, Elsewhere DEF TypesHold
  <1> QED BY <1>7, <1>8, <1>9, <1>10

LEMMA CutTimingKeeps ==
  ASSUME ArtInv, CutTiming
  PROVE  ArtInv'
PROOF
  <1> USE DEF ArtInv
  <1> DEFINE k0 == job.key
  <1>1. /\ stage = "timing" /\ stage' = "idle"
        /\ UNCHANGED <<receipts, ticks, ledger, jobs, touched, acked, handed>>
    BY DEF CutTiming, Idle
  <1>2. /\ job \in ReceiptBodies /\ jobs \in Nat /\ jobs \notin acked
        /\ \A i \in 1..Len(Lines) : Lines[i] \notin {Torn, Header} => Lines[i].id # jobs
    BY <1>1 DEF InFlight
  <1>3. touched[k0] = jobs
    BY <1>1 DEF Placed
  <1>4. k0 \in Keys /\ CutBetween(EventFile(job)) \subseteq EventFiles
    BY <1>2, EventFileIs DEF ReceiptBodies
  <1>5. PICK left \in {timings[k0], Torn} \cup CutBetween(EventFile(job)) :
          timings' = [timings EXCEPT ![k0] = left]
    BY DEF CutTiming, LeftOver
  <1>6. Lines' = Lines /\ Entries' = Entries /\ (Readable' <=> Readable) /\ LedgerShape'
    BY <1>1, LedgerSame DEF TypesHold
  <1> HIDE DEF k0
  <1>7. TypesHold'
    BY <1>1, <1>4, <1>5, <1>6 DEF TypesHold
  <1>8. Known' /\ Linked' /\ ReportedIsEntered'
    BY <1>1, <1>2, LedgerKept
  <1>9. InFlight' /\ Placed' /\ Kept'
    BY <1>1 DEF InFlight, Placed, Kept, Genuine
  <1>10. FilesBeforeLedger' /\ Bound'
    BY <1>1, <1>2, <1>3, <1>4, <1>5, Elsewhere DEF TypesHold
  <1> QED BY <1>7, <1>8, <1>9, <1>10

-----------------------------------------------------------------------------
(* Steps that write to the ledger.                                         *)

LEMMA EntersKeeps ==
  ASSUME ArtInv, Readable, NEW r \in ReceiptBodies, r.id \in 1..jobs,
         LedgerShape', Enters(r),
         UNCHANGED <<receipts, ticks, timings, jobs, touched>>,
         handed \subseteq handed',
         touched[r.key] = r.id =>
           /\ receipts[r.key] \notin {NoFile, Torn} /\ receipts[r.key].id = r.id
           /\ \/ r.id \in handed'
              \/ /\ ticks[r.key] = EventFile(receipts[r.key])
                 /\ timings[r.key] = EventFile(receipts[r.key])
  PROVE  /\ Known' /\ Linked' /\ Kept' /\ FilesBeforeLedger'
         /\ acked' = acked => ReportedIsEntered' /\ Bound'
PROOF
  <1> USE DEF ArtInv
  <1> DEFINE e == Entry(Entries, r)
  <1>1. Entries \in Seq(LedgerEntries)
    BY EntriesAre DEF TypesHold
  <1>2. e \in LedgerEntries /\ e.key = r.key /\ e.id = r.id
    BY <1>1, EntryIs
  <1>3. e \notin {Torn, Header}
    <2> HIDE DEF e
    <2> QED BY <1>2, SentinelAssumption
  <1>4. \A i \in 1..Len(Lines') :
          Lines'[i] \in {Torn, Header, e} \/ \E j \in 1..Len(Lines) : Lines'[i] = Lines[j]
    BY DEF Enters
  <1>5. \/ Readable' /\ Entries' = Entries
        \/ Readable' /\ Entries' = Append(Entries, e)
        \/ ~Readable'
    BY DEF Enters
  <1>6. Known'
    <2> HIDE DEF e
    <2> QED BY <1>2, <1>3, <1>4 DEF Known
  <1>7. Linked'
    <2>1. Chained(Entries)
      BY DEF Linked
    <2>2. Chained(Append(Entries, e))
      BY <1>1, <2>1, ChainGrows
    <2> HIDE DEF e
    <2>3. CASE Readable' /\ Entries' = Entries
      BY <2>1, <2>3 DEF Linked, Chained
    <2>4. CASE Readable' /\ Entries' = Append(Entries, e)
      BY <2>2, <2>4 DEF Linked, Chained
    <2> QED BY <1>5, <2>3, <2>4 DEF Linked
  <1>8. Kept'
    BY DEF Kept, Genuine
  <1>9. FilesBeforeLedger'
    <2> HIDE DEF e
    <2> SUFFICES ASSUME NEW i \in 1..Len(Lines'), Lines'[i] \notin {Torn, Header},
                        touched[Lines'[i].key] = Lines'[i].id
                 PROVE  LET k == Lines'[i].key IN
                        /\ receipts[k] \notin {NoFile, Torn} /\ receipts[k].id = Lines'[i].id
                        /\ \/ Lines'[i].id \in handed'
                           \/ ticks[k] = EventFile(receipts[k])
                              /\ timings[k] = EventFile(receipts[k])
      BY DEF FilesBeforeLedger, EventFile
    <2>1. CASE Lines'[i] = e BY <1>2, <2>1
    <2>2. CASE \E j \in 1..Len(Lines) : Lines'[i] = Lines[j]
      BY <2>2 DEF FilesBeforeLedger
    <2> QED BY <1>4, <2>1, <2>2
  <1>10. ASSUME acked' = acked PROVE ReportedIsEntered'
    <2> HIDE DEF e
    <2> SUFFICES ASSUME Readable', NEW a \in acked
                 PROVE  \E i \in 1..Len(Entries') : Entries'[i].id = a
      BY <1>10 DEF ReportedIsEntered
    <2>1. PICK i \in 1..Len(Entries) : Entries[i].id = a
      BY DEF ReportedIsEntered
    <2>2. CASE Entries' = Entries BY <2>1, <2>2
    <2>3. CASE Entries' = Append(Entries, e)
      <3>1. i \in 1..Len(Entries') /\ Entries'[i] = Entries[i]
        BY <1>1, <1>2, <2>3, AppendProperties
      <3> QED BY <2>1, <3>1
    <2> QED BY <1>5, <2>2, <2>3
  <1>11. ASSUME acked' = acked PROVE Bound'
    <2> SUFFICES ASSUME NEW k \in Keys, touched[k] \in acked, Readable'
                 PROVE  BoundIn(Entries', receipts[k])
      BY <1>11 DEF Bound, BoundIn, EventFile
    <2>1. BoundIn(Entries, receipts[k]) /\ receipts[k] \in ReceiptBodies
      BY DEF Bound, TypesHold
    <2>2. BoundIn(Append(Entries, e), receipts[k])
      BY <1>1, <2>1, BoundGrows
    <2> HIDE DEF e
    <2>3. CASE Entries' = Entries BY <2>1, <2>3 DEF BoundIn
    <2>4. CASE Entries' = Append(Entries, e) BY <2>2, <2>4 DEF BoundIn
    <2> QED BY <1>5, <2>3, <2>4
  <1> QED BY <1>6, <1>7, <1>8, <1>9, <1>10, <1>11

LEMMA AppendLedgerKeeps ==
  ASSUME ArtInv, AppendLedger
  PROVE  ArtInv'
PROOF
  <1> USE DEF ArtInv
  <1>1. /\ stage = "ledger" /\ stage' = "idle" /\ Readable
        /\ ledger' = Appended(job) /\ acked' = acked \cup {jobs}
        /\ UNCHANGED <<receipts, ticks, timings, jobs, touched, handed>>
    BY DEF AppendLedger, Idle, files, InFlight
  <1>2. /\ job \in ReceiptBodies /\ job.id = jobs /\ jobs \in Nat \ {0} /\ jobs \notin acked
        /\ job.ledger_prev = HeadOf(Entries) /\ job.id \in 1..jobs
        /\ \A i \in 1..Len(Lines) : Lines[i] \notin {Torn, Header} => Lines[i].id # jobs
        /\ \A k \in Keys : touched[k] = jobs => k = job.key
    BY <1>1 DEF InFlight
  <1>3. /\ receipts[job.key] = job /\ touched[job.key] = jobs
        /\ ticks[job.key] = EventFile(job) /\ timings[job.key] = EventFile(job)
    BY <1>1 DEF Placed
  <1>4. LedgerShape' /\ Enters(job) /\ EntersWhole(job)
    BY <1>1, <1>2, AppendedIs DEF TypesHold
  <1>5. job \notin {NoFile, Torn}
    BY <1>2, BodyIsWhole
  <1>6. Known' /\ Linked' /\ Kept' /\ FilesBeforeLedger'
    BY <1>1, <1>2, <1>3, <1>4, <1>5, EntersKeeps
  <1>7. TypesHold'
    BY <1>1, <1>2, <1>4 DEF TypesHold
  <1>8. InFlight' /\ Placed'
    BY <1>1 DEF InFlight, Placed
  <1>9. Entries \in Seq(LedgerEntries)
    BY <1>1, EntriesAre DEF TypesHold
  <1> DEFINE e == Entry(Entries, job)
  <1>10. e \in LedgerEntries /\ e.id = jobs
    BY <1>2, <1>9, EntryIs
  <1>11. Readable' => Entries' = Append(Entries, e)
    BY <1>4 DEF EntersWhole
  <1>12. \A i \in 1..Len(Entries) : Entries[i].id # jobs
    <2> SUFFICES ASSUME NEW i \in 1..Len(Entries) PROVE Entries[i].id # jobs
      OBVIOUS
    <2> DEFINE n == IF Headed THEN i + 1 ELSE i
    <2>1. n \in 1..Len(Lines) /\ Entries[i] = Lines[n]
      BY <1>1, <1>9, EntriesAre DEF TypesHold
    <2>2. Entries[i] \in LedgerEntries
      BY <1>9
    <2>3. Lines[n] \notin {Torn, Header}
      BY <2>1, <2>2, SentinelAssumption
    <2> HIDE DEF n
    <2> QED BY <1>2, <2>1, <2>3
  <1>13. ReportedIsEntered'
    <2> HIDE DEF e
    <2> SUFFICES ASSUME Readable', NEW a \in acked \cup {jobs}
                 PROVE  \E i \in 1..Len(Entries') : Entries'[i].id = a
      BY <1>1 DEF ReportedIsEntered
    <2>1. /\ Len(Entries') = Len(Entries) + 1 /\ Entries'[Len(Entries) + 1] = e
          /\ \A i \in 1..Len(Entries) : Entries'[i] = Entries[i]
      BY <1>9, <1>10, <1>11, AppendProperties
    <2>2. CASE a \in acked
      <3>1. PICK i \in 1..Len(Entries) : Entries[i].id = a
        BY <1>1, <2>2 DEF ReportedIsEntered
      <3> QED BY <1>9, <2>1, <3>1
    <2>3. CASE a = jobs
      <3>1. Len(Entries) + 1 \in 1..Len(Entries') BY <1>9, <2>1
      <3> QED BY <1>10, <2>1, <2>3, <3>1
    <2> QED BY <2>2, <2>3
  <1>14. Bound'
    <2> SUFFICES ASSUME NEW k \in Keys, touched[k] \in acked \cup {jobs}
                 PROVE  /\ receipts[k] \notin {NoFile, Torn}
                        /\ ticks[k] = EventFile(receipts[k])
                        /\ timings[k] = EventFile(receipts[k])
                        /\ Readable' => BoundIn(Entries', receipts[k])
      BY <1>1 DEF Bound, BoundIn, EventFile
    <2>1. CASE touched[k] = jobs
      <3>1. k = job.key
        BY <1>2, <2>1
      <3>2. BoundIn(Append(Entries, e), job)
        BY <1>2, <1>9, <1>12, BindsNow
      <3> HIDE DEF e
      <3>3. Readable' => BoundIn(Entries', job)
        BY <1>11, <3>2 DEF BoundIn
      <3> QED BY <1>3, <1>5, <3>1, <3>3
    <2>2. CASE touched[k] \in acked
      <3>1. BoundIn(Entries, receipts[k]) /\ receipts[k] \in ReceiptBodies
            /\ receipts[k] \notin {NoFile, Torn}
            /\ ticks[k] = EventFile(receipts[k]) /\ timings[k] = EventFile(receipts[k])
        BY <1>1, <2>2 DEF Bound, TypesHold
      <3>2. BoundIn(Append(Entries, e), receipts[k])
        BY <1>2, <1>9, <3>1, BoundGrows
      <3> HIDE DEF e
      <3>3. Readable' => BoundIn(Entries', receipts[k])
        BY <1>11, <3>2 DEF BoundIn
      <3> QED BY <3>1, <3>3
    <2> QED BY <2>1, <2>2
  <1> QED BY <1>6, <1>7, <1>8, <1>13, <1>14

LEMMA CutLedgerKeeps ==
  ASSUME ArtInv, CutLedger
  PROVE  ArtInv'
PROOF
  <1> USE DEF ArtInv
  <1>1. /\ stage = "ledger" /\ stage' = "idle" /\ ledger' \in AppendCutShort(job)
        /\ UNCHANGED <<receipts, ticks, timings, jobs, touched, acked, handed>>
    BY DEF CutLedger, Idle, files
  <1>2. /\ job \in ReceiptBodies /\ job.id = jobs /\ jobs \in Nat \ {0} /\ Readable
        /\ job.id \in 1..jobs
    BY <1>1 DEF InFlight
  <1>3. /\ receipts[job.key] = job /\ touched[job.key] = jobs
        /\ ticks[job.key] = EventFile(job) /\ timings[job.key] = EventFile(job)
        /\ job \notin {NoFile, Torn}
    BY <1>1, <1>2, BodyIsWhole DEF Placed
  <1>4. LedgerShape' /\ Enters(job)
    BY <1>1, <1>2, AppendEnters DEF TypesHold
  <1>5. Known' /\ Linked' /\ Kept' /\ FilesBeforeLedger' /\ ReportedIsEntered' /\ Bound'
    BY <1>1, <1>2, <1>3, <1>4, EntersKeeps
  <1>6. TypesHold'
    BY <1>1, <1>4 DEF TypesHold
  <1>7. InFlight' /\ Placed'
    BY <1>1 DEF InFlight, Placed
  <1> QED BY <1>5, <1>6, <1>7

LEMMA EnterByHandKeeps ==
  ASSUME ArtInv, NEW key \in Keys, EnterByHand(key)
  PROVE  ArtInv'
PROOF
  <1> USE DEF ArtInv
  <1> DEFINE r == receipts[key]
  <1>1. /\ stage = "idle" /\ stage' = stage /\ Readable /\ r \notin {NoFile, Torn}
        /\ ledger' \in AppendCutShort(r) /\ handed' = handed \cup {r.id}
        /\ UNCHANGED <<receipts, ticks, timings, jobs, touched, acked>>
    BY DEF EnterByHand, files
  <1>2. r \in ReceiptBodies /\ r.key = key /\ r.id \in 1..jobs
    BY <1>1 DEF TypesHold, Kept
  <1>3. LedgerShape' /\ Enters(r)
    BY <1>1, <1>2, AppendEnters DEF TypesHold
  <1>4. Known' /\ Linked' /\ Kept' /\ FilesBeforeLedger' /\ ReportedIsEntered' /\ Bound'
    BY <1>1, <1>2, <1>3, EntersKeeps
  <1>5. TypesHold'
    BY <1>1, <1>3 DEF TypesHold
  <1>6. InFlight' /\ Placed'
    BY <1>1 DEF InFlight, Placed
  <1> QED BY <1>4, <1>5, <1>6

LEMMA StepKeeps == ArtInv /\ [ArtNext]_artVars => ArtInv'
PROOF BY SignKeeps, WriteReceiptKeeps, WriteTicksKeeps, WriteTimingKeeps, AppendLedgerKeeps,
         CutReceiptKeeps, CutTicksKeeps, CutTimingKeeps, CutLedgerKeeps, EnterByHandKeeps,
         StutterKeeps DEF ArtNext

\* The inductive invariant: what is on disk of the receipt in flight, what every
\* entry of the ledger is about, and where the entry of a reported one stands.
THEOREM ArtInvHolds == ArtSpec => []ArtInv
PROOF BY InitHolds, StepKeeps, PTL DEF ArtSpec

-----------------------------------------------------------------------------
(* Where a chain is broken.                                                *)

BrokenAt(chain, i) ==
  \/ chain[i].seq # i - 1
  \/ chain[i].prev # IF i = 1 THEN Genesis ELSE chain[i - 1].hash
  \/ chain[i].hash # EntryHash(chain[i])

LEMMA NoBreak ==
  ASSUME NEW chain, Len(chain) \in Nat, Chained(chain)
  PROVE  BreakAt(chain) = -1
PROOF
  <1> DEFINE bad == BadLinks(chain, 0, Genesis, [i \in 1..Len(chain) |-> EntryHash(chain[i])])
  <1>1. bad = {}
    BY DEF BadLinks, Chained
  <1> QED BY <1>1 DEF BreakAt

LEMMA BreakIs ==
  ASSUME NEW chain, Len(chain) \in Nat, NEW i \in 1..Len(chain), BrokenAt(chain, i),
         \A j \in 1..Len(chain) : j < i => ~BrokenAt(chain, j)
  PROVE  BreakAt(chain) = i - 1
PROOF
  <1> DEFINE bad == BadLinks(chain, 0, Genesis, [j \in 1..Len(chain) |-> EntryHash(chain[j])])
             first(m) == m \in bad /\ \A j \in bad : m <= j
  <1>1. bad = {j \in 1..Len(chain) : BrokenAt(chain, j)}
    BY DEF BadLinks, BrokenAt
  <1>2. BreakAt(chain) = IF bad = {} THEN -1 ELSE (CHOOSE m \in bad : \A j \in bad : m <= j) - 1
    BY DEF BreakAt
  <1> HIDE DEF bad
  <1>3. i \in bad /\ \A j \in bad : i <= j
    BY <1>1
  <1>4. \A m \in bad : (\A j \in bad : m <= j) => m = i
    BY <1>1, <1>3
  <1>5. (CHOOSE m \in bad : \A j \in bad : m <= j) = i
    BY <1>3, <1>4
  <1> QED BY <1>2, <1>3, <1>5

\* A dropped, an exchanged and an edited entry are found where they were.
LEMMA DropIsFound ==
  ASSUME NEW es \in Seq(LedgerEntries), Chained(es), NEW i \in 1..(Len(es) - 1)
  PROVE  BreakAt(RemoveAt(es, i)) = i - 1
PROOF
  <1> DEFINE left == RemoveAt(es, i)
  <1>1. /\ Len(left) = Len(es) - 1
        /\ \A j \in 1..(Len(es) - 1) : left[j] = IF j < i THEN es[j] ELSE es[j + 1]
    <2>1. SubSeq(es, 1, i - 1) \in Seq(LedgerEntries)
          /\ Len(SubSeq(es, 1, i - 1)) = i - 1
          /\ \A j \in 1..(i - 1) : SubSeq(es, 1, i - 1)[j] = es[j]
      OBVIOUS
    <2>2. SubSeq(es, i + 1, Len(es)) \in Seq(LedgerEntries)
          /\ Len(SubSeq(es, i + 1, Len(es))) = Len(es) - i
          /\ \A j \in 1..(Len(es) - i) : SubSeq(es, i + 1, Len(es))[j] = es[i + j]
      OBVIOUS
    <2> DEFINE s == SubSeq(es, 1, i - 1)  t == SubSeq(es, i + 1, Len(es))
    <2>3. left = s \o t
      BY DEF RemoveAt
    <2>4. /\ s \in Seq(LedgerEntries) /\ t \in Seq(LedgerEntries)
          /\ Len(s) = i - 1 /\ Len(t) = Len(es) - i
          /\ \A j \in 1..(i - 1) : s[j] = es[j]
          /\ \A j \in 1..(Len(es) - i) : t[j] = es[i + j]
      BY <2>1, <2>2
    <2> HIDE DEF s, t, left
    <2>5. Len(left) = Len(es) - 1
      <3>1. Len(left) = (i - 1) + (Len(es) - i)
        <4>1. s \in Seq(LedgerEntries) /\ t \in Seq(LedgerEntries)
          BY <2>4
        <4>2. Len(s \o t) = Len(s) + Len(t)
          BY <4>1, ConcatProperties, Zenon
        <4>3. Len(left) = Len(s) + Len(t)
          BY <2>3, <4>2, Zenon
        <4> QED BY <2>4, <4>3, Zenon
      <3> QED BY <3>1
    <2>6. ASSUME NEW j \in 1..(Len(es) - 1)
          PROVE  left[j] = IF j < i THEN es[j] ELSE es[j + 1]
      <3>1. CASE j < i BY <2>3, <2>4, <3>1
      <3>2. CASE ~(j < i)
        <4>1. left[j] = t[j - (i - 1)] BY <2>3, <2>4, <3>2
        <4>2. j - (i - 1) \in 1..(Len(es) - i) BY <3>2
        <4>3. t[j - (i - 1)] = es[i + (j - (i - 1))] BY <2>4, <4>2
        <4>4. i + (j - (i - 1)) = j + 1 OBVIOUS
        <4> QED BY <3>2, <4>1, <4>3, <4>4
      <3> QED BY <3>1, <3>2
    <2> QED BY <2>5, <2>6
  <1> HIDE DEF left
  <1>2. BrokenAt(left, i)
    <2>1. left[i] = es[i + 1] /\ es[i + 1].seq = i
      BY <1>1 DEF Chained
    <2> QED BY <2>1 DEF BrokenAt
  <1>3. \A j \in 1..Len(left) : j < i => ~BrokenAt(left, j)
    <2> SUFFICES ASSUME NEW j \in 1..Len(left), j < i PROVE ~BrokenAt(left, j)
      OBVIOUS
    <2>1. left[j] = es[j] /\ (j # 1 => left[j - 1] = es[j - 1]) /\ j \in 1..Len(es)
      BY <1>1
    <2> QED BY <2>1 DEF BrokenAt, Chained
  <1>4. i \in 1..Len(left) /\ Len(left) \in Nat
    BY <1>1
  <1>5. BreakAt(left) = i - 1
    BY <1>2, <1>3, <1>4, BreakIs
  <1> QED BY <1>5 DEF left

LEMMA ExchangeIsFound ==
  ASSUME NEW es \in Seq(LedgerEntries), Chained(es),
         NEW i \in 1..Len(es), NEW j \in 1..Len(es), i < j
  PROVE  BreakAt([es EXCEPT ![i] = es[j], ![j] = es[i]]) = i - 1
PROOF
  <1> DEFINE left == [es EXCEPT ![i] = es[j], ![j] = es[i]]
  <1>1. /\ Len(left) = Len(es) /\ left[i] = es[j]
        /\ \A m \in 1..Len(es) : m < i => left[m] = es[m]
    OBVIOUS
  <1> HIDE DEF left
  <1>2. BrokenAt(left, i)
    <2>1. left[i].seq = j - 1
      BY <1>1 DEF Chained
    <2> QED BY <2>1 DEF BrokenAt
  <1>3. \A m \in 1..Len(left) : m < i => ~BrokenAt(left, m)
    <2> SUFFICES ASSUME NEW m \in 1..Len(left), m < i PROVE ~BrokenAt(left, m)
      OBVIOUS
    <2>1. left[m] = es[m] /\ (m # 1 => left[m - 1] = es[m - 1]) /\ m \in 1..Len(es)
      BY <1>1
    <2> QED BY <2>1 DEF BrokenAt, Chained
  <1>4. BreakAt(left) = i - 1
    BY <1>1, <1>2, <1>3, BreakIs
  <1> QED BY <1>4 DEF left

LEMMA EditIsFound ==
  ASSUME NEW es \in Seq(LedgerEntries), Chained(es),
         NEW i \in 1..Len(es), es[i].id # 0
  PROVE  BreakAt([es EXCEPT ![i].id = 0]) = i - 1
PROOF
  <1> DEFINE left == [es EXCEPT ![i].id = 0]
  <1>1. /\ Len(left) = Len(es) /\ left[i] = [es[i] EXCEPT !.id = 0]
        /\ \A m \in 1..Len(es) : m < i => left[m] = es[m]
    OBVIOUS
  <1>2. es[i] \in LedgerEntries
    OBVIOUS
  <1>3. /\ left[i].seq = es[i].seq /\ left[i].prev = es[i].prev /\ left[i].key = es[i].key
        /\ left[i].hash = es[i].hash /\ left[i].id = 0
    BY <1>1, <1>2 DEF LedgerEntries
  <1> HIDE DEF left
  <1>4. BrokenAt(left, i)
    <2>1. es[i].hash = EntryHash(es[i])
      BY DEF Chained
    <2>2. EntryHash(es[i]) # EntryHash(left[i])
      <3> DEFINE S == Nat \X Keys \X Nat
                 a == <<es[i].seq, es[i].key, es[i].id>>
                 b == <<es[i].seq, es[i].key, 0>>
      <3>1. a \in S /\ b \in S /\ a # b /\ es[i].prev \in Seq(S)
        BY <1>2 DEF LedgerEntries, EntryHashes
      <3>2. EntryHash(es[i]) = Append(es[i].prev, a) /\ EntryHash(left[i]) = Append(es[i].prev, b)
        BY <1>3 DEF EntryHash
      <3> HIDE DEF S, a, b
      <3> QED BY <3>1, <3>2, AppendInjective
    <2> QED BY <1>3, <2>1, <2>2 DEF BrokenAt
  <1>5. \A m \in 1..Len(left) : m < i => ~BrokenAt(left, m)
    <2> SUFFICES ASSUME NEW m \in 1..Len(left), m < i PROVE ~BrokenAt(left, m)
      OBVIOUS
    <2>1. left[m] = es[m] /\ (m # 1 => left[m - 1] = es[m - 1]) /\ m \in 1..Len(es)
      BY <1>1
    <2> QED BY <2>1 DEF BrokenAt, Chained
  <1>6. BreakAt(left) = i - 1
    BY <1>1, <1>4, <1>5, BreakIs
  <1> QED BY <1>6 DEF left

\* The numbers of the entries are those of the receipts signed.
LEMMA EntriesKnown ==
  ASSUME LedgerShape, Readable, Known
  PROVE  \A i \in 1..Len(Entries) : Entries[i].id \in 1..jobs
PROOF
  <1> SUFFICES ASSUME NEW i \in 1..Len(Entries) PROVE Entries[i].id \in 1..jobs
    OBVIOUS
  <1> DEFINE n == IF Headed THEN i + 1 ELSE i
  <1>1. n \in 1..Len(Lines) /\ Entries[i] = Lines[n] /\ Entries[i] \in LedgerEntries
    BY EntriesAre
  <1>2. Lines[n] \notin {Torn, Header}
    BY <1>1, SentinelAssumption
  <1> HIDE DEF n
  <1> QED BY <1>1, <1>2 DEF Known

\* The files of an entry are on disk before the entry, whatever was cut short
\* and whichever episodes run again (Artefacts.tla, FilesBeforeLedger).
THEOREM FilesBeforeLedgerHolds == ArtSpec => []FilesBeforeLedger
PROOF BY ArtInvHolds, PTL DEF ArtInv

\* What was reported as written stays in a ledger that can be read.
THEOREM ReportedIsEnteredHolds == ArtSpec => []ReportedIsEntered
PROOF BY ArtInvHolds, PTL DEF ArtInv

\* Crashes never break the chain, and whoever drops, exchanges or edits entries
\* is found out at the first of them.
THEOREM ChainHoldsAlways == ArtSpec => []ChainHolds
PROOF
  <1>1. ArtInv => ChainHolds
    <2> SUFFICES ASSUME ArtInv, Readable PROVE ChainHolds
      BY DEF ChainHolds
    <2>1. Entries \in Seq(LedgerEntries) /\ Chained(Entries)
      BY EntriesAre DEF ArtInv, TypesHold, Linked
    <2>2. \A i \in 1..Len(Entries) : Entries[i].id # 0
      BY EntriesKnown DEF ArtInv, TypesHold
    <2> DEFINE es == Entries  n == Len(es)
    <2>3. BreakAt(es) = -1
      BY <2>1, NoBreak
    <2>4. \A i \in 1..(n - 1) : BreakAt(RemoveAt(es, i)) = i - 1
      BY <2>1, DropIsFound
    <2>5. \A i, j \in 1..n : i < j => BreakAt([es EXCEPT ![i] = es[j], ![j] = es[i]]) = i - 1
      BY <2>1, ExchangeIsFound
    <2>6. \A i \in 1..n : BreakAt([es EXCEPT ![i].id = 0]) = i - 1
      BY <2>1, <2>2, EditIsFound
    <2> QED BY <2>3, <2>4, <2>5, <2>6 DEF ChainHolds
  <1> QED BY <1>1, ArtInvHolds, PTL

-----------------------------------------------------------------------------
(* What is written verifies.                                               *)

LEMMA TickChainGood ==
  ASSUME NEW chain \in Seq(TickEvents), NEW start,
         \A i \in 1..Len(chain) :
           /\ chain[i].seq = chain[1].seq + i - 1
           /\ chain[i].prev = IF i = 1 THEN start ELSE chain[i - 1].hash
           /\ chain[i].hash = TickHash(chain[i])
  PROVE  TickChainOk(chain, start)
PROOF
  <1> DEFINE from == IF chain = <<>> THEN 0 ELSE chain[1].seq
             rec == [i \in 1..Len(chain) |-> TickHash(chain[i])]
  <1>1. \A i \in 1..Len(chain) : from + i - 1 = chain[i].seq
    <2> SUFFICES ASSUME NEW i \in 1..Len(chain) PROVE from + i - 1 = chain[i].seq
      OBVIOUS
    <2>1. chain # <<>>
      OBVIOUS
    <2> QED BY <2>1
  <1>2. \A i \in 1..Len(chain) : rec[i] = TickHash(chain[i])
    OBVIOUS
  <1> HIDE DEF from, rec
  <1>3. BadLinks(chain, from, start, rec) = {}
    BY <1>1, <1>2 DEF BadLinks
  <1> QED BY <1>3 DEF TickChainOk, from, rec

LEMMA EventsGood ==
  ASSUME NEW r \in ReceiptBodies, Genuine(r)
  PROVE  EventFileOk(r, EventFile(r))
PROOF
  <1> DEFINE events == EventsOf(r.id, r.n)
  <1>1. r.id \in Nat /\ r.n \in Nat
    BY DEF ReceiptBodies
  <1>2. /\ events \in Seq(TickEvents) /\ Len(events) = r.n
        /\ \A i \in 1..r.n :
             /\ events[i].seq = i - 1
             /\ events[i].prev = IF i = 1 THEN Genesis ELSE events[i - 1].hash
             /\ events[i].hash = TickHash(events[i])
    BY <1>1, EventsAre
  <1>3. EventFile(r) = [key |-> r.key, events |-> events] /\ HeadOf(events) = r.head
    BY DEF EventFile, Genuine
  <1> HIDE DEF events
  <1>4. \A i \in 1..Len(events) : events[i].seq = events[1].seq + i - 1
    <2> SUFFICES ASSUME NEW i \in 1..Len(events)
                 PROVE  events[i].seq = events[1].seq + i - 1
      OBVIOUS
    <2>1. events[1].seq = 0 /\ events[i].seq = i - 1
      BY <1>1, <1>2
    <2> QED BY <2>1
  <1>5. TickChainOk(events, Genesis)
    BY <1>2, <1>4, TickChainGood
  <1>6. EventFile(r) \notin {NoFile, Torn}
    BY EventFileIs, SentinelAssumption
  <1> QED BY <1>2, <1>3, <1>5, <1>6 DEF EventFileOk

\* The embedded ticks are the last of the events, numbered as those are.
LEMMA TailIs ==
  ASSUME NEW r \in ReceiptBodies, Genuine(r), r.policy = "tail32", r.n > TailMax
  PROVE  LET events == EventsOf(r.id, r.n) IN
         /\ Len(r.ticks) = TailMax
         /\ \A i \in 1..TailMax : r.ticks[i] = events[r.n - TailMax + i]
PROOF
  <1> DEFINE events == EventsOf(r.id, r.n)
  <1>1. r.id \in Nat /\ r.n \in Nat /\ TailMax \in Nat \ {0}
    BY ArtefactsAssumption DEF ReceiptBodies
  <1>2. events \in Seq(TickEvents) /\ Len(events) = r.n
    BY <1>1, EventsAre
  <1>3. r.ticks = Embedded(events, r.policy)
    BY DEF Genuine
  <1> HIDE DEF events
  <1>4. r.ticks = SubSeq(events, r.n - TailMax + 1, r.n)
    BY <1>1, <1>2, <1>3 DEF Embedded
  <1>5. /\ Len(SubSeq(events, r.n - TailMax + 1, r.n)) = TailMax
        /\ \A i \in 1..TailMax :
             SubSeq(events, r.n - TailMax + 1, r.n)[i] = events[r.n - TailMax + i]
    BY <1>1, <1>2
  <1> QED BY <1>4, <1>5 DEF events

LEMMA EmbeddedGood ==
  ASSUME NEW r \in ReceiptBodies, Genuine(r)
  PROVE  EmbeddedOk(r) /\ TailOk(r, EventFile(r))
PROOF
  <1> DEFINE events == EventsOf(r.id, r.n)
  <1>1. /\ r.id \in Nat /\ r.n \in Nat /\ TailMax \in Nat \ {0}
        /\ r.policy \in {"all", "tail32", "none"} /\ r.ticks \in Seq(TickEvents)
    BY ArtefactsAssumption DEF ReceiptBodies
  <1>2. /\ events \in Seq(TickEvents) /\ Len(events) = r.n
        /\ \A i \in 1..r.n :
             /\ events[i].seq = i - 1
             /\ events[i].prev = IF i = 1 THEN Genesis ELSE events[i - 1].hash
             /\ events[i].hash = TickHash(events[i])
    BY <1>1, EventsAre
  <1>3. r.ticks = Embedded(events, r.policy) /\ r.head = HeadOf(events)
        /\ EventFile(r).events = events
    BY DEF Genuine, EventFile
  <1> DEFINE expected == CASE r.policy = "all" -> r.n
                           [] r.policy = "none" -> 0
                           [] r.policy = "tail32" -> IF r.n <= TailMax THEN r.n ELSE TailMax
             start == IF r.policy = "all" THEN Genesis ELSE r.ticks[1].prev
  <1>4. EmbeddedOk(r) <=>
          /\ Len(r.ticks) = expected
          /\ IF r.ticks = <<>> THEN r.n = 0 => r.head = Genesis
             ELSE /\ TickChainOk(r.ticks, start)
                  /\ r.policy = "tail32" => r.ticks[1].seq = r.n - Len(r.ticks)
                  /\ HeadOf(r.ticks) = r.head
    BY DEF EmbeddedOk
  <1> HIDE DEF events
  <1>5. CASE r.policy = "none"
    <2>1. r.ticks = <<>> /\ expected = 0
      BY <1>3, <1>5 DEF Embedded
    <2>2. r.n = 0 => r.head = Genesis
      BY <1>2, <1>3 DEF HeadOf
    <2> QED BY <1>4, <2>1, <2>2 DEF TailOk
  <1>6. CASE r.policy = "all" \/ (r.policy = "tail32" /\ r.n <= TailMax)
    <2>1. r.ticks = events /\ expected = r.n
      BY <1>2, <1>3, <1>6 DEF Embedded
    <2>2. CASE events = <<>>
      <3>1. r.head = Genesis
        BY <1>3, <2>2 DEF HeadOf
      <3> QED BY <1>2, <1>4, <2>1, <2>2, <3>1 DEF TailOk
    <2>3. CASE events # <<>>
      <3>1. 1 \in 1..r.n /\ events[1].seq = 0 /\ events[1].prev = Genesis
        BY <1>1, <1>2, <2>3
      <3>2. \A i \in 1..Len(events) : events[i].seq = events[1].seq + i - 1
        BY <1>2, <3>1
      <3>3. TickChainOk(events, Genesis)
        BY <1>2, <3>2, TickChainGood
      <3>4. start = Genesis
        BY <2>1, <3>1
      <3>5. TailOk(r, EventFile(r))
        BY <1>2, <1>3, <2>1, <3>1 DEF TailOk
      <3> HIDE DEF start, expected
      <3> QED BY <1>2, <1>3, <1>4, <2>1, <2>3, <3>1, <3>3, <3>4, <3>5
    <2> QED BY <2>2, <2>3
  <1>7. CASE r.policy = "tail32" /\ r.n > TailMax
    <2> DEFINE m == r.n - TailMax
    <2>1. /\ Len(r.ticks) = TailMax /\ expected = TailMax
          /\ \A i \in 1..TailMax : r.ticks[i] = events[m + i]
      BY <1>1, <1>7, TailIs DEF events
    <2>2. m \in Nat \ {0} /\ r.n = m + TailMax /\ \A i \in 1..TailMax : m + i \in 1..r.n
      BY <1>1, <1>7
    <2> HIDE DEF m
    <2>3. r.ticks # <<>> /\ 1 \in 1..TailMax
      BY <1>1, <2>1
    <2>4. r.ticks[1].seq = m
      <3>1. r.ticks[1] = events[m + 1] /\ m + 1 \in 1..r.n
        BY <2>1, <2>2, <2>3
      <3>2. events[m + 1].seq = (m + 1) - 1
        BY <1>2, <3>1
      <3> QED BY <2>2, <3>1, <3>2
    <2>5. \A i \in 1..Len(r.ticks) :
            /\ r.ticks[i].seq = r.ticks[1].seq + i - 1
            /\ r.ticks[i].prev = IF i = 1 THEN r.ticks[1].prev ELSE r.ticks[i - 1].hash
            /\ r.ticks[i].hash = TickHash(r.ticks[i])
      <3> SUFFICES ASSUME NEW i \in 1..TailMax
                   PROVE  /\ r.ticks[i].seq = m + i - 1
                          /\ i # 1 => r.ticks[i].prev = r.ticks[i - 1].hash
                          /\ r.ticks[i].hash = TickHash(r.ticks[i])
        BY <2>1, <2>4
      <3>1. PICK j \in 1..r.n : j = m + i
        BY <2>2
      <3>2. j # 1 /\ r.ticks[i] = events[j]
        BY <1>1, <2>1, <2>2, <3>1
      <3>3. events[j].seq = j - 1 /\ events[j].prev = events[j - 1].hash
            /\ events[j].hash = TickHash(events[j])
        BY <1>2, <3>2
      <3>4. i # 1 => r.ticks[i - 1] = events[j - 1]
        <4> SUFFICES ASSUME i # 1 PROVE r.ticks[i - 1] = events[j - 1]
          OBVIOUS
        <4>1. i - 1 \in 1..TailMax /\ m + (i - 1) = j - 1
          BY <1>1, <2>2, <3>1
        <4> QED BY <2>1, <4>1
      <3>5. m + i - 1 = j - 1
        BY <2>2, <3>1
      <3> QED BY <3>2, <3>3, <3>4, <3>5
    <2>6. TickChainOk(r.ticks, r.ticks[1].prev)
      BY <1>1, <2>5, TickChainGood
    <2>7. HeadOf(r.ticks) = HeadOf(events)
      <3>1. TailMax \in 1..TailMax /\ events # <<>>
        BY <1>1, <1>2, <2>2
      <3>2. r.ticks[Len(r.ticks)] = events[Len(events)]
        BY <1>2, <2>1, <2>2, <3>1
      <3> QED BY <2>3, <3>1, <3>2 DEF HeadOf
    <2>8. start = r.ticks[1].prev
      BY <1>7
    <2>9. TailOk(r, EventFile(r))
      <3>1. r.ticks[1] = events[m + 1] /\ m + 1 \in 1..Len(events)
        BY <1>2, <2>1, <2>2, <2>3
      <3> QED BY <1>3, <3>1 DEF TailOk
    <2> HIDE DEF start, expected
    <2>10. r.ticks[1].seq = r.n - Len(r.ticks)
      BY <1>1, <2>1, <2>2, <2>4
    <2> QED BY <1>3, <1>4, <2>1, <2>3, <2>6, <2>7, <2>8, <2>9, <2>10
  <1> QED BY <1>1, <1>5, <1>6, <1>7

\* What was reported as written verifies with all its companions until it is
\* written again: writer and verifier agree, whatever crashed in between.
THEOREM ReportedIsIntactHolds == ArtSpec => []ReportedIsIntact
PROOF
  <1>1. ArtInv => ReportedIsIntact
    <2> SUFFICES ASSUME ArtInv, Readable, Headed, NEW k \in Keys, touched[k] \in acked
                 PROVE  Intact(receipts[k])
      BY DEF ReportedIsIntact
    <2> DEFINE r == receipts[k]
    <2>1. /\ r \in ReceiptBodies /\ r.key = k /\ Genuine(r)
          /\ ticks[k] = EventFile(r) /\ timings[k] = EventFile(r)
          /\ BoundIn(Entries, r)
      BY DEF ArtInv, TypesHold, Kept, Bound
    <2>2. Entries \in Seq(LedgerEntries) /\ Chained(Entries)
      BY EntriesAre DEF ArtInv, TypesHold, Linked
    <2>3. BreakAt(Entries) = -1
      BY <2>2, NoBreak
    <2> HIDE DEF r
    <2>4. LedgerOk(r)
      BY <2>1, <2>3 DEF LedgerOk, BoundIn
    <2>5. Intact(r)
      BY <2>1, <2>4, EventsGood, EmbeddedGood DEF Intact
    <2> QED BY <2>5 DEF r
  <1> QED BY <1>1, ArtInvHolds, PTL

-----------------------------------------------------------------------------
(* What a hash says of the past.                                           *)

LEMMA LeastOf ==
  ASSUME NEW T, T \subseteq Nat, T # {}
  PROVE  \E x \in T : \A y \in T : x <= y
PROOF
  <1> DEFINE R == OpToRel(<, Nat)
  <1>1. IsWellFoundedOn(R, Nat)
    BY NatLessThanWellFounded
  <1>2. \A x, y \in Nat : <<x, y>> \in R <=> x < y
    BY DEF OpToRel
  <1> HIDE DEF R
  <1>3. PICK x \in T : \A y \in T : ~(<<y, x>> \in R)
    BY <1>1, WFMin
  <1>4. ASSUME NEW y \in T PROVE x <= y
    <2>1. x \in Nat /\ y \in Nat
      OBVIOUS
    <2>2. ~(y < x)
      BY <1>2, <1>3, <2>1
    <2> QED BY <2>1, <2>2
  <1> QED BY <1>4

\* Induction over the natural numbers, for a set in place of a predicate.
LEMMA SetInduction ==
  ASSUME NEW S, 0 \in S, \A n \in Nat : n \in S => n + 1 \in S
  PROVE  \A n \in Nat : n \in S
PROOF
  <1> SUFFICES ASSUME Nat \ S # {} PROVE FALSE
    OBVIOUS
  <1>1. PICK x \in Nat \ S : \A y \in Nat \ S : x <= y
    BY LeastOf
  <1>2. x - 1 \in Nat /\ (x - 1) + 1 = x
    BY <1>1
  <1>3. x - 1 \in S
    BY <1>1, <1>2
  <1> QED BY <1>1, <1>2, <1>3

Tells(S) == \A x, y \in S : x.hash = y.hash => x = y

LinkedIn(S, c, i) ==
  \A m \in 1..i : c[m] \in S /\ (m # 1 => c[m].prev = c[m - 1].hash)

Meet(S, c, d, i) ==
  LinkedIn(S, c, i) /\ LinkedIn(S, d, i) /\ c[i].hash = d[i].hash

Agree(c, d, i) == \A m \in 1..i : c[m] = d[m]

\* Two linked chains, each element told apart from every other by its hash, are
\* the same from their beginning to where they have one hash in common.
LEMMA SamePast ==
  ASSUME NEW S, Tells(S), NEW c, NEW d, NEW i, i \in Nat \ {0}, Meet(S, c, d, i)
  PROVE  Agree(c, d, i)
PROOF
  <1> USE DEF Tells, LinkedIn, Meet, Agree
  <1> DEFINE Same == {n \in Nat : n < i => c[i - n] = d[i - n]}
  <1>1. 0 \in Same
    <2>1. i \in 1..i OBVIOUS
    <2>2. c[i] = d[i] BY <2>1
    <2> QED BY <2>2
  <1>2. ASSUME NEW n \in Nat, n \in Same PROVE n + 1 \in Same
    <2> SUFFICES ASSUME n + 1 < i PROVE c[i - (n + 1)] = d[i - (n + 1)]
      OBVIOUS
    <2>1. PICK m \in 2..i : m = i - n
      OBVIOUS
    <2>2. i - (n + 1) = m - 1 /\ m - 1 \in 1..i
      BY <2>1
    <2>3. c[m] = d[m]
      BY <1>2, <2>1
    <2>4. c[m - 1].hash = d[m - 1].hash
      BY <2>3
    <2>5. c[m - 1] = d[m - 1]
      BY <2>2, <2>4
    <2> QED BY <2>2, <2>5
  <1> HIDE DEF Same
  <1>3. \A n \in Nat : n \in Same
    BY <1>1, <1>2, SetInduction
  <1>4. ASSUME NEW m \in 1..i PROVE c[m] = d[m]
    <2>1. i - m \in Nat /\ i - m < i /\ i - (i - m) = m
      OBVIOUS
    <2> QED BY <1>3, <2>1 DEF Same
  <1> QED BY <1>4

\* What verify_ledger accepts is linked from its beginning.
LEMMA UnbrokenIsChained ==
  ASSUME NEW chain \in Seq(LedgerEntries), BreakAt(chain) = -1
  PROVE  Chained(chain)
PROOF
  <1> DEFINE bad == BadLinks(chain, 0, Genesis, [j \in 1..Len(chain) |-> EntryHash(chain[j])])
  <1>1. BreakAt(chain) = IF bad = {} THEN -1 ELSE (CHOOSE m \in bad : \A j \in bad : m <= j) - 1
    BY DEF BreakAt
  <1>2. bad = {j \in 1..Len(chain) : BrokenAt(chain, j)}
    BY DEF BadLinks, BrokenAt
  <1>3. bad = {} => Chained(chain)
    BY <1>2 DEF BrokenAt, Chained
  <1> HIDE DEF bad
  <1>4. bad = {}
    <2> SUFFICES ASSUME bad # {} PROVE FALSE
      OBVIOUS
    <2>1. bad \subseteq Nat \ {0}
      BY <1>2
    <2>2. \E m \in bad : \A j \in bad : m <= j
      BY <2>1, LeastOf
    <2>3. PICK m : m = CHOOSE n \in bad : \A j \in bad : n <= j
      OBVIOUS
    <2>4. m \in bad
      BY <2>2, <2>3
    <2>5. m - 1 = -1
      BY <1>1, <2>3
    <2> QED BY <2>1, <2>4, <2>5
  <1> QED BY <1>3, <1>4

SealedEntries == {e \in LedgerEntries : e.hash = EntryHash(e)}

LEMMA EntryHashTells ==
  /\ \A x, y \in SealedEntries : x.hash = y.hash => x = y
  /\ \A x \in SealedEntries : x.hash # Genesis
PROOF
  <1>1. ASSUME NEW x \in SealedEntries, NEW y \in SealedEntries, x.hash = y.hash
        PROVE  x = y
    <2>1. x \in LedgerEntries /\ y \in LedgerEntries
          /\ x.prev \in EntryHashes /\ y.prev \in EntryHashes
      BY DEF SealedEntries, LedgerEntries
    <2>2. Append(x.prev, <<x.seq, x.key, x.id>>) = Append(y.prev, <<y.seq, y.key, y.id>>)
      BY <1>1 DEF SealedEntries, EntryHash
    <2>3. x.seq \in Nat /\ x.key \in Keys /\ x.id \in Nat
          /\ y.seq \in Nat /\ y.key \in Keys /\ y.id \in Nat
      BY <2>1 DEF LedgerEntries
    <2>4. <<x.seq, x.key, x.id>> \in Nat \X Keys \X Nat
          /\ <<y.seq, y.key, y.id>> \in Nat \X Keys \X Nat
      BY <2>3
    <2> DEFINE H == Nat \X Keys \X Nat
               e == <<x.seq, x.key, x.id>>
               f == <<y.seq, y.key, y.id>>
    <2>5. x.prev = y.prev /\ e = f
      <3>1. PICK s \in Seq(H), t \in Seq(H) : s = x.prev /\ t = y.prev
        BY <2>1 DEF EntryHashes
      <3>2. e \in H /\ f \in H /\ Append(s, e) = Append(t, f)
        BY <2>2, <2>4, <3>1
      <3> HIDE DEF H, e, f
      <3>3. s = t /\ e = f
        BY ONLY <3>2, s \in Seq(H), t \in Seq(H), AppendInjective
      <3> QED BY <3>1, <3>3
    <2>6. x.seq = y.seq /\ x.key = y.key /\ x.id = y.id
      BY <2>5
    <2> QED BY <1>1, <2>1, <2>5, <2>6 DEF LedgerEntries
  <1>2. ASSUME NEW x \in SealedEntries PROVE x.hash # Genesis
    <2>1. x.prev \in EntryHashes /\ <<x.seq, x.key, x.id>> \in Nat \X Keys \X Nat
      BY DEF SealedEntries, LedgerEntries
    <2>2. Append(x.prev, <<x.seq, x.key, x.id>>) # << >>
      <3> DEFINE H == Nat \X Keys \X Nat
                 e == <<x.seq, x.key, x.id>>
      <3>1. PICK s \in Seq(H) : s = x.prev
        BY <2>1 DEF EntryHashes
      <3>2. e \in H
        BY <2>1
      <3> DEFINE more == Append(s, e)
      <3> HIDE DEF H, e
      <3>3. Len(more) = Len(s) + 1 /\ Len(s) \in Nat
        BY ONLY <3>2, s \in Seq(H)
      <3> HIDE DEF more
      <3>4. more # <<>>
        BY ONLY <3>3
      <3> QED BY <3>1, <3>4 DEF more, e
    <2> QED BY <2>2 DEF SealedEntries, EntryHash, Genesis
  <1> QED BY <1>1, <1>2

\* Whoever has noted the hash of one entry has noted every entry up to it: no
\* other ledger that verify_ledger accepts holds that hash, whatever was edited,
\* dropped, exchanged or written anew before it.
THEOREM HashPinsHistory ==
  ASSUME NEW c \in Seq(LedgerEntries), NEW d \in Seq(LedgerEntries),
         BreakAt(c) = -1, BreakAt(d) = -1,
         NEW i \in 1..Len(c), NEW j \in 1..Len(d), c[i].hash = d[j].hash
  PROVE  i = j /\ \A m \in 1..i : c[m] = d[m]
PROOF
  <1>1. Chained(c) /\ Chained(d)
    BY UnbrokenIsChained
  <1>2. /\ \A m \in 1..Len(c) : c[m] \in SealedEntries
        /\ \A m \in 1..Len(d) : d[m] \in SealedEntries
    BY <1>1 DEF Chained, SealedEntries
  <1>3. i = j
    <2>1. c[i] = d[j]
      BY <1>2, EntryHashTells
    <2>2. c[i].seq = i - 1 /\ d[j].seq = j - 1
      BY <1>1 DEF Chained
    <2> QED BY <2>1, <2>2
  <1>4. ASSUME NEW m \in 2..i
        PROVE  c[m].prev = c[m - 1].hash /\ d[m].prev = d[m - 1].hash
    <2>1. m \in 1..Len(c) /\ m \in 1..Len(d) /\ m # 1
      BY <1>3
    <2> QED BY <1>1, <2>1 DEF Chained
  <1>5. i \in Nat \ {0} /\ \A m \in 1..i : c[m] \in SealedEntries /\ d[m] \in SealedEntries
    BY <1>2, <1>3
  <1>6. c[i].hash = d[i].hash
    BY <1>3
  <1> HIDE DEF SealedEntries
  <1>7. Tells(SealedEntries)
    BY EntryHashTells DEF Tells
  <1>8. Meet(SealedEntries, c, d, i)
    BY <1>4, <1>5, <1>6 DEF LinkedIn, Meet
  <1>9. Agree(c, d, i)
    BY <1>5, <1>7, <1>8, SamePast
  <1> QED BY <1>3, <1>9 DEF Agree

\* A signed receipt pins the ledger it was signed over: every ledger for which
\* check_ledger finds the receipt bound has the same entries before it, so that
\* none of them can be taken out or put in afterwards.
THEOREM ReceiptPinsHistory ==
  ASSUME NEW r \in ReceiptBodies,
         NEW c \in Seq(LedgerEntries), NEW d \in Seq(LedgerEntries),
         BreakAt(c) = -1, BreakAt(d) = -1,
         NEW i \in 1..Len(c), NEW j \in 1..Len(d),
         c[i].prev = r.ledger_prev, d[j].prev = r.ledger_prev
  PROVE  i = j /\ \A m \in 1..(i - 1) : c[m] = d[m]
PROOF
  <1>1. Chained(c) /\ Chained(d)
    BY UnbrokenIsChained
  <1>2. /\ \A m \in 1..Len(c) : c[m].hash # Genesis
        /\ \A m \in 1..Len(d) : d[m].hash # Genesis
    BY <1>1, EntryHashTells DEF Chained, SealedEntries
  <1>3. /\ c[i].prev = IF i = 1 THEN Genesis ELSE c[i - 1].hash
        /\ d[j].prev = IF j = 1 THEN Genesis ELSE d[j - 1].hash
    BY <1>1 DEF Chained
  <1>4. CASE i = 1 \/ j = 1
    <2>1. i = 1 /\ j = 1
      BY <1>2, <1>3, <1>4
    <2> QED BY <2>1
  <1>5. CASE i # 1 /\ j # 1
    <2>1. i - 1 \in 1..Len(c) /\ j - 1 \in 1..Len(d)
      BY <1>5
    <2>2. c[i - 1].hash = d[j - 1].hash
      BY <1>3, <1>5
    <2>3. i - 1 = j - 1 /\ \A m \in 1..(i - 1) : c[m] = d[m]
      BY <2>1, <2>2, HashPinsHistory
    <2> QED BY <2>3
  <1> QED BY <1>4, <1>5

SealedTicks == {e \in TickEvents : e.hash = TickHash(e)}

LEMMA TickHashTells == \A x, y \in SealedTicks : x.hash = y.hash => x = y
PROOF
  <1> SUFFICES ASSUME NEW x \in SealedTicks, NEW y \in SealedTicks, x.hash = y.hash
               PROVE  x = y
    OBVIOUS
  <1>1. x \in TickEvents /\ y \in TickEvents
        /\ x.prev \in TickHashes /\ y.prev \in TickHashes
    BY DEF SealedTicks, TickEvents
  <1>2. Append(x.prev, <<x.seq, x.tick>>) = Append(y.prev, <<y.seq, y.tick>>)
    BY DEF SealedTicks, TickHash
  <1>3. <<x.seq, x.tick>> \in Nat \X (Nat \X Nat) /\ <<y.seq, y.tick>> \in Nat \X (Nat \X Nat)
    BY <1>1 DEF TickEvents
  <1> DEFINE H == Nat \X (Nat \X Nat)
             e == <<x.seq, x.tick>>
             f == <<y.seq, y.tick>>
  <1>4. x.prev = y.prev /\ e = f
    <2>1. PICK s \in Seq(H), t \in Seq(H) : s = x.prev /\ t = y.prev
      BY <1>1 DEF TickHashes
    <2>2. e \in H /\ f \in H /\ Append(s, e) = Append(t, f)
      BY <1>2, <1>3, <2>1
    <2> HIDE DEF H, e, f
    <2>3. s = t /\ e = f
      BY ONLY <2>2, s \in Seq(H), t \in Seq(H), AppendInjective
    <2> QED BY <2>1, <2>3
  <1>5. x.seq = y.seq /\ x.tick = y.tick
    BY <1>4
  <1> QED BY <1>1, <1>4, <1>5 DEF TickEvents

\* A receipt pins its ticks: of all the files there can be, at most one verifies
\* with it.
THEOREM ReceiptPinsTicks ==
  ASSUME NEW r \in ReceiptBodies, NEW f \in EventFiles, NEW g \in EventFiles,
         EventFileOk(r, f), EventFileOk(r, g)
  PROVE  f = g
PROOF
  <1>1. /\ f.key = r.key /\ g.key = r.key /\ r.n \in Nat
        /\ f.events \in Seq(TickEvents) /\ g.events \in Seq(TickEvents)
        /\ Len(f.events) = r.n /\ Len(g.events) = r.n
        /\ HeadOf(f.events) = HeadOf(g.events)
        /\ TickChainOk(f.events, Genesis) /\ TickChainOk(g.events, Genesis)
    BY DEF EventFileOk, EventFiles, ReceiptBodies
  <1>2. ASSUME NEW c \in Seq(TickEvents), TickChainOk(c, Genesis), Len(c) = r.n
        PROVE  /\ \A m \in 1..r.n : c[m] \in SealedTicks
               /\ \A m \in 2..r.n : c[m].prev = c[m - 1].hash
    <2> DEFINE from == IF c = << >> THEN 0 ELSE c[1].seq
               rec == [j \in 1..Len(c) |-> TickHash(c[j])]
    <2>1. BadLinks(c, from, Genesis, rec) = {}
      BY <1>2 DEF TickChainOk
    <2>2. \A m \in 1..Len(c) : /\ c[m].prev = IF m = 1 THEN Genesis ELSE c[m - 1].hash
                               /\ c[m].hash = rec[m]
      BY <2>1 DEF BadLinks
    <2>3. ASSUME NEW m \in 1..Len(c)
          PROVE  c[m] \in TickEvents /\ c[m].hash = TickHash(c[m])
      <3>1. rec[m] = TickHash(c[m])
        OBVIOUS
      <3>2. c[m] \in TickEvents
        BY <1>2
      <3> HIDE DEF rec
      <3> QED BY <2>2, <3>1, <3>2
    <2> HIDE DEF rec, from
    <2>4. \A m \in 2..r.n : m \in 1..Len(c) /\ m # 1
      BY <1>1, <1>2
    <2> QED BY <1>2, <2>2, <2>3, <2>4 DEF SealedTicks
  <1>3. CASE r.n = 0
    <2>1. f.events = << >> /\ g.events = << >>
      BY <1>1, <1>3
    <2> QED BY <1>1, <2>1 DEF EventFiles
  <1>4. CASE r.n # 0
    <2>1. f.events # << >> /\ g.events # << >> /\ r.n \in Nat \ {0}
      BY <1>1, <1>4
    <2>2. f.events[r.n].hash = g.events[r.n].hash
      BY <1>1, <2>1 DEF HeadOf
    <2>3. /\ \A m \in 1..r.n : f.events[m] \in SealedTicks /\ g.events[m] \in SealedTicks
          /\ \A m \in 2..r.n : /\ f.events[m].prev = f.events[m - 1].hash
                               /\ g.events[m].prev = g.events[m - 1].hash
      BY <1>1, <1>2
    <2> HIDE DEF SealedTicks
    <2> DEFINE c == f.events
               d == g.events
    <2>4. \A m \in 1..r.n : c[m] = d[m]
      <3>1. Tells(SealedTicks)
        BY TickHashTells DEF Tells
      <3>2. Meet(SealedTicks, c, d, r.n)
        BY <2>2, <2>3 DEF LinkedIn, Meet
      <3> HIDE DEF c, d
      <3>3. Agree(c, d, r.n)
        BY <2>1, <3>1, <3>2, SamePast
      <3> QED BY <3>3 DEF Agree
    <2>5. f.events = g.events
      BY <1>1, <2>4, SeqEqual
    <2> QED BY <1>1, <2>5 DEF EventFiles
  <1> QED BY <1>3, <1>4

\* A companion that verifies with the receipt on disk is that receipt's own.
THEOREM VerifiedIsGenuineHolds == ArtSpec => []VerifiedIsGenuine
PROOF
  <1>1. ArtInv => VerifiedIsGenuine
    <2> SUFFICES ASSUME ArtInv, NEW k \in Keys, receipts[k] \notin {NoFile, Torn},
                        NEW file \in {ticks[k], timings[k]},
                        EventFileOk(receipts[k], file)
                 PROVE  file = EventFile(receipts[k])
      BY DEF VerifiedIsGenuine
    <2>1. receipts[k] \in ReceiptBodies /\ Genuine(receipts[k])
      BY DEF ArtInv, TypesHold, Kept
    <2>2. file \in EventFiles
      BY DEF ArtInv, TypesHold, EventFileOk
    <2>3. EventFile(receipts[k]) \in EventFiles
          /\ EventFileOk(receipts[k], EventFile(receipts[k]))
      BY <2>1, EventFileIs, EventsGood
    <2> QED BY <2>1, <2>2, <2>3, ReceiptPinsTicks
  <1> QED BY <1>1, ArtInvHolds, PTL

-----------------------------------------------------------------------------
(* The ledger keeps the promise of EpisodeLog.                             *)

Numbers(chain) == [i \in 1..Len(chain) |-> chain[i].id]

\* What a reader gets to see.
Unreadable == << 0 >>

Seen == IF Readable THEN Numbers(Entries) ELSE Unreadable

LogStep == Log!Enter \/ Log!Lose

LEMMA NumbersGrow ==
  ASSUME NEW chain \in Seq(LedgerEntries), NEW e \in LedgerEntries
  PROVE  Numbers(Append(chain, e)) = Append(Numbers(chain), e.id)
PROOF
  <1> DEFINE longer == Append(chain, e)
  <1>1. /\ Len(longer) = Len(chain) + 1 /\ longer[Len(chain) + 1] = e
        /\ \A i \in 1..Len(chain) : longer[i] = chain[i]
    BY AppendProperties
  <1> HIDE DEF longer
  <1>2. \A i \in 1..Len(chain) : chain[i].id \in Nat
    <2> SUFFICES ASSUME NEW i \in 1..Len(chain) PROVE chain[i].id \in Nat
      OBVIOUS
    <2>1. chain[i] \in LedgerEntries OBVIOUS
    <2> QED BY <2>1 DEF LedgerEntries
  <1>3. e.id \in Nat
    BY DEF LedgerEntries
  <1>4. Numbers(chain) \in Seq(Nat) /\ Len(Numbers(chain)) = Len(chain)
        /\ \A i \in 1..Len(chain) : Numbers(chain)[i] = chain[i].id
    BY <1>2 DEF Numbers
  <1>5. \A i \in 1..(Len(chain) + 1) : longer[i].id \in Nat
    BY <1>1, <1>2, <1>3
  <1>6. Numbers(longer) \in Seq(Nat) /\ Len(Numbers(longer)) = Len(chain) + 1
        /\ \A i \in 1..(Len(chain) + 1) : Numbers(longer)[i] = longer[i].id
    BY <1>1, <1>5 DEF Numbers
  <1> DEFINE grown == Append(Numbers(chain), e.id)
  <1>7. /\ grown \in Seq(Nat) /\ Len(grown) = Len(chain) + 1
        /\ grown[Len(chain) + 1] = e.id
        /\ \A i \in 1..Len(chain) : grown[i] = chain[i].id
    BY <1>3, <1>4, AppendProperties
  <1> HIDE DEF grown
  <1>8. \A i \in 1..(Len(chain) + 1) : Numbers(longer)[i] = grown[i]
    BY <1>1, <1>6, <1>7
  <1>9. Numbers(longer) = grown
    BY <1>6, <1>7, <1>8, SeqEqual
  <1> QED BY <1>9 DEF longer, grown

LEMMA EntersLogs ==
  ASSUME ArtInv, Readable, NEW r \in ReceiptBodies, r.id \in 1..jobs, Enters(r)
  PROVE  LogStep \/ Seen' = Seen
PROOF
  <1> DEFINE e == Entry(Entries, r)
  <1>1. Entries \in Seq(LedgerEntries)
    BY EntriesAre DEF ArtInv, TypesHold
  <1>2. e \in LedgerEntries /\ e.id = r.id
    BY <1>1, EntryIs
  <1> HIDE DEF e
  <1>3. CASE Readable' /\ Entries' = Entries
    BY <1>3 DEF Seen, Numbers
  <1>4. CASE Readable' /\ Entries' = Append(Entries, e)
    <2>1. Numbers(Append(Entries, e)) = Append(Numbers(Entries), r.id)
      BY <1>1, <1>2, NumbersGrow
    <2>2. Seen = Numbers(Entries) /\ Seen' = Append(Seen, r.id)
      BY <1>4, <2>1 DEF Seen, Numbers
    <2>3. Seen # Unreadable
      <3> SUFFICES ASSUME Seen = Unreadable PROVE FALSE
        OBVIOUS
      <3>1. Len(Entries) = 1
        <4>1. DOMAIN Numbers(Entries) = 1..Len(Entries) /\ DOMAIN Unreadable = 1..1
          BY DEF Numbers, Unreadable
        <4> QED BY <1>1, <2>2, <4>1
      <3>2. Numbers(Entries)[1] = Entries[1].id
        BY <3>1 DEF Numbers
      <3>3. Entries[1].id \in 1..jobs
        BY <3>1, EntriesKnown DEF ArtInv, TypesHold
      <3> QED BY <2>2, <3>2, <3>3 DEF Unreadable
    <2>4. r.id \in 1..MaxJobs
      BY ArtefactsAssumption DEF ArtInv, TypesHold
    <2> QED BY <2>2, <2>3, <2>4 DEF LogStep, Log!Enter, Seen, Numbers, Unreadable
  <1>5. CASE ~Readable'
    BY <1>5 DEF LogStep, Log!Lose, Seen, Unreadable
  <1> QED BY <1>3, <1>4, <1>5 DEF Enters, e

\* The ledger is a log to which entries are only ever added, or one that can no
\* longer be read, never one with another history (EpisodeLog.tla).
THEOREM LedgerOnlyGrowsHolds == ArtSpec => LedgerOnlyGrows
PROOF
  <1>1. ArtInit => Seen = <<>>
    <2> SUFFICES ASSUME ArtInit PROVE Seen = <<>>
      OBVIOUS
    <2>1. Lines = <<>> /\ Entries = <<>>
      BY DEF ArtInit, Lines, Entries, Headed
    <2> QED BY <2>1 DEF Seen, Readable, Numbers
  <1>2. ArtInv /\ [ArtNext]_artVars => [LogStep]_Seen
    <2> SUFFICES ASSUME ArtInv, [ArtNext]_artVars PROVE LogStep \/ Seen' = Seen
      OBVIOUS
    <2>1. CASE ledger' = ledger
      BY <2>1, LedgerSame DEF Seen, Numbers
    <2>2. CASE AppendLedger
      <3>1. /\ stage = "ledger" /\ job \in ReceiptBodies /\ job.id \in 1..jobs /\ Readable
            /\ ledger' = Appended(job)
        BY <2>2 DEF AppendLedger, ArtInv, InFlight
      <3>2. Enters(job)
        BY <3>1, AppendedIs DEF ArtInv, TypesHold
      <3> QED BY <3>1, <3>2, EntersLogs
    <2>3. CASE CutLedger
      <3>1. /\ stage = "ledger" /\ job \in ReceiptBodies /\ job.id \in 1..jobs /\ Readable
            /\ ledger' \in AppendCutShort(job)
        BY <2>3 DEF CutLedger, ArtInv, InFlight
      <3>2. Enters(job)
        BY <3>1, AppendEnters DEF ArtInv, TypesHold
      <3> QED BY <3>1, <3>2, EntersLogs
    <2>4. ASSUME NEW key \in Keys, EnterByHand(key)
          PROVE  LogStep \/ Seen' = Seen
      <3>1. /\ Readable /\ receipts[key] \in ReceiptBodies /\ receipts[key].id \in 1..jobs
            /\ ledger' \in AppendCutShort(receipts[key])
        BY <2>4 DEF EnterByHand, ArtInv, TypesHold, Kept
      <3>2. Enters(receipts[key])
        BY <3>1, AppendEnters DEF ArtInv, TypesHold
      <3> QED BY <3>1, <3>2, EntersLogs
    <2>5. CASE UNCHANGED artVars
      BY <2>1, <2>5 DEF artVars
    <2>6. ASSUME NEW k \in Keys, NEW n \in Lengths, NEW p \in Policies, Sign(k, n, p)
          PROVE  ledger' = ledger
      BY <2>6 DEF Sign
    <2>7. CASE WriteReceipt \/ WriteTicks \/ WriteTiming \/ CutReceipt \/ CutTicks \/ CutTiming
      BY <2>1, <2>7 DEF WriteReceipt, WriteTicks, WriteTiming, CutReceipt, CutTicks, CutTiming
    <2> QED BY <2>1, <2>2, <2>3, <2>4, <2>5, <2>6, <2>7 DEF ArtNext
  <1>3. LedgerOnlyGrows <=> (Seen = <<>> /\ [][LogStep]_Seen)
    BY DEF LedgerOnlyGrows, Log!LogSpec, LogStep, Seen, Numbers, Unreadable
  <1> QED BY <1>1, <1>2, <1>3, ArtInvHolds, PTL DEF ArtSpec
=============================================================================

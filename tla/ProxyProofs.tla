------------------------------ MODULE ProxyProofs ------------------------------
(***************************************************************************)
(* The proxy's safety properties for any number of frames, rows per frame, *)
(* connections and deaths.                                                 *)
(***************************************************************************)
EXTENDS Proxy, TLAPS

ProxyTypeOK ==
  /\ at \in {"idle", "begin", "tick", "end", "crash", "close", "gone"}
  /\ row \in Nat /\ frames \in Nat /\ t \in Nat /\ next_seq \in Nat
  /\ c_seq \in Nat /\ c_staging \in Nat
  /\ closing \in BOOLEAN /\ open \in BOOLEAN /\ faulted \in BOOLEAN
  /\ dead \in BOOLEAN /\ killed \in BOOLEAN /\ waiting \in BOOLEAN
  /\ up \in BOOLEAN /\ c_ep \in BOOLEAN

\* Where an episode is open, and where an answer is awaited.
Places ==
  /\ at = "tick" => open
  /\ at \in {"begin", "crash"} => ~open
  /\ waiting => at \in {"begin", "tick", "end"} /\ (at = "end" => ~open)

\* Who was given up on is gone.
Gone == killed \/ dead \/ at = "crash" => ~up

\* Between two requests the child has nothing of its own.
Settled ==
  ~waiting /\ up =>
    /\ inbox = None /\ outbox = None
    /\ c_ep => open /\ t = c_seq /\ next_seq = c_staging

AskedBegin ==
  /\ t = 0 /\ next_seq = 0
  /\ inbox # None => inbox.kind = "begin" /\ ~c_ep
  /\ outbox # None /\ c_ep => c_seq = 0 /\ c_staging = 0

AskedTick ==
  /\ inbox # None =>
       /\ inbox.kind = "tick"
       /\ c_ep => /\ t = c_seq
                  /\ IF inbox.chunk = None THEN next_seq = c_staging
                     ELSE inbox.chunk = c_staging /\ next_seq = c_staging + 1
  /\ outbox # None /\ c_ep => c_seq = t + 1 /\ c_staging = next_seq

AskedEnd ==
  /\ ~open
  /\ inbox # None => inbox.kind = "end" /\ (c_ep => inbox.steps = c_seq)
  /\ outbox # None => ~c_ep

\* While the child is asked, its answer is yet to come or is on its way.
Asked ==
  waiting /\ up =>
    /\ inbox = None \/ outbox = None
    /\ at = "begin" => AskedBegin
    /\ at = "tick" => AskedTick
    /\ at = "end" => AskedEnd

Receipts == receipt # None => receipt.steps = receipt.ticks

ProxyInv ==
  ProxyTypeOK /\ Places /\ Gone /\ Settled /\ Asked /\ Receipts

LEMMA ProxyStart == ProxyInit => ProxyInv
PROOF
  <1> SUFFICES ASSUME ProxyInit PROVE ProxyInv OBVIOUS
  <1>1. ProxyTypeOK
    BY DEF ProxyInit, ProxyTypeOK
  <1>3. Places /\ Gone
    BY DEF ProxyInit, Places, Gone
  <1>2. Settled /\ Asked /\ Receipts
    BY DEF ProxyInit, Settled, Asked, Receipts
  <1> QED BY <1>1, <1>3, <1>2 DEF ProxyInv

\* Giving up ends whatever was asked.
LEMMA GivenUp ==
  ASSUME ProxyInv, at \in {"begin", "tick", "end"}, Faulted, Kill,
         at = "end" \/ UNCHANGED open,
         open' \in BOOLEAN, at = "end" => ~open', 
         next_seq' \in Nat, UNCHANGED <<closing, frames, childVars>>
  PROVE  ProxyInv'
PROOF
  <1>1. /\ up' = FALSE /\ waiting' = FALSE /\ killed' = TRUE
        /\ at' \in {"tick", "idle", "close"} /\ (at' = "tick" => open')
    BY DEF Kill, Faulted, Hold, ProxyInv, Places
  <1>2. ProxyTypeOK'
    <2>1. CASE at = "tick"
      <3>1. /\ dead' = TRUE /\ faulted' = TRUE /\ row' = row + 1
            /\ UNCHANGED <<at, open, t>>
        BY <2>1 DEF Faulted
      <3>2. row' \in Nat /\ t' \in Nat /\ dead' \in BOOLEAN /\ faulted' \in BOOLEAN
        BY <3>1 DEF ProxyInv, ProxyTypeOK
      <3> QED BY <1>1, <3>2 DEF childVars, ProxyInv, ProxyTypeOK
    <2>2. CASE at # "tick"
      <3>1. UNCHANGED <<row, open, t, faulted, dead>>
        BY <2>2 DEF Faulted
      <3> QED BY <1>1, <3>1 DEF childVars, ProxyInv, ProxyTypeOK
    <2> QED BY <2>1, <2>2
  <1>3. Places' /\ Gone' /\ Settled' /\ Asked'
    BY <1>1 DEF Places, Gone, Settled, Asked
  <1>4. Receipts'
    BY DEF childVars, ProxyInv, Receipts
  <1> QED BY <1>2, <1>3, <1>4 DEF ProxyInv

\* Steps that touch neither the child nor the pipes.
LEMMA QuietStep ==
  ASSUME ProxyInv, ~waiting, UNCHANGED <<pipeVars, childVars, epVars>>,
         row' \in Nat, frames' \in Nat, closing' \in BOOLEAN,
         at' \in {"idle", "begin", "tick", "end", "close"},
         at' = "tick" => open, at' = "begin" => ~open
  PROVE  ProxyInv'
PROOF
  <1>1. ProxyTypeOK'
    BY DEF ProxyInv, ProxyTypeOK, pipeVars, childVars, epVars
  <1>2. Places' /\ Gone'
    BY DEF ProxyInv, Places, Gone, pipeVars, epVars
  <1>3. Settled' /\ Asked' /\ Receipts'
    BY DEF ProxyInv, Settled, Asked, Receipts, pipeVars, childVars, epVars
  <1> QED BY <1>1, <1>2, <1>3 DEF ProxyInv

LEMMA EndKeeps == ProxyInv /\ EndEpisode => ProxyInv'
PROOF
  <1> SUFFICES ASSUME ProxyInv, EndEpisode PROVE ProxyInv' OBVIOUS
  <1>1. /\ at = "end" /\ ~waiting /\ open' = FALSE
        /\ UNCHANGED <<row, closing, frames, t, next_seq, faulted, dead, childVars>>
    BY DEF EndEpisode
  <1>2. CASE dead
    <2>1. at' = "crash" /\ UNCHANGED pipeVars /\ ~up
      BY <1>2 DEF EndEpisode, ProxyInv, Gone
    <2>2. ProxyTypeOK'
      BY <1>1, <2>1 DEF ProxyInv, ProxyTypeOK, pipeVars, childVars
    <2>3. Places' /\ Gone' /\ Settled' /\ Asked' /\ Receipts'
      BY <1>1, <2>1 DEF ProxyInv, Places, Gone, Settled, Asked, Receipts, pipeVars, childVars
    <2> QED BY <2>2, <2>3 DEF ProxyInv
  <1>3. CASE ~dead /\ Alive
    <2>1. /\ inbox' = [kind |-> "end", steps |-> t] /\ waiting' = TRUE /\ at' = at
          /\ UNCHANGED <<killed, up, outbox>> /\ up /\ outbox = None
      BY <1>1, <1>3 DEF EndEpisode, Send, Alive, ProxyInv, Settled
    <2>2. AskedEnd'
      BY <1>1, <2>1 DEF AskedEnd, ProxyInv, Settled, childVars
    <2>3. ProxyTypeOK'
      BY <1>1, <2>1 DEF ProxyInv, ProxyTypeOK, childVars
    <2>4. Places' /\ Gone' /\ Settled' /\ Receipts'
      BY <1>1, <2>1 DEF ProxyInv, Places, Gone, Settled, Receipts, childVars
    <2>5. Asked'
      BY <1>1, <2>1, <2>2 DEF Asked
    <2> QED BY <2>3, <2>4, <2>5 DEF ProxyInv
  <1>4. CASE ~dead /\ ~Alive
    <2>1. at' \in {"close", "idle"} /\ waiting' = FALSE /\ killed' = TRUE /\ up' = FALSE
      BY <1>4 DEF EndEpisode, Hold, Kill
    <2>2. ProxyTypeOK'
      BY <1>1, <2>1 DEF ProxyInv, ProxyTypeOK, childVars
    <2>3. Places' /\ Gone' /\ Settled' /\ Asked' /\ Receipts'
      BY <1>1, <2>1 DEF ProxyInv, Places, Gone, Settled, Asked, Receipts, childVars
    <2> QED BY <2>2, <2>3 DEF ProxyInv
  <1> QED BY <1>2, <1>3, <1>4

LEMMA CrashKeeps == ProxyInv /\ CrashReceipt => ProxyInv'
PROOF
  <1> SUFFICES ASSUME ProxyInv, CrashReceipt PROVE ProxyInv' OBVIOUS
  <1>1. ~waiting /\ ~open /\ at' \in {"close", "begin"}
    BY DEF CrashReceipt, AfterEnd, ProxyInv, Places
  <1> QED BY <1>1, QuietStep DEF CrashReceipt, ProxyInv, ProxyTypeOK

LEMMA BeginKeeps == ProxyInv /\ BeginEpisode => ProxyInv'
PROOF
  <1> SUFFICES ASSUME ProxyInv, BeginEpisode PROVE ProxyInv' OBVIOUS
  <1>1. /\ at = "begin" /\ ~waiting /\ ~open
        /\ t' = 0 /\ next_seq' = 0 /\ faulted' = FALSE /\ dead' = FALSE
        /\ UNCHANGED <<row, closing, frames, open, childVars>>
    BY DEF BeginEpisode, ResetEpisode, ProxyInv, Places
  <1>2. CASE Alive
    <2>1. /\ inbox' = [kind |-> "begin"] /\ waiting' = TRUE /\ at' = at
          /\ UNCHANGED <<killed, up, outbox>> /\ up /\ ~killed /\ outbox = None /\ ~c_ep
      BY <1>1, <1>2 DEF BeginEpisode, Send, Alive, ProxyInv, Settled
    <2>2. AskedBegin'
      BY <1>1, <2>1 DEF AskedBegin, childVars
    <2>3. ProxyTypeOK'
      BY <1>1, <2>1 DEF ProxyInv, ProxyTypeOK, childVars
    <2>4. Places' /\ Gone' /\ Settled' /\ Receipts'
      BY <1>1, <2>1 DEF ProxyInv, Places, Gone, Settled, Receipts, childVars
    <2>5. Asked'
      BY <1>1, <2>1, <2>2 DEF Asked
    <2> QED BY <2>3, <2>4, <2>5 DEF ProxyInv
  <1>3. CASE ~Alive
    <2>1. at' \in {"close", "idle"} /\ waiting' = FALSE /\ killed' = TRUE /\ up' = FALSE
      BY <1>3 DEF BeginEpisode, Hold, Kill
    <2>2. ProxyTypeOK'
      BY <1>1, <2>1 DEF ProxyInv, ProxyTypeOK, childVars
    <2>3. Places' /\ Gone' /\ Settled' /\ Asked' /\ Receipts'
      BY <1>1, <2>1 DEF ProxyInv, Places, Gone, Settled, Asked, Receipts, childVars
    <2> QED BY <2>2, <2>3 DEF ProxyInv
  <1> QED BY <1>2, <1>3

LEMMA TickKeeps == ProxyInv /\ TickRow => ProxyInv'
PROOF
  <1> SUFFICES ASSUME ProxyInv, TickRow PROVE ProxyInv' OBVIOUS
  <1>1. at = "tick" /\ ~waiting /\ open /\ UNCHANGED <<closing, frames, childVars>>
    BY DEF TickRow, ProxyInv, Places
  <1>2. CASE dead \/ faulted
    <2>1. row' = row + 1 /\ UNCHANGED <<epVars, pipeVars, at>>
      BY <1>2 DEF TickRow
    <2> QED BY <1>1, <2>1, QuietStep DEF ProxyInv, ProxyTypeOK
  <1>3. CASE ~(dead \/ faulted)
    <2>1. next_seq' = (IF row = 0 THEN next_seq + 1 ELSE next_seq) /\ next_seq' \in Nat
      BY <1>3 DEF TickRow, ProxyInv, ProxyTypeOK
    <2>2. CASE ~Alive
      <3>1. Faulted /\ Kill
        BY <1>3, <2>2 DEF TickRow
      <3> QED BY <1>1, <2>1, <3>1, GivenUp DEF Faulted, ProxyInv, ProxyTypeOK
    <2>3. CASE Alive
      <3>1. /\ inbox' = [kind |-> "tick", chunk |-> IF row = 0 THEN next_seq ELSE None]
            /\ waiting' = TRUE /\ UNCHANGED <<killed, up, outbox>>
            /\ UNCHANGED <<row, open, t, faulted, dead, at>>
        BY <1>3, <2>3 DEF TickRow, Send
      <3>2. up /\ ~killed /\ outbox = None /\ (c_ep => t = c_seq /\ next_seq = c_staging)
            /\ next_seq \in Nat /\ next_seq # None
        BY <1>1, <2>3, ProxyAssumption DEF Alive, ProxyInv, Settled, ProxyTypeOK
      <3>3. AskedTick'
        BY <1>1, <2>1, <3>1, <3>2 DEF AskedTick, childVars
      <3>4. ProxyTypeOK'
        BY <1>1, <2>1, <3>1 DEF ProxyInv, ProxyTypeOK, childVars
      <3>5. Places' /\ Gone' /\ Settled' /\ Receipts'
        BY <1>1, <3>1 DEF ProxyInv, Places, Gone, Settled, Receipts, childVars
      <3>6. Asked'
        BY <1>1, <3>1, <3>2, <3>3 DEF Asked
      <3> QED BY <3>4, <3>5, <3>6 DEF ProxyInv
    <2> QED BY <2>2, <2>3
  <1> QED BY <1>2, <1>3

LEMMA ReceiveKeeps == ProxyInv /\ Receive => ProxyInv'
PROOF
  <1> SUFFICES ASSUME ProxyInv, Receive PROVE ProxyInv' OBVIOUS
  <1>1. /\ waiting /\ outbox # None /\ at \in {"begin", "tick", "end"}
        /\ UNCHANGED <<closing, frames, next_seq, childVars>>
    BY DEF Receive, ProxyInv, Places
  <1>2. CASE outbox = "error" /\ ~up
    <2>1. Faulted /\ Kill
      BY <1>2 DEF Receive
    <2>2. UNCHANGED open /\ next_seq' \in Nat /\ (at = "end" => ~open)
      BY <1>1, <2>1 DEF Faulted, ProxyInv, ProxyTypeOK, Places
    <2> QED BY <1>1, <2>1, <2>2, GivenUp DEF ProxyInv, ProxyTypeOK
  <1>3. CASE ~(outbox = "error" /\ ~up)
    <2>1. /\ waiting' = FALSE /\ outbox' = None /\ UNCHANGED <<killed, up, inbox, dead>>
      BY <1>3 DEF Receive
    <2>2. up => inbox = None
      BY <1>1 DEF ProxyInv, Asked
    <2>3. Gone' /\ Asked' /\ Receipts'
      <3>1. at' # "crash"
        BY <1>1, <1>3 DEF Receive, AfterEnd
      <3> QED BY <1>1, <2>1, <3>1 DEF ProxyInv, Gone, Asked, Receipts, childVars
    <2>4. CASE at = "tick"
      <3>1. /\ row' = row + 1 /\ t' = t + 1 /\ faulted' = (outbox = "error")
            /\ UNCHANGED <<at, open>>
        BY <1>3, <2>4 DEF Receive
      <3>2. open /\ (up /\ c_ep => c_seq = t + 1 /\ c_staging = next_seq)
        BY <1>1, <2>4 DEF ProxyInv, Places, Asked, AskedTick
      <3>3. ProxyTypeOK'
        <4>1. faulted' \in BOOLEAN
          BY <3>1
        <4>2. row' \in Nat /\ t' \in Nat /\ at' = at /\ open' = open
          BY <3>1 DEF ProxyInv, ProxyTypeOK
        <4> QED BY <1>1, <2>1, <4>1, <4>2 DEF ProxyInv, ProxyTypeOK, childVars
      <3>4. Places'
        BY <1>1, <2>1, <2>4, <3>1, <3>2 DEF Places
      <3>5. Settled'
        BY <1>1, <2>1, <2>2, <3>1, <3>2 DEF Settled, childVars
      <3> QED BY <2>3, <3>3, <3>4, <3>5 DEF ProxyInv
    <2>5. CASE at = "begin"
      <3>1. open' = TRUE /\ at' = "tick" /\ UNCHANGED <<row, t, faulted>>
        BY <1>3, <2>5 DEF Receive
      <3>2. up /\ c_ep => t = 0 /\ next_seq = 0 /\ c_seq = 0 /\ c_staging = 0
        BY <1>1, <2>5 DEF ProxyInv, Asked, AskedBegin
      <3>3. ProxyTypeOK'
        BY <1>1, <2>1, <3>1 DEF ProxyInv, ProxyTypeOK, childVars
      <3>4. Places'
        BY <1>1, <2>1, <3>1 DEF ProxyInv, Places, childVars
      <3>5. Settled'
        BY <1>1, <2>1, <2>2, <3>1, <3>2 DEF Settled, childVars
      <3> QED BY <2>3, <3>3, <3>4, <3>5 DEF ProxyInv
    <2>6. CASE at = "end"
      <3>1. at' = AfterEnd /\ UNCHANGED <<row, open, t, faulted>>
        BY <1>3, <2>6 DEF Receive
      <3>2. up => ~c_ep
        BY <1>1, <2>6 DEF ProxyInv, Asked, AskedEnd
      <3>3. ProxyTypeOK'
        BY <1>1, <2>1, <3>1 DEF ProxyInv, ProxyTypeOK, AfterEnd, childVars
      <3>4. Places'
        BY <1>1, <2>1, <2>6, <3>1 DEF ProxyInv, Places, AfterEnd
      <3>5. Settled'
        BY <1>1, <2>1, <2>2, <3>1, <3>2 DEF Settled, childVars
      <3> QED BY <2>3, <3>3, <3>4, <3>5 DEF ProxyInv
    <2> QED BY <1>1, <2>4, <2>5, <2>6
  <1> QED BY <1>2, <1>3

LEMMA GiveUpKeeps == ProxyInv /\ GiveUp => ProxyInv'
PROOF
  <1> SUFFICES ASSUME ProxyInv, GiveUp PROVE ProxyInv' OBVIOUS
  <1>1. /\ at \in {"begin", "tick", "end"} /\ (at = "end" => ~open)
        /\ Faulted /\ Kill /\ UNCHANGED <<closing, frames, next_seq, childVars>>
    BY DEF GiveUp, ProxyInv, Places
  <1>2. UNCHANGED open /\ next_seq' \in Nat
    BY <1>1 DEF Faulted, ProxyInv, ProxyTypeOK
  <1> QED BY <1>1, <1>2, GivenUp DEF ProxyInv, ProxyTypeOK

\* Frames come and are answered, the client leaves: the child is not involved.
LEMMA FrameKeeps ==
  ASSUME NEW reset \in BOOLEAN PROVE ProxyInv /\ Frame(reset) => ProxyInv'
PROOF
  <1> SUFFICES ASSUME ProxyInv, Frame(reset) PROVE ProxyInv' OBVIOUS
  <1>1. ~waiting /\ row' \in Nat /\ frames' \in Nat /\ closing' \in BOOLEAN
    BY DEF Frame, ProxyInv, ProxyTypeOK, Places
  <1>2. /\ at' \in {"end", "tick", "begin"}
        /\ at' = "tick" => open
        /\ at' = "begin" => ~open
    BY DEF Frame
  <1> QED BY <1>1, <1>2, QuietStep DEF Frame

LEMMA QuietKeeps ==
  ProxyInv /\ (BadFrame \/ Misshapen \/ Answer \/ Disconnect) => ProxyInv'
PROOF
  <1> SUFFICES ASSUME ProxyInv, BadFrame \/ Misshapen \/ Answer \/ Disconnect
               PROVE  ProxyInv'
    OBVIOUS
  <1>0. ~waiting /\ row \in Nat /\ frames + 1 \in Nat /\ frames \in Nat /\ closing \in BOOLEAN
    BY DEF BadFrame, Misshapen, Answer, Disconnect, ProxyInv, ProxyTypeOK, Places
  <1>1. /\ row' = row /\ (frames' = frames + 1 \/ frames' = frames)
        /\ closing' = closing \/ closing' = TRUE
        /\ UNCHANGED <<pipeVars, childVars, epVars>>
    BY DEF BadFrame, Misshapen, Answer, Disconnect
  <1>2. at' \in {"idle", "end", "close"}
    BY DEF BadFrame, Misshapen, Answer, Disconnect, Hold, ProxyInv
  <1>3. row' \in Nat /\ frames' \in Nat /\ closing' \in BOOLEAN
    BY <1>0, <1>1
  <1> QED BY <1>0, <1>1, <1>2, <1>3, QuietStep

LEMMA CloseKeeps == ProxyInv /\ (Close \/ Connect) => ProxyInv'
PROOF
  <1> SUFFICES ASSUME ProxyInv, Close \/ Connect PROVE ProxyInv' OBVIOUS
  <1>1. CASE Close
    <2>1. /\ at' = "gone" /\ waiting' = FALSE /\ killed' = TRUE /\ up' = FALSE
          /\ UNCHANGED <<row, closing, frames, epVars, childVars>>
      BY <1>1 DEF Close, Kill
    <2>2. ProxyTypeOK'
      BY <2>1 DEF ProxyInv, ProxyTypeOK, epVars, childVars
    <2>3. Places' /\ Gone' /\ Settled' /\ Asked' /\ Receipts'
      BY <2>1 DEF ProxyInv, Places, Gone, Settled, Asked, Receipts, epVars, childVars
    <2> QED BY <2>2, <2>3 DEF ProxyInv
  <1>2. CASE Connect
    <2>1. ProxyTypeOK'
      BY <1>2 DEF Connect, ResetEpisode, ProxyInv, ProxyTypeOK
    <2>2. Places' /\ Gone' /\ Settled' /\ Asked' /\ Receipts'
      BY <1>2 DEF Connect, ResetEpisode, Places, Gone, Settled, Asked, Receipts
    <2> QED BY <2>1, <2>2 DEF ProxyInv
  <1> QED BY <1>1, <1>2

\* The child answers a request in hand; it gets none unless asked.
LEMMA ChildKeeps == ProxyInv /\ ChildHandles => ProxyInv'
PROOF
  <1> SUFFICES ASSUME ProxyInv, ChildHandles PROVE ProxyInv' OBVIOUS
  <1>1. /\ up /\ inbox # None /\ outbox = None /\ UNCHANGED <<proxyVars, epVars>>
        /\ waiting /\ at \in {"begin", "tick", "end"}
    BY DEF ChildHandles, ProxyInv, Places, Settled
  <1>2. ASSUME inbox' = None, UNCHANGED <<killed, waiting, up>>,
               c_ep' \in BOOLEAN, c_seq' \in Nat, c_staging' \in Nat,
               at = "begin" => AskedBegin', at = "tick" => AskedTick',
               at = "end" => AskedEnd', Receipts'
        PROVE  ProxyInv'
    <2>1. ProxyTypeOK'
      BY <1>1, <1>2 DEF ProxyInv, ProxyTypeOK, proxyVars, epVars
    <2>2. Places' /\ Gone' /\ Settled'
      BY <1>1, <1>2 DEF ProxyInv, Places, Gone, Settled, proxyVars, epVars
    <2>3. Asked'
      BY <1>1, <1>2 DEF Asked, proxyVars
    <2> QED BY <1>2, <2>1, <2>2, <2>3 DEF ProxyInv
  <1>3. CASE at = "begin"
    <2>1. AskedBegin /\ inbox.kind = "begin" /\ ~c_ep
      BY <1>1, <1>3 DEF ProxyInv, Asked, AskedBegin
    <2>2. ChildBegins
      BY <2>1 DEF ChildHandles
    <2>3. /\ inbox' = None /\ UNCHANGED <<killed, waiting, up, receipt>>
          /\ \/ UNCHANGED <<c_ep, c_seq, c_staging>>
             \/ c_ep' = TRUE /\ c_seq' = 0 /\ c_staging' = 0
      BY <2>2 DEF ChildBegins, Says, childVars
    <2>4. AskedBegin' /\ Receipts'
      BY <1>1, <2>1, <2>3 DEF AskedBegin, ProxyInv, Receipts, epVars
    <2>5. c_ep' \in BOOLEAN /\ c_seq' \in Nat /\ c_staging' \in Nat
      <3>1. c_ep \in BOOLEAN /\ c_seq \in Nat /\ c_staging \in Nat /\ 0 \in Nat
        BY DEF ProxyInv, ProxyTypeOK
      <3>2. c_ep' = c_ep \/ c_ep' = TRUE
        BY <2>3
      <3>3. c_ep' \in BOOLEAN
        BY <3>1, <3>2
      <3>4. c_seq' \in Nat /\ c_staging' \in Nat
        BY <2>3, <3>1
      <3> QED BY <3>3, <3>4
    <2> QED BY <1>2, <1>3, <2>3, <2>4, <2>5
  <1>4. CASE at = "tick"
    <2>1. AskedTick /\ inbox.kind = "tick"
      BY <1>1, <1>4 DEF ProxyInv, Asked, AskedTick
    <2>2. ChildTicks
      BY <2>1 DEF ChildHandles
    <2>3. inbox' = None /\ UNCHANGED <<killed, waiting, up, receipt, c_ep, t, next_seq>>
      BY <1>1, <2>2 DEF ChildTicks, Says, childVars, epVars
    <2>4. CASE c_ep
      <3>1. /\ t = c_seq
            /\ IF inbox.chunk = None THEN next_seq = c_staging
               ELSE inbox.chunk = c_staging /\ next_seq = c_staging + 1
        BY <1>1, <2>1, <2>4 DEF AskedTick
      <3>2. c_seq' = c_seq + 1 /\ c_staging' = next_seq
        BY <2>2, <2>4, <3>1 DEF ChildTicks
      <3> QED BY <1>2, <1>4, <2>3, <3>1, <3>2 DEF AskedTick, ProxyInv, ProxyTypeOK, Receipts
    <2>5. CASE ~c_ep
      <3>1. UNCHANGED childVars
        BY <2>2, <2>5 DEF ChildTicks
      <3> QED BY <1>2, <1>4, <2>3, <2>5, <3>1
              DEF AskedTick, ProxyInv, ProxyTypeOK, Receipts, childVars
    <2> QED BY <2>4, <2>5
  <1>5. CASE at = "end"
    <2>1. AskedEnd /\ inbox.kind = "end" /\ (c_ep => inbox.steps = c_seq)
      BY <1>1, <1>5 DEF ProxyInv, Asked, AskedEnd
    <2>2. ChildEnds
      BY <2>1 DEF ChildHandles
    <2>3. /\ inbox' = None /\ UNCHANGED <<killed, waiting, up, open, c_seq, c_staging>>
          /\ c_ep' = FALSE
      BY <1>1, <2>2 DEF ChildEnds, Says, epVars
    <2>4. Receipts'
      BY <2>1, <2>2 DEF ChildEnds, ProxyInv, Receipts
    <2> QED BY <1>2, <1>5, <2>1, <2>3, <2>4 DEF AskedEnd, ProxyInv, ProxyTypeOK
  <1> QED BY <1>1, <1>3, <1>4, <1>5

LEMMA DeathKeeps == ProxyInv /\ ChildDies => ProxyInv'
PROOF
  <1> SUFFICES ASSUME ProxyInv, ChildDies PROVE ProxyInv' OBVIOUS
  <1>1. up' = FALSE /\ UNCHANGED <<proxyVars, epVars, killed, waiting, inbox, outbox, childVars>>
    BY DEF ChildDies
  <1>2. ProxyTypeOK'
    BY <1>1 DEF ProxyInv, ProxyTypeOK, proxyVars, epVars, childVars
  <1>3. Places' /\ Gone' /\ Settled' /\ Asked' /\ Receipts'
    BY <1>1 DEF ProxyInv, Places, Gone, Settled, Asked, Receipts, proxyVars, epVars, childVars
  <1> QED BY <1>2, <1>3 DEF ProxyInv

LEMMA ProxyStep == ProxyInv /\ [ProxyNext]_allVars => ProxyInv'
PROOF
  <1> SUFFICES ASSUME ProxyInv, [ProxyNext]_allVars PROVE ProxyInv' OBVIOUS
  <1>1. CASE HostSteps
    BY <1>1, EndKeeps, CrashKeeps, BeginKeeps, QuietKeeps, TickKeeps, ReceiveKeeps,
       GiveUpKeeps, CloseKeeps DEF HostSteps
  <1>2. CASE BadFrame \/ Disconnect
    BY <1>2, QuietKeeps
  <1>3. CASE \E reset \in BOOLEAN : Frame(reset)
    BY <1>3, FrameKeeps
  <1>4. CASE Connect
    BY <1>4, CloseKeeps
  <1>5. CASE ChildHandles
    BY <1>5, ChildKeeps
  <1>6. CASE ChildDies
    BY <1>6, DeathKeeps
  <1>7. CASE UNCHANGED allVars
    <2>1. UNCHANGED <<proxyVars, epVars, pipeVars, childVars>>
      BY <1>7 DEF allVars
    <2>2. ProxyTypeOK' /\ Places' /\ Gone'
      BY <2>1 DEF ProxyInv, ProxyTypeOK, Places, Gone, proxyVars, epVars, pipeVars, childVars
    <2>3. Settled' /\ Asked' /\ Receipts'
      BY <2>1 DEF ProxyInv, Settled, Asked, AskedBegin, AskedTick, AskedEnd, Receipts,
                  proxyVars, epVars, pipeVars, childVars
    <2> QED BY <2>2, <2>3 DEF ProxyInv
  <1> QED BY <1>1, <1>2, <1>3, <1>4, <1>5, <1>6, <1>7 DEF ProxyNext

\* The inductive invariant: where the proxy stands, what the child it asked may
\* have answered, and that the numbers of both move together.
THEOREM ProxyInvariance == ProxySpec => []ProxyInv
PROOF
  <1>1. ProxyInit => ProxyInv BY ProxyStart
  <1>2. ProxyInv /\ [ProxyNext]_allVars => ProxyInv' BY ProxyStep
  <1> QED BY <1>1, <1>2, PTL DEF ProxySpec

\* Host and child never disagree on tick or chunk numbers, and a receipt binds
\* as many steps as were ticked: no desync fault comes from the host's own order
\* of calls.
THEOREM NumbersNeverPart == ProxySpec => []NumbersAgree
PROOF
  <1>1. ProxyInv => NumbersAgree
    BY DEF ProxyInv, Settled, Receipts, NumbersAgree, Alive
  <1> QED BY <1>1, ProxyInvariance, PTL

\* A crash receipt has the ledger to itself.
THEOREM CrashReceiptAlone == ProxySpec => []SingleWriter
PROOF
  <1>1. ProxyInv => SingleWriter
    BY DEF ProxyInv, Gone, SingleWriter
  <1> QED BY <1>1, ProxyInvariance, PTL

-----------------------------------------------------------------------------
(* How long a frame can take.                                              *)

\* A row is awaited only while one is left.
RowsLeft == row <= ExecSteps /\ (at = "tick" /\ waiting => row < ExecSteps)

\* The child changes nothing of the proxy's.
LEMMA ChildApart ==
  ProxyInv /\ (ChildHandles \/ ChildDies)
    => UNCHANGED <<proxyVars, epVars, killed, waiting>>
PROOF
  <1> SUFFICES ASSUME ProxyInv, ChildHandles \/ ChildDies
               PROVE  UNCHANGED <<proxyVars, epVars, killed, waiting>>
    OBVIOUS
  <1>1. CASE ChildDies
    BY <1>1 DEF ChildDies
  <1>2. CASE ChildHandles
    <2>1. /\ up /\ inbox # None /\ UNCHANGED <<proxyVars, epVars>>
          /\ waiting /\ at \in {"begin", "tick", "end"}
      BY <1>2 DEF ChildHandles, ProxyInv, Places, Settled
    <2>2. inbox.kind \in {"begin", "tick", "end"}
      BY <2>1 DEF ProxyInv, Asked, AskedBegin, AskedTick, AskedEnd
    <2>3. ChildBegins \/ ChildTicks \/ ChildEnds
      BY <1>2, <2>2 DEF ChildHandles
    <2>4. UNCHANGED <<killed, waiting>>
      <3>1. ASSUME ChildBegins PROVE UNCHANGED <<killed, waiting>>
        BY <3>1 DEF ChildBegins, Says
      <3>2. ASSUME ChildTicks PROVE UNCHANGED <<killed, waiting>>
        BY <3>2 DEF ChildTicks, Says
      <3>3. ASSUME ChildEnds PROVE UNCHANGED <<killed, waiting>>
        BY <3>3 DEF ChildEnds, Says
      <3> QED BY <2>3, <3>1, <3>2, <3>3
    <2> QED BY <2>1, <2>4
  <1> QED BY <1>1, <1>2

\* What a step of the proxy makes of the work left.
Nearer == Left > 0 /\ Left' < Left

LEMMA RowsStep == ProxyInv /\ RowsLeft /\ [ProxyNext]_allVars => RowsLeft'
PROOF
  <1> SUFFICES ASSUME ProxyInv, RowsLeft, [ProxyNext]_allVars PROVE RowsLeft'
    OBVIOUS
  <1>1. row \in Nat /\ ExecSteps \in Nat \ {0} /\ waiting \in BOOLEAN
        /\ (waiting => at \in {"begin", "tick", "end"})
    BY ProxyAssumption DEF ProxyInv, ProxyTypeOK, Places
  <1>2. CASE TickRow
    <2>1. /\ at = "tick" /\ row < ExecSteps
          /\ \/ row' = row + 1 /\ ~waiting'
             \/ row' = row
      BY <1>2 DEF TickRow, pipeVars, Faulted, Kill, Send
    <2> QED BY <1>1, <2>1 DEF RowsLeft
  <1>3. CASE Receive \/ GiveUp
    <2>1. /\ waiting /\ ~waiting'
          /\ row' = row \/ (at = "tick" /\ row' = row + 1)
      BY <1>1, <1>3 DEF Receive, GiveUp, Faulted, Kill
    <2> QED BY <1>1, <2>1 DEF RowsLeft
  <1>4. CASE EndEpisode \/ BeginEpisode
    <2>1. row' = row /\ (at' = "tick" => ~waiting')
      BY <1>4 DEF EndEpisode, BeginEpisode, Hold, Send
    <2> QED BY <1>1, <2>1 DEF RowsLeft
  <1>5. CASE CrashReceipt \/ Misshapen \/ Answer \/ BadFrame \/ Disconnect
    <2>1. row' = row /\ waiting' = waiting /\ ~waiting
      BY <1>1, <1>5 DEF CrashReceipt, Misshapen, Answer, BadFrame, Disconnect, pipeVars
    <2> QED BY <1>1, <2>1 DEF RowsLeft
  <1>6. CASE Close \/ Connect
    <2>1. row' \in {row, 0} /\ ~waiting'
      BY <1>6 DEF Close, Connect, Kill
    <2> QED BY <1>1, <2>1 DEF RowsLeft
  <1>7. CASE \E reset \in BOOLEAN : Frame(reset)
    <2>1. row' = 0
      BY <1>7 DEF Frame
    <2> QED BY <1>1, <2>1 DEF RowsLeft
  <1>8. CASE ChildHandles \/ ChildDies \/ UNCHANGED allVars
    <2>1. UNCHANGED <<proxyVars, epVars, killed, waiting>>
      BY <1>8, ChildApart DEF pipeVars, allVars
    <2> QED BY <2>1 DEF RowsLeft, proxyVars
  <1> QED BY <1>2, <1>3, <1>4, <1>5, <1>6, <1>7, <1>8 DEF ProxyNext, HostSteps

LEMMA HostNearer == ProxyInv /\ RowsLeft /\ HostSteps => Nearer
PROOF
  <1> SUFFICES ASSUME ProxyInv, RowsLeft, HostSteps PROVE Nearer
    OBVIOUS
  <1>1. /\ row \in Nat /\ ExecSteps \in Nat \ {0} /\ waiting \in BOOLEAN
        /\ at \in {"idle", "begin", "tick", "end", "crash", "close", "gone"}
        /\ (waiting => at \in {"begin", "tick", "end"})
    BY ProxyAssumption DEF ProxyInv, ProxyTypeOK, Places
  <1>2. row <= ExecSteps /\ (at = "tick" /\ waiting => row < ExecSteps)
    BY DEF RowsLeft
  <1> USE DEF Nearer, Left
  <1>3. CASE EndEpisode
    <2>1. /\ at = "end" /\ ~waiting /\ row' = row
          /\ (at' = "end" /\ waiting') \/ at' \in {"crash", "idle", "close"}
      BY <1>3 DEF EndEpisode, Send, Hold
    <2> QED BY <1>1, <1>2, <2>1
  <1>4. CASE CrashReceipt
    <2>1. at = "crash" /\ at' \in {"begin", "close"} /\ row' = row
      BY <1>4 DEF CrashReceipt, AfterEnd
    <2> QED BY <1>1, <1>2, <2>1
  <1>5. CASE BeginEpisode
    <2>1. /\ at = "begin" /\ ~waiting /\ row' = row
          /\ (at' = "begin" /\ waiting') \/ at' \in {"idle", "close"}
      BY <1>5 DEF BeginEpisode, Send, Hold
    <2> QED BY <1>1, <1>2, <2>1
  <1>6. CASE Misshapen \/ Answer
    <2>1. /\ at = "tick" /\ ~waiting
          /\ at' = "idle" \/ (row = 0 /\ at' = "close")
      BY <1>6 DEF Misshapen, Answer, Hold
    <2> QED BY <1>1, <1>2, <2>1
  <1>7. CASE TickRow
    <2>1. at = "tick" /\ ~waiting /\ row < ExecSteps
      BY <1>7 DEF TickRow
    <2>2. CASE dead \/ faulted
      <3>1. row' = row + 1 /\ at' = "tick" /\ ~waiting'
        BY <1>7, <2>1, <2>2 DEF TickRow, pipeVars
      <3> QED BY <1>1, <1>2, <2>1, <3>1
    <2>3. CASE ~(dead \/ faulted) /\ ~Alive
      <3>1. row' = row + 1 /\ at' = "tick" /\ ~waiting'
        BY <1>7, <2>1, <2>3 DEF TickRow, Faulted, Kill
      <3> QED BY <1>1, <1>2, <2>1, <3>1
    <2>4. CASE ~(dead \/ faulted) /\ Alive
      <3>1. row' = row /\ at' = "tick" /\ waiting'
        BY <1>7, <2>1, <2>4 DEF TickRow, Send
      <3> QED BY <1>1, <1>2, <2>1, <3>1
    <2> QED BY <2>2, <2>3, <2>4
  <1>8. CASE Receive \/ GiveUp
    <2>1. /\ waiting /\ ~waiting'
          /\ at = "tick" => at' = "tick" /\ row' = row + 1
          /\ at = "begin" => row' = row /\ at' \in {"idle", "close", "tick"}
          /\ at = "end" => row' = row /\ at' \in {"idle", "close", "begin"}
      BY <1>1, <1>8 DEF Receive, GiveUp, Faulted, Kill, Hold, AfterEnd
    <2> QED BY <1>1, <1>2, <2>1
  <1>9. CASE Close
    <2>1. at = "close" /\ at' = "gone"
      BY <1>9 DEF Close
    <2> QED BY <1>1, <1>2, <2>1
  <1> QED BY <1>3, <1>4, <1>5, <1>6, <1>7, <1>8, <1>9 DEF HostSteps

\* A frame is answered within 2 * ExecSteps + 5 steps of the proxy, and a
\* connection closed, whatever the child does in between.
THEOREM AnswersNear == ProxySpec => AnswersDrawNear
PROOF
  <1>1. ProxyInit => RowsLeft
    BY ProxyAssumption DEF ProxyInit, RowsLeft
  <1>2. ProxyInv /\ RowsLeft /\ [ProxyNext]_allVars => RowsLeft'
    BY RowsStep
  <1>3. ASSUME ProxyInv, RowsLeft, ProxyNext, at \notin {"idle", "gone"}
        PROVE  /\ Left > 0
               /\ Left' < Left \/ UNCHANGED <<proxyVars, epVars, killed, waiting>>
    <2>1. CASE HostSteps
      BY <1>3, <2>1, HostNearer DEF Nearer
    <2>2. CASE ChildHandles \/ ChildDies
      <3>1. UNCHANGED <<proxyVars, epVars, killed, waiting>>
        BY <1>3, <2>2, ChildApart
      <3>2. /\ row \in Nat /\ row <= ExecSteps /\ ExecSteps \in Nat \ {0}
            /\ at \in {"begin", "tick", "end", "crash", "close"}
            /\ at = "tick" /\ waiting => row < ExecSteps
        BY <1>3, ProxyAssumption DEF ProxyInv, ProxyTypeOK, RowsLeft
      <3>3. Left > 0
        BY <3>2 DEF Left
      <3> QED BY <3>1, <3>3
    <2>3. ~BadFrame /\ ~(\E reset \in BOOLEAN : Frame(reset)) /\ ~Disconnect /\ ~Connect
      BY <1>3 DEF BadFrame, Frame, Disconnect, Connect
    <2> QED BY <1>3, <2>1, <2>2, <2>3 DEF ProxyNext
  <1>4. ProxyInv /\ RowsLeft /\ [ProxyNext]_allVars
          => [at \notin {"idle", "gone"} =>
                /\ Left > 0
                /\ Left' < Left \/ UNCHANGED <<proxyVars, epVars, killed, waiting>>]_allVars
    BY <1>3
  <1> QED BY <1>1, <1>2, <1>4, ProxyInvariance, PTL DEF ProxySpec, AnswersDrawNear

-----------------------------------------------------------------------------
(* The same over whole runs.                                               *)

VARIABLE used    \* steps of the proxy since the frame came in or the client left

CountSteps ==
  used' = IF at \in {"idle", "gone"} THEN 0
          ELSE IF UNCHANGED <<proxyVars, epVars, killed, waiting>> THEN used
          ELSE used + 1

CountedProxy ==
  ProxyInit /\ used = 0 /\ [][ProxyNext /\ CountSteps]_<<allVars, used>>

\* The proxy answers a frame, or closes the connection, in two steps a row and
\* five for what comes around them: an episode ended with a crash receipt and
\* the next one begun, or a fault met at any of them, all included.
FramesAreShort == used <= 2 * ExecSteps + 5

UsedInv ==
  /\ used \in Nat
  /\ at \notin {"idle", "gone"} => used + Left <= 2 * ExecSteps + 5
  /\ used <= 2 * ExecSteps + 5

\* No call begins with more than that to do.
LEMMA LeftBounded ==
  ASSUME ProxyInv, RowsLeft
  PROVE  /\ Left \in Nat /\ Left <= 2 * ExecSteps + 5
         /\ at \notin {"idle", "gone"} => Left > 0
PROOF
  <1>1. /\ row \in Nat /\ ExecSteps \in Nat \ {0} /\ waiting \in BOOLEAN
        /\ at \in {"idle", "begin", "tick", "end", "crash", "close", "gone"}
    BY ProxyAssumption DEF ProxyInv, ProxyTypeOK
  <1>2. row <= ExecSteps /\ (at = "tick" /\ waiting => row < ExecSteps)
    BY DEF RowsLeft
  <1> QED BY <1>1, <1>2 DEF Left

LeftInRange == Left \in Nat /\ Left <= 2 * ExecSteps + 5

LEMMA UsedStep ==
  ProxyInv /\ RowsLeft /\ LeftInRange' /\ UsedInv
    /\ [ProxyNext /\ CountSteps]_<<allVars, used>> => UsedInv'
PROOF
  <1> SUFFICES ASSUME ProxyInv, RowsLeft, LeftInRange', UsedInv,
                      [ProxyNext /\ CountSteps]_<<allVars, used>>
               PROVE  UsedInv'
    OBVIOUS
  <1>1. /\ used \in Nat /\ used <= 2 * ExecSteps + 5 /\ ExecSteps \in Nat
        /\ at \notin {"idle", "gone"} => used + Left <= 2 * ExecSteps + 5
    BY ProxyAssumption DEF UsedInv
  <1>2. PICK left \in Nat : left = Left
    BY LeftBounded
  <1>3. PICK after \in Nat : after = Left' /\ after <= 2 * ExecSteps + 5
    BY DEF LeftInRange
  <1>4. PICK most \in Nat : most = 2 * ExecSteps + 5
    BY <1>1
  <1>5. SUFFICES /\ used' \in Nat /\ used' <= most
                 /\ at' \notin {"idle", "gone"} => used' + after <= most
    BY <1>3, <1>4 DEF UsedInv
  <1>6. CASE UNCHANGED <<allVars, used>>
    <2>1. UNCHANGED <<at, row, waiting, used>>
      BY <1>6 DEF allVars, proxyVars, pipeVars
    <2>2. after = left
      BY <1>2, <1>3, <2>1 DEF Left
    <2> QED BY <1>1, <1>2, <1>4, <2>1, <2>2
  <1>7. CASE ProxyNext /\ CountSteps /\ at \in {"idle", "gone"}
    <2>1. used' = 0
      BY <1>7 DEF CountSteps
    <2> QED BY <1>3, <1>4, <2>1
  <1>8. CASE ProxyNext /\ CountSteps /\ at \notin {"idle", "gone"}
    <2>1. used + left <= most /\ left > 0
      BY <1>1, <1>2, <1>4, <1>8, LeftBounded
    <2>2. CASE UNCHANGED <<proxyVars, epVars, killed, waiting>>
      <3>1. used' = used /\ UNCHANGED <<at, row, waiting>>
        BY <1>8, <2>2 DEF CountSteps, proxyVars
      <3>2. after = left
        BY <1>2, <1>3, <3>1 DEF Left
      <3> QED BY <1>1, <1>4, <2>1, <3>1, <3>2
    <2>3. CASE ~UNCHANGED <<proxyVars, epVars, killed, waiting>>
      <3>1. used' = used + 1
        BY <1>8, <2>3 DEF CountSteps
      <3>2. ~BadFrame /\ ~(\E reset \in BOOLEAN : Frame(reset)) /\ ~Disconnect /\ ~Connect
        BY <1>8 DEF BadFrame, Frame, Disconnect, Connect
      <3>3. HostSteps
        BY <1>8, <2>3, <3>2, ChildApart DEF ProxyNext
      <3>4. after < left
        BY <1>2, <1>3, <3>3, HostNearer DEF Nearer
      <3>5. PICK n \in Nat : n = used
        BY <1>1
      <3>6. n + 1 \in Nat /\ n + 1 <= most /\ n + 1 + after <= most
        BY <1>4, <2>1, <3>4, <3>5
      <3> QED BY <3>1, <3>5, <3>6
    <2> QED BY <2>2, <2>3
  <1> QED BY <1>6, <1>7, <1>8

\* Every frame is answered within 2 * ExecSteps + 5 steps of the proxy, counted
\* from the frame on, in every run and whatever the child does in between.
THEOREM FramesShort == CountedProxy => []FramesAreShort
PROOF
  <1>1. ProxyInit /\ used = 0 => RowsLeft /\ UsedInv
    <2> SUFFICES ASSUME ProxyInit, used = 0 PROVE RowsLeft /\ UsedInv
      OBVIOUS
    <2>1. at = "idle" /\ row = 0 /\ ExecSteps \in Nat \ {0}
      BY ProxyAssumption DEF ProxyInit
    <2> QED BY <2>1 DEF RowsLeft, UsedInv
  <1>2. ProxyInv /\ RowsLeft /\ [ProxyNext]_allVars => RowsLeft'
    BY RowsStep
  <1>3. ProxyInv /\ RowsLeft => LeftInRange
    BY LeftBounded DEF LeftInRange
  <1>4. ProxyInv /\ RowsLeft /\ LeftInRange' /\ UsedInv
          /\ [ProxyNext /\ CountSteps]_<<allVars, used>> => UsedInv'
    BY UsedStep
  <1>5. [ProxyNext /\ CountSteps]_<<allVars, used>> => [ProxyNext]_allVars
    BY DEF allVars
  <1>6. UsedInv => FramesAreShort
    BY DEF UsedInv, FramesAreShort
  <1> QED BY <1>1, <1>2, <1>3, <1>4, <1>5, <1>6, ProxyInvariance, PTL
          DEF ProxySpec, CountedProxy

=============================================================================

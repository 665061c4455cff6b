------------------------- MODULE SymbolCaptureProofs -------------------------
(***************************************************************************)
(* Proofs about one captured symbol, for every price grid, history,        *)
(* snapshot depth, row depth and interleaving, in three parts.  What holds *)
(* of every feed: types, the order of ids, the start task, that the depth  *)
(* state machine is driven as DepthStateMachine says, and that books and   *)
(* rows hold nothing but what the exchange has had.  What holds of         *)
(* a feed whose updates name the id they follow and cover the whole book,  *)
(* all but Bybit: a book that rests on a snapshot is the exchange's and so *)
(* are its rows, one that a full book was merged into has leftovers at     *)
(* most, and gaps after the opening of a subscription are noticed.  What   *)
(* Binance has on top, which sends no full books: the replica.             *)
(***************************************************************************)
EXTENDS SymbolCapture, DepthStateMachineProofs

----------------------------------------------------------------------------
(* The invariant of every feed *)

\* Event e comes after a book or row of that id: a diff is newer; an event
\* without prev, which Binance does not send, is not older.
After(e, id) ==
    IF e.prev = None THEN SendsFullBook /\ id <= e.last ELSE id < e.last

Follows(buf, id) == \A i \in 1..Len(buf) : After(buf[i], id)

OrderInv ==
    /\ \A i \in 1..Len(buffer) : buffer[i].last \in 0..pos
    /\ \A i, j \in 1..Len(buffer) : i < j => After(buffer[j], buffer[i].last)
    /\ row # None => row.id \in 0..pos /\ Follows(buffer, row.id)

TaskInv ==
    /\ ~SendsFullBook => opening = "none"
    /\ task = "answered" => \/ answer \in BadAnswers
                            \/ \E k \in 0..now : answer = FetchSnapshot(truth, k)

BaseInv == TypeOK /\ MachineInv /\ TaskInv /\ OrderInv

----------------------------------------------------------------------------
(* The exchange's side *)

\* What the exchange has published are uncrossed books.
LEMMA TruthType ==
    ASSUME TypeOK, NEW i \in 0..now
    PROVE  /\ truth[i] \in Levels
           /\ \A s \in Slots : truth[i][s] \in Nat
           /\ Separated(truth[i])
<1>1. i \in 0..MaxId
  BY BoundsAssumption DEF TypeOK
<1>2. truth[i] \in Levels /\ Separated(truth[i])
  BY <1>1, TimelinesAssumption DEF TypeOK
<1> QED
  BY <1>2 DEF Levels

\* The counters of the stream are ids, and none is ahead of the exchange.
LEMMA StreamType ==
    ASSUME TypeOK
    PROVE  /\ now \in Nat /\ pos \in Nat /\ pos <= now /\ now <= MaxId /\ MaxId \in Nat
           /\ \A b \in pos..now : b \in Nat /\ b \in 0..now /\ b \in 0..MaxId /\ b # None
  BY BoundsAssumption, NoneAssumption DEF TypeOK

\* What the stream shows of a book is part of it, and all of it but at Bybit.
LEMMA ShownType ==
    ASSUME TypeOK, NEW i \in 0..now
    PROVE  /\ Shown(truth[i]) \in Levels
           /\ \A s \in Slots : /\ Shown(truth[i])[s] \in Nat
                              /\ Shown(truth[i])[s] \in {0, truth[i][s]}
<1>1. truth[i] \in Levels
  BY TruthType
<1>2. Shown(truth[i]) \in Levels /\ \A s \in Slots : Shown(truth[i])[s] \in {0, truth[i][s]}
  BY <1>1, TopType DEF Shown
<1> QED
  BY <1>2 DEF Levels

\* The levels of an update and of a full book.
LEMMA LevelsType ==
    ASSUME TypeOK
    PROVE  /\ \A a, b \in 0..now : /\ Delta(truth, a, b) \in Updates
                                   /\ ~Negative(Delta(truth, a, b))
           /\ \A b \in 0..now : Listed(Shown(truth[b])) \in Updates
<1>1. ASSUME NEW a \in 0..now, NEW b \in 0..now
      PROVE  Delta(truth, a, b) \in Updates /\ ~Negative(Delta(truth, a, b))
  <2>1. \A s \in Slots : Delta(truth, a, b)[s] = None \/ Delta(truth, a, b)[s] \in Nat
    BY ShownType DEF Delta
  <2>2. Delta(truth, a, b) \in Updates
    BY <2>1, ShownType DEF Delta, Updates
  <2> QED
    BY <2>1, <2>2 DEF Negative
<1>2. ASSUME NEW b \in 0..now PROVE Listed(Shown(truth[b])) \in Updates
  BY ShownType DEF Listed, Updates
<1> QED
  BY <1>1, <1>2

\* The event a frame brings: which ids it names, at each feed.
LEMMA Delivered ==
    ASSUME BaseInv, DeliverFullBook \/ DeliverDiff
    PROVE  \E e \in Event :
              /\ OnDepth(e)
              /\ e.last = pos' /\ After(e, pos)
              /\ pos' \in pos..now /\ lastSeq' \in {pos', None}
              /\ opening' \in {"none", "update"} /\ (opening' = "update" => SendsFullBook)
              /\ UNCHANGED <<truth, now, conn>>
              /\ opening = "book" => /\ SendsFullBook /\ e.prev = None /\ e.since = None
                                     /\ e.d = Listed(Shown(truth[pos']))
              /\ opening # "book" => /\ pos' \in (pos + 1)..now
                                     /\ e.first \in (pos + 1)..pos'
                                     /\ e.since = pos
                                     /\ e.prev = None => SendsFullBook
                                     /\ e.d = Delta(truth, pos, pos')
              /\ opening # "book" /\ Feed # "bybit" => e.prev \in {pos, None}
              /\ opening = "none" /\ Feed # "bybit" => e.prev = pos
<1> USE DEF BaseInv
<1>1. CASE DeliverFullBook
  <2>1. PICK b \in pos..now :
          /\ OnDepth(ParseDepth(TRUE, pos, b, None, Listed(Shown(truth[b])), lastSeq))
          /\ pos' = b /\ lastSeq' \in {b, None}
    BY <1>1 DEF DeliverFullBook
  <2> DEFINE d == Listed(Shown(truth[b]))
             e == ParseDepth(TRUE, pos, b, None, d, lastSeq)
  <2>2. Feed \in {"okx", "deribit", "bybit"} /\ opening = "book" /\ SendsFullBook
    BY <1>1, FeedAssumption DEF DeliverFullBook, TaskInv, SendsFullBook
  <2>3. e = [first |-> b, last |-> b, prev |-> None, since |-> None, d |-> d]
    BY <2>2 DEF ParseDepth, BybitDepth, OkxDepth, DeribitDepth, SingleId
  <2>4. d \in Updates /\ b \in Nat /\ pos <= b
    BY StreamType, LevelsType
  <2> HIDE DEF e, d
  <2>5. e \in Event /\ e.last = b /\ e.prev = None /\ e.since = None /\ e.d = d
    BY <2>3, <2>4 DEF Event
  <2>6. opening' = "update" /\ UNCHANGED <<truth, now, conn>>
    BY <1>1 DEF DeliverFullBook
  <2> QED
    BY <2>1, <2>2, <2>4, <2>5, <2>6 DEF After, e, d
<1>2. CASE DeliverDiff
  <2>1. PICK b \in (pos + 1)..now,
             p \in {pos} \cup (IF opening = "update" THEN Unnamed ELSE {}) :
          /\ OnDepth(ParseDepth(FALSE, pos, b, p, Delta(truth, pos, b), lastSeq))
          /\ pos' = b /\ lastSeq' \in {b, None}
    BY <1>2 DEF DeliverDiff
  <2> DEFINE d == Delta(truth, pos, b)
             e == ParseDepth(FALSE, pos, b, p, d, lastSeq)
             prev == CASE Feed = "bybit" -> lastSeq
                       [] Feed = "okx" -> (IF p = -1 THEN None ELSE p)
                       [] OTHER -> p
             first == IF Feed = "binance" THEN pos + 1 ELSE b
  <2>2. e = [first |-> first, last |-> b, prev |-> prev, since |-> pos, d |-> d]
    BY FeedAssumption
    DEF ParseDepth, BinanceDepth, BybitDepth, OkxDepth, DeribitDepth, SingleId
  <2>3. b \in pos..now /\ b \in Nat /\ pos \in Nat /\ pos < b /\ pos # None /\ pos # -1
    BY StreamType, NoneAssumption
  <2>4. d \in Updates
    BY <2>3, StreamType, LevelsType
  <2>5. /\ p = pos \/ (opening = "update" /\ Feed = "okx" /\ p = -1)
                    \/ (opening = "update" /\ Feed = "deribit" /\ p = None)
    BY DEF Unnamed
  <2>6. /\ Feed # "bybit" => prev \in {pos, None}
        /\ Feed = "bybit" => prev = lastSeq
        /\ Feed # "bybit" /\ opening # "update" => prev = pos
        /\ prev = None => Feed # "binance"
    BY <2>3, <2>5, FeedAssumption
  <2>7. prev \in Int \cup {None} /\ first \in (pos + 1)..b /\ first \in Int
    BY <2>3, <2>6 DEF TypeOK
  <2> HIDE DEF e, d, prev
  <2>8. /\ e \in Event /\ e.last = b /\ e.prev = prev /\ e.since = pos
        /\ e.first = first /\ e.d = d
    BY <2>2, <2>3, <2>4, <2>7 DEF Event
  <2>9. /\ After(e, pos) /\ opening # "book" /\ opening' = "none"
        /\ UNCHANGED <<truth, now, conn>>
    BY <1>2, <2>3, <2>6, <2>8 DEF After, DeliverDiff, SendsFullBook
  <2> QED
    BY <2>1, <2>3, <2>6, <2>7, <2>8, <2>9 DEF e, d, SendsFullBook, TypeOK
<1> QED
  BY <1>1, <1>2

\* A book seeded at id k that is the exchange's up to the snapshot's depth.
SoundSince(bk, k) ==
    /\ bk.lastU \in 0..now
    /\ k \in 0..bk.lastU
    /\ \A s \in Slots :
        \/ bk.lv[s] = truth[bk.lastU][s]
        \/ /\ bk.lv[s] = 0
           /\ Top(truth[k], SnapDepth)[s] = 0
           /\ \A i \in k..bk.lastU : truth[i][s] = truth[k][s]

\* A sound book is never crossed: each of its levels is one of the exchange's.
LEMMA SoundUncrossed ==
    ASSUME TypeOK, NEW bk, NEW k, SoundSince(bk, k)
    PROVE  ~Crossed(bk.lv)
<1>1. Separated(truth[bk.lastU])
  BY TruthType DEF SoundSince
<1>2. \A s \in Slots : bk.lv[s] # 0 => truth[bk.lastU][s] # 0
  BY DEF SoundSince
<1> SUFFICES ASSUME NEW p \in Best(bk.lv, "bid"), NEW q \in Best(bk.lv, "ask"), p >= q
             PROVE  FALSE
  BY DEF Crossed
<1>3. p \in Prices /\ q \in Prices /\ bk.lv[<<"bid", p>>] # 0 /\ bk.lv[<<"ask", q>>] # 0
  BY DEF Best
<1>4. p < q
  BY <1>1, <1>2, <1>3 DEF Separated, Slots, Sides
<1> QED
  BY <1>3, <1>4, PricesAssumption

\* A sound book seeded from a complete snapshot is the exchange's book.
LEMMA SoundComplete ==
    ASSUME TypeOK, NEW bk, NEW k, SoundSince(bk, k), bk.lv \in Levels,
           Cardinality(Prices) <= SnapDepth
    PROVE  bk.lv = truth[bk.lastU]
<1>1. k \in 0..now /\ bk.lastU \in 0..now /\ k \in k..bk.lastU /\ bk.lastU \in k..bk.lastU
  BY DEF SoundSince, TypeOK
<1>2. Top(truth[k], SnapDepth) = truth[k]
  BY <1>1, TruthType, TopComplete, DepthsAssumption
<1>3. ASSUME NEW s \in Slots PROVE bk.lv[s] = truth[bk.lastU][s]
  BY <1>1, <1>2 DEF SoundSince
<1> QED
  BY <1>1, <1>3, TruthType DEF Levels

\* What a REST answer seeds is sound.
LEMMA AnswerSound ==
    ASSUME TypeOK, NEW k \in 0..now
    PROVE  LET snap == FetchSnapshot(truth, k)
           IN  /\ snap \in RestSnapshot /\ snap.id = k
               /\ ~LoadRejects(snap)
               /\ SoundSince(Loaded(snap), k)
               /\ Loaded(snap).lastU = k
<1> DEFINE snap == FetchSnapshot(truth, k)
           T == Top(truth[k], SnapDepth)
<1>1. T \in Levels /\ \A s \in Slots : T[s] \in {0, truth[k][s]} /\ T[s] \in Nat
  BY TruthType, TopType DEF Levels
<1>2. snap.id = k /\ snap.d = Listed(T) /\ snap = [id |-> k, d |-> Listed(T)]
  BY DEF FetchSnapshot
<1> HIDE DEF T, snap
<1>3. Listed(T) \in Updates /\ ~Negative(Listed(T))
  BY <1>1 DEF Listed, Updates, Negative
<1>4. \A s \in Slots : Merge(NoLevels, Listed(T))[s] = T[s]
  BY <1>1, NoneAssumption DEF Merge, Listed, NoLevels
<1>5. SoundSince(Loaded(snap), k)
  <2>1. /\ Loaded(snap).lastU = k
        /\ Loaded(snap).lv = Merge(NoLevels, Listed(T))
    BY <1>2 DEF Loaded
  <2>2. k \in 0..k /\ k..k = {k}
    BY DEF TypeOK
  <2> QED
    BY <1>1, <1>4, <2>1, <2>2 DEF SoundSince, T
<1>6. ~Crossed(Merge(NoLevels, Listed(T)))
  BY <1>2, <1>5, SoundUncrossed DEF Loaded
<1> QED
  BY <1>2, <1>3, <1>5, <1>6 DEF LoadRejects, RestSnapshot, Loaded, snap, TypeOK

----------------------------------------------------------------------------
(* Every feed: one lemma per kind of action *)

\* The head and the tail of a buffer in order.
LEMMA TailOrder ==
    ASSUME BaseInv, buffer # <<>>
    PROVE  /\ Head(buffer) \in Event /\ Tail(buffer) \in Seq(Event)
           /\ Head(buffer).last \in 0..pos
           /\ \A i \in 1..Len(Tail(buffer)) :
                /\ i + 1 \in 1..Len(buffer)
                /\ Tail(buffer)[i] = buffer[i + 1]
                /\ Tail(buffer)[i].last \in 0..pos
           /\ \A i, j \in 1..Len(Tail(buffer)) :
                i < j => After(Tail(buffer)[j], Tail(buffer)[i].last)
           /\ Follows(Tail(buffer), Head(buffer).last)
           /\ \A id : Follows(buffer, id) => Follows(Tail(buffer), id) /\ After(Head(buffer), id)
<1>1. buffer \in Seq(Event)
  BY DEF BaseInv, TypeOK, MachineTypeOK
<1>2. /\ Head(buffer) \in Event /\ Tail(buffer) \in Seq(Event)
      /\ Len(Tail(buffer)) = Len(buffer) - 1
      /\ \A i \in 1..Len(Tail(buffer)) : Tail(buffer)[i] = buffer[i + 1]
      /\ Len(buffer) \in Nat /\ Len(buffer) >= 1
      /\ Head(buffer) = buffer[1]
  BY <1>1, HeadTailProperties
<1>3. 1 \in 1..Len(buffer) /\ \A i \in 1..Len(Tail(buffer)) : i + 1 \in 1..Len(buffer)
  BY <1>2
<1>4. \A i, j \in 1..Len(Tail(buffer)) :
        i < j => After(Tail(buffer)[j], Tail(buffer)[i].last)
  <2> TAKE i, j \in 1..Len(Tail(buffer))
  <2> HAVE i < j
  <2>1. i + 1 < j + 1
    OBVIOUS
  <2> QED
    BY <1>2, <1>3, <2>1 DEF BaseInv, OrderInv
<1>5. ASSUME NEW i \in 1..Len(Tail(buffer))
      PROVE  After(Tail(buffer)[i], Head(buffer).last)
  <2>1. 1 < i + 1
    OBVIOUS
  <2> QED
    BY <1>2, <1>3, <2>1 DEF BaseInv, OrderInv
<1> QED
  BY <1>2, <1>3, <1>4, <1>5 DEF Follows, BaseInv, OrderInv

\* A restart leaves no buffer that could be out of order.
LEMMA RestartOrder ==
    ASSUME BaseInv, buffer' = <<>>, row' = row, pos' \in pos..now
    PROVE  OrderInv'
<1>1. row # None => row.id \in 0..pos'
  BY StreamType DEF BaseInv, OrderInv
<1> QED
  BY <1>1 DEF OrderInv, Follows

\* An accepted event that is not older than the last row, and that the rest of
\* the buffer comes after.
LEMMA AcceptOrder ==
    ASSUME BaseInv, NEW e \in Event, Accept(e), pos' \in pos..now, e.last \in 0..pos',
           \A i \in 1..Len(buffer') : buffer'[i].last \in 0..pos',
           \A i, j \in 1..Len(buffer') : i < j => After(buffer'[j], buffer'[i].last),
           Follows(buffer', e.last)
    PROVE  OrderInv'
<1>1. row'.id = e.last
  BY DEF Accept, Snapshot, Applied
<1> QED
  BY <1>1 DEF OrderInv, Follows

\* The invariant holds at the start.
LEMMA BaseInit == Init => BaseInv
<1> SUFFICES ASSUME Init PROVE BaseInv
  OBVIOUS
<1>1. MachineInv
  BY MachineInitInv DEF Init
<1>2. TypeOK
  <2>1. /\ truth \in Timelines /\ now = 0 /\ pos = 0 /\ conn = FALSE /\ opening = "none"
        /\ lastSeq = None /\ task = "fetching" /\ answer = None /\ basis = "none"
        /\ state = "BUFFERING"
    BY DEF Init, MachineInit
  <2>2. now \in 0..MaxId /\ pos \in 0..now
    BY <2>1, BoundsAssumption
  <2> QED
    BY <1>1, <2>1, <2>2 DEF TypeOK, MachineInv
<1>3. TaskInv /\ OrderInv
  BY DEF Init, MachineInit, TaskInv, OrderInv
<1> QED
  BY <1>1, <1>2, <1>3 DEF BaseInv

\* The exchange and the connection: the machine and the start task stand still,
\* the stream moves on.
LEMMA FeedMoves ==
    ASSUME BaseInv, Publish \/ Connect \/ Disconnect \/ Lose
    PROVE  /\ UNCHANGED <<state, buffer, prevU, book, syncId, loop, row>>
           /\ UNCHANGED <<basis, task, answer, truth>>
           /\ now' \in now..MaxId /\ pos' \in pos..now' /\ conn' \in BOOLEAN
           /\ opening' \in {"none", "book", "update"}
           /\ (~SendsFullBook => opening' = "none")
           /\ lastSeq' \in {lastSeq, None}
<1>1. /\ conn \in BOOLEAN /\ opening \in {"none", "book", "update"}
      /\ (~SendsFullBook => opening = "none")
      /\ now \in 0..MaxId /\ pos \in 0..now /\ MaxId \in Nat
  BY BoundsAssumption DEF BaseInv, TypeOK, TaskInv
<1>2. UNCHANGED <<bookVars, taskVars, truth>>
  BY DEF Publish, Connect, Disconnect, Lose
<1>3. CASE Publish
  <2>1. now' = now + 1 /\ now < MaxId /\ UNCHANGED <<pos, conn, opening, lastSeq>>
    BY <1>3 DEF Publish
  <2> QED
    BY <1>1, <1>2, <2>1 DEF bookVars, machineVars, taskVars
<1>4. CASE Connect
  <2>1. /\ now' = now /\ pos' \in pos..now' /\ conn' = TRUE /\ lastSeq' = None
        /\ opening' \in {"none", "book"} /\ (~SendsFullBook => opening' = "none")
    BY <1>4 DEF Connect
  <2>2. now' \in now..MaxId /\ conn' \in BOOLEAN
    BY <1>1, <2>1
  <2> QED
    BY <1>2, <2>1, <2>2 DEF bookVars, machineVars, taskVars
<1>5. CASE Disconnect
  <2>1. UNCHANGED <<now, pos, lastSeq>> /\ conn' = FALSE /\ opening' = "none"
    BY <1>5 DEF Disconnect
  <2>2. now' \in now..MaxId /\ pos' \in pos..now'
    BY <1>1, <2>1
  <2>3. conn' \in BOOLEAN
    BY <1>1, <2>1, Zenon
  <2> QED
    BY <1>2, <2>1, <2>2, <2>3 DEF bookVars, machineVars, taskVars
<1>6. CASE Lose
  <2>1. /\ pos' \in pos..now /\ UNCHANGED <<now, conn, lastSeq>>
        /\ opening' \in {"none", "update"} /\ (opening # "book" => opening' = "none")
    BY <1>1, <1>6 DEF Lose
  <2>2. now' \in now..MaxId /\ pos' \in pos..now'
    BY <1>1, <2>1
  <2>3. conn' \in BOOLEAN
    BY <1>1, <2>1, Zenon
  <2> QED
    BY <1>1, <1>2, <2>1, <2>2, <2>3 DEF bookVars, machineVars, taskVars
<1> QED
  BY <1>3, <1>4, <1>5, <1>6

\* They keep the invariant.
LEMMA BaseFeed ==
    ASSUME BaseInv, Publish \/ Connect \/ Disconnect \/ Lose
    PROVE  BaseInv'
<1>1. /\ UNCHANGED <<state, buffer, prevU, book, syncId, loop, row>>
      /\ UNCHANGED <<basis, task, answer, truth>>
      /\ now' \in now..MaxId /\ pos' \in pos..now' /\ conn' \in BOOLEAN
      /\ opening' \in {"none", "book", "update"}
      /\ (~SendsFullBook => opening' = "none")
      /\ lastSeq' \in {lastSeq, None}
  BY FeedMoves
<1>2. now \in Nat /\ pos \in Nat /\ pos <= now /\ now <= MaxId /\ MaxId \in Nat
  BY StreamType DEF BaseInv
<1>3. MachineInv'
  BY <1>1 DEF BaseInv, MachineInv, MachineTypeOK, NoCrossedRow
<1>4. now' \in 0..MaxId /\ pos' \in 0..now' /\ lastSeq' \in 0..MaxId \cup {None}
  BY <1>1, <1>2 DEF BaseInv, TypeOK
<1>5. TypeOK'
  BY <1>1, <1>3, <1>4 DEF BaseInv, TypeOK, MachineInv
<1>6. TaskInv'
  BY <1>1, <1>2 DEF BaseInv, TaskInv
<1>7. OrderInv'
  <2>1. \A x \in 0..pos : x \in 0..pos'
    BY <1>1, <1>2
  <2> QED
    BY <1>1, <2>1 DEF BaseInv, OrderInv, Follows
<1> QED
  BY <1>3, <1>5, <1>6, <1>7 DEF BaseInv

\* What a book rests on after an event is one of the things it can rest on, and
\* is something just when the machine is LIVE.
LEMMA NotesType ==
    ASSUME BaseInv, NEW e, Notes(e)
    PROVE  /\ basis' \in {"none", "snapshot", "merged", "partial"}
           /\ basis' = "none" <=> state' # "LIVE"
  BY DEF Notes, BaseInv, TypeOK

\* A frame: its event is buffered behind older ones, applied, or the cause of a
\* restart.
LEMMA BaseDeliver ==
    ASSUME BaseInv, DeliverFullBook \/ DeliverDiff
    PROVE  BaseInv'
<1>1. PICK e \in Event :
        /\ OnDepth(e)
        /\ e.last = pos' /\ After(e, pos)
        /\ pos' \in pos..now /\ lastSeq' \in {pos', None}
        /\ opening' \in {"none", "update"} /\ (opening' = "update" => SendsFullBook)
        /\ UNCHANGED <<truth, now, conn>>
  BY Delivered
<1>2. /\ OnDepthEvent(e) /\ answer' = answer /\ Notes(e)
      /\ task' = IF state' # "LIVE" /\ task \in {"done", "raised"} THEN "fetching" ELSE task
  BY <1>1 DEF OnDepth
<1>3. MachineInv'
  BY <1>2, OnDepthEventInv DEF BaseInv
<1>4. /\ pos' \in 0..now /\ pos' \in 0..MaxId /\ pos' \in Nat /\ pos \in Nat /\ pos <= pos'
  BY <1>1, StreamType DEF BaseInv
<1>5. TypeOK'
  BY <1>1, <1>2, <1>3, <1>4, NotesType DEF BaseInv, TypeOK, MachineInv
<1>6. TaskInv'
  BY <1>1, <1>2 DEF BaseInv, TaskInv
<1>7. OrderInv'
  <2>1. CASE state \in {"BUFFERING", "SYNCING"}
    <3>1. buffer' = Append(buffer, e) /\ row' = row
      BY <1>2, <2>1 DEF OnDepthEvent
    <3>2. buffer \in Seq(Event)
      BY DEF BaseInv, TypeOK, MachineTypeOK
    <3>3. /\ Len(buffer') = Len(buffer) + 1 /\ Len(buffer) \in Nat
          /\ \A i \in 1..Len(buffer) : buffer'[i] = buffer[i]
          /\ buffer'[Len(buffer) + 1] = e
      BY <3>1, <3>2, AppendProperties
    <3>4. ASSUME NEW i \in 1..Len(buffer')
          PROVE  \/ (i \in 1..Len(buffer) /\ buffer'[i] = buffer[i])
                 \/ (i = Len(buffer) + 1 /\ buffer'[i] = e)
      BY <3>3
    <3>5. \A id \in 0..pos : After(e, id) /\ id \in 0..pos'
      BY <1>1, <1>4 DEF After
    <3>6. \A i \in 1..Len(buffer') : buffer'[i].last \in 0..pos'
      BY <1>1, <1>4, <3>4, <3>5 DEF BaseInv, OrderInv
    <3>7. \A i, j \in 1..Len(buffer') : i < j => After(buffer'[j], buffer'[i].last)
      <4> TAKE i, j \in 1..Len(buffer')
      <4> HAVE i < j
      <4>1. i \in 1..Len(buffer) /\ buffer'[i] = buffer[i] /\ buffer[i].last \in 0..pos
        BY <3>3, <3>4 DEF BaseInv, OrderInv
      <4>2. CASE j \in 1..Len(buffer) /\ buffer'[j] = buffer[j]
        BY <4>1, <4>2 DEF BaseInv, OrderInv
      <4>3. CASE buffer'[j] = e
        BY <3>5, <4>1, <4>3
      <4> QED
        BY <3>4, <4>2, <4>3
    <3>8. row # None => row.id \in 0..pos' /\ Follows(buffer', row.id)
      BY <3>4, <3>5 DEF Follows, BaseInv, OrderInv
    <3> QED
      BY <3>1, <3>6, <3>7, <3>8 DEF OrderInv, Follows
  <2>2. CASE state = "LIVE"
    <3>1. ApplyEvent(e, buffer) /\ buffer = <<>>
      BY <1>2, <2>2 DEF OnDepthEvent, BaseInv, MachineInv
    <3>2. CASE Restart /\ UNCHANGED row
      BY <1>1, <3>2, RestartOrder DEF Restart, Forget
    <3>3. CASE Accept(e) /\ buffer' = buffer
      <4>1. e.last \in 0..pos' /\ Len(buffer') = 0
        BY <1>1, <1>4, <3>1, <3>3
      <4> QED
        BY <1>1, <3>3, <4>1, AcceptOrder DEF Follows
    <3> QED
      BY <3>1, <3>2, <3>3 DEF ApplyEvent
  <2> QED
    BY <2>1, <2>2 DEF BaseInv, TypeOK, MachineTypeOK
<1> QED
  BY <1>3, <1>5, <1>6, <1>7 DEF BaseInv

\* The start task waiting for its answer, failing and retrying.
LEMMA BaseFetch ==
    ASSUME BaseInv, FetchAnswered \/ FetchFails \/ FetchRetries
    PROVE  BaseInv'
<1>1. /\ UNCHANGED <<state, buffer, prevU, book, syncId, loop, row, basis>>
      /\ UNCHANGED <<truth, now, pos, conn, opening, lastSeq>>
  BY DEF FetchAnswered, FetchFails, FetchRetries, bookVars, machineVars, feedVars
<1>2. MachineInv' /\ OrderInv'
  BY <1>1
  DEF BaseInv, MachineInv, MachineTypeOK, NoCrossedRow, OrderInv, Follows
<1>3. TaskInv'
  BY <1>1 DEF FetchAnswered, FetchFails, FetchRetries, BaseInv, TaskInv
<1>4. /\ task' \in {"fetching", "sleeping", "answered", "done", "raised"}
      /\ task' = "answered" <=> answer' # None
  <2>1. CASE FetchAnswered
    <3>1. answer' \in BadAnswers \/ \E k \in 0..now : answer' = FetchSnapshot(truth, k)
      BY <2>1 DEF FetchAnswered
    <3>2. answer' # None
      BY <3>1, AnswerSound, AnswersAssumption, NoneIsNoRecord DEF BaseInv
    <3> QED
      BY <2>1, <3>2 DEF FetchAnswered
  <2>2. CASE FetchFails
    BY <2>2 DEF FetchFails, BaseInv, TypeOK
  <2>3. CASE FetchRetries
    BY <2>3 DEF FetchRetries, BaseInv, TypeOK
  <2> QED
    BY <2>1, <2>2, <2>3
<1>5. TypeOK'
  BY <1>1, <1>2, <1>4 DEF BaseInv, TypeOK, MachineInv
<1> QED
  BY <1>2, <1>3, <1>5 DEF BaseInv

\* What start() does with its answer: nothing, when the machine is LIVE; raise,
\* when load_snapshot rejects it; or load it and begin to drain.
LEMMA Resumed ==
    ASSUME BaseInv, Resume
    PROVE  /\ answer \in RestSnapshot /\ StartResumes(answer)
           /\ loop = "idle" /\ UNCHANGED <<buffer, row>>
           /\ \/ /\ state = "LIVE" /\ task' = "done"
                 /\ UNCHANGED <<state, prevU, book, syncId, loop>>
              \/ /\ state # "LIVE" /\ task' = "raised"
                 /\ UNCHANGED <<state, prevU, syncId, loop>>
              \/ /\ state # "LIVE" /\ task' = "done"
                 /\ state' = "SYNCING" /\ prevU' = None /\ loop' = "bridge"
                 /\ syncId' \in 0..now /\ book'.lastU = syncId'
                 /\ SoundSince(book', syncId')
<1>1. /\ StartResumes(answer) /\ loop = "idle" /\ UNCHANGED <<buffer, row>>
      /\ task' = IF state # "LIVE" /\ LoadRejects(answer) THEN "raised" ELSE "done"
  BY DEF Resume, StartResumes, machineVars
<1>2. CASE answer \in BadAnswers
  BY <1>1, <1>2, AnswersAssumption DEF StartResumes, machineVars
<1>3. CASE \E k \in 0..now : answer = FetchSnapshot(truth, k)
  <2>1. PICK k \in 0..now : answer = FetchSnapshot(truth, k)
    BY <1>3
  <2>2. /\ answer \in RestSnapshot /\ answer.id = k /\ ~LoadRejects(answer)
        /\ SoundSince(Loaded(answer), k) /\ Loaded(answer).lastU = k
    BY <2>1, AnswerSound DEF BaseInv
  <2> QED
    BY <1>1, <2>2 DEF StartResumes, machineVars
<1> QED
  BY <1>2, <1>3 DEF Resume, BaseInv, TaskInv

\* It keeps the invariant.
LEMMA BaseResume ==
    ASSUME BaseInv, Resume
    PROVE  BaseInv'
<1>1. /\ answer \in RestSnapshot /\ StartResumes(answer) /\ UNCHANGED <<buffer, row>>
      /\ state' \in {state, "SYNCING"} /\ (state = "LIVE" => state' = state)
  BY Resumed
<1>2. /\ task' \in {"done", "raised"} /\ answer' = None
      /\ UNCHANGED <<truth, now, pos, conn, opening, lastSeq, basis>>
  BY DEF Resume, feedVars
<1>3. MachineInv'
  BY <1>1, StartResumesInv DEF BaseInv
<1>4. TypeOK'
  BY <1>1, <1>2, <1>3 DEF BaseInv, TypeOK, MachineInv
<1> QED
  BY <1>1, <1>2, <1>3, <1>4 DEF BaseInv, TaskInv, OrderInv, Follows

\* The drain changes what the machine holds and nothing else.
LEMMA Drained ==
    ASSUME Drain
    PROVE  /\ DrainStep
           /\ UNCHANGED <<truth, now, pos, conn, opening, lastSeq, task, answer>>
  BY DEF Drain, DrainStep, feedVars, taskVars

\* It keeps the invariant.
LEMMA BaseDrain ==
    ASSUME BaseInv, Drain
    PROVE  BaseInv'
<1>1. /\ DrainStep
      /\ UNCHANGED <<truth, now, pos, conn, opening, lastSeq, task, answer>>
  BY Drained
<1>2. MachineInv'
  BY <1>1, DrainStepInv DEF BaseInv
<1>3. /\ basis' \in {"none", "snapshot", "merged", "partial"}
      /\ basis' = "none" <=> state' # "LIVE"
  <2>1. CASE Notes(Head(buffer))
    BY <2>1, NotesType
  <2>2. CASE (SkipBridging \/ NoAnchor \/ DrainStale \/ DrainEnd) /\ basis' = basis
    <3>1. state' = state
      BY <2>2 DEF SkipBridging, NoAnchor, DrainStale, DrainEnd
    <3> QED
      BY <2>2, <3>1 DEF BaseInv, TypeOK
  <2> QED
    BY <2>1, <2>2 DEF Drain
<1>4. TypeOK'
  BY <1>1, <1>2, <1>3 DEF BaseInv, TypeOK, MachineInv
<1>5. TaskInv'
  BY <1>1 DEF BaseInv, TaskInv
<1>6. pos' \in pos..now /\ pos' = pos
  BY <1>1, StreamType DEF BaseInv
<1>7. ASSUME buffer # <<>>, buffer' = Tail(buffer), row' = row
      PROVE  OrderInv'
  BY <1>6, <1>7, TailOrder DEF BaseInv, OrderInv, Follows
<1>8. ASSUME buffer # <<>>, buffer' = Tail(buffer), Accept(Head(buffer))
      PROVE  OrderInv'
  BY <1>6, <1>8, TailOrder, AcceptOrder
<1>9. ASSUME buffer' = <<>>, row' = row
      PROVE  OrderInv'
  BY <1>6, <1>9, RestartOrder
<1>10. OrderInv'
  BY <1>1, <1>7, <1>8, <1>9
  DEF DrainStep, SkipBridging, NoAnchor, Anchor, DrainStale, DrainApply, DrainEnd,
      ApplyEvent, Restart, Forget
<1> QED
  BY <1>2, <1>4, <1>5, <1>10 DEF BaseInv

----------------------------------------------------------------------------
(* Every feed: theorems *)

\* The invariant of every feed is inductive.
THEOREM BaseInvariant == Spec => []BaseInv
<1>1. BaseInv /\ [Next]_vars => BaseInv'
  <2> SUFFICES ASSUME BaseInv, [Next]_vars PROVE BaseInv'
    OBVIOUS
  <2>1. CASE UNCHANGED vars
    BY <2>1
    DEF vars, bookVars, machineVars, feedVars, taskVars, BaseInv, TypeOK, MachineInv,
        MachineTypeOK, NoCrossedRow, OrderInv, TaskInv, Follows
  <2> QED
    BY <2>1, BaseFeed, BaseDeliver, BaseFetch, BaseResume, BaseDrain DEF Next
<1> QED
  BY <1>1, BaseInit, PTL DEF Spec

\* The variables keep their types, whatever the feed loses, repeats or delays.
THEOREM CaptureTypeCorrect == Spec => []TypeOK
<1>1. BaseInv => TypeOK
  BY DEF BaseInv
<1> QED
  BY <1>1, BaseInvariant, PTL

\* A captured symbol calls the depth state machine only as DepthStateMachine
\* says: every step is a call with an event or snapshot of the right shape, a
\* step of the drain, or leaves the machine alone.  What is proved of the machine
\* in an arbitrary environment holds of the symbol.
THEOREM CaptureDrivesMachine == Spec => MachineSpec(Event, RestSnapshot, MaxBuffer)
<1>1. Init => MachineInit
  BY DEF Init
<1>2. BaseInv /\ [Next]_vars => [MachineNext(Event, RestSnapshot, MaxBuffer)]_machineVars
  <2> SUFFICES ASSUME BaseInv, [Next]_vars
               PROVE  [MachineNext(Event, RestSnapshot, MaxBuffer)]_machineVars
    OBVIOUS
  <2>1. CASE \/ Publish \/ Connect \/ Disconnect \/ Lose
             \/ FetchAnswered \/ FetchFails \/ FetchRetries \/ UNCHANGED vars
    BY <2>1
    DEF Publish, Connect, Disconnect, Lose, FetchAnswered, FetchFails, FetchRetries,
        vars, bookVars
  <2>2. CASE DeliverFullBook \/ DeliverDiff
    <3>1. PICK e \in Event : OnDepth(e)
      BY <2>2, Delivered
    <3> QED
      BY <3>1 DEF OnDepth, MachineNext
  <2>3. CASE Resume
    <3>1. answer \in RestSnapshot /\ StartResumes(answer)
      BY <2>3, Resumed
    <3> QED
      BY <3>1 DEF MachineNext
  <2>4. CASE Drain
    BY <2>4, Drained DEF MachineNext
  <2> QED
    BY <2>1, <2>2, <2>3, <2>4 DEF Next
<1> QED
  BY <1>1, <1>2, BaseInvariant, PTL DEF Spec, MachineSpec

\* No row of any symbol, of any feed, has a best bid at or above its best ask.
THEOREM RowsAreNeverCrossed == Spec => []NoCrossedRow
<1>1. BaseInv => NoCrossedRow
  BY DEF BaseInv, MachineInv
<1> QED
  BY <1>1, BaseInvariant, PTL

\* What follows from the machine's own theorems: the microprice of a row lies in
\* its spread, a LIVE machine has drained its buffer, the continuity id is the book's, and no stale
\* diff is merged, at every feed.
THEOREM CaptureKeepsMachineProperties ==
    Spec => /\ [](MicropriceInsideSpread /\ LiveBufferEmpty /\ ContinuityIdIsBookId)
            /\ IdsIncrease
<1>1. /\ MachineSpec(Event, RestSnapshot, MaxBuffer) => []MicropriceInsideSpread
      /\ MachineSpec(Event, RestSnapshot, MaxBuffer)
           => [](LiveBufferEmpty /\ ContinuityIdIsBookId)
      /\ MachineSpec(Event, RestSnapshot, MaxBuffer) => IdsIncrease
  BY RowPricesAreSound, LiveMachineIsCaughtUp, StaleDiffsAreRejected
<1> QED
  BY <1>1, CaptureDrivesMachine, PTL

\* One step never leaves a filled buffer to nobody.
LEMMA BufferTaskStep ==
    ASSUME BaseInv, BufferHasTask, Next PROVE BufferHasTask'
<1> SUFFICES ASSUME buffer' # <<>>, loop' = "idle" PROVE task' # "done"
  BY DEF BufferHasTask
<1>1. state = "LIVE" /\ loop = "idle" => buffer = <<>>
  BY DEF BaseInv, MachineInv
<1>2. CASE Publish \/ Connect \/ Disconnect \/ Lose
  BY <1>2, FeedMoves DEF BufferHasTask
<1>3. CASE FetchAnswered \/ FetchFails \/ FetchRetries
  BY <1>3 DEF FetchAnswered, FetchFails, FetchRetries
<1>4. ASSUME NEW e, OnDepth(e) PROVE task' # "done"
  <2>1. /\ OnDepthEvent(e) /\ loop = "idle"
        /\ task' = IF state' # "LIVE" /\ task \in {"done", "raised"} THEN "fetching" ELSE task
    BY <1>4 DEF OnDepth, OnDepthEvent
  <2>2. CASE state \in {"BUFFERING", "SYNCING"}
    BY <2>1, <2>2 DEF OnDepthEvent
  <2>3. CASE state = "LIVE"
    BY <1>1, <2>1, <2>3 DEF OnDepthEvent, ApplyEvent, Restart, Forget
  <2> QED
    BY <2>1, <2>2, <2>3 DEF OnDepthEvent
<1>5. CASE DeliverFullBook \/ DeliverDiff
  BY <1>4, <1>5 DEF DeliverFullBook, DeliverDiff
<1>6. CASE Resume
  BY <1>1, <1>6, Resumed
<1>7. CASE Drain
  BY <1>7
  DEF Drain, DrainStep, SkipBridging, NoAnchor, Anchor, DrainStale, DrainApply, DrainEnd
<1> QED
  BY <1>2, <1>3, <1>5, <1>6, <1>7 DEF Next

\* Whatever waits in the buffer of a symbol has a start task that will drain it,
\* unless load_snapshot made the last one raise: _on_depth looks at the task after
\* every event, and a task that ends in any other way leaves nothing behind,
\* whether it found its anchor, had it rejected, or found none.
THEOREM BufferAlwaysHasTask == Spec => []BufferHasTask
<1>1. Init => BufferHasTask
  BY DEF Init, MachineInit, BufferHasTask
<1>2. BaseInv /\ BufferHasTask /\ [Next]_vars => BufferHasTask'
  <2> SUFFICES ASSUME BaseInv, BufferHasTask, [Next]_vars PROVE BufferHasTask'
    OBVIOUS
  <2>1. CASE UNCHANGED vars
    BY <2>1 DEF vars, bookVars, machineVars, taskVars, BufferHasTask
  <2> QED
    BY <2>1, BufferTaskStep
<1> QED
  BY <1>1, <1>2, BaseInvariant, PTL DEF Spec

\* A step hands out no row or the row of one event, which comes after the last.
LEMMA RowStep ==
    ASSUME BaseInv, Next, row' # row
    PROVE  \E e \in Event :
              /\ Accept(e) /\ ~Rejects(book, e)
              /\ row' \in Row /\ row'.id = e.last
              /\ row # None => After(e, row.id)
              /\ UNCHANGED <<truth, now>>
<1> USE DEF BaseInv
<1>1. ASSUME NEW e \in Event, Accept(e), ~Rejects(book, e)
      PROVE  row' \in Row /\ row'.id = e.last
  BY <1>1, AcceptType DEF Accept, Snapshot, Applied, TypeOK
<1>2. CASE DeliverFullBook \/ DeliverDiff
  <2>1. PICK e \in Event :
          /\ OnDepth(e) /\ After(e, pos)
          /\ UNCHANGED <<truth, now>>
    BY <1>2, Delivered
  <2>2. Accept(e) /\ ~Rejects(book, e)
    BY <2>1 DEF OnDepth, OnDepthEvent, ApplyEvent
  <2>3. row # None => After(e, row.id)
    <3>1. e.last \in Int /\ pos \in Nat
      BY StreamType DEF Event
    <3> QED
      BY <2>1, <3>1 DEF After, OrderInv
  <2> QED
    BY <1>1, <2>1, <2>2, <2>3
<1>3. CASE Drain
  <2>1. DrainStep /\ UNCHANGED <<truth, now>>
    BY <1>3, Drained
  <2>2. buffer # <<>> /\ Accept(Head(buffer)) /\ ~Rejects(book, Head(buffer))
    BY <2>1 DEF DrainStep, SkipBridging, NoAnchor, Anchor, DrainStale, DrainApply, DrainEnd,
                ApplyEvent
  <2>3. Head(buffer) \in Event /\ (row # None => After(Head(buffer), row.id))
    BY <2>2, TailOrder DEF OrderInv
  <2> QED
    BY <1>1, <2>1, <2>2, <2>3
<1>4. CASE Resume
  BY <1>4, Resumed
<1>5. CASE Publish \/ Connect \/ Disconnect \/ Lose \/ FetchAnswered \/ FetchFails
           \/ FetchRetries
  BY <1>5
  DEF Publish, Connect, Disconnect, Lose, FetchAnswered, FetchFails, FetchRetries,
      bookVars, machineVars
<1> QED
  BY <1>2, <1>3, <1>4, <1>5 DEF Next

\* Rows are never handed out with an id below one handed out before.
RowsNeverGoBack ==
    [][ row' # row => row' # None /\ (row # None => row.id <= row'.id) ]_vars

\* The rows of a symbol never go back, at any feed: neither a snapshot older than
\* the last row nor a reconnect nor a resync makes the writer see an earlier book
\* after a later one.
THEOREM RowsAreInOrder == Spec => RowsNeverGoBack
<1>1. BaseInv /\ [Next]_vars
        => [row' # row => row' # None /\ (row # None => row.id <= row'.id)]_vars
  <2> SUFFICES ASSUME BaseInv, Next, row' # row
               PROVE  row' # None /\ (row # None => row.id <= row'.id)
    OBVIOUS
  <2>1. PICK e \in Event : row' \in Row /\ row'.id = e.last /\ (row # None => After(e, row.id))
    BY RowStep
  <2>2. row' # None
    BY <2>1, NoneIsNoRecord
  <2>3. row # None => row.id \in Int
    BY DEF BaseInv, TypeOK, MachineTypeOK, Row
  <2> QED
    BY <2>1, <2>2, <2>3 DEF After, Event
<1> QED
  BY <1>1, BaseInvariant, PTL DEF Spec, RowsNeverGoBack

----------------------------------------------------------------------------
(* What a book and a row can hold, at every feed *)

\* The levels an event lists are the exchange's at the event's id, or removed.
Current(e) ==
    /\ e.last \in 0..now
    /\ \A s \in Slots : e.d[s] \in {None, 0, truth[e.last][s]}

\* Every level of the book is one the exchange has had since id k.
Dated(bk, k) ==
    /\ bk.lastU \in -1..now
    /\ \A s \in Slots : bk.lv[s] = 0 \/ \E i \in k..bk.lastU : bk.lv[s] = truth[i][s]

BookDated ==
    /\ state = "LIVE" => Dated(book, syncId) /\ syncId \in 0..pos
    /\ loop = "bridge" => SoundSince(book, syncId) /\ book.lastU = syncId
    /\ row # None => \A s \in Slots :
            row.lv[s] = 0 \/ \E i \in 0..row.id : row.lv[s] = truth[i][s]

DatedInv ==
    /\ BookDated
    /\ \A i \in 1..Len(buffer) : Current(buffer[i])

\* A sound book has no level the exchange has not had.
LEMMA SoundIsDated ==
    ASSUME TypeOK, NEW bk, NEW k \in Nat, SoundSince(bk, k)
    PROVE  Dated(bk, k)
<1>1. bk.lastU \in -1..now /\ bk.lastU \in k..bk.lastU
  BY DEF SoundSince, TypeOK
<1> QED
  BY <1>1 DEF SoundSince, Dated

\* An event keeps what a book has dated: the levels it lists are the exchange's at
\* its id, the others stay.  That the book is the one the event follows is not needed.
LEMMA ApplyDated ==
    ASSUME TypeOK, NEW bk, NEW k \in Nat, Dated(bk, k),
           NEW e, Current(e), k <= e.last, bk.lastU < e.last
    PROVE  Dated(Applied(bk, e), k)
<1> DEFINE b == e.last
           new == Applied(bk, e)
<1>1. b \in 0..now /\ b \in k..b /\ b \in -1..now /\ bk.lastU \in Int /\ now \in Nat
  BY StreamType DEF Current, Dated
<1>2. new.lastU = b /\ new.lv = Merge(bk.lv, e.d)
  BY DEF Applied
<1>3. ASSUME NEW s \in Slots
      PROVE  new.lv[s] = 0 \/ \E i \in k..b : new.lv[s] = truth[i][s]
  <2>1. e.d[s] \in {None, 0, truth[b][s]}
    BY DEF Current
  <2>2. new.lv[s] = IF e.d[s] = None THEN bk.lv[s] ELSE e.d[s]
    BY <1>2 DEF Merge
  <2>3. CASE new.lv[s] = truth[b][s]
    BY <1>1, <2>3
  <2>4. CASE new.lv[s] = bk.lv[s]
    <3>1. \A i \in k..bk.lastU : i \in k..b
      BY <1>1
    <3> QED
      BY <2>4, <3>1 DEF Dated
  <2>5. new.lv[s] \in {0, truth[b][s], bk.lv[s]}
    BY <2>1, <2>2
  <2> QED
    BY <2>3, <2>4, <2>5
<1> QED
  BY <1>1, <1>2, <1>3 DEF Dated

\* The event of a frame is current: it is parsed from the exchange's history.
LEMMA DeliveredCurrent ==
    ASSUME BaseInv, DeliverFullBook \/ DeliverDiff
    PROVE  \E e \in Event :
              /\ OnDepth(e) /\ Current(e) /\ e.last = pos'
              /\ pos' \in pos..now /\ UNCHANGED <<truth, now>>
<1>1. PICK e \in Event :
        /\ OnDepth(e) /\ e.last = pos'
        /\ pos' \in pos..now /\ UNCHANGED <<truth, now>>
        /\ e.d \in {Listed(Shown(truth[pos'])), Delta(truth, pos, pos')}
  BY Delivered
<1>2. e.last \in 0..now
  BY <1>1, StreamType DEF BaseInv
<1>3. \A s \in Slots : e.d[s] \in {None, 0, truth[e.last][s]}
  <2>1. \A s \in Slots : Shown(truth[e.last])[s] \in {0, truth[e.last][s]}
    BY <1>2, ShownType DEF BaseInv
  <2> QED
    BY <1>1, <2>1 DEF Delta, Listed
<1> QED
  BY <1>1, <1>2, <1>3 DEF Current

\* What an accepted event leaves behind is dated, the row cut from it included.
LEMMA AcceptDated ==
    ASSUME BaseInv, BaseInv', NEW e \in Event, Accept(e), ~Rejects(book, e), Current(e),
           Dated(book, syncId), syncId \in 0..e.last, e.last <= pos',
           state' = "LIVE", loop' # "bridge", UNCHANGED <<truth, now, syncId>>
    PROVE  BookDated'
<1>1. /\ book' = Applied(book, e) /\ book'.lastU = e.last /\ book'.lv \in Levels
      /\ row'.id = e.last /\ row'.lv = Top(book'.lv, RowDepth)
  BY DEF Accept, Applied, Snapshot, BaseInv, TypeOK, MachineTypeOK
<1>2. /\ e.last \in 0..now /\ now \in Nat /\ pos' \in Int /\ syncId \in Nat
      /\ syncId <= e.last
  BY StreamType DEF BaseInv, Current, TypeOK
<1>3. book.lastU < e.last
  BY DEF Rejects, BaseInv, TypeOK, MachineTypeOK, Event
<1>4. Dated(book', syncId) /\ syncId \in 0..pos'
  BY <1>1, <1>2, <1>3, ApplyDated DEF BaseInv
<1>5. ASSUME NEW s \in Slots
      PROVE  row'.lv[s] = 0 \/ \E i \in 0..row'.id : row'.lv[s] = truth[i][s]
  <2>1. row'.lv[s] \in {0, book'.lv[s]}
    BY <1>1, TopType
  <2>2. \A i \in syncId..e.last : i \in 0..e.last
    BY <1>2
  <2> QED
    BY <1>1, <1>4, <2>1, <2>2 DEF Dated
<1> QED
  BY <1>1, <1>4, <1>5 DEF BookDated, Dated

\* Steps that leave the book and the row alone.
LEMMA DatedStays ==
    ASSUME BaseInv, BookDated, UNCHANGED <<truth, state, book, syncId, row>>,
           now' \in now..MaxId, pos' \in pos..now', loop' = "bridge" => loop = "bridge"
    PROVE  BookDated'
<1>1. /\ now \in Nat /\ pos \in Nat /\ now' \in Nat /\ pos' \in Nat
      /\ now <= now' /\ pos <= pos'
  BY StreamType DEF BaseInv
<1>2. /\ \A x \in 0..now : x \in 0..now'
      /\ \A x \in -1..now : x \in -1..now'
      /\ \A x \in 0..pos : x \in 0..pos'
  BY <1>1
<1>3. /\ SoundSince(book, syncId) => SoundSince(book, syncId)'
      /\ Dated(book, syncId) => Dated(book, syncId)'
  BY <1>2 DEF SoundSince, Dated
<1> QED
  BY <1>2, <1>3 DEF BookDated

\* A restart leaves the last row, which is still one of the exchange's past.
LEMMA RestartDated ==
    ASSUME BookDated, Restart, UNCHANGED <<row, truth, loop>>, loop # "bridge"
    PROVE  BookDated'
  BY DEF Restart, BookDated

\* The exchange and the connection.
LEMMA FeedDated ==
    ASSUME BaseInv, DatedInv, Publish \/ Connect \/ Disconnect \/ Lose
    PROVE  DatedInv'
<1>1. /\ UNCHANGED <<state, buffer, book, syncId, loop, row, truth>>
      /\ now' \in now..MaxId /\ pos' \in pos..now'
  BY FeedMoves
<1>2. BookDated'
  BY <1>1, DatedStays DEF DatedInv
<1>3. \A x \in 0..now : x \in 0..now'
  BY <1>1, StreamType DEF BaseInv
<1> QED
  BY <1>1, <1>2, <1>3 DEF DatedInv, Current

\* A frame.
LEMMA DeliverDated ==
    ASSUME BaseInv, BaseInv', DatedInv, DeliverFullBook \/ DeliverDiff
    PROVE  DatedInv'
<1>1. PICK e \in Event :
        /\ OnDepth(e) /\ Current(e) /\ e.last = pos'
        /\ pos' \in pos..now /\ UNCHANGED <<truth, now>>
  BY DeliveredCurrent
<1>2. OnDepthEvent(e) /\ UNCHANGED <<syncId, loop>> /\ loop = "idle"
  BY <1>1 DEF OnDepth, OnDepthEvent
<1>3. /\ pos \in Nat /\ pos' \in Nat /\ pos <= pos' /\ now \in Nat /\ now <= MaxId
      /\ now' \in now..MaxId /\ pos' \in pos..now' /\ e.last \in Nat
  BY <1>1, StreamType DEF BaseInv
<1>4. CASE state \in {"BUFFERING", "SYNCING"}
  <2>1. buffer' = Append(buffer, e) /\ UNCHANGED <<state, book, row>>
    BY <1>2, <1>4 DEF OnDepthEvent
  <2>2. buffer \in Seq(Event)
    BY DEF BaseInv, TypeOK, MachineTypeOK
  <2>3. ASSUME NEW i \in 1..Len(buffer')
        PROVE  \/ (i \in 1..Len(buffer) /\ buffer'[i] = buffer[i])
               \/ buffer'[i] = e
    BY <2>1, <2>2, AppendProperties
  <2>4. \A i \in 1..Len(buffer') : Current(buffer'[i])
    BY <1>1, <2>3 DEF DatedInv
  <2>5. BookDated'
    BY <1>1, <1>2, <1>3, <2>1, DatedStays DEF DatedInv
  <2> QED
    BY <1>1, <2>4, <2>5 DEF DatedInv, Current
<1>5. CASE state = "LIVE"
  <2>1. ApplyEvent(e, buffer) /\ buffer = <<>>
    BY <1>2, <1>5 DEF OnDepthEvent, BaseInv, MachineInv
  <2>2. buffer' = <<>>
    BY <2>1 DEF ApplyEvent, Restart, Forget
  <2>3. BookDated'
    <3>1. CASE Restart /\ UNCHANGED row
      BY <1>1, <1>2, <3>1, RestartDated DEF DatedInv
    <3>2. CASE ~Rejects(book, e) /\ Accept(e) /\ UNCHANGED state
      <4>1. Dated(book, syncId) /\ syncId \in 0..e.last /\ e.last <= pos'
        BY <1>1, <1>3, <1>5 DEF DatedInv, BookDated
      <4> QED
        BY <1>1, <1>2, <1>5, <3>2, <4>1, AcceptDated
    <3> QED
      BY <2>1, <3>1, <3>2 DEF ApplyEvent
  <2> QED
    BY <2>2, <2>3 DEF DatedInv
<1> QED
  BY <1>4, <1>5 DEF BaseInv, TypeOK, MachineTypeOK

\* start() resuming with an answer that may be old: the book it loads is sound.
LEMMA ResumeDated ==
    ASSUME BaseInv, DatedInv, Resume
    PROVE  DatedInv'
<1>1. UNCHANGED <<truth, now, pos>>
  BY DEF Resume, feedVars
<1>2. /\ loop = "idle" /\ UNCHANGED <<buffer, row>>
      /\ \/ /\ state = "LIVE"
            /\ UNCHANGED <<state, book, syncId, loop>>
         \/ /\ state # "LIVE"
            /\ UNCHANGED <<state, syncId, loop>>
         \/ /\ state' = "SYNCING" /\ loop' = "bridge"
            /\ book'.lastU = syncId' /\ SoundSince(book', syncId')
  BY Resumed
<1>3. BookDated'
  <2>1. CASE state = "LIVE" /\ UNCHANGED <<state, book, syncId, loop>>
    <3>1. now' \in now..MaxId /\ pos' \in pos..now'
      BY <1>1, StreamType DEF BaseInv
    <3> QED
      BY <1>1, <1>2, <2>1, <3>1, DatedStays DEF DatedInv
  <2>2. CASE state # "LIVE" /\ UNCHANGED <<state, syncId, loop>>
    BY <1>1, <1>2, <2>2 DEF DatedInv, BookDated
  <2>3. CASE /\ state' = "SYNCING" /\ loop' = "bridge"
             /\ book'.lastU = syncId' /\ SoundSince(book', syncId')
    <3>1. SoundSince(book, syncId)'
      BY <1>1, <2>3 DEF SoundSince
    <3> QED
      BY <1>1, <1>2, <2>3, <3>1 DEF DatedInv, BookDated
  <2> QED
    BY <1>2, <2>1, <2>2, <2>3
<1> QED
  BY <1>1, <1>2, <1>3 DEF DatedInv, Current

\* The head and the tail of the buffer are current.
LEMMA TailCurrent ==
    ASSUME BaseInv, DatedInv, buffer # <<>>
    PROVE  /\ Head(buffer) \in Event /\ Head(buffer).last \in 0..pos /\ Current(Head(buffer))
           /\ \A i \in 1..Len(Tail(buffer)) : Current(Tail(buffer)[i])
<1>1. Head(buffer) = buffer[1] /\ 1 \in 1..Len(buffer)
  <2>1. buffer \in Seq(Event)
    BY DEF BaseInv, TypeOK, MachineTypeOK
  <2> QED
    BY <2>1, HeadTailProperties
<1> QED
  BY <1>1, TailOrder DEF DatedInv

\* The drain: events at or past the seed, on the book loaded at the seed.
LEMMA DrainDated ==
    ASSUME BaseInv, BaseInv', DatedInv, Drain
    PROVE  DatedInv'
<1> DEFINE e == Head(buffer)
<1>1. UNCHANGED <<truth, now, pos>> /\ DrainStep
  BY Drained
<1>2. /\ now' \in now..MaxId /\ pos' \in pos..now' /\ pos \in Nat /\ now \in Nat
  BY <1>1, StreamType DEF BaseInv
<1>3. \A i \in 1..Len(buffer') : Current(buffer'[i])
  <2>1. \/ buffer' = <<>> \/ buffer' = buffer
        \/ buffer # <<>> /\ buffer' = Tail(buffer)
    BY <1>1 DEF DrainStep, SkipBridging, NoAnchor, Anchor, DrainStale, DrainApply, DrainEnd,
                ApplyEvent, Restart, Forget
  <2> QED
    BY <2>1, TailCurrent DEF DatedInv
<1>4. CASE SkipBridging \/ NoAnchor \/ DrainStale \/ DrainEnd
  <2>1. UNCHANGED <<state, book, syncId, row>> /\ (loop' = "bridge" => loop = "bridge")
    BY <1>4 DEF SkipBridging, NoAnchor, DrainStale, DrainEnd
  <2>2. BookDated'
    BY <1>1, <1>2, <2>1, DatedStays DEF DatedInv
  <2> QED
    BY <1>1, <1>3, <2>2 DEF DatedInv, Current
<1>5. CASE Anchor
  <2>1. /\ buffer # <<>> /\ loop = "bridge" /\ Bridges(e)
        /\ state' = "LIVE" /\ loop' = "drain" /\ syncId' = syncId
    BY <1>5 DEF Anchor
  <2>2. /\ SoundSince(book, syncId) /\ book.lastU = syncId /\ syncId \in Nat
    BY <2>1 DEF BaseInv, MachineInv, DatedInv, BookDated, SoundSince, TypeOK
  <2>3. e \in Event /\ Current(e) /\ e.last \in 0..pos
    BY <2>1, TailCurrent
  <2>4. syncId \in 0..pos /\ syncId \in 0..e.last /\ e.last <= pos'
    BY <1>1, <1>2, <2>1, <2>2, <2>3 DEF Bridges
  <2>5. CASE ~Rejects(book, e) /\ Accept(e)
    <3>1. Dated(book, syncId)
      BY <2>2, SoundIsDated DEF BaseInv
    <3>2. BookDated'
      BY <1>1, <2>1, <2>3, <2>4, <2>5, <3>1, AcceptDated
    <3> QED
      BY <1>1, <1>3, <3>2 DEF DatedInv, Current
  <2>6. CASE Forget /\ UNCHANGED row
    <3>1. Dated(book, syncId)' /\ syncId' \in 0..pos'
      BY <1>1, <1>2, <2>1, <2>4, <2>6 DEF Forget, Dated, NewBook, NoLevels
    <3>2. BookDated'
      BY <1>1, <2>1, <2>6, <3>1 DEF DatedInv, BookDated
    <3> QED
      BY <1>1, <1>3, <3>2 DEF DatedInv, Current
  <2> QED
    BY <1>5, <2>5, <2>6 DEF Anchor
<1>6. CASE DrainApply
  <2>1. /\ buffer # <<>> /\ loop = "drain" /\ state = "LIVE" /\ e.last >= syncId
        /\ ApplyEvent(e, Tail(buffer)) /\ UNCHANGED <<syncId, loop>>
    BY <1>6 DEF DrainApply, BaseInv, MachineInv
  <2>2. e \in Event /\ Current(e) /\ e.last \in 0..pos
    BY <2>1, TailCurrent
  <2>3. CASE Restart /\ UNCHANGED row
    <3>1. BookDated'
      BY <1>1, <2>1, <2>3, RestartDated DEF DatedInv
    <3> QED
      BY <1>1, <1>3, <3>1 DEF DatedInv, Current
  <2>4. CASE ~Rejects(book, e) /\ Accept(e) /\ UNCHANGED state
    <3>1. Dated(book, syncId) /\ syncId \in 0..e.last /\ e.last <= pos'
      BY <1>1, <1>2, <2>1, <2>2 DEF DatedInv, BookDated
    <3>2. BookDated'
      BY <1>1, <2>1, <2>2, <2>4, <3>1, AcceptDated
    <3> QED
      BY <1>1, <1>3, <3>2 DEF DatedInv, Current
  <2> QED
    BY <2>1, <2>3, <2>4 DEF ApplyEvent
<1> QED
  BY <1>1, <1>4, <1>5, <1>6 DEF DrainStep

\* What books and rows hold is the exchange's past, at every feed.
THEOREM DatedInvariant == Spec => []DatedInv
<1>1. Init => DatedInv
  BY DEF Init, MachineInit, DatedInv, BookDated
<1>2. BaseInv /\ BaseInv' /\ DatedInv /\ [Next]_vars => DatedInv'
  <2> SUFFICES ASSUME BaseInv, BaseInv', DatedInv, [Next]_vars PROVE DatedInv'
    OBVIOUS
  <2>1. CASE UNCHANGED vars \/ FetchAnswered \/ FetchFails \/ FetchRetries
    <3>1. UNCHANGED <<state, buffer, book, syncId, loop, row, truth, now, pos>>
      BY <2>1
      DEF FetchAnswered, FetchFails, FetchRetries, vars, bookVars, machineVars, feedVars
    <3> QED
      BY <3>1 DEF DatedInv, BookDated, SoundSince, Dated, Current
  <2> QED
    BY <2>1, FeedDated, DeliverDated, ResumeDated, DrainDated DEF Next
<1> QED
  BY <1>1, <1>2, BaseInvariant, PTL DEF Spec

\* Whatever is lost, delayed, merged or rejected, at every feed and at Bybit with
\* losses too: no LIVE book has a quantity the exchange has not had at that price
\* since the seed, and no row one it has not had by the row's id.
THEOREM NothingIsInvented == Spec => []NothingInvented
<1>1. DatedInv => NothingInvented
  BY DEF DatedInv, BookDated, Dated, NothingInvented
<1> QED
  BY <1>1, DatedInvariant, PTL

----------------------------------------------------------------------------
(* Feeds whose updates name the id they follow and cover the whole book.   *)
(* Bybit's do neither: its adapter passes on the last id it has seen, and  *)
(* the stream shows less of the book than a REST answer.                   *)

Chained == Feed # "bybit"

\* An event that parse_depth made of what the exchange published: a full book,
\* or an update that names the id it starts from or, at feeds that send full
\* books, none.
Genuine(e) ==
    /\ e.last \in 0..now
    /\ e.since = None => SendsFullBook /\ e.d = Listed(truth[e.last])
    /\ e.since # None => /\ e.since \in 0..(e.last - 1)
                         /\ e.first \in (e.since + 1)..e.last
                         /\ e.prev \in {e.since, None}
                         /\ e.prev = None => SendsFullBook
                         /\ e.d = Delta(truth, e.since, e.last)

\* The book is the exchange's, but for levels since removed.
LeftoversSince(bk, k) ==
    /\ bk.lastU \in 0..now
    /\ \A s \in Slots :
        \/ bk.lv[s] = truth[bk.lastU][s]
        \/ /\ truth[bk.lastU][s] = 0
           /\ \E i \in k..bk.lastU : bk.lv[s] = truth[i][s]

ChainInv ==
    /\ \A i \in 1..Len(buffer) : Genuine(buffer[i])
    /\ ~SendsFullBook => basis \in {"none", "snapshot"}

BookInv ==
    /\ state = "LIVE" /\ book.lastU >= 0 => prevU = book.lastU
    /\ basis = "snapshot" => SoundSince(book, syncId)
    /\ basis = "merged" => LeftoversSince(book, syncId)

RowInv ==
    (/\ row # None
     /\ SendsFullBook => basis = "snapshot"
     /\ Cardinality(Prices) <= SnapDepth)
        => row.lv = Top(truth[row.id], RowDepth)

IInv == BaseInv /\ DatedInv /\ ChainInv /\ BookInv /\ RowInv

\* A genuine update that starts at or before the book's id and ends after it
\* brings a sound book to the update's last id.
LEMMA ApplySound ==
    ASSUME Chained, TypeOK, NEW bk, NEW k, SoundSince(bk, k),
           NEW e, Genuine(e), e.since # None, e.since <= bk.lastU, bk.lastU < e.last
    PROVE  SoundSince(Applied(bk, e), k) /\ ~Rejects(bk, e)
<1> DEFINE a == e.since
           b == e.last
           u == bk.lastU
           new == Applied(bk, e)
<1>1. /\ a \in 0..now /\ b \in 0..now /\ u \in 0..now /\ k \in 0..u
      /\ a <= u /\ u < b
  BY DEF SoundSince, TypeOK, Genuine
<1>2. e.d = Delta(truth, a, b) /\ ~Negative(e.d) /\ e.last \in Int
  BY <1>1, LevelsType DEF Genuine
<1>3. new.lastU = b /\ new.lv = Merge(bk.lv, Delta(truth, a, b))
  BY <1>2 DEF Applied
<1>4. ASSUME NEW s \in Slots
      PROVE  \/ new.lv[s] = truth[b][s]
             \/ /\ new.lv[s] = 0
                /\ Top(truth[k], SnapDepth)[s] = 0
                /\ \A i \in k..b : truth[i][s] = truth[k][s]
  <2>1. CASE \E i \in a..b : truth[i][s] # truth[a][s]
    <3>1. truth[b][s] # None
      BY <1>1, TruthType, NoneAssumption
    <3> QED
      BY <1>3, <2>1, <3>1 DEF Merge, Delta, Shown, Chained
  <2>2. CASE \A i \in a..b : truth[i][s] = truth[a][s]
    <3>1. new.lv[s] = bk.lv[s]
      BY <1>3, <2>2 DEF Merge, Delta, Shown, Chained
    <3>2. u \in a..b /\ b \in a..b /\ u \in k..u
      BY <1>1
    <3>3. \A i \in u..b : truth[i][s] = truth[u][s]
      <4> TAKE i \in u..b
      <4>1. i \in a..b
        BY <1>1
      <4> QED
        BY <2>2, <3>2, <4>1
    <3>4. CASE bk.lv[s] = truth[u][s]
      BY <2>2, <3>1, <3>2, <3>4
    <3>5. CASE /\ bk.lv[s] = 0
               /\ Top(truth[k], SnapDepth)[s] = 0
               /\ \A i \in k..u : truth[i][s] = truth[k][s]
      <4>1. \A i \in k..b : truth[i][s] = truth[k][s]
        <5> TAKE i \in k..b
        <5>1. i \in k..u \/ i \in u..b
          BY <1>1
        <5> QED
          BY <3>2, <3>3, <3>5, <5>1
      <4> QED
        BY <3>1, <3>5, <4>1
    <3> QED
      BY <3>4, <3>5 DEF SoundSince
  <2> QED
    BY <2>1, <2>2
<1>5. k \in 0..b
  BY <1>1
<1>6. SoundSince(new, k)
  BY <1>1, <1>3, <1>4, <1>5 DEF SoundSince
<1>7. ~Crossed(new.lv)
  BY <1>6, SoundUncrossed
<1>8. ~(b <= u)
  BY <1>1
<1> QED
  BY <1>2, <1>6, <1>7, <1>8 DEF Rejects, Applied

\* What the exchange published is current.
LEMMA GenuineIsCurrent ==
    ASSUME Chained, NEW e, Genuine(e)
    PROVE  Current(e)
  BY DEF Genuine, Current, Delta, Listed, Shown, Chained

\* A full book merged into any dated book, an empty one and one behind lost frames
\* included, leaves nothing wrong but levels that have gone.
LEMMA MergeFullBook ==
    ASSUME Chained, TypeOK, NEW bk, NEW k \in Nat, Dated(bk, k),
           NEW e, Genuine(e), e.since = None, k <= e.last, bk.lastU < e.last
    PROVE  LeftoversSince(Applied(bk, e), k)
<1> DEFINE b == e.last
           new == Applied(bk, e)
<1>1. b \in 0..now /\ e.d = Listed(truth[b]) /\ Dated(new, k)
  BY GenuineIsCurrent, ApplyDated DEF Genuine
<1>2. new.lastU = b /\ new.lv = Merge(bk.lv, Listed(truth[b]))
  BY <1>1 DEF Applied
<1>3. ASSUME NEW s \in Slots, new.lv[s] # truth[b][s] PROVE truth[b][s] = 0
  BY <1>1, <1>2, <1>3, TruthType, NoneAssumption DEF Merge, Listed
<1> QED
  BY <1>1, <1>2, <1>3 DEF LeftoversSince, Dated

\* An update that starts at or before such a book's id leaves no more than that.
LEMMA ApplyLeftovers ==
    ASSUME Chained, TypeOK, NEW bk, NEW k, LeftoversSince(bk, k),
           NEW e, Genuine(e), e.since # None, e.since <= bk.lastU, bk.lastU < e.last
    PROVE  LeftoversSince(Applied(bk, e), k)
<1> DEFINE a == e.since
           b == e.last
           u == bk.lastU
           new == Applied(bk, e)
<1>1. /\ a \in 0..now /\ b \in 0..now /\ u \in 0..now /\ now \in Nat
      /\ a <= u /\ u < b
  BY StreamType DEF Genuine, LeftoversSince
<1>2. e.d = Delta(truth, a, b)
  BY DEF Genuine
<1>3. new.lastU = b /\ new.lv = Merge(bk.lv, Delta(truth, a, b))
  BY <1>2 DEF Applied
<1>4. ASSUME NEW s \in Slots
      PROVE  \/ new.lv[s] = truth[b][s]
             \/ truth[b][s] = 0 /\ \E i \in k..b : new.lv[s] = truth[i][s]
  <2>1. CASE \E i \in a..b : truth[i][s] # truth[a][s]
    <3>1. truth[b][s] # None
      BY <1>1, TruthType, NoneAssumption
    <3> QED
      BY <1>3, <2>1, <3>1 DEF Merge, Delta, Shown, Chained
  <2>2. CASE \A i \in a..b : truth[i][s] = truth[a][s]
    <3>1. new.lv[s] = bk.lv[s]
      BY <1>3, <2>2 DEF Merge, Delta, Shown, Chained
    <3>2. u \in a..b /\ b \in a..b
      BY <1>1
    <3>3. truth[b][s] = truth[u][s]
      BY <2>2, <3>2
    <3>4. CASE bk.lv[s] = truth[u][s]
      BY <3>1, <3>3, <3>4
    <3>5. CASE truth[u][s] = 0 /\ \E i \in k..u : bk.lv[s] = truth[i][s]
      <4>1. PICK i \in k..u : bk.lv[s] = truth[i][s]
        BY <3>5
      <4>2. i \in k..b
        BY <1>1, <4>1
      <4> QED
        BY <3>1, <3>3, <3>5, <4>1, <4>2
    <3> QED
      BY <3>4, <3>5 DEF LeftoversSince
  <2> QED
    BY <2>1, <2>2
<1> QED
  BY <1>1, <1>3, <1>4 DEF LeftoversSince

\* A frame's event is genuine, and once a subscription has opened it names the
\* stream's position.
LEMMA NextEvent ==
    ASSUME Chained, BaseInv, DeliverFullBook \/ DeliverDiff
    PROVE  \E e \in Event :
              /\ OnDepth(e) /\ Genuine(e) /\ e.last = pos'
              /\ opening = "none" => e.prev = pos
              /\ pos' \in pos..now
              /\ UNCHANGED <<truth, now, conn>>
<1>1. PICK e \in Event :
        /\ OnDepth(e)
        /\ e.last = pos'
        /\ pos' \in pos..now
        /\ UNCHANGED <<truth, now, conn>>
        /\ opening = "book" => /\ SendsFullBook /\ e.prev = None /\ e.since = None
                               /\ e.d = Listed(Shown(truth[pos']))
        /\ opening # "book" => /\ pos' \in (pos + 1)..now
                               /\ e.first \in (pos + 1)..pos'
                               /\ e.since = pos
                               /\ e.prev = None => SendsFullBook
                               /\ e.d = Delta(truth, pos, pos')
        /\ opening # "book" /\ Feed # "bybit" => e.prev \in {pos, None}
        /\ opening = "none" /\ Feed # "bybit" => e.prev = pos
  BY Delivered
<1>2. pos \in Nat /\ now \in Nat /\ pos <= now /\ pos # None
  BY StreamType, NoneAssumption DEF BaseInv
<1>3. e.last \in 0..now
  BY <1>1, <1>2
<1>4. CASE opening = "book"
  BY <1>1, <1>3, <1>4 DEF Genuine, Shown, Chained
<1>5. CASE opening # "book"
  <2>1. e.since \in 0..(e.last - 1) /\ e.first \in (e.since + 1)..e.last /\ e.since # None
    BY <1>1, <1>2, <1>5
  <2> QED
    BY <1>1, <1>3, <1>5, <2>1 DEF Genuine, Chained
<1> QED
  BY <1>1, <1>4, <1>5 DEF Chained

\* What an event accepted by a LIVE or anchored book leaves behind.
LEMMA AcceptInv ==
    ASSUME Chained, BaseInv, BaseInv', NEW e \in Event, Accept(e), ~Rejects(book, e),
           Genuine(e), Notes(e), state' = "LIVE", Dated(book, syncId), syncId \in 0..e.last,
           basis \in {"none", "snapshot"} /\ e.since # None => SoundSince(book, syncId),
           basis = "merged" => LeftoversSince(book, syncId),
           e.since # None /\ e.prev # None /\ basis # "partial" => e.since <= book.lastU,
           ~SendsFullBook => basis \in {"none", "snapshot"},
           UNCHANGED <<truth, now, syncId>>
    PROVE  BookInv' /\ RowInv' /\ (~SendsFullBook => basis' = "snapshot")
<1>1. /\ book' = Applied(book, e) /\ prevU' = e.last /\ book'.lastU = e.last
      /\ row' = Snapshot(book', RowDepth) /\ row'.id = e.last
      /\ row'.lv = Top(book'.lv, RowDepth) /\ book'.lv \in Levels
  BY DEF Accept, Applied, Snapshot, BaseInv, TypeOK, MachineTypeOK
<1>2. e.last \in 0..now /\ now \in Nat /\ syncId \in Nat /\ syncId <= e.last
  BY StreamType DEF BaseInv, Genuine
<1>3. book.lastU < e.last /\ book.lastU \in Int
  BY DEF Rejects, BaseInv, TypeOK, MachineTypeOK, Event
<1>4. basis' = IF e.since = None THEN "merged"
               ELSE IF e.prev = None /\ e.since > book.lastU THEN "partial"
               ELSE IF basis = "none" THEN "snapshot" ELSE basis
  <2>1. book' # NewBook
    BY <1>1, <1>2 DEF NewBook
  <2> QED
    BY <2>1 DEF Notes
<1>5. e.since # None => e.since \in Int
  BY DEF Genuine
<1>6. ~SendsFullBook => basis' = "snapshot"
  BY <1>3, <1>4, <1>5 DEF Genuine
<1>7. CASE basis' = "snapshot"
  <2>1. SoundSince(book, syncId) /\ e.since <= book.lastU /\ e.since # None
    BY <1>3, <1>4, <1>5, <1>7
  <2>2. SoundSince(book', syncId)
    BY <1>1, <1>3, <2>1, ApplySound DEF BaseInv
  <2>3. Cardinality(Prices) <= SnapDepth => book'.lv = truth[book'.lastU]
    BY <1>1, <2>2, SoundComplete DEF BaseInv
  <2>4. BookInv'
    BY <1>1, <1>7, <2>2 DEF BookInv, SoundSince
  <2> QED
    BY <1>1, <1>6, <2>3, <2>4 DEF RowInv
<1>8. CASE basis' = "merged"
  <2>1. LeftoversSince(book', syncId)
    <3>1. CASE e.since = None
      BY <1>1, <1>2, <1>3, <3>1, MergeFullBook DEF BaseInv
    <3>2. CASE e.since # None
      <4>1. e.since <= book.lastU /\ basis = "merged"
        BY <1>3, <1>4, <1>5, <1>8, <3>2
      <4> QED
        BY <1>1, <1>3, <3>2, <4>1, ApplyLeftovers DEF BaseInv
    <3> QED
      BY <3>1, <3>2
  <2>2. BookInv'
    BY <1>1, <1>8, <2>1 DEF BookInv, LeftoversSince
  <2> QED
    BY <1>6, <1>8, <2>2 DEF RowInv
<1>9. CASE basis' = "partial"
  BY <1>1, <1>6, <1>9 DEF BookInv, RowInv
<1> QED
  BY <1>4, <1>7, <1>8, <1>9 DEF BaseInv, TypeOK

\* A restart forgets everything but the last row.
LEMMA RestartInv ==
    ASSUME BaseInv, BaseInv', RowInv, Restart, UNCHANGED <<row, truth>>
    PROVE  BookInv' /\ RowInv'
<1>1. state' = "BUFFERING" /\ basis' = "none"
  BY DEF Restart, BaseInv, TypeOK
<1> QED
  BY <1>1 DEF BookInv, RowInv

\* Steps that leave the book, the row and what they rest on alone.
LEMMA BookStays ==
    ASSUME BaseInv, BookInv, RowInv, UNCHANGED <<truth, basis, state, prevU, book, syncId, row>>,
           now' \in now..MaxId
    PROVE  BookInv' /\ RowInv'
<1>1. \A x \in 0..now : x \in 0..now'
  BY StreamType DEF BaseInv
<1>2. /\ SoundSince(book, syncId) => SoundSince(book, syncId)'
      /\ LeftoversSince(book, syncId) => LeftoversSince(book, syncId)'
  BY <1>1 DEF SoundSince, LeftoversSince
<1> QED
  BY <1>2 DEF BookInv, RowInv

\* The invariant holds at the start.
LEMMA InitInv == Init => BaseInv /\ ChainInv /\ BookInv /\ RowInv
  BY BaseInit DEF Init, MachineInit, ChainInv, BookInv, RowInv

\* The exchange and the connection.
LEMMA FeedInv ==
    ASSUME Chained, IInv, BaseInv', DatedInv', Publish \/ Connect \/ Disconnect \/ Lose
    PROVE  IInv'
<1>1. /\ UNCHANGED <<state, buffer, prevU, book, syncId, loop, row>>
      /\ UNCHANGED <<basis, task, answer, truth>>
      /\ now' \in now..MaxId /\ pos' \in pos..now'
  BY FeedMoves DEF IInv
<1>2. BookInv' /\ RowInv'
  BY <1>1, BookStays DEF IInv
<1>3. \A e : Genuine(e) => Genuine(e)'
  <2>1. \A x \in 0..now : x \in 0..now'
    BY <1>1, StreamType DEF IInv, BaseInv
  <2> QED
    BY <1>1, <2>1 DEF Genuine
<1>5. ChainInv'
  BY <1>1, <1>3 DEF IInv, ChainInv
<1> QED
  BY <1>2, <1>5 DEF IInv

\* What a LIVE book and an event that does not break its continuity give AcceptInv.
LEMMA LiveDiff ==
    ASSUME IInv, state = "LIVE", NEW e \in Event, Genuine(e), ~ContinuityBreak(e)
    PROVE  /\ Dated(book, syncId) /\ syncId \in 0..pos
           /\ basis \in {"none", "snapshot"} => SoundSince(book, syncId)
           /\ basis = "merged" => LeftoversSince(book, syncId)
           /\ e.since # None /\ e.prev # None /\ basis # "partial" => e.since <= book.lastU
<1>1. Dated(book, syncId) /\ syncId \in 0..pos /\ basis # "none"
  BY DEF IInv, DatedInv, BookDated, BaseInv, TypeOK
<1>2. ASSUME e.since # None, e.prev # None, basis # "partial"
      PROVE  e.since <= book.lastU
  <2>1. basis \in {"snapshot", "merged"} /\ e.prev = e.since
    BY <1>1, <1>2 DEF IInv, BaseInv, TypeOK, Genuine
  <2>2. book.lastU \in 0..now /\ prevU = book.lastU
    BY <2>1 DEF IInv, BookInv, SoundSince, LeftoversSince
  <2> QED
    BY <1>2, <2>1, <2>2, NoneAssumption DEF ContinuityBreak
<1> QED
  BY <1>1, <1>2 DEF IInv, BookInv

\* A frame.
LEMMA DeliverInv ==
    ASSUME Chained, IInv, BaseInv', DatedInv', DeliverFullBook \/ DeliverDiff
    PROVE  IInv'
<1>1. PICK e \in Event :
        /\ OnDepth(e) /\ Genuine(e) /\ e.last = pos'
        /\ pos' \in pos..now
        /\ UNCHANGED <<truth, now, conn>>
  BY NextEvent DEF IInv
<1>2. OnDepthEvent(e) /\ UNCHANGED <<syncId, loop>> /\ loop = "idle" /\ Notes(e)
  BY <1>1 DEF OnDepth, OnDepthEvent
<1>3. /\ pos \in Nat /\ pos' \in Nat /\ pos <= pos' /\ now \in Nat /\ now <= MaxId
      /\ now' \in now..MaxId /\ pos' \in pos..now' /\ e.last \in Nat
  BY <1>1, StreamType DEF IInv, BaseInv
<1>4. CASE state \in {"BUFFERING", "SYNCING"}
  <2>1. buffer' = Append(buffer, e) /\ UNCHANGED <<state, prevU, book, row>>
    BY <1>2, <1>4 DEF OnDepthEvent
  <2>2. basis' = basis /\ basis = "none"
    BY <1>4, <2>1 DEF IInv, BaseInv, TypeOK
  <2>3. buffer \in Seq(Event)
    BY DEF IInv, BaseInv, TypeOK, MachineTypeOK
  <2>4. ASSUME NEW i \in 1..Len(buffer')
        PROVE  \/ (i \in 1..Len(buffer) /\ buffer'[i] = buffer[i])
               \/ buffer'[i] = e
    BY <2>1, <2>3, AppendProperties
  <2>5. \A i \in 1..Len(buffer') : Genuine(buffer'[i])
    BY <1>1, <2>4 DEF IInv, ChainInv
  <2>6. (\A i \in 1..Len(buffer) : Genuine(buffer[i]))'
    BY <1>1, <2>5 DEF Genuine
  <2>7. ChainInv'
    BY <1>1, <2>2, <2>6 DEF ChainInv
  <2>8. BookInv' /\ RowInv'
    BY <1>1, <1>2, <1>3, <2>1, <2>2, BookStays DEF IInv
  <2> QED
    BY <2>7, <2>8 DEF IInv
<1>5. CASE state = "LIVE"
  <2>1. ApplyEvent(e, buffer) /\ buffer = <<>>
    BY <1>2, <1>5 DEF OnDepthEvent, IInv, BaseInv, MachineInv
  <2>2. CASE Restart /\ UNCHANGED row
    <3>1. state' # "LIVE" /\ buffer' = <<>>
      BY <2>2 DEF Restart, Forget
    <3>2. ChainInv'
      BY <1>2, <3>1 DEF ChainInv, Notes
    <3> QED
      BY <1>1, <1>2, <2>2, <3>2, RestartInv DEF IInv
  <2>3. CASE /\ ~ContinuityBreak(e) /\ ~Rejects(book, e) /\ Accept(e)
             /\ buffer' = buffer /\ UNCHANGED state
    <3>1. /\ Dated(book, syncId) /\ syncId \in 0..pos
          /\ basis \in {"none", "snapshot"} => SoundSince(book, syncId)
          /\ basis = "merged" => LeftoversSince(book, syncId)
          /\ e.since # None /\ e.prev # None /\ basis # "partial" => e.since <= book.lastU
      BY <1>1, <1>5, <2>3, LiveDiff
    <3>2. syncId \in 0..e.last
      BY <1>1, <1>3, <3>1
    <3>3. BookInv' /\ RowInv' /\ (~SendsFullBook => basis' = "snapshot")
      BY <1>1, <1>2, <1>5, <2>3, <3>1, <3>2, AcceptInv DEF IInv, ChainInv
    <3>4. ChainInv'
      BY <2>1, <2>3, <3>3 DEF ChainInv
    <3> QED
      BY <3>3, <3>4 DEF IInv
  <2> QED
    BY <2>1, <2>2, <2>3 DEF ApplyEvent
<1> QED
  BY <1>4, <1>5 DEF IInv, BaseInv, TypeOK, MachineTypeOK

\* The start task waiting for its answer, failing and retrying.
LEMMA FetchInv ==
    ASSUME IInv, BaseInv', DatedInv', FetchAnswered \/ FetchFails \/ FetchRetries
    PROVE  IInv'
<1>1. /\ UNCHANGED <<state, buffer, prevU, book, syncId, loop, row, basis>>
      /\ UNCHANGED <<truth, now, pos, conn, opening, lastSeq>>
  BY DEF FetchAnswered, FetchFails, FetchRetries, bookVars, machineVars, feedVars
<1>2. now' \in now..MaxId /\ pos' \in pos..now'
  BY <1>1, StreamType DEF IInv, BaseInv
<1>3. BookInv' /\ RowInv'
  BY <1>1, <1>2, BookStays DEF IInv
<1> QED
  BY <1>1, <1>3 DEF IInv, ChainInv, Genuine

\* start() resuming with an answer that may be old.
LEMMA ResumeInv ==
    ASSUME IInv, BaseInv', DatedInv', Resume
    PROVE  IInv'
<1>1. UNCHANGED <<truth, now, pos, conn, opening, lastSeq, basis>>
  BY DEF Resume, feedVars
<1>2. /\ loop = "idle" /\ UNCHANGED <<buffer, row>>
      /\ \/ /\ state = "LIVE"
            /\ UNCHANGED <<state, prevU, book, syncId, loop>>
         \/ state # "LIVE" /\ state' # "LIVE"
  BY Resumed DEF IInv
<1>3. ChainInv'
  BY <1>1, <1>2 DEF IInv, ChainInv, Genuine
<1>4. CASE state = "LIVE"
  <2>1. now' \in now..MaxId /\ pos' \in pos..now'
    BY <1>1, StreamType DEF IInv, BaseInv
  <2>2. BookInv' /\ RowInv'
    BY <1>1, <1>2, <1>4, <2>1, BookStays DEF IInv
  <2> QED
    BY <1>3, <2>2 DEF IInv
<1>5. CASE state # "LIVE"
  <2>1. basis' = "none" /\ basis = "none"
    BY <1>1, <1>5 DEF IInv, BaseInv, TypeOK
  <2>2. BookInv' /\ RowInv'
    BY <1>1, <1>2, <1>5, <2>1 DEF IInv, BookInv, RowInv
  <2> QED
    BY <1>3, <2>2 DEF IInv
<1> QED
  BY <1>4, <1>5

\* The drain: the anchor meets the book at the id it was loaded with, every
\* later event the book its prev names.
LEMMA DrainInv ==
    ASSUME Chained, IInv, BaseInv', DatedInv', Drain
    PROVE  IInv'
<1> DEFINE e == Head(buffer)
<1>1. UNCHANGED <<truth, now, pos, conn, opening, lastSeq>>
  BY Drained
<1>2. /\ now' \in now..MaxId /\ pos' \in pos..now' /\ pos \in Nat /\ now \in Nat
  BY <1>1, StreamType DEF IInv, BaseInv
<1>3. ASSUME buffer # <<>>
      PROVE  /\ e \in Event /\ Genuine(e) /\ e.last \in 0..pos
             /\ \A i \in 1..Len(Tail(buffer)) : Genuine(Tail(buffer)[i])
  <2>1. /\ e \in Event /\ e = buffer[1] /\ 1 \in 1..Len(buffer) /\ e.last \in 0..pos
        /\ \A i \in 1..Len(Tail(buffer)) :
              i + 1 \in 1..Len(buffer) /\ Tail(buffer)[i] = buffer[i + 1]
    <3>1. buffer \in Seq(Event)
      BY DEF IInv, BaseInv, TypeOK, MachineTypeOK
    <3> QED
      BY <1>3, <3>1, HeadTailProperties, TailOrder DEF IInv
  <2> QED
    BY <2>1 DEF IInv, ChainInv
<1>4. ASSUME \/ buffer' = <<>>
             \/ buffer # <<>> /\ buffer' = Tail(buffer)
             \/ buffer' = buffer,
             ~SendsFullBook => basis' \in {"none", "snapshot"}
      PROVE  ChainInv'
  <2>1. \A i \in 1..Len(buffer') : Genuine(buffer'[i])
    <3>1. CASE buffer' = <<>>
      BY <3>1
    <3>2. CASE buffer # <<>> /\ buffer' = Tail(buffer)
      BY <1>3, <3>2
    <3>3. CASE buffer' = buffer
      BY <3>3 DEF IInv, ChainInv
    <3> QED
      BY <1>4, <3>1, <3>2, <3>3
  <2>2. (\A i \in 1..Len(buffer) : Genuine(buffer[i]))'
    BY <1>1, <2>1 DEF Genuine
  <2> QED
    BY <1>4, <2>2 DEF ChainInv
<1>5. CASE (SkipBridging \/ NoAnchor \/ DrainStale \/ DrainEnd) /\ basis' = basis
  <2>1. /\ UNCHANGED <<state, prevU, book, syncId, row>>
        /\ loop' = "bridge" => loop = "bridge"
        /\ \/ buffer # <<>> /\ buffer' = Tail(buffer)
           \/ buffer' = buffer
    BY <1>5 DEF SkipBridging, NoAnchor, DrainStale, DrainEnd
  <2>2. BookInv' /\ RowInv'
    BY <1>1, <1>2, <1>5, <2>1, BookStays DEF IInv
  <2>3. ChainInv'
    BY <1>4, <1>5, <2>1 DEF IInv, ChainInv
  <2> QED
    BY <2>2, <2>3 DEF IInv
<1>6. CASE Anchor /\ Notes(e)
  <2>1. /\ buffer # <<>> /\ loop = "bridge" /\ Bridges(e)
        /\ state' = "LIVE" /\ loop' = "drain" /\ syncId' = syncId
    BY <1>6 DEF Anchor
  <2>2. /\ state = "SYNCING" /\ SoundSince(book, syncId) /\ book.lastU = syncId
        /\ basis = "none" /\ syncId \in 0..now
    BY <2>1 DEF IInv, BaseInv, MachineInv, DatedInv, BookDated, TypeOK, SoundSince
  <2>3. e \in Event /\ Genuine(e) /\ e.last \in 0..pos
    BY <1>3, <2>1
  <2>4. syncId \in Nat /\ syncId < e.last /\ book.lastU < e.last /\ syncId \in 0..e.last
    BY <1>1, <1>2, <2>1, <2>2, <2>3 DEF Bridges
  <2>5. Dated(book, syncId)
    BY <2>2, <2>4, SoundIsDated DEF IInv, BaseInv
  <2>6. ASSUME e.since # None
        PROVE  e.since <= book.lastU /\ ~Rejects(book, e)
    <3>1. e.since <= book.lastU
      BY <2>1, <2>2, <2>3, <2>4, <2>6 DEF Bridges, Genuine, Event
    <3> QED
      BY <2>2, <2>3, <2>4, <2>6, <3>1, ApplySound DEF IInv, BaseInv
  <2>7. CASE ~Rejects(book, e) /\ Accept(e) /\ buffer' = Tail(buffer)
    <3>1. BookInv' /\ RowInv' /\ (~SendsFullBook => basis' = "snapshot")
      BY <1>1, <1>6, <2>1, <2>2, <2>3, <2>4, <2>5, <2>6, <2>7, AcceptInv DEF IInv, ChainInv
    <3> QED
      BY <1>4, <2>1, <2>7, <3>1 DEF IInv
  <2>8. CASE Rejects(book, e) /\ Forget /\ row' = row
    <3>1. SendsFullBook /\ buffer' = <<>> /\ book' = NewBook
      BY <2>3, <2>6, <2>8 DEF Forget, Genuine
    <3>2. basis' = "partial"
      BY <1>6, <2>1, <3>1 DEF Notes
    <3>3. BookInv' /\ RowInv'
      BY <3>1, <3>2 DEF BookInv, RowInv, NewBook
    <3> QED
      BY <1>4, <3>1, <3>3 DEF IInv
  <2> QED
    BY <1>6, <2>7, <2>8 DEF Anchor
<1>7. CASE DrainApply /\ Notes(e)
  <2>1. /\ buffer # <<>> /\ loop = "drain" /\ state = "LIVE" /\ e.last >= syncId
        /\ ApplyEvent(e, Tail(buffer)) /\ UNCHANGED <<syncId, loop>>
    BY <1>7 DEF DrainApply, IInv, BaseInv, MachineInv
  <2>2. e \in Event /\ Genuine(e) /\ e.last \in 0..pos
    BY <1>3, <2>1
  <2>3. CASE Restart /\ UNCHANGED row
    <3>1. buffer' = <<>> /\ state' # "LIVE" /\ BookInv' /\ RowInv'
      BY <1>1, <2>1, <2>3, RestartInv DEF Restart, Forget, IInv
    <3>2. basis' = "none"
      BY <1>7, <3>1 DEF Notes
    <3> QED
      BY <1>4, <3>1, <3>2 DEF IInv
  <2>4. CASE /\ ~ContinuityBreak(e) /\ ~Rejects(book, e) /\ Accept(e)
             /\ buffer' = Tail(buffer) /\ UNCHANGED state
    <3>1. /\ Dated(book, syncId) /\ syncId \in 0..pos
          /\ basis \in {"none", "snapshot"} => SoundSince(book, syncId)
          /\ basis = "merged" => LeftoversSince(book, syncId)
          /\ e.since # None /\ e.prev # None /\ basis # "partial" => e.since <= book.lastU
      BY <2>1, <2>2, <2>4, LiveDiff
    <3>2. syncId \in 0..e.last
      BY <1>1, <1>2, <2>1, <2>2, <3>1
    <3>3. BookInv' /\ RowInv' /\ (~SendsFullBook => basis' = "snapshot")
      BY <1>1, <1>7, <2>1, <2>2, <2>4, <3>1, <3>2, AcceptInv DEF IInv, ChainInv
    <3> QED
      BY <1>4, <2>1, <2>4, <3>3 DEF IInv
  <2> QED
    BY <2>1, <2>3, <2>4 DEF ApplyEvent
<1> QED
  BY <1>5, <1>6, <1>7 DEF Drain

\* The strengthening is inductive.
THEOREM CaptureInvariant == ASSUME Chained PROVE Spec => []IInv
<1>1. Init /\ DatedInv => IInv
  BY InitInv DEF IInv
<1>2. IInv /\ BaseInv' /\ DatedInv' /\ [Next]_vars => IInv'
  <2> SUFFICES ASSUME IInv, BaseInv', DatedInv', [Next]_vars PROVE IInv'
    OBVIOUS
  <2>1. CASE UNCHANGED vars
    <3>1. ChainInv' /\ BookInv' /\ RowInv'
      BY <2>1
      DEF vars, bookVars, machineVars, feedVars, taskVars, IInv, ChainInv, BookInv, RowInv,
          Genuine, SoundSince, LeftoversSince
    <3> QED
      BY <3>1 DEF IInv
  <2> QED
    BY <2>1, FeedInv, DeliverInv, FetchInv, ResumeInv, DrainInv DEF Next
<1> QED
  BY <1>1, <1>2, BaseInvariant, DatedInvariant, PTL DEF Spec

\* A LIVE book made of a snapshot and the diffs that followed is the exchange's
\* at the book's id, down to the depth of the snapshot: lost frames, reconnects,
\* stale and late answers included.
THEOREM SnapshotBookIsSound == ASSUME Chained PROVE Spec => []BookSoundOnSnapshot
<1>1. IInv => BookSoundOnSnapshot
  BY DEF IInv, BookInv, BookSoundOnSnapshot, BookSound, SoundSince, BeyondSnapshot
<1> QED
  BY <1>1, CaptureInvariant, PTL

\* With snapshots as deep as the book, the rows such a book hands out are the
\* exchange's book at the id they carry.
THEOREM SnapshotRowsAreTrue ==
    ASSUME Chained, Cardinality(Prices) <= SnapDepth
    PROVE  Spec => []RowTrueOnSnapshot
<1>1. IInv => RowTrueOnSnapshot
  BY DEF IInv, RowInv, RowTrueOnSnapshot, RowTrue
<1> QED
  BY <1>1, CaptureInvariant, PTL

\* A full book that is merged like a diff, at whatever moment and into whatever
\* book, has one consequence: levels the exchange has removed may stay, until an
\* update without a previous id is let in over a hole.
THEOREM FullBooksLeaveLeftovers == ASSUME Chained PROVE Spec => []LeftoversOnly
<1>1. IInv => LeftoversOnly
  BY DEF IInv, BookInv, LeftoversOnly, LeftoversSince, Leftover
<1> QED
  BY <1>1, CaptureInvariant, PTL

\* A step that moves a filled book on finds it where the stream is.
LEMMA GapStep ==
    ASSUME Chained, IInv, Next,
           book.lastU >= 0, state = "LIVE", loop = "idle", opening = "none", book'.lastU > book.lastU
    PROVE  book.lastU = pos
<1>1. book.lastU \in Int /\ book.lastU >= 0 /\ prevU = book.lastU
  BY DEF IInv, BookInv, BaseInv, TypeOK, MachineTypeOK
<1>2. CASE DeliverFullBook \/ DeliverDiff
  <2>1. PICK e \in Event : OnDepth(e) /\ e.prev = pos
    BY <1>2, NextEvent DEF IInv
  <2>2. ApplyEvent(e, buffer)
    BY <2>1 DEF OnDepth, OnDepthEvent
  <2>3. CASE ContinuityBreak(e) \/ Rejects(book, e)
    <3>1. book' = NewBook
      BY <1>1, <2>2, <2>3 DEF ApplyEvent, Restart, Forget
    <3> QED
      BY <1>1, <3>1 DEF NewBook
  <2>4. CASE ~ContinuityBreak(e)
    <3>1. prevU # None /\ pos # None
      BY <1>1, StreamType, NoneAssumption DEF IInv, BaseInv
    <3> QED
      BY <1>1, <2>1, <2>4, <3>1 DEF ContinuityBreak
  <2> QED
    BY <2>3, <2>4
<1>3. CASE Resume
  BY <1>1, <1>3 DEF Resume, StartResumes, machineVars
<1>4. CASE Drain
  BY <1>4 DEF Drain, SkipBridging, NoAnchor, Anchor, DrainStale, DrainApply, DrainEnd
<1>5. CASE Publish \/ Connect \/ Disconnect \/ Lose \/ FetchAnswered \/ FetchFails
           \/ FetchRetries
  BY <1>1, <1>5
  DEF Publish, Connect, Disconnect, Lose, FetchAnswered, FetchFails, FetchRetries,
      bookVars, machineVars
<1> QED
  BY <1>2, <1>3, <1>4, <1>5 DEF Next

\* An update that comes after a lost one is always noticed by a book that has an
\* id, whatever has been merged into it, but for the first update of a
\* subscription, which may name no previous id: it moves on only from the id the
\* stream was at.
THEOREM FilledGapsAreNoticed == ASSUME Chained PROVE Spec => GapRestartsOnceFilled
<1>1. IInv /\ [Next]_vars
        => [book.lastU >= 0 /\ state = "LIVE" /\ loop = "idle" /\ opening = "none"
              /\ book'.lastU > book.lastU => book.lastU = pos]_vars
  BY GapStep
<1> QED
  BY <1>1, CaptureInvariant, PTL DEF Spec, GapRestartsOnceFilled

----------------------------------------------------------------------------
(* Binance, whose stream has no full-book message *)

\* A LIVE book then rests on a snapshot.
LEMMA OnSnapshot ==
    ASSUME Feed = "binance"
    PROVE  /\ Chained /\ ~SendsFullBook
           /\ IInv => opening = "none" /\ (state = "LIVE" => basis = "snapshot")
  BY DEF Chained, SendsFullBook, IInv, ChainInv, BaseInv, TaskInv, TypeOK

\* While LIVE, a Binance book is the exchange's at the book's id, down to the
\* depth of the snapshot it was seeded from.
THEOREM BookIsSound == ASSUME Feed = "binance" PROVE Spec => []BookSound
<1>1. IInv => BookSound
  BY OnSnapshot DEF IInv, BookInv, BookSound, SoundSince, BeyondSnapshot
<1>2. Spec => []IInv
  BY OnSnapshot, CaptureInvariant
<1> QED
  BY <1>1, <1>2, PTL

\* A LIVE Binance machine was seeded from a snapshot.
THEOREM LiveBookIsSeeded == ASSUME Feed = "binance" PROVE Spec => []LiveIsSeeded
<1>1. IInv => LiveIsSeeded
  BY OnSnapshot DEF IInv, BookInv, LiveIsSeeded, SoundSince, BaseInv, TypeOK
<1>2. Spec => []IInv
  BY OnSnapshot, CaptureInvariant
<1> QED
  BY <1>1, <1>2, PTL

\* With snapshots as deep as the book, every Binance row is the exchange's book
\* at the row's id, the rows of a book that has since been forgotten included.
THEOREM RowsAreTrue ==
    ASSUME Feed = "binance", Cardinality(Prices) <= SnapDepth
    PROVE  Spec => []RowTrue
<1>1. IInv => RowTrue
  BY OnSnapshot DEF IInv, RowInv, RowTrue
<1>2. Spec => []IInv
  BY OnSnapshot, CaptureInvariant
<1> QED
  BY <1>1, <1>2, PTL

\* A lost Binance frame is always noticed.
THEOREM GapsAreNoticed == ASSUME Feed = "binance" PROVE Spec => GapRestarts
<1>1. IInv /\ [Next]_vars
        => [state = "LIVE" /\ loop = "idle" /\ opening = "none" /\ book'.lastU > book.lastU
              => book.lastU = pos]_vars
  <2>1. IInv /\ state = "LIVE" => book.lastU >= 0
    BY OnSnapshot DEF IInv, BookInv, SoundSince, BaseInv, TypeOK
  <2> QED
    BY <2>1, OnSnapshot, GapStep
<1>2. Spec => []IInv
  BY OnSnapshot, CaptureInvariant
<1> QED
  BY <1>1, <1>2, PTL DEF Spec, GapRestarts

\* A step that hands out a row is one of the replica's: the row is true and newer
\* than the last, and the exchange stands still.
LEMMA EmitStep ==
    ASSUME Feed = "binance", Cardinality(Prices) <= SnapDepth,
           IInv, IInv', Next, row' # row
    PROVE  Replica!Emit
<1>1. PICK e \in Event : /\ row' \in Row /\ row'.id = e.last
                        /\ (row # None => After(e, row.id))
                        /\ UNCHANGED <<truth, now>>
  BY RowStep DEF IInv
<1>2. row' # None
  BY <1>1, NoneIsNoRecord
<1>3. row'.id \in 0..pos' /\ row'.lv = Top(truth'[row'.id], RowDepth)
  BY <1>2, OnSnapshot DEF IInv, BaseInv, OrderInv, RowInv
<1>4. row'.id \in Nat /\ row'.id <= now /\ now \in Nat /\ now <= MaxId /\ MaxId \in Nat
  <2>1. pos' \in 0..now' /\ now' = now
    BY <1>1 DEF IInv, BaseInv, TypeOK
  <2> QED
    BY <1>3, <2>1, StreamType DEF IInv, BaseInv
<1>5. row'.id \in (Replica!LastId + 1)..now
  <2>1. CASE row = None
    BY <1>4, <2>1 DEF Replica!LastId
  <2>2. CASE row # None
    <3>1. row.id \in Int /\ row.id < row'.id
      BY <1>1, <2>2, OnSnapshot DEF After, IInv, BaseInv, TypeOK, MachineTypeOK, Row
    <3>2. Replica!LastId = row.id
      BY <2>2 DEF Replica!LastId
    <3> QED
      BY <1>4, <3>1, <3>2
  <2> QED
    BY <2>1, <2>2
<1>6. row' = [id |-> row'.id, lv |-> View(truth)[row'.id]]
  <2>1. row' = [id |-> row'.id, lv |-> Top(truth[row'.id], RowDepth)]
    BY <1>1, <1>3 DEF Row
  <2>2. row'.id \in 0..MaxId
    BY <1>4
  <2> QED
    BY <2>1, <2>2 DEF View
<1> QED
  BY <1>1, <1>5, <1>6 DEF Replica!Emit, View

\* One captured Binance symbol implements the abstract replica: its rows are
\* true, and each one is newer than the last.
THEOREM CaptureImplementsReplica ==
    ASSUME Feed = "binance", Cardinality(Prices) <= SnapDepth
    PROVE  Spec => ImplementsReplica
<1>1. Init => Replica!ReplicaInit
  BY DEF Init, MachineInit, Replica!ReplicaInit, View
<1>2. IInv /\ IInv' /\ [Next]_vars
        => [Replica!Publish \/ Replica!Emit]_(Replica!replicaVars)
  <2> SUFFICES ASSUME IInv, IInv', [Next]_vars
               PROVE  [Replica!Publish \/ Replica!Emit]_(Replica!replicaVars)
    OBVIOUS
  <2> USE DEF Replica!replicaVars, View
  <2>1. CASE UNCHANGED vars
    BY <2>1 DEF vars, bookVars, machineVars, feedVars
  <2>2. CASE Next /\ row' # row
    BY <2>2, EmitStep
  <2>3. CASE Publish
    BY <2>3 DEF Publish, bookVars, machineVars, Replica!Publish
  <2>4. CASE Next /\ row' = row /\ ~Publish
    BY <2>4
    DEF Next, Connect, Disconnect, Lose, DeliverFullBook, DeliverDiff, FetchAnswered,
        FetchFails, FetchRetries, Resume, Drain, feedVars
  <2> QED
    BY <2>1, <2>2, <2>3, <2>4
<1>3. Spec => []IInv
  BY OnSnapshot, CaptureInvariant
<1> QED
  BY <1>1, <1>2, <1>3, PTL DEF Spec, ImplementsReplica, Replica!ReplicaSpec
=============================================================================

----------------------- MODULE DepthStateMachineProofs -----------------------
(***************************************************************************)
(* Proofs about the state machine under an arbitrary environment: any      *)
(* events, any snapshots, start() and restart() called at any time.        *)
(***************************************************************************)
EXTENDS DepthStateMachine, L2BookProofs, SequenceTheorems

\* The book a restart leaves is a book.
LEMMA NewBookType == NewBook \in [lv : Levels, lastU : Int]
BY DEF NewBook, NoLevels, Levels

\* What an accepted event leaves behind.
LEMMA AcceptType ==
    ASSUME MachineTypeOK, NEW e \in Event, ~Rejects(book, e), Accept(e)
    PROVE  /\ book' \in [lv : Levels, lastU : Int]
           /\ prevU' \in Int /\ prevU' = book'.lastU
           /\ row' \in Row
           /\ ~Crossed(row'.lv)
<1>1. e.d \in Updates /\ e.last \in Int /\ book.lv \in Levels
  BY DEF MachineTypeOK, Event
<1>2. Merge(book.lv, e.d) \in Levels
  BY <1>1, MergeType DEF Rejects
<1>3. ~Crossed(Top(Merge(book.lv, e.d), RowDepth))
  BY <1>2, TopUncrossed, RowDepthAssumption DEF Rejects
<1>4. Top(Merge(book.lv, e.d), RowDepth) \in Levels
  BY <1>2, TopType
<1> QED
  BY <1>1, <1>2, <1>3, <1>4 DEF Accept, Applied, Snapshot, Row

\* A failing load_snapshot leaves some of the snapshot's levels behind.
LEMMA HalfLoadedType ==
    ASSUME NEW snap \in RestSnapshot, NEW bk \in HalfLoaded(snap), LoadRejects(snap)
    PROVE  bk \in [lv : Levels, lastU : Int]
<1> DEFINE Part(S) == [s \in Slots |-> IF s \in S THEN snap.d[s] ELSE None]
<1>1. snap.d \in Updates /\ snap.id \in Int /\ NoLevels \in Levels
  BY DEF RestSnapshot, NoLevels, Levels
<1>2. PICK S \in SUBSET Slots :
        /\ bk = [lv |-> Merge(NoLevels, Part(S)), lastU |-> snap.id]
        /\ \A s \in S : snap.d[s] # None => ~(snap.d[s] < 0)
  <2>1. CASE Negative(snap.d)
    <3>1. PICK S \in SUBSET Slots :
            /\ bk = [lv |-> Merge(NoLevels, Part(S)), lastU |-> snap.id]
            /\ \A s \in S : snap.d[s] # None => snap.d[s] >= 0
      BY <2>1 DEF HalfLoaded
    <3>2. \A s \in S : snap.d[s] # None => snap.d[s] \in Int
      BY <1>1 DEF Updates
    <3>3. \A s \in S : snap.d[s] # None => ~(snap.d[s] < 0)
      <4> TAKE s \in S
      <4> HAVE snap.d[s] # None
      <4> QED
        BY <3>1, <3>2
    <3> HIDE DEF Part
    <3> QED
      BY <3>1, <3>3
  <2>2. CASE ~Negative(snap.d)
    <3>1. bk = [lv |-> Merge(NoLevels, Part(Slots)), lastU |-> snap.id]
      BY <2>2 DEF HalfLoaded
    <3> QED
      BY <2>2, <3>1 DEF Negative
  <2> QED
    BY <2>1, <2>2
<1>3. Part(S) \in Updates
  BY <1>1 DEF Updates
<1>4. ~Negative(Part(S))
  BY <1>2 DEF Negative
<1>5. Merge(NoLevels, Part(S)) \in Levels
  BY <1>1, <1>3, <1>4, MergeType
<1> QED
  BY <1>1, <1>2, <1>5

\* The strengthening: what the fields hold, together with where the buffer and
\* the continuity id can be non-trivial.
MachineInv ==
    /\ MachineTypeOK
    /\ NoCrossedRow
    /\ prevU # None => prevU = book.lastU /\ state = "LIVE"
    /\ state = "LIVE" /\ loop = "idle" => buffer = <<>>
    /\ loop = "bridge" => state = "SYNCING"
    /\ loop = "drain" /\ buffer # <<>> => state = "LIVE"

\* The strengthening holds at the start.
LEMMA MachineInitInv == MachineInit => MachineInv
BY NewBookType DEF MachineInit, MachineInv, MachineTypeOK, NoCrossedRow

\* _apply_event either accepts the event or restarts; both keep it.
LEMMA ApplyEventInv ==
    ASSUME MachineInv, NEW e \in Event, NEW rest \in Seq(Event),
           ApplyEvent(e, rest), UNCHANGED <<syncId, loop>>,
           state = "LIVE", loop = "idle" => rest = <<>>
    PROVE  MachineInv'
<1> USE DEF MachineInv, MachineTypeOK
<1>1. CASE ~ContinuityBreak(e) /\ ~Rejects(book, e)
  <2>1. Accept(e) /\ buffer' = rest /\ state' = "LIVE" /\ loop' = loop /\ syncId' = syncId
    BY <1>1 DEF ApplyEvent
  <2>2. /\ book' \in [lv : Levels, lastU : Int]
        /\ prevU' \in Int /\ prevU' = book'.lastU
        /\ row' \in Row
        /\ ~Crossed(row'.lv)
    BY <1>1, <2>1, AcceptType
  <2> QED
    BY <2>1, <2>2 DEF NoCrossedRow
<1>2. CASE ContinuityBreak(e) \/ Rejects(book, e)
  <2>1. /\ buffer' = <<>> /\ prevU' = None /\ book' = NewBook
        /\ state' = "BUFFERING" /\ loop' = loop /\ syncId' = syncId /\ row' = row
    BY <1>2 DEF ApplyEvent, Restart, Forget
  <2> QED
    BY <2>1, NewBookType DEF NoCrossedRow
<1> QED
  BY <1>1, <1>2

\* on_depth_event buffers the event or applies it.
LEMMA OnDepthEventInv ==
    ASSUME MachineInv, NEW e \in Event, OnDepthEvent(e)
    PROVE  MachineInv'
<1>1. CASE state \in {"BUFFERING", "SYNCING"}
  <2>1. /\ buffer' = Append(buffer, e)
        /\ UNCHANGED <<state, prevU, book, row, syncId, loop>>
        /\ loop = "idle"
    BY <1>1 DEF OnDepthEvent
  <2>2. Append(buffer, e) \in Seq(Event)
    BY AppendProperties DEF MachineInv, MachineTypeOK
  <2> QED
    BY <1>1, <2>1, <2>2 DEF MachineInv, MachineTypeOK, NoCrossedRow
<1>2. CASE state = "LIVE"
  <2>1. ApplyEvent(e, buffer) /\ UNCHANGED <<syncId, loop>> /\ loop = "idle"
    BY <1>2 DEF OnDepthEvent
  <2>2. buffer \in Seq(Event) /\ buffer = <<>>
    BY <1>2, <2>1 DEF MachineInv, MachineTypeOK
  <2> QED
    BY <1>2, <2>1, <2>2, ApplyEventInv
<1> QED
  BY <1>1, <1>2 DEF MachineInv, MachineTypeOK

\* start() seeds the book and begins the drain, or dies half-way.
LEMMA StartResumesInv ==
    ASSUME MachineInv, NEW snap \in RestSnapshot, StartResumes(snap)
    PROVE  MachineInv'
<1> USE DEF MachineInv, MachineTypeOK
<1>1. CASE state = "LIVE"
  BY <1>1 DEF StartResumes, machineVars, NoCrossedRow
<1>2. CASE state # "LIVE" /\ LoadRejects(snap)
  <2>1. /\ book' \in HalfLoaded(snap)
        /\ UNCHANGED <<state, buffer, prevU, syncId, loop, row>>
    BY <1>2 DEF StartResumes
  <2>2. book' \in [lv : Levels, lastU : Int]
    BY <1>2, <2>1, HalfLoadedType
  <2> QED
    BY <1>2, <2>1, <2>2 DEF NoCrossedRow
<1>3. CASE state # "LIVE" /\ ~LoadRejects(snap)
  <2>1. /\ book' = Loaded(snap) /\ state' = "SYNCING" /\ prevU' = None
        /\ syncId' = snap.id /\ loop' = "bridge" /\ UNCHANGED <<buffer, row>>
    BY <1>3 DEF StartResumes
  <2>2. Loaded(snap) \in [lv : Levels, lastU : Int] /\ snap.id \in Int
    BY <1>3, MergeType DEF LoadRejects, Loaded, RestSnapshot, NoLevels, Levels
  <2> QED
    BY <2>1, <2>2 DEF NoCrossedRow
<1> QED
  BY <1>1, <1>2, <1>3

\* Each iteration of the drain keeps it, whichever of them restarts.
LEMMA DrainStepInv ==
    ASSUME MachineInv, DrainStep
    PROVE  MachineInv'
<1> USE DEF MachineInv, MachineTypeOK
<1>1. ASSUME buffer # <<>>
      PROVE  Head(buffer) \in Event /\ Tail(buffer) \in Seq(Event)
  BY <1>1, HeadTailProperties
<1>2. CASE SkipBridging
  BY <1>1, <1>2 DEF SkipBridging, NoCrossedRow
<1>3. CASE NoAnchor
  BY <1>3 DEF NoAnchor, NoCrossedRow
<1>4. CASE Anchor
  <2>1. buffer # <<>> /\ loop' = "drain" /\ state' = "LIVE" /\ syncId' = syncId
    BY <1>4 DEF Anchor
  <2>2. CASE ~Rejects(book, Head(buffer))
    <3>1. Accept(Head(buffer)) /\ buffer' = Tail(buffer)
      BY <1>4, <2>2 DEF Anchor
    <3>2. /\ book' \in [lv : Levels, lastU : Int]
          /\ prevU' \in Int /\ prevU' = book'.lastU
          /\ row' \in Row
          /\ ~Crossed(row'.lv)
      BY <1>1, <2>1, <2>2, <3>1, AcceptType
    <3> QED
      BY <1>1, <2>1, <3>1, <3>2 DEF NoCrossedRow
  <2>3. CASE Rejects(book, Head(buffer))
    <3>1. /\ buffer' = <<>> /\ prevU' = None /\ book' = NewBook /\ row' = row
      BY <1>4, <2>3 DEF Anchor, Forget
    <3> QED
      BY <2>1, <3>1, NewBookType DEF NoCrossedRow
  <2> QED
    BY <2>2, <2>3
<1>5. CASE DrainStale
  BY <1>1, <1>5 DEF DrainStale, NoCrossedRow
<1>6. CASE DrainApply
  <2>1. /\ buffer # <<>> /\ loop = "drain" /\ state = "LIVE"
        /\ ApplyEvent(Head(buffer), Tail(buffer)) /\ UNCHANGED <<syncId, loop>>
    BY <1>6 DEF DrainApply
  <2> QED
    BY <1>1, <2>1, ApplyEventInv
<1>7. CASE DrainEnd
  BY <1>7 DEF DrainEnd, NoCrossedRow
<1> QED
  BY <1>2, <1>3, <1>4, <1>5, <1>6, <1>7 DEF DrainStep

\* restart() called from outside.
LEMMA ExternalRestartInv ==
    ASSUME MachineInv, ExternalRestart
    PROVE  MachineInv'
BY NewBookType
DEF ExternalRestart, Restart, Forget, MachineInv, MachineTypeOK, NoCrossedRow

\* The strengthening is inductive for every environment.
THEOREM MachineInvariant ==
    ASSUME NEW CONSTANT Events \in SUBSET Event,
           NEW CONSTANT Snapshots \in SUBSET RestSnapshot,
           NEW CONSTANT MaxBuffer
    PROVE  MachineSpec(Events, Snapshots, MaxBuffer) => []MachineInv
<1>1. MachineInit => MachineInv
  BY MachineInitInv
<1>2. MachineInv /\ [MachineNext(Events, Snapshots, MaxBuffer)]_machineVars => MachineInv'
  <2> SUFFICES ASSUME MachineInv,
                      [MachineNext(Events, Snapshots, MaxBuffer)]_machineVars
               PROVE  MachineInv'
    OBVIOUS
  <2>1. ASSUME NEW e \in Events, OnDepthEvent(e) PROVE MachineInv'
    BY <2>1, OnDepthEventInv
  <2>2. ASSUME NEW snap \in Snapshots, StartResumes(snap) PROVE MachineInv'
    BY <2>2, StartResumesInv
  <2>3. CASE UNCHANGED machineVars
    BY <2>3 DEF machineVars, MachineInv, MachineTypeOK, NoCrossedRow
  <2> QED
    BY <2>1, <2>2, <2>3, DrainStepInv, ExternalRestartInv DEF MachineNext
<1> QED
  BY <1>1, <1>2, PTL DEF MachineSpec

\* Whatever the exchange sends and however start() and restart() interleave:
\* the fields keep their types.
THEOREM MachineTypeCorrect ==
    ASSUME NEW CONSTANT Events \in SUBSET Event,
           NEW CONSTANT Snapshots \in SUBSET RestSnapshot,
           NEW CONSTANT MaxBuffer
    PROVE  MachineSpec(Events, Snapshots, MaxBuffer) => []MachineTypeOK
<1>1. MachineInv => MachineTypeOK
  BY DEF MachineInv
<1> QED
  BY <1>1, MachineInvariant, PTL

\* No row with a best bid at or above its best ask is ever handed out.
THEOREM NeverWritesCrossedRow ==
    ASSUME NEW CONSTANT Events \in SUBSET Event,
           NEW CONSTANT Snapshots \in SUBSET RestSnapshot,
           NEW CONSTANT MaxBuffer
    PROVE  MachineSpec(Events, Snapshots, MaxBuffer) => []NoCrossedRow
<1>1. MachineInv => NoCrossedRow
  BY DEF MachineInv
<1> QED
  BY <1>1, MachineInvariant, PTL

\* The level BestLevel picks is one of the best ones, with a quantity above 0.
LEMMA BestLevelIsBest ==
    ASSUME NEW lv \in Levels, NEW side \in Sides, Best(lv, side) # {}
    PROVE  /\ BestLevel(lv, side).price \in Best(lv, side)
           /\ BestLevel(lv, side).price \in Int
           /\ BestLevel(lv, side).qty \in Int /\ BestLevel(lv, side).qty > 0
<1> DEFINE p == CHOOSE q \in Prices : q \in Best(lv, side)
<1>1. p \in Best(lv, side) /\ p \in Prices
  <2>1. \E q \in Prices : q \in Best(lv, side)
    BY DEF Best
  <2> QED
    BY <2>1
<1>2. lv[<<side, p>>] \in Nat /\ lv[<<side, p>>] # 0
  BY <1>1 DEF Best, Levels, Slots
<1>3. BestLevel(lv, side) = [price |-> p, qty |-> lv[<<side, p>>]]
  BY DEF BestLevel
<1> HIDE DEF p
<1> QED
  BY <1>1, <1>2, <1>3, PricesAssumption

\* What the weights of a microprice do, on numbers.
LEMMA WeightedPrice ==
    ASSUME NEW bp \in Int, NEW ap \in Int, bp < ap,
           NEW bq \in Int, NEW aq \in Int, bq > 0, aq > 0
    PROVE  /\ bp * (bq + aq) < ap * bq + bp * aq
           /\ ap * bq + bp * aq < ap * (bq + aq)
<1>1. (ap - bp) * bq > 0 /\ (ap - bp) * aq > 0
  BY SMT
<1>2. /\ (ap - bp) * bq = ap * bq - bp * bq
      /\ (ap - bp) * aq = ap * aq - bp * aq
      /\ bp * (bq + aq) = bp * bq + bp * aq
      /\ ap * (bq + aq) = ap * bq + ap * aq
  BY SMT
<1> QED
  BY <1>1, <1>2, SMT

\* Whatever arrives, a two-sided row's microprice exists and lies strictly inside
\* its spread.
THEOREM RowPricesAreSound ==
    ASSUME NEW CONSTANT Events \in SUBSET Event,
           NEW CONSTANT Snapshots \in SUBSET RestSnapshot,
           NEW CONSTANT MaxBuffer
    PROVE  MachineSpec(Events, Snapshots, MaxBuffer) => []MicropriceInsideSpread
<1>1. ASSUME MachineTypeOK, NoCrossedRow PROVE MicropriceInsideSpread
  <2> SUFFICES ASSUME row # None, TwoSided(row.lv) PROVE MicropriceInsideSpread
    BY DEF MicropriceInsideSpread
  <2> DEFINE b == BestLevel(row.lv, "bid")
             a == BestLevel(row.lv, "ask")
  <2>1. row.lv \in Levels /\ ~Crossed(row.lv)
    BY <1>1 DEF MachineTypeOK, NoCrossedRow, Row
  <2>2. /\ b.price \in Best(row.lv, "bid") /\ b.price \in Int
        /\ b.qty \in Int /\ b.qty > 0
    BY <2>1, BestLevelIsBest DEF TwoSided, Sides
  <2>3. /\ a.price \in Best(row.lv, "ask") /\ a.price \in Int
        /\ a.qty \in Int /\ a.qty > 0
    BY <2>1, BestLevelIsBest DEF TwoSided, Sides
  <2>4. b.price < a.price
    BY <2>1, <2>2, <2>3 DEF Crossed
  <2>5. TouchQty(row.lv) = b.qty + a.qty /\ TouchQty(row.lv) # 0
    BY <2>2, <2>3 DEF TouchQty
  <2>6. Microprice(row.lv) = [num |-> a.price * b.qty + b.price * a.qty,
                              den |-> b.qty + a.qty]
    BY <2>5 DEF Microprice, Quotient
  <2>7. Microprice(row.lv) # None
    <3>1. a.price * b.qty + b.price * a.qty \in Int /\ b.qty + a.qty \in Int
      BY <2>2, <2>3
    <3> HIDE DEF a, b
    <3> QED
      BY <2>6, <3>1, NoneIsNoQuotient
  <2> DEFINE bp == b.price  ap == a.price  bq == b.qty  aq == a.qty
             m == Microprice(row.lv)
  <2>8. bp * (bq + aq) < ap * bq + bp * aq /\ ap * bq + bp * aq < ap * (bq + aq)
    <3> HIDE DEF a, b
    <3>1. bp \in Int /\ ap \in Int /\ bp < ap /\ bq \in Int /\ aq \in Int /\ bq > 0 /\ aq > 0
      BY <2>2, <2>3, <2>4
    <3> HIDE DEF bp, ap, bq, aq
    <3> QED
      BY <3>1, WeightedPrice
  <2>9. m.num = ap * bq + bp * aq /\ m.den = bq + aq /\ m.den > 0
    <3> HIDE DEF a, b
    <3>1. bq + aq > 0
      BY <2>2, <2>3
    <3> QED
      BY <2>6, <3>1
  <2>10. bp * m.den < m.num /\ m.num < ap * m.den
    <3> HIDE DEF m, bp, ap, bq, aq
    <3> QED
      BY <2>8, <2>9
  <2> HIDE DEF m
  <2> QED
    BY <2>7, <2>9, <2>10 DEF MicropriceInsideSpread, m
<1> QED
  BY <1>1, MachineTypeCorrect, NeverWritesCrossedRow, PTL

\* A LIVE machine has nothing left in its buffer, and the id it checks the next
\* event against is that of its book.
THEOREM LiveMachineIsCaughtUp ==
    ASSUME NEW CONSTANT Events \in SUBSET Event,
           NEW CONSTANT Snapshots \in SUBSET RestSnapshot,
           NEW CONSTANT MaxBuffer
    PROVE  MachineSpec(Events, Snapshots, MaxBuffer)
               => [](LiveBufferEmpty /\ ContinuityIdIsBookId)
<1>1. MachineInv => LiveBufferEmpty /\ ContinuityIdIsBookId
  BY DEF MachineInv, LiveBufferEmpty, ContinuityIdIsBookId
<1> QED
  BY <1>1, MachineInvariant, PTL

\* The continuity id the next event is checked against is that of the book it
\* will be applied to, through every anchor, drain, restart and failed start.
COROLLARY ContinuityIdIsTheBooks ==
    ASSUME NEW CONSTANT Events \in SUBSET Event,
           NEW CONSTANT Snapshots \in SUBSET RestSnapshot,
           NEW CONSTANT MaxBuffer
    PROVE  MachineSpec(Events, Snapshots, MaxBuffer) => []ContinuityIdIsBookId
<1> QED
  BY LiveMachineIsCaughtUp, PTL

\* An accepted event moves the book to a higher id.
LEMMA ApplyEventIncreases ==
    ASSUME MachineInv, NEW e \in Event, NEW rest, ApplyEvent(e, rest)
    PROVE  book'.lastU > book.lastU \/ book' = NewBook
<1>1. e.last \in Int /\ book.lastU \in Int
  BY DEF Event, MachineInv, MachineTypeOK
<1> QED
  BY <1>1 DEF ApplyEvent, Accept, Applied, Rejects, Restart, Forget

\* "Out-of-order or stale diff events are rejected, not merged", for every
\* environment.
THEOREM StaleDiffsAreRejected ==
    ASSUME NEW CONSTANT Events \in SUBSET Event,
           NEW CONSTANT Snapshots \in SUBSET RestSnapshot,
           NEW CONSTANT MaxBuffer
    PROVE  MachineSpec(Events, Snapshots, MaxBuffer) => IdsIncrease
<1> DEFINE Step == book' # book => \/ book'.lastU > book.lastU
                                  \/ book' = NewBook
                                  \/ (state # "LIVE" /\ loop = "idle")
<1>1. ASSUME MachineInv, MachineNext(Events, Snapshots, MaxBuffer)
      PROVE  Step
  <2>1. ASSUME buffer # <<>> PROVE Head(buffer) \in Event
    BY <1>1, <2>1, HeadTailProperties DEF MachineInv, MachineTypeOK
  <2>2. ASSUME NEW e \in Events, OnDepthEvent(e) PROVE Step
    <3>1. CASE state \in {"BUFFERING", "SYNCING"} /\ UNCHANGED book
      BY <3>1
    <3>2. CASE state = "LIVE" /\ ApplyEvent(e, buffer)
      BY <1>1, <3>2, ApplyEventIncreases
    <3> QED
      BY <2>2, <3>1, <3>2 DEF OnDepthEvent
  <2>3. ASSUME NEW snap \in Snapshots, StartResumes(snap) PROVE Step
    BY <2>3 DEF StartResumes, machineVars
  <2>4. CASE Anchor
    <3>1. CASE Rejects(book, Head(buffer))
      BY <2>4, <3>1 DEF Anchor, Forget
    <3>2. CASE ~Rejects(book, Head(buffer))
      <4>1. Head(buffer).last \in Int /\ book.lastU \in Int
        <5>1. Head(buffer) \in Event
          BY <2>1, <2>4 DEF Anchor
        <5> QED
          BY <1>1, <5>1 DEF Event, MachineInv, MachineTypeOK
      <4>2. Accept(Head(buffer)) /\ ~(Head(buffer).last <= book.lastU)
        BY <2>4, <3>2 DEF Anchor, Rejects
      <4>3. book'.lastU = Head(buffer).last
        BY <4>2 DEF Accept, Applied
      <4> QED
        BY <4>1, <4>2, <4>3
    <3> QED
      BY <3>1, <3>2
  <2>5. CASE DrainApply
    <3>1. Head(buffer) \in Event /\ ApplyEvent(Head(buffer), Tail(buffer))
      BY <2>1, <2>5 DEF DrainApply
    <3> QED
      BY <1>1, <3>1, ApplyEventIncreases
  <2>6. CASE SkipBridging \/ NoAnchor \/ DrainStale \/ DrainEnd
    BY <2>6 DEF SkipBridging, NoAnchor, DrainStale, DrainEnd
  <2>7. CASE ExternalRestart
    BY <2>7 DEF ExternalRestart, Restart, Forget
  <2> QED
    BY <1>1, <2>2, <2>3, <2>4, <2>5, <2>6, <2>7 DEF MachineNext, DrainStep
<1>2. MachineInv /\ [MachineNext(Events, Snapshots, MaxBuffer)]_machineVars
        => [Step]_machineVars
  BY <1>1
<1> QED
  BY <1>2, MachineInvariant, PTL DEF MachineSpec, IdsIncrease
=============================================================================

------------------------- MODULE CaptureDaemonProofs -------------------------
(***************************************************************************)
(* What becomes of the rows of the process, for any symbols, number of     *)
(* rows, failing writes, late start tasks and swallowed cancellations.     *)
(* Every step of the daemon is a call of the writer or none, so the        *)
(* writer's invariant holds; Kept accounts for each row.                   *)
(***************************************************************************)
EXTENDS CaptureDaemon, TickWriterProofs

\* Before the final flush a row is in a buffer, in a file or lost; after it,
\* when every task has ended, it is in a file or lost.
Kept ==
    /\ phase \in {"checking_clock", "running", "cancelling"} =>
          \A id \in 1..accepted : /\ Pending(id) \/ Filed(id) \/ id \in lost
                                  /\ id \in lost => ~Pending(id) /\ ~Filed(id)
    /\ phase \in {"closing", "returned"} =>
          tasks = {} /\ \A id \in 1..accepted : Filed(id) <=> id \notin lost

DInv == WInv /\ TypeOK /\ Kept

\* What a flush of some buffers does to a row: one that is popped is filed or
\* given up, one that was filed stays so, and nothing else is filed.
LEMMA FlushRows ==
    ASSUME WInv, Flush \/ FlushFails, NEW id
    PROVE  /\ Filed(id) => Filed(id)'
           /\ Filed(id)' => Filed(id) \/ Pending(id)
           /\ Pending(id)' => Pending(id)
           /\ Flush => (Pending(id) => Filed(id)') /\ ~Pending(id)'
<1> DEFINE Writes(ks, new) == /\ files' = files \cup new
                              /\ pending' = [k \in Keys |-> IF k \in ks THEN {} ELSE pending[k]]
                              /\ Flush => ks = Keys /\ new = FilesOfKeys(Keys)
<1>0. \E ks \in SUBSET Keys : \E new \in SUBSET FilesOfKeys(ks) : Writes(ks, new)
  <2>1. CASE Flush
    <3>1. FilesOfKeys(Keys) \in SUBSET FilesOfKeys(Keys)
      OBVIOUS
    <3>2. files' = files \cup FilesOfKeys(Keys)
      BY <2>1 DEF Flush, FlushKeys, FilesOfKeys
    <3> QED
      BY <2>1, <3>1, <3>2 DEF Flush, FlushKeys
  <2>2. CASE FlushFails /\ ~Flush
    <3>1. PICK k \in Keys : \E peers \in SUBSET Peers(k), i \in 1..MaxRows : FlushFailsAt(k, peers, i)
      BY <2>2 DEF FlushFails
    <3>2. PICK peers \in SUBSET Peers(k), i \in 1..MaxRows : FlushFailsAt(k, peers, i)
      BY <3>1
    <3> DEFINE before == peers \cup {j \in Keys : StreamNo(j) < StreamNo(k)}
               some == (UNION {AllFiles(j) : j \in before}) \cup FilesOf(k, DatesBefore(pending[k], i))
               popped == before \cup {k}
    <3>3. popped \in SUBSET Keys
      BY DEF Peers
    <3>4. FilesOf(k, DatesBefore(pending[k], i)) \subseteq AllFiles(k)
      BY DEF FilesOf, AllFiles, DatesBefore, DatesOf
    <3>5. some \in SUBSET FilesOfKeys(popped)
      BY <3>4 DEF FilesOfKeys
    <3>6. /\ files' = files \cup some
          /\ pending' = [j \in Keys |-> IF j \in popped THEN {} ELSE pending[j]]
      BY <3>2 DEF FlushFailsAt
    <3> HIDE DEF some, popped
    <3> QED
      BY <2>2, <3>3, <3>5, <3>6
  <2> QED
    BY <2>1, <2>2
<1>a. PICK ks \in SUBSET Keys : \E new \in SUBSET FilesOfKeys(ks) : Writes(ks, new)
  BY <1>0
<1>1. PICK new \in SUBSET FilesOfKeys(ks) : Writes(ks, new)
  BY <1>a
<1>2. \A k \in Keys : pending'[k] = IF k \in ks THEN {} ELSE pending[k]
  BY <1>1
<1>3. \A f \in new : f.rows \subseteq pending[f.key] /\ f.key \in Keys
  <2> SUFFICES ASSUME NEW f \in new PROVE f.rows \subseteq pending[f.key] /\ f.key \in Keys
    OBVIOUS
  <2>1. PICK k \in ks : \E r \in pending[k] : f = FileOf(k, r.day)
    BY FileOfIs
  <2> QED
    BY <2>1 DEF FileOf
<1>4. Filed(id) => Filed(id)'
  BY <1>1 DEF Filed
<1>5. Filed(id)' => Filed(id) \/ Pending(id)
  BY <1>1, <1>3 DEF Filed, Pending, HasRow
<1>6. Pending(id)' => Pending(id)
  BY <1>2 DEF Pending, HasRow
<1>7. ASSUME Flush PROVE (Pending(id) => Filed(id)') /\ ~Pending(id)'
  <2>1. ~Pending(id)'
    BY <1>1, <1>2, <1>7 DEF Pending, HasRow
  <2>2. ASSUME Pending(id) PROVE Filed(id)'
    <3>1. PICK k \in Keys : HasRow(pending[k], id)
      BY <2>2 DEF Pending
    <3>2. PICK r \in pending[k] : r.id = id
      BY <3>1 DEF HasRow
    <3>3. FileOf(k, r.day) \in FilesOfKeys(Keys)
      BY <3>2 DEF FilesOfKeys, AllFiles, FilesOf, DatesOf
    <3>4. r \in FileOf(k, r.day).rows
      BY <3>2 DEF FileOf
    <3> QED
      BY <1>1, <1>7, <3>2, <3>3, <3>4 DEF Filed, HasRow
  <2> QED
    BY <2>1, <2>2
<1> QED
  BY <1>4, <1>5, <1>6, <1>7

\* What an added row does: it is the next one, in a buffer and in no file.
LEMMA AddRows ==
    ASSUME WInv, NEW k \in Keys, NEW day \in Days, Add(k, day)
    PROVE  /\ accepted \in Nat /\ accepted' = accepted + 1
           /\ \A id : Filed(id)' = Filed(id)
           /\ \A id : Pending(id)' <=> (Pending(id) \/ id = accepted + 1)
           /\ ~Filed(accepted + 1)
<1>1. accepted \in Nat /\ accepted' = accepted + 1 /\ files' = files
  BY WriterAssumption DEF WInv, WriterTypeOK, Add
<1> DEFINE row == [id |-> accepted + 1, day |-> day]
<1>2. \A l \in Keys : pending'[l] = IF l = k THEN pending[k] \cup {row} ELSE pending[l]
  BY DEF WInv, WriterTypeOK, Add
<1>3. row.id = accepted + 1
  OBVIOUS
<1> HIDE DEF row
<1>4. \A id : Pending(id)' <=> (Pending(id) \/ id = accepted + 1)
  BY <1>2, <1>3 DEF Pending, HasRow
<1>5. ~Filed(accepted + 1)
  <2> SUFFICES ASSUME NEW f \in files, NEW r \in f.rows, r.id = accepted + 1 PROVE FALSE
    BY DEF Filed, HasRow
  <2>1. r.id <= At(f) /\ At(f) <= accepted /\ At(f) \in Nat
    BY FileFields DEF WInv, FiledOnce
  <2> QED
    BY <1>1, <2>1
<1> QED
  BY <1>1, <1>4, <1>5 DEF Filed

\* Each step of the daemon is a call of the writer, or leaves it alone.
LEMMA StepIsWriterStep == [Next]_vars => [WriterNext]_writerVars
<1> SUFFICES ASSUME [Next]_vars PROVE [WriterNext]_writerVars
  OBVIOUS
<1>1. CASE ClockDrifts \/ HandleSignal \/ RefuseToStart \/ StartTasks \/ CancelTasks \/ TaskEnds
           \/ CancelSwallowed \/ MainReturns \/ WatchdogHalts \/ UNCHANGED vars
  BY <1>1 DEF ClockDrifts, HandleSignal, RefuseToStart, StartTasks, CancelTasks, TaskEnds,
              CancelSwallowed, MainReturns, WatchdogHalts, vars, writerVars
<1>2. CASE DateChanges \/ FinalFlush \/ FlushLoop \/ PollMarkPrice
  BY <1>2 DEF DateChanges, FinalFlush, FlushLoop, PollMarkPrice, WriterNext
<1>3. ASSUME NEW s \in Symbols, CaptureRow(s) \/ Resync(s) \/ StartResumes(s)
      PROVE  [WriterNext]_writerVars
  BY <1>3 DEF CaptureRow, Resync, StartResumes, WriterNext, writerVars
<1> QED
  BY <1>1, <1>2, <1>3 DEF Next

LEMMA DaemonStart == Init => DInv
<1> SUFFICES ASSUME Init PROVE DInv
  OBVIOUS
<1>1. WInv
  BY WriterStart DEF Init
<1>2. TypeOK
  BY <1>1, DaemonAssumption DEF Init, TypeOK, WInv, Ended
<1>3. Kept
  BY <1>1 DEF Init, Kept, WriterInit
<1> QED
  BY <1>1, <1>2, <1>3 DEF DInv

\* Steps that change neither buffers nor files keep the account of the rows.
LEMMA SameRows ==
    ASSUME UNCHANGED <<writerVars, lost>>
    PROVE  /\ \A id : (Pending(id)' <=> Pending(id)) /\ (Filed(id)' <=> Filed(id))
           /\ accepted' = accepted /\ lost' = lost
<1> QED
  BY DEF writerVars, Pending, Filed

\* A row that is added keeps the account, lost at once if it comes too late.
LEMMA AddKept ==
    ASSUME DInv, NEW k \in Keys, NEW day \in Days, Add(k, day), phase' = phase, tasks' = tasks,
           lost' = IF phase = "closing" THEN lost \cup (accepted + 1)..accepted' ELSE lost,
           phase # "returned"
    PROVE  Kept' /\ lost' \subseteq 1..accepted'
<1>1. /\ accepted \in Nat /\ accepted' = accepted + 1
      /\ \A id : Filed(id)' = Filed(id)
      /\ \A id : Pending(id)' <=> (Pending(id) \/ id = accepted + 1)
      /\ ~Filed(accepted + 1)
  BY AddRows DEF DInv
<1>2. lost \subseteq 1..accepted
  BY DEF DInv, TypeOK
<1>3. lost' = IF phase = "closing" THEN lost \cup {accepted + 1} ELSE lost
  <2>1. (accepted + 1)..(accepted + 1) = {accepted + 1}
    BY <1>1
  <2> QED
    BY <1>1, <2>1
<1>4. 1..accepted' = (1..accepted) \cup {accepted + 1} /\ accepted + 1 \notin 1..accepted
  BY <1>1
<1> QED
  BY <1>1, <1>2, <1>3, <1>4 DEF DInv, Kept

LEMMA DaemonStep == DInv /\ [Next]_vars => DInv'
<1> SUFFICES ASSUME DInv, [Next]_vars PROVE DInv'
  OBVIOUS
<1> USE DEF DInv
<1>0. WInv' /\ WriterTypeOK'
  BY StepIsWriterStep, WriterStep DEF WInv
<1>1. CASE ClockDrifts \/ HandleSignal \/ RefuseToStart \/ StartTasks \/ CancelTasks \/ TaskEnds
           \/ CancelSwallowed \/ MainReturns \/ WatchdogHalts \/ UNCHANGED vars
           \/ \E s \in Symbols : Resync(s)
  <2>1. UNCHANGED <<writerVars, lost>>
    BY <1>1 DEF ClockDrifts, HandleSignal, RefuseToStart, StartTasks, CancelTasks, TaskEnds,
                CancelSwallowed, MainReturns, WatchdogHalts, vars, Resync
  <2>2. TypeOK'
    <3>1. /\ phase' \in {"checking_clock", "running", "cancelling", "closing"} \cup Ended
          /\ stop' \in BOOLEAN /\ drifted' \in BOOLEAN /\ starting' \subseteq Symbols
      BY <1>1 DEF TypeOK, ClockDrifts, HandleSignal, RefuseToStart, StartTasks, CancelTasks, TaskEnds,
                  CancelSwallowed, MainReturns, WatchdogHalts, vars, daemonVars, Resync, Ended
    <3>2. tasks' \subseteq {Capture(s) : s \in Symbols} \cup Housekeeping
      <4>1. CASE StartTasks
        BY <4>1 DEF StartTasks
      <4>2. CASE ~StartTasks
        <5>1. tasks' \subseteq tasks
          BY <1>1, <4>2 DEF ClockDrifts, HandleSignal, RefuseToStart, CancelTasks, TaskEnds,
                            CancelSwallowed, MainReturns, WatchdogHalts, vars, daemonVars, Resync
        <5> QED
          BY <5>1 DEF TypeOK
      <4> QED
        BY <4>1, <4>2
    <3>3. escaped' \subseteq {Capture(s) : s \in Symbols}
      <4>1. CASE CancelSwallowed
        BY <4>1 DEF CancelSwallowed, TypeOK
      <4>2. CASE ~CancelSwallowed
        <5>1. escaped' = escaped
          BY <1>1, <4>2 DEF ClockDrifts, HandleSignal, RefuseToStart, StartTasks, CancelTasks, TaskEnds,
                            MainReturns, WatchdogHalts, vars, daemonVars, Resync
        <5> QED
          BY <5>1 DEF TypeOK
      <4> QED
        BY <4>1, <4>2
    <3>4. lost' \subseteq 1..accepted'
      BY <2>1, SameRows DEF TypeOK
    <3> QED
      BY <1>0, <3>1, <3>2, <3>3, <3>4 DEF TypeOK
  <2>3. Kept'
    <3>1. /\ phase' \in {"checking_clock", "running", "cancelling"} =>
                phase \in {"checking_clock", "running", "cancelling"}
          /\ phase' \in {"closing", "returned"} => phase \in {"closing", "returned"} /\ tasks' = tasks
      BY <1>1 DEF ClockDrifts, HandleSignal, RefuseToStart, StartTasks, CancelTasks, TaskEnds,
                  CancelSwallowed, MainReturns, WatchdogHalts, vars, daemonVars, Resync, Kept, Runs
    <3> QED
      BY <2>1, <3>1, SameRows DEF Kept
  <2> QED
    BY <1>0, <2>2, <2>3
<1>2. CASE FinalFlush
  <2>1. accepted' = accepted /\ (Flush \/ FlushFails) /\ tasks = {} /\ tasks' = {}
    BY <1>2 DEF FinalFlush, Flush, FlushKeys, FlushFails, FlushFailsAt
  <2>2. \A id : (Filed(id) => Filed(id)') /\ (Filed(id)' => Filed(id) \/ Pending(id))
    BY <2>1, FlushRows
  <2>3. \A id \in 1..accepted : Filed(id)' <=> id \notin lost'
    <3>1. CASE Flush /\ lost' = lost
      BY <1>2, <2>2, <3>1, FlushRows DEF Kept, FinalFlush
    <3>2. CASE lost' = lost \cup {id \in 1..accepted : Pending(id) /\ ~Filed(id)'}
      BY <1>2, <2>2, <3>2 DEF Kept, FinalFlush
    <3> QED
      BY <1>2, <3>1, <3>2 DEF FinalFlush
  <2>4. TypeOK'
    BY <1>0, <1>2, <2>1 DEF TypeOK, FinalFlush
  <2>5. Kept'
    BY <1>2, <2>1, <2>3 DEF Kept, FinalFlush
  <2> QED
    BY <1>0, <2>4, <2>5
<1>3. CASE FlushLoop
  <2>1. accepted' = accepted /\ (Flush \/ FlushFails)
    BY <1>3 DEF FlushLoop, Flush, FlushKeys, FlushFails, FlushFailsAt
  <2>2. \A id : /\ Filed(id) => Filed(id)'
                /\ Filed(id)' => Filed(id) \/ Pending(id)
                /\ Pending(id)' => Pending(id)
    BY <2>1, FlushRows
  <2>3. UNCHANGED daemonVars /\ phase \in {"running", "cancelling"}
    <3>1. phase \in {"checking_clock", "running", "cancelling", "closing"} \cup Ended
      BY DEF TypeOK
    <3>2. <<"flush_loop">> \notin escaped
      BY DEF TypeOK, Capture
    <3> QED
      BY <1>3, <3>2 DEF FlushLoop, Runs
  <2>4. TypeOK'
    BY <1>0, <1>3, <2>1, <2>3 DEF TypeOK, FlushLoop, daemonVars
  <2>5. \A id \in 1..accepted : /\ Pending(id)' \/ Filed(id)' \/ id \in lost'
                                /\ id \in lost' => ~Pending(id)' /\ ~Filed(id)'
    <3>1. CASE Flush /\ lost' = lost
      BY <2>2, <2>3, <3>1, FlushRows DEF Kept
    <3>2. CASE lost' = lost \cup {id \in 1..accepted : Pending(id) /\ ~(Pending(id) \/ Filed(id))'}
      BY <2>2, <2>3, <3>2 DEF Kept
    <3> QED
      BY <1>3, <3>1, <3>2 DEF FlushLoop
  <2>6. Kept'
    BY <2>1, <2>3, <2>5 DEF Kept, daemonVars
  <2> QED
    BY <1>0, <2>4, <2>6
<1>4. ASSUME NEW s \in Symbols, NEW day \in Days, NEW k \in Keys, Add(k, day),
             UNCHANGED <<phase, stop, drifted, tasks, escaped>>, starting' \subseteq starting,
             phase # "returned",
             lost' = IF phase = "closing" THEN lost \cup (accepted + 1)..accepted' ELSE lost
      PROVE  DInv'
  <2>1. Kept' /\ lost' \subseteq 1..accepted'
    BY <1>4, AddKept
  <2>2. TypeOK'
    BY <1>0, <1>4, <2>1 DEF TypeOK
  <2> QED
    BY <1>0, <2>1, <2>2
<1>5. ASSUME NEW t, Runs(t) PROVE phase \notin {"closing", "returned"}
  BY <1>5 DEF Runs, Kept
<1>6. \A s \in Symbols : {<<s, "books">>, <<s, "trades">>, <<s, "mark_price">>} \subseteq Keys
  BY DEF Keys, Streams
<1>7. CASE PollMarkPrice \/ \E s \in Symbols : CaptureRow(s)
  <2>1. PICK s \in Symbols, day \in Days, k \in Keys : Add(k, day)
    BY <1>6, <1>7 DEF PollMarkPrice, CaptureRow, AddMarkPrice, AddBook, AddTradeNormalized
  <2>2. UNCHANGED <<daemonVars, lost>> /\ phase \notin {"closing", "returned"}
    BY <1>5, <1>7 DEF PollMarkPrice, CaptureRow
  <2> QED
    BY <1>4, <2>1, <2>2 DEF daemonVars
<1>8. ASSUME NEW s \in Symbols, StartResumes(s) PROVE DInv'
  <2> USE <1>8 DEF StartResumes
  <2>1. phase # "returned" /\ starting' \subseteq starting
    OBVIOUS
  <2>2. CASE UNCHANGED writerVars
    <3>1. (accepted + 1)..accepted' = {}
      BY <2>2, WriterAssumption DEF writerVars, WInv, WriterTypeOK
    <3>2. lost' = lost
      BY <3>1
    <3>3. TypeOK'
      BY <1>0, <2>1, <2>2, <3>2 DEF TypeOK, writerVars
    <3>4. Kept'
      BY <2>2, <3>2, SameRows DEF Kept
    <3> QED
      BY <1>0, <3>3, <3>4
  <2>3. CASE \E day \in Days : AddBook(s, day)
    BY <1>4, <1>6, <2>1, <2>3 DEF AddBook
  <2> QED
    BY <2>2, <2>3
<1>9. CASE DateChanges
  <2>1. UNCHANGED <<pending, files, accepted, daemonVars, lost>>
    BY <1>9 DEF DateChanges, MidnightPasses
  <2>2. TypeOK' /\ Kept'
    BY <1>0, <2>1 DEF TypeOK, Kept, Pending, Filed, daemonVars
  <2> QED
    BY <1>0, <2>2
<1> QED
  BY <1>1, <1>2, <1>3, <1>7, <1>8, <1>9 DEF Next

\* The daemon's use of the writer is one the writer allows: its steps are
\* calls of add, flush and failing flushes, or leave buffers and files alone.
THEOREM DaemonUsesWriter == Spec => WriterSpec
<1>1. Init => WriterInit
  BY DEF Init
<1> QED
  BY <1>1, StepIsWriterStep, PTL DEF Spec, WriterSpec

LEMMA AlwaysDInv == Spec => []DInv
<1> QED
  BY DaemonStart, DaemonStep, PTL DEF Spec

\* The types of main's variables and of the writer's.
THEOREM DaemonTypeCorrect == Spec => []TypeOK
<1>1. DInv => TypeOK
  BY DEF DInv
<1> QED
  BY <1>1, AlwaysDInv, PTL

\* However tasks, flushes and failures interleave, no row is in two files, or
\* in a file and a buffer.
THEOREM DaemonWritesRowsOnce == Spec => []RowsOnce
<1> QED
  BY DaemonUsesWriter, WriterIsSound, PTL

\* However tasks, flushes and failures interleave, the files of one directory
\* that were flushed on one date are, by name, in the order of their rows.
THEOREM DaemonKeepsOrder == Spec => []FilesInOrder
<1> QED
  BY DaemonUsesWriter, WriterIsSound, PTL

\* When main has returned, the rows in no file are those of writes that raised
\* and of start tasks that came after the final flush.
THEOREM NothingIsLeftBehind == Spec => []NothingLeftBehind
<1>1. DInv => NothingLeftBehind
  BY DEF DInv, Kept, NothingLeftBehind
<1> QED
  BY <1>1, AlwaysDInv, PTL
=============================================================================

-------------------------- MODULE TickWriterProofs --------------------------
(***************************************************************************)
(* No row is written twice or out of order, for any symbols, dates, number *)
(* of rows and sequence of calls, failing flushes included.  The inductive *)
(* invariant rests on the count of rows at the time of a flush: whatever   *)
(* is in a file was added by then, whatever is in its buffer later.        *)
(***************************************************************************)
EXTENDS TickWriter, TLAPS

\* The number of rows added when a file was flushed.
At(f) == dawn[f.on] + f.time

\* No file was flushed on a date still to come.
FlushDates == \A f \in files : f.on <= today

\* An id names one row, and that row is in one buffer.
BufferedOnce ==
    \A k, l \in Keys : \A r \in pending[k], q \in pending[l] :
        /\ r.id <= accepted
        /\ r.id = q.id => k = l /\ r = q

\* The rows of a file were there when it was written, and are nowhere else.
FiledOnce ==
    \A f \in files : \A r \in f.rows :
        /\ r.id <= At(f) /\ At(f) <= accepted
        /\ \A k \in Keys : \A q \in pending[k] : r.id # q.id
        /\ \A g \in files : \A q \in g.rows : r.id = q.id => f = g

\* What is buffered, or filed later, came after the file was written.
LaterRows ==
    \A f \in files :
        /\ \A q \in pending[f.key] : At(f) < q.id
        /\ \A g \in files : f.key = g.key /\ At(f) < At(g) => \A q \in g.rows : At(f) < q.id

WInv == WriterTypeOK /\ FlushDates /\ BufferedOnce /\ FiledOnce /\ LaterRows

\* The fields of a file, in numbers.
LEMMA FileFields ==
    ASSUME WriterTypeOK, NEW f \in files
    PROVE  /\ f \in Files /\ f.key \in Keys /\ f.on \in Days /\ f.on \in Nat
           /\ f.time \in Nat /\ dawn[f.on] \in Nat /\ At(f) \in Nat
           /\ f.rows # {} /\ \A r \in f.rows : r \in Rows /\ r.id \in Nat
<1>1. f \in Files /\ f.rows # {}
  BY DEF WriterTypeOK
<1>2. f.key \in Keys /\ f.on \in Days /\ f.time \in 0..MaxRows /\ f.rows \in SUBSET Rows
  BY <1>1 DEF Files
<1>a. Days \subseteq Nat /\ MaxRows \in Nat /\ accepted \in Nat
  BY WriterAssumption DEF WriterTypeOK
<1>b. dawn \in [Days -> 0..accepted]
  BY DEF WriterTypeOK
<1>c. dawn[f.on] \in 0..accepted
  BY <1>2, <1>b
<1>d. \A n \in Nat : \A x \in 0..n : x \in Nat
  OBVIOUS
<1>3. f.on \in Nat /\ f.time \in Nat /\ dawn[f.on] \in Nat
  <2>1. f.on \in Nat
    BY <1>2, <1>a
  <2>2. f.time \in Nat /\ dawn[f.on] \in Nat
    BY <1>2, <1>a, <1>c, <1>d
  <2> QED
    BY <2>1, <2>2
<1>4. \A r \in f.rows : r \in Rows /\ r.id \in Nat
  BY <1>2, WriterAssumption DEF Rows
<1> QED
  BY <1>1, <1>2, <1>3, <1>4 DEF At

\* The files a flush may make of the buffers of ks.
FilesOfKeys(ks) == UNION {AllFiles(k) : k \in ks}

LEMMA FileOfIs ==
    ASSUME NEW ks, NEW f \in FilesOfKeys(ks)
    PROVE  \E k \in ks : \E r \in pending[k] : f = FileOf(k, r.day)
<1> QED
  BY DEF FilesOfKeys, AllFiles, FilesOf, DatesOf

\* What is common to every flush, complete or not: the buffers of ks are
\* popped and some of their files are written.
LEMMA PopAndWrite ==
    ASSUME WInv,
           NEW ks \in SUBSET Keys, NEW new \in SUBSET FilesOfKeys(ks),
           files' = files \cup new,
           pending' = [k \in Keys |-> IF k \in ks THEN {} ELSE pending[k]],
           accepted' = accepted, UNCHANGED clockVars
    PROVE  WInv'
<1> USE DEF WInv
<1>0. accepted \in Nat /\ MaxRows \in Nat
  BY WriterAssumption DEF WriterTypeOK
<1>1. \A k \in Keys : pending'[k] = IF k \in ks THEN {} ELSE pending[k]
  OBVIOUS
<1>2. \A k \in Keys : \A r \in pending[k] : r \in Rows /\ r.id \in Nat /\ r.id \in 1..accepted /\ r.day \in Days
  BY <1>0 DEF WriterTypeOK, Rows, BufferedOnce
<1>9. /\ today' = today /\ dawn' = dawn
      /\ today \in Days /\ Days \subseteq Nat
      /\ \A d \in Days : dawn[d] \in Nat /\ dawn[d] <= accepted
  <2>1. today' = today /\ dawn' = dawn
    BY DEF clockVars
  <2>2. today \in Days /\ dawn \in [Days -> 0..accepted]
    BY DEF WriterTypeOK
  <2>3. \A d \in Days : dawn[d] \in 0..accepted
    BY <2>2
  <2> QED
    BY <1>0, <2>1, <2>2, <2>3, WriterAssumption
<1>3. ASSUME NEW f \in new
      PROVE  /\ f \in Files /\ f.key \in ks /\ f.on = today /\ At(f) = accepted /\ accepted \in 1..MaxRows
             /\ f.rows \subseteq pending[f.key] /\ f.rows # {}
             /\ \A r \in f.rows : r.day = f.day
             /\ f = FileOf(f.key, f.day)
  <2>1. PICK k \in ks : \E r \in pending[k] : f = FileOf(k, r.day)
    BY FileOfIs
  <2>2. PICK r \in pending[k] : f = FileOf(k, r.day)
    BY <2>1
  <2>3. k \in Keys /\ r.day \in Days /\ r.id \in 1..accepted
    BY <1>2
  <2>4. /\ f.key = k /\ f.day = r.day /\ f.on = today /\ f.time = TimeOfDay
        /\ f.rows = {q \in pending[k] : q.day = r.day}
    BY <2>2 DEF FileOf
  <2>a. TimeOfDay \in 0..MaxRows /\ At(f) = accepted
    BY <2>4, <1>0, <1>9 DEF TimeOfDay, At, WriterTypeOK
  <2>5. accepted \in 1..MaxRows
    BY <2>3, <1>0 DEF WriterTypeOK
  <2>6. f.rows \in SUBSET Rows
    BY <2>3, <2>4, <1>2
  <2>b. /\ f.rows \subseteq pending[k] /\ r \in f.rows /\ f = FileOf(f.key, f.day)
        /\ \A q \in f.rows : q.day = f.day
    BY <2>2, <2>4
  <2>7. f \in Files
    BY <2>2, <2>3, <2>4, <2>a, <2>6, <1>9 DEF FileOf, Files
  <2> QED
    BY <2>1, <2>3, <2>4, <2>a, <2>5, <2>7, <2>b
<1>4. \A f \in files : f \in Files /\ f.key \in Keys /\ f.on \in Days /\ At(f) \in Nat
  BY FileFields
<1>b. \A f : At(f)' = At(f)
  BY <1>9 DEF At
<1>c. FlushDates'
  BY <1>3, <1>9 DEF FlushDates
<1>5. WriterTypeOK'
  <2>1. pending' \in [Keys -> SUBSET Rows]
    BY <1>2
  <2>2. files' \subseteq Files
    BY <1>3, <1>4
  <2>3. \A f \in files' : f.rows # {} /\ \A r \in f.rows : r.day = f.day
    BY <1>3 DEF WriterTypeOK
  <2> QED
    BY <1>9, <2>1, <2>2, <2>3 DEF WriterTypeOK
<1>6. BufferedOnce'
  BY <1>1 DEF BufferedOnce
<1>7. FiledOnce'
  <2> SUFFICES ASSUME NEW f \in files', NEW r \in f.rows
               PROVE  /\ r.id <= At(f) /\ At(f) <= accepted
                      /\ \A k \in Keys : \A q \in pending'[k] : r.id # q.id
                      /\ \A g \in files' : \A q \in g.rows : r.id = q.id => f = g
    BY <1>b DEF FiledOnce
  <2>1. CASE f \in files
    <3>1. /\ r.id <= At(f) /\ At(f) <= accepted
          /\ \A k \in Keys : \A q \in pending[k] : r.id # q.id
          /\ \A g \in files : \A q \in g.rows : r.id = q.id => f = g
      BY <2>1 DEF FiledOnce
    <3>2. \A g \in new : \A q \in g.rows : r.id # q.id
      BY <3>1, <1>3
    <3> QED
      BY <3>1, <3>2, <1>1
  <2>2. CASE f \in new
    <3>1. f.key \in Keys /\ r \in pending[f.key] /\ At(f) = accepted /\ f.key \in ks
      BY <2>2, <1>3
    <3>2. r.id <= At(f) /\ At(f) <= accepted
      BY <3>1, <1>0, <1>2
    <3>3. \A k \in Keys : \A q \in pending'[k] : r.id # q.id
      BY <3>1, <1>1 DEF BufferedOnce
    <3>4. \A g \in files : \A q \in g.rows : r.id # q.id
      BY <3>1 DEF FiledOnce
    <3>5. ASSUME NEW g \in new, NEW q \in g.rows, r.id = q.id
          PROVE  f = g
      <4>1. g.key \in Keys /\ q \in pending[g.key]
        BY <1>3
      <4>2. f.key = g.key /\ r = q
        BY <3>1, <3>5, <4>1 DEF BufferedOnce
      <4>3. f.day = g.day
        BY <2>2, <1>3, <4>2
      <4> QED
        BY <2>2, <1>3, <4>2, <4>3
    <3> QED
      BY <3>2, <3>3, <3>4, <3>5
  <2> QED
    BY <2>1, <2>2
<1>8. LaterRows'
  <2> SUFFICES ASSUME NEW f \in files'
               PROVE  /\ \A q \in pending'[f.key] : At(f) < q.id
                      /\ \A g \in files' : f.key = g.key /\ At(f) < At(g) => \A q \in g.rows : At(f) < q.id
    BY <1>b DEF LaterRows
  <2>1. CASE f \in files
    <3>1. /\ \A q \in pending[f.key] : At(f) < q.id
          /\ \A g \in files : f.key = g.key /\ At(f) < At(g) => \A q \in g.rows : At(f) < q.id
      BY <2>1 DEF LaterRows
    <3> QED
      BY <2>1, <3>1, <1>1, <1>3, <1>4
  <2>2. CASE f \in new
    <3>1. f.key \in ks /\ f.key \in Keys /\ At(f) = accepted
      BY <2>2, <1>3
    <3>2. \A g \in files : At(g) <= accepted
      BY <1>0, <1>4 DEF FiledOnce, WriterTypeOK
    <3>3. \A g \in files' : ~(At(f) < At(g))
      BY <3>1, <3>2, <1>0, <1>3, <1>4
    <3> QED
      BY <3>1, <3>3, <1>1
  <2> QED
    BY <2>1, <2>2
<1> QED
  BY <1>5, <1>c, <1>6, <1>7, <1>8

\* A row is added: its id is new, and higher than every other.
LEMMA AddKeeps ==
    ASSUME WInv, NEW k \in Keys, NEW day \in Days, Add(k, day)
    PROVE  WInv'
<1> USE DEF WInv
<1> DEFINE row == [id |-> accepted + 1, day |-> day]
<1>0. /\ accepted \in Nat /\ MaxRows \in Nat /\ accepted < MaxRows
      /\ accepted' = accepted + 1 /\ files' = files
      /\ today' = today /\ dawn' = dawn /\ Days \subseteq Nat
  BY WriterAssumption DEF WriterTypeOK, Add, clockVars
<1>1. pending' = [pending EXCEPT ![k] = pending[k] \cup {row}]
  BY DEF Add
<1>2. \A l \in Keys : pending'[l] = IF l = k THEN pending[k] \cup {row} ELSE pending[l]
  BY <1>1 DEF WriterTypeOK
<1>3. \A l \in Keys : \A r \in pending[l] : r.id \in Nat /\ r.id <= accepted
  BY <1>0 DEF WriterTypeOK, Rows, BufferedOnce
<1>4. row \in Rows /\ row.id = accepted + 1
  BY <1>0 DEF Rows
<1>5. \A f \in files : /\ f.key \in Keys /\ At(f) \in Nat /\ At(f) <= accepted
                       /\ \A r \in f.rows : r.id \in Nat /\ r.id <= accepted
  <2> SUFFICES ASSUME NEW f \in files
               PROVE  /\ f.key \in Keys /\ At(f) \in Nat /\ At(f) <= accepted
                      /\ \A r \in f.rows : r.id \in Nat /\ r.id <= accepted
    OBVIOUS
  <2>1. f.key \in Keys /\ At(f) \in Nat /\ f.rows # {} /\ f.rows \subseteq Rows
    BY FileFields
  <2>2. \A r \in f.rows : r.id \in Nat /\ r.id <= At(f) /\ At(f) <= accepted
    BY <2>1 DEF FiledOnce, Rows
  <2> QED
    BY <2>1, <2>2, <1>0
<1> HIDE DEF row
<1>6. WriterTypeOK'
  <2>1. pending' \in [Keys -> SUBSET Rows]
    BY <1>1, <1>4 DEF WriterTypeOK
  <2>2. accepted' \in 0..MaxRows
    BY <1>0
  <2>3. dawn' \in [Days -> 0..accepted']
    BY <1>0 DEF WriterTypeOK
  <2> QED
    BY <2>1, <2>2, <2>3, <1>0 DEF WriterTypeOK
<1>a. \A f : At(f)' = At(f)
  BY <1>0 DEF At
<1>b. FlushDates'
  BY <1>0 DEF FlushDates
<1>7. BufferedOnce'
  BY <1>0, <1>2, <1>3, <1>4 DEF BufferedOnce
<1>8. FiledOnce'
  BY <1>0, <1>2, <1>4, <1>5, <1>a DEF FiledOnce
<1>9. LaterRows'
  BY <1>0, <1>2, <1>4, <1>5, <1>a DEF LaterRows
<1> QED
  BY <1>6, <1>b, <1>7, <1>8, <1>9

LEMMA FlushKeysKeeps ==
    ASSUME WInv, NEW ks \in SUBSET Keys, FlushKeys(ks)
    PROVE  WInv'
<1> DEFINE new == FilesOfKeys(ks)
<1>1. /\ files' = files \cup new
      /\ pending' = [k \in Keys |-> IF k \in ks THEN {} ELSE pending[k]]
      /\ accepted' = accepted /\ UNCHANGED clockVars
  BY DEF FlushKeys, FilesOfKeys
<1>2. new \in SUBSET FilesOfKeys(ks)
  OBVIOUS
<1> HIDE DEF new
<1> QED
  BY <1>1, <1>2, PopAndWrite

\* A flush that raises pops the buffers it has reached and writes some files.
LEMMA FlushFailsKeeps == WInv /\ FlushFails => WInv'
<1> SUFFICES ASSUME WInv, NEW k \in Keys, NEW peers \in SUBSET Peers(k), NEW id \in 1..MaxRows,
                    FlushFailsAt(k, peers, id)
             PROVE  WInv'
  BY DEF FlushFails
<1> DEFINE before == peers \cup {j \in Keys : StreamNo(j) < StreamNo(k)}
           new == (UNION {AllFiles(j) : j \in before}) \cup FilesOf(k, DatesBefore(pending[k], id))
           ks == before \cup {k}
<1>1. ks \in SUBSET Keys
  BY DEF Peers
<1>2. FilesOf(k, DatesBefore(pending[k], id)) \subseteq AllFiles(k)
  BY DEF FilesOf, AllFiles, DatesBefore, DatesOf
<1>3. new \in SUBSET FilesOfKeys(ks)
  BY <1>2 DEF FilesOfKeys
<1>4. /\ files' = files \cup new
      /\ pending' = [j \in Keys |-> IF j \in ks THEN {} ELSE pending[j]]
      /\ accepted' = accepted /\ UNCHANGED clockVars
  BY DEF FlushFailsAt
<1> HIDE DEF new, ks
<1> QED
  BY <1>1, <1>3, <1>4, PopAndWrite

\* At midnight the time of day starts again; the files keep theirs.
LEMMA MidnightKeeps == WInv /\ MidnightPasses => WInv'
<1> SUFFICES ASSUME WInv, MidnightPasses PROVE WInv'
  OBVIOUS
<1> USE DEF WInv
<1>1. /\ today \in Nat /\ accepted \in Nat /\ Days \subseteq Nat /\ today + 1 \in Days
      /\ today' = today + 1 /\ dawn' = [dawn EXCEPT ![today + 1] = accepted]
      /\ UNCHANGED <<pending, files, accepted>>
  BY WriterAssumption DEF WriterTypeOK, MidnightPasses
<1>2. \A f \in files : f.on \in Nat /\ f.on <= today /\ f.on # today + 1
  BY <1>1, FileFields DEF FlushDates
<1>3. \A f \in files : At(f)' = At(f)
  BY <1>1, <1>2 DEF At, WriterTypeOK
<1>4. WriterTypeOK'
  BY <1>1 DEF WriterTypeOK
<1>5. FlushDates' /\ BufferedOnce'
  BY <1>1, <1>2 DEF FlushDates, BufferedOnce
<1>6. FiledOnce'
  BY <1>1, <1>3 DEF FiledOnce
<1>7. LaterRows'
  BY <1>1, <1>3 DEF LaterRows
<1> QED
  BY <1>4, <1>5, <1>6, <1>7

\* Whatever call is next, or none, the invariant is preserved.
LEMMA WriterStep == WInv /\ [WriterNext]_writerVars => WInv'
<1> SUFFICES ASSUME WInv, [WriterNext]_writerVars PROVE WInv'
  OBVIOUS
<1>1. ASSUME NEW s \in Symbols, NEW day \in Days,
             AddBook(s, day) \/ AddTradeNormalized(s, day) \/ AddMarkPrice(s, day)
      PROVE  WInv'
  BY <1>1, AddKeeps DEF AddBook, AddTradeNormalized, AddMarkPrice, Keys, Streams
<1>2. CASE Flush
  BY <1>2, FlushKeysKeeps DEF Flush
<1>3. CASE FlushFails
  BY <1>3, FlushFailsKeeps
<1>4. ASSUME NEW s \in Symbols, FlushSymbol(s)
      PROVE  WInv'
  <2>1. {k \in Keys : k[1] = s} \in SUBSET Keys
    OBVIOUS
  <2> QED
    BY <1>4, <2>1, FlushKeysKeeps DEF FlushSymbol
<1>5. CASE UNCHANGED writerVars
  BY <1>5 DEF writerVars, clockVars, WInv, WriterTypeOK, FlushDates, BufferedOnce, FiledOnce,
              LaterRows, At
<1>6. CASE MidnightPasses
  BY <1>6, MidnightKeeps
<1> QED
  BY <1>1, <1>2, <1>3, <1>4, <1>5, <1>6 DEF WriterNext

LEMMA WriterStart == WriterInit => WInv
<1> QED
  BY WriterAssumption DEF WriterInit, WInv, WriterTypeOK, FlushDates, BufferedOnce, FiledOnce, LaterRows

\* What the invariant says of rows and files.
LEMMA WInvImplies == WInv => WriterTypeOK /\ RowsOnce /\ FilesInOrder
<1> SUFFICES ASSUME WInv PROVE RowsOnce /\ FilesInOrder
  BY DEF WInv
<1>1. RowsOnce
  BY DEF WInv, RowsOnce, Pending, Filed, HasRow, FiledOnce
<1>2. FilesInOrder
  <2>1. \A g \in files : /\ g.key \in Keys /\ g.time \in Nat /\ dawn[g.on] \in Nat /\ At(g) \in Nat
                         /\ \A q \in g.rows : q.id \in Nat
    BY FileFields DEF WInv
  <2>2. \A k \in Keys : \A q \in pending[k] : q.id \in Nat
    BY DEF WInv, WriterTypeOK, Rows
  <2> SUFFICES ASSUME NEW f \in files, NEW r \in f.rows
               PROVE  /\ \A g \in files : NamedBefore(f, g) /\ f.on = g.on => \A q \in g.rows : r.id < q.id
                      /\ \A q \in pending[f.key] : r.id < q.id
    BY DEF FilesInOrder
  <2>3. r.id <= At(f)
    BY DEF WInv, FiledOnce
  <2>4. \A g \in files : NamedBefore(f, g) /\ f.on = g.on => f.key = g.key /\ At(f) < At(g)
    BY <2>1 DEF NamedBefore, At
  <2> QED
    BY <2>1, <2>2, <2>3, <2>4 DEF WInv, LaterRows
<1> QED
  BY <1>1, <1>2

\* parquet.py on its own: rows are written once and in order whatever calls
\* are made, flush_symbol, which the daemon does not use, among them.
THEOREM WriterIsSound == WriterSpec => [](WriterTypeOK /\ RowsOnce /\ FilesInOrder)
<1> QED
  BY WriterStart, WriterStep, WInvImplies, PTL DEF WriterSpec
=============================================================================

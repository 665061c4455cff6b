----------------------------- MODULE TickWriter -----------------------------
(***************************************************************************)
(* The row buffers and their parquet files                                 *)
(* (market_data/storage/parquet.py).                                       *)
(*                                                                         *)
(* A row is [id, day]: the values of its fields are left out, day is the   *)
(* UTC date of its timestamp_ms and id numbers the rows as they are added. *)
(* A list of rows is only ever appended to, so it is the set of its rows,  *)
(* in the order of their ids.                                              *)
(*                                                                         *)
(* A file is [key, day, on, time, rows].  Its path holds the key, the date *)
(* of its rows and, as its name, the time of day of the flush.  That goes  *)
(* back at midnight; the date of the flush, on, is in no path.  Time is    *)
(* counted in rows: so many were added since the day began.                *)
(***************************************************************************)
EXTENDS Naturals

CONSTANTS
    Symbols,
    Days,       \* UTC dates, of rows and of flushes: a set of numbers
    MaxRows     \* bound: rows given to the writer

ASSUME WriterAssumption == Days \subseteq Nat /\ MaxRows \in Nat

Streams == {"books", "trades", "mark_price"}
Keys == Symbols \X Streams

VARIABLES
    pending,    \* _books, _trades and _mark_price: rows per symbol and stream
    files,      \* the parquet files written
    accepted,   \* ids 1..accepted have been given to the writer
    today,      \* the UTC date of the local clock
    dawn        \* what accepted was when each date began

clockVars == <<today, dawn>>
writerVars == <<pending, files, accepted, clockVars>>

WriterInit ==
    /\ pending = [k \in Keys |-> {}]
    /\ files = {}
    /\ accepted = 0
    /\ today \in Days
    /\ dawn = [d \in Days |-> 0]

----------------------------------------------------------------------------
\* add_book, add_trade_normalized and add_mark_price append one row.
Add(k, day) ==
    /\ accepted < MaxRows
    /\ accepted' = accepted + 1
    /\ pending' = [pending EXCEPT ![k] = @ \cup {[id |-> accepted + 1, day |-> day]}]
    /\ UNCHANGED <<files, clockVars>>

AddBook(s, day) == Add(<<s, "books">>, day)
AddTradeNormalized(s, day) == Add(<<s, "trades">>, day)
AddMarkPrice(s, day) == Add(<<s, "mark_price">>, day)

----------------------------------------------------------------------------
DatesOf(rows) == {r.day : r \in rows}

\* by_date holds the dates as they first occur: those of the rows before an id
\* come before all the others.
DatesBefore(rows, id) == DatesOf({r \in rows : r.id < id})

\* Mutant: the hours of a name go up to twelve only.
TimeOfHalfDay == (accepted - dawn[today]) % 2

\* _flush_filename
TimeOfDay == accepted - dawn[today]

\* Mutant: the whole buffer goes to the date of its first row.
FileOfFirstDate(k, day) ==
    [key |-> k, day |-> day, on |-> today, time |-> TimeOfDay, rows |-> pending[k]]

\* One file: the rows of one date.
FileOf(k, day) ==
    [key |-> k, day |-> day, on |-> today, time |-> TimeOfDay,
     rows |-> {r \in pending[k] : r.day = day}]

FilesOf(k, days) == {FileOf(k, day) : day \in days}
AllFiles(k) == FilesOf(k, DatesOf(pending[k]))

\* Mutant: the rows are read without being popped.
FlushKeeps(ks) ==
    /\ files' = files \cup (UNION {AllFiles(k) : k \in ks})
    /\ UNCHANGED <<pending, accepted, clockVars>>

\* The buffers of ks are popped and written.
FlushKeys(ks) ==
    /\ files' = files \cup (UNION {AllFiles(k) : k \in ks})
    /\ pending' = [k \in Keys |-> IF k \in ks THEN {} ELSE pending[k]]
    /\ UNCHANGED <<accepted, clockVars>>

Flush == FlushKeys(Keys)
FlushSymbol(s) == FlushKeys({k \in Keys : k[1] = s})

\* flush takes the streams in this order.
StreamNo(k) == CASE k[2] = "books" -> 1 [] k[2] = "trades" -> 2 [] k[2] = "mark_price" -> 3

Peers(k) == {j \in Keys \ {k} : StreamNo(j) = StreamNo(k)}

\* flush() with a mkdir or a write that raises, in _flush_stream(k): the streams
\* before k's and some peers (symbols come in the order of a dict, which any use
\* can change) are written; of k itself, which has been popped, the files of the
\* dates before id, not of all of them.  The other buffers are untouched.
FlushFailsAt(k, peers, id) ==
    LET before == peers \cup {j \in Keys : StreamNo(j) < StreamNo(k)}
    IN  /\ DatesBefore(pending[k], id) # DatesOf(pending[k])
        /\ files' = files \cup (UNION {AllFiles(j) : j \in before})
                          \cup FilesOf(k, DatesBefore(pending[k], id))
        /\ pending' = [j \in Keys |-> IF j \in before \cup {k} THEN {} ELSE pending[j]]
        /\ UNCHANGED <<accepted, clockVars>>

FlushFails ==
    \E k \in Keys : \E peers \in SUBSET Peers(k), id \in 1..MaxRows : FlushFailsAt(k, peers, id)

----------------------------------------------------------------------------
\* The local clock passes midnight: the time of day starts again.
MidnightPasses ==
    /\ today + 1 \in Days
    /\ today' = today + 1
    /\ dawn' = [dawn EXCEPT ![today + 1] = accepted]
    /\ UNCHANGED <<pending, files, accepted>>

\* The writer under any sequence of calls.
WriterNext ==
    \/ \E s \in Symbols, day \in Days :
          AddBook(s, day) \/ AddTradeNormalized(s, day) \/ AddMarkPrice(s, day)
    \/ MidnightPasses
    \/ Flush \/ FlushFails \/ \E s \in Symbols : FlushSymbol(s)

WriterSpec == WriterInit /\ [][WriterNext]_writerVars

Rows == [id : 1..MaxRows, day : Days]
Files == [key : Keys, day : Days, on : Days, time : 0..MaxRows, rows : SUBSET Rows]

HasRow(rows, id) == \E r \in rows : r.id = id
Pending(id) == \E k \in Keys : HasRow(pending[k], id)
Filed(id) == \E f \in files : HasRow(f.rows, id)

\* Type invariant; a file is never empty and holds rows of its own date only
\* ("handles midnight crossings").
WriterTypeOK ==
    /\ accepted \in 0..MaxRows
    /\ pending \in [Keys -> SUBSET Rows]
    /\ files \subseteq Files
    /\ today \in Days /\ dawn \in [Days -> 0..accepted]
    /\ \A f \in files : f.rows # {} /\ \A r \in f.rows : r.day = f.day

\* A row is written once: no flush, failed, repeated or for one symbol only,
\* leaves a row in two files, or in a file and a buffer.
RowsOnce ==
    \A id \in 1..accepted :
        /\ Pending(id) => ~Filed(id)
        /\ \A f, g \in files : HasRow(f.rows, id) /\ HasRow(g.rows, id) => f = g

\* A reader of date/*.parquet takes the files of a directory by name.
NamedBefore(f, g) == f.key = g.key /\ f.day = g.day /\ f.time < g.time

\* Files of one directory that were flushed on one date are, by name, in the
\* order their rows were added, and no filed row is newer than a buffered one.
\* What is left out is known: names of different dates do not compare, so the
\* rows of yesterday flushed after midnight may sort before all others.
FilesInOrder ==
    \A f \in files : \A r \in f.rows :
        /\ \A g \in files : NamedBefore(f, g) /\ f.on = g.on => \A q \in g.rows : r.id < q.id
        /\ \A q \in pending[f.key] : r.id < q.id
=============================================================================

--------------------------- MODULE SymbolCapture ---------------------------
(***************************************************************************)
(* One captured symbol: the depth state machine, the start task that       *)
(* SymbolCapture (market_data/capture.py) keeps for it, the WebSocket      *)
(* stream that feeds it and the REST answers that seed it.                 *)
(*                                                                         *)
(* The exchange is external.  truth is its history of full books, chosen   *)
(* once; now is the last id it has published; pos is the last id the open  *)
(* connection's stream has got past, delivered or lost.                    *)
(***************************************************************************)
EXTENDS DepthStateMachine, ExchangeFeed

CONSTANTS
    MaxId,        \* bound: update ids are 0..MaxId
    MaxBuffer,    \* bound: length of the machine's buffer
    Timelines,    \* the histories truth is chosen from
    BadAnswers,   \* REST answers that load_snapshot rejects
    Lossy         \* may frames get lost or the connection break?

\* The exchange never publishes a book with a bid at or above an ask.
Separated(lv) ==
    \A b, a \in Prices : lv[<<"bid", b>>] # 0 /\ lv[<<"ask", a>>] # 0 => b < a

ASSUME BoundsAssumption == MaxId \in Nat /\ MaxBuffer \in Nat /\ Lossy \in BOOLEAN
ASSUME TimelinesAssumption ==
    \A t \in Timelines : /\ t \in [0..MaxId -> Levels]
                         /\ \A i \in 0..MaxId : Separated(t[i])
ASSUME AnswersAssumption == \A a \in BadAnswers : a \in RestSnapshot /\ LoadRejects(a)

VARIABLES
    truth, now, pos,    \* the exchange and its stream
    conn,               \* is a WebSocket connection open?
    opening,            \* how it opens: "book" while its full book is to come,
                        \* "update" before the first update after that, else "none"
    lastSeq,            \* the Bybit adapter's _last_seq; None at the others
    task,               \* _start_task: where start() is suspended
    answer,             \* the REST answer start() will resume with
    basis               \* what a LIVE book rests on, see Notes

feedVars == <<truth, now, pos, conn, opening, lastSeq>>
taskVars == <<task, answer>>
bookVars == <<machineVars, basis>>
vars == <<bookVars, feedVars, taskVars>>

\* run() creates the start task before it opens the stream.
Init ==
    /\ MachineInit
    /\ truth \in Timelines
    /\ now = 0 /\ pos = 0
    /\ conn = FALSE /\ opening = "none" /\ lastSeq = None
    /\ task = "fetching" /\ answer = None
    /\ basis = "none"

----------------------------------------------------------------------------
(* The exchange and the connection *)

Publish ==
    /\ loop = "idle"
    /\ now < MaxId
    /\ now' = now + 1
    /\ UNCHANGED <<bookVars, taskVars, truth, pos, conn, opening, lastSeq>>

\* A stream never goes back: it joins at or after the point the previous
\* connection got to.  Bybit's _connect forgets _last_seq.
Connect ==
    /\ loop = "idle"
    /\ ~conn
    /\ conn' = TRUE
    /\ opening' = IF SendsFullBook THEN "book" ELSE "none"
    /\ lastSeq' = None
    /\ pos' \in pos..now
    /\ UNCHANGED <<bookVars, taskVars, truth, now>>

\* A closed socket, a gap timeout or a handler error: run() reconnects; the
\* machine is not told.
Disconnect ==
    /\ loop = "idle"
    /\ Lossy
    /\ conn
    /\ conn' = FALSE
    /\ opening' = "none"
    /\ UNCHANGED <<bookVars, taskVars, truth, now, pos, lastSeq>>

\* A frame that never arrives, or that _process cannot decode and drops.
Lose ==
    /\ loop = "idle"
    /\ Lossy
    /\ conn
    /\ \/ /\ opening = "book"
          /\ pos' \in pos..now
          /\ opening' = "update"
       \/ /\ opening # "book"
          /\ pos' \in (pos + 1)..now
          /\ opening' = "none"
    /\ UNCHANGED <<bookVars, taskVars, truth, now, conn, lastSeq>>

----------------------------------------------------------------------------
(* Depth events *)

\* basis records, and steers nothing, what a LIVE machine has in its book once
\* event e has been taken in: "snapshot", a REST answer and the updates that
\* followed it; "merged", a full book was merged in like a diff; "partial", an
\* update that names no previous id was applied though it starts after the book
\* ends, or the anchor was rejected and the book is a fresh one.
Notes(e) ==
    basis' = IF state' # "LIVE" THEN "none"
             ELSE IF book' = NewBook THEN "partial"
             ELSE IF e.since = None THEN "merged"
             ELSE IF e.prev = None /\ e.since > book.lastU THEN "partial"
             ELSE IF basis = "none" THEN "snapshot" ELSE basis

\* Mutant: a resync is triggered only when the machine has been restarted.
OnDepthAfterRestart(e) ==
    /\ Len(buffer) < MaxBuffer
    /\ OnDepthEvent(e)
    /\ task' = IF state' = "BUFFERING" /\ task \in {"done", "raised"} THEN "fetching" ELSE task
    /\ UNCHANGED answer
    /\ Notes(e)

\* _on_depth: the machine first, then a new start task when it is not LIVE
\* and the last one has ended, in whatever way.
OnDepth(e) ==
    /\ Len(buffer) < MaxBuffer
    /\ OnDepthEvent(e)
    /\ task' = IF state' # "LIVE" /\ task \in {"done", "raised"} THEN "fetching" ELSE task
    /\ UNCHANGED answer
    /\ Notes(e)

DeliverFullBook ==
    /\ conn /\ opening = "book"
    /\ \E b \in pos..now :
        /\ OnDepth(ParseDepth(TRUE, pos, b, None, Listed(Shown(truth[b])), lastSeq))
        /\ pos' = b
        /\ lastSeq' = IF Feed = "bybit" THEN b ELSE None
    /\ opening' = "update"
    /\ UNCHANGED <<truth, now, conn>>

\* An update over (pos, b] that names pos, or no id, as the one before it.
DeliverDiff ==
    /\ conn /\ opening # "book"
    /\ \E b \in (pos + 1)..now, prev \in {pos} \cup (IF opening = "update" THEN Unnamed ELSE {}) :
        /\ OnDepth(ParseDepth(FALSE, pos, b, prev, Delta(truth, pos, b), lastSeq))
        /\ pos' = b
        /\ lastSeq' = IF Feed = "bybit" THEN b ELSE None
    /\ opening' = "none"
    /\ UNCHANGED <<truth, now, conn>>

----------------------------------------------------------------------------
(* The start task *)

\* Mutant: the answer is not kept.
FetchAnswerDropped ==
    /\ loop = "idle"
    /\ task = "fetching"
    /\ task' = "answered"
    /\ UNCHANGED <<bookVars, feedVars, answer>>

\* The REST service answers with the book at any id it has published: an
\* answer may be old when it is served, and older when start() resumes.  It may
\* also be one that load_snapshot will reject.
FetchAnswered ==
    /\ loop = "idle"
    /\ task = "fetching"
    /\ \/ \E k \in 0..now : answer' = FetchSnapshot(truth, k)
       \/ answer' \in BadAnswers
    /\ task' = "answered"
    /\ UNCHANGED <<bookVars, feedVars>>

\* Mutant: start() gives up after a failed fetch.
FetchGivesUp ==
    /\ loop = "idle"
    /\ task = "fetching"
    /\ task' = "done"
    /\ UNCHANGED <<bookVars, feedVars, answer>>

FetchFails ==
    /\ loop = "idle"
    /\ task = "fetching"
    /\ task' = "sleeping"
    /\ UNCHANGED <<bookVars, feedVars, answer>>

\* asyncio.sleep(1.0) is over.
FetchRetries ==
    /\ loop = "idle"
    /\ task = "sleeping"
    /\ task' = "fetching"
    /\ UNCHANGED <<bookVars, feedVars, answer>>

\* start() resumes and runs to its end, through _drain_buffer's steps: no
\* other action can tell whether the task is done before loop is idle again.
\* When load_snapshot raises, the task ends with the exception: the state stays
\* as it was and whatever is buffered waits for the next event.
Resume ==
    /\ task = "answered"
    /\ StartResumes(answer)
    /\ task' = IF state # "LIVE" /\ LoadRejects(answer) THEN "raised" ELSE "done"
    /\ answer' = None
    /\ UNCHANGED <<feedVars, basis>>

Drain ==
    /\ \/ (Anchor \/ DrainApply) /\ Notes(Head(buffer))
       \/ (SkipBridging \/ NoAnchor \/ DrainStale \/ DrainEnd) /\ UNCHANGED basis
    /\ UNCHANGED <<feedVars, taskVars>>

Next ==
    \/ Publish \/ Connect \/ Disconnect \/ Lose
    \/ DeliverFullBook \/ DeliverDiff
    \/ FetchAnswered \/ FetchFails \/ FetchRetries \/ Resume
    \/ Drain

Spec == Init /\ [][Next]_vars

\* A task whose turn it is runs; fetch_snapshot is retried for ever and does
\* not fail for ever.
FairSpec ==
    /\ Spec
    /\ WF_vars(Drain) /\ WF_vars(Resume) /\ WF_vars(FetchRetries)
    /\ SF_vars(FetchAnswered)

----------------------------------------------------------------------------
\* Type invariant of the variables this module adds.
TypeOK ==
    /\ MachineTypeOK
    /\ truth \in Timelines
    /\ now \in 0..MaxId /\ pos \in 0..now
    /\ conn \in BOOLEAN /\ opening \in {"none", "book", "update"}
    /\ lastSeq \in 0..MaxId \cup {None}
    /\ task \in {"fetching", "sleeping", "answered", "done", "raised"}
    /\ task = "answered" <=> answer # None
    /\ basis \in {"none", "snapshot", "merged", "partial"}
    /\ basis = "none" <=> state # "LIVE"

\* A level the REST answer was too shallow to show, untouched since.
BeyondSnapshot(s) ==
    /\ Top(truth[syncId], SnapDepth)[s] = 0
    /\ \A i \in syncId..book.lastU : truth[i][s] = truth[syncId][s]

\* While LIVE the book is the exchange's book at the book's own id, except
\* for levels below the depth of the REST answer it was seeded from that have
\* not changed since: no lost frame, reconnect, stale or late answer, and no
\* interleaving of start() with the stream puts a wrong quantity in it.
BookSound ==
    state = "LIVE" =>
        /\ book.lastU \in 0..now
        /\ \A s \in Slots : \/ book.lv[s] = truth[book.lastU][s]
                            \/ (book.lv[s] = 0 /\ BeyondSnapshot(s))

\* README, books: "full L2 snapshot at every book update event".  The last row
\* handed to the writer is the exchange's book, cut to the row's depth, at the
\* id the row carries.
RowTrue == row # None => row.lv = Top(truth[row.id], RowDepth)

\* The same for the feeds that send full books, for as long as the book rests on a
\* snapshot: no full book has been merged into it, and no update that names no
\* previous id was let in over a hole.  A single id per message and the id it
\* follows are all that a sound book needs.
BookSoundOnSnapshot == basis = "snapshot" => BookSound

\* And every row such a book hands out is the exchange's.
RowTrueOnSnapshot == basis = "snapshot" => RowTrue

\* A level the exchange has had since the seed and has removed.
Leftover(s) ==
    /\ truth[book.lastU][s] = 0
    /\ \E i \in syncId..book.lastU : book.lv[s] = truth[i][s]

\* The whole harm of a full book merged as a diff: levels the exchange has since
\* removed stay.  No level it has is missing or has another quantity, not even
\* one below the depth of the REST answer, and be the book merged into an older
\* one across lost frames, into one with holes or into an empty one.  Only an
\* update without a previous id that starts after the book ends takes that away.
LeftoversOnly ==
    basis = "merged" =>
        /\ book.lastU \in 0..now
        /\ \A s \in Slots : book.lv[s] = truth[book.lastU][s] \/ Leftover(s)

\* At every feed, whatever is lost, merged or rejected: a LIVE book has no quantity
\* that the exchange has not had at that price since the seed, and no row, of
\* whichever book, one that it has not had by the row's id.
NothingInvented ==
    /\ state = "LIVE" => \A s \in Slots :
            book.lv[s] = 0 \/ \E i \in syncId..book.lastU : book.lv[s] = truth[i][s]
    /\ row # None => \A s \in Slots :
            row.lv[s] = 0 \/ \E i \in 0..row.id : row.lv[s] = truth[i][s]

\* README, "halts on a detected gap": a LIVE book moves on with a stream event
\* only if it is at the very id the stream was at before the event, so that no
\* frame between the two was lost.  The messages that open a subscription are
\* exempt, as they may name no previous id: its full book and the first update.
GapRestarts ==
    [][ state = "LIVE" /\ loop = "idle" /\ opening = "none" /\ book'.lastU > book.lastU
            => book.lastU = pos ]_vars

\* The same for every book that has an id at all: full books, merged or lost, and
\* an unchecked first update cost no later gap its restart.
GapRestartsOnceFilled ==
    [][ book.lastU >= 0 /\ state = "LIVE" /\ loop = "idle" /\ opening = "none"
          /\ book'.lastU > book.lastU => book.lastU = pos ]_vars

\* Whatever waits in the buffer has a start task that will drain it, with one
\* exception: a task that load_snapshot made raise leaves the buffer as it is,
\* and only the next event starts another.  No other order of events, answers,
\* restarts and ends of tasks leaves a resync due and none under way.
BufferHasTask == buffer # <<>> /\ loop = "idle" => task # "done"

\* Buffered events do not wait for ever: whatever the order of frames, answers
\* and failed fetches, some start task gets to the buffer and empties it, or
\* raises because the answer was bad.
BufferDrains == buffer # <<>> ~> (buffer = <<>> \/ task = "raised")

\* The history as the rows can show it.
View(t) == [i \in 0..MaxId |-> Top(t[i], RowDepth)]

Replica == INSTANCE BookReplica WITH
    view <- View(truth), Views <- {View(t) : t \in Timelines}

\* The rows of one symbol implement the replica that BookReplica specifies:
\* what SymbolCapture adds (buffering, resyncs, tasks) only decides which rows
\* are handed out and when.
ImplementsReplica == Replica!ReplicaSpec
=============================================================================

-------------------------- MODULE DepthStateMachine --------------------------
(***************************************************************************)
(* The snapshot/diff merge state machine of one symbol                     *)
(* (market_data/book/snapshot.py).                                         *)
(*                                                                         *)
(* Everything between two awaits runs without interruption on the event    *)
(* loop.  The only such stretch that performs a loop is _drain_buffer;     *)
(* its iterations are steps of their own here so that every row it hands   *)
(* out can be observed, and loop # "idle" keeps every other action out     *)
(* until it has finished (its awaits never suspend: _apply_event has no    *)
(* await in it).  on_book_update is a coroutine that ensure_future runs in *)
(* a task of its own; those tasks run in the order they are created, so    *)
(* row stands for the snapshot handed to the newest of them.               *)
(*                                                                         *)
(* Events are records [first, last, prev, since, d], snapshots [id, d].    *)
(* since is not in the code: it is the id an update's changes start from,  *)
(* None for a full book, for properties to tell what the stream has done.  *)
(* No action reads it.  The module leaves open who calls it: MachineNext   *)
(* takes the sets of events and snapshots the environment may supply.      *)
(***************************************************************************)
EXTENDS RowPrices, Sequences

CONSTANT RowDepth     \* snapshot_depth: levels per side of a row

ASSUME RowDepthAssumption == RowDepth \in Nat \ {0}

\* NormalizedDepthEvent, NormalizedSnapshot and BookSnapshot, without their
\* timestamps.
Event == [first : Int, last : Int, prev : Int \cup {None}, since : Int \cup {None}, d : Updates]
RestSnapshot == [id : Int, d : Updates]
Row == [id : Int, lv : Levels]

ASSUME NoneIsNoRecord == None \notin RestSnapshot /\ None \notin Row

VARIABLES
    state,      \* _state
    buffer,     \* _buffer
    prevU,      \* _prev_u
    book,       \* _book
    syncId,     \* last_uid, the local of the running _drain_buffer
    loop,       \* which loop of _drain_buffer is running
    row         \* the last snapshot handed to on_book_update, None at first

machineVars == <<state, buffer, prevU, book, syncId, loop, row>>

MachineInit ==
    /\ state = "BUFFERING"
    /\ buffer = <<>>
    /\ prevU = None
    /\ book = NewBook
    /\ syncId = -1
    /\ loop = "idle"
    /\ row = None

----------------------------------------------------------------------------
\* What restart() drops: the buffered events, the continuity id and the book.
Forget ==
    /\ buffer' = <<>>
    /\ prevU' = None
    /\ book' = NewBook

\* Mutant: restart() without resetting the continuity id.
RestartKeepsPrevU ==
    /\ buffer' = <<>>
    /\ book' = NewBook
    /\ state' = "BUFFERING"
    /\ UNCHANGED prevU

\* restart(reason).
Restart ==
    /\ Forget
    /\ state' = "BUFFERING"

\* A successful apply_diff and the emission that follows it.
Accept(e) ==
    /\ book' = Applied(book, e)
    /\ prevU' = e.last
    /\ row' = Snapshot(Applied(book, e), RowDepth)

\* Mutant: no continuity check at all.
NeverBreaks(e) == FALSE

\* Step 5 of the protocol, skipped when either id is unknown.
ContinuityBreak(e) == prevU # None /\ e.prev # None /\ e.prev # prevU

\* _apply_event(event) with rest the buffer that remains.
ApplyEvent(e, rest) ==
    \/ /\ ~ContinuityBreak(e)
       /\ ~Rejects(book, e)
       /\ Accept(e)
       /\ buffer' = rest
       /\ UNCHANGED state
    \/ /\ (ContinuityBreak(e) \/ Rejects(book, e))
       /\ Restart
       /\ UNCHANGED row

----------------------------------------------------------------------------
\* on_depth_event(event).
OnDepthEvent(e) ==
    /\ loop = "idle"
    /\ \/ /\ state \in {"BUFFERING", "SYNCING"}
          /\ buffer' = Append(buffer, e)
          /\ UNCHANGED <<state, prevU, book, row>>
       \/ /\ state = "LIVE"
          /\ ApplyEvent(e, buffer)
    /\ UNCHANGED <<syncId, loop>>

\* start() resumed with the answer of fetch_snapshot, up to the first loop
\* of _drain_buffer.  load_snapshot may raise, which ends the task with the
\* half-loaded book in place and the state as it was.
StartResumes(snap) ==
    /\ loop = "idle"
    /\ \/ /\ state = "LIVE"
          /\ UNCHANGED machineVars
       \/ /\ state # "LIVE"
          /\ LoadRejects(snap)
          /\ book' \in HalfLoaded(snap)
          /\ UNCHANGED <<state, buffer, prevU, syncId, loop, row>>
       \/ /\ state # "LIVE"
          /\ ~LoadRejects(snap)
          /\ book' = Loaded(snap)
          /\ state' = "SYNCING"
          /\ prevU' = None
          /\ syncId' = snap.id
          /\ loop' = "bridge"
          /\ UNCHANGED <<buffer, row>>

----------------------------------------------------------------------------
(* _drain_buffer.  The list comprehension that drops the events with       *)
(* last < last_uid is applied event by event: the bridging test rejects    *)
(* such an event anyway, and the second loop steps over it.                *)

\* Mutant: the bridging test without its lower half.
BridgesFromAnywhere(e) == syncId + 1 <= e.last

Bridges(e) == e.first <= syncId + 1 /\ syncId + 1 <= e.last

SkipBridging ==
    /\ loop = "bridge"
    /\ buffer # <<>>
    /\ ~Bridges(Head(buffer))
    /\ buffer' = Tail(buffer)
    /\ UNCHANGED <<state, prevU, book, syncId, loop, row>>

NoAnchor ==
    /\ loop = "bridge"
    /\ buffer = <<>>
    /\ loop' = "idle"
    /\ UNCHANGED <<state, buffer, prevU, book, syncId, row>>

\* The anchor is applied without the continuity check and the state becomes
\* LIVE whatever _apply_event did, a restart included.
Anchor ==
    /\ loop = "bridge"
    /\ buffer # <<>>
    /\ Bridges(Head(buffer))
    /\ \/ /\ ~Rejects(book, Head(buffer))
          /\ Accept(Head(buffer))
          /\ buffer' = Tail(buffer)
       \/ /\ Rejects(book, Head(buffer))
          /\ Forget
          /\ UNCHANGED row
    /\ state' = "LIVE"
    /\ loop' = "drain"
    /\ UNCHANGED syncId

\* An event the list comprehension had removed.
DrainStale ==
    /\ loop = "drain"
    /\ buffer # <<>>
    /\ Head(buffer).last < syncId
    /\ buffer' = Tail(buffer)
    /\ UNCHANGED <<state, prevU, book, syncId, loop, row>>

DrainApply ==
    /\ loop = "drain"
    /\ buffer # <<>>
    /\ Head(buffer).last >= syncId
    /\ ApplyEvent(Head(buffer), Tail(buffer))
    /\ UNCHANGED <<syncId, loop>>

\* Mutant: the second loop handles a single event.
DrainEndsEarly ==
    /\ loop = "drain"
    /\ loop' = "idle"
    /\ UNCHANGED <<state, buffer, prevU, book, syncId, row>>

DrainEnd ==
    /\ loop = "drain"
    /\ buffer = <<>>
    /\ loop' = "idle"
    /\ UNCHANGED <<state, buffer, prevU, book, syncId, row>>

DrainStep == SkipBridging \/ NoAnchor \/ Anchor \/ DrainStale \/ DrainApply \/ DrainEnd

\* restart() is public too.
ExternalRestart ==
    /\ loop = "idle"
    /\ Restart
    /\ UNCHANGED <<syncId, loop, row>>

\* MaxBuffer bounds the buffer, which the code leaves unbounded.
MachineNext(Events, Snapshots, MaxBuffer) ==
    \/ \E e \in Events : Len(buffer) < MaxBuffer /\ OnDepthEvent(e)
    \/ \E snap \in Snapshots : StartResumes(snap)
    \/ DrainStep
    \/ ExternalRestart

MachineSpec(Events, Snapshots, MaxBuffer) ==
    MachineInit /\ [][MachineNext(Events, Snapshots, MaxBuffer)]_machineVars

----------------------------------------------------------------------------
\* Type invariant: the fields hold what their annotations say, the book has
\* no negative quantities and _drain_buffer only runs after start() seeded it.
MachineTypeOK ==
    /\ state \in {"BUFFERING", "SYNCING", "LIVE"}
    /\ buffer \in Seq(Event)
    /\ prevU \in Int \cup {None}
    /\ book \in [lv : Levels, lastU : Int]
    /\ syncId \in Int
    /\ loop \in {"idle", "bridge", "drain"}
    /\ row \in Row \cup {None}

\* "Never writes a crossed book": no row handed to the writer has a best bid
\* at or above its best ask, whatever the exchange sends and whichever start()
\* or restart() calls come in between.
NoCrossedRow == row # None => ~Crossed(row.lv)

\* README, "(bid_qty x ask + ask_qty x bid) / (bid_qty + ask_qty)": in every row
\* with two sides the recorded microprice exists and lies strictly inside the
\* spread.  A zero or negative quantity or a crossed book that reached a row
\* would break it.
MicropriceInsideSpread ==
    row # None /\ TwoSided(row.lv) =>
        LET m == Microprice(row.lv)
        IN  /\ m # None
            /\ m.den > 0
            /\ BestLevel(row.lv, "bid").price * m.den < m.num
            /\ m.num < BestLevel(row.lv, "ask").price * m.den

\* on_depth_event never looks at the buffer once the machine is LIVE, so
\* _drain_buffer must have emptied it: an event left there would be applied
\* after newer ones at the next resync.
LiveBufferEmpty == state = "LIVE" /\ loop = "idle" => buffer = <<>>

\* The id the next event is checked against is that of the book it will be
\* applied to: no path (anchor, drain, live event, restart, failed or repeated
\* start) lets the two drift apart.
ContinuityIdIsBookId == prevU # None => prevU = book.lastU /\ state = "LIVE"

\* "Out-of-order or stale diff events are rejected, not merged": a book that
\* changes either moves to a higher id, or is a fresh one, or was loaded.
IdsIncrease ==
    [][ book' # book => \/ book'.lastU > book.lastU
                        \/ book' = NewBook
                        \/ (state # "LIVE" /\ loop = "idle") ]_machineVars

\* README, "Full snapshot/diff merge protocol per exchange, correctly seeded and
\* maintained": once LIVE, the book diffs are merged into came from a snapshot
\* (L2Book.is_ready) and is not the empty one restart() leaves.
LiveIsSeeded == state = "LIVE" /\ loop = "idle" => book.lastU >= 0
=============================================================================

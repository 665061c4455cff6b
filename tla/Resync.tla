------------------------------- MODULE Resync -------------------------------
(***************************************************************************)
(* How one Binance symbol's book comes back after a break, for as long as  *)
(* the exchange publishes: the events on their way, the machine's buffer,  *)
(* the start task that DepthStateMachine.start() is, and the request       *)
(* weight the exchange grants per minute.                                  *)
(*                                                                         *)
(* SymbolCapture models what is in the books and ends at its last id; here *)
(* the books are left out and the stream never ends.  An id is its age:    *)
(* how many ids the exchange has given out since.  The older the id, the   *)
(* greater its age, so the code's comparisons are turned round.  Whether   *)
(* load_snapshot or apply_diff rejects what it is given depends on the     *)
(* books and is left open.                                                 *)
(***************************************************************************)
EXTENDS Naturals, Sequences, SequencesExt

CONSTANTS
    None,
    MayLose,      \* may frames be lost?
    MayReject,    \* may answers and events be rejected?
    MaxLag,       \* bound: the age of an answer when it is served
    WeightLimit,  \* the weight used beyond which _track_weight raises
    MaxUsed,      \* bound: weight is counted up to here, past the limit
    MaxStep,      \* bound: ids in one event
    MaxFlight,    \* bound: events sent and not yet delivered
    MaxBuffer,    \* bound: events in the buffer
    MaxAge        \* bound: the exchange pauses while an id is this old

ASSUME ResyncAssumption ==
    /\ {MayLose, MayReject} \subseteq BOOLEAN
    /\ {MaxLag, WeightLimit, MaxUsed, MaxStep, MaxFlight, MaxBuffer, MaxAge} \subseteq Nat
    /\ MaxLag < MaxAge /\ WeightLimit < MaxUsed
    /\ None \notin Nat

VARIABLES
    unsent,   \* ids given out since the last event was sent, or lost
    flight,   \* the events sent and not yet delivered
    state, buffer, prevU,   \* the machine's _state, _buffer and _prev_u
    task,     \* _start_task: where start() is suspended, or how it ended
    seed,     \* the id of the answer start() will resume with
    used      \* the weight used in this minute

streamVars == <<unsent, flight>>
machineVars == <<state, buffer, prevU>>
taskVars == <<task, seed>>
vars == <<streamVars, machineVars, taskVars, used>>

\* run() creates the start task before it opens the stream.
Init ==
    /\ unsent = 0 /\ flight = <<>>
    /\ state = "BUFFERING" /\ buffer = <<>> /\ prevU = None
    /\ task = "fetching" /\ seed = None
    /\ used = 0

----------------------------------------------------------------------------
(* The exchange *)

Older(id) == IF id = None THEN None ELSE id + 1
OlderEvents(events) ==
    [i \in DOMAIN events |-> [first |-> events[i].first + 1, last |-> events[i].last + 1]]

\* No id that anyone still holds has reached MaxAge.
Young ==
    /\ \A e \in Range(flight) \cup Range(buffer) : e.first < MaxAge
    /\ \A id \in {seed, prevU} \ {None} : id < MaxAge

\* The book changes: every id known so far is one older.
Publish ==
    /\ unsent < MaxStep
    /\ Young
    /\ unsent' = unsent + 1
    /\ flight' = OlderEvents(flight)
    /\ buffer' = OlderEvents(buffer)
    /\ seed' = Older(seed)
    /\ prevU' = Older(prevU)
    /\ UNCHANGED <<state, task, used>>

\* The changes since the last event go out as one event.
Send ==
    /\ unsent > 0
    /\ Len(flight) < MaxFlight
    /\ flight' = Append(flight, [first |-> unsent - 1, last |-> 0])
    /\ unsent' = 0
    /\ UNCHANGED <<machineVars, taskVars, used>>

\* They go out in a frame that never arrives, or while there is no connection.
Lose ==
    /\ MayLose
    /\ unsent > 0
    /\ Young
    /\ unsent' = 0
    /\ UNCHANGED <<flight, machineVars, taskVars, used>>

\* The minute that X-MBX-USED-WEIGHT-1M counts is over.
MinutePasses ==
    /\ used > 0
    /\ used' = 0
    /\ UNCHANGED <<streamVars, machineVars, taskVars>>

----------------------------------------------------------------------------
(* The stream's events *)

\* Mutant: a resync is triggered only when the machine has been restarted.
TaskAfterRestart(st) ==
    /\ task' = IF st = "BUFFERING" /\ task \in {"done", "raised"} THEN "fetching" ELSE task
    /\ UNCHANGED seed

\* _on_depth's second half, after the machine: a new start task when it is not
\* LIVE and the last one has ended, in whatever way.
TaskAfterDepth(st) ==
    /\ task' = IF st # "LIVE" /\ task \in {"done", "raised"} THEN "fetching" ELSE task
    /\ UNCHANGED seed

\* _on_depth while the machine is not LIVE.
Buffered ==
    /\ flight # <<>>
    /\ state # "LIVE"
    /\ Len(buffer) < MaxBuffer
    /\ buffer' = Append(buffer, Head(flight))
    /\ flight' = Tail(flight)
    /\ TaskAfterDepth(state)
    /\ UNCHANGED <<unsent, state, prevU, used>>

\* prev_update_id = _prev_u, or nothing to compare with.
Follows(e, id) == id = None \/ e.first + 1 = id

\* _on_depth while LIVE.
Applied ==
    /\ flight # <<>>
    /\ state = "LIVE"
    /\ Follows(Head(flight), prevU)
    /\ prevU' = Head(flight).last
    /\ flight' = Tail(flight)
    /\ TaskAfterDepth(state)
    /\ UNCHANGED <<unsent, state, buffer, used>>

\* The event does not follow the last one applied, or the book rejects it:
\* restart() clears the buffer, the event is dropped.
Breaks ==
    /\ flight # <<>>
    /\ state = "LIVE"
    /\ MayReject \/ ~Follows(Head(flight), prevU)
    /\ flight' = Tail(flight)
    /\ state' = "BUFFERING"
    /\ buffer' = <<>>
    /\ prevU' = None
    /\ TaskAfterDepth(state')
    /\ UNCHANGED <<unsent, used>>

----------------------------------------------------------------------------
(* The start task *)

\* Every answer is paid for before its weight is looked at.
Paid == IF used < MaxUsed THEN used + 1 ELSE used

\* _track_weight raises; start() takes the RuntimeError for one more failed fetch.
OverLimit == Paid > WeightLimit

\* The answer holds the book at the newest id there is when it is served, or at
\* a somewhat older one.
FetchAnswered ==
    /\ task = "fetching"
    /\ ~OverLimit
    /\ used' = Paid
    /\ task' = "answered"
    /\ seed' \in 0..MaxLag
    /\ UNCHANGED <<streamVars, machineVars>>

\* The request fails before or after it is paid for, or its weight is over the
\* limit.
FetchFails ==
    /\ task = "fetching"
    /\ used' \in {used, Paid}
    /\ task' = "sleeping"
    /\ UNCHANGED <<streamVars, machineVars, seed>>

\* asyncio.sleep(1.0) is over.
FetchRetries ==
    /\ task = "sleeping"
    /\ task' = "fetching"
    /\ UNCHANGED <<streamVars, machineVars, seed, used>>

\* Requests of other symbols, of the mark price poll and of the clock watchdog.
OtherRequests ==
    /\ used < MaxUsed
    /\ used' = Paid
    /\ UNCHANGED <<streamVars, machineVars, taskVars>>

\* Mutant: the anchor is looked for at the answer's own id.
BridgesAtSeed(e) == e.last = seed

\* first_update_id <= last_uid + 1 <= last_update_id
Bridges(e) == seed > 0 /\ e.first >= seed - 1 /\ seed - 1 >= e.last

\* The first event that bridges is applied to the answer.
Anchor(i) ==
    /\ i \in DOMAIN buffer
    /\ Bridges(buffer[i])
    /\ \A j \in 1..(i - 1) : ~Bridges(buffer[j])

\* From the i-th on, each event follows the one before.
Unbroken(i) == \A j \in i..(Len(buffer) - 1) : Follows(buffer[j + 1], buffer[j].last)

\* start() has drained the buffer and ends with the machine in state st.
StartEnds(st, u) ==
    /\ state' = st
    /\ prevU' = u
    /\ buffer' = <<>>
    /\ task' = "done"
    /\ seed' = None
    /\ UNCHANGED <<streamVars, used>>

\* Mutant: nothing is applied after the anchor.
ResumeStopsAtAnchor ==
    /\ task = "answered"
    /\ \E i \in DOMAIN buffer : Anchor(i)
    /\ state' = "LIVE"
    /\ prevU' = seed
    /\ buffer' = Tail(buffer)
    /\ task' = "done"
    /\ seed' = None
    /\ UNCHANGED <<streamVars, used>>

\* start() resumes, loads the answer and drains the buffer, and nothing is
\* rejected.  Events are passed over up to the anchor; from there on they are
\* applied until one does not follow the one before, which restarts the machine
\* under the loop.  Without an anchor nothing is left in the buffer.
Resume ==
    /\ task = "answered"
    /\ \/ (~\E i \in DOMAIN buffer : Anchor(i)) /\ StartEnds("SYNCING", None)
       \/ \E i \in DOMAIN buffer :
             /\ Anchor(i)
             /\ IF Unbroken(i) THEN StartEnds("LIVE", Last(buffer).last)
                               ELSE StartEnds("BUFFERING", None)

\* The book rejects the anchor, and _drain_buffer makes the machine LIVE all the
\* same, over the empty book of the restart; or it rejects a later event.
ResumeRejected ==
    /\ MayReject
    /\ task = "answered"
    /\ \E i \in DOMAIN buffer :
          /\ Anchor(i)
          /\ StartEnds("LIVE", None) \/ (i < Len(buffer) /\ StartEnds("BUFFERING", None))

\* load_snapshot raises: the task ends, and whatever is buffered waits for the
\* next event.  (For which there is room: a bound.)
LoadRaises ==
    /\ MayReject
    /\ task = "answered"
    /\ Len(buffer) < MaxBuffer /\ Young
    /\ task' = "raised"
    /\ seed' = None
    /\ UNCHANGED <<streamVars, machineVars, used>>

Next ==
    \/ Publish \/ Send \/ Lose \/ MinutePasses
    \/ Buffered \/ Applied \/ Breaks
    \/ FetchAnswered \/ FetchFails \/ FetchRetries \/ OtherRequests
    \/ Resume \/ ResumeRejected \/ LoadRaises

Spec == Init /\ [][Next]_vars

Deliver == Buffered \/ Applied \/ Breaks
StartResumes == Resume \/ ResumeRejected \/ LoadRaises

\* The exchange goes on publishing, and not every frame is lost; minutes pass; a
\* task whose turn it is runs; among the retries of every second some come before
\* the other requests have used up the minute's weight, and not all of those fail.
FairSpec ==
    /\ Spec
    /\ WF_vars(Publish) /\ SF_vars(Send) /\ WF_vars(MinutePasses)
    /\ WF_vars(Deliver) /\ WF_vars(FetchRetries) /\ WF_vars(StartResumes)
    /\ SF_vars(FetchRetries /\ ~OverLimit) /\ SF_vars(FetchAnswered)

----------------------------------------------------------------------------
\* The buffer goes back to the answer's id and past it.
Reaches == Head(buffer).first + 1 >= seed /\ Last(buffer).last < seed

\* Nothing between the two has been lost.
Spans == buffer # <<>> /\ Reaches /\ Unbroken(1)

\* Of the answers that start() is given again and again, not all are bad, and not
\* all come before an event past them or after the frames that lead up to them
\* were lost: some time one meets a buffer that spans its id, and is accepted.
TimelySpec ==
    /\ FairSpec
    /\ []<><<StartResumes>>_vars => []<><<Resume /\ Spans>>_vars

Ages == Nat
Events == [first : Ages, last : Ages]

\* Type invariant; a LIVE machine has no task under way and nothing buffered, and
\* only such a machine has an id to compare with.
TypeOK ==
    /\ unsent \in 0..MaxStep
    /\ flight \in Seq(Events) /\ Len(flight) <= MaxFlight
    /\ buffer \in Seq(Events) /\ Len(buffer) <= MaxBuffer
    /\ state \in {"BUFFERING", "SYNCING", "LIVE"}
    /\ prevU \in Ages \cup {None}
    /\ task \in {"fetching", "sleeping", "answered", "done", "raised"}
    /\ seed \in Ages \cup {None}
    /\ task = "answered" <=> seed # None
    /\ state = "LIVE" => task = "done" /\ buffer = <<>>
    /\ prevU # None => state = "LIVE"
    /\ used \in 0..MaxUsed

\* start() leaves the machine LIVE whenever the buffer spans the answer's id,
\* however old the answer is and wherever in the buffer its id lies, unless the
\* book rejects something; and never from a buffer that does not go back to that
\* id or not past it, whatever was lost.
RebuiltWhenSpanned ==
    [][ Resume => /\ Spans => state' = "LIVE"
                  /\ state' = "LIVE" => buffer # <<>> /\ Reaches ]_vars

\* README, "A sequence break triggers an automatic snapshot re-fetch and book
\* rebuild": whatever broke, was lost or rejected and whichever fetches fail, the
\* machine is LIVE again some time later.
Resyncs == state # "LIVE" ~> state = "LIVE"
=============================================================================

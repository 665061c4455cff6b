---------------------------- MODULE CaptureDaemon ----------------------------
(***************************************************************************)
(* The life of the capture process (market_data/capture.py): main, the     *)
(* tasks it keeps, the start tasks it does not keep, and its ways out.     *)
(* Stopping is what makes it hard: cancelled tasks end one by one, the     *)
(* start tasks (SymbolCapture._start_task) are in no list, and the clock   *)
(* watchdog leaves by sys.exit.                                            *)
(***************************************************************************)
EXTENDS TickWriter

CONSTANTS
    HasPremiumIndex,    \* has the REST adapter a premium_index? (Binance has)
    MayDrift,           \* may the local clock leave the exchange's?
    MayFail,            \* may writing a file raise?
    CloseYields,        \* does closing the HTTP session let other tasks run?
    WaitForSwallows     \* asyncio.wait_for of Python 3.11, see CancelSwallowed

ASSUME DaemonAssumption ==
    {HasPremiumIndex, MayDrift, MayFail, CloseYields, WaitForSwallows} \subseteq BOOLEAN

VARIABLES
    phase,      \* where main is
    stop,       \* stop_event
    drifted,    \* is the local clock more than _DRIFT_HALT_MS off?
    tasks,      \* the tasks of main's list that have not ended
    escaped,    \* those of them that a cancellation has missed
    starting,   \* symbols with a start task suspended in fetch_snapshot
    lost        \* rows no file will hold: of a write that raised, or too late

daemonVars == <<phase, stop, drifted, tasks, escaped, starting>>
vars == <<writerVars, daemonVars, lost>>

Capture(s) == <<"capture", s>>
Ended == {"refused", "returned", "halted"}
Housekeeping == {<<"flush_loop">>, <<"clock_watchdog">>, <<"mark_price_poll">>}

Init ==
    /\ WriterInit
    /\ phase = "checking_clock"
    /\ stop = FALSE
    /\ drifted \in {FALSE, MayDrift}
    /\ tasks = {}
    /\ escaped = {}
    /\ starting = {}
    /\ lost = {}

----------------------------------------------------------------------------
(* main, and what surrounds it *)

\* The clock of the machine, outside the program.
ClockDrifts ==
    /\ MayDrift /\ ~drifted
    /\ drifted' = TRUE
    /\ UNCHANGED <<writerVars, lost, phase, stop, tasks, escaped, starting>>

\* Midnight, while the process runs.
DateChanges ==
    /\ phase \notin Ended
    /\ MidnightPasses
    /\ UNCHANGED <<daemonVars, lost>>

\* SIGINT or SIGTERM; the handlers are in place before the clock check.
HandleSignal ==
    /\ phase \in {"checking_clock", "running"}
    /\ ~stop
    /\ stop' = TRUE
    /\ UNCHANGED <<writerVars, lost, phase, drifted, tasks, escaped, starting>>

\* The clock check before capture: too large a drift ends main.
RefuseToStart ==
    /\ phase = "checking_clock"
    /\ drifted
    /\ phase' = "refused"
    /\ UNCHANGED <<writerVars, lost, stop, drifted, tasks, escaped, starting>>

\* It passed, or failed for another reason, which is only logged.  The poll
\* loop of an adapter without premium_index returns at once.
StartTasks ==
    /\ phase = "checking_clock"
    /\ phase' = "running"
    /\ tasks' = {Capture(s) : s \in Symbols}
                  \cup {t \in Housekeeping : t = <<"mark_price_poll">> => HasPremiumIndex}
    /\ starting' = Symbols
    /\ UNCHANGED <<writerVars, lost, stop, drifted, escaped>>

\* stop_event.wait() returns and every task of the list is cancelled.
CancelTasks ==
    /\ phase = "running"
    /\ stop
    /\ phase' = "cancelling"
    /\ UNCHANGED <<writerVars, lost, stop, drifted, tasks, escaped, starting>>

\* Mutant: flush_loop catches BaseException, its own cancellation included.
TaskEndsNotFlushLoop ==
    /\ phase = "cancelling"
    /\ \E t \in tasks \ (escaped \cup {<<"flush_loop">>}) : tasks' = tasks \ {t}
    /\ UNCHANGED <<writerVars, lost, phase, stop, drifted, escaped, starting>>

\* A cancelled task ends: the ws adapter's run() returns, the others raise.
TaskEnds ==
    /\ phase = "cancelling"
    /\ \E t \in tasks \ escaped : tasks' = tasks \ {t}
    /\ UNCHANGED <<writerVars, lost, phase, stop, drifted, escaped, starting>>

\* wait_for of Python 3.11 returns the frame and drops the cancellation when
\* both reach it in the same round of the event loop.
CancelSwallowed ==
    /\ phase = "cancelling"
    /\ WaitForSwallows
    /\ \E s \in Symbols : Capture(s) \in tasks /\ escaped' = escaped \cup {Capture(s)}
    /\ UNCHANGED <<writerVars, lost, phase, stop, drifted, tasks, starting>>

\* Mutant: main returns without the final flush.
NoFinalFlush ==
    /\ phase = "cancelling"
    /\ tasks = {}
    /\ phase' = "closing"
    /\ UNCHANGED <<writerVars, lost, stop, drifted, tasks, escaped, starting>>

\* gather is over: the final flush, whose errors are only logged.  The buffers
\* that one which raises has not reached are lost as well.
FinalFlush ==
    /\ phase = "cancelling"
    /\ tasks = {}
    /\ phase' = "closing"
    /\ \/ Flush /\ UNCHANGED lost
       \/ MayFail /\ FlushFails /\ lost' = lost \cup {id \in 1..accepted : Pending(id) /\ ~Filed(id)'}
    /\ UNCHANGED <<stop, drifted, tasks, escaped, starting>>

\* The HTTP session is closed, main returns and asyncio.run cancels what is
\* left: the start tasks.
MainReturns ==
    /\ phase = "closing"
    /\ phase' = "returned"
    /\ starting' = {}
    /\ UNCHANGED <<writerVars, lost, stop, drifted, tasks, escaped>>

----------------------------------------------------------------------------
(* The tasks *)

Runs(t) == t \in tasks /\ (phase = "running" \/ t \in escaped)

\* A message: a row of a LIVE book, which has no start task, or a trade.
CaptureRow(s) ==
    /\ Runs(Capture(s))
    /\ \E day \in Days : (s \notin starting /\ AddBook(s, day)) \/ AddTradeNormalized(s, day)
    /\ UNCHANGED <<daemonVars, lost>>

\* _on_depth finds the machine not LIVE and no start task: one is created.
Resync(s) ==
    /\ Runs(Capture(s))
    /\ starting' = starting \cup {s}
    /\ UNCHANGED <<writerVars, lost, phase, stop, drifted, tasks, escaped>>

\* A start task whose answer has come drains the buffer: rows, and the end of
\* the task.  Nothing cancels it before main returns.
StartResumes(s) ==
    /\ s \in starting
    /\ phase \in {"running", "cancelling"} \/ (phase = "closing" /\ CloseYields)
    /\ starting' = starting \ {s}
    /\ (UNCHANGED writerVars \/ \E day \in Days : AddBook(s, day))
    /\ lost' = IF phase = "closing" THEN lost \cup (accepted + 1)..accepted' ELSE lost
    /\ UNCHANGED <<phase, stop, drifted, tasks, escaped>>

\* flush_loop, every FLUSH_INTERVAL_S seconds; an error is only logged.
FlushLoop ==
    /\ Runs(<<"flush_loop">>)
    /\ \/ Flush /\ UNCHANGED lost
       \/ MayFail /\ FlushFails /\ lost' = lost \cup {id \in 1..accepted : Pending(id) /\ ~(Pending(id) \/ Filed(id))'}
    /\ UNCHANGED daemonVars

PollMarkPrice ==
    /\ Runs(<<"mark_price_poll">>)
    /\ \E s \in Symbols, day \in Days : AddMarkPrice(s, day)
    /\ UNCHANGED <<daemonVars, lost>>

\* Mutant: the broad except clause comes first.
WatchdogOnlyLogs ==
    /\ Runs(<<"clock_watchdog">>)
    /\ drifted
    /\ UNCHANGED vars

\* clock_watchdog finds the drift: SystemExit leaves the event loop at once,
\* and asyncio.run cancels every task, main included, before it ends.
WatchdogHalts ==
    /\ Runs(<<"clock_watchdog">>)
    /\ drifted
    /\ phase' = "halted"
    /\ tasks' = {}
    /\ starting' = {}
    /\ UNCHANGED <<writerVars, lost, stop, drifted, escaped>>

Next ==
    \/ ClockDrifts \/ DateChanges \/ HandleSignal
    \/ RefuseToStart \/ StartTasks \/ CancelTasks \/ TaskEnds \/ CancelSwallowed \/ FinalFlush \/ MainReturns
    \/ \E s \in Symbols : CaptureRow(s) \/ Resync(s) \/ StartResumes(s)
    \/ FlushLoop \/ PollMarkPrice \/ WatchdogHalts
    \/ phase \in Ended /\ UNCHANGED vars

Spec == Init /\ [][Next]_vars

\* Timers fire and tasks whose turn it is run.  A clock check that fails for
\* another reason is only logged and tried again a minute later: it does not
\* fail for ever.
FairSpec ==
    /\ Spec
    /\ WF_vars(StartTasks \/ RefuseToStart)
    /\ WF_vars(CancelTasks) /\ WF_vars(TaskEnds) /\ WF_vars(FinalFlush) /\ WF_vars(MainReturns)
    /\ WF_vars(FlushLoop)
    /\ SF_vars(WatchdogHalts)

----------------------------------------------------------------------------
\* Type invariant.
TypeOK ==
    /\ WriterTypeOK
    /\ phase \in {"checking_clock", "running", "cancelling", "closing"} \cup Ended
    /\ stop \in BOOLEAN /\ drifted \in BOOLEAN
    /\ tasks \subseteq {Capture(s) : s \in Symbols} \cup Housekeeping
    /\ escaped \subseteq {Capture(s) : s \in Symbols}
    /\ starting \subseteq Symbols
    /\ lost \subseteq 1..accepted

\* A signal is always obeyed: whatever the tasks are doing, the process ends,
\* unless wait_for has dropped the cancellation of one that gather waits for.
StopCompletes == stop ~> (phase \in Ended \/ escaped # {})

\* README, "capture halts rather than timestamping events incorrectly": a
\* drifted clock ends the process, unless a signal is about to.
DriftHalts == drifted ~> (stop \/ phase \in Ended)

\* Every row given to the writer before the final flush reaches a file, at the
\* next flush or when the process stops.  What may come between is a write that
\* raises, the watchdog's exit, or a task that gather waits for in vain.
RowsReachDisk ==
    \A id \in 1..MaxRows :
        Pending(id) /\ phase # "closing"
          ~> (Filed(id) \/ id \in lost \/ phase = "halted" \/ escaped # {})

\* When main has returned, however its tasks were interleaved while they were
\* cancelled, the rows without a file are those of a write that raised and of
\* start tasks that came after the final flush.
NothingLeftBehind ==
    phase = "returned" => \A id \in 1..accepted : Filed(id) <=> id \notin lost

\* "Write all buffered rows to parquet.  Called every 5 min + on shutdown":
\* a process that has ended leaves nothing in its buffers.
FlushedOnShutdown == phase \in Ended => \A k \in Keys : pending[k] = {}
=============================================================================

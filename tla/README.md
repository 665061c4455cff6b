# crypto-l2-capture in TLA+

A model of the capture path of this repository: WebSocket frames and REST
answers in, order book in the middle, parquet rows out. TLC checks it on small
instances; TLAPS proves the properties that matter most for every value of the
constants. File names below are relative to `src/market_data/`.

## The system

One process captures the symbols of one exchange. Everything runs on a single
asyncio event loop: code between two awaits is atomic, and what makes the
program hard is the order in which the awaits come back.

| Component | State it keeps | Operations | Interacts with |
|---|---|---|---|
| Order book, `book/l2.py` | quantities by price and side, `_last_u` | `load_snapshot`, `apply_diff`, `snapshot` | owned by the state machine, which throws it away on error |
| Depth state machine, `book/snapshot.py` | `_state`, `_buffer`, `_prev_u`, `_book` | `start`, `on_depth_event`, `restart`, `_drain_buffer` | called by SymbolCapture and by its start task; hands rows to `on_book_update` |
| Symbol capture, `capture.py` | `_start_task` | `run`, `_on_depth`, `_on_trade`, `_on_book` | glues adapter, machine, REST and writer together |
| Exchange adapters, `exchanges/*/ws.py` | socket, backoff, timers, Bybit's `_last_seq` | `run`, `_connect`, `_recv_loop`, `_process`, `parse_depth`, `parse_trade` | call `_on_depth` and `_on_trade` |
| REST adapters, `exchanges/*/rest.py` | session, Binance's request weight | `fetch_snapshot`, `check_clock_drift`, `premium_index` | awaited by start tasks, watchdog, mark price poll |
| Tick writer, `storage/parquet.py` | row buffers by symbol and stream | `add_*`, `flush`, `flush_symbol` | filled by captures, flushed by the flush loop and by main |
| Daemon, `capture.py` | task list, `stop_event` | `main`, `flush_loop`, `clock_watchdog`, `mark_price_poll_loop` | starts and cancels everything |
| Metrics, `analysis/metrics.py`; former clients, `feeds/`; command line, `cli.py` | none that capture uses | | |

What makes each of them right:

- **Book and state machine.** No crossed row; stale diffs never merged; nothing
  stranded in the buffer; the continuity id belongs to the book it guards.
- **One symbol.** Every row is the exchange's own book at the id it carries,
  whatever is lost, late, repeated or reconnected; every lost frame is noticed;
  every buffered event has a task that will drain it.
- **Resync.** A book that breaks is LIVE again some time later, whatever the
  fetches meet: refusals, failures, a used-up request weight, a quiet market.
- **Adapters.** A silent link is dropped, the backoff is capped and really lies
  between two attempts, pings and heartbeats are answered in time, every trade is
  handed over.
- **Clock check.** The decision to halt is right up to the round trip.
- **Writer.** No row twice, none lost, order kept, dates not mixed.
- **Daemon.** A signal ends the process, and with every row in a file; a drifted
  clock halts it.

Hard behaviours: `start()` is suspended in `fetch_snapshot` while frames,
restarts and reconnects go on; a REST answer may be older than the buffer; the
buffer is drained by code that can restart the machine under its own loop; the
start tasks are in nobody's list; a write can fail half-way; the watchdog leaves
by `sys.exit`; timers race frames. `PROJECT.json` lists them, each at its line.

## The modules

| Module | Models | How it corresponds |
|---|---|---|
| `L2Book` | `book/l2.py` | A book is `[lv, lastU]`, `lv` the quantity of each (side, price). `Loaded`, `Rejects`, `Applied`, `Top` are the methods; they return the new book. |
| `RowPrices` | `BookSnapshot.microprice` in `book/l2.py` | The microprice of a row, from its best levels; a quotient is its numerator and denominator. |
| `DepthStateMachine` | `book/snapshot.py` | One action per method; `_drain_buffer`'s two loops are steps (`SkipBridging` ... `DrainEnd`), with `loop` keeping every other action out while it runs. `row` is the last snapshot handed out. |
| `ExchangeFeed` | `parse_depth` and `fetch_snapshot` of the four exchanges | Pure operators from the exchange's history of books to events and snapshots. `Shown` is what a stream covers: all levels, but at Bybit the best `StreamDepth` of each side (`orderbook.50`), where REST lists `SnapDepth` (200). `Unnamed` is what the first update of a subscription may carry instead of a previous id (OKX -1, Deribit none). |
| `SymbolCapture` | one symbol end to end | Composes the two above with the stream (`Publish`, `Connect`, `Disconnect`, `Lose`, `DeliverFullBook`, `DeliverDiff`) and the start task (`FetchAnswered`, `FetchFails`, `FetchRetries`, `Resume`, `Drain`). `truth`, the exchange's history, is chosen once and never seen by the program. `basis` is a history variable: whether a LIVE book rests on a snapshot and diffs, on a full-book message merged like a diff (`merged`), or has a hole (`partial`): its anchor was rejected, or an update without a previous id was let in past the book's end. `opening` says which of the two messages that open a subscription is next. An answer may be old, too shallow or, out of `BadAnswers`, one that `load_snapshot` rejects; the start task then ends as `raised`. |
| `BookReplica` | what a symbol promises | The abstract specification: emit the view of a published id, newer than the last. `SymbolCapture!ImplementsReplica` is the refinement. |
| `Resync` | `start()`, `_on_depth` and the drain as one loop on a Binance stream that never ends; `_track_weight` | Ids are ages: how many ids the exchange has given out since, so that a finite instance never runs out of them. `Publish`, `Send` and `Lose` are the exchange and the connection; `Buffered`, `Applied`, `Breaks` are `_on_depth`; `FetchAnswered` (an answer of any age up to `MaxLag`), `FetchFails`, `FetchRetries` the fetch; `Resume`, `ResumeRejected`, `LoadRaises` what `start()` does with the answer, a gap or a rejection in the middle of the drain included. What a book would reject is left open. `used` is the request weight of the minute: a refused request is paid for too, and `OtherRequests` are those of other symbols, the mark price poll and the watchdog. |
| `WsAdapter` | `run`, `_connect`, `_recv_loop` of the four adapters and of `feeds/binance_ws.py` | Time in ticks, while connecting, receiving and sleeping; `Wait` is the timeout of the next `recv()`. `feed`, chosen at the start, says whose loop it is; where they are the same the map names one of them. |
| `ClockCheck` | `check_clock_drift` of the four adapters and the former client | `Ask`, then the exchange's `Stamp`, then `Answered`, the two clocks moving in between. |
| `TickWriter` | `storage/parquet.py` | Rows are `[id, day]`, a buffer is the set of its rows in the order of their ids. A file has the date of its rows (its directory) and, as its name, the time of day of its flush; `MidnightPasses` sets that back. `FlushFails` is a flush that raises after any number of buffers and files. |
| `CaptureDaemon` | `main` and its loops | Extends `TickWriter`. Capture tasks, housekeeping tasks and start tasks, signals, cancellation one task at a time, the final flush, `sys.exit` in the watchdog. `lost` records the rows that no file will hold: of a write that raised, or added after the final flush. |

`MCDepthStateMachine` and `MCSymbolCapture` give environments and histories to
TLC. The `*Proofs` modules hold the theorems.

Abstractions: prices are small integers with equal comparison to the decimals of
the code, quantities integers, timestamps left out of book rows. `on_book_update`
runs in a task of its own (`ensure_future`); those tasks start in the order they
are made, so the model hands the row out in the step that makes it. Time of day is
counted in rows added since midnight; the local clock does not go back within a day.

External, modelled from how the code uses it: the exchanges, the clocks, and
`asyncio.wait_for` as Python 3.11 has it. About the exchanges the model assumes
that a stream never goes back, that the books it publishes are not crossed (a REST
answer may be), that a message covers the ids from the last one sent, that only the first
update of a subscription may name no previous id, and that Bybit's REST `u` and
stream `seq` count the same thing.

## The runs

| Run | Question | Result |
|---|---|---|
| `machine` | Can any sequence of events, snapshots and restarts make the machine hand out a crossed row or one whose microprice leaves the spread, merge a stale diff, or become LIVE with a buffer or a continuity id that does not fit? | No |
| `binance` | With losses, reconnects, failed, stale, shallow and rejected answers: is the book sound, are rows true, gaps noticed, every buffer in some task's care, and is the replica implemented? | Yes, except that a buffer whose task ended in `load_snapshot` waits for the next event |
| `okx` | A single-id feed with full-book messages and unchecked first updates: rows uncrossed, lost frames noticed, every buffered event drained in the end; is a book that rests on a snapshot sound, and what does a merged full book spoil? | Sound; leftovers of removed levels and nothing else, unless the full book is lost and the update after it names no previous id; no quantity is ever made up; a buffer is drained or its task raises |
| `daemon` | A signal, midnight, drift, failing writes, late start tasks and swallowed cancellations at any moment: are rows filed once, do the files flushed on one date sort as their rows came, is what is left behind only what was lost, and do a signal and a drifted clock end the process? | Yes, save a `gather` that waits for a swallowed cancellation |
| `resync` | Frames are lost, answers old or bad, anchors and events rejected, the request weight shared and used up: does `start()` make the book LIVE whenever the buffer spans the answer's id, and does a book that breaks always become LIVE again? | Yes, if some answer meets a buffer that spans it |
| `ws` | Timers against traffic, for each of the five loops | A silent link is dropped, the backoff capped and kept between attempts; a ping is late only under traffic |
| `clock` | How wrong can the drift and the decision to halt be? | Half the round trip |
| `deribit_unseeded` | Is a LIVE book always seeded? | No: rejected anchor, then LIVE |
| `okx_fullbook` | Is a row true after a second full-book message? | No: removed levels stay |
| `bybit_gap` | Does a lost Bybit delta cause a restart? | No |
| `daemon_drift` | Is the buffer flushed when the watchdog halts? | No |
| `resync_quiet` | The second question without that condition, with no frame lost and every answer good and new: events further apart than an answer takes | No: every snapshot already covers the event that asked for it |

The last five are disagreements between the code and its documents;
`PROJECT.json` quotes both sides under `findings`.

Seen in the code and not worth a run, because one line shows it:

- a row popped from its buffer is lost when the write raises (`storage/parquet.py:204`);
- on Python 3.11 `wait_for` may swallow a cancellation that arrives together with
  the frame it waits for, and `gather` then waits for ever (`capture.py:253`;
  the model has it behind `WaitForSwallows`);
- Bybit's ping is sent only after `recv()` has timed out, never under steady
  traffic (`exchanges/bybit/ws.py:176`); Deribit's answer to a `test_request` is a
  task that sends nothing (`exchanges/deribit/ws.py:238`);
- of a batch of trades only the first is handed on (Bybit, OKX, Deribit);
- a slow answer can hide a drift or make one up, to half the round trip (`clock`);
- above 90 % of the request weight `_track_weight` raises ("halting"), but the
  request has been made and paid for, `start()` and the watchdog catch the error,
  and the fetch is repeated a second later (`exchanges/binance/rest.py:107`); while
  that lasts the watchdog sees no drift;
- Bybit's `_GAP_TIMEOUT_S` is used nowhere, so a silent Bybit link is kept;
- a connection that was healthy for hours does not reset the backoff, only a gap does;
- with a single negative return `sortino_ratio` is +inf even if the mean is negative,
  and with equal returns of zero `sharpe_ratio` is -inf (`analysis/metrics.py:92`, `:121`).

A feed with single ids needs more luck to come back than `resync` says of Binance: the
anchor must then be the very event whose id follows the snapshot's, which fails if an event
may contain more than one id. How those exchanges number their events is not in this
repository, so `Resync` does not model them.

Three more limits of the code that the properties exempt by name, rather than hide:

- when `load_snapshot` raises, the buffer is left without a task until the next event
  (`book/snapshot.py:111`; `BufferHasTask`, `BufferDrains`);
- an OKX update with `prevSeqId` -1, or a Deribit change without `prev_change_id`, is not
  checked. If the full book before it was lost it is merged over a hole
  (`exchanges/okx/ws.py:102`, `exchanges/deribit/ws.py:115`; `basis = "partial"`);
- rows of yesterday flushed after midnight are in a file whose name sorts first
  (`storage/parquet.py:213`; `FilesInOrder` compares files flushed on one date).

And one they do not reach: Bybit's stream has 50 levels a side and REST seeds 200, so levels
the stream does not cover go stale (`exchanges/bybit/ws.py:164`). The model has the
difference (`StreamDepth`), and therefore no theorem on soundness covers Bybit;
only `NothingInvented` does.

Four differences of wording are not listed as findings: README.md says a crossed
book "halts capture", where the code drops the book and resynchronises (no
crossed row is written either way); step 4 of `book/snapshot.py`'s protocol
says a missing anchor restarts, where the code stays SYNCING and fetches again at
the next event; README.md:122 gives the imbalance as `bid_qty / (bid_qty + ask_qty)`,
where code, docstring and tests have `(bid_qty - ask_qty) / (bid_qty + ask_qty)`;
`feeds/binance_rest.py` says it halts at 500 ms of drift and does so at 1000.

### Bounds

- `machine`: two prices a side, ids to 2, a buffer of 2. A crossing needs one bid
  and one ask; bridging needs an event below, across and above the snapshot's id;
  a restart inside the drain needs two buffered events. All are reached.
- `binance`: three prices, ids to 4, a buffer of 4, four histories (falling, rising,
  levels that come and go, and a side three levels deep). A restart needs an anchor, a lost
  frame and its successor, a second seeding two more ids. The REST answer shows two levels,
  so in the last history it is shallower than the book. `RowTrue` holds all the same because
  no row of these histories needs a level that was not shown; in general it is
  proved for answers as deep as the book only (`RowsAreTrue`), while `BookSound` is proved for
  every depth (`BookIsSound`). Two answers that `load_snapshot` rejects, a crossed and a
  negative one.
- `okx` and the violation runs on feeds: ids to 3, which a second resync after a reconnect
  fits in; a buffer of 2 in `okx` (the full book and an update, or two updates), of 3 in the
  others. `okx` has two of the histories, whose answers show every level, so that `RowTrue`
  may be asked.
- `daemon`: one symbol, two dates (of rows and of the clock), two rows: two files of one key, one
  buffer across midnight, a row filed and one lost by the same failing flush, a row on
  either side of the final flush. Several symbols and any number of rows are covered by
  the proofs. The flags for drift, failing writes and the two library behaviours are TRUE.
- `daemon_drift`: two symbols, one date, two rows; signals and drift, no failing writes.
- `resync`: events of one or two ids, two on their way, three buffered: an anchor with an
  event before it and one after it. Answers up to two ids old; weight for two fetches a minute,
  so that the third is refused; the count stops one above that. The exchange pauses while
  an id in use is five ids old (`MaxAge`): the fairness below then makes the program act on
  that id, so a pause ends. `resync_quiet` has two buffered, and nothing lost, old or bad.
- `ws`: opening takes 2 ticks at most, a gap is 3, Bybit's 20 s are 4, ages go up to 8, so
  that every order of two timers occurs; the backoff starts at 1 and its cap of 6, no
  power of two, is reached by three failures.
- `clock`: limit 1, offsets to 3 either way, four ticks of round trip. A unit stands
  for a second or so: the limit of the code is 1000 ms and nothing bounds the round trip.

### Fairness

- `SymbolCapture!FairSpec`: the event loop runs what is ready (weak fairness of
  `Drain`, `Resume`, `FetchRetries`); `start()` retries for ever, and the exchange
  does not refuse for ever (strong fairness of `FetchAnswered`, since a failing
  fetch disables it again and again). Nothing is assumed of the stream.
- `CaptureDaemon!FairSpec`: weak fairness of main's own steps, of cancelled tasks
  ending and of the flush loop, all of which are continuously enabled by the event
  loop; strong fairness of the watchdog, whose check is repeated every minute and
  may fail for other reasons in between. No signal, row or failure is forced.
- `Resync!FairSpec`: the exchange goes on publishing and not every frame is lost (strong
  fairness of `Send`, which `Lose` disables; without it a book has nothing to be LIVE with),
  minutes pass, the event loop runs what is ready; strong fairness of a retry while there is
  weight left, and of `FetchAnswered`, which a refusal or a failure disables for a second or
  a minute at a time: retries come every second, so some come before the other requests have
  used up the minute, and not all of those fail. `TimelySpec` adds what no scheduling can
  give, an assumption about the network: of the answers that `start()` is given again and
  again, one meets a buffer that spans its id (`Spans`) and is accepted. `Resyncs` then says
  that nothing in the program stops answers from coming: not a break, a task that raised, a
  drain without an anchor, a refused fetch. `resync_quiet` has the same fairness without
  that assumption, so its counterexample starves nobody.
- `BufferDrains` excepts a task that raised: after it only an event starts another, and
  nothing promises one.

## The proofs

Checked by tlapm with the SMT, Zenon and PTL backends; no step is left open.

**`L2BookProofs`** proves what the book's operators return: types, that cutting
a book to a depth never makes it crossed, that merging acts level by level.
The modules below cite these lemmas.

**`DepthStateMachineProofs`** proves, for every set of prices, events and snapshots
(crossed, negative and stale ones included), `MachineTypeOK`, `NoCrossedRow`,
`MicropriceInsideSpread`, `LiveBufferEmpty`, `ContinuityIdIsBookId` and `IdsIncrease`. The
inductive invariant `MachineInv` is the types and `NoCrossedRow` with what the drain
relies on while it runs: while bridging the machine is SYNCING, while draining a
machine that still has events is LIVE. Without it `LiveBufferEmpty` is not inductive:
it says nothing of the middle of a drain, from which it must be re-established.
`MicropriceInsideSpread` follows from the first two parts: quantities above 0 and a best bid
below the best ask are all the arithmetic of `WeightedPrice` needs.

**`SymbolCaptureProofs`** has three parts, for every history, loss, price grid, depth and
interleaving.

*Every feed.* `BaseInv` is `TypeOK`, `MachineInv`, `TaskInv` (the answer under way is the
history's book at some published id or a bad one) and `OrderInv` (the buffer is in order, nothing
in it is beyond what the stream has passed or before the last row). From it:

- `CaptureDrivesMachine`: every step of `Spec` is one of `MachineSpec` on a well-formed
  event or snapshot, or leaves the machine alone. `NoCrossedRow`, `MicropriceInsideSpread`,
  `LiveBufferEmpty`, `ContinuityIdIsBookId` and `IdsIncrease` then hold of the capture
  because they hold of the machine in every environment;
- `TypeOK`; `BufferHasTask`, which needs the drain to leave nothing behind
  (`LiveBufferEmpty`); a task that raised is told from one that is done;
  `RowsAreInOrder`: rows never go back;
- `NothingInvented`, by way of `DatedInv`: what is buffered lists the exchange's levels at
  the event's id, a SYNCING book is the sound one it was loaded as (`SoundSince`), and a
  LIVE one has only levels the exchange has had since the seed (`Dated`). No test of
  `prev` is needed for that, nor a stream that shows every level, so it covers Bybit with lost
  frames, where what follows does not: a level may then be old or missing, but is not made up.

*Feeds whose diffs name the id they follow* and cover the whole book (`Chained`: Binance, OKX
and Deribit; not Bybit, whose adapter makes the previous id up and whose stream is shallower
than its snapshots). `IInv` is `BaseInv`, `DatedInv` and

1. `ChainInv`: every buffered event is genuine, a diff the delta of the history over the ids
   from `since`, which is the previous id it names if it names one, a full book the history's
   at its id;
2. `BookInv`: while LIVE on a snapshot, the book agrees with the history at its own id
   except for levels beyond the snapshot and untouched since (`SoundSince`); once a full
   book is merged it agrees except for levels since removed (`LeftoversSince`); a LIVE
   book that has an id at all has it for its continuity id;
3. `RowInv`: the last row of a book that rests on a snapshot is the history's view (for a
   deep answer).

It gives `BookSoundOnSnapshot`, `RowTrueOnSnapshot` (when `Cardinality(Prices) <=
SnapDepth`), `LeftoversOnly` and `GapRestartsOnceFilled`. Part 1 is what makes a `prev` test
that succeeds enough to know that a delta meets the very book it is a delta of; the bridge
condition `first <= id + 1 <= last` carries part 2 over the anchor, where the `prev` test is
skipped. The mutants `BridgesFromAnywhere` and `NeverBreaks` show that neither is dispensable.

Where the promise ends: OKX, Bybit and Deribit open each subscription with a full book that
is merged like a diff, and `okx_fullbook` and `deribit_unseeded` show what that does.
`LeftoversOnly` says that it does no more: `Dated` needs no continuity, so it holds of any
book such a message can meet, and merging the message into a dated book repairs every level
the exchange has. A book with `basis = "partial"` has no such bound until then: it lacks
levels. A restart ends both, and a full book that is buffered and passed over as stale
starts neither.

*Binance*, whose stream has no such message, so that a LIVE book always rests on a
snapshot: `BookSound`, `LiveIsSeeded`, `RowTrue`, `GapRestarts` without exception, and the
refinement `ImplementsReplica`, which needs besides that rows get strictly newer (`EmitStep`). On the
other feeds a row may be repeated with its id after a reconnect, so the replica is not
implemented there even where the rows are true.

**`ClockCheckProofs`** proves that a check is right to half its round trip, whatever
the clocks do: the stamp lies between the two readings, so the midpoint is off by
at most half of what lies between them.

`TypeOK` of the clock check comes with it.

**`TickWriterProofs`** proves, for any symbols, dates and number of rows, `WriterTypeOK`,
`RowsOnce` and `FilesInOrder` under every sequence of additions, flushes and failing
flushes. `RowsOnce` alone is not inductive: the strengthening says that ids are in
one place only (one buffer, or one file) and that the moment a file was written,
its time of day counted from the dawn of its date, bounds its rows, so that files
written later begin later. On one date the names compare as those moments do; on two
they need not, and nothing is said.

**`CaptureDaemonProofs`** first shows that the daemon uses the writer only through its
operations (`DaemonUsesWriter`: every step is a step of `WriterSpec` or leaves the writer
alone), which gives it the writer's invariants for nothing, and then proves `TypeOK` and
`NothingLeftBehind`: while main runs every accepted row is buffered, filed or lost;
the final flush empties the buffers; what comes after it is in `lost`.

**`WsAdapterProofs`** proves `TypeOK`, `SilentLinkDropped`, `LatePingMeansTraffic` and
`AttemptsBackOff` for all timeouts. Each needs to know how far a running timer is from the
age it was set by (`timer + quiet` against the gap timeout, `timer + tryAge` against the
backoff); those sums are the inductive part.

**`ResyncProofs`** proves, for all bounds, `TypeOK` of `Resync` and `RebuiltWhenSpanned`:
whatever was lost and however old the answer, `start()` makes the book LIVE whenever the buffer
spans the answer's id and nothing is rejected, and never from a buffer that does not reach back
to it or not past it. The inductive part is the order of the ids (`StreamInv`: what is buffered,
on its way and unsent gets newer throughout; nothing is said of holes, since frames may be
lost). In a buffer without a hole the first event past the answer is then one that bridges;
that there is a first one is the well-ordering of the naturals. This is the safety half of
`Resyncs`: what is left to fairness and to `TimelySpec` is that some answer meets such a
buffer, which `resync_quiet` lacks.

Assumptions are the named ASSUMEs of the modules: positive depths, `None` not
a number or record, histories of uncrossed books, bad answers that `load_snapshot` does reject,
bounds that are naturals.

Not proved, only model-checked: the liveness properties (`BufferDrains`, `Resyncs`,
`StopCompletes`, `DriftHalts`, `RowsReachDisk`), for fairness is out of the prover's reach.
The violation runs show what is false; nothing is to be proved there.

## Not modelled

- `analysis/metrics.py`: numerical formulas over recorded files, without state or order
  of events; a table of inputs tests them better than a model.
- `feeds/binance_rest.py` but for its clock check: requests, signed ones included, that
  keep only counters. Nothing in the capture path uses it.
- `cli.py`, `config/`: read once at the start.
- HTTP primitives: a refused or failed request is `FetchFails`, `CheckFails` or no row at
  all. The request weight is in `Resync` only.
- Trades before the writer, subscriptions, answers to heartbeats.
- Mid, spread and imbalance of a row: formulas without a case that could go wrong. (The
  imbalance is the one README.md:122 states differently, see above.)
- Field names, decimal texts, timestamps of rows, logging, counters.

## Plan

Done, in this order: book, row prices and state machine, one symbol with its refinement,
writer, daemon, connection loops, clock check; then the resync with its request weight,
the former client's loop, and the proofs about writer, daemon, adapters and resync; then
the proofs about the feeds with single ids, about what a merged full book spoils and about
what brings a book back.

What could follow:

1. `WsAdapter` composed with `SymbolCapture`: a connection that stays open while only
   its depth stream is silent.
2. `TickWriter`: rows handed over in tasks of their own.
3. `Resync` for the feeds with single ids, once it is known how they number their events.

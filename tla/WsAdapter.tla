------------------------------ MODULE WsAdapter ------------------------------
(***************************************************************************)
(* The connection loop of a WebSocket adapter (market_data/exchanges,      *)
(* ws.py of each, and the former client feeds/binance_ws.py): connect,     *)
(* receive under a timeout, reconnect, back off.  Time passes in ticks and *)
(* only while no timer has run out, as on an idle event loop.  What the    *)
(* messages do to the book is SymbolCapture's subject; here they rearm     *)
(* timers or, malformed, break the connection.                             *)
(***************************************************************************)
EXTENDS Integers, FiniteSetsExt

CONSTANTS
    Feeds,          \* the exchanges' adapters and "former", Binance's former client
    OpenTimeout,    \* _OPEN_TIMEOUT_S
    GapTimeout,     \* ticks of silence that mean a gap (all but Bybit)
    Heartbeat,      \* Bybit's _HEARTBEAT_S
    MinWait,        \* the 0.1 s below which Bybit's wait never falls
    ReconnectCap,   \* _RECONNECT_CAP_S
    Horizon         \* bound: ages are counted up to here

Settings == {OpenTimeout, GapTimeout, Heartbeat, MinWait, ReconnectCap}

ASSUME FeedsAssumption == Feeds \subseteq {"binance", "okx", "deribit", "bybit", "former"}
ASSUME TimesAssumption ==
    /\ Settings \subseteq Nat \ {0}
    /\ MinWait <= Heartbeat
    /\ Horizon \in Nat /\ \A x \in Settings : x < Horizon

VARIABLES
    feed,       \* whose adapter this is
    phase,      \* what run() is suspended in
    timer,      \* ticks until that times out
    backoff,    \* the local of run()
    quiet,      \* ticks since the last frame, or since the connection opened
    pingAge,    \* ticks since last_ping, a local of Bybit's _recv_loop
    tryAge      \* ticks since the last attempt to connect came to its end

vars == <<feed, phase, timer, backoff, quiet, pingAge, tryAge>>
linkVars == <<quiet, pingAge>>

Older(age) == Min({age + 1, Horizon})

Init ==
    /\ feed \in Feeds
    /\ phase = "connecting" /\ timer = OpenTimeout
    /\ backoff = 1
    /\ quiet = 0 /\ pingAge = 0
    /\ tryAge = Horizon

----------------------------------------------------------------------------
(* The timeout of the next recv() *)

Wait(age) == IF feed = "bybit" THEN Max({MinWait, Heartbeat - age}) ELSE GapTimeout

----------------------------------------------------------------------------
(* run() and _connect() *)

\* Mutant: every failure is followed by the same short sleep.
SleepsOneTick ==
    /\ phase' = "sleeping"
    /\ timer' = 1
    /\ UNCHANGED <<feed, backoff, linkVars>>

\* The last two except clauses.
Sleeps ==
    /\ phase' = "sleeping"
    /\ timer' = backoff
    /\ UNCHANGED <<feed, backoff, linkVars>>

\* A tick, while every timer is still running.
Tick ==
    /\ phase # "ended"
    /\ timer > 0
    /\ timer' = timer - 1
    /\ quiet' = Older(quiet)
    /\ pingAge' = Older(pingAge)
    /\ tryAge' = Older(tryAge)
    /\ UNCHANGED <<feed, phase, backoff>>

\* The socket is open and the subscriptions are sent.
Connect ==
    /\ phase = "connecting"
    /\ phase' = "receiving"
    /\ timer' = Wait(0)
    /\ quiet' = 0 /\ pingAge' = 0 /\ tryAge' = 0
    /\ UNCHANGED <<feed, backoff>>

\* Opening is refused or times out.
OpenFails ==
    /\ phase = "connecting"
    /\ tryAge' = 0
    /\ Sleeps

\* The connection breaks, or a frame makes _process raise: JSON of another
\* shape than a message has, where text that is no JSON is only logged.
LinkFails ==
    /\ phase = "receiving"
    /\ UNCHANGED tryAge
    /\ Sleeps

\* Mutant: the cap is forgotten.
WakesUncapped ==
    /\ phase = "sleeping"
    /\ timer = 0
    /\ phase' = "connecting" /\ timer' = OpenTimeout
    /\ backoff' = 2 * backoff
    /\ UNCHANGED <<feed, linkVars, tryAge>>

Wakes ==
    /\ phase = "sleeping"
    /\ timer = 0
    /\ phase' = "connecting" /\ timer' = OpenTimeout
    /\ backoff' = Min({2 * backoff, ReconnectCap})
    /\ UNCHANGED <<feed, linkVars, tryAge>>

\* Mutant: the timeout is counted and the loop goes on.
GapOnlyCounted ==
    /\ timer' = Wait(pingAge)
    /\ UNCHANGED <<feed, phase, backoff, linkVars, tryAge>>

\* A gap, by _GapDetected or, at Deribit, by returning: reconnect at once.
Reconnects ==
    /\ phase' = "connecting" /\ timer' = OpenTimeout
    /\ backoff' = 1
    /\ UNCHANGED <<feed, linkVars, tryAge>>

\* Cancelled in _connect run() returns, cancelled while it sleeps it raises.
Cancelled ==
    /\ phase # "ended"
    /\ phase' = "ended"
    /\ UNCHANGED <<feed, timer, backoff, linkVars, tryAge>>

----------------------------------------------------------------------------
(* wait_for has timed out *)

\* Mutant: the ping is sent only if the last one is more than two periods old.
BybitTimeoutLate ==
    /\ pingAge' = IF pingAge >= 2 * Heartbeat THEN 0 ELSE pingAge
    /\ timer' = Wait(pingAge')
    /\ UNCHANGED <<feed, phase, backoff, quiet, tryAge>>

\* Bybit pings if it is time to, and goes on.
BybitTimeout ==
    /\ pingAge' = IF pingAge >= Heartbeat THEN 0 ELSE pingAge
    /\ timer' = Wait(pingAge')
    /\ UNCHANGED <<feed, phase, backoff, quiet, tryAge>>

RecvTimesOut ==
    /\ phase = "receiving"
    /\ timer = 0
    /\ \/ feed = "bybit" /\ BybitTimeout
       \/ feed # "bybit" /\ Reconnects

----------------------------------------------------------------------------
\* A frame: depth, trades, an acknowledgement, a pong, a heartbeat (Deribit's
\* _pong sends nothing), a stream without a handler or text that is no JSON.
\* What a handler raises is logged; the next recv() is armed.
Receive ==
    /\ phase = "receiving"
    /\ timer' = Wait(pingAge)
    /\ quiet' = 0
    /\ UNCHANGED <<feed, phase, backoff, pingAge, tryAge>>

Next ==
    \/ Tick \/ Connect \/ OpenFails \/ LinkFails \/ Wakes \/ Cancelled
    \/ RecvTimesOut \/ Receive
    \/ phase = "ended" /\ UNCHANGED vars

Spec == Init /\ [][Next]_vars

----------------------------------------------------------------------------
\* Type invariant: no timer is longer than its longest setting, and backoff
\* does not pass the cap.
TypeOK ==
    /\ feed \in Feeds
    /\ phase \in {"connecting", "receiving", "sleeping", "ended"}
    /\ \E x \in Settings : timer \in 0..x
    /\ backoff \in 1..ReconnectCap
    /\ {quiet, pingAge, tryAge} \subseteq 0..Horizon

\* No connection is kept that has been silent for longer than the gap timeout,
\* whatever arrives and however the loop rearms its timer.  Bybit's loop has
\* no such timeout.
SilentLinkDropped == phase = "receiving" /\ feed # "bybit" => quiet <= GapTimeout

\* bybit/ws.py: "Bybit requires ping every 20s".  The ping is late only while
\* frames keep the loop from timing out, and by no more than MinWait of silence.
LatePingMeansTraffic ==
    phase = "receiving" /\ feed = "bybit" /\ pingAge > Heartbeat => quiet <= MinWait

\* README, "automatic reconnect with exponential backoff": whichever way the
\* loop comes round, the last attempt to connect has ended at least half the
\* present backoff ago, and never in the same tick.
AttemptsBackOff == phase = "connecting" => tryAge > 0 /\ 2 * tryAge >= backoff
=============================================================================

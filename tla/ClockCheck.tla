------------------------------ MODULE ClockCheck ------------------------------
(***************************************************************************)
(* The clock drift measurement (check_clock_drift, the same in each        *)
(* exchange's rest.py and in feeds/binance_rest.py).  The exchange stamps  *)
(* its clock somewhere between the two readings of the local one, and the  *)
(* local one may be stepped while the request is under way.  Times are in  *)
(* milliseconds.                                                           *)
(***************************************************************************)
EXTENDS Integers

CONSTANTS
    HaltMs,     \* _DRIFT_HALT_MS
    MaxOffset,  \* bound: local clock - exchange's clock, either way
    MaxNow,     \* bound: the exchange's clock runs up to here
    None

ASSUME HaltAssumption == HaltMs \in Nat
ASSUME BoundsAssumption == MaxOffset \in Nat /\ MaxNow \in Nat

Moment == [at : Int, offset : Int]
Check == [begin : Moment, end : Moment, drift : Int]

ASSUME NoneAssumption == None \notin Check

VARIABLES
    phase,      \* where check_clock_drift is
    t0,         \* its local
    server,     \* serverTime, once the exchange has stamped it
    now,        \* the exchange's clock
    offset,     \* the local clock is now + offset
    begun,      \* the exchange's time and the offset when t0 was read
    last        \* the last check completed: begun, its end, and the drift found

vars == <<phase, t0, server, now, offset, begun, last>>

Offsets == -MaxOffset..MaxOffset
Local == now + offset
Abs(d) == IF d < 0 THEN -d ELSE d
Here == [at |-> now, offset |-> offset]

Init ==
    /\ phase = "idle"
    /\ now = 0 /\ offset \in Offsets
    /\ t0 = 0 /\ server = 0
    /\ begun = Here
    /\ last = None

----------------------------------------------------------------------------
(* The world *)

Tick ==
    /\ now < MaxNow
    /\ now' = now + 1
    /\ UNCHANGED <<phase, t0, server, offset, begun, last>>

\* The local clock drifts, or is stepped by a time daemon.
ClockMoves ==
    /\ offset' \in Offsets
    /\ UNCHANGED <<phase, t0, server, now, begun, last>>

\* The exchange answers the request with its time.
Stamp ==
    /\ phase = "asked"
    /\ phase' = "stamped"
    /\ server' = now
    /\ UNCHANGED <<t0, now, offset, begun, last>>

----------------------------------------------------------------------------
(* check_clock_drift *)

Ask ==
    /\ phase = "idle"
    /\ phase' = "asked"
    /\ t0' = Local
    /\ begun' = Here
    /\ UNCHANGED <<server, now, offset, last>>

\* Mutant: the sign of the drift is forgotten.
ExceedsAhead(d) == d > HaltMs

Exceeds(d) == Abs(d) > HaltMs

\* Mutant: the local time is the one at the answer.
AnsweredNoMidpoint ==
    LET drift == Local - server
    IN  /\ phase = "stamped"
        /\ phase' = IF Exceeds(drift) THEN "halted" ELSE "idle"
        /\ last' = [begin |-> begun, end |-> Here, drift |-> drift]
        /\ UNCHANGED <<t0, server, now, offset, begun>>

\* The answer is read; ClockDriftError ends the process, at startup and in the
\* watchdog alike.
Answered ==
    LET drift == (t0 + Local) \div 2 - server
    IN  /\ phase = "stamped"
        /\ phase' = IF Exceeds(drift) THEN "halted" ELSE "idle"
        /\ last' = [begin |-> begun, end |-> Here, drift |-> drift]
        /\ UNCHANGED <<t0, server, now, offset, begun>>

\* Mutant: a check that fails halts, too.
CheckFailsHalts ==
    /\ phase \in {"asked", "stamped"}
    /\ phase' = "halted"
    /\ UNCHANGED <<t0, server, now, offset, begun, last>>

\* Any other error is only logged, and the next check comes a minute later.
CheckFails ==
    /\ phase \in {"asked", "stamped"}
    /\ phase' = "idle"
    /\ UNCHANGED <<t0, server, now, offset, begun, last>>

Next ==
    \/ Tick \/ ClockMoves \/ Stamp
    \/ Ask \/ Answered \/ CheckFails

Spec == Init /\ [][Next]_vars

----------------------------------------------------------------------------
\* Type invariant; nothing but the result of a check halts the process.
TypeOK ==
    /\ phase \in {"idle", "asked", "stamped", "halted"}
    /\ {t0, server, now, offset} \subseteq Int
    /\ begun \in Moment
    /\ last \in {None} \cup Check
    /\ phase = "halted" => last # None

RoundTrip == last.end.at - last.begin.at
MeanOffset2 == last.begin.offset + last.end.offset     \* twice the mean

\* The drift found is the mean of the offsets at its two ends, give or take
\* half the round trip, however the clock moved in between and whenever the
\* exchange stamped its answer (and half a millisecond, for the division).
DriftWithinHalfTrip ==
    last # None =>
        /\ 2 * last.drift <= MeanOffset2 + RoundTrip
        /\ 2 * last.drift >= MeanOffset2 - RoundTrip - 1

\* The decision is as good: a halt means an offset, or a round trip, that
\* accounts for it, and a clock that passes is off by at most the limit and
\* half the round trip.
DecisionWithinHalfTrip ==
    last # None =>
        IF phase = "halted" THEN Abs(MeanOffset2) + RoundTrip > 2 * HaltMs
                            ELSE Abs(MeanOffset2) <= 2 * HaltMs + RoundTrip + 1
=============================================================================

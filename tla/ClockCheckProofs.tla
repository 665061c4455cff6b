-------------------------- MODULE ClockCheckProofs --------------------------
(***************************************************************************)
(* What one clock check is worth, for every limit, offset and round trip.  *)
(* The inductive invariant adds to the type invariant the order in which   *)
(* the exchange's clock is read: at begun, at the stamp, now.              *)
(***************************************************************************)
EXTENDS ClockCheck, TLAPS

\* The readings a check is made of, and how far its result can be from them.
Readings ==
    /\ phase \in {"asked", "stamped"} => t0 = begun.at + begun.offset /\ begun.at <= now
    /\ phase = "stamped" => begun.at <= server /\ server <= now

\* The check that has ended: its halt decision is the one Exceeds took.
Decided ==
    last # None =>
        /\ (phase = "halted") => Exceeds(last.drift)
        /\ (phase # "halted") => ~Exceeds(last.drift)

IInv == TypeOK /\ Readings /\ DriftWithinHalfTrip /\ Decided

\* The midpoint (t0 + t1) // 2 - server of Answered lies within half the round
\* trip of the mean offset.
LEMMA Midpoint ==
    ASSUME NEW a \in Int, NEW p \in Int, NEW b \in Int, NEW q \in Int, NEW s \in Int,
           a <= s, s <= b
    PROVE  LET drift == ((a + p) + (b + q)) \div 2 - s
           IN  /\ drift \in Int
               /\ 2 * drift <= (p + q) + (b - a)
               /\ 2 * drift >= (p + q) - (b - a) - 1
<1> DEFINE x == (a + p) + (b + q)
           h == x \div 2
<1>1. x \in Int
  OBVIOUS
<1>2. h \in Int /\ 2 * h <= x /\ x <= 2 * h + 1
  BY <1>1, SMT
<1>3. x - 2 * s <= (p + q) + (b - a) /\ x - 2 * s >= (p + q) - (b - a)
  OBVIOUS
<1> HIDE DEF x
<1> QED
  BY <1>1, <1>2, <1>3

\* The first state satisfies the inductive invariant: no check has been made.
LEMMA InitIInv == Init => IInv
<1> SUFFICES ASSUME Init PROVE IInv
  OBVIOUS
<1> USE DEF Init
<1>1. TypeOK
  <2>1. offset \in Int
    BY BoundsAssumption DEF Offsets
  <2>2. begun \in Moment
    BY <2>1 DEF Here, Moment
  <2> QED
    BY <2>1, <2>2 DEF TypeOK
<1>2. Readings /\ DriftWithinHalfTrip /\ Decided
  BY DEF Readings, DriftWithinHalfTrip, Decided
<1> QED
  BY <1>1, <1>2 DEF IInv

\* Every step of the check and of the two clocks preserves it.
LEMMA NextIInv == IInv /\ [Next]_vars => IInv'
<1> SUFFICES ASSUME IInv, [Next]_vars PROVE IInv'
  OBVIOUS
<1> USE DEF IInv
<1>1. CASE Tick
  <2>1. TypeOK'
    BY <1>1 DEF TypeOK, Tick
  <2>2. Readings'
    BY <1>1 DEF Readings, TypeOK, Tick, Moment
  <2>3. (DriftWithinHalfTrip /\ Decided)'
    BY <1>1 DEF DriftWithinHalfTrip, Decided, Tick, RoundTrip, MeanOffset2
  <2> QED
    BY <2>1, <2>2, <2>3
<1>2. CASE ClockMoves
  <2>1. TypeOK'
    BY <1>2, BoundsAssumption DEF TypeOK, ClockMoves, Offsets
  <2>2. (Readings /\ DriftWithinHalfTrip /\ Decided)'
    BY <1>2 DEF Readings, DriftWithinHalfTrip, Decided, ClockMoves, RoundTrip, MeanOffset2
  <2> QED
    BY <2>1, <2>2
<1>3. CASE Stamp
  <2>1. TypeOK' /\ Readings'
    BY <1>3 DEF TypeOK, Readings, Stamp, Moment
  <2>2. (DriftWithinHalfTrip /\ Decided)'
    BY <1>3 DEF DriftWithinHalfTrip, Decided, Stamp, RoundTrip, MeanOffset2
  <2> QED
    BY <2>1, <2>2
<1>4. CASE Ask
  <2>1. TypeOK' /\ Readings'
    BY <1>4 DEF TypeOK, Readings, Ask, Here, Local, Moment
  <2>2. (DriftWithinHalfTrip /\ Decided)'
    BY <1>4 DEF DriftWithinHalfTrip, Decided, Ask, RoundTrip, MeanOffset2
  <2> QED
    BY <2>1, <2>2
<1>5. CASE Answered
  <2> DEFINE drift == (t0 + Local) \div 2 - server
             check == [begin |-> begun, end |-> Here, drift |-> drift]
  <2>1. /\ begun.at \in Int /\ begun.offset \in Int
        /\ t0 = begun.at + begun.offset /\ begun.at <= server /\ server <= now
        /\ server \in Int /\ now \in Int /\ offset \in Int
    BY <1>5 DEF TypeOK, Readings, Answered, Moment
  <2>2. /\ drift \in Int
        /\ 2 * drift <= (begun.offset + offset) + (now - begun.at)
        /\ 2 * drift >= (begun.offset + offset) - (now - begun.at) - 1
    BY <2>1, Midpoint DEF Local
  <2>3. /\ last' = check
        /\ phase' = IF Exceeds(drift) THEN "halted" ELSE "idle"
        /\ UNCHANGED <<t0, server, now, offset, begun>>
    BY <1>5 DEF Answered
  <2> HIDE DEF drift
  <2>4. check \in Check
    BY <2>1, <2>2 DEF Check, Moment, Here, TypeOK
  <2>5. TypeOK'
    BY <2>3, <2>4, NoneAssumption DEF TypeOK
  <2>6. Readings'
    BY <2>3 DEF Readings
  <2>7. DriftWithinHalfTrip'
    BY <2>1, <2>2, <2>3 DEF DriftWithinHalfTrip, RoundTrip, MeanOffset2, Here
  <2>8. Decided'
    <3>1. last'.drift = drift
      BY <2>3
    <3> QED
      BY <2>3, <3>1 DEF Decided, Exceeds, Abs
  <2> QED
    BY <2>5, <2>6, <2>7, <2>8
<1>6. CASE CheckFails
  <2>1. TypeOK' /\ Readings'
    BY <1>6 DEF TypeOK, Readings, CheckFails
  <2>2. (DriftWithinHalfTrip /\ Decided)'
    BY <1>6 DEF DriftWithinHalfTrip, Decided, CheckFails, RoundTrip, MeanOffset2
  <2> QED
    BY <2>1, <2>2
<1>7. CASE UNCHANGED vars
  BY <1>7 DEF vars, TypeOK, Readings, DriftWithinHalfTrip, Decided, RoundTrip, MeanOffset2
<1> QED
  BY <1>1, <1>2, <1>3, <1>4, <1>5, <1>6, <1>7 DEF Next

\* The inductive invariant accounts for the halt decision.
LEMMA IInvDecision == IInv => DecisionWithinHalfTrip
<1> SUFFICES ASSUME IInv, last # None PROVE
      IF phase = "halted" THEN Abs(MeanOffset2) + RoundTrip > 2 * HaltMs
                          ELSE Abs(MeanOffset2) <= 2 * HaltMs + RoundTrip + 1
  BY DEF DecisionWithinHalfTrip
<1>1. last \in Check
  BY DEF IInv, TypeOK
<1>2. last.drift \in Int /\ RoundTrip \in Int /\ MeanOffset2 \in Int /\ HaltMs \in Int
  BY <1>1, HaltAssumption DEF Check, Moment, RoundTrip, MeanOffset2
<1>3. /\ 2 * last.drift <= MeanOffset2 + RoundTrip
      /\ 2 * last.drift >= MeanOffset2 - RoundTrip - 1
  BY DEF IInv, DriftWithinHalfTrip
<1>4. CASE phase = "halted"
  <2>1. last.drift > HaltMs \/ -last.drift > HaltMs
    BY <1>2, <1>4 DEF IInv, Decided, Exceeds, Abs
  <2> QED
    BY <1>2, <1>3, <1>4, <2>1 DEF Abs
<1>5. CASE phase # "halted"
  <2>1. last.drift <= HaltMs /\ -last.drift <= HaltMs
    BY <1>2, <1>5 DEF IInv, Decided, Exceeds, Abs
  <2> QED
    BY <1>2, <1>3, <1>5, <2>1 DEF Abs
<1> QED
  BY <1>4, <1>5

\* Every clock check is right to within half its round trip, and so is the
\* decision to halt that check_clock_drift takes.
THEOREM ClockCheckIsBounded == Spec => [](DriftWithinHalfTrip /\ DecisionWithinHalfTrip)
<1>1. IInv => DriftWithinHalfTrip /\ DecisionWithinHalfTrip
  BY IInvDecision DEF IInv
<1> QED
  BY InitIInv, NextIInv, <1>1, PTL DEF Spec

\* The halt that a clock check decides on is accounted for by the clocks or by
\* the round trip, and a clock that passes is off by no more than both.
COROLLARY DecisionIsBounded == Spec => []DecisionWithinHalfTrip
<1> QED
  BY ClockCheckIsBounded, PTL

\* The variables keep their types, and nothing halts before a check has ended.
THEOREM ClockTypeCorrect == Spec => []TypeOK
<1>1. IInv => TypeOK
  BY DEF IInv
<1> QED
  BY InitIInv, NextIInv, <1>1, PTL DEF Spec
=============================================================================

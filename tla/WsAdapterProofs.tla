--------------------------- MODULE WsAdapterProofs ---------------------------
(***************************************************************************)
(* The connection loop keeps its promises about time for every setting of  *)
(* its timeouts and every interleaving of frames, failures and ticks.  The *)
(* inductive invariant says, of each place where run() is suspended, what  *)
(* the running timer and the ages it is compared with add up to.           *)
(***************************************************************************)
EXTENDS WsAdapter, TLAPS

\* Receiving without a ping to send: the silence and what is left of the
\* timeout are within it, and so much has passed since the connection opened.
GapRuns ==
    phase = "receiving" /\ feed # "bybit" =>
        /\ quiet + timer <= GapTimeout
        /\ tryAge + timer >= GapTimeout

\* Bybit's timer ends when the ping is due or, armed by a frame when that is
\* nearly so, within MinWait of that frame and when the ping is due.
PingRuns ==
    phase = "receiving" /\ feed = "bybit" =>
        \/ timer + pingAge = Heartbeat
        \/ timer + quiet <= MinWait /\ timer + pingAge >= Heartbeat

\* The sleep lasts until the backoff has passed since the last attempt.
SleepRuns == phase = "sleeping" => tryAge + timer >= backoff

IInv == TypeOK /\ GapRuns /\ PingRuns /\ SleepRuns /\ AttemptsBackOff

\* The helpers of the community modules, on two numbers.
LEMMA MinOfTwo ==
    ASSUME NEW a \in Int, NEW b \in Int
    PROVE  Min({a, b}) = IF a <= b THEN a ELSE b
<1> DEFINE m == IF a <= b THEN a ELSE b
<1>1. m \in {a, b} /\ \A y \in {a, b} : m <= y
  OBVIOUS
<1>2. \A x \in {a, b} : (\A y \in {a, b} : x <= y) => x = m
  OBVIOUS
<1> QED
  BY <1>1, <1>2 DEF Min

LEMMA MaxOfTwo ==
    ASSUME NEW a \in Int, NEW b \in Int
    PROVE  Max({a, b}) = IF a >= b THEN a ELSE b
<1> DEFINE m == IF a >= b THEN a ELSE b
<1>1. m \in {a, b} /\ \A y \in {a, b} : m >= y
  OBVIOUS
<1>2. \A x \in {a, b} : (\A y \in {a, b} : x >= y) => x = m
  OBVIOUS
<1> QED
  BY <1>1, <1>2 DEF Max

\* What is used of the settings.
LEMMA SettingsTypes ==
    /\ {OpenTimeout, GapTimeout, Heartbeat, MinWait, ReconnectCap} \subseteq Nat \ {0}
    /\ Horizon \in Nat
    /\ MinWait <= Heartbeat
    /\ OpenTimeout < Horizon /\ GapTimeout < Horizon /\ Heartbeat < Horizon
    /\ MinWait < Horizon /\ ReconnectCap < Horizon
<1> QED
  BY TimesAssumption DEF Settings

\* An age grows by one tick, up to the horizon.
LEMMA OlderIs ==
    ASSUME NEW age \in 0..Horizon
    PROVE  /\ Older(age) \in 0..Horizon
           /\ Older(age) = age + 1 \/ (Older(age) = Horizon /\ age = Horizon)
<1>1. age + 1 \in Int /\ Horizon \in Int
  BY SettingsTypes
<1>2. Older(age) = IF age + 1 <= Horizon THEN age + 1 ELSE Horizon
  BY <1>1, MinOfTwo DEF Older
<1> QED
  BY <1>2, SettingsTypes

\* The timeout recv() is given: the gap timeout, or until the next ping.
LEMMA WaitIs ==
    ASSUME NEW age \in 0..Horizon
    PROVE  /\ feed # "bybit" => Wait(age) = GapTimeout
           /\ feed = "bybit" =>
                \/ Wait(age) = Heartbeat - age /\ Wait(age) >= MinWait
                \/ Wait(age) = MinWait /\ Heartbeat < MinWait + age
           /\ \E x \in Settings : Wait(age) \in 0..x
<1>1. CASE feed # "bybit"
  <2>1. Wait(age) = GapTimeout
    BY <1>1 DEF Wait
  <2> QED
    BY <1>1, <2>1, SettingsTypes DEF Settings
<1>2. CASE feed = "bybit"
  <2>1. MinWait \in Int /\ Heartbeat - age \in Int
    BY SettingsTypes
  <2>2. Wait(age) = IF MinWait >= Heartbeat - age THEN MinWait ELSE Heartbeat - age
    BY <1>2, <2>1, MaxOfTwo DEF Wait
  <2>3. Wait(age) \in 0..Heartbeat
    BY <2>2, SettingsTypes
  <2> QED
    BY <1>2, <2>2, <2>3, SettingsTypes DEF Settings
<1> QED
  BY <1>1, <1>2

LEMMA InitIInv == Init => IInv
<1> SUFFICES ASSUME Init PROVE IInv
  OBVIOUS
<1>1. TypeOK
  BY SettingsTypes DEF Init, TypeOK, Settings
<1>2. GapRuns /\ PingRuns /\ SleepRuns /\ AttemptsBackOff
  BY SettingsTypes DEF Init, GapRuns, PingRuns, SleepRuns, AttemptsBackOff
<1> QED
  BY <1>1, <1>2 DEF IInv

\* Every step of the loop, of the world and of time preserves the invariant.
LEMMA StepIInv == IInv /\ [Next]_vars => IInv'
<1> SUFFICES ASSUME IInv, [Next]_vars PROVE IInv'
  OBVIOUS
<1> USE SettingsTypes DEF IInv
<1>0. /\ timer \in Nat /\ backoff \in 1..ReconnectCap
      /\ quiet \in 0..Horizon /\ pingAge \in 0..Horizon /\ tryAge \in 0..Horizon
  BY DEF TypeOK, Settings
<1>1. CASE Tick
  <2> USE <1>1 DEF Tick
  <2>1. /\ Older(quiet) \in 0..Horizon /\ Older(pingAge) \in 0..Horizon /\ Older(tryAge) \in 0..Horizon
        /\ quiet' = quiet + 1 \/ (quiet' = Horizon /\ quiet = Horizon)
        /\ pingAge' = pingAge + 1 \/ (pingAge' = Horizon /\ pingAge = Horizon)
        /\ tryAge' = tryAge + 1 \/ (tryAge' = Horizon /\ tryAge = Horizon)
    BY <1>0, OlderIs
  <2>2. TypeOK'
    <3>1. \E x \in Settings : timer' \in 0..x
      BY <1>0 DEF TypeOK, Settings
    <3> QED
      BY <2>1, <3>1 DEF TypeOK
  <2>3. GapRuns'
    BY <1>0, <2>1 DEF GapRuns
  <2>4. PingRuns'
    BY <1>0, <2>1 DEF PingRuns
  <2>5. SleepRuns'
    BY <1>0, <2>1 DEF SleepRuns
  <2>6. AttemptsBackOff'
    BY <1>0, <2>1 DEF AttemptsBackOff
  <2> QED
    BY <2>2, <2>3, <2>4, <2>5, <2>6
<1>2. CASE Connect
  <2> USE <1>2 DEF Connect
  <2>1. 0 \in 0..Horizon
    OBVIOUS
  <2>2. TypeOK'
    BY <2>1, WaitIs DEF TypeOK
  <2>3. GapRuns'
    BY <2>1, WaitIs DEF GapRuns
  <2>4. PingRuns'
    BY <2>1, WaitIs DEF PingRuns
  <2> QED
    BY <2>2, <2>3, <2>4 DEF SleepRuns, AttemptsBackOff
<1>3. CASE OpenFails \/ LinkFails
  <2> USE <1>3 DEF OpenFails, LinkFails, Sleeps
  <2>1. TypeOK'
    <3>1. \E x \in Settings : timer' \in 0..x
      BY <1>0 DEF Settings
    <3> QED
      BY <1>0, <3>1 DEF TypeOK, linkVars
  <2>2. SleepRuns'
    BY <1>0 DEF SleepRuns
  <2> QED
    BY <2>1, <2>2 DEF GapRuns, PingRuns, AttemptsBackOff
<1>4. CASE Wakes
  <2> USE <1>4 DEF Wakes
  <2>1. backoff' = IF 2 * backoff <= ReconnectCap THEN 2 * backoff ELSE ReconnectCap
    BY <1>0, MinOfTwo
  <2>2. TypeOK'
    <3>1. \E x \in Settings : timer' \in 0..x
      BY DEF Settings
    <3> QED
      BY <1>0, <2>1, <3>1 DEF TypeOK, linkVars
  <2>3. AttemptsBackOff'
    BY <1>0, <2>1 DEF AttemptsBackOff, SleepRuns
  <2> QED
    BY <2>2, <2>3 DEF GapRuns, PingRuns, SleepRuns
<1>5. CASE Cancelled
  BY <1>5 DEF Cancelled, TypeOK, linkVars, GapRuns, PingRuns, SleepRuns, AttemptsBackOff
<1>6. CASE RecvTimesOut /\ feed = "bybit"
  <2> USE <1>6 DEF RecvTimesOut, BybitTimeout
  <2>1. pingAge >= Heartbeat
    BY <1>0 DEF PingRuns
  <2>2. pingAge' = 0 /\ timer' = Wait(0)
    BY <2>1
  <2>3. TypeOK'
    BY <1>0, <2>2, WaitIs DEF TypeOK
  <2>4. PingRuns'
    BY <1>0, <2>2, WaitIs DEF PingRuns
  <2> QED
    BY <2>3, <2>4 DEF GapRuns, SleepRuns, AttemptsBackOff
<1>7. CASE RecvTimesOut /\ feed # "bybit"
  <2> USE <1>7 DEF RecvTimesOut, Reconnects
  <2>1. TypeOK'
    <3>1. \E x \in Settings : timer' \in 0..x
      BY DEF Settings
    <3> QED
      BY <1>0, <3>1 DEF TypeOK, linkVars
  <2>2. AttemptsBackOff'
    BY <1>0 DEF AttemptsBackOff, GapRuns
  <2> QED
    BY <2>1, <2>2 DEF GapRuns, PingRuns, SleepRuns
<1>8. CASE Receive
  <2> USE <1>8 DEF Receive
  <2>1. TypeOK'
    BY <1>0, WaitIs DEF TypeOK
  <2>2. GapRuns'
    BY <1>0, WaitIs DEF GapRuns
  <2>3. PingRuns'
    BY <1>0, WaitIs DEF PingRuns
  <2> QED
    BY <2>1, <2>2, <2>3 DEF SleepRuns, AttemptsBackOff
<1>9. CASE UNCHANGED vars
  BY <1>9 DEF vars, TypeOK, GapRuns, PingRuns, SleepRuns, AttemptsBackOff
<1> QED
  BY <1>1, <1>2, <1>3, <1>4, <1>5, <1>6, <1>7, <1>8, <1>9 DEF Next

LEMMA AlwaysIInv == Spec => []IInv
<1> QED
  BY InitIInv, StepIInv, PTL DEF Spec

\* The types of the loop's variables, its backoff within the cap among them.
THEOREM AdapterTypeCorrect == Spec => []TypeOK
<1>1. IInv => TypeOK
  BY DEF IInv
<1> QED
  BY <1>1, AlwaysIInv, PTL

\* _recv_loop of all but Bybit: whatever the gap timeout and the traffic, no
\* link is kept that has been silent for longer.
THEOREM SilentLinksAreDropped == Spec => []SilentLinkDropped
<1>1. IInv => SilentLinkDropped
  <2> SUFFICES ASSUME IInv PROVE SilentLinkDropped
    OBVIOUS
  <2>1. timer \in Nat /\ quiet \in Int
    BY SettingsTypes DEF IInv, TypeOK, Settings
  <2> QED
    BY <2>1, SettingsTypes DEF IInv, GapRuns, SilentLinkDropped
<1> QED
  BY <1>1, AlwaysIInv, PTL

\* Bybit's _recv_loop: for every heartbeat a ping is overdue only under traffic.
THEOREM PingsAreLateUnderTrafficOnly == Spec => []LatePingMeansTraffic
<1>1. IInv => LatePingMeansTraffic
  <2> SUFFICES ASSUME IInv PROVE LatePingMeansTraffic
    OBVIOUS
  <2>1. timer \in Nat /\ quiet \in Int /\ pingAge \in Int
    BY SettingsTypes DEF IInv, TypeOK, Settings
  <2> QED
    BY <2>1, SettingsTypes DEF IInv, PingRuns, LatePingMeansTraffic
<1> QED
  BY <1>1, AlwaysIInv, PTL

\* run(): for every cap and timeout no attempt to connect follows the one
\* before it at once, or sooner than half the present backoff.
THEOREM AttemptsAlwaysBackOff == Spec => []AttemptsBackOff
<1>1. IInv => AttemptsBackOff
  BY DEF IInv
<1> QED
  BY <1>1, AlwaysIInv, PTL
=============================================================================

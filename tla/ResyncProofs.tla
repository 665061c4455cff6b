---------------------------- MODULE ResyncProofs ----------------------------
(***************************************************************************)
(* Proofs about Resync, for every bound, weight limit and age of answers:  *)
(* the start task, the answer and the machine's state stay in step,        *)
(* whatever is lost or rejected in between; and start() makes the machine  *)
(* LIVE when the buffer spans the answer's id, and never otherwise than    *)
(* from a buffer on both sides of it.                                      *)
(***************************************************************************)
EXTENDS Resync, SequenceTheorems, WellFoundedInduction, TLAPS

\* Ageing changes no event's shape and loses none.
LEMMA OlderAre ==
    ASSUME NEW s \in Seq(Events)
    PROVE  /\ OlderEvents(s) \in Seq(Events) /\ Len(OlderEvents(s)) = Len(s)
           /\ \A i \in 1..Len(s) : /\ OlderEvents(s)[i].first = s[i].first + 1
                                   /\ OlderEvents(s)[i].last = s[i].last + 1
<1>1. Len(s) \in Nat /\ DOMAIN s = 1..Len(s)
  OBVIOUS
<1>2. ASSUME NEW i \in 1..Len(s)
      PROVE  [first |-> s[i].first + 1, last |-> s[i].last + 1] \in Events
  <2>1. s[i] \in Events
    OBVIOUS
  <2> QED
    BY <2>1 DEF Events, Ages
<1>3. OlderEvents(s) \in [1..Len(s) -> Events]
  BY <1>1, <1>2 DEF OlderEvents
<1>4. \A i \in 1..Len(s) : OlderEvents(s)[i] = [first |-> s[i].first + 1, last |-> s[i].last + 1]
  BY <1>1 DEF OlderEvents
<1> QED
  BY <1>1, <1>3, <1>4, SeqDef

\* The events of a sequence, its ends among them, in numbers.
LEMMA EventAges ==
    ASSUME NEW s \in Seq(Events)
    PROVE  /\ Len(s) \in Nat /\ DOMAIN s = 1..Len(s)
           /\ \A i \in 1..Len(s) : s[i] \in Events /\ s[i].first \in Nat /\ s[i].last \in Nat
           /\ s # <<>> => /\ Len(s) > 0 /\ 1 \in 1..Len(s) /\ Len(s) \in 1..Len(s)
                          /\ Head(s) = s[1] /\ Last(s) = s[Len(s)]
                          /\ Tail(s) \in Seq(Events) /\ Len(Tail(s)) = Len(s) - 1
                          /\ \A i \in 1..Len(Tail(s)) : Tail(s)[i] = s[i + 1]
<1>1. \A e \in Events : e.first \in Nat /\ e.last \in Nat
  BY DEF Events, Ages
<1>2. Len(s) \in Nat /\ DOMAIN s = 1..Len(s)
  OBVIOUS
<1>3. \A i \in 1..Len(s) : s[i] \in Events
  OBVIOUS
<1>4. ASSUME s # <<>>
      PROVE  /\ Len(s) > 0 /\ 1 \in 1..Len(s) /\ Len(s) \in 1..Len(s)
             /\ Head(s) = s[1] /\ Last(s) = s[Len(s)]
             /\ Tail(s) \in Seq(Events) /\ Len(Tail(s)) = Len(s) - 1
             /\ \A i \in 1..Len(Tail(s)) : Tail(s)[i] = s[i + 1]
  BY <1>4 DEF Last
<1> QED
  BY <1>1, <1>2, <1>3, <1>4

----------------------------------------------------------------------------
(* Types *)

\* What start() leaves behind is in step.
LEMMA StartEndsTypeOK ==
    ASSUME TypeOK, NEW st \in {"BUFFERING", "SYNCING", "LIVE"}, NEW u \in Ages \cup {None},
           u # None => st = "LIVE", StartEnds(st, u)
    PROVE  TypeOK'
<1>1. <<>> \in Seq(Events) /\ Len(<<>>) = 0 /\ MaxBuffer \in Nat
  BY ResyncAssumption
<1> QED
  BY <1>1 DEF TypeOK, StartEnds, streamVars

\* The type invariant is inductive.
LEMMA TypeStep == TypeOK /\ [Next]_vars => TypeOK'
<1> SUFFICES ASSUME TypeOK, [Next]_vars PROVE TypeOK'
  OBVIOUS
<1>0. /\ {MaxLag, WeightLimit, MaxUsed, MaxStep, MaxFlight, MaxBuffer, MaxAge} \subseteq Nat
      /\ used \in Nat /\ None \notin Nat
  BY ResyncAssumption DEF TypeOK
<1>a. Paid \in 0..MaxUsed
  BY <1>0 DEF Paid, TypeOK
<1>b. flight \in Seq(Events) /\ buffer \in Seq(Events) /\ MaxFlight \in Nat /\ MaxBuffer \in Nat
  BY <1>0 DEF TypeOK
<1>c. flight # <<>> => /\ Head(flight) \in Events /\ Head(flight).last \in Ages
                       /\ Tail(flight) \in Seq(Events) /\ Len(Tail(flight)) <= MaxFlight
  <2> SUFFICES ASSUME flight # <<>>
               PROVE  /\ Head(flight) \in Events /\ Head(flight).last \in Ages
                      /\ Tail(flight) \in Seq(Events) /\ Len(Tail(flight)) <= MaxFlight
    OBVIOUS
  <2>1. /\ Head(flight) = flight[1] /\ flight[1] \in Events /\ flight[1].last \in Nat
        /\ Tail(flight) \in Seq(Events) /\ Len(Tail(flight)) = Len(flight) - 1 /\ Len(flight) \in Nat
    BY <1>b, EventAges
  <2> QED
    BY <1>b, <2>1 DEF TypeOK, Ages
<1>1. CASE Publish
  <2>1. /\ buffer' \in Seq(Events) /\ Len(buffer') = Len(buffer)
        /\ flight' \in Seq(Events) /\ Len(flight') = Len(flight)
    BY <1>1, <1>b, OlderAre DEF Publish
  <2>2. \A id \in Ages \cup {None} : Older(id) \in Ages \cup {None} /\ (Older(id) = None <=> id = None)
    BY <1>0 DEF Older, Ages
  <2>3. seed' = Older(seed) /\ prevU' = Older(prevU) /\ unsent' \in 0..MaxStep
    BY <1>0, <1>1 DEF Publish, TypeOK
  <2>4. buffer = <<>> => buffer' = <<>>
    BY <2>1, <1>b, EmptySeq
  <2> QED
    BY <1>1, <2>1, <2>2, <2>3, <2>4 DEF TypeOK, Publish
<1>2. CASE Send
  <2> DEFINE e == [first |-> unsent - 1, last |-> 0]
  <2>1. unsent - 1 \in Nat
    BY <1>0, <1>2 DEF TypeOK, Send
  <2>2. e \in Events
    BY <2>1 DEF Events, Ages
  <2>3. flight' = Append(flight, e) /\ unsent' = 0 /\ Len(flight) < MaxFlight
    BY <1>2 DEF Send
  <2> HIDE DEF e
  <2>4. flight' \in Seq(Events) /\ Len(flight') <= MaxFlight
    BY <1>b, <2>2, <2>3
  <2> QED
    BY <1>0, <1>2, <2>3, <2>4 DEF TypeOK, Send, machineVars, taskVars
<1>3. CASE Lose
  BY <1>0, <1>3 DEF TypeOK, Lose, machineVars, taskVars
<1>4. CASE MinutePasses
  BY <1>0, <1>4 DEF TypeOK, MinutePasses, streamVars, machineVars, taskVars
<1>5. CASE Buffered
  <2>1. buffer' \in Seq(Events) /\ Len(buffer') <= MaxBuffer
    BY <1>5, <1>b, <1>c DEF Buffered
  <2> QED
    BY <1>5, <1>c, <2>1 DEF TypeOK, Buffered, TaskAfterDepth
<1>6. CASE Applied
  BY <1>6, <1>c DEF TypeOK, Applied, TaskAfterDepth
<1>7. CASE Breaks
  <2>1. <<>> \in Seq(Events) /\ Len(<<>>) = 0
    OBVIOUS
  <2> QED
    BY <1>7, <1>b, <1>c, <2>1 DEF TypeOK, Breaks, TaskAfterDepth
<1>8. CASE FetchAnswered
  <2>1. 0..MaxLag \subseteq Ages
    BY <1>0 DEF Ages
  <2> QED
    BY <1>8, <1>0, <1>a, <2>1 DEF TypeOK, FetchAnswered, streamVars, machineVars, Ages
<1>9. CASE FetchFails \/ FetchRetries \/ OtherRequests \/ LoadRaises
  BY <1>9, <1>a
  DEF TypeOK, FetchFails, FetchRetries, OtherRequests, LoadRaises, streamVars, machineVars, taskVars
<1>10. CASE Resume \/ ResumeRejected
  <2>1. ASSUME NEW i \in DOMAIN buffer, Anchor(i) PROVE Last(buffer).last \in Ages
    <3>1. DOMAIN buffer = 1..Len(buffer) /\ buffer # <<>>
      BY <1>b, <2>1, EventAges
    <3> QED
      BY <1>b, <3>1, EventAges DEF Ages
  <2>2. \/ StartEnds("SYNCING", None) \/ StartEnds("BUFFERING", None) \/ StartEnds("LIVE", None)
        \/ \E i \in DOMAIN buffer : Anchor(i) /\ StartEnds("LIVE", Last(buffer).last)
    BY <1>10 DEF Resume, ResumeRejected
  <2> QED
    BY <2>1, <2>2, StartEndsTypeOK
<1>11. CASE UNCHANGED vars
  BY <1>11 DEF TypeOK, vars, streamVars, machineVars, taskVars
<1> QED
  BY <1>1, <1>2, <1>3, <1>4, <1>5, <1>6, <1>7, <1>8, <1>9, <1>10, <1>11 DEF Next

LEMMA TypeStart == Init => TypeOK
<1>1. <<>> \in Seq(Events) /\ Len(<<>>) = 0
  OBVIOUS
<1> QED
  BY <1>1, ResyncAssumption DEF Init, TypeOK

\* The start task, the answer it waits for, the machine's state and the id it
\* compares with stay in step: snapshot.py's start(), on_depth_event() and
\* restart() with capture.py's _on_depth between them.
THEOREM ResyncTypeCorrect == Spec => []TypeOK
<1> QED
  BY TypeStart, TypeStep, PTL DEF Spec
----------------------------------------------------------------------------
(* What is buffered, on its way and still unsent is in the order of its ids,
   whatever is lost between. *)

Ordered(s) ==
    \A i \in 1..Len(s) : /\ s[i].first >= s[i].last
                         /\ \A j \in (i + 1)..Len(s) : s[j].first < s[i].last

StreamInv ==
    /\ Ordered(flight) /\ Ordered(buffer)
    /\ \A i \in 1..Len(buffer), j \in 1..Len(flight) : flight[j].first < buffer[i].last
    /\ \A i \in 1..Len(flight) : flight[i].last >= unsent
    /\ \A i \in 1..Len(buffer) : buffer[i].last >= unsent

IInv == TypeOK /\ StreamInv

\* Without its first event a sequence is still in order.
LEMMA TailOrdered ==
    ASSUME NEW s \in Seq(Events), s # <<>>, Ordered(s) PROVE Ordered(Tail(s))
<1>1. /\ Len(s) \in Nat /\ Len(Tail(s)) = Len(s) - 1
      /\ \A i \in 1..Len(Tail(s)) : Tail(s)[i] = s[i + 1]
  BY EventAges
<1>2. \A i \in 1..Len(Tail(s)) : i + 1 \in 1..Len(s)
  BY <1>1
<1>3. \A i \in 1..Len(Tail(s)), j \in 1..Len(Tail(s)) : j > i => j + 1 \in (i + 2)..Len(s)
  BY <1>1
<1> SUFFICES ASSUME NEW i \in 1..Len(Tail(s))
             PROVE  /\ Tail(s)[i].first >= Tail(s)[i].last
                    /\ \A j \in (i + 1)..Len(Tail(s)) : Tail(s)[j].first < Tail(s)[i].last
  BY DEF Ordered
<1>4. /\ s[i + 1].first >= s[i + 1].last
      /\ \A j \in (i + 2)..Len(s) : s[j].first < s[i + 1].last
  <2>1. (i + 1) + 1 = i + 2
    OBVIOUS
  <2> QED
    BY <1>2, <2>1 DEF Ordered
<1>5. \A j \in (i + 1)..Len(Tail(s)) : j \in 1..Len(Tail(s)) /\ j > i
  BY <1>1
<1> QED
  BY <1>1, <1>3, <1>4, <1>5

\* A sequence stays in order when an event after all of its events is added.
LEMMA AppendOrdered ==
    ASSUME NEW s \in Seq(Events), NEW e \in Events, Ordered(s), e.first >= e.last,
           \A i \in 1..Len(s) : e.first < s[i].last
    PROVE  Ordered(Append(s, e))
<1> DEFINE t == Append(s, e)
<1>1. /\ Len(s) \in Nat /\ Len(t) = Len(s) + 1 /\ t[Len(s) + 1] = e
      /\ \A i \in 1..Len(s) : t[i] = s[i]
  OBVIOUS
<1> HIDE DEF t
<1>2. ASSUME NEW i \in 1..Len(t)
      PROVE  /\ t[i].first >= t[i].last
             /\ \A j \in (i + 1)..Len(t) : t[j].first < t[i].last
  <2>1. CASE i = Len(s) + 1
    <3>1. (i + 1)..Len(t) = {}
      BY <1>1, <2>1
    <3> QED
      BY <1>1, <2>1, <3>1
  <2>2. CASE i \in 1..Len(s)
    <3>1. ASSUME NEW j \in (i + 1)..Len(t) PROVE j \in (i + 1)..Len(s) \/ j = Len(s) + 1
      BY <1>1
    <3> QED
      BY <1>1, <2>2, <3>1 DEF Ordered
  <2> QED
    BY <1>1, <2>1, <2>2
<1> QED
  BY <1>2 DEF Ordered, t

\* All events one older are in order as they were.
LEMMA OlderOrdered ==
    ASSUME NEW s \in Seq(Events), Ordered(s) PROVE Ordered(OlderEvents(s))
<1>1. /\ Len(s) \in Nat /\ Len(OlderEvents(s)) = Len(s)
      /\ \A i \in 1..Len(s) : /\ OlderEvents(s)[i].first = s[i].first + 1
                              /\ OlderEvents(s)[i].last = s[i].last + 1
                              /\ s[i].first \in Nat /\ s[i].last \in Nat
  BY OlderAre, EventAges
<1> SUFFICES ASSUME NEW i \in 1..Len(s)
             PROVE  /\ OlderEvents(s)[i].first >= OlderEvents(s)[i].last
                    /\ \A j \in (i + 1)..Len(s) : OlderEvents(s)[j].first < OlderEvents(s)[i].last
  BY <1>1 DEF Ordered
<1>2. /\ s[i].first >= s[i].last
      /\ \A j \in (i + 1)..Len(s) : s[j].first < s[i].last /\ j \in 1..Len(s)
  BY <1>1 DEF Ordered
<1> QED
  BY <1>1, <1>2

\* Every step keeps the order.
LEMMA StreamStep == IInv /\ [Next]_vars => StreamInv'
<1> SUFFICES ASSUME IInv, [Next]_vars PROVE StreamInv'
  OBVIOUS
<1> USE DEF IInv
<1>1. /\ flight \in Seq(Events) /\ buffer \in Seq(Events) /\ unsent \in Nat
      /\ Ordered(flight) /\ Ordered(buffer) /\ Len(flight) \in Nat /\ Len(buffer) \in Nat
      /\ \A i \in 1..Len(flight) : flight[i].first \in Nat /\ flight[i].last \in Nat
      /\ \A i \in 1..Len(buffer) : buffer[i].first \in Nat /\ buffer[i].last \in Nat
  BY EventAges, ResyncAssumption DEF TypeOK, StreamInv
<1>2. Ordered(<<>>) /\ 1..Len(<<>>) = {}
  BY DEF Ordered
<1>3. ASSUME flight # <<>>
      PROVE  /\ Ordered(Tail(flight)) /\ Head(flight) = flight[1] /\ 1 \in 1..Len(flight)
             /\ \A i \in 1..Len(Tail(flight)) : Tail(flight)[i] = flight[i + 1] /\ i + 1 \in 1..Len(flight)
                                                /\ i + 1 \in 2..Len(flight)
  <2>1. /\ Ordered(Tail(flight)) /\ Head(flight) = flight[1] /\ 1 \in 1..Len(flight)
        /\ Len(Tail(flight)) = Len(flight) - 1
        /\ \A i \in 1..Len(Tail(flight)) : Tail(flight)[i] = flight[i + 1]
    BY <1>1, <1>3, TailOrdered, EventAges
  <2>2. \A i \in 1..Len(Tail(flight)) : i + 1 \in 1..Len(flight) /\ i + 1 \in 2..Len(flight)
    BY <1>1, <2>1
  <2> QED
    BY <2>1, <2>2
<1>a. CASE Publish
  <2>1. /\ flight' = OlderEvents(flight) /\ buffer' = OlderEvents(buffer) /\ unsent' = unsent + 1
    BY <1>a DEF Publish
  <2>2. Ordered(flight)' /\ Ordered(buffer)'
    <3>1. Ordered(flight') /\ Ordered(buffer')
      BY <1>1, <2>1, OlderOrdered
    <3> QED
      BY <3>1 DEF Ordered
  <2>3. /\ Len(flight') = Len(flight) /\ Len(buffer') = Len(buffer)
        /\ \A i \in 1..Len(flight) : /\ flight'[i].first = flight[i].first + 1
                                     /\ flight'[i].last = flight[i].last + 1
        /\ \A i \in 1..Len(buffer) : buffer'[i].last = buffer[i].last + 1
    BY <1>1, <2>1, OlderAre
  <2>4. /\ \A i \in 1..Len(buffer), j \in 1..Len(flight) : flight[j].first < buffer[i].last
        /\ \A i \in 1..Len(flight) : flight[i].last >= unsent
        /\ \A i \in 1..Len(buffer) : buffer[i].last >= unsent
    BY DEF StreamInv
  <2>5. /\ \A i \in 1..Len(buffer'), j \in 1..Len(flight') : flight'[j].first < buffer'[i].last
        /\ \A i \in 1..Len(flight') : flight'[i].last >= unsent'
        /\ \A i \in 1..Len(buffer') : buffer'[i].last >= unsent'
    <3>1. ASSUME NEW i \in 1..Len(buffer), NEW j \in 1..Len(flight)
          PROVE  flight'[j].first < buffer'[i].last
      <4>1. /\ flight[j].first \in Nat /\ buffer[i].last \in Nat /\ flight[j].first < buffer[i].last
            /\ flight'[j].first = flight[j].first + 1 /\ buffer'[i].last = buffer[i].last + 1
        BY <1>1, <2>3, <2>4
      <4> QED
        BY <4>1
    <3>2. ASSUME NEW i \in 1..Len(flight) PROVE flight'[i].last >= unsent'
      <4>1. flight[i].last \in Nat /\ flight[i].last >= unsent /\ flight'[i].last = flight[i].last + 1
        BY <1>1, <2>3, <2>4
      <4> QED
        BY <1>1, <2>1, <4>1
    <3>3. ASSUME NEW i \in 1..Len(buffer) PROVE buffer'[i].last >= unsent'
      <4>1. buffer[i].last \in Nat /\ buffer[i].last >= unsent /\ buffer'[i].last = buffer[i].last + 1
        BY <1>1, <2>3, <2>4
      <4> QED
        BY <1>1, <2>1, <4>1
    <3> QED
      BY <2>3, <3>1, <3>2, <3>3
  <2> QED
    BY <2>2, <2>5 DEF StreamInv
<1>b. CASE Send
  <2> DEFINE e == [first |-> unsent - 1, last |-> 0]
  <2>1. flight' = Append(flight, e) /\ unsent' = 0 /\ buffer' = buffer /\ unsent > 0
    BY <1>b DEF Send, machineVars
  <2>2. e \in Events /\ e.first = unsent - 1 /\ e.last = 0 /\ e.first >= e.last
    BY <1>1, <2>1 DEF Events, Ages
  <2> HIDE DEF e
  <2>3. /\ \A i \in 1..Len(flight) : e.first < flight[i].last
        /\ \A i \in 1..Len(buffer) : e.first < buffer[i].last
    BY <1>1, <2>1, <2>2 DEF StreamInv
  <2>4. Ordered(flight')
    BY <1>1, <2>1, <2>2, <2>3, AppendOrdered
  <2>5. /\ Len(flight') = Len(flight) + 1 /\ flight'[Len(flight) + 1] = e
        /\ \A i \in 1..Len(flight) : flight'[i] = flight[i]
    BY <1>1, <2>1, <2>2
  <2>6. \A j \in 1..Len(flight') : (j \in 1..Len(flight) /\ flight'[j] = flight[j]) \/ flight'[j] = e
    BY <1>1, <2>5
  <2>7. /\ \A i \in 1..Len(buffer), j \in 1..Len(flight') : flight'[j].first < buffer[i].last
        /\ \A j \in 1..Len(flight') : flight'[j].last >= 0
        /\ \A i \in 1..Len(buffer) : buffer[i].last >= 0
    <3>1. ASSUME NEW i \in 1..Len(buffer), NEW j \in 1..Len(flight')
          PROVE  flight'[j].first < buffer[i].last
      <4>1. CASE flight'[j] = e
        BY <2>3, <4>1
      <4>2. CASE j \in 1..Len(flight) /\ flight'[j] = flight[j]
        BY <4>2 DEF StreamInv
      <4> QED
        BY <2>6, <4>1, <4>2
    <3>2. ASSUME NEW j \in 1..Len(flight') PROVE flight'[j].last >= 0
      <4>1. CASE flight'[j] = e
        BY <2>2, <4>1
      <4>2. CASE j \in 1..Len(flight) /\ flight'[j] = flight[j]
        <5>1. flight[j].last \in Nat
          BY <1>1, <4>2
        <5> QED
          BY <4>2, <5>1
      <4> QED
        BY <2>6, <4>1, <4>2
    <3>3. ASSUME NEW i \in 1..Len(buffer) PROVE buffer[i].last >= 0
      <4>1. buffer[i].last \in Nat
        BY <1>1
      <4> QED
        BY <4>1
    <3> QED
      BY <3>1, <3>2, <3>3
  <2> QED
    BY <2>1, <2>4, <2>7, <1>1 DEF StreamInv, Ordered
<1>c. CASE Lose
  <2>1. unsent' = 0 /\ flight' = flight /\ buffer' = buffer
    BY <1>c DEF Lose, machineVars
  <2> QED
    BY <1>1, <2>1 DEF StreamInv, Ordered
<1>d. CASE Buffered
  <2> DEFINE e == Head(flight)
  <2>1. /\ flight # <<>> /\ buffer' = Append(buffer, e) /\ flight' = Tail(flight) /\ unsent' = unsent
    BY <1>d DEF Buffered
  <2>2. e = flight[1] /\ e \in Events /\ e.first >= e.last /\ 1 \in 1..Len(flight)
    BY <1>1, <1>3, <2>1 DEF Ordered
  <2> HIDE DEF e
  <2>3. Ordered(buffer')
    BY <1>1, <2>1, <2>2, AppendOrdered DEF StreamInv
  <2>4. /\ \A j \in 1..Len(flight') : flight'[j].first < e.last
        /\ \A j \in 1..Len(flight') : flight'[j] = flight[j + 1] /\ j + 1 \in 1..Len(flight)
    <3>1. \A j \in 2..Len(flight) : flight[j].first < flight[1].last
      <4>1. 1 + 1 = 2
        OBVIOUS
      <4> QED
        BY <2>2, <4>1 DEF Ordered, StreamInv
    <3> QED
      BY <1>3, <2>1, <2>2, <3>1
  <2>5. \A i \in 1..Len(buffer') : (i \in 1..Len(buffer) /\ buffer'[i] = buffer[i]) \/ buffer'[i] = e
    BY <1>1, <2>1, <2>2
  <2>6. /\ \A i \in 1..Len(buffer'), j \in 1..Len(flight') : flight'[j].first < buffer'[i].last
        /\ \A j \in 1..Len(flight') : flight'[j].last >= unsent
        /\ \A i \in 1..Len(buffer') : buffer'[i].last >= unsent
    BY <2>2, <2>4, <2>5 DEF StreamInv
  <2>7. Ordered(flight')
    BY <1>3, <2>1
  <2> QED
    BY <2>1, <2>3, <2>6, <2>7 DEF StreamInv, Ordered
<1>e. CASE Applied \/ Breaks
  <2>1. flight # <<>> /\ flight' = Tail(flight) /\ buffer' = <<>> /\ unsent' = unsent
    BY <1>e DEF Applied, Breaks, TypeOK
  <2>2. Ordered(flight') /\ Ordered(buffer') /\ 1..Len(buffer') = {}
    BY <1>2, <1>3, <2>1
  <2>3. \A j \in 1..Len(flight') : flight'[j].last >= unsent
    BY <1>3, <2>1 DEF StreamInv
  <2> QED
    BY <2>1, <2>2, <2>3 DEF StreamInv, Ordered
<1>f. CASE Resume \/ ResumeRejected
  <2>1. flight' = flight /\ buffer' = <<>> /\ unsent' = unsent
    BY <1>f DEF Resume, ResumeRejected, StartEnds, streamVars
  <2>2. Ordered(buffer') /\ 1..Len(buffer') = {}
    BY <1>2, <2>1
  <2> QED
    BY <2>1, <2>2 DEF StreamInv, Ordered
<1>g. CASE \/ MinutePasses \/ FetchAnswered \/ FetchFails \/ FetchRetries \/ OtherRequests
           \/ LoadRaises \/ UNCHANGED vars
  <2>1. UNCHANGED <<flight, buffer, unsent>>
    BY <1>g DEF MinutePasses, FetchAnswered, FetchFails, FetchRetries, OtherRequests, LoadRaises,
                vars, streamVars, machineVars
  <2> QED
    BY <2>1 DEF StreamInv, Ordered
<1> QED
  BY <1>a, <1>b, <1>c, <1>d, <1>e, <1>f, <1>g DEF Next

\* Types and order, inductively.
LEMMA AlwaysIInv == Spec => []IInv
<1>1. Init => StreamInv
  <2>1. Len(<<>>) = 0 /\ 1..0 = {}
    OBVIOUS
  <2> QED
    BY <2>1 DEF Init, StreamInv, Ordered
<1>2. Init => IInv
  BY <1>1, TypeStart DEF IInv
<1>3. IInv /\ [Next]_vars => IInv'
  BY TypeStep, StreamStep DEF IInv
<1> QED
  BY <1>2, <1>3, PTL DEF Spec

----------------------------------------------------------------------------
(* The anchor *)

\* A set of numbers has a least one.
LEMMA Least ==
    ASSUME NEW T \in SUBSET Nat, NEW t \in T
    PROVE  \E m \in T : \A k \in T : m <= k
<1> DEFINE R == {p \in Nat \X Nat : p[1] < p[2]}
<1>1. IsWellFoundedOn(R, Nat)
  BY NatLessThanWellFounded DEF OpToRel
<1> HIDE DEF R
<1>2. PICK m \in T : \A k \in T : ~(<<k, m>> \in R)
  BY <1>1, WFMin
<1>3. ASSUME NEW k \in T PROVE m <= k
  <2>1. m \in Nat /\ k \in Nat
    OBVIOUS
  <2>2. ~(k < m)
    BY <1>2, <2>1 DEF R
  <2> QED
    BY <2>1, <2>2
<1> QED
  BY <1>3

\* In a buffer that spans the answer's id one event bridges it: the first one
\* past it.
LEMMA SpansHasAnchor ==
    ASSUME IInv, task = "answered", Spans
    PROVE  \E i \in DOMAIN buffer : Anchor(i)
<1>1. /\ seed \in Nat /\ buffer \in Seq(Events) /\ None \notin Nat
      /\ DOMAIN buffer = 1..Len(buffer) /\ Len(buffer) \in Nat /\ Len(buffer) \in 1..Len(buffer)
      /\ \A i \in 1..Len(buffer) : buffer[i].first \in Nat /\ buffer[i].last \in Nat
      /\ Head(buffer) = buffer[1] /\ Last(buffer) = buffer[Len(buffer)]
  BY EventAges, ResyncAssumption DEF IInv, TypeOK, Spans, Ages
<1> DEFINE T == {i \in 1..Len(buffer) : buffer[i].last < seed}
<1>2. T \in SUBSET Nat /\ Len(buffer) \in T
  BY <1>1 DEF Spans, Reaches
<1>3. PICK m \in T : \A k \in T : m <= k
  BY <1>2, Least
<1>4. m \in 1..Len(buffer) /\ buffer[m].last < seed
  BY <1>3
<1>5. ASSUME NEW j \in 1..(m - 1) PROVE j \in 1..Len(buffer) /\ buffer[j].last >= seed
  <2>1. j \in 1..Len(buffer) /\ ~(m <= j)
    BY <1>1, <1>4
  <2>2. j \notin T
    BY <1>3, <2>1
  <2> QED
    BY <1>1, <2>1, <2>2
<1>6. buffer[m].first + 1 >= seed
  <2>1. CASE m = 1
    BY <1>1, <2>1 DEF Spans, Reaches
  <2>2. CASE m # 1
    <3>1. m - 1 \in 1..(m - 1) /\ m - 1 \in 1..(Len(buffer) - 1) /\ (m - 1) + 1 = m
      BY <1>1, <1>4, <2>2
    <3>2. buffer[m - 1].last >= seed /\ buffer[m - 1].last \in Nat
      BY <1>1, <1>5, <3>1
    <3>3. Follows(buffer[m], buffer[m - 1].last)
      BY <3>1 DEF Spans, Unbroken
    <3> QED
      BY <1>1, <3>2, <3>3 DEF Follows
  <2> QED
    BY <2>1, <2>2
<1>7. Bridges(buffer[m])
  BY <1>1, <1>4, <1>6 DEF Bridges
<1>8. \A j \in 1..(m - 1) : ~Bridges(buffer[j])
  <2> TAKE j \in 1..(m - 1)
  <2>1. buffer[j].last >= seed /\ buffer[j].last \in Nat
    BY <1>1, <1>5
  <2> QED
    BY <1>1, <2>1 DEF Bridges
<1> QED
  BY <1>1, <1>4, <1>7, <1>8 DEF Anchor

\* A buffer with an anchor lies on both sides of the answer's id.
LEMMA AnchorReaches ==
    ASSUME IInv, task = "answered", NEW i \in DOMAIN buffer, Anchor(i)
    PROVE  buffer # <<>> /\ Reaches
<1>1. /\ seed \in Nat /\ buffer \in Seq(Events) /\ buffer # <<>> /\ i \in 1..Len(buffer)
      /\ Len(buffer) \in Nat /\ Len(buffer) \in 1..Len(buffer) /\ 1 \in 1..Len(buffer)
      /\ \A j \in 1..Len(buffer) : buffer[j].first \in Nat /\ buffer[j].last \in Nat
      /\ Head(buffer) = buffer[1] /\ Last(buffer) = buffer[Len(buffer)]
  BY EventAges, ResyncAssumption DEF IInv, TypeOK, Ages
<1>2. seed > 0 /\ buffer[i].first >= seed - 1 /\ seed - 1 >= buffer[i].last
  BY DEF Anchor, Bridges
<1>3. \A j \in 1..Len(buffer) : /\ buffer[j].first >= buffer[j].last
                                /\ \A k \in (j + 1)..Len(buffer) : buffer[k].first < buffer[j].last
  BY DEF IInv, StreamInv, Ordered
<1>4. buffer[1].first + 1 >= seed
  <2>1. CASE i = 1
    BY <1>1, <1>2, <2>1
  <2>2. CASE i # 1
    <3>1. i \in (1 + 1)..Len(buffer)
      BY <1>1, <2>2
    <3>2. buffer[i].first < buffer[1].last /\ buffer[1].last <= buffer[1].first
      BY <1>1, <1>3, <3>1
    <3> QED
      BY <1>1, <1>2, <3>2
  <2> QED
    BY <2>1, <2>2
<1>5. buffer[Len(buffer)].last < seed
  <2>1. CASE i = Len(buffer)
    BY <1>1, <1>2, <2>1
  <2>2. CASE i # Len(buffer)
    <3>1. Len(buffer) \in (i + 1)..Len(buffer)
      BY <1>1, <2>2
    <3>2. /\ buffer[Len(buffer)].first < buffer[i].last
          /\ buffer[Len(buffer)].last <= buffer[Len(buffer)].first
      BY <1>1, <1>3, <3>1
    <3> QED
      BY <1>1, <1>2, <3>2
  <2> QED
    BY <2>1, <2>2
<1> QED
  BY <1>1, <1>4, <1>5 DEF Reaches

\* Whatever is lost and however old the answer: an accepted buffer that spans
\* the answer's id makes the machine LIVE, and none does that is not on both
\* sides of it.
THEOREM SpannedBooksAreRebuilt == Spec => RebuiltWhenSpanned
<1>1. IInv /\ [Next]_vars
        => [ Resume => /\ Spans => state' = "LIVE"
                       /\ state' = "LIVE" => buffer # <<>> /\ Reaches ]_vars
  <2> SUFFICES ASSUME IInv, Resume
               PROVE  /\ Spans => state' = "LIVE"
                      /\ state' = "LIVE" => buffer # <<>> /\ Reaches
    OBVIOUS
  <2>1. task = "answered"
    BY DEF Resume
  <2>2. ASSUME Spans PROVE state' = "LIVE"
    <3>1. \E i \in DOMAIN buffer : Anchor(i)
      BY <2>1, <2>2, SpansHasAnchor
    <3>2. PICK i \in DOMAIN buffer :
             IF Unbroken(i) THEN StartEnds("LIVE", Last(buffer).last)
                            ELSE StartEnds("BUFFERING", None)
      BY <3>1 DEF Resume
    <3>3. i \in 1..Len(buffer) /\ Len(buffer) \in Nat
      BY EventAges DEF IInv, TypeOK
    <3>4. i..(Len(buffer) - 1) \subseteq 1..(Len(buffer) - 1)
      BY <3>3
    <3>5. Unbroken(i)
      BY <2>2, <3>4 DEF Spans, Unbroken
    <3> QED
      BY <3>2, <3>5 DEF StartEnds
  <2>3. ASSUME state' = "LIVE" PROVE buffer # <<>> /\ Reaches
    <3>1. PICK i \in DOMAIN buffer : Anchor(i)
      BY <2>3 DEF Resume, StartEnds
    <3> QED
      BY <2>1, <3>1, AnchorReaches
  <2> QED
    BY <2>2, <2>3
<1> QED
  BY <1>1, AlwaysIInv, PTL DEF Spec, RebuiltWhenSpanned
=============================================================================

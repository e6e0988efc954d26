---------------------------- MODULE LibraryProofs ----------------------------
(***************************************************************************)
(* What the library does for every service, for any number of queues,      *)
(* events, runners, migrations, connection attempts and outages: an event  *)
(* that a queue took is never dropped and is handled within a limit, and a *)
(* migration says what it found.                                           *)
(***************************************************************************)
EXTENDS Broker, Migrations, Integers, FiniteSetTheorems, SequenceTheorems,
        WellFoundedInduction, TLAPS

-----------------------------------------------------------------------------
\* The message broker

Copies == [event : Events, count : Nat]
InHand == [event : Events, count : Nat,
               at : {"handler", "answered", "stuck", "backoff", "dead"}]

BrokerTypes ==
    /\ published \subseteq Events
    /\ ready \in [Queues -> Seq(Copies)] /\ unacked \in [Queues -> Seq(InHand)]
    /\ handled \in [Queues -> SUBSET Events] /\ buried \in [Queues -> SUBSET Events]

\* Some copy, some delivery that is not answered, of the event.
Waits(q, e) == \E i \in DOMAIN ready[q] : ready[q][i].event = e
Open(q, e) == \E i \in DOMAIN unacked[q] : unacked[q][i].event = e /\ unacked[q][i].at # "answered"

LEMMA SeqHas ==
    ASSUME NEW S, NEW s \in Seq(S), NEW x \in S
    PROVE  /\ Append(s, x) \in Seq(S) /\ Len(Append(s, x)) = Len(s) + 1
           /\ DOMAIN s = 1..Len(s) /\ DOMAIN Append(s, x) = 1..(Len(s) + 1) /\ Len(s) \in Nat
           /\ \A i \in DOMAIN s : s[i] \in S /\ i \in DOMAIN Append(s, x) /\ Append(s, x)[i] = s[i]
           /\ Len(s) + 1 \in DOMAIN Append(s, x) /\ Append(s, x)[Len(s) + 1] = x
<1>1. DOMAIN s = 1..Len(s) /\ Len(s) \in Nat
    OBVIOUS
<1>2. /\ Append(s, x) \in Seq(S) /\ Len(Append(s, x)) = Len(s) + 1
      /\ \A i \in 1..Len(s) : Append(s, x)[i] = s[i]
      /\ Append(s, x)[Len(s) + 1] = x
    BY AppendProperties
<1>3. DOMAIN Append(s, x) = 1..(Len(s) + 1)
    BY <1>2
<1> QED BY <1>1, <1>2, <1>3

LEMMA FunctionIsSeq ==
    ASSUME NEW S, NEW n \in Nat, NEW f \in [1..n -> S]
    PROVE  f \in Seq(S) /\ Len(f) = n
OBVIOUS

\* A copy put on the topic waits in every queue.
LEMMA TopicReaches ==
    ASSUME BrokerTypes, NEW e \in Events, NEW n \in Nat, ready' = ToTopic(e, n)
    PROVE  /\ ready' \in [Queues -> Seq(Copies)]
           /\ \A q \in Queues : Waits(q, e)'
           /\ \A q \in Queues, f \in Events : Waits(q, f) => Waits(q, f)'
<1> DEFINE c == [event |-> e, count |-> n]
<1>1. c \in Copies /\ c.event = e
    BY DEF Copies
<1>2. ASSUME NEW q \in Queues
      PROVE  ready'[q] = Append(ready[q], c)
    BY <1>2 DEF ToTopic, Bindings
<1>3. ASSUME NEW q \in Queues
      PROVE  /\ ready'[q] \in Seq(Copies) /\ Waits(q, e)'
             /\ \A f \in Events : Waits(q, f) => Waits(q, f)'
  <2>1. ready[q] \in Seq(Copies)
      BY DEF BrokerTypes
  <2>2. /\ ready'[q] \in Seq(Copies)
        /\ \A i \in DOMAIN ready[q] : i \in DOMAIN ready'[q] /\ ready'[q][i] = ready[q][i]
        /\ Len(ready[q]) + 1 \in DOMAIN ready'[q] /\ ready'[q][Len(ready[q]) + 1] = c
    <3>1. ready'[q] = Append(ready[q], c) /\ c \in Copies
        BY <1>1, <1>2
    <3> HIDE DEF c
    <3> QED BY <2>1, <3>1, SeqHas
  <2>3. ready'[q][Len(ready[q]) + 1].event = e
      BY <2>2, <1>1
  <2>4. Waits(q, e)'
      BY <2>2, <2>3 DEF Waits
  <2>5. ASSUME NEW f \in Events, Waits(q, f) PROVE Waits(q, f)'
      BY <2>2, <2>5 DEF Waits
  <2> QED BY <2>2, <2>4, <2>5
<1>4. ready' = [q \in Queues |-> ready'[q]]
    BY DEF ToTopic
<1> QED BY <1>3, <1>4

LEMMA BrokerTypesInit == BrokerInit => BrokerTypes
<1> SUFFICES ASSUME BrokerInit PROVE BrokerTypes
    OBVIOUS
<1>1. <<>> \in Seq(Copies) /\ <<>> \in Seq(InHand)
    OBVIOUS
<1> QED BY <1>1 DEF BrokerInit, BrokerTypes

LEMMA BrokerTypesStep == BrokerTypes /\ [BrokerNext]_brokerVars => BrokerTypes'
<1> SUFFICES ASSUME BrokerTypes, [BrokerNext]_brokerVars PROVE BrokerTypes'
    OBVIOUS
<1>1. ASSUME NEW e \in Events, PublishEvent(e) PROVE BrokerTypes'
    BY <1>1, TopicReaches DEF PublishEvent, BrokerTypes
<1>2. ASSUME NEW q \in Queues, Deliver(q) PROVE BrokerTypes'
  <2>1. ready[q] \in Seq(Copies) /\ ready[q] # <<>>
      BY <1>2 DEF Deliver, BrokerTypes
  <2>2. Head(ready[q]) \in Copies /\ Tail(ready[q]) \in Seq(Copies)
      BY <2>1, HeadTailProperties
  <2>3. [event |-> Head(ready[q]).event, count |-> Head(ready[q]).count, at |-> "handler"]
            \in InHand
      BY <2>2 DEF Copies, InHand
  <2>4. Append(unacked[q], [event |-> Head(ready[q]).event, count |-> Head(ready[q]).count,
                            at |-> "handler"]) \in Seq(InHand)
      BY <2>3, AppendProperties DEF BrokerTypes
  <2> QED BY <1>2, <2>2, <2>4 DEF Deliver, BrokerTypes
<1>3. ASSUME NEW q \in Queues, NEW i \in 1..Prefetch, NEW stage, Stage(q, i, stage),
             NEW next \in {"handler", "answered", "stuck", "backoff", "dead"}, Become(q, i, next)
      PROVE  /\ unacked[q][i] \in InHand /\ unacked' \in [Queues -> Seq(InHand)]
  <2>1. unacked[q] \in Seq(InHand) /\ i \in DOMAIN unacked[q] /\ DOMAIN unacked[q] = 1..Len(unacked[q])
      BY <1>3 DEF Stage, BrokerTypes
  <2>2. unacked[q][i] \in InHand
      BY <2>1
  <2>3. [unacked[q][i] EXCEPT !.at = next] \in InHand
      BY <2>2 DEF InHand
  <2>4. [unacked[q] EXCEPT ![i] = [unacked[q][i] EXCEPT !.at = next]] \in Seq(InHand)
      BY <2>1, <2>3, ExceptSeq
  <2> QED BY <1>3, <2>2, <2>4 DEF Become, BrokerTypes
<1>4. ASSUME NEW q \in Queues, NEW i \in 1..Prefetch,
             Complete(q, i) \/ Raise(q, i) \/ Republish(q, i) \/ Bury(q, i)
      PROVE  BrokerTypes'
  <2>1. unacked[q][i] \in InHand /\ unacked' \in [Queues -> Seq(InHand)]
      BY <1>3, <1>4 DEF Complete, Raise, Republish, Bury
  <2>2. unacked[q][i].event \in Events /\ unacked[q][i].count + 1 \in Nat
      BY <2>1 DEF InHand
  <2>3. CASE Complete(q, i) \/ Raise(q, i) \/ Bury(q, i)
    <3>1. /\ UNCHANGED <<published, ready>>
          /\ handled' \in [Queues -> SUBSET Events] /\ buried' \in [Queues -> SUBSET Events]
      <4>1. handled' = [handled EXCEPT ![q] = @ \cup {unacked[q][i].event}] \/ UNCHANGED handled
          BY <2>3 DEF Complete, Raise, Bury
      <4>2. buried' = [buried EXCEPT ![q] = @ \cup {unacked[q][i].event}] \/ UNCHANGED buried
          BY <2>3 DEF Complete, Raise, Bury
      <4>3. UNCHANGED <<published, ready>>
          BY <2>3 DEF Complete, Raise, Bury
      <4> QED BY <2>2, <4>1, <4>2, <4>3 DEF BrokerTypes
    <3> QED BY <2>1, <3>1 DEF BrokerTypes
  <2>4. CASE Republish(q, i)
    <3>1. ready' \in [Queues -> Seq(Copies)]
        BY <2>2, <2>4, TopicReaches DEF Republish
    <3> QED BY <2>1, <2>4, <3>1 DEF Republish, BrokerTypes
  <2> QED BY <1>4, <2>3, <2>4
<1>5. ASSUME NEW q \in Queues, NEW i \in 1..Prefetch, Ack(q, i) PROVE BrokerTypes'
  <2>1. unacked[q] \in Seq(InHand) /\ i \in 1..Len(unacked[q])
      BY <1>5 DEF Ack, Stage, BrokerTypes
  <2>2. RemoveAt(unacked[q], i) \in Seq(InHand)
      BY <2>1, ConcatProperties, SubSeqProperties DEF RemoveAt
  <2> QED BY <1>5, <2>2 DEF Ack, BrokerTypes
<1>6. ASSUME NEW q \in Queues, Halt(q) PROVE BrokerTypes'
  <2> DEFINE back == [i \in DOMAIN unacked[q] |->
                         [event |-> unacked[q][i].event, count |-> unacked[q][i].count]]
  <2>1. unacked[q] \in Seq(InHand) /\ ready[q] \in Seq(Copies)
      BY DEF BrokerTypes
  <2>2. back \in Seq(Copies)
    <3>1. DOMAIN unacked[q] = 1..Len(unacked[q]) /\ Len(unacked[q]) \in Nat
        BY <2>1
    <3>2. \A i \in 1..Len(unacked[q]) : unacked[q][i] \in InHand
        BY <2>1
    <3>3. \A i \in 1..Len(unacked[q]) :
             [event |-> unacked[q][i].event, count |-> unacked[q][i].count] \in Copies
        BY <3>2 DEF Copies, InHand
    <3>4. back \in [1..Len(unacked[q]) -> Copies]
        BY <3>1, <3>3
    <3> HIDE DEF back
    <3> QED BY <3>1, <3>4, FunctionIsSeq
  <2>3. back \o ready[q] \in Seq(Copies)
      BY <2>1, <2>2, ConcatProperties
  <2>4. /\ ready' = [ready EXCEPT ![q] = back \o ready[q]]
        /\ unacked' = [unacked EXCEPT ![q] = <<>>] /\ UNCHANGED <<published, handled, buried>>
      BY <1>6 DEF Halt
  <2> HIDE DEF back
  <2> QED BY <2>3, <2>4 DEF BrokerTypes
<1>7. CASE UNCHANGED brokerVars
    BY <1>7 DEF brokerVars, BrokerTypes
<1> QED BY <1>1, <1>2, <1>4, <1>5, <1>6, <1>7 DEF BrokerNext

-----------------------------------------------------------------------------
\* No event is lost

Owed(q, e) == e \in handled[q] \cup buried[q] \/ Waits(q, e) \/ Open(q, e)

LEMMA AccountedIsKept ==
    EventAccounted <=> \A q \in Queues, e \in published : Owed(q, e)
BY DEF EventAccounted, Owed, Waits, Open

\* A delivery at another stage is of the same event, and the others are as
\* they were.
LEMMA BecomeKeeps ==
    ASSUME BrokerTypes, NEW q \in Queues, NEW i, NEW stage, NEW to, Stage(q, i, stage),
           Become(q, i, to)
    PROVE  /\ \A p \in Queues : DOMAIN unacked'[p] = DOMAIN unacked[p]
           /\ \A p \in Queues : \A j \in DOMAIN unacked[p] :
                 /\ unacked'[p][j].event = unacked[p][j].event
                 /\ p # q \/ j # i => unacked'[p][j].at = unacked[p][j].at
           /\ i \in DOMAIN unacked[q] /\ unacked'[q][i].at = to
<1>1. /\ unacked' = [unacked EXCEPT ![q] = [unacked[q] EXCEPT ![i] = [unacked[q][i] EXCEPT !.at = to]]]
      /\ i \in DOMAIN unacked[q] /\ unacked \in [Queues -> Seq(InHand)]
    BY DEF Become, Stage, BrokerTypes
<1>2. unacked[q] \in Seq(InHand) /\ unacked[q][i] \in InHand
    BY <1>1
<1>3. [unacked[q][i] EXCEPT !.at = to].event = unacked[q][i].event
      /\ [unacked[q][i] EXCEPT !.at = to].at = to
    BY <1>2 DEF InHand
<1> QED BY <1>1, <1>2, <1>3

\* What is left of a sequence without one element.
LEMMA RemovedElements ==
    ASSUME NEW S, NEW s \in Seq(S), NEW i \in DOMAIN s
    PROVE  /\ RemoveAt(s, i) \in Seq(S) /\ DOMAIN RemoveAt(s, i) = 1..(Len(s) - 1)
           /\ \A k \in DOMAIN RemoveAt(s, i) :
                 RemoveAt(s, i)[k] = IF k < i THEN s[k] ELSE s[k + 1]
<1> DEFINE a == SubSeq(s, 1, i - 1)
           b == SubSeq(s, i + 1, Len(s))
<1>1. DOMAIN s = 1..Len(s) /\ Len(s) \in Nat /\ i \in 1..Len(s)
    OBVIOUS
<1>2. /\ a \in Seq(S) /\ Len(a) = i - 1 /\ \A k \in 1..(i - 1) : a[k] = s[k]
  <2>1. \A k \in 1..(i - 1) : s[k] \in S
      BY <1>1
  <2>2. i - 1 \in Int /\ 1 \in Int /\ i \in Nat \ {0}
      BY <1>1
  <2>3. /\ a \in Seq(S) /\ Len(a) = (IF 1 <= i - 1 THEN i - 1 - 1 + 1 ELSE 0)
        /\ \A k \in 1..(i - 1 - 1 + 1) : a[k] = s[1 + k - 1]
      BY <2>1, <2>2, SubSeqProperties
  <2> QED BY <2>2, <2>3
<1>3. /\ b \in Seq(S) /\ Len(b) = Len(s) - i
      /\ \A k \in 1..(Len(s) - i) : b[k] = s[i + k]
  <2>1. \A k \in (i + 1)..Len(s) : s[k] \in S
      BY <1>1
  <2>2. i + 1 \in Int /\ Len(s) \in Int
      BY <1>1
  <2>3. /\ b \in Seq(S) /\ Len(b) = (IF i + 1 <= Len(s) THEN Len(s) - (i + 1) + 1 ELSE 0)
        /\ \A k \in 1..(Len(s) - (i + 1) + 1) : b[k] = s[i + 1 + k - 1]
      BY <2>1, <2>2, SubSeqProperties
  <2> QED BY <1>1, <2>3
<1>4. RemoveAt(s, i) = a \o b
    BY DEF RemoveAt
<1> HIDE DEF a, b
<1> DEFINE n == Len(s)
<1>5. n \in Nat /\ i \in 1..n /\ Len(a) = i - 1 /\ Len(b) = n - i /\ i - 1 + (n - i) = n - 1
    BY <1>1, <1>2, <1>3
<1>6. /\ Len(a \o b) = Len(a) + Len(b) /\ a \o b \in Seq(S)
      /\ \A k \in 1..(Len(a) + Len(b)) :
            (a \o b)[k] = IF k <= Len(a) THEN a[k] ELSE b[k - Len(a)]
    BY <1>2, <1>3, ConcatProperties
<1>7. Len(a \o b) = n - 1 /\ \A k \in 1..n-1 :
          (a \o b)[k] = IF k <= i - 1 THEN a[k] ELSE b[k - (i - 1)]
    BY <1>5, <1>6
<1>8. DOMAIN (a \o b) = 1..n-1
    BY <1>6, <1>7
<1> HIDE DEF n
<1>9. ASSUME NEW k \in 1..n-1 PROVE (a \o b)[k] = IF k < i THEN s[k] ELSE s[k + 1]
  <2>0. n \in Int /\ i \in Int /\ k \in Int /\ 1 <= k /\ k <= n - 1
      BY <1>5
  <2>1. CASE k < i
    <3>1. k <= i - 1 /\ k \in 1..i-1
        BY <2>0, <2>1
    <3> QED BY <1>2, <1>7, <2>1, <3>1
  <2>2. CASE ~(k < i)
    <3> DEFINE m == k - (i - 1)
    <3>1. ~(k <= i - 1) /\ m \in 1..n-i /\ i + m = k + 1
        BY <2>0, <2>2
    <3> HIDE DEF m
    <3>2. b[m] = s[i + m]
        BY <1>3, <3>1 DEF n
    <3>3. (a \o b)[k] = b[m]
        BY <1>7, <3>1 DEF m
    <3> QED BY <2>2, <3>1, <3>2, <3>3
  <2> QED BY <2>1, <2>2
<1> QED BY <1>4, <1>6, <1>8, <1>9 DEF n

LEMMA RemoveKeeps ==
    ASSUME NEW S, NEW s \in Seq(S), NEW i \in DOMAIN s, NEW j \in DOMAIN s, j # i
    PROVE  \E k \in DOMAIN RemoveAt(s, i) : RemoveAt(s, i)[k] = s[j]
<1>1. DOMAIN s = 1..Len(s) /\ Len(s) \in Nat /\ i \in 1..Len(s) /\ j \in 1..Len(s)
    OBVIOUS
<1> DEFINE t == RemoveAt(s, i)
<1>2. /\ DOMAIN t = 1..(Len(s) - 1)
      /\ \A k \in DOMAIN t : t[k] = IF k < i THEN s[k] ELSE s[k + 1]
    BY RemovedElements
<1> HIDE DEF t
<1>3. CASE j < i
  <2>1. j \in DOMAIN t
      BY <1>1, <1>2, <1>3
  <2> QED BY <1>2, <1>3, <2>1 DEF t
<1>4. CASE j > i
  <2>1. j - 1 \in DOMAIN t /\ ~(j - 1 < i) /\ j - 1 + 1 = j
      BY <1>1, <1>2, <1>4
  <2>2. t[j - 1] = s[j]
      BY <1>2, <2>1
  <2> QED BY <2>1, <2>2 DEF t
<1> QED BY <1>1, <1>3, <1>4

Owing(q, e) == Waits(q, e) \/ Open(q, e)

\* A copy put on the topic waits everywhere, and nothing else comes to wait.
LEMMA TopicOwes ==
    ASSUME BrokerTypes, NEW e \in Events, NEW n \in Nat, ready' = ToTopic(e, n)
    PROVE  \A q \in Queues, f \in Events : Waits(q, f)' <=> Waits(q, f) \/ f = e
<1> DEFINE c == [event |-> e, count |-> n]
<1>1. c \in Copies /\ c.event = e
    BY DEF Copies
<1>2. ASSUME NEW q \in Queues, NEW f \in Events, Waits(q, f)', ~Waits(q, f) PROVE f = e
  <2>1. ready[q] \in Seq(Copies) /\ ready'[q] = Append(ready[q], c)
      BY DEF BrokerTypes, ToTopic, Bindings
  <2> HIDE DEF c
  <2>2. PICK i \in DOMAIN ready'[q] : ready'[q][i].event = f
      BY <1>2 DEF Waits
  <2>3. i \in DOMAIN ready[q] => ready'[q][i] = ready[q][i]
      BY <1>1, <2>1, SeqHas
  <2>4. i \notin DOMAIN ready[q]
      BY <1>2, <2>2, <2>3 DEF Waits
  <2>5. /\ DOMAIN ready[q] = 1..Len(ready[q]) /\ DOMAIN ready'[q] = 1..(Len(ready[q]) + 1)
        /\ Len(ready[q]) \in Nat /\ ready'[q][Len(ready[q]) + 1] = c
      BY <1>1, <2>1, SeqHas
  <2>6. i = Len(ready[q]) + 1
      BY <2>2, <2>4, <2>5
  <2> QED BY <1>1, <2>2, <2>5, <2>6
<1> QED BY <1>2, TopicReaches

\* A copy that is delivered changes hands within its queue.
LEMMA DeliverOwes ==
    ASSUME BrokerTypes, NEW p \in Queues, Deliver(p), NEW q \in Queues, NEW e \in Events
    PROVE  Owing(q, e)' <=> Owing(q, e)
<1>1. /\ ready[q] \in Seq(Copies) /\ unacked[q] \in Seq(InHand)
      /\ p # q => UNCHANGED <<ready[q], unacked[q]>>
    BY DEF Deliver, BrokerTypes
<1>2. CASE p # q
    BY <1>1, <1>2 DEF Owing, Waits, Open
<1>3. CASE p = q
  <2> DEFINE d == [event |-> Head(ready[q]).event, count |-> Head(ready[q]).count,
                   at |-> "handler"]
  <2>1. /\ ready[q] # <<>> /\ ready'[q] = Tail(ready[q]) /\ unacked'[q] = Append(unacked[q], d)
      BY <1>3 DEF Deliver, BrokerTypes
  <2>2. /\ Head(ready[q]) \in Copies /\ Len(Tail(ready[q])) = Len(ready[q]) - 1
        /\ \A i \in 1..Len(Tail(ready[q])) : Tail(ready[q])[i] = ready[q][i + 1]
        /\ Tail(ready[q]) \in Seq(Copies) /\ Head(ready[q]) = ready[q][1]
      BY <1>1, <2>1, HeadTailProperties
  <2>3. d \in InHand /\ d.event = ready[q][1].event /\ d.at = "handler"
      BY <2>2 DEF Copies, InHand
  <2> HIDE DEF d
  <2>4. Len(ready[q]) \in Nat \ {0} /\ DOMAIN ready[q] = 1..Len(ready[q])
      BY <1>1, <2>1
  <2>5. /\ DOMAIN unacked[q] = 1..Len(unacked[q]) /\ Len(unacked[q]) \in Nat
        /\ DOMAIN unacked'[q] = 1..(Len(unacked[q]) + 1)
        /\ \A j \in DOMAIN unacked[q] : unacked'[q][j] = unacked[q][j]
        /\ unacked'[q][Len(unacked[q]) + 1] = d
      BY <1>1, <2>1, <2>3, SeqHas
  <2>6. ASSUME Waits(q, e)' PROVE Owing(q, e)
    <3>1. PICK i \in DOMAIN ready'[q] : ready'[q][i].event = e
        BY <2>6 DEF Waits
    <3>2. i \in 1..Len(Tail(ready[q]))
        BY <2>1, <2>2, <3>1
    <3>3. i + 1 \in DOMAIN ready[q]
        BY <2>2, <2>4, <3>2
    <3>4. ready[q][i + 1].event = e
        BY <2>1, <2>2, <3>1, <3>2
    <3> QED BY <3>3, <3>4 DEF Owing, Waits
  <2>7. ASSUME Open(q, e)' PROVE Owing(q, e)
    <3>1. PICK i \in DOMAIN unacked'[q] : unacked'[q][i].event = e /\ unacked'[q][i].at # "answered"
        BY <2>7 DEF Open
    <3>2. CASE i \in DOMAIN unacked[q]
        BY <2>5, <3>1, <3>2 DEF Owing, Open
    <3>3. CASE i \notin DOMAIN unacked[q]
      <4>1. i = Len(unacked[q]) + 1
          BY <2>5, <3>1, <3>3
      <4>2. ready[q][1].event = e /\ 1 \in DOMAIN ready[q]
          BY <2>3, <2>4, <2>5, <3>1, <4>1
      <4> QED BY <4>2 DEF Owing, Waits
    <3> QED BY <3>2, <3>3
  <2>8. ASSUME Open(q, e) PROVE Open(q, e)'
      BY <2>5, <2>8 DEF Open
  <2>9. ASSUME NEW i \in DOMAIN ready[q], ready[q][i].event = e PROVE Owing(q, e)'
    <3>1. CASE i = 1
      <4>1. unacked'[q][Len(unacked[q]) + 1].event = e
            /\ unacked'[q][Len(unacked[q]) + 1].at # "answered"
          BY <2>3, <2>5, <2>9, <3>1
      <4>2. Len(unacked[q]) + 1 \in DOMAIN unacked'[q]
          BY <2>5
      <4> QED BY <4>1, <4>2 DEF Owing, Open
    <3>2. CASE i # 1
      <4>1. i - 1 \in 1..Len(Tail(ready[q])) /\ i - 1 + 1 = i
          BY <2>2, <2>4, <3>2
      <4>2. i - 1 \in DOMAIN ready'[q] /\ ready'[q][i - 1].event = e
          BY <2>1, <2>2, <2>9, <4>1
      <4> QED BY <4>2 DEF Owing, Waits
    <3> QED BY <3>1, <3>2
  <2> QED BY <2>6, <2>7, <2>8, <2>9 DEF Owing, Waits
<1> QED BY <1>2, <1>3

\* A delivery that moves on owes nothing new, and only its own event less.
LEMMA BecomeOwes ==
    ASSUME BrokerTypes, NEW q \in Queues, NEW i, NEW stage, NEW to, Stage(q, i, stage),
           Become(q, i, to), stage # "answered"
    PROVE  /\ unacked[q][i].event \in Events /\ Open(q, unacked[q][i].event)
           /\ \A p \in Queues, e \in Events :
                 /\ Open(p, e)' => Open(p, e)
                 /\ Open(p, e) /\ (p # q \/ e # unacked[q][i].event \/ to # "answered")
                       => Open(p, e)'
<1>1. i \in DOMAIN unacked[q] /\ unacked[q][i].at = stage /\ unacked[q] \in Seq(InHand)
    BY DEF Stage, BrokerTypes
<1>2. unacked[q][i] \in InHand
    BY <1>1
<1>3. unacked[q][i].event \in Events /\ Open(q, unacked[q][i].event)
    BY <1>1, <1>2 DEF InHand, Open
<1>4. /\ \A p \in Queues : DOMAIN unacked'[p] = DOMAIN unacked[p]
      /\ \A p \in Queues : \A j \in DOMAIN unacked[p] :
            /\ unacked'[p][j].event = unacked[p][j].event
            /\ p # q \/ j # i => unacked'[p][j].at = unacked[p][j].at
      /\ i \in DOMAIN unacked[q] /\ unacked'[q][i].at = to
    BY BecomeKeeps
<1>5. ASSUME NEW p \in Queues, NEW e \in Events, Open(p, e)' PROVE Open(p, e)
  <2>1. PICK j \in DOMAIN unacked[p] : unacked'[p][j].event = e /\ unacked'[p][j].at # "answered"
      BY <1>4, <1>5 DEF Open
  <2>2. unacked[p][j].event = e /\ unacked[p][j].at # "answered"
      BY <1>1, <1>4, <2>1
  <2> QED BY <2>2 DEF Open
<1>6. ASSUME NEW p \in Queues, NEW e \in Events, Open(p, e),
             p # q \/ e # unacked[q][i].event \/ to # "answered"
      PROVE  Open(p, e)'
  <2>1. PICK j \in DOMAIN unacked[p] : unacked[p][j].event = e /\ unacked[p][j].at # "answered"
      BY <1>6 DEF Open
  <2>2. unacked'[p][j].event = e /\ unacked'[p][j].at # "answered" /\ j \in DOMAIN unacked'[p]
      BY <1>4, <1>6, <2>1
  <2> QED BY <2>2 DEF Open
<1> QED BY <1>3, <1>5, <1>6

\* An acknowledged delivery was answered, so nobody is owed less or more.
LEMMA AckOwes ==
    ASSUME BrokerTypes, NEW p \in Queues, NEW i, Ack(p, i), NEW q \in Queues, NEW e \in Events
    PROVE  Open(q, e)' <=> Open(q, e)
<1>1. CASE p # q
  <2>1. UNCHANGED unacked[q]
      BY <1>1 DEF Ack, BrokerTypes
  <2> QED BY <2>1 DEF Open
<1>2. CASE p = q
  <2>1. /\ unacked[q] \in Seq(InHand) /\ i \in DOMAIN unacked[q] /\ unacked[q][i].at = "answered"
        /\ unacked'[q] = RemoveAt(unacked[q], i)
      BY <1>2 DEF Ack, Stage, BrokerTypes
  <2>2. ASSUME Open(q, e) PROVE Open(q, e)'
    <3>1. PICK j \in DOMAIN unacked[q] : unacked[q][j].event = e /\ unacked[q][j].at # "answered"
        BY <2>2 DEF Open
    <3>2. PICK k \in DOMAIN unacked'[q] : unacked'[q][k] = unacked[q][j]
        BY <2>1, <3>1, RemoveKeeps
    <3> QED BY <3>1, <3>2 DEF Open
  <2>3. ASSUME Open(q, e)' PROVE Open(q, e)
    <3>1. PICK k \in DOMAIN unacked'[q] : unacked'[q][k].event = e /\ unacked'[q][k].at # "answered"
        BY <2>3 DEF Open
    <3>2. /\ DOMAIN unacked'[q] = 1..(Len(unacked[q]) - 1)
          /\ unacked'[q][k] = IF k < i THEN unacked[q][k] ELSE unacked[q][k + 1]
        BY <2>1, <3>1, RemovedElements
    <3>3. DOMAIN unacked[q] = 1..Len(unacked[q]) /\ Len(unacked[q]) \in Nat
        BY <2>1
    <3>4. k \in DOMAIN unacked[q] /\ k + 1 \in DOMAIN unacked[q]
        BY <3>1, <3>2, <3>3
    <3> QED BY <3>1, <3>2, <3>4 DEF Open
  <2> QED BY <2>2, <2>3
<1> QED BY <1>1, <1>2

\* A consumer that stops leaves to its queue a copy of each of its deliveries.
LEMMA HaltOwes ==
    ASSUME BrokerTypes, NEW q \in Queues, Halt(q), NEW e \in Events
    PROVE  Owing(q, e)' <=> Waits(q, e) \/ \E i \in DOMAIN unacked[q] : unacked[q][i].event = e
<1> DEFINE back == [i \in DOMAIN unacked[q] |->
                       [event |-> unacked[q][i].event, count |-> unacked[q][i].count]]
           n == Len(unacked[q])
<1>1. /\ ready[q] \in Seq(Copies) /\ unacked[q] \in Seq(InHand)
      /\ ready'[q] = back \o ready[q] /\ unacked'[q] = <<>>
    BY DEF Halt, BrokerTypes
<1>2. n \in Nat /\ DOMAIN unacked[q] = 1..n
    BY <1>1
<1>3. \A i \in 1..n : unacked[q][i] \in InHand
    BY <1>1, <1>2
<1>4. back \in [1..n -> Copies] /\ \A i \in 1..n : back[i].event = unacked[q][i].event
    BY <1>2, <1>3 DEF Copies, InHand
<1> HIDE DEF back, n
<1>5. back \in Seq(Copies) /\ Len(back) = n
    BY <1>2, <1>4, FunctionIsSeq
<1>6. Len(ready[q]) \in Nat /\ DOMAIN ready[q] = 1..Len(ready[q])
    BY <1>1
<1>7. /\ DOMAIN ready'[q] = 1..(n + Len(ready[q]))
      /\ \A i \in 1..(n + Len(ready[q])) :
            ready'[q][i] = IF i <= n THEN back[i] ELSE ready[q][i - n]
  <2>1. /\ Len(back \o ready[q]) = n + Len(ready[q]) /\ back \o ready[q] \in Seq(Copies)
        /\ \A i \in 1..(n + Len(ready[q])) :
              (back \o ready[q])[i] = IF i <= n THEN back[i] ELSE ready[q][i - n]
      BY <1>1, <1>5, ConcatProperties
  <2>2. DOMAIN (back \o ready[q]) = 1..(n + Len(ready[q]))
      BY <2>1
  <2> QED BY <1>1, <2>1, <2>2
<1>8. ASSUME NEW i \in 1..n PROVE i \in DOMAIN ready'[q] /\ ready'[q][i].event = unacked[q][i].event
  <2>1. i \in 1..(n + Len(ready[q])) /\ i <= n
      BY <1>2, <1>6
  <2> QED BY <1>4, <1>7, <2>1
<1>9. ASSUME NEW i \in DOMAIN ready[q] PROVE \E j \in DOMAIN ready'[q] : ready'[q][j] = ready[q][i]
  <2> DEFINE j == n + i
  <2>1. j \in 1..(n + Len(ready[q])) /\ ~(j <= n) /\ j - n = i
      BY <1>2, <1>6
  <2> HIDE DEF j
  <2>2. ready'[q][j] = ready[q][j - n]
      BY <1>7, <2>1
  <2> QED BY <1>7, <2>1, <2>2
<1>10. ASSUME NEW i \in DOMAIN ready'[q]
       PROVE  \/ i \in 1..n
              \/ \E j \in DOMAIN ready[q] : ready'[q][i] = ready[q][j]
  <2>1. CASE i <= n
      BY <1>2, <1>6, <1>7, <2>1
  <2>2. CASE ~(i <= n)
    <3>1. i - n \in DOMAIN ready[q]
        BY <1>2, <1>6, <1>7, <2>2
    <3> QED BY <1>7, <2>2, <3>1
  <2> QED BY <2>1, <2>2
<1>11. Owing(q, e)' <=> Waits(q, e)'
    BY <1>1 DEF Owing, Open
<1>12. ASSUME Waits(q, e)' PROVE Waits(q, e) \/ \E i \in DOMAIN unacked[q] : unacked[q][i].event = e
  <2>1. PICK i \in DOMAIN ready'[q] : ready'[q][i].event = e
      BY <1>12 DEF Waits
  <2>2. CASE i \in 1..n
      BY <1>2, <1>8, <2>1, <2>2
  <2>3. ASSUME NEW j \in DOMAIN ready[q], ready'[q][i] = ready[q][j] PROVE Waits(q, e)
      BY <2>1, <2>3 DEF Waits
  <2> QED BY <1>10, <2>2, <2>3
<1>13. ASSUME NEW i \in DOMAIN ready[q], ready[q][i].event = e PROVE Waits(q, e)'
  <2>1. PICK j \in DOMAIN ready'[q] : ready'[q][j] = ready[q][i]
      BY <1>9
  <2> QED BY <1>13, <2>1 DEF Waits
<1>14. ASSUME NEW i \in DOMAIN unacked[q], unacked[q][i].event = e PROVE Waits(q, e)'
    BY <1>2, <1>8, <1>14 DEF Waits
<1> QED BY <1>11, <1>12, <1>13, <1>14 DEF Waits

LEMMA KeptStep ==
    ASSUME BrokerTypes, BrokerNext, NEW q \in Queues, NEW e \in published', e \in published => Owed(q, e)
    PROVE  Owed(q, e)'
<1> USE DEF Owed
<1>0. /\ published \subseteq Events /\ ready[q] \in Seq(Copies) /\ unacked[q] \in Seq(InHand)
    BY DEF BrokerTypes
<1>1. ASSUME NEW f \in Events, PublishEvent(f) PROVE Owed(q, e)'
  <2>1. /\ Waits(q, f)' /\ \A g \in Events : Waits(q, g) => Waits(q, g)'
      BY <1>1, TopicReaches DEF PublishEvent
  <2>2. UNCHANGED <<handled, buried, unacked>> /\ published' = published \cup {f}
      BY <1>1 DEF PublishEvent
  <2> QED BY <1>0, <2>1, <2>2 DEF Open
<1>2. ASSUME NEW p \in Queues, Deliver(p) PROVE Owed(q, e)'
  <2>1. UNCHANGED <<published, handled, buried>>
      BY <1>2 DEF Deliver
  <2> QED BY <1>0, <1>2, <2>1, DeliverOwes DEF Owing
<1>3. ASSUME NEW p \in Queues, NEW i \in 1..Prefetch,
             Complete(p, i) \/ Raise(p, i) \/ Republish(p, i) \/ Bury(p, i)
      PROVE  Owed(q, e)'
  <2>1. PICK stage, to : Stage(p, i, stage) /\ Become(p, i, to)
      BY <1>3 DEF Complete, Raise, Republish, Bury
  <2>2. /\ DOMAIN unacked'[q] = DOMAIN unacked[q]
        /\ \A j \in DOMAIN unacked[q] :
              /\ unacked'[q][j].event = unacked[q][j].event
              /\ p # q \/ j # i => unacked'[q][j].at = unacked[q][j].at
      BY <2>1, BecomeKeeps
  <2>3. /\ published' = published /\ handled[q] \subseteq handled'[q] /\ buried[q] \subseteq buried'[q]
      BY <1>3 DEF Complete, Raise, Republish, Bury, BrokerTypes
  <2>4. Waits(q, e) => Waits(q, e)'
    <3>1. CASE Republish(p, i)
      <4>1. unacked[p][i] \in InHand
          BY <2>1 DEF Stage, BrokerTypes
      <4>2. unacked[p][i].event \in Events /\ unacked[p][i].count + 1 \in Nat
          BY <4>1 DEF InHand
      <4> QED BY <1>0, <2>3, <3>1, <4>2, TopicReaches DEF Republish
    <3>2. CASE Complete(p, i) \/ Raise(p, i) \/ Bury(p, i)
      <4>1. UNCHANGED ready
          BY <3>2 DEF Complete, Raise, Bury
      <4> QED BY <4>1 DEF Waits
    <3> QED BY <1>3, <3>1, <3>2
  <2>5. ASSUME NEW j \in DOMAIN unacked[q], unacked[q][j].event = e, unacked[q][j].at # "answered"
        PROVE  Owed(q, e)'
    <3>1. CASE p # q \/ j # i
        BY <2>2, <2>5, <3>1 DEF Open
    <3>2. CASE p = q /\ j = i
      <4>1. CASE Complete(p, i)
          BY <2>5, <3>2, <4>1 DEF Complete, BrokerTypes
      <4>2. CASE Bury(p, i)
          BY <2>5, <3>2, <4>2 DEF Bury, BrokerTypes
      <4>3. CASE Raise(p, i)
        <5>1. PICK t \in {"stuck", "backoff", "dead"} : Become(p, i, t)
            BY <4>3 DEF Raise
        <5>2. unacked'[q][j].at = t /\ t # "answered"
            BY <2>1, <3>2, <5>1, BecomeKeeps
        <5> QED BY <2>2, <2>5, <5>2 DEF Open
      <4>4. CASE Republish(p, i)
        <5>1. unacked[p][i] \in InHand
            BY <2>1 DEF Stage, BrokerTypes
        <5>2. unacked[p][i].event \in Events /\ unacked[p][i].count + 1 \in Nat
            BY <5>1 DEF InHand
        <5>3. Waits(q, e)'
            BY <2>5, <3>2, <4>4, <5>2, TopicReaches DEF Republish
        <5> QED BY <5>3
      <4> QED BY <1>3, <4>1, <4>2, <4>3, <4>4
    <3> QED BY <3>1, <3>2
  <2> QED BY <2>3, <2>4, <2>5 DEF Open
<1>4. ASSUME NEW p \in Queues, NEW i \in 1..Prefetch, Ack(p, i) PROVE Owed(q, e)'
  <2>1. UNCHANGED <<published, handled, buried, ready>>
      BY <1>4 DEF Ack
  <2> QED BY <1>0, <1>4, <2>1, AckOwes DEF Waits
<1>5. ASSUME NEW p \in Queues, Halt(p) PROVE Owed(q, e)'
  <2>1. UNCHANGED <<published, handled, buried>> /\ (p # q => UNCHANGED <<ready[q], unacked[q]>>)
      BY <1>5 DEF Halt, BrokerTypes
  <2>2. CASE p # q
      BY <2>1, <2>2 DEF Waits, Open
  <2>3. CASE p = q
      BY <1>0, <1>5, <2>1, <2>3, HaltOwes DEF Owing, Open
  <2> QED BY <2>2, <2>3
<1> QED BY <1>1, <1>2, <1>3, <1>4, <1>5 DEF BrokerNext

\* Whatever handlers raise and consumers stop, in any order, an event that was
\* published stays with every queue of its topic until its handler has completed
\* it or the consumer has sent it to the dead letters.
THEOREM EventAccountedHolds == BrokerSpec => []EventAccounted
<1>1. BrokerInit => EventAccounted
    BY DEF BrokerInit, EventAccounted
<1>2. BrokerTypes /\ EventAccounted /\ [BrokerNext]_brokerVars => EventAccounted'
  <2> SUFFICES ASSUME BrokerTypes, EventAccounted, [BrokerNext]_brokerVars PROVE EventAccounted'
      OBVIOUS
  <2>1. CASE BrokerNext
    <3>1. \A q \in Queues, e \in published' : Owed(q, e)'
        BY <2>1, AccountedIsKept, KeptStep
    <3> QED BY <3>1 DEF EventAccounted, Owed, Waits, Open
  <2>2. CASE UNCHANGED brokerVars
      BY <2>2 DEF brokerVars, EventAccounted
  <2> QED BY <2>1, <2>2
<1> QED BY <1>1, <1>2, BrokerTypesInit, BrokerTypesStep, PTL DEF BrokerSpec

-----------------------------------------------------------------------------
\* The types of the broker

\* Copies and deliveries are of published events, deliveries within the prefetch.
OfPublished ==
    /\ published \subseteq Events /\ halts \in 0..MaxHalts
    /\ ready \in [Queues -> Seq([event : published, count : Nat])]
    /\ unacked \in [Queues -> Seq([event : published, count : Nat,
                                   at : {"handler", "answered", "stuck", "backoff", "dead"}])]
    /\ handled \in [Queues -> SUBSET published]
    /\ \A q \in Queues : Len(unacked[q]) <= Prefetch

LEMMA SeqType ==
    ASSUME NEW S, NEW s \in Seq(S)
    PROVE  /\ Len(s) \in Nat /\ DOMAIN s = 1..Len(s)
           /\ \A i \in DOMAIN s : s[i] \in S
OBVIOUS

LEMMA OfPublishedTypes == OfPublished => BrokerTypeOK
<1> SUFFICES ASSUME OfPublished PROVE BrokerTypeOK
    OBVIOUS
<1>1. ASSUME NEW q \in Queues, NEW i \in DOMAIN ready[q]
      PROVE  ready[q][i].event \in published /\ ready[q][i].count \in Nat
  <2> DEFINE C == [event : published, count : Nat]
  <2>1. ready[q] \in Seq(C)
      BY DEF OfPublished
  <2>2. ready[q][i] \in C
    <3> HIDE DEF C
    <3> QED BY <1>1, <2>1, SeqType
  <2> QED BY <2>2
<1>2. ASSUME NEW q \in Queues, NEW i \in DOMAIN unacked[q]
      PROVE  unacked[q][i].at \in {"handler", "answered", "stuck", "backoff", "dead"}
  <2> DEFINE D == [event : published, count : Nat,
                   at : {"handler", "answered", "stuck", "backoff", "dead"}]
  <2>1. unacked[q] \in Seq(D)
      BY DEF OfPublished
  <2>2. unacked[q][i] \in D
    <3> HIDE DEF D
    <3> QED BY <1>2, <2>1, SeqType
  <2> QED BY <2>2
<1> QED BY <1>1, <1>2 DEF OfPublished, BrokerTypeOK

LEMMA WiderSeq ==
    ASSUME NEW S, NEW T, S \subseteq T, NEW s \in Seq(S)
    PROVE  s \in Seq(T)
OBVIOUS

LEMMA TopicOfPublished ==
    ASSUME NEW P, P \subseteq Events, NEW e \in P, NEW n \in Nat, ready' = ToTopic(e, n),
           ready \in [Queues -> Seq([event : P, count : Nat])]
    PROVE  ready' \in [Queues -> Seq([event : P, count : Nat])]
<1> DEFINE c == [event |-> e, count |-> n]
           C == [event : P, count : Nat]
<1>1. c \in C
    OBVIOUS
<1>2. ASSUME NEW q \in Queues PROVE ready'[q] = Append(ready[q], c)
    BY <1>2 DEF ToTopic, Bindings
<1>3. ready' = [q \in Queues |-> ready'[q]]
    BY DEF ToTopic
<1> HIDE DEF c, C
<1>4. ASSUME NEW q \in Queues PROVE ready'[q] \in Seq(C)
  <2>1. ready[q] \in Seq(C)
      BY DEF C
  <2>2. Append(ready[q], c) \in Seq(C)
      BY <1>1, <2>1, SeqHas
  <2> QED BY <1>2, <2>2
<1> QED BY <1>3, <1>4 DEF C

LEMMA OfPublishedStep == OfPublished /\ [BrokerNext]_brokerVars => OfPublished'
<1> SUFFICES ASSUME OfPublished, [BrokerNext]_brokerVars PROVE OfPublished'
    OBVIOUS
<1> DEFINE C == [event : published, count : Nat]
           D == [event : published, count : Nat,
                 at : {"handler", "answered", "stuck", "backoff", "dead"}]
<1>0. /\ published \subseteq Events /\ halts \in 0..MaxHalts
      /\ ready \in [Queues -> Seq(C)] /\ unacked \in [Queues -> Seq(D)]
      /\ handled \in [Queues -> SUBSET published] /\ \A q \in Queues : Len(unacked[q]) <= Prefetch
      /\ Prefetch \in Nat /\ MaxHalts \in Nat
    BY BrokerAssumption DEF OfPublished
\* What is to be shown where nothing is published.
<1> DEFINE Right == /\ halts' \in 0..MaxHalts
                    /\ ready' \in [Queues -> Seq(C)] /\ unacked' \in [Queues -> Seq(D)]
                    /\ handled' \in [Queues -> SUBSET published]
                    /\ \A q \in Queues : Len(unacked'[q]) <= Prefetch
<1>1. ASSUME Right, UNCHANGED published PROVE OfPublished'
    BY <1>0, <1>1 DEF OfPublished
<1> HIDE DEF Right
<1>2. ASSUME NEW e \in Events, PublishEvent(e) PROVE OfPublished'
  <2> DEFINE C1 == [event : published', count : Nat]
             D1 == [event : published', count : Nat,
                    at : {"handler", "answered", "stuck", "backoff", "dead"}]
  <2>1. /\ published' = published \cup {e} /\ ready' = ToTopic(e, 0)
        /\ UNCHANGED <<unacked, handled, halts>> /\ C \subseteq C1 /\ D \subseteq D1
      BY <1>2 DEF PublishEvent
  <2> HIDE DEF C, D
  <2>2. ready \in [Queues -> Seq(C1)] /\ unacked \in [Queues -> Seq(D1)]
    <3> HIDE DEF C1, D1
    <3> QED BY <1>0, <2>1, WiderSeq
  <2>3. published' \subseteq Events /\ e \in published'
      BY <1>0, <2>1
  <2>4. ready' \in [Queues -> Seq(C1)]
      BY <2>1, <2>2, <2>3, TopicOfPublished
  <2>5. handled' \in [Queues -> SUBSET published']
      BY <1>0, <2>1
  <2> QED BY <1>0, <2>1, <2>2, <2>3, <2>4, <2>5 DEF OfPublished
<1>3. ASSUME NEW q \in Queues, Deliver(q) PROVE OfPublished'
  <2> DEFINE h == Head(ready[q])
             d == [event |-> h.event, count |-> h.count, at |-> "handler"]
  <2>1. /\ ready[q] \in Seq(C) /\ ready[q] # <<>> /\ unacked[q] \in Seq(D)
        /\ Len(unacked[q]) < Prefetch
        /\ ready' = [ready EXCEPT ![q] = Tail(@)] /\ unacked' = [unacked EXCEPT ![q] = Append(@, d)]
        /\ UNCHANGED <<published, handled, halts>>
      BY <1>0, <1>3 DEF Deliver
  <2>2. h \in C /\ Tail(ready[q]) \in Seq(C)
    <3> HIDE DEF C
    <3> QED BY <2>1, HeadTailProperties
  <2>3. d \in D
    <3> HIDE DEF h
    <3> QED BY <2>2
  <2> HIDE DEF h, d, C, D
  <2>4. Append(unacked[q], d) \in Seq(D) /\ Len(Append(unacked[q], d)) = Len(unacked[q]) + 1
      BY <2>1, <2>3, AppendProperties
  <2>5. Len(Append(unacked[q], d)) <= Prefetch
    <3> DEFINE n == Len(unacked[q])
    <3>1. n \in Nat /\ n < Prefetch /\ Len(Append(unacked[q], d)) = n + 1
        BY <2>1, <2>4
    <3> HIDE DEF n
    <3> QED BY <1>0, <3>1
  <2>6. \A p \in Queues : Len(unacked'[p]) <= Prefetch
      BY <1>0, <2>1, <2>5
  <2> QED BY <1>0, <1>1, <2>1, <2>2, <2>4, <2>6 DEF Right
<1>4. ASSUME NEW q \in Queues, NEW i \in 1..Prefetch, NEW stage, Stage(q, i, stage),
             NEW to \in {"handler", "answered", "stuck", "backoff", "dead"}, Become(q, i, to)
      PROVE  /\ unacked[q][i] \in D /\ unacked' \in [Queues -> Seq(D)]
             /\ \A p \in Queues : Len(unacked'[p]) <= Prefetch
  <2>1. unacked[q] \in Seq(D) /\ i \in DOMAIN unacked[q] /\ DOMAIN unacked[q] = 1..Len(unacked[q])
    <3> HIDE DEF D
    <3>1. unacked[q] \in Seq(D)
        BY <1>0
    <3> QED BY <1>4, <3>1, SeqType DEF Stage
  <2>2. unacked[q][i] \in D
    <3> HIDE DEF D
    <3> QED BY <2>1, SeqType
  <2> DEFINE r == [unacked[q][i] EXCEPT !.at = to]
             u == [unacked[q] EXCEPT ![i] = r]
  <2>3. r \in D
      BY <2>2
  <2>4. unacked' = [unacked EXCEPT ![q] = u]
      BY <1>4 DEF Become
  <2> HIDE DEF r, D
  <2>5. u \in Seq(D) /\ Len(u) = Len(unacked[q])
      BY <2>1, <2>3, ExceptSeq
  <2> HIDE DEF u
  <2> QED BY <1>0, <2>2, <2>4, <2>5
<1>5. ASSUME NEW q \in Queues, NEW i \in 1..Prefetch,
             Complete(q, i) \/ Raise(q, i) \/ Republish(q, i) \/ Bury(q, i)
      PROVE  OfPublished'
  <2>1. /\ unacked[q][i] \in D /\ unacked' \in [Queues -> Seq(D)]
        /\ \A p \in Queues : Len(unacked'[p]) <= Prefetch
      BY <1>4, <1>5 DEF Complete, Raise, Republish, Bury
  <2>2. unacked[q][i].event \in published /\ unacked[q][i].count + 1 \in Nat
      BY <2>1
  <2>3. UNCHANGED <<published, halts>>
      BY <1>5 DEF Complete, Raise, Republish, Bury
  <2>4. handled' = [handled EXCEPT ![q] = @ \cup {unacked[q][i].event}] \/ UNCHANGED handled
      BY <1>5 DEF Complete, Raise, Republish, Bury
  <2>5. handled' \in [Queues -> SUBSET published]
      BY <1>0, <2>2, <2>4
  <2>6. \/ UNCHANGED ready
        \/ ready' = ToTopic(unacked[q][i].event, unacked[q][i].count + 1)
      BY <1>5 DEF Complete, Raise, Republish, Bury
  <2>7. ready' \in [Queues -> Seq(C)]
      BY <1>0, <2>2, <2>6, TopicOfPublished
  <2> QED BY <1>0, <1>1, <2>1, <2>3, <2>5, <2>7 DEF Right
<1>6. ASSUME NEW q \in Queues, NEW i \in 1..Prefetch, Ack(q, i) PROVE OfPublished'
  <2> DEFINE n == Len(unacked[q])
             t == RemoveAt(unacked[q], i)
  <2>1. /\ unacked[q] \in Seq(D) /\ i \in DOMAIN unacked[q] /\ n \in Nat /\ n <= Prefetch
        /\ i \in 1..n
        /\ unacked' = [unacked EXCEPT ![q] = t]
        /\ UNCHANGED <<published, ready, handled, halts>>
    <3> HIDE DEF D
    <3>1. unacked[q] \in Seq(D) /\ Len(unacked[q]) <= Prefetch
        BY <1>0
    <3> QED BY <1>6, <3>1, SeqType DEF Ack, Stage
  <2>2. t \in Seq(D) /\ DOMAIN t = 1..n-1
    <3> HIDE DEF D
    <3> QED BY <2>1, RemovedElements
  <2> HIDE DEF n, t, D
  <2>3. Len(t) \in Nat /\ DOMAIN t = 1..Len(t)
      BY <2>2
  <2>4. Len(t) <= Prefetch
    <3>1. Len(t) = 0 \/ Len(t) \in 1..Len(t)
        BY <2>3
    <3> QED BY <1>0, <2>1, <2>2, <2>3, <3>1
  <2>5. unacked' \in [Queues -> Seq(D)] /\ \A p \in Queues : Len(unacked'[p]) <= Prefetch
      BY <1>0, <2>1, <2>2, <2>4
  <2> QED BY <1>0, <1>1, <2>1, <2>5 DEF Right
<1>7. ASSUME NEW q \in Queues, Halt(q) PROVE OfPublished'
  <2> DEFINE n == Len(unacked[q])
             back == [i \in DOMAIN unacked[q] |->
                         [event |-> unacked[q][i].event, count |-> unacked[q][i].count]]
  <2>1. /\ unacked[q] \in Seq(D) /\ ready[q] \in Seq(C) /\ n \in Nat /\ DOMAIN unacked[q] = 1..n
    <3> HIDE DEF C, D
    <3>1. unacked[q] \in Seq(D) /\ ready[q] \in Seq(C)
        BY <1>0
    <3> QED BY <3>1, SeqType
  <2>2. \A i \in 1..n : [event |-> unacked[q][i].event, count |-> unacked[q][i].count] \in C
    <3>1. \A i \in 1..n : unacked[q][i] \in D
      <4> HIDE DEF D
      <4> QED BY <2>1
    <3> QED BY <3>1
  <2>3. back \in [1..n -> C]
      BY <2>1, <2>2
  <2>4. /\ ready' = [ready EXCEPT ![q] = back \o @] /\ unacked' = [unacked EXCEPT ![q] = <<>>]
        /\ halts < MaxHalts /\ halts' = halts + 1 /\ UNCHANGED <<published, handled>>
      BY <1>7 DEF Halt
  <2> HIDE DEF n, back, C, D
  <2>5. back \o ready[q] \in Seq(C)
    <3>1. back \in Seq(C)
        BY <2>1, <2>3, FunctionIsSeq
    <3> QED BY <2>1, <3>1, ConcatProperties
  <2>6. <<>> \in Seq(D) /\ Len(<<>>) <= Prefetch
      BY <1>0
  <2>7. unacked' \in [Queues -> Seq(D)] /\ \A p \in Queues : Len(unacked'[p]) <= Prefetch
      BY <1>0, <2>4, <2>6
  <2>8. ready' \in [Queues -> Seq(C)]
      BY <1>0, <2>4, <2>5
  <2>9. halts' \in 0..MaxHalts
      BY <1>0, <2>4
  <2> QED BY <1>0, <1>1, <2>4, <2>7, <2>8, <2>9 DEF Right
<1>8. CASE UNCHANGED brokerVars
    BY <1>8 DEF brokerVars, OfPublished
<1> QED BY <1>2, <1>3, <1>5, <1>6, <1>7, <1>8 DEF BrokerNext

LEMMA OfPublishedInit == BrokerInit => OfPublished
<1> SUFFICES ASSUME BrokerInit PROVE OfPublished
    OBVIOUS
<1>1. /\ <<>> \in Seq([event : published, count : Nat]) /\ Len(<<>>) <= Prefetch
      /\ <<>> \in Seq([event : published, count : Nat,
                       at : {"handler", "answered", "stuck", "backoff", "dead"}])
      /\ 0 \in 0..MaxHalts
    BY BrokerAssumption
<1> QED BY <1>1 DEF BrokerInit, OfPublished

-----------------------------------------------------------------------------
(***************************************************************************)
(* The broker keeps the promise of EventDelivery: of each action the       *)
(* lemmas above say exactly which events a queue is owed after it.  That   *)
(* what a stopped consumer brings back was settled, or is owed anyway, is  *)
(* where EventAccounted comes in.                                          *)
(***************************************************************************)

LEMMA UnsettledIs ==
    \A q : /\ Unsettled(q) = {e \in published : Owing(q, e)}
           /\ Unsettled(q)' = {e \in published' : Owing(q, e)'}
BY DEF Unsettled, Owing, Waits, Open

LEMMA DeliverySimulation ==
    ASSUME BrokerTypes, OfPublished, EventAccounted, [BrokerNext]_brokerVars
    PROVE  [Promise!DeliveryNext]_(Promise!delivery)
<1> DEFINE owed == [q \in Queues |-> Unsettled(q)]
           settled == [q \in Queues |-> handled[q] \cup buried[q]]
<1>0. published \subseteq Events
    BY DEF BrokerTypes
<1>1. ASSUME UNCHANGED <<published, handled, buried>>,
             \A q \in Queues, e \in Events : Owing(q, e)' <=> Owing(q, e)
      PROVE  UNCHANGED Promise!delivery
  <2>1. \A q \in Queues : Unsettled(q)' = Unsettled(q)
      BY <1>0, <1>1, UnsettledIs
  <2>2. UNCHANGED <<published, owed, settled>>
      BY <1>1, <2>1
  <2> QED BY <2>2 DEF Promise!delivery
<1>2. ASSUME NEW q \in Queues, NEW i \in DOMAIN unacked[q] PROVE unacked[q][i].event \in published
  <2> DEFINE D == [event : published, count : Nat,
                   at : {"handler", "answered", "stuck", "backoff", "dead"}]
  <2>1. unacked[q] \in Seq(D)
      BY DEF OfPublished
  <2>2. unacked[q][i] \in D
    <3> HIDE DEF D
    <3> QED BY <1>2, <2>1, SeqType
  <2> QED BY <2>2
<1>3. ASSUME NEW e \in Events, PublishEvent(e) PROVE Promise!Send(e)
  <2>1. \A q \in Queues, f \in Events : Owing(q, f)' <=> Owing(q, f) \/ f = e
    <3>1. \A q \in Queues, f \in Events : Waits(q, f)' <=> Waits(q, f) \/ f = e
        BY <1>3, TopicOwes DEF PublishEvent
    <3> QED BY <1>3, <3>1 DEF PublishEvent, Owing, Open
  <2>2. /\ e \notin published /\ published' = published \cup {e} /\ UNCHANGED <<handled, buried>>
      BY <1>3 DEF PublishEvent
  <2>3. \A q \in Queues : Unsettled(q)' = Unsettled(q) \cup {e}
      BY <1>0, <2>1, <2>2, UnsettledIs
  <2>4. owed' = [q \in Queues |-> owed[q] \cup {e}] /\ settled' = settled
      BY <2>2, <2>3
  <2> QED BY <2>2, <2>4 DEF Promise!Send, Promise!OweToAll
<1>4. ASSUME NEW q \in Queues, Deliver(q) PROVE UNCHANGED Promise!delivery
  <2>1. UNCHANGED <<published, handled, buried>>
      BY <1>4 DEF Deliver
  <2> QED BY <1>1, <1>4, <2>1, DeliverOwes
<1>5. ASSUME NEW q \in Queues, Halt(q) PROVE Promise!BringBack(q)
  <2> DEFINE back == (handled[q] \cup buried[q]) \cap Unsettled(q)'
  <2>1. /\ UNCHANGED <<published, handled, buried>>
        /\ \A p \in Queues \ {q} : UNCHANGED <<ready[p], unacked[p]>>
      BY <1>5 DEF Halt, BrokerTypes
  <2>2. \A p \in Queues \ {q} : Unsettled(p)' = Unsettled(p)
      BY <2>1 DEF Unsettled
  <2>3. Unsettled(q) \subseteq Unsettled(q)'
      BY <1>0, <1>5, <2>1, HaltOwes, UnsettledIs DEF Owing, Open
  <2>4. Unsettled(q)' \subseteq Unsettled(q) \cup handled[q] \cup buried[q]
      BY <1>0, <2>1, UnsettledIs, AccountedIsKept DEF Owed, Owing
  <2>5. Unsettled(q)' = Unsettled(q) \cup back
      BY <2>3, <2>4
  <2>6. back \in SUBSET settled[q]
      OBVIOUS
  <2> HIDE DEF back
  <2>7. owed' = [owed EXCEPT ![q] = @ \cup back] /\ settled' = settled
      BY <2>1, <2>2, <2>5
  <2> QED BY <2>1, <2>6, <2>7 DEF Promise!BringBack
<1>6. ASSUME NEW q \in Queues, NEW i \in 1..Prefetch, Complete(q, i) \/ Bury(q, i)
      PROVE  \E e \in Events : Promise!Settle(q, e)
  <2> DEFINE e == unacked[q][i].event
  <2>1. /\ UNCHANGED <<published, ready>> /\ Become(q, i, "answered")
        /\ Stage(q, i, "handler") \/ Stage(q, i, "dead")
        /\ \/ handled' = [handled EXCEPT ![q] = @ \cup {e}] /\ UNCHANGED buried
           \/ buried' = [buried EXCEPT ![q] = @ \cup {e}] /\ UNCHANGED handled
      BY <1>6 DEF Complete, Bury
  <2>2. /\ e \in Events /\ Open(q, e)
        /\ \A p \in Queues, f \in Events :
              /\ Open(p, f)' => Open(p, f)
              /\ Open(p, f) /\ (p # q \/ f # e) => Open(p, f)'
      BY <2>1, BecomeOwes
  <2>3. settled' = [settled EXCEPT ![q] = @ \cup {e}]
      BY <2>1 DEF BrokerTypes
  <2>4. e \in published
      BY <1>2, <2>1 DEF Stage
  <2> HIDE DEF e
  <2>5. \A p \in Queues, f \in Events :
           /\ Owing(p, f)' => Owing(p, f)
           /\ Owing(p, f) /\ (p # q \/ f # e) => Owing(p, f)'
      BY <2>1, <2>2 DEF Owing, Waits
  <2>6. /\ \A p \in Queues \ {q} : Unsettled(p)' = Unsettled(p)
        /\ Unsettled(q)' \in {Unsettled(q), Unsettled(q) \ {e}}
      BY <1>0, <2>1, <2>5, UnsettledIs
  <2>7. owed' = [owed EXCEPT ![q] = @ \ {e}] \/ owed' = owed
      BY <2>6
  <2>8. e \in owed[q]
      BY <2>2, <2>4, UnsettledIs DEF Owing
  <2> QED BY <2>1, <2>2, <2>3, <2>7, <2>8 DEF Promise!Settle
<1>7. ASSUME NEW q \in Queues, NEW i \in 1..Prefetch, Raise(q, i)
      PROVE  UNCHANGED Promise!delivery
  <2>1. /\ UNCHANGED <<published, ready, handled, buried>> /\ Stage(q, i, "handler")
        /\ \E to \in {"stuck", "backoff", "dead"} : Become(q, i, to)
      BY <1>7 DEF Raise
  <2>2. \A p \in Queues, f \in Events : Open(p, f)' <=> Open(p, f)
      BY <2>1, BecomeOwes
  <2>3. \A p \in Queues, f \in Events : Owing(p, f)' <=> Owing(p, f)
      BY <2>1, <2>2 DEF Owing, Waits
  <2> QED BY <1>1, <2>1, <2>3
<1>8. ASSUME NEW q \in Queues, NEW i \in 1..Prefetch, Republish(q, i)
      PROVE  \E e \in Events : Promise!SendAgain(q, e)
  <2> DEFINE e == unacked[q][i].event
  <2>1. /\ UNCHANGED <<published, handled, buried>> /\ Become(q, i, "answered")
        /\ Stage(q, i, "backoff") /\ ready' = ToTopic(e, unacked[q][i].count + 1)
      BY <1>8 DEF Republish
  <2>2. /\ e \in Events /\ Open(q, e)
        /\ \A p \in Queues, f \in Events :
              /\ Open(p, f)' => Open(p, f)
              /\ Open(p, f) /\ (p # q \/ f # e) => Open(p, f)'
      BY <2>1, BecomeOwes
  <2>3. unacked[q][i].count + 1 \in Nat
    <3>1. unacked[q][i] \in InHand
        BY <2>1 DEF Stage, BrokerTypes
    <3> QED BY <3>1 DEF InHand
  <2>4. \A p \in Queues, f \in Events : Waits(p, f)' <=> Waits(p, f) \/ f = e
      BY <2>1, <2>2, <2>3, TopicOwes
  <2>5. e \in published
      BY <1>2, <2>1 DEF Stage
  <2> HIDE DEF e
  <2>6. \A p \in Queues, f \in Events : Owing(p, f)' <=> Owing(p, f) \/ f = e
      BY <2>2, <2>4 DEF Owing
  <2>7. e \in owed[q]
      BY <2>2, <2>5, UnsettledIs DEF Owing
  <2>8. \A p \in Queues : Unsettled(p)' = Unsettled(p) \cup {e}
      BY <1>0, <2>1, <2>6, <2>5, UnsettledIs
  <2>9. owed' = [p \in Queues |-> owed[p] \cup {e}] /\ settled' = settled
      BY <2>1, <2>8
  <2> QED BY <2>1, <2>2, <2>7, <2>9 DEF Promise!SendAgain, Promise!OweToAll
<1>9. ASSUME NEW q \in Queues, NEW i \in 1..Prefetch, Ack(q, i) PROVE UNCHANGED Promise!delivery
  <2>1. UNCHANGED <<published, ready, handled, buried>>
      BY <1>9 DEF Ack
  <2>2. \A p \in Queues, f \in Events : Owing(p, f)' <=> Owing(p, f)
      BY <1>9, <2>1, AckOwes DEF Owing, Waits
  <2> QED BY <1>1, <2>1, <2>2
<1>10. CASE UNCHANGED brokerVars
    BY <1>1, <1>10 DEF brokerVars, Owing, Waits, Open
<1> QED BY <1>3, <1>4, <1>5, <1>6, <1>7, <1>8, <1>9, <1>10 DEF BrokerNext, Promise!DeliveryNext

\* The broker implements EventDelivery: whatever handlers raise and consumers
\* stop, an event ceases to be owed to a queue only when its consumer settles
\* it, and what was settled comes back only by a failed handler or a stop.
THEOREM KeepsDelivery == BrokerSpec => DeliveryKept
<1>1. BrokerInit => Promise!DeliveryInit
  <2> SUFFICES ASSUME BrokerInit PROVE Promise!DeliveryInit
      OBVIOUS
  <2>1. \A q \in Queues : Unsettled(q) = {} /\ handled[q] \cup buried[q] = {}
      BY DEF BrokerInit, Unsettled
  <2> QED BY <2>1 DEF BrokerInit, Promise!DeliveryInit
<1>2. BrokerTypes /\ OfPublished /\ EventAccounted /\ [BrokerNext]_brokerVars
      => [Promise!DeliveryNext]_(Promise!delivery)
    BY DeliverySimulation
<1>3. BrokerSpec => []BrokerTypes
    BY BrokerTypesInit, BrokerTypesStep, PTL DEF BrokerSpec
<1> QED BY <1>1, <1>2, <1>3, EventAccountedHolds, OfPublishedInit, OfPublishedStep, PTL
        DEF BrokerSpec, DeliveryKept, Promise!DeliverySpec

-----------------------------------------------------------------------------
\* How often a handler is called

LEMMA LeastNumber ==
    ASSUME NEW T \in SUBSET Nat, T # {}
    PROVE  \E n \in T : \A m \in T : n <= m
<1> DEFINE R == {x \in Nat \X Nat : x[1] < x[2]}
<1>1. IsWellFoundedOn(R, Nat)
    BY NatLessThanWellFounded, Zenon DEF OpToRel
<1>2. \A m, n \in Nat : m < n => <<m, n>> \in R
    OBVIOUS
<1> HIDE DEF R
<1>3. PICK n \in T : \A m \in T : <<m, n>> \notin R
    BY <1>1, WFMin
<1>4. ASSUME NEW m \in T PROVE n <= m
  <2>1. ~(m < n)
      BY <1>2, <1>3
  <2> QED BY <2>1
<1> QED BY <1>4

\* The limits up to n, as far as a list of them goes.
LimitsUpto(g, n) ==
    /\ g \in [0..n -> Nat] /\ g[0] = 1
    /\ \A k \in 1..n : g[k] = 1 + Cardinality(Queues) * g[k - 1]

LEMMA LimitsExist ==
    ASSUME Cardinality(Queues) \in Nat, NEW n \in Nat
    PROVE  \E g : LimitsUpto(g, n)
<1> DEFINE Bad == {m \in Nat : ~\E g : LimitsUpto(g, m)}
<1> SUFFICES ASSUME n \in Bad PROVE FALSE
    OBVIOUS
<1>1. PICK m \in Bad : \A l \in Bad : m <= l
  <2>1. Bad \in SUBSET Nat /\ Bad # {}
      OBVIOUS
  <2> HIDE DEF Bad
  <2> QED BY <2>1, LeastNumber
<1>2. m \in Nat /\ ~\E g : LimitsUpto(g, m)
    OBVIOUS
<1>3. CASE m = 0
  <2> DEFINE g == [k \in 0..0 |-> 1]
  <2>1. LimitsUpto(g, 0)
      BY DEF LimitsUpto
  <2> QED BY <1>2, <1>3, <2>1
<1>4. CASE m # 0
  <2>1. m - 1 \in Nat /\ m - 1 \notin Bad
    <3>1. m - 1 \in Nat /\ ~(m <= m - 1)
        BY <1>2, <1>4
    <3> HIDE DEF Bad
    <3> QED BY <1>1, <3>1
  <2>2. PICK h : LimitsUpto(h, m - 1)
      BY <2>1
  <2> DEFINE g == [k \in 0..m |-> IF k = m THEN 1 + Cardinality(Queues) * h[m - 1] ELSE h[k]]
  <2>3. h \in [0..m-1 -> Nat] /\ h[0] = 1 /\ m - 1 \in 0..m-1
        /\ \A k \in 1..m-1 : h[k] = 1 + Cardinality(Queues) * h[k - 1]
      BY <2>1, <2>2 DEF LimitsUpto
  <2>4. 1 + Cardinality(Queues) * h[m - 1] \in Nat
    <3>1. h[m - 1] \in Nat
        BY <2>3
    <3> QED BY <3>1
  <2>5. g \in [0..m -> Nat] /\ g[0] = 1
    <3>1. \A k \in 0..m : k # m => k \in 0..m-1
        BY <1>2
    <3> QED BY <1>2, <1>4, <2>3, <2>4, <3>1
  <2>6. ASSUME NEW k \in 1..m PROVE g[k] = 1 + Cardinality(Queues) * g[k - 1]
    <3>1. k - 1 \in 0..m /\ k - 1 # m /\ k \in 0..m
        BY <1>2
    <3>2. g[k - 1] = h[k - 1]
        BY <3>1
    <3>3. CASE k = m
        BY <3>1, <3>2, <3>3
    <3>4. CASE k # m
      <4>1. k \in 1..m-1 /\ g[k] = h[k]
          BY <1>2, <3>1, <3>4
      <4> HIDE DEF g
      <4> QED BY <2>3, <3>2, <4>1
    <3> QED BY <3>3, <3>4
  <2>7. LimitsUpto(g, m)
    <3> HIDE DEF g
    <3> QED BY <2>5, <2>6 DEF LimitsUpto
  <2> QED BY <1>2, <2>7
<1> QED BY <1>3, <1>4

LEMMA LimitsAgree ==
    ASSUME Cardinality(Queues) \in Nat, NEW n \in Nat, NEW m \in Nat,
           NEW g, LimitsUpto(g, n), NEW h, LimitsUpto(h, m), NEW k \in Nat, k <= n, k <= m
    PROVE  g[k] = h[k]
<1> DEFINE Bad == {l \in Nat : l <= n /\ l <= m /\ g[l] # h[l]}
<1> SUFFICES ASSUME k \in Bad PROVE FALSE
    OBVIOUS
<1>1. PICK l \in Bad : \A j \in Bad : l <= j
  <2>1. Bad \in SUBSET Nat /\ Bad # {}
      OBVIOUS
  <2> HIDE DEF Bad
  <2> QED BY <2>1, LeastNumber
<1>2. l \in Nat /\ l <= n /\ l <= m /\ g[l] # h[l]
    OBVIOUS
<1>3. l # 0
    BY <1>2 DEF LimitsUpto
<1>4. l - 1 \in Nat /\ l - 1 <= n /\ l - 1 <= m /\ ~(l <= l - 1) /\ l \in 1..n /\ l \in 1..m
    BY <1>2, <1>3
<1>5. l - 1 \notin Bad
  <2> HIDE DEF Bad
  <2> QED BY <1>1, <1>4
<1>6. g[l - 1] = h[l - 1]
    BY <1>4, <1>5
<1>7. g[l] = 1 + Cardinality(Queues) * g[l - 1] /\ h[l] = 1 + Cardinality(Queues) * h[l - 1]
    BY <1>4 DEF LimitsUpto
<1> QED BY <1>2, <1>6, <1>7

LEMMA RunLimitValues ==
    ASSUME BrokerAssumption
    PROVE  /\ Cardinality(Queues) \in Nat /\ RunLimit[0] = 1
           /\ \A n \in Nat : RunLimit[n] \in Nat
                             /\ RunLimit[n + 1] = 1 + Cardinality(Queues) * RunLimit[n]
<1> DEFINE N == Cardinality(Queues)
           List(n) == CHOOSE g : LimitsUpto(g, n)
           F == [n \in Nat |-> List(n)[n]]
<1>1. N \in Nat
    BY FS_CardinalityType DEF BrokerAssumption
<1>2. ASSUME NEW n \in Nat PROVE LimitsUpto(List(n), n)
    BY <1>1, <1>2, LimitsExist
<1> HIDE DEF List
<1>3. ASSUME NEW n \in Nat PROVE F[n] \in Nat
    BY <1>2 DEF LimitsUpto
<1>4. F[0] = 1
    BY <1>2 DEF LimitsUpto
<1>5. ASSUME NEW n \in Nat PROVE F[n + 1] = 1 + N * F[n]
  <2>1. List(n + 1)[n] = List(n)[n]
    <3>1. n + 1 \in Nat /\ n <= n + 1 /\ n <= n
        OBVIOUS
    <3>2. LimitsUpto(List(n + 1), n + 1) /\ LimitsUpto(List(n), n)
        BY <1>2, <3>1
    <3> QED BY <1>1, <3>1, <3>2, LimitsAgree
  <2>2. n + 1 \in Nat /\ n + 1 \in 1..(n + 1) /\ n + 1 - 1 = n
      OBVIOUS
  <2>3. LimitsUpto(List(n + 1), n + 1)
      BY <1>2, <2>2
  <2>4. List(n + 1)[n + 1] = 1 + N * List(n + 1)[n]
      BY <2>2, <2>3 DEF LimitsUpto
  <2>5. F[n + 1] = List(n + 1)[n + 1] /\ F[n] = List(n)[n]
      BY <2>2
  <2> QED BY <2>1, <2>4, <2>5
<1>6. F = [n \in Nat |-> IF n = 0 THEN 1 ELSE 1 + N * F[n - 1]]
  <2>1. ASSUME NEW n \in Nat PROVE F[n] = IF n = 0 THEN 1 ELSE 1 + N * F[n - 1]
    <3>1. CASE n = 0
        BY <1>4, <3>1
    <3>2. CASE n # 0
      <4>1. n - 1 \in Nat /\ n - 1 + 1 = n
          BY <3>2
      <4> HIDE DEF F
      <4>2. F[n - 1 + 1] = 1 + N * F[n - 1]
          BY <1>5, <4>1
      <4> QED BY <3>2, <4>1, <4>2
    <3> QED BY <3>1, <3>2
  <2> DEFINE G == [n \in Nat |-> IF n = 0 THEN 1 ELSE 1 + N * F[n - 1]]
  <2>2. F = [n \in Nat |-> F[n]]
      OBVIOUS
  <2> HIDE DEF F
  <2>3. [n \in Nat |-> F[n]] = G
      BY <2>1
  <2> QED BY <2>2, <2>3
<1> HIDE DEF F
<1>7. RunLimit = [n \in Nat |-> IF n = 0 THEN 1 ELSE 1 + N * RunLimit[n - 1]]
    BY <1>6, Zenon DEF RunLimit
<1>8. \A n \in Nat : RunLimit[n] = IF n = 0 THEN 1 ELSE 1 + N * RunLimit[n - 1]
    BY <1>7
<1>9. RunLimit[0] = 1
    BY <1>8
<1>10. \A n \in Nat : RunLimit[n + 1] = 1 + N * RunLimit[n]
  <2>1. \A n \in Nat : n + 1 \in Nat /\ n + 1 # 0 /\ n + 1 - 1 = n
      OBVIOUS
  <2> QED BY <1>8, <2>1
<1>11. ASSUME NEW n \in Nat PROVE RunLimit[n] \in Nat
  <2> DEFINE Bad == {m \in Nat : RunLimit[m] \notin Nat}
  <2> SUFFICES ASSUME n \in Bad PROVE FALSE
      OBVIOUS
  <2>1. PICK m \in Bad : \A l \in Bad : m <= l
    <3>1. Bad \in SUBSET Nat /\ Bad # {}
        OBVIOUS
    <3> HIDE DEF Bad
    <3> QED BY <3>1, LeastNumber
  <2>2. m \in Nat /\ RunLimit[m] \notin Nat
      OBVIOUS
  <2>3. m # 0
      BY <1>9, <2>2
  <2>4. m - 1 \in Nat /\ ~(m <= m - 1) /\ m - 1 + 1 = m
      BY <2>2, <2>3
  <2>5. m - 1 \notin Bad
    <3> HIDE DEF Bad
    <3> QED BY <2>1, <2>4
  <2>6. RunLimit[m - 1] \in Nat
      BY <2>4, <2>5
  <2>7. RunLimit[m] = 1 + N * RunLimit[m - 1]
      BY <1>10, <2>4
  <2>8. 1 + N * RunLimit[m - 1] \in Nat
      BY <1>1, <2>6
  <2> QED BY <2>2, <2>7, <2>8
<1> QED BY <1>1, <1>9, <1>10, <1>11

-----------------------------------------------------------------------------
\* Counting in a queue

\* The places of s that hold a member of V.
Hits(s, V) == {i \in DOMAIN s : s[i] \in V}

LEMMA HitsCount ==
    ASSUME NEW S, NEW s \in Seq(S), NEW V
    PROVE  /\ DOMAIN s = 1..Len(s) /\ Len(s) \in Nat
           /\ IsFiniteSet(Hits(s, V)) /\ Cardinality(Hits(s, V)) \in Nat
<1>1. DOMAIN s = 1..Len(s) /\ Len(s) \in Nat
    OBVIOUS
<1>2. IsFiniteSet(1..Len(s))
    BY <1>1, FS_Interval
<1>3. Hits(s, V) \in SUBSET (1..Len(s))
    BY <1>1 DEF Hits
<1>4. IsFiniteSet(Hits(s, V))
    BY <1>2, <1>3, FS_Subset
<1> QED BY <1>1, <1>4, FS_CardinalityType

LEMMA HitsAppend ==
    ASSUME NEW S, NEW s \in Seq(S), NEW x \in S, NEW V
    PROVE  Cardinality(Hits(Append(s, x), V))
               = Cardinality(Hits(s, V)) + (IF x \in V THEN 1 ELSE 0)
<1>1. /\ \A i \in DOMAIN s : s[i] \in S /\ Append(s, x)[i] = s[i]
      /\ DOMAIN s = 1..Len(s) /\ DOMAIN Append(s, x) = 1..(Len(s) + 1) /\ Len(s) \in Nat
      /\ Append(s, x)[Len(s) + 1] = x
    BY SeqHas
<1>2. IsFiniteSet(Hits(s, V)) /\ Cardinality(Hits(s, V)) \in Nat
    BY HitsCount
<1>3. Len(s) + 1 \notin Hits(s, V)
    BY <1>1 DEF Hits
<1>4. CASE x \in V
  <2>1. Hits(Append(s, x), V) = Hits(s, V) \cup {Len(s) + 1}
      BY <1>1, <1>4 DEF Hits
  <2> QED BY <1>2, <1>3, <1>4, <2>1, FS_AddElement
<1>5. CASE x \notin V
  <2>1. Hits(Append(s, x), V) = Hits(s, V)
      BY <1>1, <1>5 DEF Hits
  <2> QED BY <1>2, <1>5, <2>1
<1> QED BY <1>4, <1>5

LEMMA HitsTail ==
    ASSUME NEW S, NEW s \in Seq(S), s # <<>>, NEW V
    PROVE  Cardinality(Hits(s, V))
               = Cardinality(Hits(Tail(s), V)) + (IF Head(s) \in V THEN 1 ELSE 0)
<1> DEFINE T == {n \in 2..Len(s) : s[n] \in V}
           f == [n \in Hits(Tail(s), V) |-> n + 1]
<1>1. /\ DOMAIN s = 1..Len(s) /\ Len(s) \in Nat
      /\ IsFiniteSet(Hits(s, V)) /\ Cardinality(Hits(s, V)) \in Nat
    BY HitsCount
<1>2. /\ Tail(s) \in Seq(S) /\ Len(Tail(s)) = Len(s) - 1 /\ Len(s) # 0
      /\ \A i \in 1..Len(Tail(s)) : Tail(s)[i] = s[i + 1]
    BY HeadTailProperties, EmptySeq
<1>3. /\ DOMAIN Tail(s) = 1..(Len(s) - 1)
      /\ IsFiniteSet(Hits(Tail(s), V)) /\ Cardinality(Hits(Tail(s), V)) \in Nat
    BY <1>2, HitsCount
<1>4. f \in Bijection(Hits(Tail(s), V), T)
  <2>1. ASSUME NEW n \in Hits(Tail(s), V) PROVE f[n] \in T /\ f[n] = n + 1 /\ n \in Nat
    <3>1. n \in 1..(Len(s) - 1) /\ Tail(s)[n] \in V
        BY <1>3 DEF Hits
    <3>2. Tail(s)[n] = s[n + 1] /\ n + 1 \in 2..Len(s)
        BY <1>1, <1>2, <3>1
    <3> QED BY <3>1, <3>2
  <2>2. ASSUME NEW m \in T PROVE \E n \in Hits(Tail(s), V) : f[n] = m
    <3>1. m - 1 \in 1..(Len(s) - 1) /\ m - 1 + 1 = m
        BY <1>1
    <3>2. Tail(s)[m - 1] = s[m]
        BY <1>2, <3>1
    <3>3. m - 1 \in Hits(Tail(s), V)
        BY <1>3, <3>1, <3>2 DEF Hits
    <3> QED BY <3>1, <3>3
  <2>3. f \in [Hits(Tail(s), V) -> T]
      BY <2>1
  <2>4. f \in Injection(Hits(Tail(s), V), T)
      BY <2>1, <2>3 DEF Injection, IsInjective
  <2>5. f \in Surjection(Hits(Tail(s), V), T)
      BY <2>2, <2>3 DEF Surjection
  <2> QED BY <2>4, <2>5 DEF Bijection
<1>5. IsFiniteSet(T) /\ Cardinality(T) = Cardinality(Hits(Tail(s), V))
    BY <1>3, <1>4, FS_Bijection DEF ExistsBijection
<1>6. Head(s) = s[1] /\ 1 \notin T
    BY <1>1
<1>7. CASE Head(s) \notin V
  <2>1. Hits(s, V) = T
      BY <1>1, <1>2, <1>6, <1>7 DEF Hits
  <2> QED BY <1>3, <1>5, <1>7, <2>1
<1>8. CASE Head(s) \in V
  <2>1. Hits(s, V) = T \cup {1}
      BY <1>1, <1>2, <1>6, <1>8 DEF Hits
  <2> QED BY <1>3, <1>5, <1>6, <1>8, <2>1, FS_AddElement
<1> QED BY <1>7, <1>8

\* An element replaced by one that is not there to begin with.
LEMMA HitsReplace ==
    ASSUME NEW S, NEW s \in Seq(S), NEW i \in DOMAIN s, NEW y \in S, NEW V,
           y \in V => s[i] \in V
    PROVE  Cardinality(Hits([s EXCEPT ![i] = y], V))
               = Cardinality(Hits(s, V)) - (IF s[i] \in V /\ y \notin V THEN 1 ELSE 0)
<1>1. IsFiniteSet(Hits(s, V)) /\ Cardinality(Hits(s, V)) \in Nat
    BY HitsCount
<1>2. CASE s[i] \in V /\ y \notin V
  <2>1. Hits([s EXCEPT ![i] = y], V) = Hits(s, V) \ {i} /\ i \in Hits(s, V)
      BY <1>2 DEF Hits
  <2> QED BY <1>1, <1>2, <2>1, FS_RemoveElement
<1>3. CASE ~(s[i] \in V /\ y \notin V)
  <2>1. Hits([s EXCEPT ![i] = y], V) = Hits(s, V)
      BY <1>3 DEF Hits
  <2> QED BY <1>1, <1>3, <2>1
<1> QED BY <1>2, <1>3

LEMMA HitsRemove ==
    ASSUME NEW S, NEW s \in Seq(S), NEW i \in DOMAIN s, NEW V
    PROVE  Cardinality(Hits(RemoveAt(s, i), V)) <= Cardinality(Hits(s, V))
<1> DEFINE t == RemoveAt(s, i)
           f == [k \in Hits(t, V) |-> IF k < i THEN k ELSE k + 1]
<1>1. /\ DOMAIN s = 1..Len(s) /\ Len(s) \in Nat /\ i \in 1..Len(s)
      /\ IsFiniteSet(Hits(s, V))
    BY HitsCount
<1>2. /\ DOMAIN t = 1..(Len(s) - 1)
      /\ \A k \in DOMAIN t : t[k] = IF k < i THEN s[k] ELSE s[k + 1]
    BY RemovedElements
<1> HIDE DEF t
<1>3. \A k \in Hits(t, V) : f[k] \in Hits(s, V) /\ k \in Nat
    BY <1>1, <1>2 DEF Hits
<1>4. f \in Injection(Hits(t, V), Hits(s, V))
    BY <1>1, <1>3 DEF Injection, IsInjective
<1> QED BY <1>1, <1>4, FS_Injection DEF t

-----------------------------------------------------------------------------
\* What a copy may still bring on

\* The calls of one handler that retries of a copy of count n may bring.
Spare(n) == IF n < Retries THEN RunLimit[Retries - n - 1] ELSE 0

\* Copies of the event in a queue; deliveries of it that may be retried, by count.
CopiesOf(e) == {c \in Copies : c.event = e}
CopiesAt(e, n) == {c \in Copies : c.event = e /\ c.count = n}
Live(e, n) == {d \in InHand : d.event = e /\ d.count = n /\ d.at \in {"handler", "backoff"}}

InQueue(q, e) == Cardinality(Hits(ready[q], CopiesOf(e)))
Pending(q, e, n) == Cardinality(Hits(ready[q], CopiesAt(e, n)))
                        + Cardinality(Hits(unacked[q], Live(e, n)))

\* One member for each call that is still to be feared.
Calls(e) == {x \in Queues \X Nat \X Nat \X Nat :
                 x[3] \in 1..Pending(x[1], e, x[2]) /\ x[4] \in 1..Spare(x[2])}

LEMMA SpareSplits ==
    ASSUME BrokerAssumption
    PROVE  /\ \A n \in Nat : Spare(n) \in Nat
           /\ \A n \in Nat : n < Retries => Spare(n) = 1 + Cardinality(Queues) * Spare(n + 1)
           /\ RunLimit[Retries] = 1 + Cardinality(Queues) * Spare(0) /\ RunLimit[Retries] \in Nat
<1> DEFINE N == Cardinality(Queues)
<1>1. /\ N \in Nat /\ RunLimit[0] = 1 /\ Retries \in Nat
      /\ \A n \in Nat : RunLimit[n] \in Nat /\ RunLimit[n + 1] = 1 + N * RunLimit[n]
    BY RunLimitValues DEF BrokerAssumption
<1> HIDE DEF N
<1>2. N * 0 = 0
    BY <1>1
<1>3. ASSUME NEW n \in Nat PROVE Spare(n) \in Nat
  <2>1. n < Retries => Retries - n - 1 \in Nat
      BY <1>1
  <2> QED BY <1>1, <2>1 DEF Spare
<1>4. ASSUME NEW n \in Nat, n < Retries PROVE Spare(n) = 1 + N * Spare(n + 1)
  <2>1. CASE n + 1 < Retries
    <3> DEFINE m == Retries - (n + 1) - 1
    <3>1. m \in Nat /\ m + 1 = Retries - n - 1
        BY <1>1, <2>1
    <3>2. Spare(n + 1) = RunLimit[m] /\ Spare(n) = RunLimit[m + 1]
        BY <1>4, <2>1, <3>1 DEF Spare
    <3> HIDE DEF m
    <3> QED BY <1>1, <3>1, <3>2
  <2>2. CASE ~(n + 1 < Retries)
    <3>1. Retries - n - 1 = 0
        BY <1>1, <1>4, <2>2
    <3>2. Spare(n + 1) = 0 /\ Spare(n) = 1
        BY <1>1, <1>4, <2>2, <3>1 DEF Spare
    <3> QED BY <1>2, <3>2
  <2> QED BY <2>1, <2>2
<1>5. RunLimit[Retries] = 1 + N * Spare(0)
  <2>1. CASE Retries = 0
      BY <1>1, <1>2, <2>1 DEF Spare
  <2>2. CASE Retries # 0
    <3> DEFINE m == Retries - 0 - 1
    <3>1. m \in Nat /\ m + 1 = Retries /\ 0 < Retries
        BY <1>1, <2>2
    <3>2. Spare(0) = RunLimit[m]
        BY <3>1 DEF Spare
    <3> HIDE DEF m
    <3>3. RunLimit[m + 1] = 1 + N * RunLimit[m]
        BY <1>1, <3>1
    <3> QED BY <3>1, <3>2, <3>3
  <2> QED BY <2>1, <2>2
<1> QED BY <1>1, <1>3, <1>4, <1>5 DEF N

LEMMA CountsNat ==
    ASSUME NEW r \in Seq(Copies), NEW u \in Seq(InHand), NEW e, NEW n
    PROVE  /\ Cardinality(Hits(r, CopiesAt(e, n))) \in Nat
           /\ Cardinality(Hits(u, Live(e, n))) \in Nat
           /\ Cardinality(Hits(r, CopiesOf(e))) \in Nat
<1>1. Cardinality(Hits(r, CopiesAt(e, n))) \in Nat
    BY HitsCount
<1>2. Cardinality(Hits(u, Live(e, n))) \in Nat
    BY HitsCount
<1>3. Cardinality(Hits(r, CopiesOf(e))) \in Nat
    BY HitsCount
<1> QED BY <1>1, <1>2, <1>3

LEMMA PendingNat ==
    ASSUME NEW q \in Queues, NEW e, NEW n
    PROVE  /\ BrokerTypes => Pending(q, e, n) \in Nat /\ InQueue(q, e) \in Nat
           /\ BrokerTypes' => Pending(q, e, n)' \in Nat /\ InQueue(q, e)' \in Nat
<1>1. ASSUME BrokerTypes PROVE Pending(q, e, n) \in Nat /\ InQueue(q, e) \in Nat
  <2>1. ready[q] \in Seq(Copies) /\ unacked[q] \in Seq(InHand)
      BY <1>1 DEF BrokerTypes
  <2>2. /\ Cardinality(Hits(ready[q], CopiesAt(e, n))) \in Nat
        /\ Cardinality(Hits(unacked[q], Live(e, n))) \in Nat
        /\ Cardinality(Hits(ready[q], CopiesOf(e))) \in Nat
      BY <2>1, CountsNat
  <2> QED BY <2>2 DEF Pending, InQueue
<1>2. ASSUME BrokerTypes' PROVE Pending(q, e, n)' \in Nat /\ InQueue(q, e)' \in Nat
  <2>1. ready'[q] \in Seq(Copies) /\ unacked'[q] \in Seq(InHand)
      BY <1>2 DEF BrokerTypes
  <2>2. /\ Cardinality(Hits(ready'[q], CopiesAt(e, n))) \in Nat
        /\ Cardinality(Hits(unacked'[q], Live(e, n))) \in Nat
        /\ Cardinality(Hits(ready'[q], CopiesOf(e))) \in Nat
      BY <2>1, CountsNat
  <2> QED BY <2>2 DEF Pending, InQueue
<1> QED BY <1>1, <1>2

\* A step after which less is pending brings no new call.
LEMMA CallsShrink ==
    ASSUME BrokerTypes, BrokerTypes', NEW e, IsFiniteSet(Calls(e)),
           \A q \in Queues, n \in Nat : Pending(q, e, n)' <= Pending(q, e, n)
    PROVE  /\ IsFiniteSet(Calls(e)') /\ Cardinality(Calls(e)') <= Cardinality(Calls(e))
<1>1. Calls(e)' \subseteq Calls(e)
  <2> SUFFICES ASSUME NEW x \in Calls(e)' PROVE x \in Calls(e)
      OBVIOUS
  <2>1. /\ x \in Queues \X Nat \X Nat \X Nat /\ x[1] \in Queues /\ x[2] \in Nat /\ x[3] \in Nat
        /\ x[3] \in 1..Pending(x[1], e, x[2])' /\ x[4] \in 1..Spare(x[2])
      BY DEF Calls, Spare
  <2>2. Pending(x[1], e, x[2])' <= Pending(x[1], e, x[2])
      BY <2>1
  <2>3. Pending(x[1], e, x[2]) \in Nat
      BY <2>1, PendingNat
  <2>4. Pending(x[1], e, x[2])' \in Nat
      BY <2>1, PendingNat
  <2>5. x[3] \in 1..Pending(x[1], e, x[2])
      BY <2>1, <2>2, <2>3, <2>4
  <2> QED BY <2>1, <2>5 DEF Calls
<1> QED BY <1>1, FS_Subset

\* The calls that copies of count n, one more in each queue, may bring.
Fan(at, n) == {x \in Queues \X Nat \X Nat \X Nat :
                   x[2] = n /\ x[3] = at[x[1]] /\ x[4] \in 1..Spare(n)}

LEMMA FanCount ==
    ASSUME BrokerAssumption, NEW at \in [Queues -> Nat], NEW n \in Nat
    PROVE  /\ IsFiniteSet(Fan(at, n)) /\ Cardinality(Fan(at, n)) \in Nat
           /\ Cardinality(Fan(at, n)) <= Cardinality(Queues) * Spare(n)
<1> DEFINE P == Queues \X (1..Spare(n))
           f == [x \in P |-> <<x[1], n, at[x[1]], x[2]>>]
<1>1. Spare(n) \in Nat /\ IsFiniteSet(Queues)
    BY SpareSplits DEF BrokerAssumption
<1>2. IsFiniteSet(1..Spare(n)) /\ Cardinality(1..Spare(n)) = Spare(n)
    BY <1>1, FS_Interval
<1>3. IsFiniteSet(P) /\ Cardinality(P) = Cardinality(Queues) * Spare(n)
    BY <1>1, <1>2, FS_Product
<1>4. ASSUME NEW x \in P PROVE f[x] \in Fan(at, n)
    BY DEF Fan
<1>5. ASSUME NEW y \in Fan(at, n) PROVE \E x \in P : f[x] = y
  <2>1. y \in Queues \X Nat \X Nat \X Nat /\ y[2] = n /\ y[3] = at[y[1]] /\ y[4] \in 1..Spare(n)
      BY DEF Fan
  <2>2. <<y[1], y[4]>> \in P /\ f[<<y[1], y[4]>>] = <<y[1], y[2], y[3], y[4]>>
      BY <2>1
  <2>3. <<y[1], y[2], y[3], y[4]>> = y
      BY <2>1
  <2> QED BY <2>2, <2>3
<1>6. f \in [P -> Fan(at, n)]
    BY <1>4
<1>7. f \in Surjection(P, Fan(at, n))
    BY <1>5, <1>6 DEF Surjection
<1> HIDE DEF P, f
<1>8. IsFiniteSet(Fan(at, n)) /\ Cardinality(Fan(at, n)) <= Cardinality(P)
    BY <1>3, <1>7, FS_Surjection
<1> QED BY <1>3, <1>8, FS_CardinalityType

\* Those that go when the last of them that are pending at a queue goes.
Gone(e, q, n) == {x \in Calls(e) : x[1] = q /\ x[2] = n /\ x[3] = Pending(q, e, n)}

LEMMA GoneCount ==
    ASSUME BrokerAssumption, BrokerTypes, NEW e, IsFiniteSet(Calls(e)),
           NEW q \in Queues, NEW n \in Nat, Pending(q, e, n) # 0
    PROVE  /\ Gone(e, q, n) \subseteq Calls(e) /\ IsFiniteSet(Gone(e, q, n))
           /\ Cardinality(Gone(e, q, n)) \in Nat /\ Spare(n) <= Cardinality(Gone(e, q, n))
<1> DEFINE G == Gone(e, q, n)
           p == Pending(q, e, n)
           f == [x \in G |-> x[4]]
<1>1. G \subseteq Calls(e)
    BY DEF Gone
<1>2. IsFiniteSet(G) /\ Cardinality(G) \in Nat
    BY <1>1, FS_Subset, FS_CardinalityType
<1>3. p \in Nat /\ p # 0 /\ Spare(n) \in Nat
    BY PendingNat, SpareSplits
<1>4. ASSUME NEW k \in 1..Spare(n) PROVE \E x \in G : f[x] = k
  <2> DEFINE x == <<q, n, p, k>>
  <2>1. x \in Queues \X Nat \X Nat \X Nat /\ x[1] = q /\ x[2] = n /\ x[3] = p /\ x[4] = k
      BY <1>3
  <2>2. p \in 1..p
      BY <1>3
  <2> HIDE DEF x
  <2>3. x \in Calls(e)
      BY <2>1, <2>2 DEF Calls
  <2>4. x \in G
      BY <2>1, <2>3 DEF Gone
  <2> QED BY <2>1, <2>4
<1>5. ASSUME NEW x \in G PROVE f[x] \in 1..Spare(n)
    BY DEF Gone, Calls
<1>6. f \in Surjection(G, 1..Spare(n))
    BY <1>4, <1>5 DEF Surjection
<1>7. Cardinality(1..Spare(n)) = Spare(n)
    BY <1>3, FS_Interval
<1>8. Spare(n) <= Cardinality(G)
  <2> HIDE DEF f
  <2> QED BY <1>2, <1>6, <1>7, FS_Surjection
<1> QED BY <1>1, <1>2, <1>8

\* What a step makes of the copies in a queue, and of its deliveries.
LEMMA TopicCounts ==
    ASSUME BrokerTypes, NEW e \in Events, NEW m \in Nat, ready' = ToTopic(e, m),
           NEW q \in Queues, NEW f \in Events
    PROVE  /\ InQueue(q, f)' = InQueue(q, f) + (IF f = e THEN 1 ELSE 0)
           /\ \A n \in Nat : Cardinality(Hits(ready'[q], CopiesAt(f, n)))
                  = Cardinality(Hits(ready[q], CopiesAt(f, n))) + (IF f = e /\ n = m THEN 1 ELSE 0)
<1> DEFINE c == [event |-> e, count |-> m]
<1>1. c \in Copies /\ c.event = e /\ c.count = m
    BY DEF Copies
<1>2. ready'[q] = Append(ready[q], c) /\ ready[q] \in Seq(Copies)
    BY DEF ToTopic, Bindings, BrokerTypes
<1> HIDE DEF c
<1>3. \A V : Cardinality(Hits(ready'[q], V))
                 = Cardinality(Hits(ready[q], V)) + (IF c \in V THEN 1 ELSE 0)
    BY <1>1, <1>2, HitsAppend
<1>4. c \in CopiesOf(f) <=> f = e
    BY <1>1 DEF CopiesOf
<1>5. \A n \in Nat : c \in CopiesAt(f, n) <=> f = e /\ n = m
    BY <1>1 DEF CopiesAt
<1>6. InQueue(q, f)' = InQueue(q, f) + (IF f = e THEN 1 ELSE 0)
    BY <1>3, <1>4 DEF InQueue
<1>7. ASSUME NEW n \in Nat
      PROVE  Cardinality(Hits(ready'[q], CopiesAt(f, n)))
                 = Cardinality(Hits(ready[q], CopiesAt(f, n))) + (IF f = e /\ n = m THEN 1 ELSE 0)
  <2>1. Cardinality(Hits(ready'[q], CopiesAt(f, n)))
            = Cardinality(Hits(ready[q], CopiesAt(f, n))) + (IF c \in CopiesAt(f, n) THEN 1 ELSE 0)
      BY <1>3
  <2> QED BY <1>5, <2>1
<1> QED BY <1>6, <1>7

LEMMA BecomeCounts ==
    ASSUME BrokerTypes, NEW q \in Queues, NEW i, NEW stage, NEW to, Stage(q, i, stage),
           Become(q, i, to), to \in {"handler", "answered", "stuck", "backoff", "dead"},
           to \in {"handler", "backoff"} => stage \in {"handler", "backoff"},
           NEW p \in Queues, NEW f, NEW n
    PROVE  Cardinality(Hits(unacked'[p], Live(f, n))) = Cardinality(Hits(unacked[p], Live(f, n)))
               - (IF /\ p = q /\ unacked[q][i] \in Live(f, n) /\ to \notin {"handler", "backoff"}
                  THEN 1 ELSE 0)
<1>1. /\ unacked \in [Queues -> Seq(InHand)] /\ i \in DOMAIN unacked[q]
      /\ unacked[q][i].at = stage
      /\ unacked' = [unacked EXCEPT ![q] = [unacked[q] EXCEPT ![i] = [unacked[q][i] EXCEPT !.at = to]]]
    BY DEF Become, Stage, BrokerTypes
<1>2. unacked[q] \in Seq(InHand) /\ unacked[q][i] \in InHand
    BY <1>1
<1> DEFINE y == [unacked[q][i] EXCEPT !.at = to]
<1>3. /\ y \in InHand /\ y.event = unacked[q][i].event /\ y.count = unacked[q][i].count
      /\ y.at = to
    BY <1>2 DEF InHand
<1>4. unacked'[q] = [unacked[q] EXCEPT ![i] = y] /\ (p # q => unacked'[p] = unacked[p])
    BY <1>1
<1> HIDE DEF y
<1>5. y \in Live(f, n) <=> unacked[q][i] \in Live(f, n) /\ to \in {"handler", "backoff"}
    BY <1>1, <1>2, <1>3 DEF Live
<1>6. Cardinality(Hits(unacked[p], Live(f, n))) \in Nat
    BY <1>1, HitsCount
<1>7. CASE p # q
    BY <1>4, <1>6, <1>7
<1>8. CASE p = q
  <2>1. Cardinality(Hits([unacked[q] EXCEPT ![i] = y], Live(f, n)))
            = Cardinality(Hits(unacked[q], Live(f, n)))
                  - (IF unacked[q][i] \in Live(f, n) /\ y \notin Live(f, n) THEN 1 ELSE 0)
    <3> DEFINE u == unacked[q]
               L == Live(f, n)
    <3>1. u \in Seq(InHand) /\ i \in DOMAIN u /\ y \in InHand /\ (y \in L => u[i] \in L)
        BY <1>1, <1>2, <1>3, <1>5
    <3> HIDE DEF u, L
    <3>2. Cardinality(Hits([u EXCEPT ![i] = y], L))
              = Cardinality(Hits(u, L)) - (IF u[i] \in L /\ y \notin L THEN 1 ELSE 0)
        BY <3>1, HitsReplace
    <3> QED BY <3>2 DEF u, L
  <2> QED BY <1>4, <1>5, <1>8, <2>1
<1> QED BY <1>7, <1>8

-----------------------------------------------------------------------------
\* The calls that were made and that may come stay within the limit

BackoffInv ==
    \A q \in Queues : \A i \in DOMAIN unacked[q] :
        unacked[q][i].at = "backoff" => unacked[q][i].count < Retries

RunTypes == runs \in [Queues -> [Events -> Nat]] /\ halts \in Nat

InBudget(e) ==
    /\ IsFiniteSet(Calls(e))
    /\ \A q \in Queues : runs[q][e] + InQueue(q, e) + Cardinality(Calls(e)) <= RunLimit[Retries]

Untouched(e) ==
    \A q \in Queues : /\ runs[q][e] = 0 /\ InQueue(q, e) = 0
                      /\ \A n \in Nat : Pending(q, e, n) = 0

RunsInv ==
    /\ BrokerTypes /\ RunTypes /\ BackoffInv
    /\ halts = 0 => \A e \in Events : IF e \in published THEN InBudget(e) ELSE Untouched(e)

LEMMA BackoffStep ==
    ASSUME BrokerTypes, BackoffInv, [BrokerNext]_brokerVars
    PROVE  BackoffInv'
<1>1. CASE UNCHANGED unacked
    BY <1>1 DEF BackoffInv
<1>2. ASSUME NEW q \in Queues, Deliver(q) PROVE BackoffInv'
  <2> DEFINE d == [event |-> Head(ready[q]).event, count |-> Head(ready[q]).count,
                   at |-> "handler"]
  <2>1. ready[q] \in Seq(Copies) /\ ready[q] # <<>> /\ unacked[q] \in Seq(InHand)
      BY <1>2 DEF Deliver, BrokerTypes
  <2>2. Head(ready[q]) \in Copies
      BY <2>1, HeadTailProperties
  <2>3. d \in InHand /\ d.at = "handler"
      BY <2>2 DEF Copies, InHand
  <2>4. unacked' = [unacked EXCEPT ![q] = Append(unacked[q], d)]
      BY <1>2 DEF Deliver
  <2> HIDE DEF d
  <2>5. /\ DOMAIN unacked[q] = 1..Len(unacked[q]) /\ Len(unacked[q]) \in Nat
        /\ DOMAIN Append(unacked[q], d) = 1..(Len(unacked[q]) + 1)
        /\ \A i \in DOMAIN unacked[q] : Append(unacked[q], d)[i] = unacked[q][i]
        /\ Append(unacked[q], d)[Len(unacked[q]) + 1] = d
      BY <2>1, <2>3, SeqHas
  <2>6. ASSUME NEW i \in DOMAIN Append(unacked[q], d)
        PROVE  i \in DOMAIN unacked[q] \/ i = Len(unacked[q]) + 1
      BY <2>5
  <2>7. \A p \in Queues : unacked'[p] = IF p = q THEN Append(unacked[q], d) ELSE unacked[p]
      BY <2>4 DEF BrokerTypes
  <2>8. \A i \in DOMAIN Append(unacked[q], d) :
            Append(unacked[q], d)[i].at = "backoff" => Append(unacked[q], d)[i].count < Retries
      BY <2>3, <2>5, <2>6 DEF BackoffInv
  <2> QED BY <2>7, <2>8 DEF BackoffInv
<1>3. ASSUME NEW q \in Queues, NEW i \in 1..Prefetch,
             Complete(q, i) \/ Raise(q, i) \/ Republish(q, i) \/ Bury(q, i)
      PROVE  BackoffInv'
  <2>1. PICK stage, to : /\ Stage(q, i, stage) /\ Become(q, i, to)
                         /\ to = "backoff" => unacked[q][i].count < Retries
      BY <1>3 DEF Complete, Raise, Republish, Bury
  <2>2. /\ unacked \in [Queues -> Seq(InHand)] /\ i \in DOMAIN unacked[q]
        /\ unacked' = [unacked EXCEPT ![q] = [unacked[q] EXCEPT ![i] = [unacked[q][i] EXCEPT !.at = to]]]
      BY <2>1 DEF Become, Stage, BrokerTypes
  <2>3. unacked[q] \in Seq(InHand) /\ unacked[q][i] \in InHand
      BY <2>2
  <2> DEFINE y == [unacked[q][i] EXCEPT !.at = to]
  <2>4. y.at = to /\ y.count = unacked[q][i].count
      BY <2>3 DEF InHand
  <2>5. \A p \in Queues : unacked'[p] = IF p = q THEN [unacked[q] EXCEPT ![i] = y] ELSE unacked[p]
      BY <2>2
  <2> HIDE DEF y
  <2>6. ASSUME NEW j \in DOMAIN [unacked[q] EXCEPT ![i] = y],
               [unacked[q] EXCEPT ![i] = y][j].at = "backoff"
        PROVE  [unacked[q] EXCEPT ![i] = y][j].count < Retries
      BY <2>1, <2>4, <2>6 DEF BackoffInv
  <2> QED BY <2>5, <2>6 DEF BackoffInv
<1>4. ASSUME NEW q \in Queues, NEW i \in 1..Prefetch, Ack(q, i) PROVE BackoffInv'
  <2>1. unacked[q] \in Seq(InHand) /\ i \in DOMAIN unacked[q]
      BY <1>4 DEF Ack, Stage, BrokerTypes
  <2>2. \A p \in Queues : unacked'[p] = IF p = q THEN RemoveAt(unacked[q], i) ELSE unacked[p]
      BY <1>4 DEF Ack, BrokerTypes
  <2>3. ASSUME NEW k \in DOMAIN RemoveAt(unacked[q], i)
        PROVE  \E j \in DOMAIN unacked[q] : RemoveAt(unacked[q], i)[k] = unacked[q][j]
    <3>1. /\ DOMAIN RemoveAt(unacked[q], i) = 1..(Len(unacked[q]) - 1)
          /\ RemoveAt(unacked[q], i)[k] = IF k < i THEN unacked[q][k] ELSE unacked[q][k + 1]
        BY <2>1, RemovedElements
    <3>2. DOMAIN unacked[q] = 1..Len(unacked[q]) /\ Len(unacked[q]) \in Nat
        BY <2>1
    <3>3. k \in DOMAIN unacked[q] /\ k + 1 \in DOMAIN unacked[q]
        BY <3>1, <3>2
    <3> QED BY <3>1, <3>3
  <2> QED BY <2>2, <2>3 DEF BackoffInv
<1>5. ASSUME NEW q \in Queues, Halt(q) PROVE BackoffInv'
  <2>1. \A p \in Queues : unacked'[p] = IF p = q THEN <<>> ELSE unacked[p]
      BY <1>5 DEF Halt, BrokerTypes
  <2> QED BY <2>1 DEF BackoffInv
<1> QED BY <1>1, <1>2, <1>3, <1>4, <1>5 DEF BrokerNext, PublishEvent, brokerVars

\* For the event a call is made of a copy that waited, or none, and no more is
\* pending than was.
Calmer(e) ==
    \A q \in Queues : /\ runs'[q][e] + InQueue(q, e)' = runs[q][e] + InQueue(q, e)
                      /\ \A n \in Nat : Pending(q, e, n)' <= Pending(q, e, n)

LEMMA CalmKeeps ==
    ASSUME BrokerAssumption, BrokerTypes, BrokerTypes', RunTypes, RunTypes', NEW e \in Events,
           Calmer(e)
    PROVE  /\ InBudget(e) => InBudget(e)'
           /\ Untouched(e) => Untouched(e)'
<1>0. \A q \in Queues : runs[q][e] \in Nat /\ runs'[q][e] \in Nat
    BY DEF RunTypes
<1>1. RunLimit[Retries] \in Nat
    BY SpareSplits
<1>2. ASSUME InBudget(e) PROVE InBudget(e)'
  <2>1. /\ IsFiniteSet(Calls(e)') /\ Cardinality(Calls(e)') <= Cardinality(Calls(e))
        /\ IsFiniteSet(Calls(e))
      BY <1>2, CallsShrink DEF Calmer, InBudget
  <2>2. Cardinality(Calls(e)) \in Nat /\ Cardinality(Calls(e)') \in Nat
      BY <2>1, FS_CardinalityType
  <2>3. ASSUME NEW q \in Queues
        PROVE  runs'[q][e] + InQueue(q, e)' + Cardinality(Calls(e)') <= RunLimit[Retries]
    <3>1. runs[q][e] + InQueue(q, e) + Cardinality(Calls(e)) <= RunLimit[Retries]
        BY <1>2 DEF InBudget
    <3>2. runs'[q][e] + InQueue(q, e)' = runs[q][e] + InQueue(q, e)
        BY DEF Calmer
    <3>3. runs[q][e] \in Nat /\ InQueue(q, e) \in Nat
        BY <1>0, PendingNat
    <3> QED BY <1>1, <2>1, <2>2, <3>1, <3>2, <3>3
  <2> QED BY <2>1, <2>3 DEF InBudget
<1>3. ASSUME Untouched(e) PROVE Untouched(e)'
  <2>1. ASSUME NEW q \in Queues
        PROVE  /\ runs'[q][e] = 0 /\ InQueue(q, e)' = 0
               /\ \A n \in Nat : Pending(q, e, n)' = 0
    <3>1. runs'[q][e] + InQueue(q, e)' = 0
        BY <1>3 DEF Calmer, Untouched
    <3>2. InQueue(q, e)' \in Nat /\ runs'[q][e] \in Nat
        BY <1>0, PendingNat
    <3>3. \A n \in Nat : Pending(q, e, n)' \in Nat
        BY PendingNat
    <3>4. \A n \in Nat : Pending(q, e, n)' <= 0
        BY <1>3 DEF Calmer, Untouched
    <3> QED BY <3>1, <3>2, <3>3, <3>4
  <2> QED BY <2>1 DEF Untouched
<1> QED BY <1>2, <1>3

LEMMA DeliverCalms ==
    ASSUME BrokerTypes, RunTypes, NEW q \in Queues, Deliver(q), NEW e \in Events
    PROVE  RunTypes' /\ Calmer(e) /\ UNCHANGED <<published, halts>>
<1> DEFINE h == Head(ready[q])
           d == [event |-> Head(ready[q]).event, count |-> Head(ready[q]).count,
                 at |-> "handler"]
<1>1. /\ ready[q] \in Seq(Copies) /\ ready[q] # <<>> /\ unacked[q] \in Seq(InHand)
      /\ runs' = [runs EXCEPT ![q] = [runs[q] EXCEPT ![h.event] = @ + 1]]
      /\ UNCHANGED <<published, halts>>
    BY DEF Deliver, BrokerTypes
<1>2. /\ \A p \in Queues : ready'[p] = IF p = q THEN Tail(ready[q]) ELSE ready[p]
      /\ \A p \in Queues : unacked'[p] = IF p = q THEN Append(unacked[q], d) ELSE unacked[p]
    BY DEF Deliver, BrokerTypes
<1>3. h \in Copies
    BY <1>1, HeadTailProperties
<1>4. d \in InHand /\ d.event = h.event /\ d.count = h.count /\ d.at = "handler"
    BY <1>3 DEF Copies, InHand
<1>5. \A V : Cardinality(Hits(ready[q], V))
                 = Cardinality(Hits(Tail(ready[q]), V)) + (IF h \in V THEN 1 ELSE 0)
    BY <1>1, HitsTail
<1>6. \A V : Cardinality(Hits(Append(unacked[q], d), V))
                 = Cardinality(Hits(unacked[q], V)) + (IF d \in V THEN 1 ELSE 0)
  <2> HIDE DEF d
  <2> QED BY <1>1, <1>4, HitsAppend
<1>t. Tail(ready[q]) \in Seq(Copies)
    BY <1>1, HeadTailProperties
<1> HIDE DEF h, d
<1>7. h \in CopiesOf(e) <=> h.event = e
    BY <1>3 DEF CopiesOf
<1>8. \A n \in Nat : (h \in CopiesAt(e, n) <=> d \in Live(e, n))
    BY <1>3, <1>4 DEF CopiesAt, Live
<1>9. RunTypes' /\ \A p \in Queues :
          runs'[p][e] = runs[p][e] + (IF p = q /\ h.event = e THEN 1 ELSE 0)
  <2>1. h.event \in Events
      BY <1>3 DEF Copies
  <2> QED BY <1>1, <2>1 DEF RunTypes
<1>10. ASSUME NEW p \in Queues
       PROVE  /\ runs'[p][e] + InQueue(p, e)' = runs[p][e] + InQueue(p, e)
              /\ \A n \in Nat : Pending(p, e, n)' <= Pending(p, e, n)
  <2>1. CASE p # q
    <3>1. ready'[p] = ready[p] /\ unacked'[p] = unacked[p] /\ runs'[p][e] = runs[p][e]
        BY <1>2, <1>9, <2>1 DEF RunTypes
    <3>2. \A n \in Nat : Pending(p, e, n) \in Nat
        BY PendingNat
    <3> QED BY <3>1, <3>2 DEF InQueue, Pending
  <2>2. CASE p = q
    <3>1. InQueue(q, e) = InQueue(q, e)' + (IF h.event = e THEN 1 ELSE 0)
        BY <1>2, <1>5, <1>7 DEF InQueue
    <3>2. InQueue(q, e) \in Nat /\ InQueue(q, e)' \in Nat /\ runs[q][e] \in Nat
      <4>1. InQueue(q, e) \in Nat
          BY PendingNat
      <4>2. InQueue(q, e)' \in Nat
          BY <1>2, <1>t, HitsCount DEF InQueue
      <4> QED BY <4>1, <4>2 DEF RunTypes
    <3>3. runs'[q][e] = runs[q][e] + (IF h.event = e THEN 1 ELSE 0)
        BY <1>9
    <3>4. runs'[q][e] + InQueue(q, e)' = runs[q][e] + InQueue(q, e)
        BY <3>1, <3>2, <3>3
    <3>5. ASSUME NEW n \in Nat PROVE Pending(q, e, n)' <= Pending(q, e, n)
      <4> DEFINE a == Cardinality(Hits(ready[q], CopiesAt(e, n)))
                 b == Cardinality(Hits(unacked[q], Live(e, n)))
                 c == Cardinality(Hits(ready'[q], CopiesAt(e, n)))
                 g == Cardinality(Hits(unacked'[q], Live(e, n)))
      <4>1. a \in Nat /\ b \in Nat
          BY <1>1, HitsCount
      <4>2. c \in Nat
          BY <1>2, <1>t, HitsCount
      <4>3. a = c + (IF h \in CopiesAt(e, n) THEN 1 ELSE 0)
          BY <1>2, <1>5
      <4>4. g = b + (IF d \in Live(e, n) THEN 1 ELSE 0)
          BY <1>2, <1>6
      <4>5. Pending(q, e, n) = a + b /\ Pending(q, e, n)' = c + g
          BY DEF Pending
      <4> HIDE DEF a, b, c, g
      <4> QED BY <1>8, <4>1, <4>2, <4>3, <4>4, <4>5
    <3> QED BY <2>2, <3>4, <3>5
  <2> QED BY <2>1, <2>2
<1> QED BY <1>1, <1>9, <1>10 DEF Calmer

LEMMA AnswerCalms ==
    ASSUME BrokerTypes, RunTypes, NEW q \in Queues, NEW i \in 1..Prefetch, NEW e \in Events,
           Complete(q, i) \/ Raise(q, i) \/ Bury(q, i) \/ Ack(q, i)
    PROVE  RunTypes' /\ Calmer(e) /\ UNCHANGED <<published, halts>>
<1>1. UNCHANGED <<ready, runs, published, halts>>
    BY DEF Complete, Raise, Bury, Ack
<1>2. ASSUME NEW p \in Queues, NEW n \in Nat
      PROVE  Cardinality(Hits(unacked'[p], Live(e, n))) <= Cardinality(Hits(unacked[p], Live(e, n)))
  <2>0. Cardinality(Hits(unacked[p], Live(e, n))) \in Nat
    <3>1. unacked[p] \in Seq(InHand)
        BY DEF BrokerTypes
    <3> QED BY <3>1, HitsCount
  <2>1. CASE Complete(q, i) \/ Raise(q, i) \/ Bury(q, i)
    <3>1. PICK stage, to : /\ Stage(q, i, stage) /\ Become(q, i, to)
                           /\ to \in {"handler", "answered", "stuck", "backoff", "dead"}
                           /\ to \in {"handler", "backoff"} => stage \in {"handler", "backoff"}
        BY <2>1 DEF Complete, Raise, Bury
    <3>2. Cardinality(Hits(unacked'[p], Live(e, n))) = Cardinality(Hits(unacked[p], Live(e, n)))
              - (IF /\ p = q /\ unacked[q][i] \in Live(e, n) /\ to \notin {"handler", "backoff"}
                 THEN 1 ELSE 0)
        BY <3>1, BecomeCounts
    <3> QED BY <2>0, <3>2
  <2>2. CASE Ack(q, i)
    <3>1. unacked[q] \in Seq(InHand) /\ i \in DOMAIN unacked[q]
        BY <2>2 DEF Ack, Stage, BrokerTypes
    <3>2. unacked'[p] = IF p = q THEN RemoveAt(unacked[q], i) ELSE unacked[p]
        BY <2>2 DEF Ack, BrokerTypes
    <3>3. Cardinality(Hits(RemoveAt(unacked[q], i), Live(e, n)))
              <= Cardinality(Hits(unacked[q], Live(e, n)))
        BY <3>1, HitsRemove
    <3> QED BY <2>0, <3>2, <3>3
  <2> QED BY <2>1, <2>2
<1>3. ASSUME NEW p \in Queues, NEW n \in Nat PROVE Pending(p, e, n)' <= Pending(p, e, n)
  <2> DEFINE a == Cardinality(Hits(ready[p], CopiesAt(e, n)))
             b == Cardinality(Hits(unacked[p], Live(e, n)))
             g == Cardinality(Hits(unacked'[p], Live(e, n)))
  <2>1. a \in Nat /\ b \in Nat /\ g \in Nat
    <3>1. ready[p] \in Seq(Copies) /\ unacked[p] \in Seq(InHand)
        BY DEF BrokerTypes
    <3>2. BrokerTypes'
        BY BrokerTypesStep DEF BrokerNext
    <3>3. unacked'[p] \in Seq(InHand)
        BY <3>2 DEF BrokerTypes
    <3> QED BY <3>1, <3>3, HitsCount
  <2>2. Pending(p, e, n) = a + b /\ Pending(p, e, n)' = a + g
      BY <1>1 DEF Pending
  <2>3. g <= b
      BY <1>2
  <2> HIDE DEF a, b, g
  <2> QED BY <2>1, <2>2, <2>3
<1>4. \A p \in Queues : runs'[p][e] + InQueue(p, e)' = runs[p][e] + InQueue(p, e)
    BY <1>1 DEF InQueue
<1> QED BY <1>1, <1>3, <1>4 DEF Calmer, RunTypes

LEMMA RepublishKeeps ==
    ASSUME BrokerAssumption, RunsInv, NEW q \in Queues, NEW i \in 1..Prefetch, Republish(q, i),
           NEW f \in Events
    PROVE  /\ RunTypes' /\ UNCHANGED <<published, halts>>
           /\ halts = 0 => IF f \in published THEN InBudget(f)' ELSE Untouched(f)'
<1> DEFINE d == unacked[q][i]
           N == Cardinality(Queues)
<1>2. /\ unacked[q] \in Seq(InHand) /\ i \in DOMAIN unacked[q] /\ d \in InHand
      /\ d.at = "backoff"
    BY DEF RunsInv, BrokerTypes, Stage, Republish
<1>e. PICK e \in Events, m \in Nat : e = d.event /\ m = d.count
    BY <1>2 DEF InHand
<1>1. /\ Stage(q, i, "backoff") /\ Become(q, i, "answered") /\ ready' = ToTopic(e, m + 1)
      /\ UNCHANGED <<published, runs, halts>>
    BY <1>e DEF Republish
<1>3. m + 1 \in Nat /\ m < Retries
    BY <1>2, <1>e DEF RunsInv, BackoffInv
<1>4. BrokerTypes'
    BY BrokerTypesStep DEF BrokerNext, RunsInv
<1>5. \A n \in Nat : d \in Live(f, n) <=> f = e /\ n = m
    BY <1>2, <1>e DEF Live
<1> HIDE DEF d
<1>6. ASSUME NEW p \in Queues
      PROVE  /\ InQueue(p, f)' = InQueue(p, f) + (IF f = e THEN 1 ELSE 0)
             /\ \A n \in Nat : Cardinality(Hits(ready'[p], CopiesAt(f, n)))
                    = Cardinality(Hits(ready[p], CopiesAt(f, n)))
                          + (IF f = e /\ n = m + 1 THEN 1 ELSE 0)
    BY <1>1, <1>3, TopicCounts DEF RunsInv
<1>7. ASSUME NEW p \in Queues, NEW n \in Nat
      PROVE  Cardinality(Hits(unacked'[p], Live(f, n))) = Cardinality(Hits(unacked[p], Live(f, n)))
                 - (IF p = q /\ f = e /\ n = m THEN 1 ELSE 0)
  <2>1. Cardinality(Hits(unacked'[p], Live(f, n))) = Cardinality(Hits(unacked[p], Live(f, n)))
            - (IF /\ p = q /\ d \in Live(f, n) /\ "answered" \notin {"handler", "backoff"}
               THEN 1 ELSE 0)
      BY <1>1, BecomeCounts DEF RunsInv, d
  <2> QED BY <1>5, <2>1
<1>8. ASSUME NEW p \in Queues, NEW n \in Nat
      PROVE  Pending(p, f, n)' = Pending(p, f, n) + (IF f = e /\ n = m + 1 THEN 1 ELSE 0)
                                     - (IF p = q /\ f = e /\ n = m THEN 1 ELSE 0)
  <2> DEFINE a == Cardinality(Hits(ready[p], CopiesAt(f, n)))
             b == Cardinality(Hits(unacked[p], Live(f, n)))
             c == Cardinality(Hits(ready'[p], CopiesAt(f, n)))
             g == Cardinality(Hits(unacked'[p], Live(f, n)))
             up == IF f = e /\ n = m + 1 THEN 1 ELSE 0
             down == IF p = q /\ f = e /\ n = m THEN 1 ELSE 0
  <2>1. a \in Nat /\ b \in Nat /\ up \in Nat /\ down \in Nat
    <3>1. ready[p] \in Seq(Copies) /\ unacked[p] \in Seq(InHand)
        BY DEF RunsInv, BrokerTypes
    <3>2. a \in Nat /\ b \in Nat
        BY <3>1, HitsCount
    <3> QED BY <3>2
  <2>2. c = a + up /\ g = b - down
      BY <1>6, <1>7
  <2>3. Pending(p, f, n) = a + b /\ Pending(p, f, n)' = c + g
      BY DEF Pending
  <2> HIDE DEF a, b, c, g, up, down
  <2>4. c + g = a + b + up - down
      BY <2>1, <2>2
  <2> QED BY <2>3, <2>4 DEF up, down
<1>9. RunTypes' /\ UNCHANGED <<published, halts>>
    BY <1>1 DEF RunsInv, RunTypes
<1>10. ASSUME f # e PROVE Calmer(f)
  <2>1. \A p \in Queues : runs'[p][f] + InQueue(p, f)' = runs[p][f] + InQueue(p, f)
    <3>1. \A p \in Queues : InQueue(p, f) \in Nat
        BY PendingNat DEF RunsInv
    <3>2. \A p \in Queues : InQueue(p, f)' = InQueue(p, f)
        BY <1>6, <1>10, <3>1
    <3> QED BY <1>1, <3>2
  <2>2. ASSUME NEW p \in Queues, NEW n \in Nat PROVE Pending(p, f, n)' <= Pending(p, f, n)
    <3>1. Pending(p, f, n) \in Nat
        BY PendingNat DEF RunsInv
    <3> QED BY <1>8, <1>10, <3>1
  <2> QED BY <2>1, <2>2 DEF Calmer
<1>11. Pending(q, e, m) # 0
  <2>1. i \in Hits(unacked[q], Live(e, m))
      BY <1>2, <1>e DEF Hits, Live, d
  <2>2. /\ IsFiniteSet(Hits(unacked[q], Live(e, m)))
        /\ Cardinality(Hits(unacked[q], Live(e, m))) \in Nat
      BY <1>2, HitsCount
  <2>3. Cardinality(Hits(unacked[q], Live(e, m))) # 0
      BY <2>1, <2>2, FS_EmptySet
  <2>4. Cardinality(Hits(ready[q], CopiesAt(e, m))) \in Nat
    <3>1. ready[q] \in Seq(Copies)
        BY DEF RunsInv, BrokerTypes
    <3> QED BY <3>1, HitsCount
  <2> QED BY <2>2, <2>3, <2>4 DEF Pending
<1>12. ASSUME halts = 0, f = e PROVE f \in published /\ InBudget(f)'
  <2>1. e \in published
    <3> SUFFICES ASSUME e \notin published PROVE FALSE
        OBVIOUS
    <3>1. Untouched(e)
        BY <1>3, <1>12 DEF RunsInv
    <3> QED BY <1>3, <1>11, <3>1 DEF Untouched
  <2>2. InBudget(e)
      BY <1>3, <1>12, <2>1 DEF RunsInv
  <2> DEFINE C == Calls(e)
             G == Gone(e, q, m)
             at == [p \in Queues |-> Pending(p, e, m + 1) + 1]
             A == Fan(at, m + 1)
  <2>3. IsFiniteSet(C) /\ Cardinality(C) \in Nat
      BY <2>2, FS_CardinalityType DEF InBudget
  <2>4. /\ G \subseteq C /\ IsFiniteSet(G) /\ Cardinality(G) \in Nat
        /\ Spare(m) <= Cardinality(G)
      BY <1>3, <1>11, <2>3, GoneCount DEF RunsInv
  <2>5. at \in [Queues -> Nat]
    <3>1. \A p \in Queues : Pending(p, e, m + 1) \in Nat
        BY PendingNat DEF RunsInv
    <3> QED BY <3>1
  <2>6. IsFiniteSet(A) /\ Cardinality(A) \in Nat /\ Cardinality(A) <= N * Spare(m + 1)
    <3> HIDE DEF at
    <3> QED BY <1>3, <2>5, FanCount
  <2>7. Calls(e)' \subseteq (C \ G) \cup A
    <3> SUFFICES ASSUME NEW x \in Calls(e)' PROVE x \in (C \ G) \cup A
        OBVIOUS
    <3>1. /\ x \in Queues \X Nat \X Nat \X Nat /\ x[1] \in Queues /\ x[2] \in Nat /\ x[3] \in Nat
          /\ x[3] \in 1..Pending(x[1], e, x[2])' /\ x[4] \in 1..Spare(x[2])
        BY DEF Calls, Spare
    <3>2. Pending(x[1], e, x[2])' = Pending(x[1], e, x[2]) + (IF x[2] = m + 1 THEN 1 ELSE 0)
              - (IF x[1] = q /\ x[2] = m THEN 1 ELSE 0)
        BY <1>8, <1>12, <3>1
    <3>3. Pending(x[1], e, x[2]) \in Nat
        BY <3>1, PendingNat DEF RunsInv
    <3>4. CASE x[2] = m + 1
      <4>1. Pending(x[1], e, x[2])' = Pending(x[1], e, m + 1) + 1
          BY <1>3, <3>2, <3>3, <3>4
      <4>2. CASE x[3] = Pending(x[1], e, m + 1) + 1
          BY <3>1, <3>4, <4>2 DEF Fan
      <4>3. CASE x[3] # Pending(x[1], e, m + 1) + 1
        <5>1. x[3] \in 1..Pending(x[1], e, x[2])
            BY <3>1, <3>3, <3>4, <4>1, <4>3
        <5>2. x \in C /\ x[2] # m
            BY <1>3, <3>1, <3>4, <5>1 DEF Calls
        <5> QED BY <5>2 DEF Gone
      <4> QED BY <4>2, <4>3
    <3>5. CASE x[2] # m + 1
      <4>1. x[3] \in 1..Pending(x[1], e, x[2])
          BY <3>1, <3>2, <3>3, <3>5
      <4>2. x \in C
          BY <3>1, <4>1 DEF Calls
      <4>3. x \notin G
        <5>1. CASE x[1] = q /\ x[2] = m
          <6>1. x[3] <= Pending(q, e, m) - 1 /\ Pending(q, e, m) \in Nat
              BY <3>1, <3>2, <3>3, <3>5, <5>1
          <6>2. x[3] # Pending(q, e, m)
              BY <3>1, <6>1
          <6> QED BY <6>2 DEF Gone
        <5>2. CASE ~(x[1] = q /\ x[2] = m)
            BY <5>2 DEF Gone
        <5> QED BY <5>1, <5>2
      <4> QED BY <4>2, <4>3
    <3> QED BY <3>4, <3>5
  <2> HIDE DEF C, G, A, at
  <2>8. /\ IsFiniteSet(C \ G) /\ Cardinality(C \ G) = Cardinality(C) - Cardinality(G)
        /\ Cardinality(C \ G) \in Nat
    <3>1. C \cap G = G
        BY <2>4
    <3> QED BY <2>3, <3>1, FS_Difference, FS_CardinalityType
  <2>9. /\ IsFiniteSet((C \ G) \cup A)
        /\ Cardinality((C \ G) \cup A) <= Cardinality(C \ G) + Cardinality(A)
        /\ Cardinality((C \ G) \cup A) \in Nat
    <3>1. IsFiniteSet((C \ G) \cap A)
        BY <2>8, FS_Intersection
    <3>2. Cardinality((C \ G) \cap A) \in Nat
        BY <3>1, FS_CardinalityType
    <3>3. /\ IsFiniteSet((C \ G) \cup A)
          /\ Cardinality((C \ G) \cup A)
                 = Cardinality(C \ G) + Cardinality(A) - Cardinality((C \ G) \cap A)
        BY <2>6, <2>8, FS_Union
    <3>4. Cardinality((C \ G) \cup A) \in Nat
        BY <3>3, FS_CardinalityType
    <3> QED BY <2>6, <2>8, <3>2, <3>3, <3>4
  <2>10. /\ IsFiniteSet(Calls(e)') /\ Cardinality(Calls(e)') \in Nat
         /\ Cardinality(Calls(e)') <= Cardinality((C \ G) \cup A)
      BY <2>7, <2>9, FS_Subset, FS_CardinalityType
  <2>11. Spare(m) = 1 + N * Spare(m + 1) /\ Spare(m) \in Nat
      BY <1>3, SpareSplits
  <2> DEFINE w == N * Spare(m + 1)
  <2>w. w \in Int /\ Cardinality(A) <= w /\ Spare(m) = 1 + w
      BY <2>6, <2>11, SpareSplits, RunLimitValues, <1>3
  <2> HIDE DEF w
  <2>12. Cardinality(Calls(e)') + 1 <= Cardinality(C)
    <3>1. Cardinality(Calls(e)') <= Cardinality(C) - Cardinality(G) + Cardinality(A)
        BY <2>3, <2>4, <2>6, <2>8, <2>9, <2>10
    <3> QED BY <2>3, <2>4, <2>6, <2>10, <2>11, <2>w, <3>1
  <2>13. ASSUME NEW p \in Queues
         PROVE  runs'[p][e] + InQueue(p, e)' + Cardinality(Calls(e)') <= RunLimit[Retries]
    <3>1. runs[p][e] + InQueue(p, e) + Cardinality(C) <= RunLimit[Retries]
        BY <2>2 DEF InBudget, C
    <3>2. runs'[p][e] = runs[p][e] /\ InQueue(p, e)' = InQueue(p, e) + 1
        BY <1>1, <1>6, <1>12
    <3>3. runs[p][e] \in Nat /\ InQueue(p, e) \in Nat
        BY <1>3, PendingNat DEF RunsInv, RunTypes
    <3>4. RunLimit[Retries] \in Nat
        BY SpareSplits
    <3> QED BY <2>3, <2>10, <2>12, <3>1, <3>2, <3>3, <3>4
  <2>14. InBudget(e)'
      BY <2>10, <2>13 DEF InBudget
  <2> QED BY <1>12, <2>1, <2>14
<1>13. ASSUME halts = 0, f # e PROVE IF f \in published THEN InBudget(f)' ELSE Untouched(f)'
    BY <1>4, <1>9, <1>10, <1>13, CalmKeeps DEF RunsInv
<1> QED BY <1>9, <1>12, <1>13

LEMMA PublishKeeps ==
    ASSUME BrokerAssumption, RunsInv, NEW e \in Events, PublishEvent(e), NEW f \in Events
    PROVE  /\ RunTypes' /\ UNCHANGED halts
           /\ halts = 0 => IF f \in published' THEN InBudget(f)' ELSE Untouched(f)'
<1>1. /\ e \notin published /\ published' = published \cup {e} /\ ready' = ToTopic(e, 0)
      /\ UNCHANGED <<unacked, runs, halts>>
    BY DEF PublishEvent
<1>2. BrokerTypes'
    BY BrokerTypesStep DEF BrokerNext, RunsInv
<1>3. ASSUME NEW p \in Queues
      PROVE  /\ InQueue(p, f)' = InQueue(p, f) + (IF f = e THEN 1 ELSE 0)
             /\ \A n \in Nat : Cardinality(Hits(ready'[p], CopiesAt(f, n)))
                    = Cardinality(Hits(ready[p], CopiesAt(f, n))) + (IF f = e /\ n = 0 THEN 1 ELSE 0)
    BY <1>1, TopicCounts DEF RunsInv
<1>4. ASSUME NEW p \in Queues, NEW n \in Nat
      PROVE  Pending(p, f, n)' = Pending(p, f, n) + (IF f = e /\ n = 0 THEN 1 ELSE 0)
  <2> DEFINE a == Cardinality(Hits(ready[p], CopiesAt(f, n)))
             b == Cardinality(Hits(unacked[p], Live(f, n)))
             c == Cardinality(Hits(ready'[p], CopiesAt(f, n)))
             up == IF f = e /\ n = 0 THEN 1 ELSE 0
  <2>1. a \in Nat /\ b \in Nat /\ up \in Nat
    <3>1. ready[p] \in Seq(Copies) /\ unacked[p] \in Seq(InHand)
        BY DEF RunsInv, BrokerTypes
    <3>2. a \in Nat /\ b \in Nat
        BY <3>1, HitsCount
    <3> QED BY <3>2
  <2>2. c = a + up
      BY <1>3
  <2>3. Pending(p, f, n) = a + b /\ Pending(p, f, n)' = c + b
      BY <1>1 DEF Pending
  <2> HIDE DEF a, b, c, up
  <2>4. c + b = a + b + up
      BY <2>1, <2>2
  <2> QED BY <2>3, <2>4 DEF up
<1>5. RunTypes' /\ UNCHANGED halts
    BY <1>1 DEF RunsInv, RunTypes
<1>6. ASSUME f # e PROVE Calmer(f)
  <2>1. \A p \in Queues : runs'[p][f] + InQueue(p, f)' = runs[p][f] + InQueue(p, f)
    <3>1. \A p \in Queues : InQueue(p, f) \in Nat
        BY PendingNat DEF RunsInv
    <3>2. \A p \in Queues : InQueue(p, f)' = InQueue(p, f)
        BY <1>3, <1>6, <3>1
    <3> QED BY <1>1, <3>2
  <2>2. ASSUME NEW p \in Queues, NEW n \in Nat PROVE Pending(p, f, n)' <= Pending(p, f, n)
    <3>1. Pending(p, f, n) \in Nat
        BY PendingNat DEF RunsInv
    <3> QED BY <1>4, <1>6, <3>1
  <2> QED BY <2>1, <2>2 DEF Calmer
<1>7. ASSUME halts = 0, f # e PROVE IF f \in published' THEN InBudget(f)' ELSE Untouched(f)'
  <2>1. f \in published' <=> f \in published
      BY <1>1, <1>7
  <2> QED BY <1>2, <1>5, <1>6, <1>7, <2>1, CalmKeeps DEF RunsInv
<1>8. ASSUME halts = 0, f = e PROVE f \in published' /\ InBudget(f)'
  <2> DEFINE at == [p \in Queues |-> 1]
             A == Fan(at, 0)
             w == Cardinality(Queues) * Spare(0)
  <2>1. Untouched(f)
      BY <1>1, <1>8 DEF RunsInv
  <2>2. IsFiniteSet(A) /\ Cardinality(A) \in Nat /\ Cardinality(A) <= w
    <3>1. at \in [Queues -> Nat]
        OBVIOUS
    <3> HIDE DEF at
    <3> QED BY <3>1, FanCount
  <2>3. Calls(f)' \subseteq A
    <3> SUFFICES ASSUME NEW x \in Calls(f)' PROVE x \in A
        OBVIOUS
    <3>1. /\ x \in Queues \X Nat \X Nat \X Nat /\ x[1] \in Queues /\ x[2] \in Nat /\ x[3] \in Nat
          /\ x[3] \in 1..Pending(x[1], f, x[2])' /\ x[4] \in 1..Spare(x[2])
        BY DEF Calls, Spare
    <3>2. Pending(x[1], f, x[2])' = (IF x[2] = 0 THEN 1 ELSE 0)
        BY <1>4, <1>8, <2>1, <3>1 DEF Untouched
    <3>3. x[2] = 0 /\ x[3] = 1
        BY <3>1, <3>2
    <3> QED BY <3>1, <3>3 DEF Fan
  <2>4. /\ IsFiniteSet(Calls(f)') /\ Cardinality(Calls(f)') \in Nat
        /\ Cardinality(Calls(f)') <= Cardinality(A)
    <3> HIDE DEF A
    <3> QED BY <2>2, <2>3, FS_Subset, FS_CardinalityType
  <2>5. RunLimit[Retries] = 1 + w /\ RunLimit[Retries] \in Nat
      BY SpareSplits
  <2>6. w \in Int
      BY SpareSplits, RunLimitValues
  <2> HIDE DEF A, w
  <2>7. ASSUME NEW p \in Queues
        PROVE  runs'[p][f] + InQueue(p, f)' + Cardinality(Calls(f)') <= RunLimit[Retries]
    <3>1. runs'[p][f] = 0 /\ InQueue(p, f)' = 1
        BY <1>1, <1>3, <1>8, <2>1 DEF Untouched
    <3> QED BY <2>2, <2>4, <2>5, <2>6, <3>1
  <2>8. InBudget(f)'
      BY <2>4, <2>7 DEF InBudget
  <2>9. f \in published'
      BY <1>1, <1>8
  <2> QED BY <2>8, <2>9
<1> QED BY <1>5, <1>7, <1>8

LEMMA RunsInit == BrokerAssumption /\ BrokerInit => RunsInv
<1> SUFFICES ASSUME BrokerAssumption, BrokerInit PROVE RunsInv
    OBVIOUS
<1>1. <<>> \in Seq(Copies) /\ <<>> \in Seq(InHand)
    OBVIOUS
<1>2. BrokerTypes /\ RunTypes /\ BackoffInv
    BY <1>1 DEF BrokerInit, BrokerTypes, RunTypes, BackoffInv
<1>3. \A V : Cardinality(Hits(<<>>, V)) = 0
  <2>1. \A V : Hits(<<>>, V) = {}
      BY DEF Hits
  <2> QED BY <2>1, FS_EmptySet
<1>4. ASSUME NEW e \in Events PROVE Untouched(e)
  <2>1. \A q \in Queues : ready[q] = <<>> /\ unacked[q] = <<>> /\ runs[q][e] = 0
      BY DEF BrokerInit
  <2>2. \A q \in Queues : InQueue(q, e) = 0
      BY <1>3, <2>1 DEF InQueue
  <2>3. \A q \in Queues, n \in Nat : Pending(q, e, n) = 0
      BY <1>3, <2>1 DEF Pending
  <2> QED BY <2>1, <2>2, <2>3 DEF Untouched
<1> QED BY <1>2, <1>4 DEF RunsInv, BrokerInit

LEMMA RunsStep == BrokerAssumption /\ RunsInv /\ [BrokerNext]_brokerVars => RunsInv'
<1> SUFFICES ASSUME BrokerAssumption, RunsInv, [BrokerNext]_brokerVars PROVE RunsInv'
    OBVIOUS
<1> DEFINE Limited == halts' = 0 => \A e \in Events :
                          IF e \in published' THEN InBudget(e)' ELSE Untouched(e)'
<1>1. BrokerTypes' /\ BackoffInv'
    BY BrokerTypesStep, BackoffStep DEF RunsInv
<1>c. ASSUME \A e \in Events : RunTypes' /\ Calmer(e) /\ UNCHANGED <<published, halts>>
      PROVE  Limited
  <2> SUFFICES ASSUME halts' = 0, NEW e \in Events
               PROVE  IF e \in published' THEN InBudget(e)' ELSE Untouched(e)'
      OBVIOUS
  <2>1. RunTypes' /\ Calmer(e) /\ UNCHANGED <<published, halts>>
      BY <1>c
  <2>2. IF e \in published THEN InBudget(e) ELSE Untouched(e)
      BY <2>1 DEF RunsInv
  <2>3. (InBudget(e) => InBudget(e)') /\ (Untouched(e) => Untouched(e)')
      BY <1>1, <2>1, CalmKeeps DEF RunsInv
  <2> QED BY <2>1, <2>2, <2>3
<1>2. ASSUME NEW e \in Events, PublishEvent(e) PROVE RunTypes' /\ Limited
  <2>1. RunTypes' /\ UNCHANGED halts
      BY <1>2, PublishKeeps
  <2>2. ASSUME halts = 0, NEW f \in Events
        PROVE  IF f \in published' THEN InBudget(f)' ELSE Untouched(f)'
      BY <1>2, <2>2, PublishKeeps
  <2> QED BY <2>1, <2>2
<1>3. ASSUME NEW q \in Queues, Deliver(q) PROVE RunTypes' /\ Limited
  <2>1. RunTypes' /\ \A e \in Events : RunTypes' /\ Calmer(e) /\ UNCHANGED <<published, halts>>
    <3>1. \A e \in Events : RunTypes' /\ Calmer(e) /\ UNCHANGED <<published, halts>>
        BY <1>3, DeliverCalms DEF RunsInv
    <3>2. Head(ready[q]).event \in Events
      <4>1. ready[q] \in Seq(Copies) /\ ready[q] # <<>>
          BY <1>3 DEF Deliver, RunsInv, BrokerTypes
      <4>2. Head(ready[q]) \in Copies
          BY <4>1, HeadTailProperties
      <4> QED BY <4>2 DEF Copies
    <3> QED BY <3>1, <3>2
  <2> QED BY <1>c, <2>1
<1>4. ASSUME NEW q \in Queues, NEW i \in 1..Prefetch,
             Complete(q, i) \/ Raise(q, i) \/ Bury(q, i) \/ Ack(q, i)
      PROVE  RunTypes' /\ Limited
  <2>1. \A e \in Events : RunTypes' /\ Calmer(e) /\ UNCHANGED <<published, halts>>
      BY <1>4, AnswerCalms DEF RunsInv
  <2>2. RunTypes'
      BY <1>4 DEF Complete, Raise, Bury, Ack, RunsInv, RunTypes
  <2> QED BY <1>c, <2>1, <2>2
<1>5. ASSUME NEW q \in Queues, NEW i \in 1..Prefetch, Republish(q, i) PROVE RunTypes' /\ Limited
  <2>1. ASSUME NEW f \in Events
        PROVE  /\ UNCHANGED <<published, halts>>
               /\ halts = 0 => IF f \in published THEN InBudget(f)' ELSE Untouched(f)'
      BY <1>5, RepublishKeeps
  <2>2. UNCHANGED <<published, halts, runs>>
      BY <1>5 DEF Republish
  <2>3. RunTypes'
      BY <2>2 DEF RunsInv, RunTypes
  <2> QED BY <2>1, <2>2, <2>3
<1>6. ASSUME NEW q \in Queues, Halt(q) PROVE RunTypes' /\ Limited
  <2>1. halts' = halts + 1 /\ UNCHANGED runs /\ halts \in Nat
      BY <1>6 DEF Halt, RunsInv, RunTypes
  <2> QED BY <2>1 DEF RunsInv, RunTypes
<1>7. ASSUME UNCHANGED brokerVars PROVE RunTypes' /\ Limited
  <2>1. RunTypes' /\ \A e \in Events : RunTypes' /\ UNCHANGED <<published, halts>>
      BY <1>7 DEF brokerVars, RunsInv, RunTypes
  <2>2. \A e \in Events, q \in Queues, n \in Nat :
            Pending(q, e, n)' = Pending(q, e, n) /\ InQueue(q, e)' = InQueue(q, e)
            /\ Pending(q, e, n) \in Nat
      BY <1>7, PendingNat DEF brokerVars, Pending, InQueue, RunsInv
  <2>3. ASSUME NEW e \in Events PROVE Calmer(e)
    <3>1. \A q \in Queues : InQueue(q, e)' = InQueue(q, e)
        BY <1>7 DEF brokerVars, InQueue
    <3>2. runs' = runs
        BY <1>7 DEF brokerVars
    <3>3. \A q \in Queues, n \in Nat : Pending(q, e, n)' <= Pending(q, e, n)
        BY <2>2
    <3> QED BY <3>1, <3>2, <3>3 DEF Calmer
  <2>4. \A e \in Events : RunTypes' /\ Calmer(e) /\ UNCHANGED <<published, halts>>
      BY <2>1, <2>3
  <2>5. Limited
    <3> HIDE DEF Limited
    <3> QED BY <1>c, <2>4
  <2> QED BY <2>1, <2>5
<1>8. RunTypes' /\ Limited
  <2> HIDE DEF Limited
  <2> QED BY <1>2, <1>3, <1>4, <1>5, <1>6, <1>7 DEF BrokerNext
<1> QED BY <1>1, <1>8 DEF RunsInv

\* However the failures of the consumers of a topic interleave, one event is
\* handled by each of them no more often than the copies that all the retries of
\* all the queues can make.
THEOREM RunsBoundedHolds == BrokerSpec => []RunsBounded
<1> USE BrokerAssumption
<1>1. RunsInv => RunsBounded
  <2> SUFFICES ASSUME RunsInv, halts = 0, NEW q \in Queues, NEW e \in Events
               PROVE  runs[q][e] <= RunLimit[Retries]
      BY DEF RunsBounded
  <2>1. runs[q][e] \in Nat /\ RunLimit[Retries] \in Nat /\ InQueue(q, e) \in Nat
      BY SpareSplits, PendingNat DEF RunsInv, RunTypes
  <2>2. CASE e \in published
    <3>1. /\ runs[q][e] + InQueue(q, e) + Cardinality(Calls(e)) <= RunLimit[Retries]
          /\ IsFiniteSet(Calls(e))
        BY <2>2 DEF RunsInv, InBudget
    <3>2. Cardinality(Calls(e)) \in Nat
        BY <3>1, FS_CardinalityType
    <3> QED BY <2>1, <3>1, <3>2
  <2>3. CASE e \notin published
    <3>1. runs[q][e] = 0
        BY <2>3 DEF RunsInv, Untouched
    <3> QED BY <2>1, <3>1
  <2> QED BY <2>2, <2>3
<1> QED BY <1>1, RunsInit, RunsStep, PTL DEF BrokerSpec

-----------------------------------------------------------------------------
\* The migrations

\* While nobody has downgraded, the latest revision, once read, stays.
LatestInv ==
    "downgrade" \notin moved =>
        \A r \in Runners :
            \/ revision = Latest
            \/ /\ before[r] # Latest /\ after[r] # Latest
               /\ ~(step[r] = "ok" /\ goal[r] = "upgrade")

\* While nobody has upgraded, base stays base; final_rev speaks of this run
\* only when the runner has come to judge it.
BaseInv ==
    "upgrade" \notin moved =>
        \A r \in Runners :
            ~unread[r] /\ \/ step[r] = "judge" /\ after[r] = None
                          \/ step[r] = "ok" /\ goal[r] = "downgrade"
            => revision = 0

TypesInv ==
    /\ MigrationsTypeOK /\ goal \in [Runners -> {"upgrade", "downgrade"}]
    /\ before \in [Runners -> 0..Latest] /\ after \in [Runners -> 0..Latest]
    /\ unread \in [Runners -> BOOLEAN]

VerdictInv == TypesInv /\ LatestInv /\ BaseInv

LEMMA VerdictInit == MigrationsInit => VerdictInv
BY MigrationsAssumption
   DEF MigrationsInit, VerdictInv, MigrationsTypeOK, TypesInv, LatestInv, BaseInv, None

LEMMA TypesStep == VerdictInv /\ [MigrationsNext]_migrationVars => TypesInv'
<1> SUFFICES ASSUME VerdictInv, [MigrationsNext]_migrationVars PROVE TypesInv'
    OBVIOUS
<1> USE MigrationsAssumption DEF VerdictInv, MigrationsTypeOK, TypesInv, StepTo, None
<1>zero. 0 \in 0..Latest /\ Latest \in 0..Latest /\ 0 \in 0..Tries-1
    OBVIOUS
<1>1. ASSUME NEW r \in Runners, NEW action \in {"upgrade", "downgrade"},
             NEW isDry \in BOOLEAN, Run(r, action, isDry)
      PROVE  TypesInv'
    BY <1>1 DEF Run
<1>2. ASSUME NEW r \in Runners, Knock(r) PROVE TypesInv'
  <2>1. knocks' \in [Runners -> 0..Tries-1]
      BY <1>2, <1>zero DEF Knock
  <2>2. step' \in [Runners -> {"idle", "test", "read", "compare", "begin", "command",
                              "verify", "judge", "ok", "failed", "error"}]
      BY <1>2 DEF Knock
  <2>3. before' \in [Runners -> 0..Latest]
    <3>1. \/ before' = before
          \/ before' = [before EXCEPT ![r] = 0]
        BY <1>2 DEF Knock
    <3> QED BY <3>1, <1>zero
  <2>4. after' \in [Runners -> 0..Latest]
    <3>1. \/ after' = after
          \/ after' = [after EXCEPT ![r] = 0]
        BY <1>2 DEF Knock
    <3> QED BY <3>1, <1>zero
  <2>5. unread' \in [Runners -> BOOLEAN]
      BY <1>2 DEF Knock
  <2> QED BY <1>2, <2>1, <2>2, <2>3, <2>4, <2>5 DEF Knock
<1>3. ASSUME NEW r \in Runners, Answer(r) PROVE TypesInv'
  <2>1. knocks' \in [Runners -> 0..Tries-1]
      BY <1>3, <1>zero DEF Answer
  <2>2. step' \in [Runners -> {"idle", "test", "read", "compare", "begin", "command",
                              "verify", "judge", "ok", "failed", "error"}]
      BY <1>3 DEF Answer
  <2>3. before' \in [Runners -> 0..Latest]
    <3>1. \/ before' = before
          \/ before' = [before EXCEPT ![r] = revision]
        BY <1>3 DEF Answer
    <3> QED BY <3>1, <1>zero
  <2>4. after' \in [Runners -> 0..Latest]
    <3>1. \/ after' = after
          \/ after' = [after EXCEPT ![r] = revision]
        BY <1>3 DEF Answer
    <3> QED BY <3>1, <1>zero
  <2>5. unread' \in [Runners -> BOOLEAN]
      BY <1>3 DEF Answer
  <2> QED BY <1>3, <2>1, <2>2, <2>3, <2>4, <2>5 DEF Answer
<1>4. ASSUME NEW r \in Runners, Compare(r) PROVE TypesInv'
    BY <1>4 DEF Compare
<1>5. ASSUME NEW r \in Runners, Begin(r) PROVE TypesInv'
    BY <1>5 DEF Begin
<1>6. ASSUME NEW r \in Runners, Command(r) PROVE TypesInv'
  <2>1. revision' \in 0..Latest
      BY <1>6, <1>zero DEF Command
  <2>2. step' \in [Runners -> {"idle", "test", "read", "compare", "begin", "command",
                              "verify", "judge", "ok", "failed", "error"}]
      BY <1>6 DEF Command
  <2>3. goal[r] \in {"upgrade", "downgrade"}
      OBVIOUS
  <2>4. moved' \subseteq {"upgrade", "downgrade"}
      BY ZenonT(60), <1>6, <2>3 DEF Command
  <2> QED BY <1>6, <2>1, <2>2, <2>4 DEF Command
<1>7. ASSUME NEW r \in Runners, Judge(r) PROVE TypesInv'
    BY <1>7 DEF Judge
<1>8. CASE UNCHANGED migrationVars
    BY <1>8 DEF migrationVars
<1> QED BY <1>1, <1>2, <1>3, <1>4, <1>5, <1>6, <1>7, <1>8 DEF MigrationsNext

\* Only the command of a downgrade leaves the latest revision.
LEMMA LatestStep == VerdictInv /\ [MigrationsNext]_migrationVars => LatestInv'
<1> SUFFICES ASSUME VerdictInv, [MigrationsNext]_migrationVars PROVE LatestInv'
    OBVIOUS
<1> USE MigrationsAssumption DEF VerdictInv, MigrationsTypeOK, TypesInv, StepTo, None, LatestInv
<1>1. ASSUME NEW r \in Runners, NEW action \in {"upgrade", "downgrade"},
             NEW isDry \in BOOLEAN, Run(r, action, isDry)
      PROVE  LatestInv'
    BY <1>1 DEF Run
<1>2. ASSUME NEW r \in Runners, Knock(r) PROVE LatestInv'
    BY <1>2 DEF Knock
<1>3. ASSUME NEW r \in Runners, Answer(r) PROVE LatestInv'
    BY <1>3 DEF Answer
<1>4. ASSUME NEW r \in Runners, Compare(r) PROVE LatestInv'
    BY <1>4 DEF Compare
<1>5. ASSUME NEW r \in Runners, Begin(r) PROVE LatestInv'
    BY <1>5 DEF Begin
<1>6. ASSUME NEW r \in Runners, Command(r) PROVE LatestInv'
    BY <1>6 DEF Command
<1>7. ASSUME NEW r \in Runners, Judge(r) PROVE LatestInv'
    BY <1>7 DEF Judge
<1>8. CASE UNCHANGED migrationVars
    BY <1>8 DEF migrationVars
<1> QED BY <1>1, <1>2, <1>3, <1>4, <1>5, <1>6, <1>7, <1>8 DEF MigrationsNext

\* Only the command of an upgrade leaves base.
LEMMA BaseStep == VerdictInv /\ [MigrationsNext]_migrationVars => BaseInv'
<1> SUFFICES ASSUME VerdictInv, [MigrationsNext]_migrationVars PROVE BaseInv'
    OBVIOUS
<1> USE MigrationsAssumption DEF VerdictInv, MigrationsTypeOK, TypesInv, StepTo, None, BaseInv
<1>1. ASSUME NEW r \in Runners, NEW action \in {"upgrade", "downgrade"},
             NEW isDry \in BOOLEAN, Run(r, action, isDry)
      PROVE  BaseInv'
    BY <1>1 DEF Run
<1>2. ASSUME NEW r \in Runners, Knock(r) PROVE BaseInv'
    BY <1>2 DEF Knock
<1>3. ASSUME NEW r \in Runners, Answer(r) PROVE BaseInv'
    BY <1>3 DEF Answer
<1>4. ASSUME NEW r \in Runners, Compare(r) PROVE BaseInv'
    BY <1>4 DEF Compare
<1>5. ASSUME NEW r \in Runners, Begin(r) PROVE BaseInv'
    BY <1>5 DEF Begin
<1>6. ASSUME NEW r \in Runners, Command(r) PROVE BaseInv'
    BY <1>6 DEF Command
<1>7. ASSUME NEW r \in Runners, Judge(r) PROVE BaseInv'
    BY <1>7 DEF Judge
<1>8. CASE UNCHANGED migrationVars
    BY <1>8 DEF migrationVars
<1> QED BY <1>1, <1>2, <1>3, <1>4, <1>5, <1>6, <1>7, <1>8 DEF MigrationsNext

LEMMA VerdictStep == VerdictInv /\ [MigrationsNext]_migrationVars => VerdictInv'
BY TypesStep, LatestStep, BaseStep DEF VerdictInv

\* A success that run_migrations.py reports holds while nobody migrates the
\* other way, beside any other runners and through any outages; of a downgrade
\* only when the database has answered at the end.
THEOREM VerdictHonestHolds == MigrationsSpec => []VerdictHonest
<1>1. MigrationsSpec => []VerdictInv
    BY VerdictInit, VerdictStep, PTL DEF MigrationsSpec
<1>2. VerdictInv => VerdictHonest
    BY DEF VerdictInv, LatestInv, BaseInv, TypesInv, VerdictHonest
<1> QED BY <1>1, <1>2, PTL

==============================================================================

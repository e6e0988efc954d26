------------------------------- MODULE Broker -------------------------------
(***************************************************************************)
(* common-py MessageBroker and MessageHandler: one topic, the queues bound *)
(* to it, and what becomes of an event whose handler fails.                *)
(*                                                                         *)
(* The exchange is a topic exchange, so a retry, published to the topic    *)
(* again, is a new copy for EVERY queue of the topic and not only for the  *)
(* one whose handler failed.  The dead-letter queue is declared but bound  *)
(* to nothing: what is published under its name reaches no queue.          *)
(*                                                                         *)
(* RabbitMQ and aio_pika are external.  A restart of the broker is left    *)
(* out: it would lose the retries, which, unlike the events, are not       *)
(* published as persistent.                                                *)
(***************************************************************************)
EXTENDS Naturals, Sequences, FiniteSets, SequencesExt

CONSTANTS
    Queues,         \* queues bound to the topic
    Events,         \* events published to it
    Prefetch,       \* prefetch_count of a subscription
    Retries,        \* retries of a copy: 3 in the code
    MaxHalts        \* bound on consumer crashes

ASSUME BrokerAssumption ==
    /\ IsFiniteSet(Queues) /\ Queues # {} /\ IsFiniteSet(Events)
    /\ Prefetch \in Nat \ {0} /\ Retries \in Nat /\ MaxHalts \in Nat

VARIABLES
    published,  \* events that were published
    ready,      \* ready[q]: copies [event, count] in the queue
    unacked,    \* unacked[q]: deliveries [event, count, at] to its consumer
    dlq,        \* dlq[q]: events in q's dead-letter queue
    handled,    \* history: handled[q], events q's handler completed
    buried,     \* history: buried[q], events q's consumer sent to the dlq
    runs,       \* history: runs[q][e], how often the handler was called
    halts

brokerVars == <<published, ready, unacked, dlq, handled, buried, runs, halts>>

BrokerInit ==
    /\ published = {} /\ ready = [q \in Queues |-> <<>>]
    /\ unacked = [q \in Queues |-> <<>>] /\ dlq = [q \in Queues |-> {}]
    /\ handled = [q \in Queues |-> {}] /\ buried = [q \in Queues |-> {}]
    /\ runs = [q \in Queues |-> [e \in Events |-> 0]] /\ halts = 0

\* What subscribe_to_topic binds: the queue to the topic, and the dead-letter
\* queue to nothing.
DlqName(q) == <<q, "dlq">>
Bindings == {<<"topic", q>> : q \in Queues}

\* A copy of the event at the end of each queue of the topic.
ToTopic(e, count) == [q \in Queues |-> IF <<"topic", q>> \in Bindings
                     THEN Append(ready[q], [event |-> e, count |-> count]) ELSE ready[q]]

\* Delivery i of q is at the given stage of handle_message.
Stage(q, i, stage) == i \in DOMAIN unacked[q] /\ unacked[q][i].at = stage
Become(q, i, stage) == unacked' = [unacked EXCEPT ![q][i].at = stage]

\* publish_event
PublishEvent(e) ==
    /\ e \notin published /\ published' = published \cup {e} /\ ready' = ToTopic(e, 0)
    /\ UNCHANGED <<unacked, dlq, handled, buried, runs, halts>>

\* The next copy is delivered, within the prefetch, and its handler called.
Deliver(q) ==
    /\ ready[q] # <<>> /\ Len(unacked[q]) < Prefetch
    /\ ready' = [ready EXCEPT ![q] = Tail(@)]
    /\ unacked' = [unacked EXCEPT ![q] = Append(@,
          [event |-> Head(ready[q]).event, count |-> Head(ready[q]).count, at |-> "handler"])]
    /\ runs' = [runs EXCEPT ![q][Head(ready[q]).event] = @ + 1]
    /\ UNCHANGED <<published, dlq, handled, buried, halts>>

\* The handler returns; the acknowledgement is still to come.
Complete(q, i) ==
    /\ Stage(q, i, "handler") /\ Become(q, i, "answered")
    /\ handled' = [handled EXCEPT ![q] = @ \cup {unacked[q][i].event}]
    /\ UNCHANGED <<published, ready, dlq, buried, runs, halts>>

\* Mutant: one retry more than the limit.
RaiseOneMore(q, i) ==
    /\ Stage(q, i, "handler")
    /\ \/ Become(q, i, "stuck")
       \/ unacked[q][i].count <= Retries /\ Become(q, i, "backoff")
       \/ Become(q, i, "dead")
    /\ UNCHANGED <<published, ready, dlq, handled, buried, runs, halts>>

\* The handler raises.  ValueError, and what cannot be decoded, is raised on:
\* the delivery is neither acknowledged nor rejected.  An error that may be
\* retried waits for its next try; others, and the last retry's, are dead.
Raise(q, i) ==
    /\ Stage(q, i, "handler")
    /\ \/ Become(q, i, "stuck")
       \/ unacked[q][i].count < Retries /\ Become(q, i, "backoff")
       \/ Become(q, i, "dead")
    /\ UNCHANGED <<published, ready, dlq, handled, buried, runs, halts>>

\* Mutant: the retry is published under the name of the queue.
RepublishToQueue(q, i) ==
    /\ Stage(q, i, "backoff") /\ Become(q, i, "answered")
    /\ UNCHANGED <<published, ready, dlq, handled, buried, runs, halts>>

\* After the backoff the retry goes to the topic.
Republish(q, i) ==
    /\ Stage(q, i, "backoff") /\ Become(q, i, "answered")
    /\ ready' = ToTopic(unacked[q][i].event, unacked[q][i].count + 1)
    /\ UNCHANGED <<published, dlq, handled, buried, runs, halts>>

\* The dead letter is published under the name of the dead-letter queue.
Bury(q, i) ==
    LET e == unacked[q][i].event IN
    /\ Stage(q, i, "dead") /\ Become(q, i, "answered")
    /\ buried' = [buried EXCEPT ![q] = @ \cup {e}]
    /\ dlq' = [dlq EXCEPT ![q] = IF <<DlqName(q), DlqName(q)>> \in Bindings
                                 THEN @ \cup {e} ELSE @]
    /\ UNCHANGED <<published, ready, handled, runs, halts>>

\* ack, of a handled event or after the publication that takes its place.
Ack(q, i) ==
    /\ Stage(q, i, "answered")
    /\ unacked' = [unacked EXCEPT ![q] = RemoveAt(@, i)]
    /\ UNCHANGED <<published, ready, dlq, handled, buried, runs, halts>>

\* The consumer stops: its deliveries are back in the queue, as they were.
Halt(q) ==
    /\ halts < MaxHalts /\ halts' = halts + 1
    /\ ready' = [ready EXCEPT ![q] =
          [i \in DOMAIN unacked[q] |->
              [event |-> unacked[q][i].event, count |-> unacked[q][i].count]] \o @]
    /\ unacked' = [unacked EXCEPT ![q] = <<>>]
    /\ UNCHANGED <<published, dlq, handled, buried, runs>>

BrokerNext ==
    \/ \E e \in Events : PublishEvent(e)
    \/ \E q \in Queues :
          \/ Deliver(q) \/ Halt(q)
          \/ \E i \in 1..Prefetch : \/ Complete(q, i) \/ Raise(q, i) \/ Republish(q, i)
                                    \/ Bury(q, i) \/ Ack(q, i)

BrokerSpec == BrokerInit /\ [][BrokerNext]_brokerVars

-----------------------------------------------------------------------------
\* Properties

BrokerTypeOK ==
    /\ published \subseteq Events /\ halts \in 0..MaxHalts
    /\ \A q \in Queues :
          /\ \A i \in DOMAIN ready[q] : /\ ready[q][i].event \in published
                                        /\ ready[q][i].count \in Nat
          /\ Len(unacked[q]) <= Prefetch /\ handled[q] \subseteq published
          /\ \A i \in DOMAIN unacked[q] :
                unacked[q][i].at \in {"handler", "answered", "stuck", "backoff", "dead"}

\* An event that was published and that q's handler has not completed is in q,
\* in the hands of its consumer, or was sent to the dead letters, wherever a
\* consumer stops: the retry is there before its delivery is acknowledged.
EventAccounted ==
    \A q \in Queues, e \in published :
        \/ e \in handled[q] \cup buried[q]
        \/ \E i \in DOMAIN ready[q] : ready[q][i].event = e
        \/ \E i \in DOMAIN unacked[q] : unacked[q][i].event = e /\ unacked[q][i].at # "answered"

\* The events that q's consumer has in its queue or in a delivery that it has
\* not answered.
Unsettled(q) ==
    {e \in published : \/ \E i \in DOMAIN ready[q] : ready[q][i].event = e
                       \/ \E i \in DOMAIN unacked[q] : /\ unacked[q][i].event = e
                                                       /\ unacked[q][i].at # "answered"}

Promise == INSTANCE EventDelivery
    WITH sent <- published, owed <- [q \in Queues |-> Unsettled(q)],
         settled <- [q \in Queues |-> handled[q] \cup buried[q]]

\* However copies, retries and crashes interleave, each step of the broker does
\* to an event what EventDelivery allows or nothing: it stops being owed to a
\* queue only when that queue's consumer settles it, and what was settled
\* comes back only by a failed handler or a consumer that stopped.
DeliveryKept == Promise!DeliverySpec

\* 1 + |Queues| + ... + |Queues|^n, as a copy that fails brings one copy of the
\* next count to every queue.
RunLimit[n \in Nat] == IF n = 0 THEN 1 ELSE 1 + Cardinality(Queues) * RunLimit[n - 1]

\* The failures of all consumers add up, as each retry is for all of them: for
\* one event a handler that no crash interrupts is called no more than RunLimit
\* says, 15 times for two queues and three retries, and not the four times of a
\* private retry.
RunsBounded ==
    halts = 0 => \A q \in Queues, e \in Events : runs[q][e] <= RunLimit[Retries]

\* "messages that exceed retries are republished to a queue named <queue>.dlq"
\* (CONTRACTS.md): what a consumer gave up is in its dead-letter queue.
DeadLettersKept == \A q \in Queues : buried[q] \subseteq dlq[q]
=============================================================================

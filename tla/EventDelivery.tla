---------------------------- MODULE EventDelivery ----------------------------
(***************************************************************************)
(* What common-py promises of the events of one topic, without copies,     *)
(* counts, places in a queue and acknowledgements: an event that was sent  *)
(* is owed to every queue of the topic until the consumer of that queue    *)
(* has settled it, by handling it or by giving it to the dead letters.     *)
(*                                                                         *)
(* A settled event may be owed again: a retry for one queue goes to all,   *)
(* and a consumer that stops gets what it did not acknowledge once more.   *)
(***************************************************************************)
CONSTANTS
    Queues,     \* queues bound to the topic
    Events      \* events sent to it

VARIABLES
    sent,       \* events that were sent
    owed,       \* owed[q]: events that q's consumer is still to settle
    settled     \* settled[q]: events that it has settled, once or more often

delivery == <<sent, owed, settled>>

DeliveryInit ==
    /\ sent = {} /\ owed = [q \in Queues |-> {}] /\ settled = [q \in Queues |-> {}]

\* The event is owed to everyone.
OweToAll(e) == owed' = [q \in Queues |-> owed[q] \cup {e}]

Send(e) ==
    /\ e \notin sent /\ sent' = sent \cup {e} /\ OweToAll(e)
    /\ UNCHANGED settled

\* One consumer failed on what it was owed, and all will see the event again.
SendAgain(q, e) ==
    /\ e \in owed[q] /\ OweToAll(e)
    /\ UNCHANGED <<sent, settled>>

\* What is settled may be owed by another copy still.
Settle(q, e) ==
    /\ e \in owed[q] /\ settled' = [settled EXCEPT ![q] = @ \cup {e}]
    /\ owed' = [owed EXCEPT ![q] = @ \ {e}] \/ UNCHANGED owed
    /\ UNCHANGED sent

\* Only what was settled comes back without a failure.
BringBack(q) ==
    /\ \E back \in SUBSET settled[q] : owed' = [owed EXCEPT ![q] = @ \cup back]
    /\ UNCHANGED <<sent, settled>>

DeliveryNext ==
    \/ \E e \in Events : Send(e)
    \/ \E q \in Queues : BringBack(q) \/ \E e \in Events : SendAgain(q, e) \/ Settle(q, e)

DeliverySpec == DeliveryInit /\ [][DeliveryNext]_delivery
=============================================================================

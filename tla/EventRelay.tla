----------------------------- MODULE EventRelay -----------------------------
(***************************************************************************)
(* The compilation queue composed with the delivery of its outbox to the   *)
(* inbox of a consumer.  deliver_next hands the oldest event without a     *)
(* receipt to its sink, here accept_event, and then records the receipt;   *)
(* it can die between the two, so an event may be handed over again.       *)
(* A refusal by the sink escapes deliver_next before the receipt, and the  *)
(* same event is first again at the next call.                             *)
(***************************************************************************)
EXTENDS CompilationStore

VARIABLES
    receipts,        \* delivery_receipts: ids of events known to be delivered
    inbox,           \* ids of the events the consumer accepted
    inboxSequences   \* subject -> last accepted sequence

relayVars == <<receipts, inbox, inboxSequences>>
allVars == <<jobs, operations, profiles, profileBindings, outbox, held, faults,
             receipts, inbox, inboxSequences>>

Pending == (DOMAIN outbox) \ receipts

\* The record deliver_next picks: the earliest time, ties broken by the random
\* event id, so by any of them.
NextToDeliver(e) ==
    /\ e \in Pending
    /\ \A n \in Pending : outbox[e].time <= outbox[n].time

\* accept_event raises EVENT_SEQUENCE_REFUSED for an unknown event that does
\* not move its subject forward.
SequenceRefused(e) ==
    /\ e \notin inbox
    /\ outbox[e].sequence <= inboxSequences[outbox[e].subject]

\* Variant: the event's place in the outbox is stored as its sequence.
AcceptEventByPosition(e) ==
    /\ ~SequenceRefused(e)
    /\ inbox' = inbox \union {e}
    /\ inboxSequences' = [inboxSequences EXCEPT ![outbox[e].subject] = e]

\* Variant: an event the consumer has already accepted is refused.
AcceptEventOnce(e) ==
    /\ outbox[e].sequence > inboxSequences[outbox[e].subject]
    /\ inbox' = inbox \union {e}
    /\ inboxSequences' = [inboxSequences EXCEPT ![outbox[e].subject] = outbox[e].sequence]

\* accept_event: a known event changes nothing, a new one is stored and moves
\* its subject's sequence.
AcceptEvent(e) ==
    /\ ~SequenceRefused(e)
    /\ IF e \in inbox
         THEN UNCHANGED <<inbox, inboxSequences>>
         ELSE /\ inbox' = inbox \union {e}
              /\ inboxSequences' =
                    [inboxSequences EXCEPT ![outbox[e].subject] = outbox[e].sequence]

\* deliver_next runs to its end.
DeliverNext ==
    \E e \in Pending :
        /\ NextToDeliver(e)
        /\ AcceptEvent(e)
        /\ receipts' = receipts \union {e}
        /\ UNCHANGED vars

\* deliver_next dies after the sink took the event and before the receipt.
DeliverAndCrash ==
    \E e \in Pending :
        /\ NextToDeliver(e)
        /\ AcceptEvent(e)
        /\ UNCHANGED <<receipts, vars>>

RelayInit ==
    /\ Init
    /\ receipts = {}
    /\ inbox = {}
    /\ inboxSequences = [j \in Job |-> 0]

QueueStep == Next /\ UNCHANGED relayVars

RelayNext == QueueStep \/ DeliverNext \/ DeliverAndCrash

RelaySpec == RelayInit /\ [][RelayNext]_allVars

\* Beside the workers, the relay is called again and again and does not die
\* every time.
RelayFairSpec == RelaySpec /\ Fairness /\ WF_allVars(DeliverNext)

-----------------------------------------------------------------------------
\* Properties.

AcceptedOf(j) == {e \in inbox : outbox[e].subject = j}

\* The consumer has accepted, for every operation, a gap-free run of its
\* transitions from the first, each once: redelivery, ties in time and the
\* interleaving of several operations' events never make it skip one.
InboxIsPrefix ==
    \A j \in Job :
        /\ {outbox[e].sequence : e \in AcceptedOf(j)} =
              IF inboxSequences[j] = 0 THEN {} ELSE 2..inboxSequences[j]
        /\ Cardinality(AcceptedOf(j)) = IF inboxSequences[j] = 0 THEN 0 ELSE inboxSequences[j] - 1

\* What a consumer knows of an operation: that it was created, until the first of
\* its events, then what the last accepted of them says.
LastAccepted(j) == CHOOSE e \in AcceptedOf(j) : outbox[e].sequence = inboxSequences[j]

KnownRow(j) ==
    IF operations[j].state = "ABSENT" THEN NoOperation
    ELSE IF inboxSequences[j] = 0 THEN OperationRow("PENDING", 1, 0, None)
    ELSE OperationRow(outbox[LastAccepted(j)].state, inboxSequences[j], 0, None)

KnownRows == [j \in Job |-> KnownRow(j)]

Consumer == INSTANCE OperationLifecycle
    WITH Operation <- Job, NoResult <- None, operations <- KnownRows

\* What the consumer knows of an operation lives the abstract life cycle itself:
\* late as it may be, it moves along legal transitions, one version at a time, and
\* neither a repeated delivery nor another operation's events make it skip one.
ConsumerFollows == Consumer!OpSpec

\* An event's state and its sequence say the same.
EventsTellVersion ==
    \A n \in DOMAIN outbox : outbox[n].sequence = VersionFor[outbox[n].state]

\* The inbox holds what its bookkeeping says: every receipted event was accepted,
\* and of each operation the accepted events are those up to its last accepted
\* sequence.
RelayIInv ==
    /\ receipts \subseteq inbox
    /\ inbox \subseteq DOMAIN outbox
    /\ inboxSequences \in [Job -> Nat]
    /\ \A j \in Job : inboxSequences[j] # 0 =>
          \E e \in AcceptedOf(j) : outbox[e].sequence = inboxSequences[j]
    /\ \A e \in DOMAIN outbox :
          e \in inbox <=> outbox[e].sequence <= inboxSequences[outbox[e].subject]

\* The head of the outbox is never an event the consumer refuses: such an
\* event would be retried for ever and hold back every tenant's events.
RelayNeverBlocked == \A e \in Pending : NextToDeliver(e) => ~SequenceRefused(e)

\* Every committed event is accepted and receipted in the end.
EventsDelivered ==
    \A n \in 1..(2 * Cardinality(Job)) : n \in DOMAIN outbox ~> n \in receipts
=============================================================================

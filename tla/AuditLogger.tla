----------------------------- MODULE AuditLogger -----------------------------
(***************************************************************************)
(* The audit logger: one worker that collects audit events in memory,      *)
(* stores them in batches and acknowledges them after the commit.  The     *)
(* broker delivers ahead of the worker, into the buffer of the iterator    *)
(* that its loop reads from.                                               *)
(***************************************************************************)
EXTENDS WorkQueue, Sequences, FiniteSets

CONSTANTS
    Events,
    BatchSize,     \* how many events process_batch waits for
    Prefetch       \* deliveries that may be open on a channel

ASSUME BatchAssumption == BatchSize \in Nat \ {0}
ASSUME PrefetchAssumption == Prefetch \in Nat /\ Prefetch >= BatchSize

VARIABLES
    eventQ,        \* the logger_queue
    rows,          \* event -> its rows in audit_logs
    prefetched,    \* deliveries that the loop has not read yet
    pc,            \* the worker's next effect
    batch,         \* deliveries collected, in order
    inserted,      \* the batch's rows are in the database
    next,          \* index of the delivery to answer
    closing        \* the worker is in its finally block

vars == <<eventQ, rows, prefetched, pc, batch, inserted, next, closing>>

Deliveries == [event : Events, count : 0..DeliveryLimit]

Fresh == batch' = << >> /\ inserted' = FALSE /\ next' = 1

Init ==
    /\ eventQ = [e \in Events |-> NoMessage]
    /\ rows = [e \in Events |-> 0]
    /\ prefetched = {}
    /\ pc = "collect"
    /\ batch = << >>
    /\ inserted = FALSE
    /\ next = 1
    /\ closing = FALSE

Positions == 1..Len(batch)
IsOpen(d) == HeldAt(eventQ, d.event, d.count)
Open(i) == IsOpen(batch[i])

(* All that is delivered and not answered, and the part the loop has not read *)
HeldEvents == {e \in Events : eventQ[e].state = "held"}
Unread == {d.event : d \in {x \in prefetched : IsOpen(x)}}

ReturnAll(es) ==
    eventQ' = [e \in Events |-> IF e \in es THEN Return(eventQ, e)[e] ELSE eventQ[e]]

PublishEvent(e) ==
    /\ eventQ[e].state = "none"
    /\ eventQ' = Publish(eventQ, e)
    /\ UNCHANGED <<rows, prefetched, pc, batch, inserted, next, closing>>

(* A slip in MayDeliver: connect() is left at its default of one. *)
OneAtATime == Cardinality(HeldEvents) < 1

MayDeliver == Cardinality(HeldEvents) < Prefetch

(* Also while a batch is processed, until the consumer is cancelled.  The  *)
(* loop may read what waits for it in any order.                           *)
DeliverEvent(e) ==
    /\ pc # "down" /\ ~ closing
    /\ IsReady(eventQ, e)
    /\ MayDeliver
    /\ eventQ' = Deliver(eventQ, e)
    /\ prefetched' = prefetched \cup {[event |-> e, count |-> eventQ[e].count]}
    /\ UNCHANGED <<rows, pc, batch, inserted, next, closing>>

CollectEvent(d) ==
    /\ pc = "collect"
    /\ prefetched' = prefetched \ {d}
    /\ batch' = Append(batch, d)
    /\ pc' = IF Len(batch) + 1 >= BatchSize THEN "commit" ELSE "collect"
    /\ UNCHANGED <<eventQ, rows, inserted, next, closing>>

-----------------------------------------------------------------------------
(* process_batch *)

Occurrences(e) == Cardinality({i \in Positions : batch[i].event = e})

(* A slip in CommitBatch: the rows are inserted again. *)
InsertAgain ==
    /\ pc = "commit"
    /\ rows' = [e \in Events |-> rows[e] + Occurrences(e)]
    /\ inserted' = TRUE
    /\ pc' = "ack"
    /\ next' = 1
    /\ UNCHANGED <<eventQ, prefetched, batch, closing>>

(* Rows that are in the database already are attached again, not inserted. *)
CommitBatch ==
    /\ pc = "commit"
    /\ rows' = [e \in Events |-> IF inserted THEN rows[e] ELSE rows[e] + Occurrences(e)]
    /\ inserted' = TRUE
    /\ pc' = "ack"
    /\ next' = 1
    /\ UNCHANGED <<eventQ, prefetched, batch, closing>>

(* A slip in CommitFails: the failure is logged and the batch acknowledged. *)
FailureLogged ==
    /\ pc = "commit"
    /\ pc' = "ack"
    /\ next' = 1
    /\ UNCHANGED <<eventQ, rows, prefetched, batch, inserted, closing>>

CommitFails ==
    /\ pc = "commit"
    /\ pc' = "nack"
    /\ next' = 1
    /\ UNCHANGED <<eventQ, rows, prefetched, batch, inserted, closing>>

(* After the last answer: on with the loop, or out of the finally block *)
NextAnswer ==
    IF next < Len(batch)
    THEN next' = next + 1 /\ UNCHANGED <<pc, batch, inserted, closing>>
    ELSE /\ Fresh
         /\ pc' = IF closing THEN "down" ELSE "collect"
         /\ UNCHANGED closing

(* A slip in AckNext: an answer on a channel that is gone counts. *)
AckAnyway ==
    /\ pc = "ack"
    /\ eventQ' = Ack(eventQ, batch[next].event)
    /\ NextAnswer
    /\ UNCHANGED <<rows, prefetched>>

AckNext ==
    /\ pc = "ack"
    /\ Open(next)
    /\ eventQ' = Ack(eventQ, batch[next].event)
    /\ NextAnswer
    /\ UNCHANGED <<rows, prefetched>>

(* An ack on a closed channel raises; all messages of the batch are then   *)
(* returned from the first, the acknowledged ones included.                *)
AckRaises ==
    /\ pc = "ack"
    /\ ~ Open(next)
    /\ pc' = "nack"
    /\ next' = 1
    /\ UNCHANGED <<eventQ, rows, prefetched, batch, inserted, closing>>

NackNext ==
    /\ pc = "nack"
    /\ Open(next)
    /\ eventQ' = Return(eventQ, batch[next].event)
    /\ NextAnswer
    /\ UNCHANGED <<rows, prefetched>>

(* Leaving the iterator cancels the consumer and gives the buffer back. *)
LeaveLoop ==
    /\ closing' = TRUE
    /\ prefetched' = {}
    /\ ReturnAll(Unread)

(* The process ends and its connection with it. *)
GoDown ==
    /\ pc' = "down"
    /\ Fresh
    /\ prefetched' = {}
    /\ ReturnAll(HeldEvents)

(* A nack of an answered message or on a closed channel raises out of      *)
(* process_batch: from the loop into the finally block, which runs         *)
(* process_batch once more, and from there out of the process.             *)
NackRaises ==
    /\ pc = "nack"
    /\ ~ Open(next)
    /\ \/ closing /\ GoDown /\ UNCHANGED closing
       \/ ~ closing /\ LeaveLoop /\ pc' = "commit" /\ UNCHANGED <<batch, inserted, next>>
    /\ UNCHANGED rows

-----------------------------------------------------------------------------
(* A cancellation, or an exception of the loop: flush what is there. *)
StopLogger ==
    /\ pc # "down"
    /\ ~ closing
    /\ LeaveLoop
    /\ pc' = IF batch = << >> THEN "down" ELSE "commit"
    /\ UNCHANGED <<rows, batch, inserted, next>>

CrashLogger ==
    /\ pc # "down"
    /\ GoDown
    /\ UNCHANGED <<rows, closing>>

(* The connection drops and comes back; what was delivered stays in memory. *)
DropLoggerChannel ==
    /\ HeldEvents # {}
    /\ ReturnAll(HeldEvents)
    /\ UNCHANGED <<rows, prefetched, pc, batch, inserted, next, closing>>

RestartLogger ==
    /\ pc = "down"
    /\ pc' = "collect"
    /\ closing' = FALSE
    /\ UNCHANGED <<eventQ, rows, prefetched, batch, inserted, next>>

-----------------------------------------------------------------------------
(* What the worker does of itself *)
Work ==
    \/ \E d \in prefetched : CollectEvent(d)
    \/ CommitBatch
    \/ CommitFails
    \/ AckNext
    \/ AckRaises
    \/ NackNext
    \/ NackRaises

LoggerStep ==
    \/ \E e \in Events : DeliverEvent(e)
    \/ Work
    \/ StopLogger
    \/ CrashLogger
    \/ DropLoggerChannel
    \/ RestartLogger

Next ==
    \/ \E e \in Events : PublishEvent(e)
    \/ LoggerStep

Spec == Init /\ [][Next]_vars

-----------------------------------------------------------------------------
(* Every variable stays in its type. *)
TypeOK ==
    /\ eventQ \in [Events -> Message]
    /\ rows \in [Events -> Nat]
    /\ prefetched \in SUBSET Deliveries
    /\ pc \in {"collect", "commit", "ack", "nack", "down"}
    /\ batch \in Seq(Deliveries)
    /\ inserted \in BOOLEAN
    /\ next \in Nat \ {0}
    /\ closing \in BOOLEAN

(* An event is acknowledged only after a commit stored it, however the     *)
(* batch ends: closed channel, failed commit or shutdown.                  *)
AckedIsLogged == \A e \in Events : eventQ[e].state = "acked" => rows[e] > 0

AuditContract ==
    INSTANCE TaskContract
    WITH Tasks <- Events,
         task <- Standing(eventQ),
         effect <- {e \in Events : rows[e] > 0}

(* Seen through the logger_queue, the audit logger keeps the contract of a *)
(* task queue, a whole batch at a time: what it acknowledged or lost stays *)
(* so, also when it answers a batch twice or on a channel that is gone.    *)
AuditPromise == AuditContract!Promise

(* A batch that is answered twice, or on a channel that is gone, leaves    *)
(* each of its messages alone or brings it nearer to its end.              *)
EventsEnd == [][MovesOn(eventQ, eventQ')]_vars

(* How often an event was delivered so far *)
DeliveredTimes(e) ==
    eventQ[e].count + (IF eventQ[e].state \in {"held", "acked", "dead"} THEN 1 ELSE 0)

(* An event is stored at most once for each delivery of it, although the   *)
(* finally block processes a batch that was processed before again.        *)
OneRowPerDelivery == \A e \in Events : rows[e] <= DeliveredTimes(e)

Unsettled == {e \in Events : eventQ[e].state \in {"ready", "held"}}

(* Events wait for a batch, but never a whole batch of them: the channel's *)
(* prefetch is large enough to collect one.                                *)
BatchesSettle == Cardinality(Unsettled) >= BatchSize ~> Cardinality(Unsettled) < BatchSize

-----------------------------------------------------------------------------
(* Why the invariants are inductive: what the worker knows of its batch    *)

BatchShape ==
    /\ pc \in {"commit", "ack", "nack"} => batch # << >>
    /\ pc \in {"ack", "nack"} => next <= Len(batch)
    /\ pc = "down" => batch = << >>
    /\ pc = "ack" => inserted
    /\ pc \in {"collect", "down"} => ~ inserted

(* The loop reads from the buffer as long as it has not been left. *)
BufferShape ==
    /\ IsFiniteSet(prefetched)
    /\ closing => prefetched = {}

BatchStored == inserted => \A i \in Positions : rows[batch[i].event] > 0

BatchPublished ==
    /\ \A i \in Positions : eventQ[batch[i].event].state # "none"
    /\ \A d \in prefetched : eventQ[d.event].state # "none"
    /\ \A e \in Events : eventQ[e].state = "none" => eventQ[e].count = 0

(* What waits in the buffer was delivered; a new delivery is none of that. *)
BufferDelivered == \A d \in prefetched : d.count < DeliveredTimes(d.event)

(* Each place in a batch that is not stored, and each delivery that waits  *)
(* for a batch, stands for a delivery that has no row yet.                 *)
Waiting(e) == Cardinality({d \in prefetched : d.event = e})

BatchDelivered ==
    \A e \in Events :
        rows[e] + Waiting(e) + (IF inserted THEN 0 ELSE Occurrences(e)) <= DeliveredTimes(e)

AuditInv ==
    /\ TypeOK
    /\ BatchShape
    /\ BufferShape
    /\ BatchStored
    /\ BatchPublished
    /\ BufferDelivered
    /\ BatchDelivered
    /\ AckedIsLogged
    /\ OneRowPerDelivery

=============================================================================

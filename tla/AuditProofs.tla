----------------------------- MODULE AuditProofs -----------------------------
(***************************************************************************)
(* Proofs about the audit logger and its publisher, for every set of       *)
(* events, every batch size and every delivery limit.                      *)
(***************************************************************************)
EXTENDS AuditTrail, QueueProofs, FiniteSetTheorems, SequenceTheorems

-----------------------------------------------------------------------------
(* The batch as a sequence *)

LEMMA BatchElements ==
    ASSUME TypeOK
    PROVE  /\ Len(batch) \in Nat
           /\ Positions = 1..Len(batch)
           /\ \A i \in Positions : /\ batch[i] \in Deliveries
                                   /\ batch[i].event \in Events
                                   /\ batch[i].count \in 0..DeliveryLimit
<1>1. batch \in Seq(Deliveries)
  BY DEF TypeOK
<1>2. Len(batch) \in Nat /\ \A i \in 1..Len(batch) : batch[i] \in Deliveries
  BY <1>1, ElementOfSeq, LenProperties
<1> QED
  BY <1>2 DEF Positions, Deliveries

(* How often an event occurs is a number, and not 0 if it occurs. *)
LEMMA OccurrenceCounts ==
    ASSUME TypeOK, NEW e \in Events
    PROVE  /\ Occurrences(e) \in Nat
           /\ (\E i \in Positions : batch[i].event = e) <=> Occurrences(e) > 0
           /\ batch = << >> => Occurrences(e) = 0
<1> DEFINE At == {i \in Positions : batch[i].event = e}
<1>1. IsFiniteSet(Positions)
  BY BatchElements, FS_Interval
<1>2. IsFiniteSet(At) /\ Cardinality(At) \in Nat
  <2>1. At \in SUBSET Positions
    OBVIOUS
  <2> QED
    BY <1>1, <2>1, FS_Subset, FS_CardinalityType
<1>3. Cardinality(At) = 0 <=> At = {}
  BY <1>2, FS_EmptySet
<1>4. batch = << >> => At = {}
  BY BatchElements, EmptySeq DEF Positions
<1> HIDE DEF At
<1>5. Occurrences(e) = Cardinality(At)
  BY DEF Occurrences, At
<1>6. (\E i \in Positions : batch[i].event = e) <=> At # {}
  BY DEF At
<1> QED
  BY <1>2, <1>3, <1>4, <1>5, <1>6

(* What one more delivery in the batch adds to the occurrences *)
LEMMA OccurrenceAdded ==
    ASSUME TypeOK, NEW e \in Events, NEW d \in Deliveries, batch' = Append(batch, d)
    PROVE  /\ Positions' = Positions \cup {Len(batch) + 1}
           /\ \A i \in Positions : batch'[i] = batch[i]
           /\ batch'[Len(batch) + 1] = d
           /\ Occurrences(e)' = Occurrences(e) + (IF d.event = e THEN 1 ELSE 0)
<1> DEFINE now == {i \in Positions : batch[i].event = e}
           then == {i \in Positions' : batch'[i].event = e}
<1>1. Len(batch) \in Nat /\ Positions = 1..Len(batch)
  BY BatchElements
<1>2. /\ Len(batch') = Len(batch) + 1
      /\ \A i \in 1..Len(batch) : batch'[i] = batch[i]
      /\ batch'[Len(batch) + 1] = d
  BY AppendProperties DEF TypeOK
<1>3. Positions' = Positions \cup {Len(batch) + 1}
  BY <1>1, <1>2 DEF Positions
<1>4. then = IF d.event = e THEN now \cup {Len(batch) + 1} ELSE now
  BY <1>1, <1>2, <1>3
<1>5. IsFiniteSet(now) /\ Cardinality(now) \in Nat
  <2>1. IsFiniteSet(Positions) /\ now \in SUBSET Positions
    BY <1>1, FS_Interval
  <2> QED
    BY <2>1, FS_Subset, FS_CardinalityType
<1>6. Len(batch) + 1 \notin now
  BY <1>1
<1>7. Cardinality(now \cup {Len(batch) + 1}) = Cardinality(now) + 1
  BY <1>5, <1>6, FS_AddElement
<1>8. Occurrences(e) = Cardinality(now) /\ Occurrences(e)' = Cardinality(then)
  BY DEF Occurrences
<1> HIDE DEF now, then
<1> QED
  BY <1>1, <1>2, <1>3, <1>4, <1>5, <1>7, <1>8

-----------------------------------------------------------------------------
(* The buffer as a set *)

LEMMA WaitingCounts ==
    ASSUME IsFiniteSet(prefetched), NEW e \in Events
    PROVE  IsFiniteSet({d \in prefetched : d.event = e}) /\ Waiting(e) \in Nat
<1>1. {d \in prefetched : d.event = e} \in SUBSET prefetched
  OBVIOUS
<1> QED
  BY <1>1, FS_Subset, FS_CardinalityType DEF Waiting

(* What a delivery that comes into the buffer adds to those that wait *)
LEMMA WaitingAdded ==
    ASSUME IsFiniteSet(prefetched), NEW e \in Events,
           NEW d, d \notin prefetched, prefetched' = prefetched \cup {d}
    PROVE  Waiting(e)' = Waiting(e) + (IF d.event = e THEN 1 ELSE 0)
<1> DEFINE now == {x \in prefetched : x.event = e}
           then == {x \in prefetched' : x.event = e}
<1>1. IsFiniteSet(now) /\ Cardinality(now) \in Nat /\ Cardinality(now) = Waiting(e)
  BY WaitingCounts DEF Waiting
<1>2. Waiting(e)' = Cardinality(then)
  BY DEF Waiting
<1>3. then = IF d.event = e THEN now \cup {d} ELSE now
  OBVIOUS
<1>4. d \notin now
  OBVIOUS
<1> HIDE DEF now, then
<1>5. Cardinality(now \cup {d}) = Cardinality(now) + 1
  BY <1>1, <1>4, FS_AddElement
<1> QED
  BY <1>1, <1>2, <1>3, <1>5

(* What one that the loop reads takes from them *)
LEMMA WaitingRemoved ==
    ASSUME IsFiniteSet(prefetched), NEW e \in Events,
           NEW d \in prefetched, prefetched' = prefetched \ {d}
    PROVE  Waiting(e) = Waiting(e)' + (IF d.event = e THEN 1 ELSE 0)
<1> DEFINE now == {x \in prefetched : x.event = e}
           then == {x \in prefetched' : x.event = e}
<1>1. IsFiniteSet(now) /\ Cardinality(now) \in Nat /\ Cardinality(now) = Waiting(e)
  BY WaitingCounts DEF Waiting
<1>2. Waiting(e)' = Cardinality(then)
  BY DEF Waiting
<1>3. then = IF d.event = e THEN now \ {d} ELSE now
  OBVIOUS
<1>4. d.event = e => d \in now
  OBVIOUS
<1> HIDE DEF now, then
<1>5. d.event = e => Cardinality(now \ {d}) = Cardinality(now) - 1
  BY <1>1, <1>4, FS_RemoveElement
<1> QED
  BY <1>1, <1>2, <1>3, <1>5

-----------------------------------------------------------------------------
(* The queue: what the return of many messages does to each of them *)

LEMMA AllReturned ==
    ASSUME TypeOK, NEW es \in SUBSET HeldEvents, ReturnAll(es)
    PROVE  /\ eventQ' \in [Events -> Message]
           /\ \A e \in Events :
                 \/ eventQ'[e] = eventQ[e]
                 \/ eventQ[e].state = "held" /\ eventQ'[e] = Return(eventQ, e)[e]
<1>1. \A e \in Events : Return(eventQ, e) \in [Events -> Message]
  BY QueueTypes DEF TypeOK
<1>2. \A e \in es : eventQ[e].state = "held"
  BY DEF HeldEvents
<1> QED
  BY <1>1, <1>2 DEF ReturnAll, TypeOK

LEMMA UnreadIsHeld ==
    ASSUME TypeOK
    PROVE  Unread \in SUBSET HeldEvents
<1> SUFFICES ASSUME NEW d \in prefetched, IsOpen(d) PROVE d.event \in HeldEvents
  BY DEF Unread
<1>1. d.event \in Events
  BY DEF TypeOK, Deliveries
<1> QED
  BY <1>1 DEF HeldEvents, IsOpen, HeldAt

(* The buffer, the batch and the rows change together in few ways. *)
LEMMA BatchMoves ==
    ASSUME LoggerStep
    PROVE  \/ /\ UNCHANGED <<batch, inserted, rows>> \/ (Fresh /\ UNCHANGED rows)
              /\ prefetched' \in {prefetched, {}}
           \/ CommitBatch
           \/ \E e \in Events : DeliverEvent(e)
           \/ \E d \in prefetched : CollectEvent(d)
BY DEF LoggerStep, Work, CommitFails, AckNext, AckRaises, NackNext, NackRaises, NextAnswer,
       StopLogger, CrashLogger, DropLoggerChannel, RestartLogger, LeaveLoop, GoDown

LEMMA AnsweredEvent ==
    ASSUME TypeOK, BatchShape, pc \in {"ack", "nack"}
    PROVE  next \in Positions /\ batch[next].event \in Events
<1>1. next \in Positions
  BY BatchElements DEF TypeOK, BatchShape
<1> QED
  BY <1>1, BatchElements

(* What a step of the worker does to the queue: one message, or the return *)
(* of some or all that it holds.                                           *)
LEMMA QueueStep ==
    ASSUME TypeOK, BatchShape, LoggerStep
    PROVE  \/ eventQ' = eventQ
           \/ \E e \in Events : DeliverEvent(e)
           \/ \E e \in Events : /\ eventQ[e].state = "held"
                                /\ eventQ' = Ack(eventQ, e)
                                /\ pc = "ack" /\ e = batch[next].event
           \/ \E e \in Events : eventQ[e].state = "held" /\ eventQ' = Return(eventQ, e)
           \/ \E es \in SUBSET HeldEvents : ReturnAll(es)
<1>1. CASE AckNext \/ NackNext
  <2>1. batch[next].event \in Events
    BY <1>1, AnsweredEvent DEF AckNext, NackNext
  <2>2. eventQ[batch[next].event].state = "held"
    BY <1>1 DEF AckNext, NackNext, Open, IsOpen, HeldAt
  <2> QED
    BY <1>1, <2>1, <2>2 DEF AckNext, NackNext
<1>2. CASE NackRaises \/ StopLogger \/ CrashLogger \/ DropLoggerChannel
  <2>1. ReturnAll(Unread) \/ ReturnAll(HeldEvents)
    BY <1>2 DEF NackRaises, StopLogger, CrashLogger, DropLoggerChannel, LeaveLoop, GoDown
  <2> QED
    BY <2>1, UnreadIsHeld
<1> QED
  BY <1>1, <1>2
  DEF LoggerStep, Work, CollectEvent, CommitBatch, CommitFails, AckRaises, RestartLogger

(* No step of the worker makes an event unpublished, or forgets a delivery;*)
(* one is acknowledged only by AckNext.                                    *)
LEMMA EventStep ==
    ASSUME TypeOK, BatchShape, LoggerStep
    PROVE  /\ eventQ' \in [Events -> Message]
           /\ \A e \in Events :
                 /\ eventQ'[e].state = "none" <=> eventQ[e].state = "none"
                 /\ eventQ[e].state = "none" => eventQ'[e].count = eventQ[e].count
                 /\ eventQ'[e].state = "acked" =>
                       \/ eventQ[e].state = "acked"
                       \/ pc = "ack" /\ e = batch[next].event
                 /\ DeliveredTimes(e)' >= DeliveredTimes(e)
<1> DEFINE Moves(e) ==
              /\ eventQ'[e].state = "none" <=> eventQ[e].state = "none"
              /\ eventQ[e].state = "none" => eventQ'[e].count = eventQ[e].count
              /\ eventQ'[e].state = "acked" =>
                    eventQ[e].state = "acked" \/ (pc = "ack" /\ e = batch[next].event)
              /\ DeliveredTimes(e)' >= DeliveredTimes(e)
<1>1. eventQ' \in [Events -> Message]
  <2>1. \A e \in Events : /\ Deliver(eventQ, e) \in [Events -> Message]
                          /\ Ack(eventQ, e) \in [Events -> Message]
                          /\ Return(eventQ, e) \in [Events -> Message]
    BY QueueTypes DEF TypeOK
  <2>2. \A e \in Events : DeliverEvent(e) => eventQ' = Deliver(eventQ, e)
    BY DEF DeliverEvent
  <2>3. eventQ \in [Events -> Message]
    BY DEF TypeOK
  <2>4. \A es \in SUBSET HeldEvents : ReturnAll(es) => eventQ' \in [Events -> Message]
    BY AllReturned
  <2> QED
    BY <2>1, <2>2, <2>3, <2>4, QueueStep
<1>2. \A e \in Events : eventQ[e].count \in Nat /\ eventQ'[e].count \in Nat
  BY <1>1, DeliveryLimitAssumption DEF TypeOK, Message
<1>3. ASSUME NEW e \in Events, eventQ'[e] = eventQ[e] PROVE Moves(e)
  <2>1. DeliveredTimes(e)' = DeliveredTimes(e)
    BY <1>3 DEF DeliveredTimes
  <2>2. DeliveredTimes(e) \in Nat
    BY <1>2 DEF DeliveredTimes
  <2>3. DeliveredTimes(e)' >= DeliveredTimes(e)
    BY <2>1, <2>2
  <2>4. /\ eventQ'[e].state = eventQ[e].state
        /\ eventQ'[e].count = eventQ[e].count
    BY <1>3
  <2> QED
    BY <2>3, <2>4
<1>4. ASSUME NEW e \in Events, eventQ[e].state = "ready", eventQ'[e].state = "held",
             eventQ'[e].count = eventQ[e].count
      PROVE  Moves(e)
  BY <1>2, <1>4 DEF DeliveredTimes
<1>5. ASSUME NEW e \in Events, eventQ[e].state = "held", eventQ'[e].state = "acked",
             eventQ'[e].count = eventQ[e].count, pc = "ack", e = batch[next].event
      PROVE  Moves(e)
  BY <1>2, <1>5 DEF DeliveredTimes
<1>6. ASSUME NEW e \in Events, eventQ[e].state = "held",
             \/ eventQ'[e].state = "ready" /\ eventQ'[e].count = eventQ[e].count + 1
             \/ eventQ'[e].state = "dead" /\ eventQ'[e].count = eventQ[e].count
      PROVE  Moves(e)
  BY <1>2, <1>6 DEF DeliveredTimes
<1> HIDE DEF Moves
<1>7. ASSUME NEW x \in Events, DeliverEvent(x) PROVE \A e \in Events : Moves(e)
  <2>1. eventQ[x].state = "ready" /\ eventQ' = Deliver(eventQ, x)
    BY <1>7 DEF DeliverEvent, IsReady
  <2>2. /\ \A e \in Events \ {x} : eventQ'[e] = eventQ[e]
        /\ eventQ'[x].state = "held" /\ eventQ'[x].count = eventQ[x].count
    BY <2>1 DEF Deliver, TypeOK
  <2> QED
    BY <1>3, <1>4, <2>1, <2>2
<1>8. ASSUME NEW x \in Events, eventQ[x].state = "held", eventQ' = Ack(eventQ, x),
             pc = "ack", x = batch[next].event
      PROVE  \A e \in Events : Moves(e)
  <2>1. /\ \A e \in Events \ {x} : eventQ'[e] = eventQ[e]
        /\ eventQ'[x].state = "acked" /\ eventQ'[x].count = eventQ[x].count
    BY <1>8 DEF Ack, TypeOK
  <2> QED
    BY <1>3, <1>5, <1>8, <2>1
<1>9. ASSUME NEW x \in Events, eventQ[x].state = "held", eventQ' = Return(eventQ, x)
      PROVE  \A e \in Events : Moves(e)
  <2>1. eventQ \in [Events -> Message]
    BY DEF TypeOK
  <2>2. \A e \in Events \ {x} : eventQ'[e] = eventQ[e]
    BY <1>9, <2>1, MessageReturned
  <2>3. \/ eventQ'[x].state = "ready" /\ eventQ'[x].count = eventQ[x].count + 1
        \/ eventQ'[x].state = "dead" /\ eventQ'[x].count = eventQ[x].count
    BY <1>9, <2>1, MessageReturned
  <2> QED
    BY <1>3, <1>6, <1>9, <2>2, <2>3
<1>10. ASSUME NEW es \in SUBSET HeldEvents, ReturnAll(es), NEW e \in Events PROVE Moves(e)
  <2>1. eventQ \in [Events -> Message]
    BY DEF TypeOK
  <2>2. CASE eventQ'[e] = eventQ[e]
    BY <1>3, <2>2
  <2>3. CASE eventQ[e].state = "held" /\ eventQ'[e] = Return(eventQ, e)[e]
    <3>1. \/ eventQ'[e].state = "ready" /\ eventQ'[e].count = eventQ[e].count + 1
          \/ eventQ'[e].state = "dead" /\ eventQ'[e].count = eventQ[e].count
      BY <2>1, <2>3, MessageReturned
    <3> QED
      BY <1>6, <2>3, <3>1
  <2> QED
    BY <1>10, <2>2, <2>3, AllReturned
<1>11. ASSUME NEW e \in Events PROVE Moves(e)
  BY <1>3, <1>7, <1>8, <1>9, <1>10, QueueStep
<1> QED
  BY <1>1, <1>11 DEF Moves

-----------------------------------------------------------------------------
(* Types and the shape of the buffer and the batch *)

LEMMA NewDelivery ==
    ASSUME TypeOK, NEW e \in Events
    PROVE  [event |-> e, count |-> eventQ[e].count] \in Deliveries
BY DEF TypeOK, Deliveries, Message

LEMMA BufferTypes ==
    ASSUME TypeOK, LoggerStep
    PROVE  prefetched' \in SUBSET Deliveries
<1>1. ASSUME NEW e \in Events, DeliverEvent(e) PROVE prefetched' \in SUBSET Deliveries
  BY <1>1, NewDelivery DEF DeliverEvent, TypeOK
<1>2. ASSUME NEW d \in prefetched, CollectEvent(d) PROVE prefetched' \in SUBSET Deliveries
  BY <1>2 DEF CollectEvent, TypeOK
<1> QED
  BY <1>1, <1>2, BatchMoves DEF CommitBatch, TypeOK

LEMMA BufferKept ==
    ASSUME BufferShape, LoggerStep
    PROVE  BufferShape'
<1>1. IsFiniteSet(prefetched')
  <2>1. ASSUME NEW e \in Events, DeliverEvent(e) PROVE IsFiniteSet(prefetched')
    BY <2>1, FS_AddElement DEF DeliverEvent, BufferShape
  <2>2. ASSUME NEW d \in prefetched, CollectEvent(d) PROVE IsFiniteSet(prefetched')
    BY <2>2, FS_RemoveElement DEF CollectEvent, BufferShape
  <2> QED
    BY <2>1, <2>2, BatchMoves, FS_EmptySet DEF CommitBatch, BufferShape
<1>2. ASSUME closing' PROVE prefetched' = {}
  <2>1. CASE DropLoggerChannel \/ CommitBatch \/ CommitFails \/ AckNext \/ AckRaises \/ NackNext
    BY <1>2, <2>1, Zenon
    DEF DropLoggerChannel, CommitBatch, CommitFails, AckNext, AckRaises, NackNext, NextAnswer,
        BufferShape
  <2>2. CASE NackRaises \/ StopLogger \/ CrashLogger
    BY <2>2 DEF NackRaises, StopLogger, CrashLogger, LeaveLoop, GoDown
  <2>3. CASE \E e \in Events : DeliverEvent(e)
    BY <1>2, <2>3, Zenon DEF DeliverEvent
  <2>4. CASE \E d \in prefetched : CollectEvent(d)
    BY <1>2, <2>4, Zenon DEF CollectEvent, BufferShape
  <2>5. CASE RestartLogger
    BY <1>2, <2>5, Zenon DEF RestartLogger
  <2> QED
    BY <2>1, <2>2, <2>3, <2>4, <2>5 DEF LoggerStep, Work
<1> QED
  BY <1>1, <1>2 DEF BufferShape

LEMMA LoggerShape ==
    ASSUME TypeOK, BatchShape, LoggerStep
    PROVE  TypeOK' /\ BatchShape'
<1> USE DEF TypeOK, BatchShape
<1>0. eventQ' \in [Events -> Message] /\ prefetched' \in SUBSET Deliveries
  BY EventStep, BufferTypes
<1>1. ASSUME NEW d \in prefetched, CollectEvent(d)
      PROVE  TypeOK' /\ BatchShape'
  <2>1. batch' \in Seq(Deliveries) /\ batch' # << >>
    BY <1>1, AppendProperties DEF CollectEvent
  <2> QED
    BY <1>0, <1>1, <2>1 DEF CollectEvent
<1>2. CASE CommitBatch
  <2>1. \A e \in Events : Occurrences(e) \in Nat
    BY OccurrenceCounts
  <2>2. rows' \in [Events -> Nat]
    BY <1>2, <2>1 DEF CommitBatch
  <2>3. 1 <= Len(batch)
    BY <1>2, EmptySeq, BatchElements DEF CommitBatch
  <2> QED
    BY <1>0, <1>2, <2>2, <2>3 DEF CommitBatch
<1>3. CASE CommitFails \/ AckRaises
  <2>1. 1 <= Len(batch)
    BY <1>3, EmptySeq, BatchElements DEF CommitFails, AckRaises
  <2> QED
    BY <1>0, <1>3, <2>1 DEF CommitFails, AckRaises
<1>4. ASSUME Fresh
      PROVE  /\ batch' \in Seq(Deliveries)
             /\ inserted' \in BOOLEAN /\ ~ inserted'
             /\ next' \in Nat \ {0}
  <2>1. batch' \in Seq(Deliveries)
    BY <1>4, EmptySeq DEF Fresh
  <2>2. inserted' \in BOOLEAN /\ ~ inserted'
    BY <1>4, Zenon DEF Fresh
  <2>3. next' \in Nat \ {0}
    BY <1>4 DEF Fresh
  <2> QED
    BY <2>1, <2>2, <2>3
<1>5. CASE AckNext \/ NackNext
  <2>1. Len(batch) \in Nat /\ UNCHANGED rows /\ NextAnswer /\ pc \in {"ack", "nack"}
    BY <1>5, BatchElements DEF AckNext, NackNext
  <2>2. CASE next < Len(batch)
    BY <1>0, <2>1, <2>2 DEF NextAnswer
  <2>3. CASE ~ (next < Len(batch))
    BY <1>0, <1>4, <2>1, <2>3 DEF NextAnswer, Fresh
  <2> QED
    BY <2>2, <2>3
<1>6. CASE NackRaises
  <2>1. CASE closing
    BY <1>0, <1>4, <1>6, <2>1 DEF NackRaises, GoDown, Fresh
  <2>2. CASE ~ closing
    BY <1>0, <1>6, <2>2 DEF NackRaises, LeaveLoop
  <2> QED
    BY <2>1, <2>2
<1>7. CASE StopLogger
  BY <1>0, <1>7 DEF StopLogger, LeaveLoop
<1>8. CASE CrashLogger
  BY <1>0, <1>4, <1>8 DEF CrashLogger, GoDown, Fresh
<1>9. CASE DropLoggerChannel
  BY <1>0, <1>9 DEF DropLoggerChannel
<1>10. CASE RestartLogger
  BY <1>0, <1>10 DEF RestartLogger
<1>11. CASE \E e \in Events : DeliverEvent(e)
  BY <1>0, <1>11 DEF DeliverEvent
<1> QED
  BY <1>1, <1>2, <1>3, <1>5, <1>6, <1>7, <1>8, <1>9, <1>10, <1>11
  DEF LoggerStep, Work

-----------------------------------------------------------------------------
(* Rows, deliveries and acknowledgements *)

(* What waits and what was collected counts, and so do deliveries. *)
LEMMA CountTypes ==
    ASSUME TypeOK, BufferShape, NEW e \in Events
    PROVE  /\ rows[e] \in Nat /\ Occurrences(e) \in Nat /\ Waiting(e) \in Nat
           /\ eventQ[e].count \in Nat /\ DeliveredTimes(e) \in Nat
<1>1. Occurrences(e) \in Nat /\ Waiting(e) \in Nat
  BY OccurrenceCounts, WaitingCounts DEF BufferShape
<1>2. eventQ[e].count \in Nat
  BY DeliveryLimitAssumption DEF TypeOK, Message
<1> QED
  BY <1>1, <1>2 DEF TypeOK, DeliveredTimes

(* A delivery is one more, and a new one. *)
LEMMA DeliveredOnceMore ==
    ASSUME AuditInv, NEW x \in Events, DeliverEvent(x),
           NEW d, d = [event |-> x, count |-> eventQ[x].count]
    PROVE  /\ d \in Deliveries /\ d.event = x /\ d.count = DeliveredTimes(x)
           /\ d \notin prefetched
           /\ \A e \in Events : DeliveredTimes(e)' = DeliveredTimes(e) + (IF x = e THEN 1 ELSE 0)
<1> USE DEF AuditInv
<1>1. eventQ[x].state = "ready" /\ eventQ' = Deliver(eventQ, x)
  BY DEF DeliverEvent, IsReady
<1>2. d \in Deliveries /\ d.event = x /\ d.count = eventQ[x].count
  BY NewDelivery
<1>3. eventQ[x].count \in Nat /\ d.count = DeliveredTimes(x)
  BY <1>1, <1>2, CountTypes DEF DeliveredTimes
<1>4. d \notin prefetched
  BY <1>2, <1>3 DEF BufferDelivered
<1>5. /\ \A e \in Events \ {x} : eventQ'[e] = eventQ[e]
      /\ eventQ'[x].state = "held" /\ eventQ'[x].count = eventQ[x].count
  BY <1>1 DEF Deliver, TypeOK
<1>6. \A e \in Events : eventQ[e].count \in Nat
  BY CountTypes
<1>7. \A e \in Events : DeliveredTimes(e)' = DeliveredTimes(e) + (IF x = e THEN 1 ELSE 0)
  BY <1>1, <1>5, <1>6 DEF DeliveredTimes
<1> QED
  BY <1>2, <1>3, <1>4, <1>7

(* What the loop reads goes from the buffer to the end of the batch. *)
LEMMA CollectKeeps ==
    ASSUME AuditInv, NEW d \in prefetched, CollectEvent(d)
    PROVE  BatchPublished' /\ BufferDelivered' /\ BatchStored' /\ BatchDelivered'
           /\ OneRowPerDelivery'
<1> USE DEF AuditInv
<1>1. /\ prefetched' = prefetched \ {d} /\ batch' = Append(batch, d) /\ pc = "collect"
      /\ UNCHANGED <<eventQ, rows, inserted>>
  BY DEF CollectEvent
<1>2. d \in Deliveries /\ d.event \in Events
  BY DEF TypeOK, Deliveries
<1>3. /\ Positions' = Positions \cup {Len(batch) + 1}
      /\ \A i \in Positions : batch'[i] = batch[i]
      /\ batch'[Len(batch) + 1] = d
  <2>1. batch \in Seq(Deliveries) /\ Len(batch) \in Nat /\ Positions = 1..Len(batch)
    BY BatchElements DEF TypeOK
  <2>2. /\ Len(batch') = Len(batch) + 1
        /\ \A i \in 1..Len(batch) : batch'[i] = batch[i]
        /\ batch'[Len(batch) + 1] = d
    BY <1>1, <1>2, <2>1, AppendProperties
  <2> QED
    BY <2>1, <2>2 DEF Positions
<1>4. \A e \in Events : /\ Occurrences(e)' = Occurrences(e) + (IF d.event = e THEN 1 ELSE 0)
                        /\ Waiting(e) = Waiting(e)' + (IF d.event = e THEN 1 ELSE 0)
  BY <1>1, <1>2, OccurrenceAdded, WaitingRemoved DEF BufferShape
<1>5. ~ inserted /\ ~ inserted'
  BY <1>1, Zenon DEF BatchShape
<1>6. BatchPublished'
  BY <1>1, <1>3 DEF BatchPublished
<1>7. BufferDelivered' /\ OneRowPerDelivery'
  <2>1. \A e \in Events : DeliveredTimes(e)' = DeliveredTimes(e)
    BY <1>1 DEF DeliveredTimes
  <2>2. \A x \in prefetched : x.event \in Events
    BY DEF TypeOK, Deliveries
  <2> QED
    BY <1>1, <2>1, <2>2 DEF BufferDelivered, OneRowPerDelivery
<1>8. BatchDelivered'
  <2>1. \A e \in Events : /\ DeliveredTimes(e)' = DeliveredTimes(e) /\ rows'[e] = rows[e]
                          /\ rows[e] + Waiting(e) + Occurrences(e) <= DeliveredTimes(e)
    BY <1>1, <1>5 DEF DeliveredTimes, BatchDelivered
  <2>2. \A e \in Events : /\ rows[e] \in Nat /\ Occurrences(e) \in Nat /\ Waiting(e) \in Nat
                          /\ Waiting(e)' \in Nat /\ DeliveredTimes(e) \in Nat
    <3>1. IsFiniteSet(prefetched')
      BY <1>1, FS_RemoveElement DEF BufferShape
    <3>2. \A e \in Events : Waiting(e)' \in Nat
      <4>1. \A e \in Events : {x \in prefetched' : x.event = e} \in SUBSET prefetched'
        OBVIOUS
      <4> QED
        BY <3>1, <4>1, FS_Subset, FS_CardinalityType DEF Waiting
    <3> QED
      BY <3>2, CountTypes
  <2>3. \A e \in Events : rows'[e] + Waiting(e)' + Occurrences(e)' <= DeliveredTimes(e)'
    BY <1>4, <2>1, <2>2
  <2> QED
    BY <1>5, <2>3 DEF BatchDelivered
<1> QED
  BY <1>5, <1>6, <1>7, <1>8 DEF BatchStored

LEMMA BatchKept ==
    ASSUME AuditInv, LoggerStep
    PROVE  BatchPublished' /\ BufferDelivered' /\ BatchStored' /\ BatchDelivered'
           /\ OneRowPerDelivery'
<1> USE DEF AuditInv
<1>1. TypeOK' /\ BatchShape' /\ BufferShape'
  BY LoggerShape, BufferKept
<1>2. \A e \in Events : /\ eventQ'[e].state = "none" <=> eventQ[e].state = "none"
                        /\ eventQ[e].state = "none" => eventQ'[e].count = eventQ[e].count
                        /\ DeliveredTimes(e)' >= DeliveredTimes(e)
  BY EventStep
<1>3. \A e \in Events : eventQ'[e].state = "none" => eventQ'[e].count = 0
  BY <1>2 DEF BatchPublished
<1>4. \A e \in Events : /\ rows[e] \in Nat /\ Occurrences(e) \in Nat /\ Waiting(e) \in Nat
                        /\ DeliveredTimes(e) \in Nat /\ DeliveredTimes(e)' \in Nat
  <2>1. \A e \in Events : eventQ'[e].count \in Nat
    BY <1>1, DeliveryLimitAssumption DEF TypeOK, Message
  <2>2. \A e \in Events : DeliveredTimes(e)' \in Nat
    BY <2>1 DEF DeliveredTimes
  <2> QED
    BY <2>2, CountTypes
<1>5. (\A i \in Positions : batch[i].event \in Events) /\ \A d \in prefetched : d.event \in Events
  BY BatchElements DEF TypeOK, Deliveries
<1>6. ASSUME prefetched' \in {prefetched, {}}
      PROVE  /\ BufferDelivered'
             /\ \A d \in prefetched' : eventQ'[d.event].state # "none"
             /\ \A e \in Events : Waiting(e)' \in {Waiting(e), 0}
  <2>1. CASE prefetched' = {}
    <3>1. \A e \in Events : {d \in prefetched' : d.event = e} = {}
      BY <2>1
    <3>2. \A e \in Events : Waiting(e)' = 0
      BY <3>1, FS_EmptySet DEF Waiting
    <3> QED
      BY <2>1, <3>2 DEF BufferDelivered
  <2>2. CASE prefetched' = prefetched
    <3>1. \A e \in Events : Waiting(e)' = Waiting(e)
      BY <2>2 DEF Waiting
    <3>2. \A d \in prefetched : eventQ'[d.event].state # "none"
      BY <1>2, <1>5 DEF BatchPublished
    <3>3. \A d \in prefetched : d.count \in Nat
      BY DeliveryLimitAssumption DEF TypeOK, Deliveries
    <3>4. \A d \in prefetched : d.count < DeliveredTimes(d.event)'
      BY <1>2, <1>4, <1>5, <3>3 DEF BufferDelivered
    <3> QED
      BY <2>2, <3>1, <3>2, <3>4 DEF BufferDelivered
  <2> QED
    BY <1>6, <2>1, <2>2
<1>7. CASE UNCHANGED <<batch, inserted, rows>> /\ prefetched' \in {prefetched, {}}
  <2>1. BatchPublished' /\ BatchStored'
    BY <1>2, <1>3, <1>5, <1>6, <1>7 DEF BatchPublished, BatchStored, Positions
  <2>2. \A e \in Events : Occurrences(e)' = Occurrences(e)
    BY <1>7 DEF Occurrences, Positions
  <2>3. BatchDelivered' /\ OneRowPerDelivery'
    BY <1>2, <1>4, <1>6, <1>7, <2>2 DEF BatchDelivered, OneRowPerDelivery
  <2> QED
    BY <1>6, <1>7, <2>1, <2>3
<1>8. CASE Fresh /\ UNCHANGED rows /\ prefetched' \in {prefetched, {}}
  <2>1. Positions' = {} /\ batch' = << >> /\ ~ inserted'
    <3>1. batch' = << >> /\ ~ inserted'
      BY <1>8, Zenon DEF Fresh
    <3>2. Len(batch') = 0
      BY <3>1, EmptySeq
    <3> QED
      BY <3>1, <3>2 DEF Positions
  <2>2. BatchPublished' /\ BatchStored'
    BY <1>3, <1>6, <1>8, <2>1 DEF BatchPublished, BatchStored
  <2>3. \A e \in Events : Occurrences(e)' = 0
    BY <2>1, FS_EmptySet DEF Occurrences
  <2>4. BatchDelivered' /\ OneRowPerDelivery'
    BY <1>2, <1>4, <1>6, <1>8, <2>3 DEF BatchDelivered, OneRowPerDelivery
  <2> QED
    BY <1>6, <1>8, <2>2, <2>4
<1>9. CASE CommitBatch
  <2>1. /\ UNCHANGED <<eventQ, batch, prefetched>> /\ inserted'
        /\ \A e \in Events : rows'[e] = IF inserted THEN rows[e] ELSE rows[e] + Occurrences(e)
    BY <1>9 DEF CommitBatch
  <2>2. BatchPublished' /\ BufferDelivered'
    BY <1>6, <2>1 DEF BatchPublished, Positions
  <2>3. \A i \in Positions : Occurrences(batch[i].event) > 0
    BY <1>5, OccurrenceCounts
  <2>4. BatchStored'
    BY <1>4, <1>5, <2>1, <2>3 DEF BatchStored, Positions
  <2>5. \A e \in Events : Waiting(e)' = Waiting(e)
    BY <2>1 DEF Waiting
  <2>6. BatchDelivered' /\ OneRowPerDelivery'
    BY <1>2, <1>4, <2>1, <2>5 DEF BatchDelivered, OneRowPerDelivery
  <2> QED
    BY <2>2, <2>4, <2>6
<1>10. ASSUME NEW x \in Events, DeliverEvent(x)
       PROVE  BatchPublished' /\ BufferDelivered' /\ BatchStored' /\ BatchDelivered'
              /\ OneRowPerDelivery'
  <2> DEFINE d == [event |-> x, count |-> eventQ[x].count]
  <2>1. /\ d \in Deliveries /\ d.event = x /\ d.count = DeliveredTimes(x)
        /\ d \notin prefetched
        /\ \A e \in Events : DeliveredTimes(e)' = DeliveredTimes(e) + (IF x = e THEN 1 ELSE 0)
    BY <1>10, DeliveredOnceMore
  <2>2. prefetched' = prefetched \cup {d} /\ UNCHANGED <<rows, batch, inserted>>
    BY <1>10 DEF DeliverEvent
  <2>3. eventQ[x].state # "none"
    BY <1>10 DEF DeliverEvent, IsReady
  <2> HIDE DEF d
  <2>4. \A e \in Events : Waiting(e)' = Waiting(e) + (IF x = e THEN 1 ELSE 0)
    BY <2>1, <2>2, WaitingAdded DEF BufferShape
  <2>5. BatchPublished' /\ BatchStored'
    BY <1>2, <1>3, <1>5, <2>1, <2>2, <2>3 DEF BatchPublished, BatchStored, Positions
  <2>6. BufferDelivered'
    <3>1. \A y \in prefetched : y.count \in Nat
      BY DeliveryLimitAssumption DEF TypeOK, Deliveries
    <3> QED
      BY <1>4, <1>5, <2>1, <2>2, <3>1 DEF BufferDelivered
  <2>7. \A e \in Events : Occurrences(e)' = Occurrences(e)
    BY <2>2 DEF Occurrences, Positions
  <2>8. BatchDelivered' /\ OneRowPerDelivery'
    BY <1>4, <2>1, <2>2, <2>4, <2>7 DEF BatchDelivered, OneRowPerDelivery
  <2> QED
    BY <2>5, <2>6, <2>8
<1> QED
  BY <1>7, <1>8, <1>9, <1>10, CollectKeeps, BatchMoves

LEMMA AckedKept ==
    ASSUME AuditInv, LoggerStep
    PROVE  AckedIsLogged'
<1> USE DEF AuditInv
<1>1. \A e \in Events : rows[e] \in Nat /\ Occurrences(e) \in Nat
  BY OccurrenceCounts DEF TypeOK
<1>2. \A e \in Events : rows'[e] >= rows[e]
  <2>1. CASE UNCHANGED rows
    BY <1>1, <2>1
  <2>2. CASE CommitBatch
    BY <1>1, <2>2 DEF CommitBatch
  <2> QED
    BY <2>1, <2>2, BatchMoves DEF CollectEvent, DeliverEvent
<1>3. \A e \in Events : rows'[e] \in Nat
  BY LoggerShape DEF TypeOK
<1>4. pc = "ack" => rows[batch[next].event] > 0
  BY AnsweredEvent DEF BatchShape, BatchStored
<1>5. ASSUME NEW e \in Events, eventQ'[e].state = "acked" PROVE rows[e] > 0
  BY <1>4, <1>5, EventStep DEF AckedIsLogged
<1> QED
  BY <1>1, <1>2, <1>3, <1>5 DEF AckedIsLogged

-----------------------------------------------------------------------------
(* The invariant *)

LEMMA AuditInit ==
    Init => AuditInv
<1> SUFFICES ASSUME Init PROVE AuditInv
  OBVIOUS
<1> USE DeliveryLimitAssumption
<1>1. batch \in Seq(Deliveries) /\ batch = << >> /\ Len(batch) = 0 /\ Positions = {}
  BY EmptySeq DEF Init, Positions
<1>2. ~ inserted /\ inserted \in BOOLEAN /\ closing \in BOOLEAN
  BY Zenon DEF Init
<1>3. TypeOK
  BY <1>1, <1>2 DEF Init, TypeOK, Message, MessageStates, NoMessage
<1>4. BatchShape /\ BufferShape /\ BatchStored /\ BatchPublished /\ BufferDelivered
  BY <1>1, <1>2, FS_EmptySet
  DEF Init, BatchShape, BufferShape, BatchStored, BatchPublished, BufferDelivered, NoMessage
<1>5. \A e \in Events : Occurrences(e) = 0 /\ Waiting(e) = 0
  <2>1. \A e \in Events : {d \in prefetched : d.event = e} = {}
    BY DEF Init
  <2> QED
    BY <1>1, <2>1, FS_EmptySet DEF Occurrences, Waiting
<1>6. BatchDelivered /\ OneRowPerDelivery /\ AckedIsLogged
  BY <1>5 DEF Init, BatchDelivered, OneRowPerDelivery, AckedIsLogged, DeliveredTimes, NoMessage
<1> QED
  BY <1>3, <1>4, <1>6 DEF AuditInv

(* A publisher touches only an event that is new. *)
LEMMA PublisherKeeps ==
    ASSUME AuditInv, NEW x \in Events, PublishEvent(x)
    PROVE  AuditInv'
<1> USE DEF AuditInv
<1>1. /\ eventQ[x].state = "none" /\ eventQ' = Publish(eventQ, x)
      /\ UNCHANGED <<rows, prefetched, pc, batch, inserted, next, closing>>
  BY DEF PublishEvent
<1>2. /\ \A e \in Events \ {x} : eventQ'[e] = eventQ[e]
      /\ eventQ'[x].state = "ready" /\ eventQ'[x].count = 0
  BY <1>1 DEF Publish, TypeOK
<1>3. TypeOK'
  BY <1>1, QueueTypes DEF TypeOK
<1>4. BatchShape' /\ BufferShape' /\ BatchStored'
  BY <1>1 DEF BatchShape, BufferShape, BatchStored, Positions
<1>5. BatchPublished'
  <2>1. /\ \A i \in Positions : batch[i].event \in Events
        /\ \A d \in prefetched : d.event \in Events
    BY BatchElements DEF TypeOK, Deliveries
  <2> QED
    BY <1>1, <1>2, <2>1 DEF BatchPublished, Positions
<1>6. AckedIsLogged'
  BY <1>1, <1>2 DEF AckedIsLogged
<1>7. \A e \in Events : DeliveredTimes(e)' = DeliveredTimes(e)
  <2>1. eventQ[x].count = 0
    BY <1>1 DEF BatchPublished
  <2> QED
    BY <1>1, <1>2, <2>1 DEF DeliveredTimes
<1>8. \A e \in Events : Occurrences(e)' = Occurrences(e) /\ Waiting(e)' = Waiting(e)
  BY <1>1 DEF Occurrences, Positions, Waiting
<1>9. BufferDelivered' /\ BatchDelivered' /\ OneRowPerDelivery'
  <2>1. \A d \in prefetched : d.event \in Events
    BY DEF TypeOK, Deliveries
  <2> QED
    BY <1>1, <1>7, <1>8, <2>1 DEF BufferDelivered, BatchDelivered, OneRowPerDelivery
<1> QED
  BY <1>3, <1>4, <1>5, <1>6, <1>9

LEMMA AuditStep ==
    AuditInv /\ [Next]_vars => AuditInv'
<1> SUFFICES ASSUME AuditInv, [Next]_vars PROVE AuditInv'
  OBVIOUS
<1>1. CASE \E e \in Events : PublishEvent(e)
  BY <1>1, PublisherKeeps
<1>2. CASE LoggerStep
  BY <1>2, LoggerShape, BufferKept, BatchKept, AckedKept DEF AuditInv
<1>3. CASE UNCHANGED vars
  BY <1>3
  DEF vars, AuditInv, TypeOK, BatchShape, BufferShape, BatchStored, BatchPublished,
      BufferDelivered, BatchDelivered, AckedIsLogged, OneRowPerDelivery, Positions, Occurrences,
      Waiting, DeliveredTimes
<1> QED
  BY <1>1, <1>2, <1>3 DEF Next

THEOREM AuditInvariant ==
    Spec => []AuditInv
<1> QED
  BY AuditInit, AuditStep, PTL DEF Spec

-----------------------------------------------------------------------------
(* The contract of a task queue *)

(* What a step of the worker does to the standing of the events *)
LEMMA StandingStep ==
    ASSUME AuditInv, LoggerStep
    PROVE  \/ Standing(eventQ)' = Standing(eventQ)
           \/ /\ pc = "ack" /\ UNCHANGED rows
              /\ Standing(eventQ)[batch[next].event] = "open"
              /\ Standing(eventQ)' = [Standing(eventQ) EXCEPT ![batch[next].event] = "done"]
           \/ /\ UNCHANGED rows
              /\ \E S \in SUBSET Events :
                    /\ \A e \in S : Standing(eventQ)[e] = "open"
                    /\ Standing(eventQ)' =
                          [e \in Events |-> IF e \in S THEN "lost" ELSE Standing(eventQ)[e]]
<1> USE DEF AuditInv
<1> DEFINE stand == Standing(eventQ)
<1>1. eventQ \in [Events -> Message] /\ eventQ' \in [Events -> Message]
  BY EventStep DEF TypeOK
<1>2. stand' = Standing(eventQ')
  BY DEF Standing, Fate
<1>3. /\ DOMAIN stand = Events /\ DOMAIN stand' = Events
      /\ stand = [e \in Events |-> stand[e]] /\ stand' = [e \in Events |-> stand'[e]]
  <2>1. /\ Standing(eventQ) \in [Events -> {"none", "open", "done", "lost"}]
        /\ Standing(eventQ') \in [Events -> {"none", "open", "done", "lost"}]
    BY <1>1, StandingTypes
  <2>2. /\ stand \in [Events -> {"none", "open", "done", "lost"}]
        /\ stand' \in [Events -> {"none", "open", "done", "lost"}]
    BY <1>2, <2>1
  <2> HIDE DEF stand
  <2> QED
    BY <2>2
<1>4. \A e \in Events : eventQ'[e] = eventQ[e] => stand'[e] = stand[e]
  <2>1. \A e \in Events : eventQ'[e] = eventQ[e] => Standing(eventQ')[e] = Standing(eventQ)[e]
    BY <1>1, StandingTypes DEF MessageStates
  <2> QED
    BY <1>2, <2>1
<1>5. \A e \in Events : eventQ[e].state = "held" => stand[e] = "open"
  BY <1>1 DEF Standing, Fate
<1>6. \A e \in Events : /\ eventQ'[e].state = "ready" => stand'[e] = "open"
                        /\ eventQ'[e].state = "dead" => stand'[e] = "lost"
  BY <1>1, <1>2 DEF Standing, Fate
<1>7. (\E e \in Events : DeliverEvent(e)) => stand' = stand
  <2>1. \A e \in Events : eventQ[e].state = "ready" => Standing(Deliver(eventQ, e)) = stand
    BY <1>1, StandingMoves
  <2> QED
    BY <1>2, <2>1 DEF DeliverEvent, IsReady
<1>8. ASSUME NEW x \in Events, eventQ[x].state = "held", eventQ' = Ack(eventQ, x),
             pc = "ack", x = batch[next].event
      PROVE  stand[x] = "open" /\ stand' = [stand EXCEPT ![x] = "done"]
  BY <1>1, <1>2, <1>5, <1>8, StandingMoves
<1>9. ASSUME \A e \in Events : \/ eventQ'[e] = eventQ[e]
                               \/ /\ eventQ[e].state = "held"
                                  /\ eventQ'[e].state \in {"ready", "dead"}
      PROVE  \E S \in SUBSET Events :
                /\ \A e \in S : stand[e] = "open"
                /\ stand' = [e \in Events |-> IF e \in S THEN "lost" ELSE stand[e]]
  <2> DEFINE S == {e \in Events : eventQ[e].state = "held" /\ eventQ'[e].state = "dead"}
  <2>1. \A e \in S : stand[e] = "open" /\ stand'[e] = "lost"
    BY <1>5, <1>6
  <2>2. \A e \in Events \ S : stand'[e] = stand[e]
    BY <1>4, <1>5, <1>6, <1>9
  <2> HIDE DEF stand
  <2>3. stand' = [e \in Events |-> IF e \in S THEN "lost" ELSE stand[e]]
    BY <1>3, <2>1, <2>2
  <2> QED
    BY <2>1, <2>3
<1>10. ASSUME \/ \E e \in Events : eventQ[e].state = "held" /\ eventQ' = Return(eventQ, e)
              \/ \E es \in SUBSET HeldEvents : ReturnAll(es)
       PROVE  \A e \in Events : \/ eventQ'[e] = eventQ[e]
                                \/ /\ eventQ[e].state = "held"
                                   /\ eventQ'[e].state \in {"ready", "dead"}
  <2>1. CASE \E es \in SUBSET HeldEvents : ReturnAll(es)
    BY <1>1, <2>1, AllReturned, MessageReturned
  <2>2. ASSUME NEW x \in Events, eventQ[x].state = "held", eventQ' = Return(eventQ, x)
        PROVE  \A e \in Events : \/ eventQ'[e] = eventQ[e]
                                 \/ /\ eventQ[e].state = "held"
                                    /\ eventQ'[e].state \in {"ready", "dead"}
    <3>1. \A e \in Events \ {x} : eventQ'[e] = eventQ[e]
      BY <1>1, <2>2, MessageReturned
    <3>2. eventQ'[x].state \in {"ready", "dead"}
      BY <1>1, <2>2, MessageReturned
    <3> QED
      BY <2>2, <3>1, <3>2
  <2> QED
    BY <1>10, <2>1, <2>2
<1>11. CommitBatch => eventQ' = eventQ
  BY DEF CommitBatch
<1>12. UNCHANGED rows \/ eventQ' = eventQ
  BY <1>11, BatchMoves DEF CollectEvent, DeliverEvent
<1>13. eventQ' = eventQ => stand' = stand
  OBVIOUS
<1> HIDE DEF stand
<1>14. \/ stand' = stand
       \/ /\ pc = "ack" /\ UNCHANGED rows
          /\ stand[batch[next].event] = "open"
          /\ stand' = [stand EXCEPT ![batch[next].event] = "done"]
       \/ /\ UNCHANGED rows
          /\ \E S \in SUBSET Events :
                /\ \A e \in S : stand[e] = "open"
                /\ stand' = [e \in Events |-> IF e \in S THEN "lost" ELSE stand[e]]
  BY <1>7, <1>8, <1>9, <1>10, <1>12, <1>13, QueueStep
<1> QED
  BY <1>14 DEF stand

LEMMA AuditKeepsPromise ==
    ASSUME AuditInv, [Next]_vars
    PROVE  [AuditContract!Next]_<<Standing(eventQ), {e \in Events : rows[e] > 0}>>
<1> USE DEF AuditInv
<1> DEFINE stand == Standing(eventQ)
           stored == {e \in Events : rows[e] > 0}
<1>1. eventQ \in [Events -> Message]
  BY DEF TypeOK
<1>2. ASSUME NEW x \in Events, PublishEvent(x) PROVE [AuditContract!Next]_<<stand, stored>>
  <2>1. stand' = Standing(eventQ') /\ eventQ' = Publish(eventQ, x)
    BY <1>2 DEF PublishEvent, Standing, Fate
  <2>2. Standing(Publish(eventQ, x)) = [stand EXCEPT ![x] = "open"]
    <3>1. /\ Standing(Publish(eventQ, x)) = [stand EXCEPT ![x] = "open"]
          /\ Standing([eventQ EXCEPT ![x] = [state |-> "unrouted", count |-> 0]])
                = [stand EXCEPT ![x] = "lost"]
      BY <1>1, StandingOfPublished, StandingOfUnrouted
    <3> QED
      BY <3>1
  <2>3. stand[x] = "none"
    BY <1>1, <1>2 DEF PublishEvent, Standing, Fate
  <2>4. stored' = stored
    BY <1>2 DEF PublishEvent
  <2>5. stand' = [stand EXCEPT ![x] = "open"]
    BY <2>1, <2>2
  <2> QED
    BY <2>3, <2>4, <2>5 DEF AuditContract!Next, AuditContract!Submit
<1>3. CASE LoggerStep /\ stand' = stand
  <2>1. CASE UNCHANGED rows
    BY <1>3, <2>1
  <2>2. CASE CommitBatch
    <3> DEFINE S == {batch[i].event : i \in Positions}
    <3>1. S \in SUBSET Events
      BY BatchElements
    <3>2. \A e \in S : stand[e] # "none"
      <4>1. \A e \in S : eventQ[e].state # "none"
        BY DEF BatchPublished
      <4> QED
        BY <1>1, <3>1, <4>1 DEF Standing, Fate, Message, MessageStates
    <3>3. \A e \in Events : (e \in S <=> Occurrences(e) > 0) /\ Occurrences(e) \in Nat
      BY OccurrenceCounts
    <3>4. inserted => \A e \in S : rows[e] > 0
      BY DEF BatchStored
    <3>5. \A e \in Events : rows[e] \in Nat
      BY DEF TypeOK
    <3>6. \A e \in Events : rows'[e] = IF inserted THEN rows[e] ELSE rows[e] + Occurrences(e)
      BY <2>2 DEF CommitBatch
    <3> HIDE DEF S
    <3>7. \A e \in Events : rows'[e] > 0 <=> rows[e] > 0 \/ e \in S
      BY <3>3, <3>4, <3>5, <3>6
    <3>8. stored' = stored \cup S
      BY <3>1, <3>7
    <3> QED
      BY <1>3, <3>1, <3>2, <3>8 DEF AuditContract!Next, AuditContract!Perform
  <2> QED
    BY <1>3, <2>1, <2>2, BatchMoves DEF CollectEvent, DeliverEvent
<1>4. CASE LoggerStep /\ stand' # stand
  <2>1. UNCHANGED rows => stored' = stored
    OBVIOUS
  <2>2. pc = "ack" => batch[next].event \in stored
    <3>1. pc = "ack" => inserted
      BY DEF BatchShape
    <3> QED
      BY <3>1, AnsweredEvent DEF BatchStored
  <2>3. \/ /\ pc = "ack" /\ UNCHANGED rows
           /\ stand[batch[next].event] = "open"
           /\ stand' = [stand EXCEPT ![batch[next].event] = "done"]
        \/ /\ UNCHANGED rows
           /\ \E S \in SUBSET Events :
                 /\ \A e \in S : stand[e] = "open"
                 /\ stand' = [e \in Events |-> IF e \in S THEN "lost" ELSE stand[e]]
    BY <1>4, StandingStep
  <2>4. CASE pc = "ack" /\ UNCHANGED rows /\ stand[batch[next].event] = "open" /\
             stand' = [stand EXCEPT ![batch[next].event] = "done"]
    <3>1. batch[next].event \in Events
      BY <2>4, AnsweredEvent
    <3>2. AuditContract!Finish(batch[next].event)
      BY <2>1, <2>2, <2>4 DEF AuditContract!Finish
    <3> QED
      BY <3>1, <3>2 DEF AuditContract!Next
  <2>5. ASSUME NEW S \in SUBSET Events, \A e \in S : stand[e] = "open", UNCHANGED rows,
               stand' = [e \in Events |-> IF e \in S THEN "lost" ELSE stand[e]]
        PROVE  AuditContract!Next
    <3>1. AuditContract!GiveUp(S)
      BY <2>1, <2>5 DEF AuditContract!GiveUp
    <3> QED
      BY <3>1 DEF AuditContract!Next
  <2> QED
    BY <2>3, <2>4, <2>5
<1>5. CASE UNCHANGED vars
  BY <1>5 DEF vars
<1> QED
  BY <1>2, <1>3, <1>4, <1>5 DEF Next

LEMMA AuditPromiseStart ==
    Init => AuditContract!Init
<1> SUFFICES ASSUME Init
             PROVE  /\ Standing(eventQ) = [e \in Events |-> "none"]
                    /\ {e \in Events : rows[e] > 0} = {}
  BY DEF AuditContract!Init
<1>1. Standing(eventQ) = [e \in Events |-> "none"]
  BY DEF Init, Standing, Fate, NoMessage
<1>2. {e \in Events : rows[e] > 0} = {}
  BY DEF Init
<1> QED
  BY <1>1, <1>2

-----------------------------------------------------------------------------
(* The publisher *)

LEMMA ClientStart ==
    ClientInit => ClientInv
<1>1. 1 \in DOMAIN ExchangeNames
  <2>1. ExchangeNames \in Seq(STRING) /\ ExchangeNames # << >>
    BY NamesAssumption
  <2> QED
    BY <2>1, EmptySeq, LenProperties
<1> QED
  BY <1>1 DEF ClientInit, ClientInv, ClientTypeOK, SetupProgress, SetupComplete

LEMMA ClientKeeps ==
    ClientInv /\ [ClientStep]_clientVars => ClientInv'
<1> SUFFICES ASSUME ClientInv, [ClientStep]_clientVars PROVE ClientInv'
  OBVIOUS
<1> USE DEF ClientInv, ClientTypeOK, SetupProgress, SetupComplete, Setup
<1>1. /\ Len(ExchangeNames) \in Nat \ {0}
      /\ DOMAIN ExchangeNames = 1..Len(ExchangeNames)
      /\ 1 \in DOMAIN ExchangeNames
  <2>1. ExchangeNames \in Seq(STRING) /\ ExchangeNames # << >>
    BY NamesAssumption
  <2> QED
    BY <2>1, EmptySeq, LenProperties
<1>2. CASE Connect \/ Relink
  BY <1>1, <1>2 DEF Connect, Relink
<1>3. CASE DeclareExchange
  <2>1. exchanges' = exchanges \cup {ExchangeNames[declaring]} /\ exchanges' \subseteq Names
    BY <1>3 DEF DeclareExchange, Names
  <2>2. CASE declaring < Len(ExchangeNames)
    BY <1>1, <1>3, <2>1, <2>2 DEF DeclareExchange
  <2>3. CASE ~ (declaring < Len(ExchangeNames))
    <3>1. \A i \in DOMAIN ExchangeNames : ExchangeNames[i] \in exchanges'
      BY <1>1, <1>3, <2>1, <2>3 DEF DeclareExchange
    <3>2. exchanges' = Names
      BY <2>1, <3>1 DEF Names
    <3> QED
      BY <1>1, <1>3, <2>3, <3>2 DEF DeclareExchange
  <2> QED
    BY <2>2, <2>3
<1>4. CASE ClearExchanges
  BY <1>1, <1>4 DEF ClearExchanges
<1>5. CASE LoseLink \/ CloseClient
  BY <1>1, <1>5 DEF LoseLink, CloseClient
<1>6. CASE UNCHANGED clientVars
  BY <1>6 DEF clientVars
<1> QED
  BY <1>2, <1>3, <1>4, <1>5, <1>6 DEF ClientStep, ClientSetup

-----------------------------------------------------------------------------
(* The whole trail *)

(* What is proved of the logger under any publisher holds for this one. *)
THEOREM TrailIsLogger == TrailSpec => Spec
<1>1. TrailInit => Init
  BY DEF TrailInit
<1>2. [TrailNext]_trailVars => [Next]_vars
  BY DEF TrailNext, trailVars, EmitEvent, Next
<1> QED
  BY <1>1, <1>2, PTL DEF TrailSpec, Spec

THEOREM TrailInvariant == TrailSpec => [](AuditInv /\ ClientInv)
<1>1. TrailInit => ClientInv
  BY ClientStart DEF TrailInit
<1>2. ClientInv /\ [TrailNext]_trailVars => ClientInv'
  <2>1. [TrailNext]_trailVars => [ClientStep]_clientVars
    BY DEF TrailNext, trailVars, EmitEvent
  <2> QED
    BY <2>1, ClientKeeps
<1> QED
  BY <1>1, <1>2, TrailIsLogger, AuditInvariant, PTL DEF TrailSpec

(* Types of the logger and of the client *)
THEOREM TrailTypes == TrailSpec => []TrailTypeOK
<1>1. AuditInv /\ ClientInv => TrailTypeOK
  BY DEF AuditInv, ClientInv, TrailTypeOK
<1> QED
  BY <1>1, TrailInvariant, PTL

(* process_batch acknowledges an event only after a commit that stored it. *)
THEOREM NoUnstoredAck == TrailSpec => []AckedIsLogged
<1>1. AuditInv => AckedIsLogged
  BY DEF AuditInv
<1> QED
  BY <1>1, TrailInvariant, PTL

(* No event is stored more often than it was delivered. *)
THEOREM RowsAreDeliveries == TrailSpec => []OneRowPerDelivery
<1>1. AuditInv => OneRowPerDelivery
  BY DEF AuditInv
<1> QED
  BY <1>1, TrailInvariant, PTL

(* A connected client with no setup under way has every exchange. *)
THEOREM SetupIsComplete == TrailSpec => []SetupComplete
<1>1. ClientInv => SetupComplete
  BY DEF ClientInv
<1> QED
  BY <1>1, TrailInvariant, PTL

(* Seen through the logger_queue the audit trail implements TaskContract. *)
THEOREM AuditPromiseKept == TrailSpec => AuditPromise
<1>1. AuditInv /\ [Next]_vars =>
        [AuditContract!Next]_<<Standing(eventQ), {e \in Events : rows[e] > 0}>>
  BY AuditKeepsPromise
<1>2. Spec => AuditPromise
  BY <1>1, AuditPromiseStart, AuditInvariant, PTL DEF Spec, AuditPromise, AuditContract!Promise
<1> QED
  BY <1>2, TrailIsLogger, PTL

(* Whatever the logger answers, and however its channel ends, a message    *)
(* only moves towards its end.                                             *)
THEOREM EventsComeToAnEnd == TrailSpec => EventsEnd
<1>1. ASSUME AuditInv, [Next]_vars PROVE MovesOn(eventQ, eventQ')
  <2>0. /\ TypeOK /\ BatchShape
        /\ eventQ \in [Events -> Message]
    BY <1>1 DEF AuditInv, TypeOK
  <2>1. CASE eventQ' = eventQ
    BY <2>1 DEF MovesOn
  <2>2. ASSUME NEW e \in Events, PublishEvent(e) PROVE MovesOn(eventQ, eventQ')
    BY <2>0, <2>2, QueueMovesOn DEF PublishEvent
  <2>3. ASSUME NEW e \in Events, DeliverEvent(e) PROVE MovesOn(eventQ, eventQ')
    BY <2>0, <2>3, QueueMovesOn DEF DeliverEvent, IsReady
  <2>4. ASSUME NEW e \in Events, eventQ[e].state = "held",
               eventQ' = Ack(eventQ, e) \/ eventQ' = Return(eventQ, e)
        PROVE  MovesOn(eventQ, eventQ')
    BY <2>0, <2>4, QueueMovesOn
  <2>5. CASE \E es \in SUBSET HeldEvents : ReturnAll(es)
    <3>1. ASSUME NEW e \in Events, eventQ[e].state = "held", eventQ'[e] = Return(eventQ, e)[e]
          PROVE  eventQ'[e] = eventQ[e] \/ Rank(eventQ[e]) < Rank(eventQ'[e])
      BY <2>0, <3>1, QueueMovesOn DEF MovesOn
    <3>2. DOMAIN eventQ = Events
      BY <2>0
    <3> QED
      BY <2>0, <2>5, <3>1, <3>2, AllReturned DEF MovesOn
  <2>6. CASE LoggerStep
    BY <2>0, <2>1, <2>3, <2>4, <2>5, <2>6, QueueStep
  <2> QED
    BY <1>1, <2>1, <2>2, <2>6 DEF Next, vars
<1>2. AuditInv /\ [Next]_vars => [MovesOn(eventQ, eventQ')]_vars
  BY <1>1
<1>3. Spec => EventsEnd
  BY <1>2, AuditInvariant, PTL DEF Spec, EventsEnd
<1> QED
  BY <1>3, TrailIsLogger, PTL

=============================================================================

------------------------------ MODULE WorkQueue ------------------------------
(***************************************************************************)
(* The quorum queues behind the workers, as values and the operations on   *)
(* them.  Every queue of the system is declared by                         *)
(* BrokerClient.get_configured_queue with an x-delivery-limit and a dead   *)
(* letter exchange that no queue is bound to, so a message that goes over  *)
(* the limit is gone ("dead").                                             *)
(*                                                                         *)
(* A queue is a function from message identities to messages.  The order   *)
(* in which ready messages are delivered is left open: with several        *)
(* consumers and returned messages the code may not rely on one.           *)
(***************************************************************************)
EXTENDS Naturals

CONSTANT DeliveryLimit     \* the x-delivery-limit of the queues

ASSUME DeliveryLimitAssumption == DeliveryLimit \in Nat

MessageStates == {"none", "ready", "held", "acked", "dead", "unrouted"}

(* count is the x-delivery-count header: how often the message came back. *)
Message == [state : MessageStates, count : 0..DeliveryLimit]

NoMessage == [state |-> "none", count |-> 0]

Publish(q, m) == [q EXCEPT ![m] = [state |-> "ready", count |-> 0]]

(* A queue is declared and bound by its consumer when that starts for the  *)
(* first time.  A message published before is returned as unroutable, and  *)
(* publish does not raise for it.                                          *)
Send(q, m, declared) ==
    IF declared THEN Publish(q, m)
    ELSE [q EXCEPT ![m] = [state |-> "unrouted", count |-> 0]]

(* How the messages stand, as tasks of a TaskContract *)
Fate(state) ==
    CASE state = "none" -> "none"
      [] state \in {"ready", "held"} -> "open"
      [] state = "acked" -> "done"
      [] state \in {"dead", "unrouted"} -> "lost"

Standing(q) == [m \in DOMAIN q |-> Fate(q[m].state)]

IsReady(q, m) == q[m].state = "ready"

Deliver(q, m) == [q EXCEPT ![m] = [state |-> "held", count |-> q[m].count]]

(* The delivery numbered n is the one the broker still waits for.  After   *)
(* the consumer's channel closed it is not, even while the consumer works. *)
HeldAt(q, m, n) == q[m] = [state |-> "held", count |-> n]

Ack(q, m) == [q EXCEPT ![m] = [state |-> "acked", count |-> q[m].count]]

(* nack(requeue=False): dead-lettered at once *)
Discard(q, m) == [q EXCEPT ![m] = [state |-> "dead", count |-> q[m].count]]

(* Slips in Return: the limit is one too high; a return is not counted. *)
ReturnOnceMore(q, m) ==
    IF q[m].count <= DeliveryLimit
    THEN [q EXCEPT ![m] = [state |-> "ready", count |-> q[m].count + 1]]
    ELSE Discard(q, m)
ReturnUncounted(q, m) == [q EXCEPT ![m] = [state |-> "ready", count |-> q[m].count]]

(* The message comes back: nack(requeue=True), or its channel closed. *)
Return(q, m) ==
    IF q[m].count < DeliveryLimit
    THEN [q EXCEPT ![m] = [state |-> "ready", count |-> q[m].count + 1]]
    ELSE Discard(q, m)

(* How far a message has come.  Every operation but a publish moves it up, *)
(* and nothing moves it from the end, so it changes at most                *)
(* 2 * DeliveryLimit + 3 times.                                            *)
InDelivery(count) == 2 * count + 2

Rank(entry) ==
    CASE entry.state = "none" -> 0
      [] entry.state = "ready" -> 2 * entry.count + 1
      [] entry.state = "held" -> InDelivery(entry.count)
      [] OTHER -> 2 * DeliveryLimit + 3

(* Every message that differs in r has come further than it was in q. *)
MovesOn(q, r) == \A m \in DOMAIN q : r[m] = q[m] \/ Rank(q[m]) < Rank(r[m])

=============================================================================

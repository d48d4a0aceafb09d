----------------------------- MODULE QueueProofs -----------------------------
(***************************************************************************)
(* Lemmas about the queue operators of WorkQueue, over any set of message  *)
(* identities and for any delivery limit.                                  *)
(***************************************************************************)
EXTENDS WorkQueue, TLAPS

(* Every operator keeps a queue a queue. *)
LEMMA QueueTypes ==
    ASSUME NEW S, NEW q \in [S -> Message], NEW m \in S
    PROVE  /\ Publish(q, m) \in [S -> Message]
           /\ Deliver(q, m) \in [S -> Message]
           /\ Ack(q, m) \in [S -> Message]
           /\ Discard(q, m) \in [S -> Message]
           /\ Return(q, m) \in [S -> Message]
           /\ \A n, D : Send(q, m, n \in D) \in [S -> Message]
<1> USE DeliveryLimitAssumption DEF Message, MessageStates
<1>1. Publish(q, m) \in [S -> Message]
  BY DEF Publish
<1>2. Deliver(q, m) \in [S -> Message]
  BY DEF Deliver
<1>3. Ack(q, m) \in [S -> Message]
  BY DEF Ack
<1>4. Discard(q, m) \in [S -> Message]
  BY DEF Discard
<1>5. Return(q, m) \in [S -> Message]
  BY <1>4 DEF Return
<1>6. \A n, D : Send(q, m, n \in D) \in [S -> Message]
  BY <1>1 DEF Send
<1> QED
  BY <1>1, <1>2, <1>3, <1>4, <1>5, <1>6

(* What happens to a published message leaves every message as published   *)
(* as it was, and only Ack acknowledges.                                   *)
LEMMA QueueMoves ==
    ASSUME NEW S, NEW q \in [S -> Message], NEW m \in S, q[m].state # "none"
    PROVE  \A x \in S :
              /\ Deliver(q, m)[x].state = "none" <=> q[x].state = "none"
              /\ Ack(q, m)[x].state = "none" <=> q[x].state = "none"
              /\ Discard(q, m)[x].state = "none" <=> q[x].state = "none"
              /\ Return(q, m)[x].state = "none" <=> q[x].state = "none"
              /\ Deliver(q, m)[x].state = "acked" => q[x].state = "acked"
              /\ Discard(q, m)[x].state = "acked" => q[x].state = "acked"
              /\ Return(q, m)[x].state = "acked" => q[x].state = "acked"
              /\ Ack(q, m)[x].state = "acked" => x = m \/ q[x].state = "acked"
BY DeliveryLimitAssumption
   DEF Message, MessageStates, Deliver, Ack, Discard, Return

(* Sending concerns one message, queued or not. *)
LEMMA QueueSend ==
    ASSUME NEW S, NEW q \in [S -> Message], NEW m \in S
    PROVE  \A n, D : \A x \in S :
              /\ Send(q, m, n \in D)[x].state # "none" <=> x = m \/ q[x].state # "none"
              /\ Send(q, m, n \in D)[x].state = "acked" => q[x].state = "acked"
BY DeliveryLimitAssumption DEF Message, MessageStates, Publish, Send

(* A returned message is counted or gone; the others stay as they are. *)
LEMMA MessageReturned ==
    ASSUME NEW S, NEW q \in [S -> Message], NEW m \in S
    PROVE  /\ \A x \in S \ {m} : Return(q, m)[x] = q[x]
           /\ \/ /\ Return(q, m)[m].state = "ready"
                 /\ Return(q, m)[m].count = q[m].count + 1
              \/ /\ Return(q, m)[m].state = "dead"
                 /\ Return(q, m)[m].count = q[m].count
BY DeliveryLimitAssumption DEF Message, MessageStates, Return, Discard

-----------------------------------------------------------------------------
LEMMA StandingTypes ==
    ASSUME NEW S, NEW q \in [S -> Message]
    PROVE  /\ Standing(q) \in [S -> {"none", "open", "done", "lost"}]
           /\ \A m \in S : /\ q[m].state = "none" => Standing(q)[m] = "none"
                           /\ q[m].state \in {"ready", "held"} => Standing(q)[m] = "open"
                           /\ q[m].state = "acked" => Standing(q)[m] = "done"
                           /\ q[m].state \in {"dead", "unrouted"} => Standing(q)[m] = "lost"
                           /\ q[m].state \in MessageStates
<1>1. \A m \in S : \/ q[m].state = "none"
                   \/ q[m].state \in {"ready", "held"}
                   \/ q[m].state = "acked"
                   \/ q[m].state \in {"dead", "unrouted"}
  BY DEF Message, MessageStates
<1>2. Standing(q) \in [S -> {"none", "open", "done", "lost"}]
  BY <1>1 DEF Standing, Fate
<1>3. \A m \in S : /\ q[m].state = "none" => Standing(q)[m] = "none"
                   /\ q[m].state \in {"ready", "held"} => Standing(q)[m] = "open"
                   /\ q[m].state = "acked" => Standing(q)[m] = "done"
                   /\ q[m].state \in {"dead", "unrouted"} => Standing(q)[m] = "lost"
  BY DEF Standing, Fate
<1> QED
  BY <1>1, <1>2, <1>3 DEF MessageStates

(* What the operations on a queue do to the standing of its messages *)
LEMMA StandingMoves ==
    ASSUME NEW S, NEW q \in [S -> Message], NEW m \in S
    PROVE  /\ q[m].state = "ready" => Standing(Deliver(q, m)) = Standing(q)
           /\ q[m].state = "held" => Standing(Ack(q, m)) = [Standing(q) EXCEPT ![m] = "done"]
           /\ q[m].state = "held" =>
                 Standing(Discard(q, m)) = [Standing(q) EXCEPT ![m] = "lost"]
           /\ q[m].state = "held" =>
                 Standing(Return(q, m)) \in {Standing(q), [Standing(q) EXCEPT ![m] = "lost"]}
<1>1. DOMAIN q = S /\ q[m] \in Message
  OBVIOUS
<1>2. q[m].state = "ready" => Standing(Deliver(q, m)) = Standing(q)
  BY <1>1 DEF Standing, Fate, Deliver, Message, MessageStates
<1>3. q[m].state = "held" => Standing(Ack(q, m)) = [Standing(q) EXCEPT ![m] = "done"]
  BY <1>1 DEF Standing, Fate, Ack, Message, MessageStates
<1>4. Standing(Discard(q, m)) = [Standing(q) EXCEPT ![m] = "lost"]
  BY <1>1 DEF Standing, Fate, Discard, Message, MessageStates
<1>5. ASSUME q[m].state = "held"
      PROVE  Standing(Return(q, m)) \in {Standing(q), [Standing(q) EXCEPT ![m] = "lost"]}
  <2>1. CASE q[m].count < DeliveryLimit
    BY <1>1, <1>5, <2>1 DEF Standing, Fate, Return, Message, MessageStates
  <2>2. CASE ~ (q[m].count < DeliveryLimit)
    BY <1>4, <2>2 DEF Return
  <2> QED
    BY <2>1, <2>2
<1> QED
  BY <1>2, <1>3, <1>4, <1>5

LEMMA StandingOfPublished ==
    ASSUME NEW S, NEW q \in [S -> Message], NEW m \in S
    PROVE  Standing(Publish(q, m)) = [Standing(q) EXCEPT ![m] = "open"]
<1>1. DOMAIN q = S
  OBVIOUS
<1> QED
  BY <1>1 DEF Standing, Fate, Publish, Message, MessageStates

LEMMA StandingOfUnrouted ==
    ASSUME NEW S, NEW q \in [S -> Message], NEW m \in S
    PROVE  Standing([q EXCEPT ![m] = [state |-> "unrouted", count |-> 0]])
              = [Standing(q) EXCEPT ![m] = "lost"]
<1>1. DOMAIN q = S
  OBVIOUS
<1> QED
  BY <1>1 DEF Standing, Fate, Message, MessageStates

-----------------------------------------------------------------------------
(* How far messages come *)

LEMMA Ranks ==
    ASSUME NEW e \in Message
    PROVE  /\ Rank(e) \in 0..(2 * DeliveryLimit + 3)
           /\ e.count \in 0..DeliveryLimit
           /\ e.state = "none" <=> Rank(e) = 0
           /\ e.state = "ready" => Rank(e) = 2 * e.count + 1
           /\ e.state = "held" => Rank(e) = 2 * e.count + 2
           /\ e.state \in {"acked", "dead", "unrouted"} <=> Rank(e) = 2 * DeliveryLimit + 3
<1>1. e.count \in 0..DeliveryLimit /\ e.state \in MessageStates /\ DeliveryLimit \in Nat
  BY DeliveryLimitAssumption DEF Message
<1>2. e.count \in Nat /\ e.count <= DeliveryLimit
  BY <1>1
<1>3. CASE e.state = "none"
  BY <1>1, <1>3 DEF Rank
<1>4. CASE e.state = "ready"
  BY <1>1, <1>2, <1>4 DEF Rank
<1>5. CASE e.state = "held"
  BY <1>1, <1>2, <1>5 DEF Rank, InDelivery
<1>6. CASE e.state \in {"acked", "dead", "unrouted"}
  BY <1>1, <1>2, <1>6 DEF Rank
<1> QED
  BY <1>1, <1>3, <1>4, <1>5, <1>6 DEF MessageStates

(* Every operation, done when the broker does it, moves its message on. *)
LEMMA QueueMovesOn ==
    ASSUME NEW S, NEW q \in [S -> Message], NEW m \in S
    PROVE  /\ MovesOn(q, q)
           /\ q[m].state = "none" => MovesOn(q, Publish(q, m))
           /\ \A n, D : q[m].state = "none" => MovesOn(q, Send(q, m, n \in D))
           /\ q[m].state = "ready" => MovesOn(q, Deliver(q, m))
           /\ q[m].state = "held" => /\ MovesOn(q, Ack(q, m))
                                     /\ MovesOn(q, Discard(q, m))
                                     /\ MovesOn(q, Return(q, m))
<1>0. DOMAIN q = S /\ q[m] \in Message /\ q[m].count \in 0..DeliveryLimit /\ DeliveryLimit \in Nat
  BY Ranks, DeliveryLimitAssumption
<1>1. ASSUME NEW e \in Message, Rank(q[m]) < Rank(e) PROVE MovesOn(q, [q EXCEPT ![m] = e])
  BY <1>0, <1>1 DEF MovesOn
<1>2. MovesOn(q, q)
  BY DEF MovesOn
<1>3. ASSUME q[m].state = "none", NEW state \in {"ready", "unrouted"}
      PROVE  MovesOn(q, [q EXCEPT ![m] = [state |-> state, count |-> 0]])
  <2>1. [state |-> state, count |-> 0] \in Message
    BY <1>0 DEF Message, MessageStates
  <2>2. Rank([state |-> state, count |-> 0]) > 0 /\ Rank(q[m]) = 0
    BY <1>0, <1>3, <2>1, Ranks
  <2> QED
    BY <1>1, <2>1, <2>2
<1>4. ASSUME NEW state \in {"held", "acked", "dead"}, NEW from \in {"ready", "held"},
             q[m].state = from, state # from
      PROVE  MovesOn(q, [q EXCEPT ![m] = [state |-> state, count |-> q[m].count]])
  <2> DEFINE e == [state |-> state, count |-> q[m].count]
  <2>1. e \in Message
    BY <1>0 DEF Message, MessageStates
  <2>2. e.state = state /\ e.count = q[m].count
    OBVIOUS
  <2>3. q[m].count \in Nat /\ q[m].count <= DeliveryLimit
    BY <1>0
  <2> HIDE DEF e
  <2>4. Rank(q[m]) < Rank(e)
    BY <1>0, <1>4, <2>1, <2>2, <2>3, Ranks
  <2> QED
    BY <1>1, <2>1, <2>4 DEF e
<1>5. ASSUME q[m].state = "held", q[m].count < DeliveryLimit
      PROVE  MovesOn(q, [q EXCEPT ![m] = [state |-> "ready", count |-> q[m].count + 1]])
  <2> DEFINE e == [state |-> "ready", count |-> q[m].count + 1]
  <2>1. e \in Message
    BY <1>0, <1>5 DEF Message, MessageStates
  <2>2. e.state = "ready" /\ e.count = q[m].count + 1
    OBVIOUS
  <2>3. q[m].count \in Nat
    BY <1>0
  <2> HIDE DEF e
  <2>4. Rank(q[m]) < Rank(e)
    BY <1>0, <1>5, <2>1, <2>2, <2>3, Ranks
  <2> QED
    BY <1>1, <2>1, <2>4 DEF e
<1>6. q[m].state = "held" => MovesOn(q, Discard(q, m)) /\ MovesOn(q, Ack(q, m))
  BY <1>4 DEF Discard, Ack
<1>7. q[m].state = "held" => MovesOn(q, Return(q, m))
  BY <1>5, <1>6 DEF Return
<1>8. q[m].state = "ready" => MovesOn(q, Deliver(q, m))
  BY <1>4 DEF Deliver
<1>9. q[m].state = "none" => MovesOn(q, Publish(q, m))
  BY <1>3 DEF Publish
<1>10. \A n, D : q[m].state = "none" => MovesOn(q, Send(q, m, n \in D))
  BY <1>3, <1>9 DEF Send
<1> QED
  BY <1>2, <1>6, <1>7, <1>8, <1>9, <1>10

(* Whoever had a delivery that is over has it over for good, and what was  *)
(* published stays so.                                                     *)
LEMMA MovedOn ==
    ASSUME NEW S, NEW q \in [S -> Message], NEW r \in [S -> Message], MovesOn(q, r), NEW m \in S
    PROVE  /\ Rank(q[m]) \in Nat /\ Rank(r[m]) \in Nat /\ Rank(q[m]) <= Rank(r[m])
           /\ q[m].state # "none" => r[m].state # "none"
<1>1. q[m] \in Message /\ r[m] \in Message /\ DOMAIN q = S
  OBVIOUS
<1>2. Rank(q[m]) \in Nat /\ Rank(r[m]) \in Nat
  BY <1>1, Ranks, DeliveryLimitAssumption
<1>3. r[m] = q[m] \/ Rank(q[m]) < Rank(r[m])
  BY <1>1 DEF MovesOn
<1> QED
  BY <1>1, <1>2, <1>3, Ranks

=============================================================================

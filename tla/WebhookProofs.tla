---------------------------- MODULE WebhookProofs ----------------------------
(***************************************************************************)
(* Proofs about the webhook dispatcher, for any number of notices and      *)
(* workers, any number of attempts and any delivery limit: no notice is    *)
(* lost, the messages keep the contract of a task queue with retries, and  *)
(* the cache of configurations does not hold on to what was withdrawn.     *)
(***************************************************************************)
EXTENDS WebhookDispatcher, QueueProofs, SequenceTheorems, WellFoundedInduction

-----------------------------------------------------------------------------
(* Paths and attempts *)

LEMMA PathLength ==
    ASSUME NEW n \in Nat, NEW p \in [1..n -> 0..DeliveryLimit]
    PROVE  p \in Seq(0..DeliveryLimit) /\ Len(p) = n
<1>1. p \in Seq(0..DeliveryLimit)
  BY SeqDef
<1>2. DOMAIN p = 1..Len(p) /\ Len(p) \in Nat
  BY <1>1, LenProperties
<1>3. DOMAIN p = 1..n
  OBVIOUS
<1>4. \A k \in Nat : 1..k = 1..n => k = n
  OBVIOUS
<1> QED
  BY <1>1, <1>2, <1>3, <1>4

LEMMA AttemptsAreBounded ==
    ASSUME NEW m \in Messages
    PROVE  /\ Attempt(m) \in 0..(MaxAttempts - 1)
           /\ \E n \in Notices : m[1] = n /\ m \in MessagesOf(n)
           /\ m[2] \in Seq(0..DeliveryLimit)
<1>1. PICK n \in 0..(MaxAttempts - 1) : m[2] \in [1..n -> 0..DeliveryLimit]
  BY DEF Messages, Paths
<1>2. n \in Nat
  BY <1>1, AttemptsAssumption
<1>3. m[2] \in Seq(0..DeliveryLimit) /\ Len(m[2]) = n
  BY <1>1, <1>2, PathLength
<1> QED
  BY <1>1, <1>3 DEF Attempt, Messages, MessagesOf

(* A retry that should_retry allows is a message of the same notice, one   *)
(* attempt later.                                                          *)
LEMMA RetriesAreMessages ==
    ASSUME NEW m \in Messages, NEW c \in 0..DeliveryLimit
    PROVE  /\ ShouldRetry(m) => RetryOf(m, c) \in Messages
           /\ Attempt(RetryOf(m, c)) = Attempt(m) + 1
           /\ RetryOf(m, c)[1] = m[1]
<1>1. m[2] \in Seq(0..DeliveryLimit) /\ Attempt(m) \in 0..(MaxAttempts - 1)
  BY AttemptsAreBounded
<1>2. Append(m[2], c) \in Seq(0..DeliveryLimit) /\ Len(Append(m[2], c)) = Len(m[2]) + 1
  BY <1>1, AppendProperties
<1>3. Append(m[2], c) \in [1..(Attempt(m) + 1) -> 0..DeliveryLimit]
  BY <1>2, LenProperties DEF Attempt
<1>4. ShouldRetry(m) => Attempt(m) + 1 \in 0..(MaxAttempts - 1)
  BY <1>1, AttemptsAssumption DEF ShouldRetry
<1>5. ShouldRetry(m) => Append(m[2], c) \in Paths
  BY <1>3, <1>4 DEF Paths
<1> QED
  BY <1>2, <1>5 DEF RetryOf, Attempt, Messages

LEMMA RootIsMessage ==
    ASSUME NEW n \in Notices
    PROVE  Root(n) \in Messages /\ Root(n) \in MessagesOf(n)
<1>1. << >> \in [1..0 -> 0..DeliveryLimit]
  OBVIOUS
<1>2. 0 \in 0..(MaxAttempts - 1)
  BY AttemptsAssumption
<1>3. << >> \in Paths
  BY <1>1, <1>2 DEF Paths
<1> QED
  BY <1>3 DEF Root, Messages, MessagesOf

(* A nonempty set of numbers has a least one: the library's result on <,   *)
(* stated for sets so that it can be cited.                                *)
LEMMA Below ==
    \E R : /\ \A x, y \in Nat : x > y => <<y, x>> \in R
           /\ \A T \in SUBSET Nat : T # {} => \E x \in T : \A y \in T : <<y, x>> \notin R
<1>1. \A T \in SUBSET Nat : T # {} => \E x \in T : \A y \in T : <<y, x>> \notin OpToRel(<, Nat)
  BY NatLessThanWellFounded, WFMin
<1>2. \A x, y \in Nat : x > y => <<y, x>> \in OpToRel(<, Nat)
  BY DEF OpToRel
<1> QED
  BY <1>1, <1>2, Zenon

LEMMA LeastNumber ==
    ASSUME NEW T \in SUBSET Nat, T # {}
    PROVE  \E x \in T : \A y \in T : x <= y
<1>1. PICK R : /\ \A x, y \in Nat : x > y => <<y, x>> \in R
               /\ \A U \in SUBSET Nat : U # {} => \E x \in U : \A y \in U : <<y, x>> \notin R
  BY Below
<1>2. PICK x \in T : \A y \in T : <<y, x>> \notin R
  BY <1>1
<1>3. ASSUME NEW y \in T, x > y PROVE FALSE
  <2>1. x \in Nat /\ y \in Nat
    OBVIOUS
  <2>2. <<y, x>> \in R
    BY <1>1, <1>3, <2>1, Zenon
  <2> QED
    BY <1>2, <2>2, Zenon
<1> QED
  BY <1>3

-----------------------------------------------------------------------------
(* Types *)

DispatcherState ==
    [pc : Working \cup {"idle", "down", "ack", "broken"},
     msg : Messages \cup {Missing},
     count : 0..DeliveryLimit,
     hook : Hooks \cup {Unset, Missing}]

LEMMA DispatcherStates ==
    /\ TypeOK <=> /\ ConfigTypeOK
                  /\ webhookQ \in [Messages -> Message]
                  /\ dispatcher \in [Dispatchers -> DispatcherState]
                  /\ accepted \subseteq Messages
                  /\ buried \subseteq Messages
                  /\ cut \in BOOLEAN
    /\ Idle \in DispatcherState /\ Down \in DispatcherState
    /\ Idle.pc = "idle" /\ Down.pc = "down"
<1>1. Idle \in DispatcherState
  BY DeliveryLimitAssumption DEF Idle, DispatcherState
<1>2. Idle.pc = "idle"
  BY DEF Idle
<1>3. Down \in DispatcherState /\ Down.pc = "down"
  BY <1>1 DEF Down, DispatcherState
<1> QED
  BY <1>1, <1>2, <1>3 DEF TypeOK, DispatcherState

(* What a step does to the queue *)
QueueStep ==
    \/ webhookQ' = webhookQ
    \/ \E n \in Notices : webhookQ' = Publish(webhookQ, Root(n))
    \/ \E w \in Dispatchers : /\ At(w, "retry")
                              /\ webhookQ' = Publish(webhookQ, RetryOf(dispatcher[w].msg,
                                                                       dispatcher[w].count))
    \/ \E m \in Messages : webhookQ[m].state = "ready" /\ webhookQ' = Deliver(webhookQ, m)
    \/ \E m \in Messages : webhookQ[m].state = "held" /\ webhookQ' = Return(webhookQ, m)
    \/ \E w \in Dispatchers : /\ At(w, "ack") /\ webhookQ[dispatcher[w].msg].state = "held"
                              /\ webhookQ' = Ack(webhookQ, dispatcher[w].msg)

LEMMA QueueSteps ==
    ASSUME WorkInHand, [Next]_vars
    PROVE  QueueStep
<1>1. ASSUME NEW w \in Dispatchers, ReturnNotice(w) PROVE QueueStep
  <2>1. CASE Holds(w)
    <3>1. dispatcher[w].msg \in Messages /\ webhookQ[dispatcher[w].msg].state = "held"
      BY <2>1 DEF Holds, HeldAt, WorkInHand
    <3> QED
      BY <1>1, <2>1, <3>1 DEF ReturnNotice, QueueStep
  <2> QED
    BY <1>1, <2>1 DEF ReturnNotice, QueueStep
<1>2. ASSUME NEW w \in Dispatchers, AckNotice(w) PROVE QueueStep
  <2>1. CASE Holds(w)
    <3>1. At(w, "ack") /\ webhookQ[dispatcher[w].msg].state = "held"
      BY <1>2, <2>1 DEF Holds, HeldAt, AckNotice
    <3> QED
      BY <1>2, <2>1, <3>1 DEF AckNotice, QueueStep
  <2> QED
    BY <1>2, <2>1 DEF AckNotice, QueueStep
<1>3. ASSUME NEW w \in Dispatchers, PublishRetry(w) PROVE QueueStep
  BY <1>3 DEF PublishRetry, QueueStep
<1>4. ASSUME NEW w \in Dispatchers, NEW m \in Messages, ReceiveNotice(w, m) PROVE QueueStep
  BY <1>4 DEF ReceiveNotice, IsReady, QueueStep
<1>5. ASSUME NEW n \in Notices, PublishNotice(n) PROVE QueueStep
  BY <1>5 DEF PublishNotice, QueueStep
<1>6. ASSUME NEW w \in Dispatchers,
             EndDispatcher(w) \/ FailDispatch(w) \/ DropDispatcherChannel(w)
      PROVE  QueueStep
  BY <1>1, <1>6 DEF EndDispatcher, FailDispatch, DropDispatcherChannel
<1>7. ASSUME webhookQ' = webhookQ PROVE QueueStep
  BY <1>7 DEF QueueStep
<1> QED
  BY <1>2, <1>3, <1>4, <1>5, <1>6, <1>7
  DEF Next, DispatcherMove, ConfigStep, vars, FetchHook, LookUpHook, RefuseLookUp, CacheHook,
      ExpireHook, PostAccepted, PostRefused, PostUnsettled, PostBroken, PublishDeadLetter,
      RestartDispatcher

(* What a step does to one worker *)
WorkerStep(w) ==
    /\ dispatcher' \in [Dispatchers -> DispatcherState]
    /\ \A v \in Dispatchers \ {w} : dispatcher'[v] = dispatcher[v]
    /\ \/ dispatcher'[w].pc \in {"idle", "down"}
       \/ dispatcher'[w].pc = "fetch" /\ dispatcher'[w].msg \in Messages
       \/ /\ Busy(w)
          /\ dispatcher'[w].msg = dispatcher[w].msg
          /\ dispatcher'[w].pc = "retry" => ShouldRetry(dispatcher[w].msg)
          /\ dispatcher'[w].pc = "ack" =>
                \/ dispatcher[w].msg \in accepted' \cup buried'
                \/ /\ At(w, "retry")
                   /\ webhookQ' = Publish(webhookQ, RetryOf(dispatcher[w].msg, dispatcher[w].count))

LEMMA WorkerMoves ==
    ASSUME TypeOK, NEW w \in Dispatchers, NEW pc \in Working \cup {"ack", "broken"}, Proceed(w, pc)
    PROVE  /\ dispatcher' \in [Dispatchers -> DispatcherState]
           /\ \A v \in Dispatchers \ {w} : dispatcher'[v] = dispatcher[v]
           /\ dispatcher'[w].msg = dispatcher[w].msg /\ dispatcher'[w].pc = pc
<1>1. dispatcher \in [Dispatchers -> DispatcherState]
  BY DispatcherStates
<1>2. dispatcher' = [dispatcher EXCEPT ![w].pc = pc]
  BY DEF Proceed
<1> QED
  BY <1>1, <1>2 DEF DispatcherState

LEMMA WorkerEnds ==
    ASSUME TypeOK, NEW w \in Dispatchers, NEW s \in {Idle, Down},
           dispatcher' = [dispatcher EXCEPT ![w] = s]
    PROVE  WorkerStep(w)
BY DispatcherStates DEF WorkerStep

LEMMA WorkerSteps ==
    ASSUME TypeOK, WorkInHand, [Next]_vars
    PROVE  dispatcher' = dispatcher \/ \E w \in Dispatchers : WorkerStep(w)
<1>0. /\ dispatcher \in [Dispatchers -> DispatcherState] /\ ConfigTypeOK
      /\ webhookQ \in [Messages -> Message]
  BY DispatcherStates
<1>1. ASSUME NEW w \in Dispatchers, NEW m \in Messages, ReceiveNotice(w, m) PROVE WorkerStep(w)
  <2>1. webhookQ[m].count \in 0..DeliveryLimit
    BY <1>0 DEF Message
  <2>2. [pc |-> "fetch", msg |-> m, count |-> webhookQ[m].count, hook |-> Missing]
           \in DispatcherState
    BY <2>1 DEF DispatcherState, Working
  <2> QED
    BY <1>0, <1>1, <2>2 DEF ReceiveNotice, WorkerStep
<1>2. ASSUME NEW w \in Dispatchers, FetchHook(w) PROVE WorkerStep(w)
  <2>1. /\ dispatcher[w].msg \in Messages /\ Busy(w) /\ DeveloperOf(w) \in Developers
    BY <1>2, RecipientAssumption DEF WorkInHand, Busy, FetchHook, At, DeveloperOf, Messages
  <2>2. cached[DeveloperOf(w)].hook \in Hooks \cup {Unset, Missing}
    BY <1>0, <2>1 DEF ConfigTypeOK
  <2>3. PICK pc \in {"post", "lookup"} :
           dispatcher' = [dispatcher EXCEPT ![w].pc = pc, ![w].hook = cached[DeveloperOf(w)].hook]
    BY <1>2 DEF FetchHook
  <2>4. pc \in Working /\ pc \notin {"retry", "ack"}
    BY DEF Working
  <2>5. /\ dispatcher' \in [Dispatchers -> DispatcherState]
        /\ \A v \in Dispatchers \ {w} : dispatcher'[v] = dispatcher[v]
        /\ dispatcher'[w].msg = dispatcher[w].msg /\ dispatcher'[w].pc = pc
    BY <1>0, <2>2, <2>3, <2>4 DEF DispatcherState
  <2> QED
    BY <2>1, <2>4, <2>5 DEF WorkerStep
<1>3. ASSUME NEW w \in Dispatchers, LookUpHook(w) PROVE WorkerStep(w)
  <2>1. /\ dispatcher[w].msg \in Messages /\ Busy(w) /\ DeveloperOf(w) \in Developers
    BY <1>3, RecipientAssumption DEF WorkInHand, Busy, LookUpHook, At, DeveloperOf, Messages
  <2>2. hook[DeveloperOf(w)] \in Hooks \cup {Unset, Missing}
    BY <1>0, <2>1 DEF ConfigTypeOK
  <2>3. dispatcher' = [dispatcher EXCEPT ![w].pc = "store", ![w].hook = hook[DeveloperOf(w)]]
    BY <1>3 DEF LookUpHook
  <2>4. "store" \in Working
    BY DEF Working
  <2> QED
    BY <1>0, <2>1, <2>2, <2>3, <2>4 DEF WorkerStep, DispatcherState
<1>4. ASSUME NEW w \in Dispatchers,
             RefuseLookUp(w) \/ CacheHook(w) \/ ExpireHook(w) \/ PostRefused(w) \/ PostBroken(w)
      PROVE  WorkerStep(w)
  <2>1. PICK pc \in {"bury", "expire", "fetch", "broken"} : Proceed(w, pc)
    BY <1>4 DEF RefuseLookUp, CacheHook, ExpireHook, PostRefused, PostBroken
  <2>2. Busy(w)
    BY <1>4 DEF Busy, At, RefuseLookUp, CacheHook, ExpireHook, PostRefused, PostBroken
  <2>3. {"bury", "expire", "fetch"} \subseteq Working
    BY DEF Working
  <2> QED
    BY <2>1, <2>2, <2>3, WorkerMoves DEF WorkerStep
<1>5. ASSUME NEW w \in Dispatchers, PostUnsettled(w) PROVE WorkerStep(w)
  <2>1. /\ Busy(w)
        /\ \/ Proceed(w, "retry") /\ ShouldRetry(dispatcher[w].msg)
           \/ Proceed(w, "bury")
    BY <1>5 DEF PostUnsettled, Busy, At
  <2>2. {"bury", "retry"} \subseteq Working
    BY DEF Working
  <2> QED
    BY <2>1, <2>2, WorkerMoves DEF WorkerStep
<1>6. ASSUME NEW w \in Dispatchers, PostAccepted(w) \/ PublishRetry(w) \/ PublishDeadLetter(w)
      PROVE  WorkerStep(w)
  <2>1. Proceed(w, "ack") /\ Busy(w)
    BY <1>6 DEF PostAccepted, PublishRetry, PublishDeadLetter, Busy, At
  <2>2. \/ dispatcher[w].msg \in accepted' \cup buried'
        \/ /\ At(w, "retry")
           /\ webhookQ' = Publish(webhookQ, RetryOf(dispatcher[w].msg, dispatcher[w].count))
    BY <1>6 DEF PostAccepted, PublishRetry, PublishDeadLetter
  <2> QED
    BY <2>1, <2>2, WorkerMoves DEF WorkerStep
<1>7. ASSUME NEW w \in Dispatchers,
             \/ AckNotice(w) \/ EndDispatcher(w) \/ FailDispatch(w) \/ RestartDispatcher(w)
      PROVE  WorkerStep(w)
  BY <1>7, WorkerEnds DEF AckNotice, EndDispatcher, FailDispatch, RestartDispatcher
<1> QED
  BY <1>1, <1>2, <1>3, <1>4, <1>5, <1>6, <1>7
  DEF Next, DispatcherMove, ConfigStep, DropDispatcherChannel, PublishNotice, vars

LEMMA QueueTypeKept ==
    ASSUME TypeOK, WorkInHand, QueueStep
    PROVE  webhookQ' \in [Messages -> Message]
<1>1. webhookQ \in [Messages -> Message]
  BY DispatcherStates
<1>2. ASSUME NEW w \in Dispatchers, At(w, "retry")
      PROVE  RetryOf(dispatcher[w].msg, dispatcher[w].count) \in Messages
  <2>1. dispatcher[w].msg \in Messages /\ ShouldRetry(dispatcher[w].msg)
    BY <1>2 DEF WorkInHand, Busy, At
  <2>2. dispatcher[w].count \in 0..DeliveryLimit
    BY DispatcherStates DEF DispatcherState
  <2> QED
    BY <2>1, <2>2, RetriesAreMessages
<1>3. \A n \in Notices : Root(n) \in Messages
  BY RootIsMessage
<1>4. \A w \in Dispatchers : At(w, "ack") => dispatcher[w].msg \in Messages
  BY DEF WorkInHand, Busy, At
<1> QED
  BY <1>1, <1>2, <1>3, <1>4, QueueTypes DEF QueueStep

LEMMA ConfigTypeKept ==
    ASSUME TypeOK, WorkInHand, [Next]_vars
    PROVE  ConfigTypeOK'
<1> USE DEF ConfigTypeOK
<1>0. ConfigTypeOK
  BY DispatcherStates
<1>1. ASSUME NEW w \in Dispatchers, Busy(w)
      PROVE  DeveloperOf(w) \in Developers /\ dispatcher[w].hook \in Hooks \cup {Unset, Missing}
  BY <1>1, RecipientAssumption, DispatcherStates
  DEF WorkInHand, DeveloperOf, Messages, DispatcherState
<1>2. ASSUME NEW w \in Dispatchers, CacheHook(w) PROVE ConfigTypeOK'
  <2>1. Busy(w)
    BY <1>2 DEF CacheHook, Busy, At
  <2> QED
    BY <1>0, <1>1, <1>2, <2>1 DEF CacheHook, StoreHook
<1>3. ASSUME NEW w \in Dispatchers, ExpireHook(w) PROVE ConfigTypeOK'
  <2>1. Busy(w) /\ IsCached(DeveloperOf(w)) \in BOOLEAN
    BY <1>3 DEF ExpireHook, Busy, At, IsCached
  <2> QED
    BY <1>0, <1>1, <1>3, <2>1 DEF ExpireHook, LimitHook
<1>4. ASSUME NEW d \in Developers, ConfigStep(d) PROVE ConfigTypeOK'
  <2>1. CASE SetHook(d)
    BY <1>0, <2>1 DEF SetHook
  <2>2. CASE DeleteHook(d)
    BY <1>0, <2>2 DEF DeleteHook
  <2>3. CASE ForgetHook(d)
    BY <1>0, <2>3 DEF ForgetHook, NotCached
  <2> QED
    BY <1>4, <2>1, <2>2, <2>3 DEF ConfigStep
<1>5. ASSUME UNCHANGED configVars PROVE ConfigTypeOK'
  BY <1>0, <1>5 DEF configVars
<1> QED
  BY <1>2, <1>3, <1>4, <1>5
  DEF Next, DispatcherMove, vars, PublishNotice, ReceiveNotice, FetchHook, LookUpHook,
      RefuseLookUp, PostAccepted, PostRefused, PostUnsettled, PostBroken, PublishRetry,
      PublishDeadLetter, AckNotice, FailDispatch, EndDispatcher, DropDispatcherChannel,
      RestartDispatcher

LEMMA OutcomesGrow ==
    ASSUME TypeOK, WorkInHand, [Next]_vars
    PROVE  /\ accepted \subseteq accepted' /\ buried \subseteq buried'
           /\ accepted' \subseteq Messages /\ buried' \subseteq Messages /\ cut' \in BOOLEAN
<1>1. accepted \subseteq Messages /\ buried \subseteq Messages /\ cut \in BOOLEAN
  BY DispatcherStates
<1>2. ASSUME NEW w \in Dispatchers, At(w, "post") \/ At(w, "bury")
      PROVE  dispatcher[w].msg \in Messages
  BY <1>2 DEF WorkInHand, Busy, At
<1>3. /\ accepted' = accepted \/ \E w \in Dispatchers : PostAccepted(w)
      /\ buried' = buried \/ \E w \in Dispatchers : PublishDeadLetter(w)
      /\ cut' = cut \/ \E w \in Dispatchers : cut' = (cut \/ At(w, "expire"))
  BY DEF Next, DispatcherMove, vars, PublishNotice, ReceiveNotice, FetchHook, LookUpHook,
         RefuseLookUp, CacheHook, ExpireHook, PostAccepted, PostRefused, PostUnsettled, PostBroken,
         PublishRetry, PublishDeadLetter, AckNotice, FailDispatch, EndDispatcher, ConfigStep,
         DropDispatcherChannel, RestartDispatcher
<1>4. cut' \in BOOLEAN
  BY <1>1, <1>3, Zenon DEF At
<1> QED
  BY <1>1, <1>2, <1>3, <1>4 DEF PostAccepted, PublishDeadLetter

LEMMA TypesKept ==
    ASSUME TypeOK, WorkInHand, [Next]_vars
    PROVE  TypeOK'
<1>1. dispatcher' \in [Dispatchers -> DispatcherState]
  BY WorkerSteps, DispatcherStates DEF WorkerStep
<1>2. webhookQ' \in [Messages -> Message]
  BY QueueSteps, QueueTypeKept
<1> QED
  BY <1>1, <1>2, ConfigTypeKept, OutcomesGrow DEF TypeOK, DispatcherState

-----------------------------------------------------------------------------
(* The invariant *)

LEMMA WorkKept ==
    ASSUME TypeOK, WorkInHand, [Next]_vars
    PROVE  WorkInHand'
<1>1. ASSUME NEW w \in Dispatchers, WorkerStep(w) PROVE WorkInHand'
  BY <1>1 DEF WorkerStep, WorkInHand, Busy, At
<1>2. ASSUME dispatcher' = dispatcher PROVE WorkInHand'
  BY <1>2 DEF WorkInHand, Busy, At
<1> QED
  BY <1>1, <1>2, WorkerSteps

(* What was published stays published. *)
LEMMA PublishedStays ==
    ASSUME TypeOK, WorkInHand, QueueStep, NEW m \in Messages, webhookQ[m].state # "none"
    PROVE  webhookQ'[m].state # "none"
<1>0. webhookQ \in [Messages -> Message]
  BY DispatcherStates
<1>1. ASSUME NEW x \in Messages, webhookQ' = Publish(webhookQ, x) PROVE webhookQ'[m].state # "none"
  BY <1>0, <1>1 DEF Publish
<1>2. ASSUME NEW n \in Notices, webhookQ' = Publish(webhookQ, Root(n))
      PROVE  webhookQ'[m].state # "none"
  BY <1>1, <1>2, RootIsMessage
<1>3. ASSUME NEW w \in Dispatchers, At(w, "retry"),
             webhookQ' = Publish(webhookQ, RetryOf(dispatcher[w].msg, dispatcher[w].count))
      PROVE  webhookQ'[m].state # "none"
  <2>1. /\ dispatcher[w].msg \in Messages /\ ShouldRetry(dispatcher[w].msg)
        /\ dispatcher[w].count \in 0..DeliveryLimit
    BY <1>3, DispatcherStates DEF WorkInHand, Busy, At, DispatcherState
  <2> QED
    BY <1>1, <1>3, <2>1, RetriesAreMessages
<1>4. ASSUME NEW w \in Dispatchers, At(w, "ack"), webhookQ[dispatcher[w].msg].state = "held",
             webhookQ' = Ack(webhookQ, dispatcher[w].msg)
      PROVE  webhookQ'[m].state # "none"
  <2>1. dispatcher[w].msg \in Messages
    BY <1>4 DEF WorkInHand, Busy, At
  <2> QED
    BY <1>0, <1>4, <2>1, QueueMoves
<1>5. ASSUME NEW x \in Messages, webhookQ[x].state \in {"ready", "held"},
             webhookQ' = Deliver(webhookQ, x) \/ webhookQ' = Return(webhookQ, x)
      PROVE  webhookQ'[m].state # "none"
  BY <1>0, <1>5, QueueMoves
<1> QED
  BY <1>2, <1>3, <1>4, <1>5 DEF QueueStep

LEMMA FollowedStays ==
    ASSUME TypeOK, WorkInHand, [Next]_vars, NEW m \in Messages, Followed(m)
    PROVE  Followed(m)'
<1>1. CASE m \in accepted \cup buried
  BY <1>1, OutcomesGrow DEF Followed
<1>2. CASE m \notin accepted \cup buried
  <2>1. PICK c \in 0..DeliveryLimit : ShouldRetry(m) /\ webhookQ[RetryOf(m, c)].state # "none"
    BY <1>2 DEF Followed
  <2>2. webhookQ'[RetryOf(m, c)].state # "none"
    BY <2>1, QueueSteps, PublishedStays, RetriesAreMessages
  <2> QED
    BY <2>1, <2>2 DEF Followed
<1> QED
  BY <1>1, <1>2

(* Nothing is acknowledged before it is settled or its retry published. *)
LEMMA FollowedKept ==
    ASSUME TypeOK, WorkInHand, FollowedFirst, [Next]_vars
    PROVE  FollowedFirst'
<1>0. webhookQ \in [Messages -> Message]
  BY DispatcherStates
<1>1. ASSUME NEW w \in Dispatchers, NEW m, At(w, "ack")', m = dispatcher'[w].msg
      PROVE  Followed(m)'
  <2>1. CASE dispatcher'[w] = dispatcher[w]
    BY <1>1, <2>1, FollowedStays DEF FollowedFirst, WorkInHand, Busy, At
  <2>2. CASE WorkerStep(w)
    <3>1. m = dispatcher[w].msg /\ Busy(w)
      BY <1>1, <2>2 DEF WorkerStep, At
    <3>2. CASE m \in accepted' \cup buried'
      BY <3>2 DEF Followed
    <3>3. CASE At(w, "retry") /\ webhookQ' = Publish(webhookQ, RetryOf(m, dispatcher[w].count))
      <4>1. m \in Messages /\ ShouldRetry(m) /\ dispatcher[w].count \in 0..DeliveryLimit
        BY <3>1, <3>3, DispatcherStates DEF WorkInHand, DispatcherState
      <4>2. RetryOf(m, dispatcher[w].count) \in Messages
        BY <4>1, RetriesAreMessages
      <4>3. webhookQ'[RetryOf(m, dispatcher[w].count)].state # "none"
        BY <1>0, <3>3, <4>2 DEF Publish
      <4> QED
        BY <4>1, <4>2, <4>3 DEF Followed
    <3> QED
      BY <1>1, <2>2, <3>1, <3>2, <3>3 DEF WorkerStep, At
  <2> QED
    BY <2>1, <2>2, WorkerSteps DEF WorkerStep
<1>2. ASSUME NEW m \in Messages, webhookQ'[m].state = "acked" PROVE Followed(m)'
  <2>1. CASE webhookQ[m].state = "acked"
    BY <2>1, FollowedStays DEF FollowedFirst
  <2>2. CASE webhookQ[m].state # "acked"
    <3>1. ASSUME NEW x \in Messages, webhookQ' = Publish(webhookQ, x) PROVE FALSE
      BY <1>0, <1>2, <2>2, <3>1 DEF Publish
    <3>2. ASSUME NEW n \in Notices, webhookQ' = Publish(webhookQ, Root(n)) PROVE FALSE
      BY <3>1, <3>2, RootIsMessage
    <3>3. ASSUME NEW w \in Dispatchers, At(w, "retry"),
                 webhookQ' = Publish(webhookQ, RetryOf(dispatcher[w].msg, dispatcher[w].count))
          PROVE  FALSE
      <4>1. /\ dispatcher[w].msg \in Messages /\ ShouldRetry(dispatcher[w].msg)
            /\ dispatcher[w].count \in 0..DeliveryLimit
        BY <3>3, DispatcherStates DEF WorkInHand, Busy, At, DispatcherState
      <4> QED
        BY <3>1, <3>3, <4>1, RetriesAreMessages
    <3>4. ASSUME NEW x \in Messages, webhookQ[x].state \in {"ready", "held"},
                 webhookQ' = Deliver(webhookQ, x) \/ webhookQ' = Return(webhookQ, x)
          PROVE  FALSE
      BY <1>0, <1>2, <2>2, <3>4, QueueMoves
    <3>5. PICK w \in Dispatchers : /\ At(w, "ack") /\ webhookQ[dispatcher[w].msg].state = "held"
                                   /\ webhookQ' = Ack(webhookQ, dispatcher[w].msg)
      BY <1>2, <2>2, <3>2, <3>3, <3>4, QueueSteps DEF QueueStep
    <3>6. dispatcher[w].msg \in Messages
      BY <3>5 DEF WorkInHand, Busy, At
    <3>7. m = dispatcher[w].msg
      BY <1>0, <1>2, <2>2, <3>5, <3>6, QueueMoves
    <3> QED
      BY <3>5, <3>6, <3>7, FollowedStays DEF FollowedFirst
  <2> QED
    BY <2>1, <2>2
<1> QED
  BY <1>1, <1>2 DEF FollowedFirst

LEMMA DeadKept ==
    ASSUME TypeOK, WorkInHand, DeadWasExhausted, QueueStep
    PROVE  DeadWasExhausted'
<1>0. webhookQ \in [Messages -> Message] /\ DeliveryLimit \in Nat
  BY DispatcherStates, DeliveryLimitAssumption
<1>1. ASSUME NEW x \in Messages,
             \/ webhookQ' = Publish(webhookQ, x) \/ webhookQ' = Deliver(webhookQ, x)
             \/ webhookQ' = Ack(webhookQ, x) \/ webhookQ' = Return(webhookQ, x)
      PROVE  DeadWasExhausted'
  BY <1>0, <1>1 DEF DeadWasExhausted, Message, Publish, Deliver, Ack, Return, Discard
<1>2. ASSUME NEW w \in Dispatchers, At(w, "retry")
      PROVE  RetryOf(dispatcher[w].msg, dispatcher[w].count) \in Messages
  <2>1. /\ dispatcher[w].msg \in Messages /\ ShouldRetry(dispatcher[w].msg)
        /\ dispatcher[w].count \in 0..DeliveryLimit
    BY <1>2, DispatcherStates DEF WorkInHand, Busy, At, DispatcherState
  <2> QED
    BY <2>1, RetriesAreMessages
<1>3. \A n \in Notices : Root(n) \in Messages
  BY RootIsMessage
<1>4. \A w \in Dispatchers : At(w, "ack") => dispatcher[w].msg \in Messages
  BY DEF WorkInHand, Busy, At
<1>5. webhookQ' = webhookQ => DeadWasExhausted'
  BY DEF DeadWasExhausted
<1> QED
  BY <1>1, <1>2, <1>3, <1>4, <1>5 DEF QueueStep

LEMMA DispatchStart ==
    Init => DispatchInv
<1> SUFFICES ASSUME Init PROVE DispatchInv
  OBVIOUS
<1>1. TypeOK
  <2>1. ConfigTypeOK
    BY DEF Init, ConfigInit, ConfigTypeOK, NotCached
  <2>2. webhookQ \in [Messages -> Message]
    BY DeliveryLimitAssumption DEF Init, NoMessage, Message, MessageStates
  <2>3. dispatcher \in [Dispatchers -> DispatcherState] /\ accepted = {} /\ buried = {}
    BY DispatcherStates DEF Init
  <2>4. cut \in BOOLEAN
    BY Zenon DEF Init
  <2> QED
    BY <2>1, <2>2, <2>3, <2>4, DispatcherStates
<1>2. /\ \A w \in Dispatchers : dispatcher[w].pc = "idle"
      /\ \A m \in Messages : webhookQ[m].state = "none"
  BY DispatcherStates DEF Init, NoMessage
<1> QED
  BY <1>1, <1>2 DEF DispatchInv, WorkInHand, FollowedFirst, DeadWasExhausted, Busy, At

THEOREM DispatchInvariant ==
    Spec => []DispatchInv
<1>1. DispatchInv /\ [Next]_vars => DispatchInv'
  BY TypesKept, WorkKept, FollowedKept, DeadKept, QueueSteps DEF DispatchInv
<1> QED
  BY <1>1, DispatchStart, PTL DEF Spec

(* Every variable stays in its type; no retry goes beyond the last attempt. *)
THEOREM DispatchTypes == Spec => []TypeOK
<1>1. DispatchInv => TypeOK
  BY DEF DispatchInv
<1> QED
  BY <1>1, DispatchInvariant, PTL

(* Of the messages of a published notice, one that was retried most often  *)
(* says what became of it: it was not acknowledged for a retry.            *)
THEOREM NoticesAreAccounted == Spec => []NoticeAccounted
<1>1. DispatchInv => NoticeAccounted
  <2> SUFFICES ASSUME DispatchInv, NEW n \in Notices, webhookQ[Root(n)].state # "none"
               PROVE  \E m \in MessagesOf(n) :
                         InFlight(m) \/ Exhausted(m) \/ m \in accepted \cup buried
    BY DEF NoticeAccounted
  <2> DEFINE Sent == {m \in MessagesOf(n) : webhookQ[m].state # "none"}
             Left == {MaxAttempts - Attempt(m) : m \in Sent}
  <2>1. \A m \in MessagesOf(n) : m \in Messages /\ m[1] = n
    BY DEF MessagesOf, Messages
  <2>2. \A m \in Messages : Attempt(m) \in Nat /\ MaxAttempts - Attempt(m) \in Nat
    BY AttemptsAreBounded, AttemptsAssumption
  <2>3. Left \in SUBSET Nat
    BY <2>1, <2>2
  <2>4. Root(n) \in Sent
    BY RootIsMessage
  <2>5. PICK x \in Left : \A y \in Left : x <= y
    <3>1. Left # {}
      BY <2>4
    <3> HIDE DEF Left
    <3> QED
      BY <2>3, <3>1, LeastNumber
  <2>6. PICK m \in Sent : x = MaxAttempts - Attempt(m)
    BY <2>5
  <2>7. m \in Messages /\ m \in MessagesOf(n) /\ m[1] = n /\ webhookQ[m].state # "none"
    BY <2>1, <2>6
  <2>8. ASSUME NEW c \in 0..DeliveryLimit, ShouldRetry(m), webhookQ[RetryOf(m, c)].state # "none"
        PROVE  FALSE
    <3>1. RetryOf(m, c)[1] = n /\ Attempt(RetryOf(m, c)) = Attempt(m) + 1
      BY <2>7, RetriesAreMessages
    <3>2. RetryOf(m, c) \in Sent
      <4>1. PICK j \in Notices : RetryOf(m, c)[1] = j /\ RetryOf(m, c) \in MessagesOf(j)
        BY <2>7, <2>8, RetriesAreMessages, AttemptsAreBounded
      <4> QED
        BY <2>8, <3>1, <4>1
    <3>3. x <= MaxAttempts - Attempt(RetryOf(m, c))
      BY <2>5, <3>2
    <3>4. Attempt(m) \in Nat /\ MaxAttempts \in Nat
      BY <2>2, <2>7, AttemptsAssumption
    <3> QED
      BY <2>6, <3>1, <3>3, <3>4
  <2>9. webhookQ[m].state \in {"ready", "held", "acked", "dead"}
    BY <2>7 DEF DispatchInv, DeadWasExhausted, TypeOK, Message, MessageStates
  <2>10. CASE webhookQ[m].state = "acked"
    <3>1. Followed(m)
      BY <2>7, <2>10 DEF DispatchInv, FollowedFirst
    <3> QED
      BY <2>7, <2>8, <3>1 DEF Followed
  <2>11. CASE webhookQ[m].state = "dead"
    BY <2>7, <2>11 DEF DispatchInv, DeadWasExhausted, Exhausted
  <2>12. CASE webhookQ[m].state \in {"ready", "held"}
    BY <2>7, <2>12 DEF InFlight
  <2> QED
    BY <2>9, <2>10, <2>11, <2>12
<1> QED
  BY <1>1, DispatchInvariant, PTL

-----------------------------------------------------------------------------
(* Deliveries and their retries *)

LEMMA RetriesDiffer ==
    ASSUME NEW m \in Messages, NEW c \in 0..DeliveryLimit
    PROVE  /\ \A x \in Messages, d \in 0..DeliveryLimit :
                 RetryOf(m, c) = RetryOf(x, d) => m = x /\ c = d
           /\ \A n \in Notices : RetryOf(m, c) # Root(n)
<1>1. m[2] \in Seq(0..DeliveryLimit) /\ m = <<m[1], m[2]>>
  BY AttemptsAreBounded DEF Messages
<1>2. ASSUME NEW x \in Messages, NEW d \in 0..DeliveryLimit, RetryOf(m, c) = RetryOf(x, d)
      PROVE  m = x /\ c = d
  <2>1. x[2] \in Seq(0..DeliveryLimit) /\ x = <<x[1], x[2]>>
    BY AttemptsAreBounded DEF Messages
  <2>2. m[1] = x[1] /\ Append(m[2], c) = Append(x[2], d)
    BY <1>2 DEF RetryOf
  <2>3. m[2] = x[2] /\ c = d
    BY <1>1, <2>1, <2>2, AppendInjective
  <2> QED
    BY <1>1, <2>1, <2>2, <2>3
<1>3. \A n \in Notices : RetryOf(m, c) # Root(n)
  BY <1>1, AppendProperties DEF RetryOf, Root
<1> QED
  BY <1>2, <1>3

(* A worker either keeps its delivery or gives it up, and it comes to its  *)
(* retry only once.                                                        *)
KeepsDelivery(w) ==
    /\ \A v \in Dispatchers \ {w} : dispatcher'[v] = dispatcher[v]
    /\ \/ dispatcher'[w].pc \in {"idle", "down"}
       \/ /\ Busy(w)
          /\ dispatcher'[w].msg = dispatcher[w].msg
          /\ dispatcher'[w].count = dispatcher[w].count
          /\ dispatcher'[w].pc \in Working \ {"bury"} => dispatcher[w].pc \in Working \ {"bury"}

LEMMA DeliveryKept ==
    ASSUME TypeOK, NEW w \in Dispatchers,
           DispatcherMove(w) \/ EndDispatcher(w) \/ DropDispatcherChannel(w) \/ RestartDispatcher(w)
    PROVE  KeepsDelivery(w)
<1>0. dispatcher \in [Dispatchers -> DispatcherState]
  BY DispatcherStates
<1> USE DEF KeepsDelivery, Busy, At, Working
<1>1. ASSUME NEW pc, Proceed(w, pc)
      PROVE  /\ \A v \in Dispatchers \ {w} : dispatcher'[v] = dispatcher[v]
             /\ dispatcher'[w].msg = dispatcher[w].msg /\ dispatcher'[w].pc = pc
             /\ dispatcher'[w].count = dispatcher[w].count
  BY <1>0, <1>1 DEF Proceed, DispatcherState
<1>2. CASE \/ RefuseLookUp(w) \/ CacheHook(w) \/ ExpireHook(w) \/ PostAccepted(w) \/ PostRefused(w)
           \/ PostUnsettled(w) \/ PostBroken(w) \/ PublishRetry(w) \/ PublishDeadLetter(w)
  BY <1>1, <1>2
  DEF RefuseLookUp, CacheHook, ExpireHook, PostAccepted, PostRefused, PostUnsettled, PostBroken,
      PublishRetry, PublishDeadLetter
<1>3. CASE FetchHook(w) \/ LookUpHook(w)
  <2>1. \E pc, h : dispatcher' = [dispatcher EXCEPT ![w].pc = pc, ![w].hook = h]
    BY <1>3 DEF FetchHook, LookUpHook
  <2>2. /\ \A v \in Dispatchers \ {w} : dispatcher'[v] = dispatcher[v]
        /\ dispatcher'[w].msg = dispatcher[w].msg
        /\ dispatcher'[w].count = dispatcher[w].count
    BY <1>0, <2>1 DEF DispatcherState
  <2> QED
    BY <1>3, <2>2 DEF FetchHook, LookUpHook
<1>4. CASE AckNotice(w) \/ FailDispatch(w) \/ EndDispatcher(w) \/ RestartDispatcher(w)
  <2>1. \E s \in {Idle, Down} : dispatcher' = [dispatcher EXCEPT ![w] = s]
    BY <1>4 DEF AckNotice, FailDispatch, EndDispatcher, RestartDispatcher
  <2> QED
    BY <1>0, <2>1, DispatcherStates
<1>5. CASE DropDispatcherChannel(w)
  BY <1>5 DEF DropDispatcherChannel, Holds
<1> QED
  BY <1>2, <1>3, <1>4, <1>5 DEF DispatcherMove

(* Who changes the queue, and how *)
LEMMA DeliverySteps ==
    ASSUME TypeOK, WorkInHand, [Next]_vars
    PROVE  \/ UNCHANGED <<webhookQ, dispatcher>>
           \/ \E n \in Notices : PublishNotice(n)
           \/ \E w \in Dispatchers, m \in Messages : ReceiveNotice(w, m)
           \/ \E w \in Dispatchers : PublishRetry(w) /\ KeepsDelivery(w)
           \/ \E w \in Dispatchers :
                 /\ KeepsDelivery(w)
                 /\ \/ webhookQ' = webhookQ
                    \/ /\ Holds(w) /\ At(w, "ack") /\ dispatcher'[w].pc = "idle"
                       /\ webhookQ' = Ack(webhookQ, dispatcher[w].msg)
                    \/ Holds(w) /\ webhookQ' = Return(webhookQ, dispatcher[w].msg)
<1>1. ASSUME NEW w \in Dispatchers, AckNotice(w)
      PROVE  \/ webhookQ' = webhookQ
             \/ /\ Holds(w) /\ At(w, "ack") /\ dispatcher'[w].pc = "idle"
                /\ webhookQ' = Ack(webhookQ, dispatcher[w].msg)
  BY <1>1, DispatcherStates DEF AckNotice
<1>2. ASSUME NEW w \in Dispatchers, EndDispatcher(w) \/ FailDispatch(w) \/ DropDispatcherChannel(w)
      PROVE  \/ webhookQ' = webhookQ
             \/ Holds(w) /\ webhookQ' = Return(webhookQ, dispatcher[w].msg)
  BY <1>2 DEF EndDispatcher, FailDispatch, DropDispatcherChannel, ReturnNotice
<1>3. ASSUME NEW w \in Dispatchers,
             \/ FetchHook(w) \/ LookUpHook(w) \/ RefuseLookUp(w) \/ CacheHook(w) \/ ExpireHook(w)
             \/ PostAccepted(w) \/ PostRefused(w) \/ PostUnsettled(w) \/ PostBroken(w)
             \/ PublishDeadLetter(w) \/ RestartDispatcher(w)
      PROVE  webhookQ' = webhookQ
  BY <1>3
  DEF FetchHook, LookUpHook, RefuseLookUp, CacheHook, ExpireHook, PostAccepted, PostRefused,
      PostUnsettled, PostBroken, PublishDeadLetter, RestartDispatcher
<1>4. ASSUME NEW d \in Developers, ConfigStep(d) PROVE UNCHANGED <<webhookQ, dispatcher>>
  BY <1>4 DEF ConfigStep
<1>5. UNCHANGED vars => UNCHANGED <<webhookQ, dispatcher>>
  BY DEF vars
<1> QED
  BY <1>1, <1>2, <1>3, <1>4, <1>5, DeliveryKept DEF Next, DispatcherMove

(* The message of a busy worker, and its retry *)
LEMMA BusyWorkers ==
    ASSUME TypeOK, WorkInHand, NEW w \in Dispatchers, Busy(w)
    PROVE  /\ dispatcher[w].msg \in Messages /\ dispatcher[w].count \in 0..DeliveryLimit
           /\ dispatcher[w].count \in Nat
           /\ webhookQ[dispatcher[w].msg] \in Message
           /\ ShouldRetry(dispatcher[w].msg) =>
                 RetryOf(dispatcher[w].msg, dispatcher[w].count) \in Messages
           /\ At(w, "retry") => ShouldRetry(dispatcher[w].msg)
<1>1. dispatcher[w].msg \in Messages /\ (At(w, "retry") => ShouldRetry(dispatcher[w].msg))
  BY DEF WorkInHand
<1>2. dispatcher[w].count \in 0..DeliveryLimit
  BY DispatcherStates DEF DispatcherState
<1> QED
  BY <1>1, <1>2, DispatcherStates, RetriesAreMessages

(* No step takes a message back. *)
LEMMA NoticesMoveOn ==
    ASSUME TypeOK, WorkInHand, UntilRetried, [Next]_vars
    PROVE  MovesOn(webhookQ, webhookQ')
<1>0. webhookQ \in [Messages -> Message]
  BY DispatcherStates
<1>1. ASSUME NEW n \in Notices, PublishNotice(n) PROVE MovesOn(webhookQ, webhookQ')
  BY <1>0, <1>1, RootIsMessage, QueueMovesOn DEF PublishNotice
<1>2. ASSUME NEW w \in Dispatchers, NEW m \in Messages, ReceiveNotice(w, m)
      PROVE  MovesOn(webhookQ, webhookQ')
  BY <1>0, <1>2, QueueMovesOn DEF ReceiveNotice, IsReady
<1>3. ASSUME NEW w \in Dispatchers, PublishRetry(w) PROVE MovesOn(webhookQ, webhookQ')
  <2>1. Busy(w) /\ At(w, "retry") /\ dispatcher[w].pc \in Working \ {"bury"}
    BY <1>3 DEF PublishRetry, Busy, At, Working
  <2>2. ShouldRetry(dispatcher[w].msg) /\ RetryOf(dispatcher[w].msg, dispatcher[w].count) \in Messages
    BY <2>1, BusyWorkers
  <2>3. webhookQ[RetryOf(dispatcher[w].msg, dispatcher[w].count)].state = "none"
    BY <2>1, <2>2 DEF UntilRetried
  <2> QED
    BY <1>0, <1>3, <2>2, <2>3, QueueMovesOn DEF PublishRetry
<1>4. ASSUME NEW w \in Dispatchers, Holds(w),
             \/ webhookQ' = Ack(webhookQ, dispatcher[w].msg)
             \/ webhookQ' = Return(webhookQ, dispatcher[w].msg)
      PROVE  MovesOn(webhookQ, webhookQ')
  <2>1. dispatcher[w].msg \in Messages /\ webhookQ[dispatcher[w].msg].state = "held"
    BY <1>4, BusyWorkers DEF Holds, HeldAt
  <2> QED
    BY <1>0, <1>4, <2>1, QueueMovesOn
<1>5. webhookQ' = webhookQ => MovesOn(webhookQ, webhookQ')
  BY DEF MovesOn
<1> QED
  BY <1>1, <1>2, <1>3, <1>4, <1>5, DeliverySteps

(* Only retries are published to a message that is no first one. *)
LEMMA NewMessages ==
    ASSUME TypeOK, WorkInHand, [Next]_vars,
           NEW x \in Messages, webhookQ[x].state = "none", webhookQ'[x].state # "none"
    PROVE  \/ \E n \in Notices : x = Root(n)
           \/ \E w \in Dispatchers :
                 /\ PublishRetry(w) /\ Busy(w) /\ ShouldRetry(dispatcher[w].msg)
                 /\ dispatcher'[w].pc = "ack"
                 /\ x = RetryOf(dispatcher[w].msg, dispatcher[w].count)
<1>0. webhookQ \in [Messages -> Message] /\ dispatcher \in [Dispatchers -> DispatcherState]
  BY DispatcherStates
<1>1. ASSUME NEW n \in Notices, PublishNotice(n) PROVE x = Root(n)
  BY <1>0, <1>1, RootIsMessage DEF PublishNotice, Publish
<1>2. ASSUME NEW w \in Dispatchers, PublishRetry(w)
      PROVE  /\ Busy(w) /\ ShouldRetry(dispatcher[w].msg) /\ dispatcher'[w].pc = "ack"
             /\ x = RetryOf(dispatcher[w].msg, dispatcher[w].count)
  <2>1. Busy(w) /\ At(w, "retry")
    BY <1>2 DEF PublishRetry, Busy, At
  <2>2. /\ ShouldRetry(dispatcher[w].msg)
        /\ RetryOf(dispatcher[w].msg, dispatcher[w].count) \in Messages
    BY <2>1, BusyWorkers
  <2>3. dispatcher'[w].pc = "ack"
    BY <1>0, <1>2 DEF PublishRetry, Proceed, DispatcherState
  <2> QED
    BY <1>0, <1>2, <2>1, <2>2, <2>3 DEF PublishRetry, Publish
<1>3. ASSUME NEW w \in Dispatchers, NEW m \in Messages, ReceiveNotice(w, m) PROVE FALSE
  BY <1>0, <1>3, QueueMoves DEF ReceiveNotice, IsReady
<1>4. ASSUME NEW w \in Dispatchers, Holds(w),
             \/ webhookQ' = Ack(webhookQ, dispatcher[w].msg)
             \/ webhookQ' = Return(webhookQ, dispatcher[w].msg)
      PROVE  FALSE
  <2>1. dispatcher[w].msg \in Messages /\ webhookQ[dispatcher[w].msg].state = "held"
    BY <1>4, BusyWorkers DEF Holds, HeldAt
  <2> QED
    BY <1>0, <1>4, <2>1, QueueMoves
<1> QED
  BY <1>1, <1>2, <1>3, <1>4, DeliverySteps

(* A busy worker has just received its message, or had it before. *)
LEMMA BusyBefore ==
    ASSUME TypeOK, WorkInHand, [Next]_vars,
           NEW w \in Dispatchers, dispatcher'[w].pc \notin {"idle", "down"}
    PROVE  \/ \E m \in Messages :
                 /\ ReceiveNotice(w, m) /\ webhookQ[m].state = "ready"
                 /\ dispatcher'[w].msg = m /\ dispatcher'[w].count = webhookQ[m].count
                 /\ \A v \in Dispatchers \ {w} : dispatcher'[v] = dispatcher[v]
           \/ /\ Busy(w)
              /\ dispatcher'[w].msg = dispatcher[w].msg
              /\ dispatcher'[w].count = dispatcher[w].count
              /\ dispatcher'[w].pc \in Working \ {"bury"} => dispatcher[w].pc \in Working \ {"bury"}
<1>0. dispatcher \in [Dispatchers -> DispatcherState]
  BY DispatcherStates
<1>1. ASSUME NEW v \in Dispatchers, NEW m \in Messages, ReceiveNotice(v, m)
      PROVE  /\ webhookQ[m].state = "ready"
             /\ dispatcher'[v].msg = m /\ dispatcher'[v].count = webhookQ[m].count
             /\ \A u \in Dispatchers \ {v} : dispatcher'[u] = dispatcher[u]
  BY <1>0, <1>1 DEF ReceiveNotice, IsReady
<1>2. ASSUME dispatcher'[w] = dispatcher[w]
      PROVE  /\ Busy(w)
             /\ dispatcher'[w].msg = dispatcher[w].msg
             /\ dispatcher'[w].count = dispatcher[w].count
             /\ dispatcher'[w].pc \in Working \ {"bury"} => dispatcher[w].pc \in Working \ {"bury"}
  BY <1>2 DEF Busy
<1>3. (\E n \in Notices : PublishNotice(n)) => dispatcher' = dispatcher
  BY DEF PublishNotice
<1> QED
  BY <1>1, <1>2, <1>3, DeliverySteps DEF KeepsDelivery

LEMMA RetryKept ==
    ASSUME TypeOK, WorkInHand, RetryInv, [Next]_vars
    PROVE  RetryInv'
<1>0. /\ webhookQ \in [Messages -> Message] /\ webhookQ' \in [Messages -> Message]
      /\ MovesOn(webhookQ, webhookQ')
  BY DispatcherStates, QueueSteps, QueueTypeKept, NoticesMoveOn DEF RetryInv
<1>1. \A m \in Messages : /\ Rank(webhookQ[m]) \in Nat /\ Rank(webhookQ'[m]) \in Nat
                          /\ Rank(webhookQ[m]) <= Rank(webhookQ'[m])
  BY <1>0, MovedOn
<1>2. ASSUME NEW w \in Dispatchers, Busy(w), NEW m, m = dispatcher[w].msg,
             webhookQ[m].state = "ready"
      PROVE  dispatcher[w].count < webhookQ[m].count
  <2>1. /\ m \in Messages /\ webhookQ[m] \in Message
        /\ dispatcher[w].count \in Nat /\ webhookQ[m].count \in Nat
    BY <1>2, BusyWorkers, Ranks
  <2>2. Rank(webhookQ[m]) = 2 * webhookQ[m].count + 1
    BY <1>2, <2>1, Ranks
  <2>4. ~ Holds(w)
    BY <1>2 DEF Holds, HeldAt
  <2>3. InDelivery(dispatcher[w].count) < Rank(webhookQ[m])
    BY <1>2, <2>4 DEF RetryInv, HeldOrPast
  <2> QED
    BY <2>1, <2>2, <2>3 DEF InDelivery
<1>3. DeliveriesDiffer'
  <2> SUFFICES ASSUME NEW w \in Dispatchers, NEW v \in Dispatchers, w # v,
                      dispatcher'[w].pc \notin {"idle", "down"},
                      dispatcher'[v].pc \notin {"idle", "down"},
                      dispatcher'[w].msg = dispatcher'[v].msg,
                      dispatcher'[w].count = dispatcher'[v].count
               PROVE  FALSE
    BY DEF DeliveriesDiffer, Busy
  <2>1. ASSUME NEW x \in Dispatchers, NEW y \in Dispatchers, x # y, NEW m \in Messages,
               webhookQ[m].state = "ready", dispatcher'[x].msg = m,
               dispatcher'[x].count = webhookQ[m].count, dispatcher'[y] = dispatcher[y],
               dispatcher'[y].pc \notin {"idle", "down"}, dispatcher'[y].msg = m
        PROVE  dispatcher'[x].count # dispatcher'[y].count
    <3>1. dispatcher[y].count < webhookQ[m].count
      BY <1>2, <2>1 DEF Busy
    <3>2. dispatcher[y].count \in Nat /\ webhookQ[m].count \in Nat
      BY <1>0, <2>1, BusyWorkers, Ranks DEF Busy
    <3> QED
      BY <2>1, <3>1, <3>2
  <2>2. ASSUME NEW x \in Dispatchers, NEW y \in Dispatchers, {x, y} = {w, v}, x # y,
               NEW m \in Messages, webhookQ[m].state = "ready", dispatcher'[x].msg = m,
               dispatcher'[x].count = webhookQ[m].count,
               \A u \in Dispatchers \ {x} : dispatcher'[u] = dispatcher[u]
        PROVE  FALSE
    BY <2>1, <2>2
  <2>3. CASE /\ Busy(w) /\ Busy(v)
             /\ dispatcher'[w].msg = dispatcher[w].msg /\ dispatcher'[w].count = dispatcher[w].count
             /\ dispatcher'[v].msg = dispatcher[v].msg /\ dispatcher'[v].count = dispatcher[v].count
    BY <2>3 DEF RetryInv, DeliveriesDiffer
  <2> QED
    BY <2>2, <2>3, BusyBefore
<1>4. HeldOrPast'
  <2> SUFFICES ASSUME NEW w \in Dispatchers, dispatcher'[w].pc \notin {"idle", "down"}
               PROVE  \/ HeldAt(webhookQ', dispatcher'[w].msg, dispatcher'[w].count)
                      \/ InDelivery(dispatcher'[w].count) < Rank(webhookQ'[dispatcher'[w].msg])
    BY DEF HeldOrPast, Holds, HeldAt, Busy
  <2>1. ASSUME NEW m \in Messages, ReceiveNotice(w, m), dispatcher'[w].msg = m,
               dispatcher'[w].count = webhookQ[m].count
        PROVE  HeldAt(webhookQ', dispatcher'[w].msg, dispatcher'[w].count)
    BY <1>0, <2>1 DEF ReceiveNotice, Deliver, HeldAt
  <2>2. ASSUME Busy(w), NEW m, m = dispatcher[w].msg, NEW c, c = dispatcher[w].count
        PROVE  HeldAt(webhookQ', m, c) \/ InDelivery(c) < Rank(webhookQ'[m])
    <3>1. m \in Messages /\ c \in Nat /\ webhookQ[m] \in Message
      BY <2>2, BusyWorkers
    <3>2. CASE HeldAt(webhookQ, m, c)
      <4>1. Rank(webhookQ[m]) = InDelivery(c)
        BY <3>2 DEF HeldAt, Rank
      <4> QED
        BY <1>0, <3>1, <3>2, <4>1 DEF MovesOn, HeldAt
    <3>3. CASE InDelivery(c) < Rank(webhookQ[m])
      BY <1>1, <3>1, <3>3 DEF InDelivery
    <3> QED
      BY <2>2, <3>2, <3>3 DEF RetryInv, HeldOrPast, Holds
  <2> QED
    BY <2>1, <2>2, BusyBefore
<1>5. ASSUME NEW w \in Dispatchers, Busy(w), NEW m, m = dispatcher[w].msg
      PROVE  InDelivery(dispatcher[w].count) <= Rank(webhookQ[m])
  <2>1. m \in Messages /\ dispatcher[w].count \in Nat
    BY <1>5, BusyWorkers
  <2>2. CASE HeldAt(webhookQ, m, dispatcher[w].count)
    BY <2>1, <2>2 DEF HeldAt, Rank, InDelivery
  <2> QED
    BY <1>1, <1>5, <2>1, <2>2 DEF RetryInv, HeldOrPast, Holds, InDelivery
<1>6. ASSUME NEW m \in Messages, NEW c \in 0..DeliveryLimit, ShouldRetry(m),
             webhookQ[RetryOf(m, c)].state = "none", webhookQ'[RetryOf(m, c)].state # "none"
      PROVE  \E w \in Dispatchers : /\ Busy(w) /\ dispatcher'[w].pc = "ack"
                                    /\ m = dispatcher[w].msg /\ c = dispatcher[w].count
  <2>1. RetryOf(m, c) \in Messages /\ \A n \in Notices : RetryOf(m, c) # Root(n)
    BY <1>6, RetriesAreMessages, RetriesDiffer
  <2>2. PICK w \in Dispatchers : /\ Busy(w) /\ dispatcher'[w].pc = "ack"
                                 /\ RetryOf(m, c) = RetryOf(dispatcher[w].msg, dispatcher[w].count)
    BY <1>6, <2>1, NewMessages
  <2>3. dispatcher[w].msg \in Messages /\ dispatcher[w].count \in 0..DeliveryLimit
    BY <2>2, BusyWorkers
  <2> QED
    BY <2>2, <2>3, RetriesDiffer
<1>7. RetriesFollow'
  <2> SUFFICES ASSUME NEW m \in Messages, NEW c \in 0..DeliveryLimit, ShouldRetry(m),
                      webhookQ'[RetryOf(m, c)].state # "none"
               PROVE  InDelivery(c) <= Rank(webhookQ'[m])
    BY DEF RetriesFollow
  <2>1. InDelivery(c) <= Rank(webhookQ[m])
    <3>1. CASE webhookQ[RetryOf(m, c)].state = "none"
      BY <1>5, <1>6, <3>1
    <3>2. CASE webhookQ[RetryOf(m, c)].state # "none"
      BY <3>2 DEF RetryInv, RetriesFollow
    <3> QED
      BY <3>1, <3>2
  <2> QED
    BY <1>1, <2>1 DEF InDelivery
<1>8. UntilRetried'
  <2> SUFFICES ASSUME NEW w \in Dispatchers, dispatcher'[w].pc \in Working \ {"bury"},
                      NEW m, m = dispatcher'[w].msg, NEW c, c = dispatcher'[w].count,
                      ShouldRetry(m), webhookQ'[RetryOf(m, c)].state # "none"
               PROVE  FALSE
    BY DEF UntilRetried
  <2>0. dispatcher'[w].pc \notin {"idle", "down", "ack"}
    BY DEF Working
  <2>1. ASSUME ReceiveNotice(w, m), m \in Messages, webhookQ[m].state = "ready",
               c = webhookQ[m].count
        PROVE  FALSE
    <3>1. c \in 0..DeliveryLimit /\ c \in Nat /\ Rank(webhookQ[m]) = 2 * c + 1
      BY <1>0, <2>1, Ranks
    <3>2. webhookQ[RetryOf(m, c)].state = "none"
      BY <2>1, <3>1 DEF RetryInv, RetriesFollow, InDelivery
    <3>3. InDelivery(c) <= Rank(webhookQ[m])
      BY <1>5, <1>6, <2>1, <3>1, <3>2
    <3> QED
      BY <3>1, <3>3 DEF InDelivery
  <2>2. ASSUME Busy(w), m = dispatcher[w].msg, c = dispatcher[w].count,
               dispatcher[w].pc \in Working \ {"bury"}
        PROVE  FALSE
    <3>1. m \in Messages /\ c \in 0..DeliveryLimit
      BY <2>2, BusyWorkers
    <3>2. webhookQ[RetryOf(m, c)].state = "none"
      BY <2>2 DEF RetryInv, UntilRetried
    <3>3. PICK v \in Dispatchers : /\ Busy(v) /\ dispatcher'[v].pc = "ack"
                                   /\ m = dispatcher[v].msg /\ c = dispatcher[v].count
      BY <1>6, <3>1, <3>2
    <3> QED
      BY <2>0, <2>2, <3>3 DEF RetryInv, DeliveriesDiffer
  <2> QED
    BY <2>0, <2>1, <2>2, BusyBefore
<1> QED
  BY <1>3, <1>4, <1>7, <1>8 DEF RetryInv

LEMMA RetryStart ==
    Init => RetryInv
<1> SUFFICES ASSUME Init PROVE RetryInv
  OBVIOUS
<1>1. /\ \A w \in Dispatchers : dispatcher[w].pc = "idle"
      /\ \A m \in Messages : webhookQ[m].state = "none"
  BY DispatcherStates DEF Init, NoMessage
<1>2. \A m \in Messages, c \in 0..DeliveryLimit :
         ShouldRetry(m) => webhookQ[RetryOf(m, c)].state = "none"
  BY <1>1, RetriesAreMessages
<1>3. "idle" \notin Working
  BY DEF Working
<1> QED
  BY <1>1, <1>2, <1>3
  DEF RetryInv, DeliveriesDiffer, HeldOrPast, RetriesFollow, UntilRetried, Busy

THEOREM RetryInvariant ==
    Spec => []RetryInv
<1>1. DispatchInv /\ RetryInv /\ [Next]_vars => RetryInv'
  BY RetryKept DEF DispatchInv
<1> QED
  BY <1>1, RetryStart, DispatchInvariant, PTL DEF Spec

(* Redeliveries and retries never take a message back.                     *)
THEOREM RetriesComeToAnEnd == Spec => RetriesEnd
<1>1. DispatchInv /\ RetryInv /\ [Next]_vars => [MovesOn(webhookQ, webhookQ')]_vars
  BY NoticesMoveOn DEF DispatchInv, RetryInv
<1> QED
  BY <1>1, DispatchInvariant, RetryInvariant, PTL DEF Spec, RetriesEnd

-----------------------------------------------------------------------------
(* The contract of a task queue with retries *)

(* What is settled in a step that publishes no retry *)
LEMMA FollowedSame ==
    ASSUME TypeOK, WorkInHand, [Next]_vars,
           \A x \in Messages : webhookQ'[x].state # "none" <=> webhookQ[x].state # "none",
           NEW m \in Messages
    PROVE  Followed(m)' <=> Followed(m) \/ m \in accepted' \cup buried'
<1>1. ShouldRetry(m) =>
        \A c \in 0..DeliveryLimit :
           webhookQ'[RetryOf(m, c)].state # "none" <=> webhookQ[RetryOf(m, c)].state # "none"
  BY RetriesAreMessages
<1> QED
  BY <1>1, OutcomesGrow DEF Followed

LEMMA StepKeepsContract ==
    ASSUME DispatchInv, RetryInv, [Next]_vars
    PROVE  [WebhookContract!RetryNext]_<<Standing(webhookQ), {m \in Messages : Followed(m)}>>
<1> DEFINE stand == Standing(webhookQ)
           settled == {m \in Messages : Followed(m)}
           Goal == [WebhookContract!RetryNext]_<<stand, settled>>
<1>0. /\ TypeOK /\ WorkInHand /\ FollowedFirst /\ UntilRetried
      /\ webhookQ \in [Messages -> Message]
      /\ stand \in [Messages -> {"none", "open", "done", "lost"}]
  BY DispatcherStates, StandingTypes DEF DispatchInv, RetryInv
<1>11. stand' = Standing(webhookQ')
  BY DEF Standing, Fate
<1>12. ASSUME NEW y \in Messages
       PROVE  /\ Standing(Publish(webhookQ, y)) = [stand EXCEPT ![y] = "open"]
              /\ webhookQ[y].state = "held" =>
                    Standing(Ack(webhookQ, y)) = [stand EXCEPT ![y] = "done"]
  <2>1. webhookQ \in [Messages -> Message]
    BY <1>0
  <2>2. Standing(Publish(webhookQ, y)) = [Standing(webhookQ) EXCEPT ![y] = "open"]
    BY <2>1, StandingOfPublished
  <2>3. webhookQ[y].state = "held" =>
           Standing(Ack(webhookQ, y)) = [Standing(webhookQ) EXCEPT ![y] = "done"]
    BY <2>1, StandingMoves
  <2> QED
    BY <2>2, <2>3
<1>1. ASSUME accepted' = accepted, buried' = buried,
             \A x \in Messages : webhookQ'[x].state # "none" <=> webhookQ[x].state # "none"
      PROVE  settled' = settled
  BY <1>0, <1>1, FollowedSame DEF Followed
<1>2. ASSUME NEW w \in Dispatchers, Busy(w), NEW m, m = dispatcher[w].msg
      PROVE  m \in Messages /\ webhookQ[m].state # "none" /\ stand[m] # "none"
  <2>1. m \in Messages /\ webhookQ[m] \in Message /\ dispatcher[w].count \in Nat
    BY <1>0, <1>2, BusyWorkers
  <2>2. webhookQ[m].state # "none"
    <3>1. CASE HeldAt(webhookQ, m, dispatcher[w].count)
      BY <3>1 DEF HeldAt
    <3>2. CASE InDelivery(dispatcher[w].count) < Rank(webhookQ[m])
      BY <2>1, <3>2, Ranks DEF InDelivery
    <3> QED
      BY <1>2, <3>1, <3>2 DEF RetryInv, HeldOrPast, Holds
  <2> QED
    BY <1>0, <2>1, <2>2, StandingTypes DEF MessageStates
<1>3. ASSUME NEW n \in Notices, PublishNotice(n) PROVE Goal
  <2>1. Root(n) \in Messages /\ stand[Root(n)] = "none"
    BY <1>0, <1>3, RootIsMessage, StandingTypes DEF PublishNotice
  <2>2. stand' = [stand EXCEPT ![Root(n)] = "open"]
    <3>1. webhookQ' = Publish(webhookQ, Root(n))
      BY <1>3 DEF PublishNotice
    <3>2. Standing(Publish(webhookQ, Root(n))) = [stand EXCEPT ![Root(n)] = "open"]
      BY <1>12, <2>1
    <3> QED
      BY <1>11, <3>1, <3>2
  <2>3. settled' = settled
    <3>1. ASSUME NEW m \in Messages, ShouldRetry(m), NEW c \in 0..DeliveryLimit
          PROVE  webhookQ'[RetryOf(m, c)] = webhookQ[RetryOf(m, c)]
      BY <1>0, <1>3, <3>1, RetriesDiffer, RetriesAreMessages DEF PublishNotice, Publish
    <3> QED
      BY <1>3, <3>1 DEF PublishNotice, Followed
  <2> QED
    BY <2>1, <2>2, <2>3 DEF WebhookContract!RetryNext, WebhookContract!Submit
<1>4. ASSUME NEW w \in Dispatchers, PublishRetry(w) PROVE Goal
  <2> DEFINE m == dispatcher[w].msg
             x == RetryOf(m, dispatcher[w].count)
  <2>1. Busy(w) /\ At(w, "retry") /\ dispatcher[w].pc \in Working \ {"bury"}
    BY <1>4 DEF PublishRetry, Busy, At, Working
  <2>2. /\ m \in Messages /\ dispatcher[w].count \in 0..DeliveryLimit
        /\ ShouldRetry(m) /\ x \in Messages /\ stand[m] # "none"
    BY <1>0, <1>2, <2>1, BusyWorkers
  <2>3. webhookQ[x].state = "none" /\ stand[x] = "none"
    BY <1>0, <2>1, <2>2, StandingTypes DEF UntilRetried
  <2>4. stand' = [stand EXCEPT ![x] = "open"]
    <3>1. webhookQ' = Publish(webhookQ, x)
      BY <1>4 DEF PublishRetry
    <3>2. Standing(Publish(webhookQ, x)) = [stand EXCEPT ![x] = "open"]
      BY <1>12, <2>2
    <3> QED
      BY <1>11, <3>1, <3>2
  <2>5. ASSUME NEW y \in Messages PROVE Followed(y)' <=> Followed(y) \/ y = m
    <3>1. webhookQ'[x].state = "ready" /\ \A z \in Messages \ {x} : webhookQ'[z] = webhookQ[z]
      BY <1>0, <1>4, <2>2 DEF PublishRetry, Publish
    <3>2. y # m /\ ShouldRetry(y) =>
             \A c \in 0..DeliveryLimit : RetryOf(y, c) \in Messages \ {x}
      BY <2>2, RetriesAreMessages, RetriesDiffer
    <3>3. accepted' = accepted /\ buried' = buried
      BY <1>4 DEF PublishRetry
    <3>4. CASE y # m
      BY <3>1, <3>2, <3>3, <3>4 DEF Followed
    <3>5. CASE y = m
      BY <2>2, <3>1, <3>5 DEF Followed
    <3> QED
      BY <3>4, <3>5
  <2>6. settled' = settled \cup {m}
    BY <2>2, <2>5
  <2> QED
    BY <2>2, <2>3, <2>4, <2>6 DEF WebhookContract!RetryNext, WebhookContract!HandOn
<1>5. ASSUME NEW w \in Dispatchers, NEW m \in Messages, ReceiveNotice(w, m) PROVE Goal
  <2>1. stand' = stand
    BY <1>0, <1>5, StandingMoves DEF ReceiveNotice, IsReady
  <2>2. settled' = settled
    BY <1>0, <1>1, <1>5, QueueMoves DEF ReceiveNotice, IsReady
  <2> QED
    BY <2>1, <2>2
<1>6. ASSUME NEW w \in Dispatchers, PostAccepted(w) \/ PublishDeadLetter(w) PROVE Goal
  <2> DEFINE m == dispatcher[w].msg
  <2>1. Busy(w) /\ webhookQ' = webhookQ /\ accepted' \cup buried' = accepted \cup buried \cup {m}
    BY <1>6 DEF PostAccepted, PublishDeadLetter, Busy, At
  <2>2. m \in Messages /\ stand[m] # "none"
    BY <1>2, <2>1
  <2>3. \A y \in Messages : Followed(y)' <=> Followed(y) \/ y = m
    BY <1>0, <2>1, FollowedSame DEF Followed
  <2>4. settled' = settled \cup {m} /\ stand' = stand
    BY <1>0, <2>1, <2>2, <2>3
  <2> QED
    BY <2>2, <2>4 DEF WebhookContract!RetryNext, WebhookContract!Perform
<1>7. ASSUME NEW w \in Dispatchers, AckNotice(w), Holds(w) PROVE Goal
  <2> DEFINE m == dispatcher[w].msg
  <2>1. /\ Busy(w) /\ webhookQ[m].state = "held" /\ webhookQ' = Ack(webhookQ, m)
        /\ accepted' = accepted /\ buried' = buried
    BY <1>7 DEF AckNotice, Holds, HeldAt
  <2>2. m \in Messages /\ m \in settled
    BY <1>0, <1>2, <1>7, <2>1 DEF AckNotice, FollowedFirst
  <2>3. stand[m] = "open"
    BY <1>0, <2>1, <2>2, StandingTypes
  <2>5. stand' = [stand EXCEPT ![m] = "done"]
    <3>1. Standing(Ack(webhookQ, m)) = [stand EXCEPT ![m] = "done"]
      BY <1>12, <2>1, <2>2
    <3> QED
      BY <1>11, <2>1, <3>1
  <2>4. settled' = settled
    BY <1>0, <1>1, <2>1, <2>2, QueueMoves
  <2> QED
    BY <2>2, <2>3, <2>4, <2>5 DEF WebhookContract!RetryNext, WebhookContract!Finish
<1>8. ASSUME NEW w \in Dispatchers, Holds(w), webhookQ' = Return(webhookQ, dispatcher[w].msg),
             accepted' = accepted, buried' = buried
      PROVE  Goal
  <2> DEFINE m == dispatcher[w].msg
  <2>1. m \in Messages /\ webhookQ[m].state = "held"
    BY <1>2, <1>8 DEF Holds, HeldAt
  <2>2. stand[m] = "open" /\ stand' \in {stand, [stand EXCEPT ![m] = "lost"]}
    BY <1>0, <1>8, <2>1, StandingMoves, StandingTypes
  <2>3. settled' = settled
    BY <1>0, <1>1, <1>8, <2>1, QueueMoves
  <2>4. [stand EXCEPT ![m] = "lost"] = [t \in Messages |-> IF t \in {m} THEN "lost" ELSE stand[t]]
    BY <1>0
  <2> QED
    BY <2>1, <2>2, <2>3, <2>4 DEF WebhookContract!RetryNext, WebhookContract!GiveUp
<1>9. ASSUME UNCHANGED <<webhookQ, accepted, buried>> PROVE Goal
  BY <1>1, <1>9, <1>11
<1>10. ASSUME NEW w \in Dispatchers,
              EndDispatcher(w) \/ FailDispatch(w) \/ DropDispatcherChannel(w) \/ AckNotice(w)
       PROVE  Goal
  BY <1>7, <1>8, <1>9, <1>10
  DEF EndDispatcher, FailDispatch, DropDispatcherChannel, ReturnNotice, AckNotice
<1> QED
  <2>1. ASSUME NEW w \in Dispatchers,
               \/ FetchHook(w) \/ LookUpHook(w) \/ RefuseLookUp(w) \/ CacheHook(w)
               \/ ExpireHook(w) \/ PostRefused(w) \/ PostUnsettled(w) \/ PostBroken(w)
               \/ RestartDispatcher(w)
        PROVE  UNCHANGED <<webhookQ, accepted, buried>>
    BY <2>1
    DEF FetchHook, LookUpHook, RefuseLookUp, CacheHook, ExpireHook, PostRefused, PostUnsettled,
        PostBroken, RestartDispatcher
  <2>2. ASSUME (\E d \in Developers : ConfigStep(d)) \/ UNCHANGED vars
        PROVE  UNCHANGED <<webhookQ, accepted, buried>>
    BY <2>2 DEF ConfigStep, vars
  <2> HIDE DEF Goal
  <2>3. Goal
    BY <1>3, <1>4, <1>5, <1>6, <1>9, <1>10, <2>1, <2>2 DEF Next, DispatcherMove
  <2> QED
    BY <2>3 DEF Goal

(* Message by message, the dispatcher implements the contract of a task    *)
(* queue with retries.                                                     *)
THEOREM WebhookPromiseKept == Spec => WebhookPromise
<1>1. Init => WebhookContract!Init
  <2> SUFFICES ASSUME Init
               PROVE  /\ Standing(webhookQ) = [m \in Messages |-> "none"]
                      /\ {m \in Messages : Followed(m)} = {}
    BY DEF WebhookContract!Init
  <2>1. Standing(webhookQ) = [m \in Messages |-> "none"]
    BY DEF Init, Standing, Fate, NoMessage
  <2>2. \A m \in Messages : webhookQ[m].state = "none"
    BY DEF Init, NoMessage
  <2>3. \A m \in Messages : ~ Followed(m)
    BY <2>2, RetriesAreMessages DEF Init, Followed
  <2> QED
    BY <2>1, <2>3
<1>2. DispatchInv /\ RetryInv /\ [Next]_vars =>
        [WebhookContract!RetryNext]_<<Standing(webhookQ), {m \in Messages : Followed(m)}>>
  BY StepKeepsContract
<1> QED
  BY <1>1, <1>2, DispatchInvariant, RetryInvariant, PTL
  DEF Spec, WebhookPromise, WebhookContract!RetryPromise

-----------------------------------------------------------------------------
(* The cached configurations *)

(* What a step does to the cache, and to the workers at the two calls of   *)
(* cache_webhook_config: all that leaves a worker where it cuts them short *)
(* is a failure.                                                           *)
LEMMA CacheSteps ==
    ASSUME TypeOK, WorkInHand, [Next]_vars
    PROVE  \/ \E w \in Dispatchers : CacheHook(w)
           \/ \E w \in Dispatchers : ExpireHook(w)
           \/ \E d \in Developers : ForgetHook(d) /\ UNCHANGED <<dispatcher, cut>>
           \/ /\ UNCHANGED cached
              /\ cut => cut'
              /\ \A w \in Dispatchers : At(w, "expire") => dispatcher'[w] = dispatcher[w] \/ cut'
<1>1. ASSUME NEW w \in Dispatchers,
             \/ \E m \in Messages : ReceiveNotice(w, m)
             \/ FetchHook(w) \/ LookUpHook(w) \/ RefuseLookUp(w) \/ PostAccepted(w)
             \/ PostRefused(w) \/ PostUnsettled(w) \/ PostBroken(w) \/ PublishRetry(w)
             \/ PublishDeadLetter(w) \/ AckNotice(w) \/ RestartDispatcher(w)
      PROVE  /\ UNCHANGED <<cached, cut>>
             /\ \A v \in Dispatchers : At(v, "expire") => dispatcher'[v] = dispatcher[v]
  <2>1. UNCHANGED <<cached, cut>> /\ ~ At(w, "expire")
    BY <1>1
    DEF configVars, At, ReceiveNotice, FetchHook, LookUpHook, RefuseLookUp, PostAccepted,
        PostRefused, PostUnsettled, PostBroken, PublishRetry, PublishDeadLetter, AckNotice,
        RestartDispatcher
  <2>2. \A v \in Dispatchers \ {w} : dispatcher'[v] = dispatcher[v]
    BY <1>1, DispatcherStates
    DEF Proceed, ReceiveNotice, FetchHook, LookUpHook, RefuseLookUp, PostAccepted,
        PostRefused, PostUnsettled, PostBroken, PublishRetry, PublishDeadLetter, AckNotice,
        RestartDispatcher
  <2> QED
    BY <2>1, <2>2
<1>2. ASSUME NEW w \in Dispatchers, EndDispatcher(w) \/ FailDispatch(w)
      PROVE  /\ UNCHANGED cached
             /\ cut => cut'
             /\ \A v \in Dispatchers : At(v, "expire") => dispatcher'[v] = dispatcher[v] \/ cut'
  <2>1. UNCHANGED cached /\ (cut' <=> cut \/ At(w, "expire"))
    BY <1>2, Zenon DEF EndDispatcher, FailDispatch, configVars
  <2>2. \A v \in Dispatchers \ {w} : dispatcher'[v] = dispatcher[v]
    BY <1>2, DispatcherStates DEF EndDispatcher, FailDispatch
  <2> QED
    BY <2>1, <2>2
<1>3. ASSUME NEW d \in Developers, ConfigStep(d)
      PROVE  /\ UNCHANGED <<dispatcher, cut>>
             /\ ForgetHook(d) \/ UNCHANGED cached
  BY <1>3 DEF ConfigStep, SetHook, DeleteHook
<1>4. ASSUME \/ \E n \in Notices : PublishNotice(n)
             \/ \E w \in Dispatchers : DropDispatcherChannel(w)
             \/ UNCHANGED vars
      PROVE  UNCHANGED <<cached, dispatcher, cut>>
  BY <1>4 DEF PublishNotice, DropDispatcherChannel, vars, configVars
<1> QED
  BY <1>1, <1>2, <1>3, <1>4 DEF Next, DispatcherMove

LEMMA CopiesKept ==
    ASSUME TypeOK, WorkInHand, CopiesExpire, [Next]_vars
    PROVE  CopiesExpire'
<1> SUFFICES ASSUME NEW d \in Developers, cached'[d].hook # Missing, ~ cached'[d].expires
             PROVE  cut' \/ \E w \in Dispatchers : /\ dispatcher'[w].pc = "expire"
                                                   /\ Recipient[dispatcher'[w].msg[1]] = d
  BY DEF CopiesExpire, IsCached, At, DeveloperOf
<1> DEFINE Covered ==
             cut' \/ \E w \in Dispatchers : /\ dispatcher'[w].pc = "expire"
                                            /\ Recipient[dispatcher'[w].msg[1]] = d
<1>0. /\ dispatcher \in [Dispatchers -> DispatcherState]
      /\ cached \in [Developers -> [hook : Hooks \cup {Unset, Missing}, expires : BOOLEAN]]
  BY DispatcherStates DEF ConfigTypeOK
<1>1. ASSUME cached'[d] = cached[d], cut => cut',
             \A v \in Dispatchers :
                At(v, "expire") /\ DeveloperOf(v) = d => dispatcher'[v] = dispatcher[v] \/ cut'
      PROVE  Covered
  <2>1. cut \/ \E v \in Dispatchers : At(v, "expire") /\ DeveloperOf(v) = d
    BY <1>1 DEF CopiesExpire, IsCached
  <2> QED
    BY <1>1, <2>1 DEF At, DeveloperOf
<1>2. ASSUME NEW w \in Dispatchers, CacheHook(w) PROVE Covered
  <2>1. /\ dispatcher'[w].pc = "expire" /\ dispatcher'[w].msg = dispatcher[w].msg
        /\ \A v \in Dispatchers \ {w} : dispatcher'[v] = dispatcher[v]
        /\ ~ At(w, "expire") /\ cut' = cut
    BY <1>0, <1>2 DEF CacheHook, Proceed, At, DispatcherState
  <2>2. CASE DeveloperOf(w) = d
    BY <2>1, <2>2 DEF DeveloperOf
  <2>3. CASE DeveloperOf(w) # d
    <3>1. cached'[d] = cached[d]
      BY <1>0, <1>2, <2>3 DEF CacheHook, StoreHook
    <3> QED
      BY <1>1, <2>1, <3>1
  <2> QED
    BY <2>2, <2>3
<1>3. ASSUME NEW w \in Dispatchers, ExpireHook(w) PROVE Covered
  <2>1. /\ \A v \in Dispatchers \ {w} : dispatcher'[v] = dispatcher[v]
        /\ cut' = cut
    BY <1>0, <1>3 DEF ExpireHook, Proceed
  <2>2. DeveloperOf(w) # d
    <3>1. DeveloperOf(w) = d => /\ cached'[d].hook = cached[d].hook
                                /\ cached'[d].expires = IsCached(d)
      BY <1>0, <1>3 DEF ExpireHook, LimitHook
    <3> QED
      BY <3>1 DEF IsCached
  <2>3. cached'[d] = cached[d]
    BY <1>0, <1>3, <2>2 DEF ExpireHook, LimitHook
  <2> QED
    BY <1>1, <2>1, <2>2, <2>3
<1>4. ASSUME NEW e \in Developers, ForgetHook(e), UNCHANGED <<dispatcher, cut>> PROVE Covered
  <2>1. d # e
    BY <1>0, <1>4 DEF ForgetHook, NotCached
  <2>2. cached'[d] = cached[d]
    BY <1>0, <1>4, <2>1 DEF ForgetHook
  <2> QED
    BY <1>1, <1>4, <2>2
<1> QED
  BY <1>1, <1>2, <1>3, <1>4, CacheSteps

(* No configuration stays in the cache for good, unless a worker ended     *)
(* between HSET and EXPIRE.                                                *)
THEOREM CachedHooksExpire == Spec => []CopiesExpire
<1>1. Init => CopiesExpire
  BY DEF Init, ConfigInit, NotCached, CopiesExpire, IsCached
<1>2. DispatchInv /\ CopiesExpire /\ [Next]_vars => CopiesExpire'
  BY CopiesKept DEF DispatchInv
<1> QED
  BY <1>1, <1>2, DispatchInvariant, PTL DEF Spec

(* A worker gets the configuration that it stores or posts to from the     *)
(* cache or from the database.                                             *)
LEMMA HookTaken ==
    ASSUME TypeOK, [Next]_vars, NEW v \in Dispatchers,
           dispatcher'[v].pc \in {"store", "post"}
    PROVE  \/ dispatcher'[v] = dispatcher[v]
           \/ dispatcher' = [dispatcher EXCEPT ![v].pc = "post",
                                               ![v].hook = cached[DeveloperOf(v)].hook]
           \/ LookUpHook(v)
<1>0. dispatcher \in [Dispatchers -> DispatcherState]
  BY DispatcherStates
<1>1. ASSUME NEW w \in Dispatchers, NEW s, dispatcher' = [dispatcher EXCEPT ![w] = s],
             s.pc \notin {"store", "post"}
      PROVE  dispatcher'[v] = dispatcher[v]
  BY <1>0, <1>1
<1>2. ASSUME NEW w \in Dispatchers, NEW pc, Proceed(w, pc), pc \notin {"store", "post"}
      PROVE  dispatcher'[v] = dispatcher[v]
  BY <1>0, <1>2 DEF Proceed, DispatcherState
<1>3. ASSUME NEW w \in Dispatchers, FetchHook(w)
      PROVE  \/ dispatcher'[v] = dispatcher[v]
             \/ dispatcher' = [dispatcher EXCEPT ![v].pc = "post",
                                                 ![v].hook = cached[DeveloperOf(v)].hook]
  BY <1>0, <1>3 DEF FetchHook, DispatcherState
<1>4. ASSUME NEW w \in Dispatchers, LookUpHook(w)
      PROVE  dispatcher'[v] = dispatcher[v] \/ LookUpHook(v)
  BY <1>0, <1>4 DEF LookUpHook
<1>5. ASSUME NEW w \in Dispatchers,
             \/ RefuseLookUp(w) \/ CacheHook(w) \/ ExpireHook(w) \/ PostAccepted(w) \/ PostRefused(w)
             \/ PostUnsettled(w) \/ PostBroken(w) \/ PublishRetry(w) \/ PublishDeadLetter(w)
      PROVE  dispatcher'[v] = dispatcher[v]
  BY <1>2, <1>5
  DEF RefuseLookUp, CacheHook, ExpireHook, PostAccepted, PostRefused, PostUnsettled, PostBroken,
      PublishRetry, PublishDeadLetter
<1>6. ASSUME NEW w \in Dispatchers,
             \/ AckNotice(w) \/ EndDispatcher(w) \/ FailDispatch(w) \/ RestartDispatcher(w)
      PROVE  dispatcher'[v] = dispatcher[v]
  <2>1. PICK s \in {Idle, Down} : dispatcher' = [dispatcher EXCEPT ![w] = s]
    BY <1>6 DEF AckNotice, EndDispatcher, FailDispatch, RestartDispatcher
  <2> QED
    BY <1>1, <2>1, DispatcherStates
<1>7. ASSUME NEW w \in Dispatchers, NEW m \in Messages, ReceiveNotice(w, m)
      PROVE  dispatcher'[v] = dispatcher[v]
  BY <1>1, <1>7 DEF ReceiveNotice
<1> QED
  BY <1>3, <1>4, <1>5, <1>6, <1>7
  DEF Next, DispatcherMove, PublishNotice, DropDispatcherChannel, ConfigStep, vars

(* No notice is posted to a configuration that was withdrawn, once it is   *)
(* out of the cache and out of the hands of the workers.                   *)
THEOREM WithdrawnHooksStayOut == Spec => WithdrawnStaysOut
<1> DEFINE Out == \A d \in Developers, h \in Hooks \cup {Unset} :
                     Withdrawn(d, h) /\ hook'[d] # h => Withdrawn(d, h)'
<1>1. ASSUME DispatchInv, [Next]_vars PROVE Out
  <2> SUFFICES ASSUME NEW d \in Developers, NEW h \in Hooks \cup {Unset},
                      Withdrawn(d, h), hook'[d] # h
               PROVE  Withdrawn(d, h)'
    OBVIOUS
  <2>0. /\ TypeOK /\ WorkInHand
        /\ cached \in [Developers -> [hook : Hooks \cup {Unset, Missing}, expires : BOOLEAN]]
        /\ dispatcher \in [Dispatchers -> DispatcherState]
        /\ hook[d] # h /\ cached[d].hook # h
        /\ \A w \in Dispatchers : dispatcher[w].pc \in {"store", "post"} /\ DeveloperOf(w) = d =>
              dispatcher[w].hook # h
    BY <1>1, DispatcherStates DEF DispatchInv, ConfigTypeOK, Withdrawn
  <2>1. cached'[d].hook # h
    <3>1. ASSUME NEW w \in Dispatchers, CacheHook(w) PROVE cached'[d].hook # h
      BY <2>0, <3>1 DEF CacheHook, StoreHook, At
    <3>2. ASSUME NEW w \in Dispatchers, ExpireHook(w) PROVE cached'[d].hook # h
      BY <2>0, <3>2 DEF ExpireHook, LimitHook
    <3>3. ASSUME NEW e \in Developers, ForgetHook(e) PROVE cached'[d].hook # h
      BY <2>0, <3>3, HookAssumption DEF ForgetHook, NotCached
    <3>4. CASE UNCHANGED cached
      BY <2>0, <3>4
    <3> QED
      BY <1>1, <2>0, <3>1, <3>2, <3>3, <3>4, CacheSteps
  <2>2. ASSUME NEW w \in Dispatchers, dispatcher'[w].pc \in {"store", "post"},
               Recipient[dispatcher'[w].msg[1]] = d
        PROVE  dispatcher'[w].hook # h
    <3>1. CASE dispatcher'[w] = dispatcher[w]
      BY <2>0, <2>2, <3>1 DEF DeveloperOf
    <3>2. CASE dispatcher' = [dispatcher EXCEPT ![w].pc = "post",
                                                ![w].hook = cached[DeveloperOf(w)].hook]
      <4>1. dispatcher'[w].msg = dispatcher[w].msg /\ dispatcher'[w].hook = cached[DeveloperOf(w)].hook
        BY <2>0, <3>2 DEF DispatcherState
      <4> QED
        BY <2>0, <2>2, <4>1 DEF DeveloperOf
    <3>3. CASE LookUpHook(w)
      <4>1. dispatcher'[w].msg = dispatcher[w].msg /\ dispatcher'[w].hook = hook[DeveloperOf(w)]
        BY <2>0, <3>3 DEF LookUpHook, DispatcherState
      <4> QED
        BY <2>0, <2>2, <4>1 DEF DeveloperOf
    <3> QED
      BY <1>1, <2>0, <2>2, <3>1, <3>2, <3>3, HookTaken
  <2> QED
    BY <2>1, <2>2 DEF Withdrawn, DeveloperOf
<1>2. DispatchInv /\ [Next]_vars => [Out]_vars
  BY <1>1
<1> QED
  BY <1>2, DispatchInvariant, PTL DEF Spec, WithdrawnStaysOut

=============================================================================

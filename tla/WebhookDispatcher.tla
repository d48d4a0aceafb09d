-------------------------- MODULE WebhookDispatcher --------------------------
(***************************************************************************)
(* The webhook dispatcher: process_webhook, for one message at a time per  *)
(* worker.  A delivery of a message publishes at most one retry of it, so  *)
(* a message is known by its notice and by the deliveries that led to it:  *)
(* the first has the path << >>, the retry published by delivery c of the  *)
(* message with path p has Append(p, c).  The length of the path is the    *)
(* "attempt" of the payload.  The delay of a retry is left open.           *)
(***************************************************************************)
EXTENDS WorkQueue, WebhookConfig, Sequences

CONSTANTS
    Notices,       \* what dispatch_to_webhook publishes
    Recipient,     \* notice -> its developer
    Dispatchers,
    MaxAttempts    \* MAX_DELIVERY_COUNT of dispatcher/utils/retry.py

Paths == UNION {[1..n -> 0..DeliveryLimit] : n \in 0..(MaxAttempts - 1)}
Messages == Notices \X Paths

ASSUME RecipientAssumption == Recipient \in [Notices -> Developers]
ASSUME AttemptsAssumption == MaxAttempts \in Nat \ {0}

VARIABLES
    webhookQ,      \* the webhook_dipatcher queue
    dispatcher,    \* worker -> [pc, msg, count, hook]
    accepted,      \* messages that the developer's endpoint answered with 2xx
    buried,        \* messages whose dead letter was published
    cut            \* some worker ended between HSET and EXPIRE

vars == <<configVars, webhookQ, dispatcher, accepted, buried, cut>>

Working == {"fetch", "lookup", "store", "expire", "post", "retry", "bury"}
Idle == [pc |-> "idle", msg |-> Missing, count |-> 0, hook |-> Missing]
Down == [Idle EXCEPT !.pc = "down"]

Init ==
    /\ ConfigInit
    /\ webhookQ = [m \in Messages |-> NoMessage]
    /\ dispatcher = [w \in Dispatchers |-> Idle]
    /\ accepted = {}
    /\ buried = {}
    /\ cut = FALSE

Root(n) == <<n, << >>>>
Attempt(m) == Len(m[2])
RetryOf(m, c) == <<m[1], Append(m[2], c)>>
DeveloperOf(w) == Recipient[dispatcher[w].msg[1]]

At(w, pc) == dispatcher[w].pc = pc
Proceed(w, pc) == dispatcher' = [dispatcher EXCEPT ![w].pc = pc]
Busy(w) == dispatcher[w].pc \notin {"idle", "down"}
Holds(w) == Busy(w) /\ HeldAt(webhookQ, dispatcher[w].msg, dispatcher[w].count)

ReturnNotice(w) ==
    webhookQ' = IF Holds(w) THEN Return(webhookQ, dispatcher[w].msg) ELSE webhookQ

(* dispatch_to_webhook of a scanner *)
PublishNotice(n) ==
    /\ webhookQ[Root(n)].state = "none"
    /\ webhookQ' = Publish(webhookQ, Root(n))
    /\ UNCHANGED <<configVars, dispatcher, accepted, buried, cut>>

ReceiveNotice(w, m) ==
    /\ At(w, "idle")
    /\ IsReady(webhookQ, m)
    /\ webhookQ' = Deliver(webhookQ, m)
    /\ dispatcher' = [dispatcher EXCEPT ![w] =
           [pc |-> "fetch", msg |-> m, count |-> webhookQ[m].count, hook |-> Missing]]
    /\ UNCHANGED <<configVars, accepted, buried, cut>>

-----------------------------------------------------------------------------
(* get_webhook_config, which calls itself again after it filled the cache *)

FetchHook(w) ==
    LET d == DeveloperOf(w) IN
    /\ At(w, "fetch")
    /\ dispatcher' = [dispatcher EXCEPT ![w].pc = IF IsCached(d) THEN "post" ELSE "lookup",
                                        ![w].hook = cached[d].hook]
    /\ UNCHANGED <<configVars, webhookQ, accepted, buried, cut>>

LookUpHook(w) ==
    /\ At(w, "lookup")
    /\ dispatcher' = [dispatcher EXCEPT ![w].pc = "store", ![w].hook = hook[DeveloperOf(w)]]
    /\ UNCHANGED <<configVars, webhookQ, accepted, buried, cut>>

(* Every error of the look-up, an unreachable auth service too, is a       *)
(* WebhookException and not retryable.                                     *)
RefuseLookUp(w) ==
    /\ At(w, "lookup")
    /\ Proceed(w, "bury")
    /\ UNCHANGED <<configVars, webhookQ, accepted, buried, cut>>

CacheHook(w) ==
    /\ At(w, "store")
    /\ StoreHook(DeveloperOf(w), dispatcher[w].hook)
    /\ Proceed(w, "expire")
    /\ UNCHANGED <<webhookQ, accepted, buried, cut>>

ExpireHook(w) ==
    /\ At(w, "expire")
    /\ LimitHook(DeveloperOf(w))
    /\ Proceed(w, "fetch")
    /\ UNCHANGED <<webhookQ, accepted, buried, cut>>

-----------------------------------------------------------------------------
(* attempt_delivery and the handling of its result *)

PostAccepted(w) ==
    /\ At(w, "post")
    /\ dispatcher[w].hook # Unset
    /\ accepted' = accepted \cup {dispatcher[w].msg}
    /\ Proceed(w, "ack")
    /\ UNCHANGED <<configVars, webhookQ, buried, cut>>

(* 300 to 428: permanent *)
PostRefused(w) ==
    /\ At(w, "post")
    /\ dispatcher[w].hook # Unset
    /\ Proceed(w, "bury")
    /\ UNCHANGED <<configVars, webhookQ, accepted, buried, cut>>

ShouldRetry(m) == Attempt(m) + 1 < MaxAttempts

(* No connection, a timeout (the post may have arrived), 429 or 5xx *)
PostUnsettled(w) ==
    /\ At(w, "post")
    /\ dispatcher[w].hook # Unset
    /\ Proceed(w, IF ShouldRetry(dispatcher[w].msg) THEN "retry" ELSE "bury")
    /\ UNCHANGED <<configVars, webhookQ, accepted, buried, cut>>

(* Everything else that httpx raises, for an empty URL always, and 430 to  *)
(* 499: no DispatchError.                                                  *)
PostBroken(w) ==
    /\ At(w, "post")
    /\ Proceed(w, "broken")
    /\ UNCHANGED <<configVars, webhookQ, accepted, buried, cut>>

PublishRetry(w) ==
    /\ At(w, "retry")
    /\ webhookQ' = Publish(webhookQ, RetryOf(dispatcher[w].msg, dispatcher[w].count))
    /\ Proceed(w, "ack")
    /\ UNCHANGED <<configVars, accepted, buried, cut>>

PublishDeadLetter(w) ==
    /\ At(w, "bury")
    /\ buried' = buried \cup {dispatcher[w].msg}
    /\ Proceed(w, "ack")
    /\ UNCHANGED <<configVars, webhookQ, accepted, cut>>

(* A slip in AckNotice: it does not wait for the publish of the retry. *)
AckUnretried(w) ==
    /\ At(w, "ack") \/ At(w, "retry")
    /\ webhookQ' = IF Holds(w) THEN Ack(webhookQ, dispatcher[w].msg) ELSE webhookQ
    /\ dispatcher' = [dispatcher EXCEPT ![w] = IF Holds(w) THEN Idle ELSE Down]
    /\ UNCHANGED <<configVars, accepted, buried, cut>>

(* Acknowledging on a channel that was closed raises and ends the worker. *)
AckNotice(w) ==
    /\ At(w, "ack")
    /\ webhookQ' = IF Holds(w) THEN Ack(webhookQ, dispatcher[w].msg) ELSE webhookQ
    /\ dispatcher' = [dispatcher EXCEPT ![w] = IF Holds(w) THEN Idle ELSE Down]
    /\ UNCHANGED <<configVars, accepted, buried, cut>>

-----------------------------------------------------------------------------
(* Failures *)

(* A slip in EndDispatcher: process() without requeue discards instead. *)
EndUnreturned(w) ==
    /\ ~ At(w, "down")
    /\ webhookQ' = IF Holds(w) THEN Discard(webhookQ, dispatcher[w].msg) ELSE webhookQ
    /\ dispatcher' = [dispatcher EXCEPT ![w] = Down]
    /\ cut' = (cut \/ At(w, "expire"))
    /\ UNCHANGED <<configVars, accepted, buried>>

(* An exception leaves process(), which requeues the message, and then the *)
(* loop of start_worker; a kill does the same to the message.              *)
EndDispatcher(w) ==
    /\ ~ At(w, "down")
    /\ ReturnNotice(w)
    /\ dispatcher' = [dispatcher EXCEPT ![w] = Down]
    /\ cut' = (cut \/ At(w, "expire"))
    /\ UNCHANGED <<configVars, accepted, buried>>

FailDispatch(w) == dispatcher[w].pc \in Working \cup {"broken"} /\ EndDispatcher(w)

DropDispatcherChannel(w) ==
    /\ Holds(w)
    /\ ReturnNotice(w)
    /\ UNCHANGED <<configVars, dispatcher, accepted, buried, cut>>

RestartDispatcher(w) ==
    /\ At(w, "down")
    /\ dispatcher' = [dispatcher EXCEPT ![w] = Idle]
    /\ UNCHANGED <<configVars, webhookQ, accepted, buried, cut>>

-----------------------------------------------------------------------------
DispatcherMove(w) ==
    \/ FetchHook(w)
    \/ LookUpHook(w)
    \/ RefuseLookUp(w)
    \/ CacheHook(w)
    \/ ExpireHook(w)
    \/ PostAccepted(w)
    \/ PostRefused(w)
    \/ PostUnsettled(w)
    \/ PostBroken(w)
    \/ PublishRetry(w)
    \/ PublishDeadLetter(w)
    \/ AckNotice(w)
    \/ FailDispatch(w)

ConfigStep(d) ==
    /\ SetHook(d) \/ DeleteHook(d) \/ ForgetHook(d)
    /\ UNCHANGED <<webhookQ, dispatcher, accepted, buried, cut>>

Next ==
    \/ \E n \in Notices : PublishNotice(n)
    \/ \E w \in Dispatchers :
          \/ \E m \in Messages : ReceiveNotice(w, m)
          \/ DispatcherMove(w)
          \/ EndDispatcher(w)
          \/ DropDispatcherChannel(w)
          \/ RestartDispatcher(w)
    \/ \E d \in Developers : ConfigStep(d)

Spec == Init /\ [][Next]_vars

(* As for the other workers: a worker goes on, the operator starts it      *)
(* again, and a message that can be taken again and again is taken.  Redis *)
(* drops what has expired.  The TTL is ten minutes, so it does not end     *)
(* every time between the EXPIRE of a worker and its next HGETALL.         *)
Fairness ==
    /\ \A w \in Dispatchers :
          /\ WF_vars(DispatcherMove(w))
          /\ \A m \in Messages : SF_vars(ReceiveNotice(w, m))
          /\ WF_vars(RestartDispatcher(w))
          /\ SF_vars(FetchHook(w) /\ IsCached(DeveloperOf(w)))
    /\ \A d \in Developers :
          WF_vars(ForgetHook(d) /\ UNCHANGED <<webhookQ, dispatcher, accepted, buried, cut>>)

FairSpec == Spec /\ Fairness

-----------------------------------------------------------------------------
(* Every variable stays in its type; a retry never has an attempt beyond   *)
(* the last, nor a message a delivery beyond its limit.                    *)
TypeOK ==
    /\ ConfigTypeOK
    /\ webhookQ \in [Messages -> Message]
    /\ dispatcher \in [Dispatchers ->
           [pc : Working \cup {"idle", "down", "ack", "broken"},
            msg : Messages \cup {Missing},
            count : 0..DeliveryLimit,
            hook : Hooks \cup {Unset, Missing}]]
    /\ accepted \subseteq Messages
    /\ buried \subseteq Messages
    /\ cut \in BOOLEAN

MessagesOf(n) == {n} \X Paths
InFlight(m) == webhookQ[m].state \in {"ready", "held"}
Exhausted(m) == webhookQ[m].state = "dead" /\ webhookQ[m].count = DeliveryLimit

(* A notice is never dropped without a trace.  Once published, it is on    *)
(* its way as the first message or as a retry, or the endpoint accepted    *)
(* it, or its dead letter was published, or one of its messages used up    *)
(* all its deliveries.  The retry is published before the message it       *)
(* replaces is acknowledged, so no crash falls between two chairs.         *)
NoticeAccounted ==
    \A n \in Notices : webhookQ[Root(n)].state # "none" =>
        \E m \in MessagesOf(n) : InFlight(m) \/ Exhausted(m) \/ m \in accepted \cup buried

(* Retries and redeliveries of a notice come to an end: the attempts and   *)
(* the deliveries are both limited, although each can multiply the other.  *)
NoticesSettle ==
    \A n \in Notices : webhookQ[Root(n)].state # "none" ~>
        \A m \in MessagesOf(n) : ~ InFlight(m)

(* A changed or deleted configuration is out of the cache in the end,      *)
(* whatever look-up was under way when it changed, unless a worker ended   *)
(* between HSET and EXPIRE.                                                *)
StaleClears == \A d \in Developers : Stale(d) ~> ~ Stale(d) \/ cut

(* The part of StaleClears that needs no fairness.  First, a cached        *)
(* configuration has a TTL, or a worker is about to set it, unless some    *)
(* worker ended in between.                                                *)
CopiesExpire ==
    \A d \in Developers : IsCached(d) /\ ~ cached[d].expires =>
        cut \/ \E w \in Dispatchers : At(w, "expire") /\ DeveloperOf(w) = d

(* Second, a configuration that was withdrawn, that is not cached and that *)
(* no worker is about to cache or to post to, stays out of use until the   *)
(* developer sets it again.                                                *)
Withdrawn(d, h) ==
    /\ hook[d] # h
    /\ cached[d].hook # h
    /\ \A w \in Dispatchers :
          dispatcher[w].pc \in {"store", "post"} /\ DeveloperOf(w) = d => dispatcher[w].hook # h

WithdrawnStaysOut ==
    [][\A d \in Developers, h \in Hooks \cup {Unset} :
          Withdrawn(d, h) /\ hook'[d] # h => Withdrawn(d, h)']_vars

-----------------------------------------------------------------------------
(* build_dead_letter_message: the queue's own dead-lettering is for        *)
(* "dispatcher's own process crashing, not for HTTP delivery failures".    *)
DeadByCrashOnly ==
    [][\A w \in Dispatchers :
          At(w, "broken") /\ Holds(w) => webhookQ'[dispatcher[w].msg].state # "dead"]_vars

(* What became of a message that was acknowledged, or is about to be: it   *)
(* is settled, or its retry was published.                                 *)
Followed(m) ==
    \/ m \in accepted \cup buried
    \/ /\ ShouldRetry(m)
       /\ \E c \in 0..DeliveryLimit : webhookQ[RetryOf(m, c)].state # "none"

WebhookContract ==
    INSTANCE RetryContract
    WITH Tasks <- Messages,
         task <- Standing(webhookQ),
         effect <- {m \in Messages : Followed(m)}

(* Message by message, the dispatcher keeps the contract of a task queue   *)
(* with retries: a message is acknowledged only once it was accepted,      *)
(* buried or handed on to its retry, each delivery hands on to a retry of  *)
(* its own that nobody published before, and no message that was           *)
(* acknowledged or given up is taken up again, although workers that lost  *)
(* their delivery go on posting and retrying.                              *)
WebhookPromise == WebhookContract!RetryPromise

-----------------------------------------------------------------------------
(* Why NoticeAccounted is inductive *)

(* A worker has a message while it is busy, and room for a retry when it   *)
(* is about to publish one.                                                *)
WorkInHand ==
    \A w \in Dispatchers :
        /\ Busy(w) => dispatcher[w].msg \in Messages
        /\ At(w, "retry") => ShouldRetry(dispatcher[w].msg)

FollowedFirst ==
    /\ \A w \in Dispatchers : At(w, "ack") => Followed(dispatcher[w].msg)
    /\ \A m \in Messages : webhookQ[m].state = "acked" => Followed(m)

DeadWasExhausted ==
    \A m \in Messages :
        /\ webhookQ[m].state = "dead" => webhookQ[m].count = DeliveryLimit
        /\ webhookQ[m].state # "unrouted"

DispatchInv == TypeOK /\ WorkInHand /\ FollowedFirst /\ DeadWasExhausted

-----------------------------------------------------------------------------
(* Why a retry is always a new message.  Two workers on the same message   *)
(* have different deliveries of it; a delivery that is not held any more   *)
(* is over; a retry exists only of a delivery that has begun, and only     *)
(* when that delivery is through with publishing it.                       *)
DeliveriesDiffer ==
    \A w, v \in Dispatchers :
        Busy(w) /\ Busy(v) /\ w # v /\ dispatcher[w].msg = dispatcher[v].msg =>
            dispatcher[w].count # dispatcher[v].count

HeldOrPast ==
    \A w \in Dispatchers : Busy(w) =>
        Holds(w) \/ InDelivery(dispatcher[w].count) < Rank(webhookQ[dispatcher[w].msg])

RetriesFollow ==
    \A m \in Messages, c \in 0..DeliveryLimit :
        ShouldRetry(m) /\ webhookQ[RetryOf(m, c)].state # "none" =>
            InDelivery(c) <= Rank(webhookQ[m])

UntilRetried ==
    \A w \in Dispatchers :
        dispatcher[w].pc \in Working \ {"bury"} /\ ShouldRetry(dispatcher[w].msg) =>
            webhookQ[RetryOf(dispatcher[w].msg, dispatcher[w].count)].state = "none"

RetryInv == DeliveriesDiffer /\ HeldOrPast /\ RetriesFollow /\ UntilRetried

(* Each step of the dispatcher leaves a message of the queue alone or      *)
(* brings it nearer to its end: redeliveries and retries, by workers that  *)
(* lost their delivery too, never bring one back.                          *)
RetriesEnd == [][MovesOn(webhookQ, webhookQ')]_vars

=============================================================================

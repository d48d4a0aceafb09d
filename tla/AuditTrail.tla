----------------------------- MODULE AuditTrail -----------------------------
(***************************************************************************)
(* Audit events on their way from a service that publishes them through    *)
(* its BrokerClient to the audit logger.                                   *)
(***************************************************************************)
EXTENDS AuditLogger, BrokerClient

trailVars == <<vars, clientVars>>

TrailInit == Init /\ ClientInit

(* The exchange that all audit events go to *)
EventExchange == "system.events"

(* If the exchange is not in the dictionary, publish raises and the event  *)
(* is lost, with the request or the delivery that it belongs to.           *)
EmitEvent(e) ==
    /\ CanPublish(EventExchange)
    /\ link = "up"
    /\ PublishEvent(e)
    /\ UNCHANGED clientVars

ClientStep == ClientSetup \/ LoseLink \/ CloseClient

TrailNext ==
    \/ \E e \in Events : EmitEvent(e)
    \/ LoggerStep /\ UNCHANGED clientVars
    \/ ClientStep /\ UNCHANGED vars

(* The client goes on with its setup; the logger goes on with its events,  *)
(* is started again by the operator, and is delivered a message if there   *)
(* is one to deliver again and again.  Connections may break for ever.     *)
TrailSpec ==
    /\ TrailInit /\ [][TrailNext]_trailVars
    /\ WF_trailVars(ClientSetup /\ UNCHANGED vars)
    /\ WF_trailVars(Work /\ UNCHANGED clientVars)
    /\ WF_trailVars(RestartLogger /\ UNCHANGED clientVars)
    /\ SF_trailVars((\E e \in Events : DeliverEvent(e)) /\ UNCHANGED clientVars)

-----------------------------------------------------------------------------
(* Every variable stays in its type. *)
TrailTypeOK == TypeOK /\ ClientTypeOK

(* However often the connection was lost, and in the middle of whatever    *)
(* declaration, a service whose connection holds from some time on can     *)
(* publish its events again.                                               *)
PublishingReturns == []<> (link # "up") \/ <>[] CanPublish(EventExchange)

=============================================================================

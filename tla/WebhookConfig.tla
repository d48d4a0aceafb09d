---------------------------- MODULE WebhookConfig ----------------------------
(***************************************************************************)
(* A developer's webhook configuration (URL and secret, always written and *)
(* read together) in the auth service's database, and the dispatcher's     *)
(* copy of it in Redis.  A developer without one is cached as well: the    *)
(* look-up then answers with empty strings, which are a hash like any      *)
(* other.  The cache is never invalidated, it only expires.                *)
(***************************************************************************)
EXTENDS Naturals

CONSTANTS
    Developers,
    Hooks,       \* configurations a developer may set
    Unset,       \* empty strings: no configuration
    Missing      \* no hash under the developer's key

ASSUME HookAssumption == Unset \notin Hooks /\ Missing \notin Hooks /\ Unset # Missing

VARIABLES
    hook,        \* developer -> the configuration in the database
    cached       \* developer -> the hash in Redis and whether it has a TTL

configVars == <<hook, cached>>

NotCached == [hook |-> Missing, expires |-> FALSE]

ConfigInit ==
    /\ hook \in [Developers -> Hooks \cup {Unset}]
    /\ cached = [d \in Developers |-> NotCached]

ConfigTypeOK ==
    /\ hook \in [Developers -> Hooks \cup {Unset}]
    /\ cached \in [Developers -> [hook : Hooks \cup {Unset, Missing}, expires : BOOLEAN]]

IsCached(d) == cached[d].hook # Missing
Stale(d) == IsCached(d) /\ cached[d].hook # hook[d]

SetHook(d) ==
    /\ \E h \in Hooks : hook' = [hook EXCEPT ![d] = h]
    /\ UNCHANGED cached

(* The route looks the configuration up first and raises if there is none. *)
DeleteHook(d) ==
    /\ hook[d] # Unset
    /\ hook' = [hook EXCEPT ![d] = Unset]
    /\ UNCHANGED cached

(* Redis drops a hash whose TTL is over. *)
ForgetHook(d) ==
    /\ IsCached(d)
    /\ cached[d].expires
    /\ cached' = [cached EXCEPT ![d] = NotCached]
    /\ UNCHANGED hook

-----------------------------------------------------------------------------
(* The two calls of cache_webhook_config *)

(* HSET replaces the fields and leaves a TTL as it is. *)
StoreHook(d, h) ==
    /\ cached' = [cached EXCEPT ![d] = [hook |-> h, expires |-> cached[d].expires]]
    /\ UNCHANGED hook

(* A slip in LimitHook: the TTL is not set. *)
LimitForgotten(d) == UNCHANGED configVars

(* EXPIRE does nothing to a key that is gone. *)
LimitHook(d) ==
    /\ cached' = [cached EXCEPT ![d] = [hook |-> cached[d].hook, expires |-> IsCached(d)]]
    /\ UNCHANGED hook

=============================================================================

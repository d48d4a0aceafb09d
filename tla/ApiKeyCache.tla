---------------------------- MODULE ApiKeyCache ----------------------------
(***************************************************************************)
(* An API key as three stores see it: its standing in the auth service's   *)
(* database, the gateway's copy of that standing in Redis, and the usage   *)
(* counters of its hourly windows, also in Redis.  Nothing invalidates the *)
(* copy when the standing changes; it only expires.                        *)
(***************************************************************************)
EXTENDS Integers

CONSTANTS
    Keys,
    Limit,        \* requests_per_hour of the developer's plan
    MaxWindow     \* bound: the last hourly window of a behaviour

ASSUME LimitAssumption == Limit \in Nat \ {0}
ASSUME WindowAssumption == MaxWindow \in Nat \ {0}

VARIABLES
    standing,     \* key -> "active", "revoked", or "unknown" (developer inactive too)
    copy,         \* key -> the status cached in Redis and whether it has a TTL
    usage,        \* key -> window -> its counter, at most Limit + 1 (see Bump)
    clock         \* the current hourly window

cacheVars == <<standing, copy, usage, clock>>

Standings == {"active", "revoked", "unknown"}
Statuses == {"active", "revoked"}
Windows == 1..MaxWindow

NoCopy == [status |-> "none", expires |-> FALSE]

CacheInit ==
    /\ standing \in [Keys -> Standings]
    /\ copy = [k \in Keys |-> NoCopy]
    /\ usage = [k \in Keys |-> [w \in Windows |-> 0]]
    /\ clock = 1

CacheTypeOK ==
    /\ standing \in [Keys -> Standings]
    /\ copy \in [Keys -> [status : Statuses \cup {"none"}, expires : BOOLEAN]]
    /\ usage \in [Keys -> [Windows -> 0..(Limit + 1)]]
    /\ clock \in Windows

HasCopy(k) == copy[k].status # "none"
Outdated(k) == HasCopy(k) /\ copy[k].status # standing[k]

(* INCR; past the limit the exact value changes no answer. *)
Bump(n) == IF n > Limit THEN n ELSE n + 1

(* A slip in Verdict: the counter is compared before it is incremented. *)
CompareFirst(k, w) ==
    CASE copy[k].status = "none" -> "miss"
      [] copy[k].status = "revoked" -> "revoked"
      [] OTHER -> IF usage[k][w] > Limit THEN "over" ELSE "admit"

(* The script of check_and_increment: one Lua script, one atomic step.     *)
Verdict(k, w) ==
    CASE copy[k].status = "none" -> "miss"
      [] copy[k].status = "revoked" -> "revoked"
      [] OTHER -> IF Bump(usage[k][w]) > Limit THEN "over" ELSE "admit"

(* A slip in Charge: INCR comes before the status is looked at. *)
ChargeAlways(k, w) == usage' = [usage EXCEPT ![k][w] = Bump(@)]

Charge(k, w) ==
    usage' = IF copy[k].status = "active"
             THEN [usage EXCEPT ![k][w] = Bump(@)]
             ELSE usage

-----------------------------------------------------------------------------
(* The two calls of cache_metadata: HSET leaves a TTL as it is, EXPIRE     *)
(* does nothing to a hash that is gone.                                    *)

StoreCopy(k, s) ==
    /\ copy' = [copy EXCEPT ![k] = [status |-> s, expires |-> copy[k].expires]]
    /\ UNCHANGED <<standing, usage, clock>>

(* A slip in LimitCopy: the TTL is not set. *)
LimitSkipped(k) == UNCHANGED cacheVars

LimitCopy(k) ==
    /\ copy' = [copy EXCEPT ![k] = [status |-> copy[k].status, expires |-> HasCopy(k)]]
    /\ UNCHANGED <<standing, usage, clock>>

-----------------------------------------------------------------------------
(* What happens without a request *)

(* An operator changes is_active of the key or of its developer. *)
ChangeStanding(k) ==
    /\ \E s \in Standings \ {standing[k]} : standing' = [standing EXCEPT ![k] = s]
    /\ UNCHANGED <<copy, usage, clock>>

(* Redis drops a copy whose five minutes are over. *)
ForgetCopy(k) ==
    /\ HasCopy(k)
    /\ copy[k].expires
    /\ copy' = [copy EXCEPT ![k] = NoCopy]
    /\ UNCHANGED <<standing, usage, clock>>

(* A counter is dropped 3700 seconds after its first request: never in its *)
(* own hour, and 100 seconds after it at the earliest.                     *)
ForgetUsage(k, w) ==
    /\ w < clock
    /\ usage[k][w] > 0
    /\ usage' = [usage EXCEPT ![k][w] = 0]
    /\ UNCHANGED <<standing, copy, clock>>

NextHour ==
    /\ clock < MaxWindow
    /\ clock' = clock + 1
    /\ UNCHANGED <<standing, copy, usage>>

=============================================================================

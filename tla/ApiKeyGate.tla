----------------------------- MODULE ApiKeyGate -----------------------------
(***************************************************************************)
(* The gateway's handling of a request for the file service, get_context   *)
(* of FileServiceHandler and then proxy_request, one step per call to      *)
(* Redis, to the auth service or to the file service, for requests that    *)
(* run concurrently on any number of gateways.                             *)
(* After a cache miss the handler calls itself; the outer call then reads  *)
(* the cache once more and its reading is the one that counts, so the      *)
(* depth of the recursion is not part of the state.                        *)
(***************************************************************************)
EXTENDS ApiKeyCache, FiniteSets

CONSTANTS
    Requests,     \* each arrives once
    KeyOf,        \* request -> the key in its Authorization header
    Resends       \* how often the Redis client repeats a call that timed out

ASSUME KeyOfAssumption == KeyOf \in [Requests -> Keys]
ASSUME ResendsAssumption == Resends \in Nat
ASSUME RequestsAssumption == IsFiniteSet(Requests)

VARIABLES
    request,      \* request -> [pc, window, found, sent, outcome]
    admitted,     \* request -> the window it was admitted in, 0 if it was not
    wasted,       \* key -> window -> admissions whose answer was lost, at most Limit
    cut,          \* some request ended between HSET and EXPIRE
    upstream      \* request -> what the file service has of it

gateVars == <<request, admitted, wasted, cut>>
vars == <<cacheVars, gateVars, upstream>>

Working == {"window", "count", "lookup", "store", "expire", "read", "forward", "await"}
Outcomes == {"forwarded", "nameless", "unauthorized", "limited", "timedout", "failed"}
New == [pc |-> "new", window |-> 1, found |-> "none", sent |-> 0, outcome |-> "none"]

Init ==
    /\ CacheInit
    /\ request = [r \in Requests |-> New]
    /\ admitted = [r \in Requests |-> 0]
    /\ wasted = [k \in Keys |-> [w \in Windows |-> 0]]
    /\ cut = FALSE
    /\ upstream = [r \in Requests |-> "none"]

At(r, pc) == request[r].pc = pc
Proceed(r, pc) == request' = [request EXCEPT ![r] = [New EXCEPT !.pc = pc]]
Answer(r, outcome) ==
    request' = [request EXCEPT ![r] = [New EXCEPT !.pc = "done", !.outcome = outcome]]

Arrive(r) ==
    /\ At(r, "new")
    /\ Proceed(r, "window")
    /\ UNCHANGED <<cacheVars, admitted, wasted, cut>>

(* current_window is read before the script is sent. *)
ReadWindow(r) ==
    /\ At(r, "window")
    /\ request' = [request EXCEPT ![r] = [New EXCEPT !.pc = "count", !.window = clock]]
    /\ UNCHANGED <<cacheVars, admitted, wasted, cut>>

-----------------------------------------------------------------------------
(* check_and_increment and the branches on its result *)

RunScript(r, verdict) ==
    /\ At(r, "count")
    /\ Verdict(KeyOf[r], request[r].window) = verdict
    /\ Charge(KeyOf[r], request[r].window)
    /\ UNCHANGED <<standing, copy, clock, cut>>

CountMiss(r) ==
    /\ RunScript(r, "miss")
    /\ Proceed(r, "lookup")
    /\ UNCHANGED <<admitted, wasted>>

CountRevoked(r) ==
    /\ RunScript(r, "revoked")
    /\ Answer(r, "unauthorized")
    /\ UNCHANGED <<admitted, wasted>>

CountOver(r) ==
    /\ RunScript(r, "over")
    /\ request' = [request EXCEPT ![r].pc = "done", ![r].outcome = "limited", ![r].sent = 0]
    /\ UNCHANGED <<admitted, wasted>>

CountAdmit(r) ==
    /\ RunScript(r, "admit")
    /\ admitted' = [admitted EXCEPT ![r] = request[r].window]
    /\ Proceed(r, "read")
    /\ UNCHANGED wasted

(* A slip in LoseAnswer: a call is repeated without end. *)
LoseAnswerAgain(r) ==
    /\ RunScript(r, Verdict(KeyOf[r], request[r].window))
    /\ request' = [request EXCEPT ![r].sent = @ + 1]
    /\ UNCHANGED <<admitted, wasted>>

(* The script ran, its answer did not arrive in time, and the client sends *)
(* the same call again.                                                    *)
LoseAnswer(r) ==
    LET k == KeyOf[r]
        w == request[r].window
    IN  /\ request[r].sent < Resends
        /\ RunScript(r, Verdict(k, w))
        /\ request' = [request EXCEPT ![r].sent = @ + 1]
        /\ wasted' = IF Verdict(k, w) = "admit"
                     THEN [wasted EXCEPT ![k][w] = IF @ < Limit THEN @ + 1 ELSE @]
                     ELSE wasted
        /\ UNCHANGED admitted

-----------------------------------------------------------------------------
(* After a miss: LookupApiKey of the auth service, then cache_metadata *)

(* A slip in LookUpKey: the developer is looked at and the key is not. *)
LookUpDeveloper(r) ==
    /\ At(r, "lookup")
    /\ standing[KeyOf[r]] # "unknown"
    /\ request' = [request EXCEPT ![r].pc = "store", ![r].found = "active"]
    /\ UNCHANGED <<cacheVars, admitted, wasted, cut>>

(* A revoked key is found, and cached, like an active one. *)
LookUpKey(r) ==
    /\ At(r, "lookup")
    /\ standing[KeyOf[r]] # "unknown"
    /\ request' = [request EXCEPT ![r].pc = "store", ![r].found = standing[KeyOf[r]]]
    /\ UNCHANGED <<cacheVars, admitted, wasted, cut>>

(* A slip in RefuseKey: the error is swallowed and the handler starts over. *)
RefuseAndRetry(r) ==
    /\ At(r, "lookup")
    /\ standing[KeyOf[r]] = "unknown"
    /\ Proceed(r, "window")
    /\ UNCHANGED <<cacheVars, admitted, wasted, cut>>

(* UNAUTHENTICATED: no such key, or its developer is inactive *)
RefuseKey(r) ==
    /\ At(r, "lookup")
    /\ standing[KeyOf[r]] = "unknown"
    /\ Answer(r, "unauthorized")
    /\ UNCHANGED <<cacheVars, admitted, wasted, cut>>

CacheKey(r) ==
    /\ At(r, "store")
    /\ StoreCopy(KeyOf[r], request[r].found)
    /\ Proceed(r, "expire")
    /\ UNCHANGED <<admitted, wasted, cut>>

(* A slip in ExpireKey: the handler does not call itself after a miss. *)
ExpireAndGoOn(r) ==
    /\ At(r, "expire")
    /\ LimitCopy(KeyOf[r])
    /\ Proceed(r, "read")
    /\ UNCHANGED <<admitted, wasted, cut>>

ExpireKey(r) ==
    /\ At(r, "expire")
    /\ LimitCopy(KeyOf[r])
    /\ Proceed(r, "window")
    /\ UNCHANGED <<admitted, wasted, cut>>

-----------------------------------------------------------------------------
(* get_cache_data once more, for the developer and the plan, which are     *)
(* None if the copy expired meanwhile.                                     *)
ReadKey(r) ==
    /\ At(r, "read")
    /\ request' = [request EXCEPT ![r].pc = "forward", ![r].found = copy[KeyOf[r]].status]
    /\ UNCHANGED <<cacheVars, admitted, wasted, cut>>

(* The request goes out with X-Developer-Id and X-Developer-Plan if they   *)
(* were found.                                                             *)
ForwardRequest(r) ==
    /\ At(r, "forward")
    /\ upstream' = [upstream EXCEPT ![r] =
                       IF request[r].found = "none" THEN "nameless" ELSE "named"]
    /\ Proceed(r, "await")
    /\ UNCHANGED <<cacheVars, admitted, wasted, cut>>

(* get_developer of the file service lets a request with both headers pass *)
(* and answers any other 401.                                              *)
ServeUpload(r) ==
    /\ upstream[r] = "named"
    /\ upstream' = [upstream EXCEPT ![r] = "served"]

RefuseUpload(r) ==
    /\ upstream[r] = "nameless"
    /\ upstream' = [upstream EXCEPT ![r] = "refused"]

RelayAnswer(r) ==
    /\ At(r, "await")
    /\ \/ upstream[r] = "served" /\ Answer(r, "forwarded")
       \/ upstream[r] = "refused" /\ Answer(r, "nameless")
    /\ UNCHANGED <<cacheVars, admitted, wasted, cut>>

(* 504; the file service may have the request, and serve it later. *)
TimeOut(r) ==
    /\ At(r, "await")
    /\ Answer(r, "timedout")
    /\ UNCHANGED <<cacheVars, admitted, wasted, cut>>

(* 503 or 502, or the gateway stops *)
BreakOff(r) ==
    /\ request[r].pc \in {"forward", "await"}
    /\ Answer(r, "failed")
    /\ UNCHANGED <<cacheVars, admitted, wasted, cut>>

(* Redis or the auth service cannot be reached, or the gateway stops *)
FailContext(r) ==
    /\ request[r].pc \in Working \ {"forward", "await"}
    /\ Answer(r, "failed")
    /\ cut' = (cut \/ At(r, "expire"))
    /\ UNCHANGED <<cacheVars, admitted, wasted>>

-----------------------------------------------------------------------------
ContextStep(r) ==
    \/ ReadWindow(r)
    \/ CountMiss(r)
    \/ CountRevoked(r)
    \/ CountOver(r)
    \/ CountAdmit(r)
    \/ LoseAnswer(r)
    \/ LookUpKey(r)
    \/ RefuseKey(r)
    \/ CacheKey(r)
    \/ ExpireKey(r)
    \/ ReadKey(r)
    \/ RelayAnswer(r)
    \/ TimeOut(r)
    \/ BreakOff(r)
    \/ FailContext(r)

RequestStep(r) ==
    \/ ContextStep(r) /\ UNCHANGED upstream
    \/ ForwardRequest(r)

ServiceStep ==
    \E r \in Requests :
        /\ ServeUpload(r) \/ RefuseUpload(r)
        /\ UNCHANGED <<cacheVars, gateVars>>

(* A call to Redis is over, with its repetitions, within the 100 seconds   *)
(* for which a counter outlives its hour (socket_timeout is five).         *)
Counting(k, w) == \E r \in Requests : At(r, "count") /\ KeyOf[r] = k /\ request[r].window = w

CacheStep ==
    /\ \/ NextHour
       \/ \E k \in Keys :
             \/ ChangeStanding(k)
             \/ ForgetCopy(k)
             \/ \E w \in Windows : ~ Counting(k, w) /\ ForgetUsage(k, w)
    /\ UNCHANGED <<gateVars, upstream>>

Next ==
    \/ \E r \in Requests : Arrive(r) /\ UNCHANGED upstream
    \/ \E r \in Requests : RequestStep(r)
    \/ ServiceStep
    \/ CacheStep

Spec == Init /\ [][Next]_vars

(* A request goes on.  Redis drops what has expired; the TTL is five       *)
(* minutes, so it does not end every time between the EXPIRE of a request  *)
(* and the script that follows it.  Nothing is assumed of the file service. *)
Fairness ==
    /\ \A r \in Requests :
          /\ WF_vars(RequestStep(r))
          /\ SF_vars(ReadWindow(r) /\ HasCopy(KeyOf[r]) /\ UNCHANGED upstream)
          /\ SF_vars((CountRevoked(r) \/ CountOver(r) \/ CountAdmit(r)) /\ UNCHANGED upstream)
    /\ \A k \in Keys :
          WF_vars(ForgetCopy(k) /\ UNCHANGED <<gateVars, upstream>>)

FairSpec == Spec /\ Fairness

-----------------------------------------------------------------------------
(* Every variable stays in its type. *)
TypeOK ==
    /\ CacheTypeOK
    /\ request \in [Requests ->
           [pc : Working \cup {"new", "done"}, window : Windows,
            found : Statuses \cup {"none"}, sent : 0..Resends,
            outcome : Outcomes \cup {"none"}]]
    /\ admitted \in [Requests -> {0} \cup Windows]
    /\ wasted \in [Keys -> [Windows -> 0..Limit]]
    /\ cut \in BOOLEAN
    /\ upstream \in [Requests -> {"none", "named", "nameless", "served", "refused"}]

AdmittedIn(k, w) == {r \in Requests : KeyOf[r] = k /\ admitted[r] = w}

(* However requests, repeated calls, expiring copies and the turn of the   *)
(* hour interleave, a key is admitted at most requests_per_hour times in   *)
(* any one hour.                                                           *)
WithinLimit ==
    \A k \in Keys, w \in Windows : Cardinality(AdmittedIn(k, w)) <= Limit

(* And it is not refused for less: a request gets 429 only if as many      *)
(* admissions as the plan grants went to requests of the same hour, or     *)
(* were lost on the way back from Redis.  A cache miss, a revoked key and  *)
(* the handler's second pass cost nothing.                                 *)
QuotaUsable ==
    \A r \in Requests : request[r].outcome = "limited" =>
        LET k == KeyOf[r]
            w == request[r].window
        IN  Cardinality(AdmittedIn(k, w)) + wasted[k][w] >= Limit

(* No upload reaches the file service uncharged: what it has was admitted  *)
(* in some hour of its key, also after a miss, when the handler calls      *)
(* itself and drops the result, and a client that was refused, or for      *)
(* whom a service failed before the admission, has nothing there, not even *)
(* later.                                                                  *)
ServedIsCharged ==
    \A r \in Requests : upstream[r] # "none" =>
        admitted[r] # 0 /\ request[r].outcome \notin {"unauthorized", "limited"}

(* A key without standing, with no copy that says otherwise and no such    *)
(* answer on its way into the cache, stays out: only a change in the       *)
(* database lets it in again.                                              *)
ShutOut(k) ==
    /\ standing[k] # "active"
    /\ copy[k].status # "active"
    /\ \A r \in Requests : KeyOf[r] = k /\ At(r, "store") => request[r].found # "active"

RevokedStaysOut ==
    [][\A k \in Keys : ShutOut(k) /\ standing'[k] = standing[k] =>
          /\ ShutOut(k)'
          /\ \A r \in Requests : KeyOf[r] = k => admitted'[r] = admitted[r]]_vars

(* A changed standing reaches the gateway in the end, in either direction, *)
(* whatever look-up was under way when it changed, unless a request ended  *)
(* between HSET and EXPIRE.                                                *)
OutdatedClears == \A k \in Keys : Outdated(k) ~> ~ Outdated(k) \/ cut

(* The part of it that needs no fairness: a copy has a TTL, or a request   *)
(* is about to set it, unless some request ended in between.               *)
CopiesExpire ==
    \A k \in Keys : HasCopy(k) /\ ~ copy[k].expires =>
        cut \/ \E r \in Requests : At(r, "expire") /\ KeyOf[r] = k

(* Every request is answered, although the handler calls itself for as     *)
(* long as it finds nothing in the cache.                                  *)
AllAnswered == \A r \in Requests : At(r, "window") ~> At(r, "done")

-----------------------------------------------------------------------------
(* Why the invariants are inductive *)

ClockAhead == \A r \in Requests : request[r].window <= clock /\ admitted[r] <= clock

(* A request is admitted once, before it is forwarded, and refused before. *)
AdmittedOnce ==
    \A r \in Requests :
        /\ request[r].pc \in {"new", "window", "count", "lookup", "store", "expire"} =>
              admitted[r] = 0
        /\ request[r].pc \in {"read", "forward", "await"} => admitted[r] # 0
        /\ request[r].pc # "done" => request[r].outcome = "none"
        /\ upstream[r] # "none" => request[r].pc \in {"await", "done"}

(* The counter of a window knows all its admissions for as long as it can  *)
(* be asked for another one; afterwards it may be dropped.                 *)
UsageCovers ==
    \A k \in Keys, w \in Windows :
        w = clock \/ Counting(k, w) => Cardinality(AdmittedIn(k, w)) <= usage[k][w]

(* And it counts nothing else, up to the limit. *)
Granted(k, w) == Cardinality(AdmittedIn(k, w)) + wasted[k][w]
UsageExplained ==
    \A k \in Keys, w \in Windows : usage[k][w] <= Granted(k, w) \/ Limit <= Granted(k, w)

GateInv ==
    /\ TypeOK
    /\ ClockAhead
    /\ AdmittedOnce
    /\ UsageCovers
    /\ UsageExplained
    /\ WithinLimit
    /\ QuotaUsable
    /\ ServedIsCharged

=============================================================================

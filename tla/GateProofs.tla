------------------------------ MODULE GateProofs ------------------------------
(***************************************************************************)
(* Proofs about the gateway's handling of API keys, for any limit and any  *)
(* finite number of concurrent requests with any keys.                     *)
(***************************************************************************)
EXTENDS ApiKeyGate, FiniteSetTheorems, TLAPS

-----------------------------------------------------------------------------
(* The parts of a step *)

Pcs == Working \cup {"new", "done"}
RequestState ==
    [pc : Pcs, window : Windows, found : Statuses \cup {"none"}, sent : 0..Resends,
     outcome : Outcomes \cup {"none"}]

LEMMA RequestStates ==
    /\ TypeOK <=> /\ CacheTypeOK
                  /\ request \in [Requests -> RequestState]
                  /\ admitted \in [Requests -> {0} \cup Windows]
                  /\ wasted \in [Keys -> [Windows -> 0..Limit]]
                  /\ cut \in BOOLEAN
                  /\ upstream \in [Requests -> {"none", "named", "nameless", "served", "refused"}]
    /\ New \in RequestState
    /\ \A pc \in {"new", "window", "count", "lookup", "store", "expire", "read", "forward",
                  "await", "done"} : pc \in Pcs
<1>1. New \in RequestState
  BY WindowAssumption, ResendsAssumption DEF New, RequestState, Windows, Statuses, Pcs
<1> QED
  BY <1>1 DEF TypeOK, RequestState, Pcs, Working

(* Where a request goes is a new state with its first window. *)
LEMMA Proceeds ==
    ASSUME TypeOK, NEW r \in Requests, NEW pc \in Pcs, Proceed(r, pc)
    PROVE  /\ request' \in [Requests -> RequestState]
           /\ \A q \in Requests \ {r} : request'[q] = request[q]
           /\ request'[r].pc = pc /\ request'[r].window = 1 /\ request'[r].outcome = "none"
<1>1. [New EXCEPT !.pc = pc] \in RequestState
  BY RequestStates DEF RequestState
<1>2. LET s == [New EXCEPT !.pc = pc] IN s.pc = pc /\ s.window = 1 /\ s.outcome = "none"
  BY DEF New
<1> QED
  BY <1>1, <1>2, RequestStates DEF Proceed

LEMMA Answers ==
    ASSUME TypeOK, NEW r \in Requests, NEW o \in Outcomes, Answer(r, o)
    PROVE  /\ request' \in [Requests -> RequestState]
           /\ \A q \in Requests \ {r} : request'[q] = request[q]
           /\ request'[r].pc = "done" /\ request'[r].window = 1 /\ request'[r].outcome = o
<1>0. New \in RequestState /\ New.window = 1
  BY RequestStates DEF New
<1>1. LET s == [New EXCEPT !.pc = "done", !.outcome = o]
      IN  s \in RequestState /\ s.pc = "done" /\ s.window = 1 /\ s.outcome = o
  BY <1>0, RequestStates DEF RequestState
<1> QED
  BY <1>1, RequestStates DEF Answer

(* The script charges one window of one key, or none. *)
LEMMA ScriptCharges ==
    ASSUME TypeOK, NEW r \in Requests, NEW v, RunScript(r, v)
    PROVE  /\ usage' \in [Keys -> [Windows -> 0..(Limit + 1)]]
           /\ \A k \in Keys, w \in Windows :
                 k # KeyOf[r] \/ w # request[r].window => usage'[k][w] = usage[k][w]
           /\ LET n == usage[KeyOf[r]][request[r].window]
                  m == usage'[KeyOf[r]][request[r].window]
              IN  /\ v \in {"miss", "revoked"} => m = n
                  /\ v = "over" => m \in {n, n + 1} /\ n >= Limit
                  /\ v = "admit" => m = n + 1 /\ m <= Limit
                  /\ v \in {"miss", "revoked", "over", "admit"}
<1> DEFINE k == KeyOf[r]
           w == request[r].window
<1>1. k \in Keys /\ w \in Windows
  BY KeyOfAssumption DEF TypeOK
<1>2. usage \in [Keys -> [Windows -> 0..(Limit + 1)]] /\ Limit \in Nat
  BY LimitAssumption DEF TypeOK, CacheTypeOK
<1>3. \A n \in 0..(Limit + 1) : Bump(n) \in 0..(Limit + 1)
  BY <1>2 DEF Bump
<1>4. /\ Verdict(k, w) = v
      /\ usage' = IF copy[k].status = "active"
                  THEN [usage EXCEPT ![k][w] = Bump(@)]
                  ELSE usage
  BY DEF RunScript, Charge
<1>5. copy[k].status \in {"active", "revoked", "none"}
  BY <1>1 DEF TypeOK, CacheTypeOK, Statuses
<1> HIDE DEF k, w
<1>6. usage' \in [Keys -> [Windows -> 0..(Limit + 1)]]
  <2>1. usage[k] \in [Windows -> 0..(Limit + 1)] /\ usage[k][w] \in 0..(Limit + 1)
    BY <1>1, <1>2
  <2>2. [usage[k] EXCEPT ![w] = Bump(usage[k][w])] \in [Windows -> 0..(Limit + 1)]
    BY <1>3, <2>1
  <2> QED
    BY <1>2, <1>4, <2>2
<1>7. \A j \in Keys, u \in Windows : j # k \/ u # w => usage'[j][u] = usage[j][u]
  BY <1>1, <1>2, <1>4
<1>8. usage'[k][w] = IF copy[k].status = "active" THEN Bump(usage[k][w]) ELSE usage[k][w]
  <2>1. CASE copy[k].status = "active"
    <3>1. usage' = [usage EXCEPT ![k] = [usage[k] EXCEPT ![w] = Bump(usage[k][w])]]
      BY <1>4, <2>1
    <3>2. usage'[k] = [usage[k] EXCEPT ![w] = Bump(usage[k][w])]
      BY <1>1, <1>2, <3>1
    <3>3. usage[k] \in [Windows -> 0..(Limit + 1)]
      BY <1>1, <1>2
    <3> QED
      BY <1>1, <2>1, <3>2, <3>3
  <2>2. CASE copy[k].status # "active"
    BY <1>4, <2>2
  <2> QED
    BY <2>1, <2>2
<1>9. usage[k][w] \in 0..(Limit + 1)
  BY <1>1, <1>2
<1>10. /\ v \in {"miss", "revoked"} => usage'[k][w] = usage[k][w]
       /\ v = "over" => usage'[k][w] \in {usage[k][w], usage[k][w] + 1} /\ usage[k][w] >= Limit
       /\ v = "admit" => usage'[k][w] = usage[k][w] + 1 /\ usage'[k][w] <= Limit
       /\ v \in {"miss", "revoked", "over", "admit"}
  <2>1. CASE copy[k].status = "active"
    <3>1. v = IF Bump(usage[k][w]) > Limit THEN "over" ELSE "admit"
      BY <1>4, <2>1 DEF Verdict
    <3> QED
      BY <1>2, <1>8, <1>9, <2>1, <3>1 DEF Bump
  <2>2. CASE copy[k].status = "revoked"
    BY <1>4, <1>8, <2>2 DEF Verdict
  <2>3. CASE copy[k].status = "none"
    BY <1>4, <1>8, <2>3 DEF Verdict
  <2> QED
    BY <1>5, <2>1, <2>2, <2>3
<1> QED
  BY <1>6, <1>7, <1>10 DEF k, w

(* The number of admissions is a number, and grows by one at most. *)
LEMMA AdmissionCounts ==
    ASSUME NEW k, NEW w
    PROVE  /\ Cardinality(AdmittedIn(k, w)) \in Nat
           /\ Cardinality(AdmittedIn(k, w))' \in Nat
           /\ admitted' = admitted =>
                 Cardinality(AdmittedIn(k, w))' = Cardinality(AdmittedIn(k, w))
<1>1. IsFiniteSet(AdmittedIn(k, w))
  <2>1. AdmittedIn(k, w) \in SUBSET Requests
    BY DEF AdmittedIn
  <2> QED
    BY <2>1, RequestsAssumption, FS_Subset
<1>2. Cardinality(AdmittedIn(k, w))' \in Nat
  <2> DEFINE then == {q \in Requests : KeyOf[q] = k /\ admitted'[q] = w}
  <2>1. then \in SUBSET Requests
    OBVIOUS
  <2>2. Cardinality(then) \in Nat
    BY <2>1, RequestsAssumption, FS_Subset, FS_CardinalityType
  <2> QED
    BY <2>2 DEF AdmittedIn
<1> QED
  BY <1>1, <1>2, FS_CardinalityType DEF AdmittedIn

LEMMA AdmissionAdded ==
    ASSUME NEW r \in Requests, admitted[r] = 0,
           \A q \in Requests \ {r} : admitted'[q] = admitted[q],
           NEW k, NEW w \in Windows
    PROVE  /\ k = KeyOf[r] /\ w = admitted'[r] =>
                 Cardinality(AdmittedIn(k, w))' = Cardinality(AdmittedIn(k, w)) + 1
           /\ k # KeyOf[r] \/ w # admitted'[r] =>
                 Cardinality(AdmittedIn(k, w))' = Cardinality(AdmittedIn(k, w))
<1> DEFINE now == AdmittedIn(k, w)
           then == {q \in Requests : KeyOf[q] = k /\ admitted'[q] = w}
<1>1. w # 0
  BY DEF Windows
<1>3. then = IF k = KeyOf[r] /\ w = admitted'[r] THEN now \cup {r} ELSE now
  BY <1>1 DEF AdmittedIn
<1>4. r \notin now
  BY <1>1 DEF AdmittedIn
<1>5. IsFiniteSet(now) /\ Cardinality(now) \in Nat
  <2>1. now \in SUBSET Requests
    BY DEF AdmittedIn
  <2> QED
    BY <2>1, RequestsAssumption, FS_Subset, FS_CardinalityType
<1>6. Cardinality(now \cup {r}) = Cardinality(now) + 1
  BY <1>4, <1>5, FS_AddElement
<1>7. Cardinality(AdmittedIn(k, w))' = Cardinality(then)
  BY DEF AdmittedIn
<1> HIDE DEF now, then
<1>8. Cardinality(AdmittedIn(k, w)) = Cardinality(now)
  BY DEF now
<1> QED
  BY <1>3, <1>5, <1>6, <1>7, <1>8

-----------------------------------------------------------------------------
(* Types *)

LEMMA GateTypes ==
    ASSUME TypeOK, [Next]_vars
    PROVE  TypeOK'
<1> DEFINE Rest == /\ CacheTypeOK'
                   /\ admitted' \in [Requests -> {0} \cup Windows]
                   /\ wasted' \in [Keys -> [Windows -> 0..Limit]]
                   /\ cut' \in BOOLEAN
<1> USE LimitAssumption, KeyOfAssumption
<1>1. ASSUME NEW r \in Requests, Arrive(r) PROVE request' \in [Requests -> RequestState] /\ Rest
  BY <1>1, Proceeds DEF Arrive, Pcs, Working, TypeOK, CacheTypeOK, cacheVars
<1>2. ASSUME NEW r \in Requests, ReadWindow(r)
      PROVE  request' \in [Requests -> RequestState] /\ Rest
  <2>1. [New EXCEPT !.pc = "count", !.window = clock] \in RequestState
    BY RequestStates DEF RequestState, CacheTypeOK
  <2>2. request' = [request EXCEPT ![r] = [New EXCEPT !.pc = "count", !.window = clock]]
    BY <1>2 DEF ReadWindow
  <2>3. request' \in [Requests -> RequestState]
    BY <2>1, <2>2, RequestStates
  <2>4. Rest
    BY <1>2 DEF ReadWindow, TypeOK, CacheTypeOK, cacheVars
  <2> QED
    BY <2>3, <2>4
<1>3. ASSUME NEW r \in Requests, NEW v, RunScript(r, v)
      PROVE  CacheTypeOK' /\ cut' \in BOOLEAN /\ request[r].window \in Windows
  BY <1>3, ScriptCharges DEF RunScript, TypeOK, CacheTypeOK
<1>4. ASSUME NEW r \in Requests, CountMiss(r) PROVE request' \in [Requests -> RequestState] /\ Rest
  BY <1>3, <1>4, Proceeds DEF CountMiss, Pcs, Working, TypeOK
<1>5. ASSUME NEW r \in Requests, CountRevoked(r)
      PROVE  request' \in [Requests -> RequestState] /\ Rest
  BY <1>3, <1>5, Answers DEF CountRevoked, Outcomes, TypeOK
<1>6. ASSUME NEW r \in Requests, CountOver(r) PROVE request' \in [Requests -> RequestState] /\ Rest
  <2>1. request' \in [Requests -> RequestState]
    <3>1. /\ request' = [request EXCEPT ![r].pc = "done", ![r].outcome = "limited", ![r].sent = 0]
          /\ request \in [Requests -> RequestState]
          /\ "done" \in Pcs /\ "limited" \in Outcomes /\ 0 \in 0..Resends
      BY <1>6, ResendsAssumption, RequestStates DEF CountOver, Outcomes
    <3> QED
      BY <3>1 DEF RequestState
  <2> QED
    BY <1>3, <1>6, <2>1 DEF CountOver, TypeOK
<1>7. ASSUME NEW r \in Requests, CountAdmit(r)
      PROVE  request' \in [Requests -> RequestState] /\ Rest
  <2>1. admitted' \in [Requests -> {0} \cup Windows]
    BY <1>3, <1>7 DEF CountAdmit, TypeOK
  <2> QED
    BY <1>3, <1>7, <2>1, Proceeds DEF CountAdmit, Pcs, Working, TypeOK
<1>8. ASSUME NEW r \in Requests, LoseAnswer(r)
      PROVE  request' \in [Requests -> RequestState] /\ Rest
  <2> DEFINE k == KeyOf[r]
             w == request[r].window
  <2>1. request' \in [Requests -> RequestState]
    <3>1. /\ request' = [request EXCEPT ![r].sent = @ + 1]
          /\ request[r].sent < Resends /\ Resends \in Nat
          /\ request \in [Requests -> RequestState]
      BY <1>8, ResendsAssumption, RequestStates DEF LoseAnswer
    <3> QED
      BY <3>1 DEF RequestState
  <2>2. k \in Keys /\ w \in Windows /\ RunScript(r, Verdict(k, w))
    BY <1>8 DEF LoseAnswer, TypeOK
  <2>3. wasted' = IF Verdict(k, w) = "admit"
                  THEN [wasted EXCEPT ![k][w] = IF @ < Limit THEN @ + 1 ELSE @]
                  ELSE wasted
    BY <1>8 DEF LoseAnswer
  <2>4. admitted' = admitted
    BY <1>8 DEF LoseAnswer
  <2> HIDE DEF k, w
  <2>5. wasted[k] \in [Windows -> 0..Limit] /\ wasted[k][w] \in 0..Limit
    BY <2>2 DEF TypeOK
  <2>6. (IF wasted[k][w] < Limit THEN wasted[k][w] + 1 ELSE wasted[k][w]) \in 0..Limit
    BY <2>5
  <2>7. wasted' \in [Keys -> [Windows -> 0..Limit]]
    BY <2>2, <2>3, <2>6 DEF TypeOK
  <2> QED
    BY <1>3, <2>1, <2>2, <2>4, <2>7 DEF TypeOK
<1>9. ASSUME NEW r \in Requests, LookUpKey(r) PROVE request' \in [Requests -> RequestState] /\ Rest
  <2>1. standing[KeyOf[r]] \in Statuses
    BY <1>9 DEF LookUpKey, TypeOK, CacheTypeOK, Standings, Statuses
  <2>2. request' \in [Requests -> RequestState]
    <3>1. /\ request' = [request EXCEPT ![r].pc = "store", ![r].found = standing[KeyOf[r]]]
          /\ request \in [Requests -> RequestState] /\ "store" \in Pcs
      BY <1>9, RequestStates DEF LookUpKey
    <3> QED
      BY <2>1, <3>1 DEF RequestState
  <2> QED
    BY <1>9, <2>2 DEF LookUpKey, TypeOK, CacheTypeOK, cacheVars
<1>10. ASSUME NEW r \in Requests, RefuseKey(r)
       PROVE  request' \in [Requests -> RequestState] /\ Rest
  BY <1>10, Answers DEF RefuseKey, Outcomes, TypeOK, CacheTypeOK, cacheVars
<1>11. ASSUME NEW r \in Requests, CacheKey(r) \/ ExpireKey(r)
       PROVE  request' \in [Requests -> RequestState] /\ Rest
  <2>1. \E pc \in {"expire", "window"} : Proceed(r, pc)
    BY <1>11 DEF CacheKey, ExpireKey
  <2>2. request' \in [Requests -> RequestState]
    BY <2>1, Proceeds DEF Pcs, Working
  <2>3. /\ UNCHANGED <<standing, usage, clock, admitted, wasted, cut>>
        /\ \/ /\ At(r, "store")
              /\ copy' = [copy EXCEPT ![KeyOf[r]] = [status |-> request[r].found,
                                                     expires |-> copy[KeyOf[r]].expires]]
           \/ copy' = [copy EXCEPT ![KeyOf[r]] = [status |-> copy[KeyOf[r]].status,
                                                  expires |-> HasCopy(KeyOf[r])]]
    BY <1>11 DEF CacheKey, ExpireKey, StoreCopy, LimitCopy
  <2>4. copy' \in [Keys -> [status : Statuses \cup {"none"}, expires : BOOLEAN]]
    <3>1. /\ request[r].found \in Statuses \cup {"none"} /\ KeyOf[r] \in Keys
          /\ copy \in [Keys -> [status : Statuses \cup {"none"}, expires : BOOLEAN]]
      BY DEF TypeOK, CacheTypeOK
    <3>2. HasCopy(KeyOf[r]) \in BOOLEAN
      BY DEF HasCopy
    <3> QED
      BY <2>3, <3>1, <3>2
  <2> QED
    BY <2>2, <2>3, <2>4 DEF TypeOK, CacheTypeOK
<1>12. ASSUME NEW r \in Requests, ReadKey(r) PROVE request' \in [Requests -> RequestState] /\ Rest
  <2>1. copy[KeyOf[r]].status \in Statuses \cup {"none"}
    BY DEF TypeOK, CacheTypeOK
  <2>2. request' \in [Requests -> RequestState]
    <3>1. /\ request' = [request EXCEPT ![r].pc = "forward", ![r].found = copy[KeyOf[r]].status]
          /\ request \in [Requests -> RequestState] /\ "forward" \in Pcs
      BY <1>12, RequestStates DEF ReadKey
    <3> QED
      BY <2>1, <3>1 DEF RequestState
  <2> QED
    BY <1>12, <2>2 DEF ReadKey, TypeOK, CacheTypeOK, cacheVars
<1>13. ASSUME NEW r \in Requests, ForwardRequest(r)
       PROVE  request' \in [Requests -> RequestState] /\ Rest
  BY <1>13, Proceeds DEF ForwardRequest, Pcs, Working, TypeOK, CacheTypeOK, cacheVars
<1>14. ASSUME NEW r \in Requests, RelayAnswer(r) \/ TimeOut(r) \/ BreakOff(r) \/ FailContext(r)
       PROVE  request' \in [Requests -> RequestState] /\ Rest
  <2>1. \E o \in Outcomes : Answer(r, o)
    BY <1>14 DEF RelayAnswer, TimeOut, BreakOff, FailContext, Outcomes
  <2>2. UNCHANGED <<cacheVars, admitted, wasted>> /\ cut' \in BOOLEAN
    BY <1>14 DEF RelayAnswer, TimeOut, BreakOff, FailContext, TypeOK
  <2> QED
    BY <2>1, <2>2, Answers DEF TypeOK, CacheTypeOK, cacheVars
<1>15. ASSUME CacheStep PROVE request' \in [Requests -> RequestState] /\ Rest
  <2>1. UNCHANGED gateVars
    BY <1>15 DEF CacheStep
  <2>2. CacheTypeOK'
    <3> USE DEF TypeOK, CacheTypeOK
    <3>1. CASE NextHour
      BY <3>1, WindowAssumption DEF NextHour, Windows
    <3>2. ASSUME NEW k \in Keys, ChangeStanding(k) PROVE CacheTypeOK'
      BY <3>2 DEF ChangeStanding
    <3>3. ASSUME NEW k \in Keys, ForgetCopy(k) PROVE CacheTypeOK'
      BY <3>3 DEF ForgetCopy, NoCopy
    <3>4. ASSUME NEW k \in Keys, NEW w \in Windows, ForgetUsage(k, w) PROVE CacheTypeOK'
      BY <3>4 DEF ForgetUsage
    <3> QED
      BY <1>15, <3>1, <3>2, <3>3, <3>4 DEF CacheStep
  <2> QED
    BY <2>1, <2>2 DEF gateVars, TypeOK, RequestState, Pcs
<1>16. CASE UNCHANGED vars
  BY <1>16 DEF vars, cacheVars, gateVars, TypeOK, CacheTypeOK
<1>17. [Next]_vars => upstream' \in [Requests -> {"none", "named", "nameless", "served", "refused"}]
  BY DEF TypeOK, Next, RequestStep, ServiceStep, CacheStep, ForwardRequest, ServeUpload,
         RefuseUpload, vars
<1>18. CASE ServiceStep
  BY <1>17, <1>18 DEF ServiceStep, cacheVars, gateVars, TypeOK, CacheTypeOK
<1> HIDE DEF Rest
<1>19. ASSUME request' \in [Requests -> RequestState], Rest PROVE TypeOK'
  BY <1>17, <1>19 DEF Rest, TypeOK, RequestState, Pcs
<1> QED
  BY <1>1, <1>2, <1>4, <1>5, <1>6, <1>7, <1>8, <1>9, <1>10, <1>11, <1>12, <1>13, <1>14, <1>15,
     <1>16, <1>18, <1>19
  DEF Next, RequestStep, ContextStep

-----------------------------------------------------------------------------
(* The course of a request *)

Early == {"new", "window", "count", "lookup", "store", "expire"}
Late == {"read", "forward", "await"}

LEMMA CourseKept ==
    ASSUME TypeOK, ClockAhead, AdmittedOnce, ServedIsCharged, [Next]_vars
    PROVE  ClockAhead' /\ AdmittedOnce' /\ ServedIsCharged'
<1> DEFINE Good(q) ==
              /\ request[q].window <= clock /\ admitted[q] <= clock
              /\ request[q].pc \in Early => admitted[q] = 0
              /\ request[q].pc \in Late => admitted[q] # 0
              /\ request[q].pc # "done" => request[q].outcome = "none"
              /\ upstream[q] # "none" =>
                    /\ request[q].pc \in {"await", "done"}
                    /\ admitted[q] # 0 /\ request[q].outcome \notin {"unauthorized", "limited"}
<1>1. \A q \in Requests : Good(q)
  BY DEF ClockAhead, AdmittedOnce, ServedIsCharged, Early, Late
<1>2. /\ clock \in Nat /\ clock' \in Nat /\ 1 <= clock /\ clock <= clock'
      /\ \A q \in Requests : request[q].window \in Nat /\ admitted[q] \in Nat
  <2>1. clock' \in {clock, clock + 1}
    BY DEF Next, RequestStep, ContextStep, ServiceStep, CacheStep, Arrive, ReadWindow, RunScript,
           CountMiss, CountRevoked, CountOver, CountAdmit, LoseAnswer, LookUpKey, RefuseKey,
           CacheKey, ExpireKey, StoreCopy, LimitCopy, ReadKey, ForwardRequest, RelayAnswer,
           TimeOut, BreakOff, FailContext, NextHour, ChangeStanding, ForgetCopy, ForgetUsage,
           vars, cacheVars
  <2>2. clock \in Nat /\ 1 <= clock
    BY WindowAssumption DEF TypeOK, CacheTypeOK, Windows
  <2>3. \A q \in Requests : request[q].window \in Nat /\ admitted[q] \in Nat
    BY WindowAssumption DEF TypeOK, Windows
  <2> QED
    BY <2>1, <2>2, <2>3
<1>3. ASSUME NEW q \in Requests, UNCHANGED <<request[q], admitted[q], upstream[q]>>
      PROVE  Good(q)'
  BY <1>1, <1>2, <1>3
<1>4. ASSUME NEW q \in Requests, UNCHANGED <<admitted, upstream, clock>>,
             request[q].pc \in Early,
             request'[q].pc \in {"window", "count", "lookup", "store", "expire"},
             request'[q].window <= clock, request'[q].outcome = "none"
      PROVE  Good(q)'
  BY <1>1, <1>2, <1>4 DEF Early, Late
<1>5. ASSUME NEW q \in Requests, UNCHANGED <<admitted, upstream, clock>>,
             request[q].pc \in Early, request'[q].pc = "done", request'[q].window <= clock
      PROVE  Good(q)'
  BY <1>1, <1>2, <1>5 DEF Early, Late
<1>6. ASSUME NEW q \in Requests, UNCHANGED <<admitted, clock>>,
             request[q].pc \in Late, request'[q].pc \in Late \cup {"done"},
             request'[q].window <= clock, request'[q].outcome \notin {"unauthorized", "limited"},
             request'[q].pc # "done" => request'[q].outcome = "none",
             upstream'[q] # "none" => request'[q].pc \in {"await", "done"}
      PROVE  Good(q)'
  BY <1>1, <1>2, <1>6 DEF Early, Late
<1>7. ASSUME NEW r \in Requests, Arrive(r), UNCHANGED upstream PROVE \A q \in Requests : Good(q)'
  <2>1. Proceed(r, "window") /\ request[r].pc \in Early /\ UNCHANGED <<admitted, upstream, clock>>
    BY <1>7 DEF Arrive, cacheVars, At, Early
  <2>2. \A q \in Requests \ {r} : Good(q)'
    BY <1>3, <2>1, RequestStates, Proceeds
  <2>3. Good(r)'
    BY <1>2, <1>4, <2>1, RequestStates, Proceeds
  <2> QED
    BY <2>2, <2>3
<1>8. ASSUME NEW r \in Requests, ReadWindow(r), UNCHANGED upstream
      PROVE  \A q \in Requests : Good(q)'
  <2>1. /\ request[r].pc \in Early /\ UNCHANGED <<admitted, upstream, clock>>
        /\ request' = [request EXCEPT ![r] = [New EXCEPT !.pc = "count", !.window = clock]]
    BY <1>8 DEF ReadWindow, cacheVars, At, Early
  <2>2. LET s == [New EXCEPT !.pc = "count", !.window = clock]
        IN  s.pc = "count" /\ s.window = clock /\ s.outcome = "none"
    BY DEF New
  <2>3. \A q \in Requests \ {r} : Good(q)'
    BY <1>3, <2>1, RequestStates
  <2>4. Good(r)'
    BY <1>2, <1>4, <2>1, <2>2, RequestStates
  <2> QED
    BY <2>3, <2>4
<1>9. ASSUME NEW r \in Requests,
             \/ CountMiss(r)
             \/ CacheKey(r)
             \/ ExpireKey(r),
             UNCHANGED upstream
      PROVE  \A q \in Requests : Good(q)'
  <2>1. /\ request[r].pc \in Early /\ UNCHANGED <<admitted, upstream, clock>>
        /\ \E pc \in {"window", "lookup", "expire"} : Proceed(r, pc)
    BY <1>9 DEF CountMiss, RunScript, CacheKey, ExpireKey, StoreCopy, LimitCopy, At, Early
  <2>2. \A q \in Requests \ {r} : Good(q)'
    BY <1>3, <2>1, RequestStates, Proceeds
  <2>3. Good(r)'
    BY <1>2, <1>4, <2>1, RequestStates, Proceeds
  <2> QED
    BY <2>2, <2>3
<1>10. ASSUME NEW r \in Requests, CountRevoked(r) \/ RefuseKey(r), UNCHANGED upstream
       PROVE  \A q \in Requests : Good(q)'
  <2>1. /\ request[r].pc \in Early /\ UNCHANGED <<admitted, upstream, clock>>
        /\ Answer(r, "unauthorized") /\ "unauthorized" \in Outcomes
    BY <1>10 DEF CountRevoked, RunScript, RefuseKey, cacheVars, At, Early, Outcomes
  <2>2. \A q \in Requests \ {r} : Good(q)'
    BY <1>3, <2>1, Answers
  <2>3. Good(r)'
    BY <1>2, <1>5, <2>1, Answers
  <2> QED
    BY <2>2, <2>3
<1>11. ASSUME NEW r \in Requests, CountOver(r) \/ LoseAnswer(r) \/ LookUpKey(r), UNCHANGED upstream
       PROVE  \A q \in Requests : Good(q)'
  <2>1. request[r].pc \in Early /\ UNCHANGED <<admitted, upstream, clock>>
    BY <1>11 DEF CountOver, LoseAnswer, RunScript, LookUpKey, cacheVars, At, Early
  <2>2. \A q \in Requests \ {r} : request'[q] = request[q]
    BY <1>11, RequestStates DEF CountOver, LoseAnswer, LookUpKey
  <2>3. /\ request'[r].window = request[r].window
        /\ \/ request'[r].pc = "done"
           \/ /\ request'[r].pc \in {"count", "store"}
              /\ request'[r].outcome = request[r].outcome
    <3>1. request \in [Requests -> RequestState]
      BY RequestStates
    <3>2. CASE CountOver(r)
      BY <3>1, <3>2 DEF CountOver, RequestState
    <3>3. CASE LoseAnswer(r)
      BY <3>1, <3>3 DEF LoseAnswer, RunScript, At, RequestState
    <3>4. CASE LookUpKey(r)
      BY <3>1, <3>4 DEF LookUpKey, RequestState
    <3> QED
      BY <1>11, <3>2, <3>3, <3>4
  <2>4. \A q \in Requests \ {r} : Good(q)'
    BY <1>3, <2>1, <2>2
  <2>5. request[r].outcome = "none"
    BY <1>1, <2>1 DEF Early
  <2>6. Good(r)'
    BY <1>1, <1>4, <1>5, <2>1, <2>3, <2>5
  <2> QED
    BY <2>4, <2>6
<1>12. ASSUME NEW r \in Requests, CountAdmit(r), UNCHANGED upstream
       PROVE  \A q \in Requests : Good(q)'
  <2>1. /\ request[r].pc = "count" /\ UNCHANGED <<upstream, clock>> /\ Proceed(r, "read")
        /\ admitted' = [admitted EXCEPT ![r] = request[r].window]
    BY <1>12 DEF CountAdmit, RunScript, At
  <2>2. /\ \A q \in Requests \ {r} : admitted'[q] = admitted[q]
        /\ admitted'[r] = request[r].window /\ request[r].window \in 1..MaxWindow
    BY <2>1 DEF TypeOK, Windows
  <2>3. \A q \in Requests \ {r} : Good(q)'
    BY <1>3, <2>1, <2>2, RequestStates, Proceeds
  <2>4. /\ request'[r].pc = "read" /\ request'[r].window = 1 /\ request'[r].outcome = "none"
    BY <2>1, RequestStates, Proceeds
  <2>5. upstream'[r] = "none"
    BY <1>1, <2>1
  <2>6. Good(r)'
    BY <1>1, <1>2, <2>1, <2>2, <2>4, <2>5, WindowAssumption DEF Early, Late
  <2> QED
    BY <2>3, <2>6
<1>13. ASSUME NEW r \in Requests, ReadKey(r), UNCHANGED upstream
       PROVE  \A q \in Requests : Good(q)'
  <2>1. request[r].pc = "read" /\ UNCHANGED <<admitted, upstream, clock>>
    BY <1>13 DEF ReadKey, cacheVars, At
  <2>2. /\ \A q \in Requests \ {r} : request'[q] = request[q]
        /\ request'[r].pc = "forward" /\ request'[r].window = request[r].window
        /\ request'[r].outcome = request[r].outcome
    BY <1>13, RequestStates DEF ReadKey, RequestState
  <2>3. \A q \in Requests \ {r} : Good(q)'
    BY <1>3, <2>1, <2>2
  <2>4. Good(r)'
    BY <1>1, <1>6, <2>1, <2>2 DEF Late
  <2> QED
    BY <2>3, <2>4
<1>14. ASSUME NEW r \in Requests, ForwardRequest(r) PROVE \A q \in Requests : Good(q)'
  <2>1. request[r].pc = "forward" /\ Proceed(r, "await") /\ UNCHANGED <<admitted, clock>>
    BY <1>14 DEF ForwardRequest, cacheVars, At
  <2>2. \A q \in Requests \ {r} : upstream'[q] = upstream[q]
    BY <1>14 DEF ForwardRequest, TypeOK
  <2>3. \A q \in Requests \ {r} : Good(q)'
    BY <1>3, <2>1, <2>2, RequestStates, Proceeds
  <2>4. Good(r)'
    BY <1>2, <1>6, <2>1, RequestStates, Proceeds DEF Late
  <2> QED
    BY <2>3, <2>4
<1>15. ASSUME NEW r \in Requests, RelayAnswer(r) \/ TimeOut(r) \/ BreakOff(r), UNCHANGED upstream
       PROVE  \A q \in Requests : Good(q)'
  <2>1. /\ request[r].pc \in Late /\ UNCHANGED <<admitted, clock>>
        /\ \E o \in Outcomes \ {"unauthorized", "limited"} : Answer(r, o)
    BY <1>15 DEF RelayAnswer, TimeOut, BreakOff, cacheVars, At, Late, Outcomes
  <2>2. \A q \in Requests \ {r} : Good(q)'
    BY <1>3, <1>15, <2>1, Answers
  <2>3. Good(r)'
    BY <1>2, <1>6, <2>1, Answers
  <2> QED
    BY <2>2, <2>3
<1>16. ASSUME NEW r \in Requests, FailContext(r), UNCHANGED upstream
       PROVE  \A q \in Requests : Good(q)'
  <2>1. /\ request[r].pc \in Early \cup {"read"} /\ UNCHANGED <<admitted, clock>>
        /\ Answer(r, "failed") /\ "failed" \in Outcomes
    BY <1>16 DEF FailContext, cacheVars, Working, Early, Outcomes
  <2>2. \A q \in Requests \ {r} : Good(q)'
    BY <1>3, <1>16, <2>1, Answers
  <2>3. Good(r)'
    BY <1>2, <1>5, <1>6, <1>16, <2>1, Answers DEF Late
  <2> QED
    BY <2>2, <2>3
<1>17. ASSUME NEW r \in Requests, ServeUpload(r) \/ RefuseUpload(r),
              UNCHANGED <<cacheVars, gateVars>>
       PROVE  \A q \in Requests : Good(q)'
  <2>1. UNCHANGED <<request, admitted, clock>>
    BY <1>17 DEF cacheVars, gateVars
  <2>2. upstream[r] # "none" /\ \A q \in Requests \ {r} : upstream'[q] = upstream[q]
    BY <1>17 DEF ServeUpload, RefuseUpload, TypeOK
  <2> QED
    BY <1>1, <2>1, <2>2
<1>18. ASSUME UNCHANGED <<gateVars, upstream>> PROVE \A q \in Requests : Good(q)'
  BY <1>3, <1>18 DEF gateVars
<1>19. UNCHANGED vars => UNCHANGED <<gateVars, upstream>>
  BY DEF vars
<1> HIDE DEF Good
<1>20. \A q \in Requests : Good(q)'
  BY <1>7, <1>8, <1>9, <1>10, <1>11, <1>12, <1>13, <1>14, <1>15, <1>16, <1>17, <1>18, <1>19
  DEF Next, RequestStep, ContextStep, ServiceStep, CacheStep
<1> QED
  BY <1>20 DEF Good, ClockAhead, AdmittedOnce, ServedIsCharged, Early, Late

(* 429 is the answer of CountOver only, and an answer is final. *)
LEMMA LimitedByScript ==
    ASSUME TypeOK, AdmittedOnce, [Next]_vars, NEW q \in Requests, request'[q].outcome = "limited"
    PROVE  \/ request'[q] = request[q]
           \/ CountOver(q) /\ request'[q].window = request[q].window
<1> SUFFICES ASSUME request'[q] # request[q]
             PROVE  CountOver(q) /\ request'[q].window = request[q].window
  OBVIOUS
<1>0. request \in [Requests -> RequestState]
  BY RequestStates
<1>1. ASSUME NEW r \in Requests, NEW pc \in Pcs, Proceed(r, pc) PROVE FALSE
  BY <1>1, Proceeds
<1>2. ASSUME NEW r \in Requests, NEW o \in Outcomes \ {"limited"}, Answer(r, o) PROVE FALSE
  BY <1>2, Answers
<1>3. ASSUME NEW r \in Requests,
             \/ Arrive(r) \/ CountMiss(r) \/ CountAdmit(r) \/ CacheKey(r) \/ ExpireKey(r)
             \/ ForwardRequest(r)
      PROVE  FALSE
  <2>1. \E pc \in {"window", "lookup", "read", "expire", "await"} : Proceed(r, pc)
    BY <1>3 DEF Arrive, CountMiss, CountAdmit, CacheKey, ExpireKey, ForwardRequest
  <2> QED
    BY <1>1, <2>1, RequestStates
<1>4. ASSUME NEW r \in Requests,
             \/ CountRevoked(r) \/ RefuseKey(r) \/ RelayAnswer(r) \/ TimeOut(r) \/ BreakOff(r)
             \/ FailContext(r)
      PROVE  FALSE
  <2>1. \E o \in Outcomes \ {"limited"} : Answer(r, o)
    BY <1>4
    DEF CountRevoked, RefuseKey, RelayAnswer, TimeOut, BreakOff, FailContext, Outcomes
  <2> QED
    BY <1>2, <2>1
<1>5. ASSUME NEW r \in Requests, LoseAnswer(r) \/ LookUpKey(r) \/ ReadKey(r) PROVE FALSE
  <2>1. request[r].pc # "done" /\ request'[r].outcome = request[r].outcome
    BY <1>0, <1>5 DEF LoseAnswer, RunScript, LookUpKey, ReadKey, At, RequestState
  <2>2. request'[q] # request[q] => q = r
    BY <1>0, <1>5 DEF LoseAnswer, LookUpKey, ReadKey
  <2> QED
    BY <2>1, <2>2 DEF AdmittedOnce
<1>6. ASSUME NEW r \in Requests, ReadWindow(r) PROVE FALSE
  <2>1. request' = [request EXCEPT ![r] = [New EXCEPT !.pc = "count", !.window = clock]]
    BY <1>6 DEF ReadWindow
  <2>2. LET s == [New EXCEPT !.pc = "count", !.window = clock] IN s.outcome = "none"
    BY DEF New
  <2> QED
    BY <1>0, <2>1, <2>2
<1>7. ASSUME NEW r \in Requests, CountOver(r)
      PROVE  CountOver(q) /\ request'[q].window = request[q].window
  <2>1. request' = [request EXCEPT ![r].pc = "done", ![r].outcome = "limited", ![r].sent = 0]
    BY <1>7 DEF CountOver
  <2>2. r = q
    BY <1>0, <2>1
  <2>3. request'[r].window = request[r].window
    BY <1>0, <2>1 DEF RequestState
  <2> QED
    BY <1>7, <2>2, <2>3
<1>8. request' # request
  OBVIOUS
<1> QED
  BY <1>3, <1>4, <1>5, <1>6, <1>7, <1>8
  DEF Next, RequestStep, ContextStep, ServiceStep, CacheStep, gateVars, vars

-----------------------------------------------------------------------------
(* Admissions and counters *)

Covered(k, w) == w = clock \/ Counting(k, w)

LEMMA CountersAreNumbers ==
    ASSUME TypeOK
    PROVE  /\ Limit \in Nat
           /\ \A k \in Keys, w \in Windows : usage[k][w] \in Nat /\ wasted[k][w] \in Nat
           /\ \A k \in Keys, w \in Windows :
                 Cardinality(AdmittedIn(k, w)) \in Nat /\ Granted(k, w) \in Nat
<1>1. \A k \in Keys, w \in Windows : usage[k][w] \in Nat /\ wasted[k][w] \in Nat
  BY LimitAssumption DEF TypeOK, CacheTypeOK
<1>2. \A k \in Keys, w \in Windows : Cardinality(AdmittedIn(k, w)) \in Nat
  BY AdmissionCounts
<1> QED
  BY <1>1, <1>2, LimitAssumption DEF Granted

(* The script that does not admit, or whose answer is lost *)
LEMMA UnadmittedKept ==
    ASSUME GateInv, NEW r \in Requests,
           CountMiss(r) \/ CountRevoked(r) \/ CountOver(r) \/ LoseAnswer(r)
    PROVE  UsageCovers' /\ UsageExplained' /\ WithinLimit'
<1> USE DEF GateInv
<1> DEFINE k0 == KeyOf[r]
           w0 == request[r].window
<1>0. request \in [Requests -> RequestState] /\ k0 \in Keys /\ w0 \in Windows /\ At(r, "count")
  BY RequestStates, KeyOfAssumption
  DEF TypeOK, CountMiss, CountRevoked, CountOver, LoseAnswer, RunScript
<1>1. admitted' = admitted /\ clock' = clock
  BY DEF CountMiss, CountRevoked, CountOver, LoseAnswer, RunScript
<1>2. /\ \A k \in Keys, w \in Windows : k # k0 \/ w # w0 => usage'[k][w] = usage[k][w]
      /\ \/ usage'[k0][w0] = usage[k0][w0]
         \/ usage'[k0][w0] = usage[k0][w0] + 1 /\ Limit <= usage[k0][w0]
         \/ /\ usage'[k0][w0] = usage[k0][w0] + 1 /\ Verdict(k0, w0) = "admit"
            /\ LoseAnswer(r)
  <2>1. PICK v \in {"miss", "revoked", "over", "admit"} :
           RunScript(r, v) /\ (v = "admit" => LoseAnswer(r))
    <3>1. CASE LoseAnswer(r)
      <4>1. RunScript(r, Verdict(k0, w0))
        BY <3>1 DEF LoseAnswer
      <4>2. Verdict(k0, w0) \in {"miss", "revoked", "over", "admit"}
        BY <4>1, ScriptCharges
      <4> QED
        BY <3>1, <4>1, <4>2
    <3> QED
      BY <3>1 DEF CountMiss, CountRevoked, CountOver
  <2>2. v = "admit" => Verdict(k0, w0) = "admit"
    BY <2>1 DEF RunScript
  <2> QED
    BY <2>1, <2>2, ScriptCharges, CountersAreNumbers, <1>0
<1>3. \A k \in Keys, w \in Windows : wasted'[k][w] >= wasted[k][w] /\ wasted'[k][w] \in Nat
  <2>1. CASE wasted' = wasted
    BY <2>1, CountersAreNumbers
  <2>2. CASE wasted' = [wasted EXCEPT ![k0][w0] = IF @ < Limit THEN @ + 1 ELSE @]
    BY <1>0, <2>2, LimitAssumption DEF TypeOK
  <2> QED
    BY <2>1, <2>2 DEF CountMiss, CountRevoked, CountOver, LoseAnswer
<1>4. LoseAnswer(r) /\ Verdict(k0, w0) = "admit" =>
         wasted'[k0][w0] = wasted[k0][w0] + 1 \/ wasted'[k0][w0] >= Limit
  <2> SUFFICES ASSUME LoseAnswer(r), Verdict(k0, w0) = "admit"
               PROVE  wasted'[k0][w0] = wasted[k0][w0] + 1 \/ wasted'[k0][w0] >= Limit
    OBVIOUS
  <2>1. wasted' = [wasted EXCEPT ![k0][w0] = IF @ < Limit THEN @ + 1 ELSE @]
    BY DEF LoseAnswer
  <2>2. wasted[k0][w0] \in 0..Limit /\ Limit \in Nat
    BY <1>0, LimitAssumption DEF TypeOK
  <2>3. wasted'[k0][w0] = IF wasted[k0][w0] < Limit THEN wasted[k0][w0] + 1 ELSE wasted[k0][w0]
    BY <1>0, <2>1 DEF TypeOK
  <2> QED
    BY <2>2, <2>3
<1>5. \A k, w : Counting(k, w)' => Counting(k, w)
  <2>1. \A q \in Requests \ {r} : request'[q] = request[q]
    BY RequestStates, Proceeds, Answers
    DEF CountMiss, CountRevoked, CountOver, LoseAnswer, Outcomes
  <2>2. At(r, "count")' => request'[r].window = w0
    <3>1. CASE LoseAnswer(r)
      BY <1>0, <3>1 DEF LoseAnswer, RequestState
    <3>2. CASE CountOver(r)
      BY <1>0, <3>2 DEF CountOver, At, RequestState
    <3>3. CASE CountMiss(r)
      BY <3>3, RequestStates, Proceeds DEF CountMiss, At
    <3>4. CASE CountRevoked(r)
      BY <3>4, Answers DEF CountRevoked, At, Outcomes
    <3> QED
      BY <3>1, <3>2, <3>3, <3>4
  <2> QED
    BY <1>0, <2>1, <2>2 DEF Counting, At
<1>6. \A k \in Keys, w \in Windows :
         Cardinality(AdmittedIn(k, w))' = Cardinality(AdmittedIn(k, w))
  BY <1>1, AdmissionCounts
<1> HIDE DEF k0, w0
<1>7. \A k \in Keys, w \in Windows : usage'[k][w] >= usage[k][w] /\ usage'[k][w] \in Nat
  BY <1>0, <1>2, CountersAreNumbers
<1>8. UsageCovers'
  BY <1>1, <1>5, <1>6, <1>7, CountersAreNumbers DEF UsageCovers
<1>9. WithinLimit'
  BY <1>6 DEF WithinLimit
<1>10. UsageExplained'
  <2> SUFFICES ASSUME NEW k \in Keys, NEW w \in Windows
               PROVE  usage'[k][w] <= Granted(k, w)' \/ Limit <= Granted(k, w)'
    BY DEF UsageExplained
  <2>1. Granted(k, w)' = Cardinality(AdmittedIn(k, w)) + wasted'[k][w]
    BY <1>6 DEF Granted
  <2>2. Granted(k, w) = Cardinality(AdmittedIn(k, w)) + wasted[k][w]
    BY DEF Granted
  <2>3. usage[k][w] <= Granted(k, w) \/ Limit <= Granted(k, w)
    BY DEF UsageExplained
  <2>4. /\ usage[k][w] \in Nat /\ wasted[k][w] \in Nat /\ wasted'[k][w] \in Nat
        /\ Cardinality(AdmittedIn(k, w)) \in Nat /\ Limit \in Nat
        /\ wasted'[k][w] >= wasted[k][w]
    BY <1>3, CountersAreNumbers
  <2>5. \/ usage'[k][w] = usage[k][w]
        \/ usage'[k][w] = usage[k][w] + 1 /\ Limit <= usage[k][w]
        \/ /\ usage'[k][w] = usage[k][w] + 1
           /\ wasted'[k][w] = wasted[k][w] + 1 \/ wasted'[k][w] >= Limit
    BY <1>2, <1>4
  <2> HIDE DEF Granted
  <2> QED
    BY <2>1, <2>2, <2>3, <2>4, <2>5
<1> QED
  BY <1>8, <1>9, <1>10

(* An admission, and the counter that it was decided on *)
LEMMA AdmittedKept ==
    ASSUME GateInv, NEW r \in Requests, CountAdmit(r)
    PROVE  UsageCovers' /\ UsageExplained' /\ WithinLimit'
<1> USE DEF GateInv
<1> DEFINE k0 == KeyOf[r]
           w0 == request[r].window
<1>0. k0 \in Keys /\ w0 \in Windows /\ At(r, "count") /\ RunScript(r, "admit")
  BY KeyOfAssumption DEF TypeOK, CountAdmit, RunScript
<1>1. /\ admitted' = [admitted EXCEPT ![r] = w0] /\ UNCHANGED <<wasted, clock>>
      /\ admitted[r] = 0
  BY <1>0 DEF CountAdmit, RunScript, AdmittedOnce, At
<1>2. /\ \A k \in Keys, w \in Windows : k # k0 \/ w # w0 => usage'[k][w] = usage[k][w]
      /\ usage'[k0][w0] = usage[k0][w0] + 1 /\ usage'[k0][w0] <= Limit
  BY <1>0, ScriptCharges
<1>3. \A k \in Keys, w \in Windows :
         Cardinality(AdmittedIn(k, w))' =
            Cardinality(AdmittedIn(k, w)) + (IF k = k0 /\ w = w0 THEN 1 ELSE 0)
  <2> SUFFICES ASSUME NEW k \in Keys, NEW w \in Windows
               PROVE  Cardinality(AdmittedIn(k, w))' =
                         Cardinality(AdmittedIn(k, w)) + (IF k = k0 /\ w = w0 THEN 1 ELSE 0)
    OBVIOUS
  <2>1. /\ admitted[r] = 0 /\ k0 = KeyOf[r] /\ admitted'[r] = w0
        /\ \A q \in Requests \ {r} : admitted'[q] = admitted[q]
    BY <1>0, <1>1 DEF TypeOK
  <2>2. Cardinality(AdmittedIn(k, w)) \in Nat
    BY AdmissionCounts
  <2> HIDE DEF k0, w0
  <2> QED
    BY <2>1, <2>2, AdmissionAdded
<1>4. \A k, w : Counting(k, w)' => Counting(k, w)
  BY RequestStates, Proceeds DEF CountAdmit, Counting, At
<1>5. Cardinality(AdmittedIn(k0, w0)) <= usage[k0][w0]
  BY <1>0 DEF UsageCovers, Counting
<1> HIDE DEF k0, w0
<1>6. UsageCovers'
  BY <1>1, <1>2, <1>3, <1>4, <1>5, CountersAreNumbers DEF UsageCovers
<1>7. WithinLimit'
  BY <1>0, <1>2, <1>3, <1>5, CountersAreNumbers DEF WithinLimit
<1>8. UsageExplained'
  BY <1>0, <1>1, <1>2, <1>3, CountersAreNumbers DEF UsageExplained, Granted
<1> QED
  BY <1>6, <1>7, <1>8

(* Without a script nothing is admitted, and a counter is dropped only     *)
(* when nobody can be asking for it.                                       *)
LEMMA UnscriptedKept ==
    ASSUME GateInv, UNCHANGED <<admitted, wasted>>,
           \A k \in Keys, w \in Windows :
              \/ usage'[k][w] = usage[k][w]
              \/ usage'[k][w] = 0 /\ ~ Covered(k, w)',
           \A k \in Keys, w \in Windows :
              Covered(k, w)' => Covered(k, w) \/ Cardinality(AdmittedIn(k, w)) = 0
    PROVE  UsageCovers' /\ UsageExplained' /\ WithinLimit'
<1> USE DEF GateInv
<1>1. \A k \in Keys, w \in Windows :
         Cardinality(AdmittedIn(k, w))' = Cardinality(AdmittedIn(k, w))
  BY AdmissionCounts
<1>2. UsageCovers'
  BY <1>1, CountersAreNumbers DEF UsageCovers, Covered
<1>3. WithinLimit'
  BY <1>1 DEF WithinLimit
<1>4. \A k \in Keys, w \in Windows : Granted(k, w)' = Granted(k, w)
  BY <1>1 DEF Granted
<1>5. UsageExplained'
  BY <1>4, CountersAreNumbers DEF UsageExplained
<1> QED
  BY <1>2, <1>3, <1>5

LEMMA CountersKept ==
    ASSUME GateInv, [Next]_vars
    PROVE  UsageCovers' /\ UsageExplained' /\ WithinLimit'
<1> USE DEF GateInv
<1>1. ASSUME NEW r \in Requests,
             CountMiss(r) \/ CountRevoked(r) \/ CountOver(r) \/ CountAdmit(r) \/ LoseAnswer(r)
      PROVE  UsageCovers' /\ UsageExplained' /\ WithinLimit'
  BY <1>1, UnadmittedKept, AdmittedKept
<1>2. ASSUME UNCHANGED <<admitted, wasted, usage, clock>>,
             \A q \in Requests : At(q, "count")' =>
                request'[q] = request[q] \/ request'[q].window = clock
      PROVE  UsageCovers' /\ UsageExplained' /\ WithinLimit'
  <2>1. \A k \in Keys, w \in Windows : Covered(k, w)' => Covered(k, w)
    BY <1>2 DEF Covered, Counting, At
  <2> QED
    BY <1>2, <2>1, UnscriptedKept
<1>3. ASSUME NEW r \in Requests, ReadWindow(r) PROVE UsageCovers' /\ UsageExplained' /\ WithinLimit'
  <2>1. /\ UNCHANGED <<admitted, wasted, usage, clock>>
        /\ request' = [request EXCEPT ![r] = [New EXCEPT !.pc = "count", !.window = clock]]
    BY <1>3 DEF ReadWindow, cacheVars
  <2>2. LET s == [New EXCEPT !.pc = "count", !.window = clock] IN s.window = clock
    BY DEF New
  <2>3. \A q \in Requests : request'[q] = request[q] \/ request'[q].window = clock
    BY <2>1, <2>2, RequestStates
  <2> QED
    BY <1>2, <2>1, <2>3
<1>4. ASSUME NEW r \in Requests,
             \/ Arrive(r) \/ LookUpKey(r) \/ RefuseKey(r) \/ CacheKey(r) \/ ExpireKey(r)
             \/ ReadKey(r) \/ ForwardRequest(r) \/ RelayAnswer(r) \/ TimeOut(r) \/ BreakOff(r)
             \/ FailContext(r)
      PROVE  UsageCovers' /\ UsageExplained' /\ WithinLimit'
  <2>1. UNCHANGED <<admitted, wasted, usage, clock>>
    BY <1>4
    DEF Arrive, LookUpKey, RefuseKey, CacheKey, ExpireKey, StoreCopy, LimitCopy, ReadKey,
        ForwardRequest, RelayAnswer, TimeOut, BreakOff, FailContext, cacheVars
  <2>2. CASE \E pc \in {"window", "expire", "await"} : Proceed(r, pc)
    <3>1. \A q \in Requests : request'[q] = request[q] \/ request'[q].pc # "count"
      BY <2>2, RequestStates, Proceeds
    <3> QED
      BY <1>2, <2>1, <3>1 DEF At
  <2>3. CASE \E o \in Outcomes : Answer(r, o)
    <3>1. \A q \in Requests : request'[q] = request[q] \/ request'[q].pc # "count"
      BY <2>3, Answers
    <3> QED
      BY <1>2, <2>1, <3>1 DEF At
  <2>4. CASE LookUpKey(r) \/ ReadKey(r)
    <3>1. request \in [Requests -> RequestState]
      BY RequestStates
    <3>2. \A q \in Requests : request'[q] = request[q] \/ request'[q].pc # "count"
      BY <2>4, <3>1 DEF LookUpKey, ReadKey, RequestState
    <3> QED
      BY <1>2, <2>1, <3>2 DEF At
  <2> QED
    BY <1>4, <2>2, <2>3, <2>4
    DEF Arrive, RefuseKey, CacheKey, ExpireKey, ForwardRequest, RelayAnswer, TimeOut, BreakOff,
        FailContext, Outcomes
<1>5. CASE CacheStep
  <2>1. UNCHANGED gateVars
    BY <1>5 DEF CacheStep
  <2>2. \A k, w : Counting(k, w)' <=> Counting(k, w)
    BY <2>1 DEF gateVars, Counting, At
  <2>3. CASE UNCHANGED <<usage, clock>>
    BY <1>2, <2>1, <2>3 DEF gateVars
  <2>4. CASE NextHour
    <3>1. clock' = clock + 1 /\ usage' = usage /\ clock \in Nat
      BY <2>4, WindowAssumption DEF NextHour, TypeOK, CacheTypeOK, Windows
    <3>2. \A k \in Keys : Cardinality(AdmittedIn(k, clock + 1)) = 0
      <4>1. \A q \in Requests : admitted[q] # clock + 1
        BY <3>1, WindowAssumption DEF ClockAhead, TypeOK, Windows
      <4> QED
        BY <4>1, FS_EmptySet DEF AdmittedIn
    <3>3. \A k \in Keys, w \in Windows :
             Covered(k, w)' => Covered(k, w) \/ Cardinality(AdmittedIn(k, w)) = 0
      BY <2>2, <3>1, <3>2 DEF Covered
    <3> QED
      BY <2>1, <3>1, <3>3, UnscriptedKept DEF gateVars
  <2>5. ASSUME NEW k0 \in Keys, NEW w0 \in Windows, ForgetUsage(k0, w0), ~ Counting(k0, w0)
        PROVE  UsageCovers' /\ UsageExplained' /\ WithinLimit'
    <3>1. /\ w0 < clock /\ clock' = clock
          /\ \A k \in Keys, w \in Windows :
                usage'[k][w] = IF k = k0 /\ w = w0 THEN 0 ELSE usage[k][w]
      BY <2>5 DEF ForgetUsage, TypeOK, CacheTypeOK
    <3>2. clock \in Nat
      BY WindowAssumption DEF TypeOK, CacheTypeOK, Windows
    <3>3. ~ Covered(k0, w0)'
      BY <2>2, <2>5, <3>1, <3>2 DEF Covered, Windows
    <3>4. \A k \in Keys, w \in Windows : Covered(k, w)' => Covered(k, w)
      BY <2>2, <3>1 DEF Covered
    <3> QED
      BY <2>1, <3>1, <3>3, <3>4, UnscriptedKept DEF gateVars
  <2> QED
    BY <1>5, <2>3, <2>4, <2>5 DEF CacheStep, ChangeStanding, ForgetCopy
<1>6. CASE UNCHANGED <<cacheVars, gateVars>>
  BY <1>2, <1>6 DEF cacheVars, gateVars
<1> QED
  BY <1>1, <1>3, <1>4, <1>5, <1>6
  DEF Next, RequestStep, ContextStep, ServiceStep, vars

(* Admissions and lost answers only grow. *)
LEMMA GrantedGrows ==
    ASSUME GateInv, [Next]_vars, NEW k \in Keys, NEW w \in Windows
    PROVE  Granted(k, w)' >= Granted(k, w)
<1> USE DEF GateInv
<1>1. CASE UNCHANGED <<admitted, wasted>>
  <2>1. Granted(k, w)' = Granted(k, w)
    BY <1>1, AdmissionCounts DEF Granted
  <2> QED
    BY <2>1, CountersAreNumbers
<1>2. ASSUME NEW r \in Requests, CountAdmit(r) PROVE Granted(k, w)' >= Granted(k, w)
  <2>1. /\ admitted[r] = 0 /\ wasted' = wasted
        /\ \A q \in Requests \ {r} : admitted'[q] = admitted[q]
    BY <1>2 DEF CountAdmit, RunScript, AdmittedOnce, At, TypeOK
  <2>2. Cardinality(AdmittedIn(k, w))' \in {Cardinality(AdmittedIn(k, w)),
                                            Cardinality(AdmittedIn(k, w)) + 1}
    BY <2>1, AdmissionAdded
  <2> QED
    BY <2>1, <2>2, CountersAreNumbers DEF Granted
<1>3. ASSUME NEW r \in Requests, LoseAnswer(r) PROVE Granted(k, w)' >= Granted(k, w)
  <2>1. admitted' = admitted
    BY <1>3 DEF LoseAnswer
  <2>2. wasted'[k][w] >= wasted[k][w] /\ wasted'[k][w] \in Nat
    <3>1. CASE wasted' = wasted
      BY <3>1, CountersAreNumbers
    <3>2. CASE wasted' = [wasted EXCEPT ![KeyOf[r]][request[r].window] =
                             IF @ < Limit THEN @ + 1 ELSE @]
      BY <3>2, LimitAssumption, KeyOfAssumption DEF TypeOK
    <3> QED
      BY <1>3, <3>1, <3>2 DEF LoseAnswer
  <2>3. Cardinality(AdmittedIn(k, w))' = Cardinality(AdmittedIn(k, w))
    BY <2>1, AdmissionCounts
  <2> QED
    BY <2>2, <2>3, CountersAreNumbers DEF Granted
<1> QED
  BY <1>1, <1>2, <1>3
  DEF Next, RequestStep, ContextStep, ServiceStep, CacheStep, gateVars, vars, Arrive, ReadWindow,
      CountMiss, CountRevoked, CountOver, LookUpKey, RefuseKey, CacheKey, ExpireKey, ReadKey,
      ForwardRequest, RelayAnswer, TimeOut, BreakOff, FailContext

LEMMA LimitedKept ==
    ASSUME GateInv, [Next]_vars
    PROVE  QuotaUsable'
<1> USE DEF GateInv
<1>1. ASSUME NEW r \in Requests, request'[r].outcome = "limited",
             NEW k, k = KeyOf[r], NEW w, w = request'[r].window
      PROVE  Granted(k, w)' >= Limit
  <2>1. k \in Keys /\ request[r].window \in Windows /\ w = request[r].window
    BY <1>1, KeyOfAssumption, LimitedByScript DEF TypeOK
  <2>2. Granted(k, w) >= Limit
    <3>1. CASE request'[r] = request[r]
      BY <1>1, <3>1 DEF QuotaUsable, Granted
    <3>2. CASE CountOver(r)
      <4>1. usage[k][w] >= Limit
        BY <1>1, <2>1, <3>2, ScriptCharges DEF CountOver
      <4>2. usage[k][w] <= Granted(k, w) \/ Limit <= Granted(k, w)
        BY <2>1 DEF UsageExplained
      <4> QED
        BY <2>1, <4>1, <4>2, CountersAreNumbers DEF Granted
    <3> QED
      BY <1>1, <3>1, <3>2, LimitedByScript
  <2>3. Granted(k, w)' >= Granted(k, w)
    BY <2>1, GrantedGrows
  <2>4. Granted(k, w) \in Nat /\ Granted(k, w)' \in Nat /\ Limit \in Nat
    <3>1. TypeOK'
      BY GateTypes
    <3>2. wasted[k][w] \in Nat /\ wasted'[k][w] \in Nat /\ Limit \in Nat
      BY <2>1, <3>1, LimitAssumption DEF TypeOK
    <3>3. Cardinality(AdmittedIn(k, w)) \in Nat /\ Cardinality(AdmittedIn(k, w))' \in Nat
      BY AdmissionCounts
    <3> QED
      BY <3>2, <3>3 DEF Granted
  <2> QED
    BY <2>2, <2>3, <2>4
<1>2. ASSUME NEW r \in Requests, request'[r].outcome = "limited"
      PROVE  Cardinality(AdmittedIn(KeyOf[r], request[r].window))' 
                + wasted'[KeyOf[r]][request'[r].window] >= Limit
  BY <1>1, <1>2 DEF Granted
<1> QED
  BY <1>2 DEF QuotaUsable

-----------------------------------------------------------------------------
(* A key that is shut out *)

(* What an answer, or a copy, can say of a key after a step, and who is    *)
(* admitted by it.                                                         *)
LEMMA CopyAfter ==
    ASSUME TypeOK, [Next]_vars, NEW k \in Keys
    PROVE  \/ copy'[k].status \in {copy[k].status, "none"}
           \/ \E r \in Requests : /\ KeyOf[r] = k /\ At(r, "store")
                                  /\ copy'[k].status = request[r].found
<1> DEFINE Said == \/ copy'[k].status \in {copy[k].status, "none"}
                   \/ \E r \in Requests : /\ KeyOf[r] = k /\ At(r, "store")
                                          /\ copy'[k].status = request[r].found
<1>1. copy \in [Keys -> [status : Statuses \cup {"none"}, expires : BOOLEAN]]
  BY DEF TypeOK, CacheTypeOK
<1>2. ASSUME copy' = copy PROVE Said
  BY <1>2
<1>3. ASSUME NEW r \in Requests, CacheKey(r) PROVE Said
  BY <1>1, <1>3, KeyOfAssumption DEF CacheKey, StoreCopy
<1>4. ASSUME NEW r \in Requests, ExpireKey(r) PROVE Said
  BY <1>1, <1>4, KeyOfAssumption DEF ExpireKey, LimitCopy
<1>5. ASSUME NEW j \in Keys, ForgetCopy(j) PROVE Said
  BY <1>1, <1>5 DEF ForgetCopy, NoCopy
<1>6. \/ copy' = copy
      \/ \E r \in Requests : CacheKey(r) \/ ExpireKey(r)
      \/ \E j \in Keys : ForgetCopy(j)
  BY DEF Next, RequestStep, ContextStep, ServiceStep, CacheStep, vars, cacheVars, Arrive,
         ReadWindow, CountMiss, CountRevoked, CountOver, CountAdmit, LoseAnswer, RunScript,
         LookUpKey, RefuseKey, ReadKey, ForwardRequest, RelayAnswer, TimeOut, BreakOff,
         FailContext, NextHour, ChangeStanding, ForgetUsage
<1> QED
  BY <1>2, <1>3, <1>4, <1>5, <1>6

LEMMA AnswersAfter ==
    ASSUME TypeOK, [Next]_vars, NEW r \in Requests, At(r, "store")'
    PROVE  request'[r] = request[r] \/ request'[r].found = standing[KeyOf[r]]
<1>0. request \in [Requests -> RequestState]
  BY RequestStates
<1>1. ASSUME NEW q \in Requests, NEW pc \in Pcs \ {"store"}, Proceed(q, pc)
      PROVE  request'[r] = request[r]
  BY <1>1, Proceeds DEF At
<1>2. ASSUME NEW q \in Requests, NEW o \in Outcomes, Answer(q, o) PROVE request'[r] = request[r]
  BY <1>2, Answers DEF At
<1>3. ASSUME NEW q \in Requests, LookUpKey(q)
      PROVE  request'[r] = request[r] \/ request'[r].found = standing[KeyOf[r]]
  BY <1>0, <1>3 DEF LookUpKey, RequestState
<1>4. ASSUME NEW q \in Requests, ReadKey(q) PROVE request'[r] = request[r]
  BY <1>0, <1>4 DEF ReadKey, RequestState, At
<1>5. ASSUME NEW q \in Requests, ReadWindow(q) PROVE request'[r] = request[r]
  <2>1. LET s == [New EXCEPT !.pc = "count", !.window = clock] IN s.pc = "count"
    BY DEF New
  <2> QED
    BY <1>0, <1>5, <2>1 DEF ReadWindow, At
<1>6. ASSUME NEW q \in Requests, CountOver(q) \/ LoseAnswer(q) PROVE request'[r] = request[r]
  BY <1>0, <1>6 DEF CountOver, LoseAnswer, RunScript, RequestState, At
<1>7. {"window", "lookup", "expire", "read", "await"} \subseteq Pcs \ {"store"}
  BY DEF Pcs, Working
<1>8. CASE CacheStep \/ ServiceStep \/ UNCHANGED vars
  BY <1>8 DEF CacheStep, ServiceStep, gateVars, vars
<1>9. CASE \E q \in Requests : \/ Arrive(q) \/ CountMiss(q) \/ CountAdmit(q) \/ CacheKey(q)
                               \/ ExpireKey(q) \/ ForwardRequest(q)
  BY <1>1, <1>7, <1>9
  DEF Arrive, CountMiss, CountAdmit, CacheKey, ExpireKey, ForwardRequest
<1>10. CASE \E q \in Requests : \/ CountRevoked(q) \/ RefuseKey(q) \/ RelayAnswer(q) \/ TimeOut(q)
                                \/ BreakOff(q) \/ FailContext(q)
  BY <1>2, <1>10
  DEF CountRevoked, RefuseKey, RelayAnswer, TimeOut, BreakOff, FailContext, Outcomes
<1> QED
  BY <1>3, <1>4, <1>5, <1>6, <1>8, <1>9, <1>10 DEF Next, RequestStep, ContextStep

LEMMA AdmittedByCopy ==
    ASSUME TypeOK, [Next]_vars, NEW r \in Requests, copy[KeyOf[r]].status # "active"
    PROVE  admitted'[r] = admitted[r]
<1>1. copy[KeyOf[r]].status \in {"none", "revoked"}
  BY KeyOfAssumption DEF TypeOK, CacheTypeOK, Statuses
<1>2. ~ CountAdmit(r)
  BY <1>1 DEF CountAdmit, RunScript, Verdict
<1>3. ASSUME NEW q \in Requests, CountAdmit(q) PROVE admitted'[r] = admitted[r]
  BY <1>2, <1>3 DEF CountAdmit, TypeOK
<1>4. admitted' = admitted \/ \E q \in Requests : CountAdmit(q)
  BY DEF Next, RequestStep, ContextStep, ServiceStep, CacheStep, gateVars, vars, Arrive,
         ReadWindow, CountMiss, CountRevoked, CountOver, LoseAnswer, LookUpKey, RefuseKey,
         CacheKey, ExpireKey, ReadKey, ForwardRequest, RelayAnswer, TimeOut, BreakOff,
         FailContext
<1> QED
  BY <1>3, <1>4

-----------------------------------------------------------------------------
(* The invariant and the properties *)

LEMMA GateStart ==
    Init => GateInv
<1> SUFFICES ASSUME Init PROVE GateInv
  OBVIOUS
<1>1. TypeOK
  <2>1. CacheTypeOK
    BY LimitAssumption, WindowAssumption
    DEF Init, CacheInit, CacheTypeOK, NoCopy, Windows
  <2>2. /\ request \in [Requests -> RequestState] /\ admitted \in [Requests -> {0} \cup Windows]
        /\ wasted \in [Keys -> [Windows -> 0..Limit]]
        /\ upstream \in [Requests -> {"none", "named", "nameless", "served", "refused"}]
    BY LimitAssumption, RequestStates DEF Init
  <2>3. cut \in BOOLEAN
    BY Zenon DEF Init
  <2> QED
    BY <2>1, <2>2, <2>3, RequestStates
<1>2. \A r \in Requests : /\ request[r].pc = "new" /\ request[r].window = 1
                          /\ request[r].outcome = "none"
                          /\ admitted[r] = 0 /\ upstream[r] = "none"
  BY DEF Init, New
<1>3. ClockAhead /\ AdmittedOnce /\ ServedIsCharged /\ QuotaUsable
  BY <1>2 DEF Init, CacheInit, ClockAhead, AdmittedOnce, ServedIsCharged, QuotaUsable
<1>4. \A k \in Keys, w \in Windows :
         Cardinality(AdmittedIn(k, w)) = 0 /\ usage[k][w] = 0 /\ wasted[k][w] = 0
  <2>1. \A k \in Keys, w \in Windows : AdmittedIn(k, w) = {}
    BY <1>2, WindowAssumption DEF AdmittedIn, Windows
  <2> QED
    BY <2>1, FS_EmptySet DEF Init, CacheInit
<1>5. UsageCovers /\ UsageExplained /\ WithinLimit
  BY <1>4, LimitAssumption DEF UsageCovers, UsageExplained, Granted, WithinLimit
<1> QED
  BY <1>1, <1>3, <1>5 DEF GateInv

THEOREM GateInvariant ==
    Spec => []GateInv
<1>1. GateInv /\ [Next]_vars => GateInv'
  BY GateTypes, CourseKept, CountersKept, LimitedKept DEF GateInv
<1> QED
  BY <1>1, GateStart, PTL DEF Spec

(* Every variable stays in its type. *)
THEOREM GateTypesKept == Spec => []TypeOK
<1>1. GateInv => TypeOK
  BY DEF GateInv
<1> QED
  BY <1>1, GateInvariant, PTL

(* A key is admitted at most requests_per_hour times in one hour. *)
THEOREM QuotaHolds == Spec => []WithinLimit
<1>1. GateInv => WithinLimit
  BY DEF GateInv
<1> QED
  BY <1>1, GateInvariant, PTL

(* And no fewer, before a request is refused. *)
THEOREM QuotaIsUsable == Spec => []QuotaUsable
<1>1. GateInv => QuotaUsable
  BY DEF GateInv
<1> QED
  BY <1>1, GateInvariant, PTL

(* What the file service has was charged. *)
THEOREM ServedUploadsAreCharged == Spec => []ServedIsCharged
<1>1. GateInv => ServedIsCharged
  BY DEF GateInv
<1> QED
  BY <1>1, GateInvariant, PTL

(* A key that is shut out stays out, and no upload with it is admitted,    *)
(* until its standing changes in the database.                             *)
THEOREM RevokedKeysStayOut == Spec => RevokedStaysOut
<1>1. ASSUME TypeOK, [Next]_vars, NEW k \in Keys, ShutOut(k), standing'[k] = standing[k]
      PROVE  /\ ShutOut(k)'
             /\ \A r \in Requests : KeyOf[r] = k => admitted'[r] = admitted[r]
  <2>1. copy'[k].status # "active"
    BY <1>1, CopyAfter DEF ShutOut
  <2>2. ASSUME NEW r \in Requests, KeyOf[r] = k, At(r, "store")'
        PROVE  request'[r].found # "active"
    BY <1>1, <2>2, AnswersAfter DEF ShutOut, At
  <2>3. ShutOut(k)'
    BY <1>1, <2>1, <2>2 DEF ShutOut
  <2>4. \A r \in Requests : KeyOf[r] = k => admitted'[r] = admitted[r]
    BY <1>1, AdmittedByCopy DEF ShutOut
  <2> QED
    BY <2>3, <2>4
<1>2. TypeOK /\ [Next]_vars =>
         [\A k \in Keys : ShutOut(k) /\ standing'[k] = standing[k] =>
             /\ ShutOut(k)'
             /\ \A r \in Requests : KeyOf[r] = k => admitted'[r] = admitted[r]]_vars
  BY <1>1
<1> QED
  BY <1>2, GateTypesKept, PTL DEF Spec, RevokedStaysOut

-----------------------------------------------------------------------------
(* Copies without a TTL *)

(* A request between HSET and EXPIRE is left there by the EXPIRE, or by a  *)
(* failure that is recorded.                                               *)
LEMMA ExpiringAfter ==
    ASSUME TypeOK, [Next]_vars, NEW r \in Requests, At(r, "expire")
    PROVE  request'[r] = request[r] \/ ExpireKey(r) \/ cut'
<1>0. request \in [Requests -> RequestState]
  BY RequestStates
<1>1. ASSUME NEW q \in Requests, ExpireKey(q) PROVE request'[r] = request[r] \/ ExpireKey(r)
  BY <1>0, <1>1 DEF ExpireKey, Proceed
<1>2. ASSUME NEW q \in Requests, FailContext(q) PROVE request'[r] = request[r] \/ cut'
  <2>1. q # r => request'[r] = request[r]
    BY <1>0, <1>2 DEF FailContext, Answer
  <2>2. q = r => cut'
    BY <1>2, Zenon DEF FailContext
  <2> QED
    BY <2>1, <2>2
<1>3. ASSUME NEW q \in Requests,
             \/ Arrive(q) \/ ReadWindow(q) \/ CountMiss(q) \/ CountRevoked(q) \/ CountOver(q)
             \/ CountAdmit(q) \/ LoseAnswer(q) \/ LookUpKey(q) \/ RefuseKey(q) \/ CacheKey(q)
             \/ ReadKey(q) \/ ForwardRequest(q) \/ RelayAnswer(q) \/ TimeOut(q) \/ BreakOff(q)
      PROVE  request'[r] = request[r]
  <2>1. q # r
    BY <1>3
    DEF At, Arrive, ReadWindow, CountMiss, CountRevoked, CountOver, CountAdmit, LoseAnswer,
        RunScript, LookUpKey, RefuseKey, CacheKey, ReadKey, ForwardRequest, RelayAnswer,
        TimeOut, BreakOff
  <2> QED
    BY <1>0, <1>3, <2>1
    DEF Proceed, Answer, Arrive, ReadWindow, CountMiss, CountRevoked, CountOver, CountAdmit,
        LoseAnswer, LookUpKey, RefuseKey, CacheKey, ReadKey, ForwardRequest, RelayAnswer, TimeOut,
        BreakOff
<1>4. CASE CacheStep \/ ServiceStep \/ UNCHANGED vars
  BY <1>4 DEF CacheStep, ServiceStep, gateVars, vars
<1> QED
  BY <1>1, <1>2, <1>3, <1>4 DEF Next, RequestStep, ContextStep

(* A failure stays recorded. *)
LEMMA CutStays ==
    ASSUME [Next]_vars, cut
    PROVE  cut'
<1>1. ASSUME NEW r \in Requests, FailContext(r) PROVE cut'
  BY <1>1, Zenon DEF FailContext
<1>2. cut' = cut \/ \E r \in Requests : FailContext(r)
  BY DEF Next, RequestStep, ContextStep, ServiceStep, CacheStep, gateVars, vars, Arrive,
         ReadWindow, CountMiss, CountRevoked, CountOver, CountAdmit, LoseAnswer, RunScript,
         LookUpKey, RefuseKey, CacheKey, ExpireKey, ReadKey, ForwardRequest, RelayAnswer,
         TimeOut, BreakOff
<1> QED
  BY <1>1, <1>2

(* What a step does to a copy that has no TTL afterwards *)
LEMMA UnlimitedAfter ==
    ASSUME TypeOK, [Next]_vars, NEW k \in Keys, copy'[k].status # "none", ~ copy'[k].expires
    PROVE  \/ /\ copy'[k] = copy[k]
              /\ \A r \in Requests : ExpireKey(r) => KeyOf[r] # k
           \/ \E r \in Requests : CacheKey(r) /\ KeyOf[r] = k
<1>0. copy \in [Keys -> [status : Statuses \cup {"none"}, expires : BOOLEAN]]
  BY DEF TypeOK, CacheTypeOK
<1>1. ASSUME NEW r \in Requests, ExpireKey(r) PROVE KeyOf[r] # k /\ copy'[k] = copy[k]
  <2>1. copy' = [copy EXCEPT ![KeyOf[r]] = [status |-> copy[KeyOf[r]].status,
                                            expires |-> HasCopy(KeyOf[r])]]
    BY <1>1 DEF ExpireKey, LimitCopy
  <2>2. KeyOf[r] = k => copy'[k].status = copy[k].status /\ copy'[k].expires = HasCopy(k)
    BY <1>0, <2>1
  <2>3. KeyOf[r] # k
    BY <2>2 DEF HasCopy
  <2> QED
    BY <1>0, <2>1, <2>3
<1>2. ASSUME NEW r \in Requests, CacheKey(r) PROVE copy'[k] = copy[k] \/ KeyOf[r] = k
  BY <1>0, <1>2 DEF CacheKey, StoreCopy
<1>3. ASSUME NEW j \in Keys, ForgetCopy(j) PROVE copy'[k] = copy[k]
  BY <1>0, <1>3 DEF ForgetCopy, NoCopy
<1>4. \/ copy' = copy \/ \E r \in Requests : CacheKey(r) \/ ExpireKey(r)
      \/ \E j \in Keys : ForgetCopy(j)
  BY DEF Next, RequestStep, ContextStep, ServiceStep, CacheStep, vars, cacheVars, Arrive,
         ReadWindow, CountMiss, CountRevoked, CountOver, CountAdmit, LoseAnswer, RunScript,
         LookUpKey, RefuseKey, ReadKey, ForwardRequest, RelayAnswer, TimeOut, BreakOff,
         FailContext, NextHour, ChangeStanding, ForgetUsage
<1> QED
  BY <1>1, <1>2, <1>3, <1>4

(* No copy of a key stays in the cache for good, unless a request ended    *)
(* between HSET and EXPIRE.                                                *)
THEOREM CachedKeysExpire == Spec => []CopiesExpire
<1>1. Init => CopiesExpire
  BY DEF Init, CacheInit, NoCopy, CopiesExpire, HasCopy
<1>2. ASSUME TypeOK, CopiesExpire, [Next]_vars PROVE CopiesExpire'
  <2> SUFFICES ASSUME NEW k \in Keys, copy'[k].status # "none", ~ copy'[k].expires
               PROVE  cut' \/ \E r \in Requests : request'[r].pc = "expire" /\ KeyOf[r] = k
    BY DEF CopiesExpire, HasCopy, At
  <2>1. CASE /\ copy'[k] = copy[k]
             /\ \A r \in Requests : ExpireKey(r) => KeyOf[r] # k
    <3>1. cut \/ \E r \in Requests : At(r, "expire") /\ KeyOf[r] = k
      BY <1>2, <2>1 DEF CopiesExpire, HasCopy
    <3> QED
      BY <1>2, <2>1, <3>1, CutStays, ExpiringAfter DEF At
  <2>2. CASE \E r \in Requests : CacheKey(r) /\ KeyOf[r] = k
    <3>1. PICK r \in Requests : CacheKey(r) /\ KeyOf[r] = k
      BY <2>2
    <3>2. request'[r].pc = "expire"
      <4>1. "expire" \in Pcs
        BY RequestStates
      <4> QED
        BY <1>2, <3>1, <4>1, Proceeds DEF CacheKey
    <3> QED
      BY <3>1, <3>2
  <2> QED
    BY <1>2, <2>1, <2>2, UnlimitedAfter
<1> QED
  BY <1>1, <1>2, GateTypesKept, PTL DEF Spec

=============================================================================

----------------------------- MODULE PromiseProofs -----------------------------
(***************************************************************************)
(* Proofs that the scan queue and its consumers keep the contract of a     *)
(* task queue, that a failure is only told by the last delivery, and that  *)
(* no step takes a scan or image task back, on top of the handover         *)
(* invariant of JobPipelineProofs.                                         *)
(***************************************************************************)
EXTENDS JobPipelineProofs

-----------------------------------------------------------------------------
(* What a step of each component looks like on the queue *)

(* A scanner changes at most the message it works on, acknowledges it only *)
(* in its hands, and passes on at most its own job.                        *)
LEMMA ScannerOnQueue ==
    ASSUME HandoverInv, NEW w \in Scanners, ScannerStep(w)
    PROVE  \/ scanQ' = scanQ
           \/ /\ UNCHANGED <<notices, imageQ>>
              /\ \/ \E r \in Requests : scanQ[r].state = "ready" /\ scanQ' = Deliver(scanQ, r)
                 \/ /\ scanner[w].job \in Requests
                    /\ scanQ[scanner[w].job].state = "held"
                    /\ \/ scanQ' = Ack(scanQ, scanner[w].job) /\ At(w, "ack")
                       \/ scanQ' = Discard(scanQ, scanner[w].job)
                       \/ scanQ' = Return(scanQ, scanner[w].job)
<1> USE DEF HandoverInv, TypeOK, shared, database, storage, queues
<1>1. ScannerHolds(w) => scanner[w].job \in Requests /\ scanQ[scanner[w].job].state = "held"
  BY DEF ScannerHolds, HeldAt, ScannerTypeOK
<1>2. CASE \E r \in Requests : ReceiveScan(w, r)
  BY <1>2 DEF ReceiveScan, IsReady
<1>3. CASE AckScan(w) \/ RejectTooLong(w)
  BY <1>1, <1>3 DEF AckScan, RejectTooLong
<1>4. CASE EndScanner(w) \/ CrashScanner(w) \/ DropScannerChannel(w)
  BY <1>1, <1>4 DEF EndScanner, CrashScanner, DropScannerChannel, ReturnScan
<1> QED
  BY <1>2, <1>3, <1>4
  DEF ScannerStep, ScannerMove, LoadJob, LookupFile, StreamFile, RetryScan, ScanStream,
      RecordVerdict, CopyToQuarantine, DeleteUpload, LabelQuarantined, EnqueueImage, CompleteJob,
      DispatchNotice, NoticeUnconfirmed, ReportQueued, FailScan, ScanUnanswered, LoseConnection,
      ScanTooLong, DispatchFailed, RestartScanner

(* Only the job that the scanner works on can be passed on in its step. *)
LEMMA ScannerPassesOn ==
    ASSUME HandoverInv, NEW w \in Scanners, ScannerStep(w)
    PROVE  /\ \A r \in Requests : PassedOn(r) => PassedOn(r)'
           /\ \A r \in Requests : PassedOn(r)' => \/ PassedOn(r)
                                                  \/ ScannerBusy(w) /\ r = scanner[w].job
<1> USE DEF HandoverInv
<1>1. \A r \in Requests, n \in 0..DeliveryLimit : <<r, n>> \in ImageTasks /\ <<r, n>>[1] = r
  BY DEF ImageTasks
<1>2. \A r \in Requests : PassedOn(r) => PassedOn(r)'
  BY <1>1, ScannerEffect DEF PassedOn, ImageTaskOf
<1>3. ASSUME NEW r \in Requests, ImageTaskOf(r)', ~ ImageTaskOf(r)
      PROVE  ScannerBusy(w) /\ r = scanner[w].job
  BY <1>1, <1>3, ScannerEffect DEF ImageTaskOf, At, ScannerBusy
<1>4. ASSUME NEW r \in Requests, notices'[r] # notices[r]
      PROVE  ScannerBusy(w) /\ r = scanner[w].job
  <2> USE DEF shared, database, storage, queues, TypeOK, SharedTypeOK, At
  <2>1. CASE DispatchNotice(w) \/ NoticeUnconfirmed(w) \/ DispatchFailed(w)
    BY <1>4, <2>1 DEF DispatchNotice, NoticeUnconfirmed, DispatchFailed, ScannerBusy
  <2> QED
    BY <1>4, <2>1
    DEF ScannerStep, ScannerMove, ReceiveScan, LoadJob, LookupFile, StreamFile, RetryScan,
        ScanStream, RecordVerdict, CopyToQuarantine, DeleteUpload, LabelQuarantined, EnqueueImage,
        CompleteJob, ReportQueued, AckScan, FailScan, ScanUnanswered, LoseConnection, ScanTooLong,
        RejectTooLong, EndScanner, CrashScanner, DropScannerChannel, RestartScanner
<1> QED
  BY <1>2, <1>3, <1>4 DEF PassedOn

-----------------------------------------------------------------------------
(* A scanner that is busy works on a task that was published. *)
LEMMA WorkWasPublished ==
    ASSUME HandoverInv, WorkIsQueued, [Next]_vars
    PROVE  WorkIsQueued'
<1> USE DEF HandoverInv
<1>1. ASSUME NEW r \in Requests, ApiStep(r), UNCHANGED <<scanner, imager>> PROVE WorkIsQueued'
  <2>1. \A q \in Requests : scanQ[q].state # "none" => scanQ'[q].state # "none"
    <3>1. CASE PublishScanTask(r)
      <4>1. scanQ' = Send(scanQ, r, "scan" \in declared)
        BY <3>1 DEF PublishScanTask
      <4> QED
        BY <4>1, QueueSend DEF TypeOK, SharedTypeOK
    <3> QED
      BY <1>1, <3>1
      DEF ApiStep, ReceiveUpload, CheckDuplicate, PutObject, InsertRows, AnswerAccepted,
          FailUpload, shared, queues
  <2> QED
    BY <1>1, <2>1 DEF WorkIsQueued, ScannerBusy, ScannerKnows, KnowsJob
<1>2. ASSUME NEW w \in Scanners, ScannerStep(w), UNCHANGED <<apiVars, imager>>
      PROVE  WorkIsQueued'
  <2>1. \A r \in Requests : scanQ'[r].state = "none" <=> scanQ[r].state = "none"
    BY <1>2, ScannerEffect
  <2>2. \A v \in Scanners \ {w} : scanner'[v] = scanner[v]
    BY <1>2, ScannerEffect
  <2>3. HandoverInv'
    BY <1>2, ScannerHandover
  <2>4. ASSUME ScannerBusy(w)' PROVE scanQ[scanner'[w].job].state # "none"
    <3>1. ASSUME NEW r \in Requests, ReceiveScan(w, r)
          PROVE  scanner'[w].job = r /\ scanQ[r].state # "none"
      BY <3>1 DEF ReceiveScan, ScannerAt, IsReady, TypeOK, ScannerTypeOK
    <3>2. CASE \E r \in Requests : ReceiveScan(w, r)
      BY <3>1, <3>2
    <3>3. CASE \/ AckScan(w) \/ RejectTooLong(w) \/ EndScanner(w) \/ CrashScanner(w)
               \/ RestartScanner(w)
      BY <2>4, <3>3
      DEF AckScan, RejectTooLong, EndScanner, CrashScanner, RestartScanner, ScannerBusy,
          ScannerDown, ScannerIdle, ScannerAt, TypeOK, ScannerTypeOK
    <3>4. CASE \/ FailScan(w) \/ ScanUnanswered(w) \/ NoticeUnconfirmed(w)
               \/ LoseConnection(w) \/ ScanTooLong(w)
      BY <3>4, ScannerLeaves DEF WorkIsQueued
    <3>5. CASE \/ LoadJob(w) \/ LookupFile(w) \/ RetryScan(w) \/ RecordVerdict(w)
               \/ CopyToQuarantine(w) \/ DeleteUpload(w) \/ LabelQuarantined(w)
               \/ EnqueueImage(w) \/ CompleteJob(w) \/ DispatchNotice(w) \/ ReportQueued(w)
               \/ DispatchFailed(w) \/ DropScannerChannel(w)
      BY <3>5
      DEF WorkIsQueued, ScannerBusy, At, Proceed, TypeOK, ScannerTypeOK, LoadJob, LookupFile,
          RetryScan, RecordVerdict, CopyToQuarantine, DeleteUpload, LabelQuarantined,
          EnqueueImage, CompleteJob, DispatchNotice, ReportQueued, DispatchFailed,
          DropScannerChannel
    <3>6. CASE StreamFile(w)
      <4>1. scanner'[w].job = scanner[w].job /\ ScannerBusy(w)
        BY <3>6 DEF StreamFile, TypeOK, ScannerTypeOK, ScannerBusy, At
      <4> QED
        BY <4>1 DEF WorkIsQueued
    <3>7. CASE ScanStream(w)
      <4>1. scanner'[w].job = scanner[w].job /\ ScannerBusy(w)
        BY <3>7 DEF ScanStream, Leave, ScannerAt, TypeOK, ScannerTypeOK, ScannerBusy, At
      <4> QED
        BY <4>1 DEF WorkIsQueued
    <3> QED
      BY <1>2, <3>2, <3>3, <3>4, <3>5, <3>6, <3>7 DEF ScannerStep, ScannerMove
  <2>5. \A v \in Scanners : ScannerBusy(v)' => scanQ[scanner'[v].job].state # "none"
    BY <2>2, <2>4 DEF WorkIsQueued, ScannerBusy
  <2>6. \A v \in Scanners : ScannerBusy(v)' => scanner'[v].job \in Requests
    BY <2>3 DEF ScannerKnows, KnowsJob
  <2> QED
    BY <2>1, <2>5, <2>6 DEF WorkIsQueued
<1>3. ASSUME NEW i \in Imagers, ImagerStep(i), UNCHANGED <<apiVars, scanner>>
      PROVE  WorkIsQueued'
  BY <1>3, ImagerEffect DEF WorkIsQueued, ScannerBusy
<1>4. CASE UNCHANGED vars
  BY <1>4 DEF vars, shared, queues, WorkIsQueued, ScannerBusy
<1> QED
  BY <1>1, <1>2, <1>3, <1>4 DEF Next

(* Every step of the pipeline is a step of the contract or leaves it. *)
LEMMA StepKeepsPromise ==
    ASSUME HandoverInv, WorkIsQueued, [Next]_vars
    PROVE  [ScanContract!Next]_<<Standing(scanQ), {r \in Requests : PassedOn(r)}>>
<1> USE DEF HandoverInv
<1> DEFINE stand == Standing(scanQ)
           passed == {r \in Requests : PassedOn(r)}
<1>0. stand' = Standing(scanQ')
  BY DEF Standing, Fate
<1>1. scanQ \in [Requests -> Message]
  BY DEF TypeOK, SharedTypeOK
<1>8. ASSUME NEW r \in Requests
      PROVE  /\ scanQ[r].state = "ready" => Standing(Deliver(scanQ, r)) = stand
             /\ scanQ[r].state = "held" => Standing(Ack(scanQ, r)) = [stand EXCEPT ![r] = "done"]
  BY <1>1, StandingMoves
<1>9. ASSUME NEW r \in Requests, PublishScanTask(r)
      PROVE  Standing(scanQ') \in {[stand EXCEPT ![r] = s] : s \in {"open", "lost"}}
  <2>1. \/ scanQ' = Publish(scanQ, r)
        \/ scanQ' = [scanQ EXCEPT ![r] = [state |-> "unrouted", count |-> 0]]
    BY <1>9 DEF PublishScanTask, Send
  <2>2. /\ Standing(Publish(scanQ, r)) = [stand EXCEPT ![r] = "open"]
        /\ Standing([scanQ EXCEPT ![r] = [state |-> "unrouted", count |-> 0]])
              = [stand EXCEPT ![r] = "lost"]
    BY <1>1, StandingOfPublished, StandingOfUnrouted
  <2> HIDE DEF stand
  <2> QED
    BY <2>1, <2>2
<1>2. DOMAIN stand = Requests
  BY <1>1 DEF Standing, Fate
<1>3. ASSUME NEW r \in Requests, ApiStep(r), UNCHANGED <<scanner, imager>>
      PROVE  [ScanContract!Next]_<<stand, passed>>
  <2>1. passed' = passed
    BY <1>3, ApiEffect DEF PassedOn, ImageTaskOf
  <2>2. CASE PublishScanTask(r)
    <3>1. stand' \in {[stand EXCEPT ![r] = s] : s \in {"open", "lost"}}
      <4>1. Standing(scanQ') \in {[stand EXCEPT ![r] = s] : s \in {"open", "lost"}}
        BY <1>9, <2>2
      <4> QED
        BY <1>0, <4>1
    <3>2. stand[r] = "none"
      BY <1>1, <2>2 DEF PublishScanTask, RequestKnows, Standing, Fate
    <3> QED
      BY <2>1, <3>1, <3>2 DEF ScanContract!Next, ScanContract!Submit
  <2>3. CASE scanQ' = scanQ
    BY <2>1, <2>3
  <2> QED
    BY <1>3, <2>2, <2>3
    DEF ApiStep, ReceiveUpload, CheckDuplicate, PutObject, InsertRows, AnswerAccepted,
        FailUpload, shared, queues
<1>4. ASSUME NEW S \in SUBSET Requests, \A r \in S : stand[r] = "open",
             stand' = [r \in Requests |-> IF r \in S THEN "lost" ELSE stand[r]],
             passed' = passed
      PROVE  ScanContract!Next
  BY <1>4 DEF ScanContract!Next, ScanContract!GiveUp
<1>5. ASSUME NEW w \in Scanners, ScannerStep(w), UNCHANGED <<apiVars, imager>>
      PROVE  [ScanContract!Next]_<<stand, passed>>
  <2> DEFINE job == scanner[w].job
  <2>1. CASE scanQ' = scanQ
    <3>1. passed \subseteq passed'
      BY <1>5, ScannerPassesOn
    <3>2. \A r \in passed' \ passed : stand[r] # "none"
      <4>1. \A r \in passed' \ passed : scanQ[r].state # "none"
        BY <1>5, ScannerPassesOn DEF WorkIsQueued
      <4> QED
        BY <1>1, <4>1 DEF Standing, Fate, Message, MessageStates
    <3>3. passed' = passed \cup (passed' \ passed) /\ (passed' \ passed) \in SUBSET Requests
      BY <3>1
    <3>4. ScanContract!Perform(passed' \ passed)
      BY <2>1, <3>2, <3>3 DEF ScanContract!Perform
    <3> QED
      BY <3>3, <3>4 DEF ScanContract!Next
  <2>2. CASE UNCHANGED <<notices, imageQ>>
    <3>1. passed' = passed
      BY <2>2 DEF PassedOn, ImageTaskOf
    <3>2. CASE \E r \in Requests : scanQ[r].state = "ready" /\ scanQ' = Deliver(scanQ, r)
      <4>1. Standing(scanQ') = Standing(scanQ)
        BY <1>8, <3>2
      <4>2. stand' = stand
        BY <1>0, <4>1
      <4> QED
        BY <3>1, <4>2
    <3>3. CASE /\ job \in Requests
               /\ scanQ[job].state = "held"
               /\ scanQ' = Ack(scanQ, job)
               /\ At(w, "ack")
      <4>1. stand' = [stand EXCEPT ![job] = "done"]
        <5>1. Standing(scanQ') = [Standing(scanQ) EXCEPT ![job] = "done"]
          BY <1>8, <3>3
        <5> QED
          BY <1>0, <5>1
      <4>3. stand[job] = "open"
        BY <1>1, <3>3 DEF Standing, Fate
      <4>2. job \in passed
        BY <3>3 DEF ScannerKnows, KnowsJob, ScannerBusy, At
      <4> QED
        BY <3>1, <3>3, <4>1, <4>2, <4>3 DEF ScanContract!Next, ScanContract!Finish
    <3>4. CASE /\ job \in Requests
               /\ scanQ[job].state = "held"
               /\ scanQ' = Discard(scanQ, job) \/ scanQ' = Return(scanQ, job)
      <4>1. stand' \in {stand, [stand EXCEPT ![job] = "lost"]}
        <5>1. Standing(scanQ') \in {Standing(scanQ), [Standing(scanQ) EXCEPT ![job] = "lost"]}
          BY <1>1, <3>4, StandingMoves
        <5> QED
          BY <1>0, <5>1
      <4>4. stand[job] = "open"
        BY <1>1, <3>4 DEF Standing, Fate
      <4>2. CASE stand' = stand
        BY <3>1, <4>2
      <4>3. CASE stand' = [stand EXCEPT ![job] = "lost"]
        <5>1. stand' = [r \in Requests |-> IF r \in {job} THEN "lost" ELSE stand[r]]
          BY <1>2, <4>3
        <5> QED
          BY <1>4, <3>1, <3>4, <4>4, <5>1
      <4> QED
        BY <4>1, <4>2, <4>3
    <3> QED
      BY <1>5, <2>1, <3>2, <3>3, <3>4, ScannerOnQueue
  <2> QED
    BY <1>5, <2>1, <2>2, ScannerOnQueue
<1>6. ASSUME NEW i \in Imagers, ImagerStep(i), UNCHANGED <<apiVars, scanner>>
      PROVE  [ScanContract!Next]_<<stand, passed>>
  <2>1. \A r \in Requests : ImageTaskOf(r)' <=> ImageTaskOf(r)
    <3>1. \A r \in Requests, n \in 0..DeliveryLimit : <<r, n>> \in ImageTasks
      BY DEF ImageTasks
    <3> QED
      BY <1>6, <3>1, ImagerEffect DEF ImageTaskOf
  <2> QED
    BY <1>6, <2>1, ImagerEffect DEF PassedOn
<1>7. CASE UNCHANGED vars
  <2>1. UNCHANGED <<scanQ, notices, imageQ>>
    BY <1>7 DEF vars, shared, queues
  <2> QED
    BY <2>1 DEF PassedOn, ImageTaskOf
<1> QED
  BY <1>3, <1>5, <1>6, <1>7 DEF Next

(* Seen through the scan queue the pipeline implements TaskContract. *)
THEOREM ScanPromiseKept == Spec => ScanPromise
<1>1. Init => ScanContract!Init
  <2> SUFFICES ASSUME Init
               PROVE  /\ Standing(scanQ) = [r \in Requests |-> "none"]
                      /\ {r \in Requests : PassedOn(r)} = {}
    BY DEF ScanContract!Init
  <2>1. Standing(scanQ) = [r \in Requests |-> "none"]
    BY DEF Init, SharedInit, Standing, Fate, NoMessage
  <2>2. \A r \in Requests, n \in 0..DeliveryLimit : imageQ[<<r, n>>].state = "none"
    BY DEF Init, SharedInit, ImageTasks, NoMessage
  <2>3. \A r \in Requests : ~ PassedOn(r)
    BY <2>2 DEF Init, SharedInit, PassedOn, ImageTaskOf
  <2> QED
    BY <2>1, <2>3
<1>5. Init => WorkIsQueued
  BY DEF Init, ScannerInit, ScannerDown, ScannerAt, ScannerBusy, WorkIsQueued
<1>2. HandoverInv /\ WorkIsQueued /\ [Next]_vars => WorkIsQueued'
  BY WorkWasPublished
<1>3. HandoverInv /\ WorkIsQueued /\ [Next]_vars =>
        [ScanContract!Next]_<<Standing(scanQ), {r \in Requests : PassedOn(r)}>>
  BY StepKeepsPromise
<1> QED
  BY <1>1, <1>2, <1>3, <1>5, Handover, PTL DEF Spec, ScanPromise, ScanContract!Promise

-----------------------------------------------------------------------------
(* Deliveries, and what the developer is told of the last *)

ScannerState ==
    [pc : ScannerPc, job : Requests \cup {None}, count : 0..DeliveryLimit,
     spooled : Contents \cup {None}, tries : 0..(ScanAttempts - 1), verdict : Verdicts]

(* A busy scanner keeps its delivery until it ends. *)
LEMMA DeliveryKept ==
    ASSUME HandoverInv, NEW w \in Scanners, ScannerStep(w), scanner'[w].pc \notin {"down", "idle"},
           ~ \E r \in Requests : ReceiveScan(w, r)
    PROVE  /\ ScannerBusy(w)
           /\ scanner'[w].job = scanner[w].job /\ scanner'[w].count = scanner[w].count
<1> USE DEF ScannerBusy
<1>0. scanner \in [Scanners -> ScannerState]
  BY DEF HandoverInv, TypeOK, ScannerTypeOK, ScannerState
<1>1. ASSUME NEW pc, Proceed(w, pc)
      PROVE  scanner'[w].job = scanner[w].job /\ scanner'[w].count = scanner[w].count
  BY <1>0, <1>1 DEF Proceed, ScannerState
<1>2. ASSUME NEW pc, NEW v, Leave(w, pc, v)
      PROVE  scanner'[w].job = scanner[w].job /\ scanner'[w].count = scanner[w].count
  BY <1>0, <1>2 DEF Leave, ScannerAt
<1>3. CASE \/ LoadJob(w) \/ LookupFile(w) \/ RecordVerdict(w) \/ CopyToQuarantine(w)
           \/ DeleteUpload(w)
           \/ LabelQuarantined(w) \/ EnqueueImage(w) \/ CompleteJob(w) \/ DispatchNotice(w)
           \/ ReportQueued(w) \/ DispatchFailed(w)
  BY <1>1, <1>3
  DEF LoadJob, LookupFile, RecordVerdict, CopyToQuarantine, DeleteUpload, LabelQuarantined,
      EnqueueImage, CompleteJob, DispatchNotice, ReportQueued, DispatchFailed, At
<1>4. CASE \/ FailScan(w) \/ ScanUnanswered(w) \/ NoticeUnconfirmed(w) \/ LoseConnection(w)
           \/ ScanTooLong(w) \/ ScanStream(w)
  BY <1>2, <1>4
  DEF FailScan, ScanUnanswered, NoticeUnconfirmed, LoseConnection, ScanTooLong, ScanStream, At,
      ScannerWorking
<1>5. CASE StreamFile(w) \/ RetryScan(w)
  BY <1>0, <1>5 DEF StreamFile, RetryScan, At, ScannerState
<1>6. CASE DropScannerChannel(w)
  BY <1>6 DEF DropScannerChannel
<1>7. CASE \/ AckScan(w) \/ RejectTooLong(w) \/ EndScanner(w) \/ CrashScanner(w)
           \/ RestartScanner(w)
  BY <1>0, <1>7
  DEF AckScan, RejectTooLong, EndScanner, CrashScanner, RestartScanner, ScannerAt, ScannerDown,
      ScannerIdle
<1> QED
  BY <1>3, <1>4, <1>5, <1>6, <1>7 DEF ScannerStep, ScannerMove

(* Who changes the queue, and how *)
LEMMA DeliverySteps ==
    ASSUME HandoverInv, NEW w \in Scanners, ScannerStep(w)
    PROVE  \/ scanQ' = scanQ /\ scanner[w].pc # "exit"
           \/ scanQ' = scanQ /\ ~ ScannerHolds(w)
           \/ \E r \in Requests : ReceiveScan(w, r)
           \/ /\ ScannerHolds(w) /\ scanner[w].job \in Requests
              /\ scanQ' = Ack(scanQ, scanner[w].job) \/ scanQ' = Discard(scanQ, scanner[w].job)
              /\ scanner'[w].pc \in {"down", "idle"} /\ scanner[w].pc # "exit"
           \/ /\ ScannerHolds(w) /\ scanner[w].job \in Requests
              /\ scanQ' = Return(scanQ, scanner[w].job)
<1>0. scanner \in [Scanners -> ScannerState]
  BY DEF HandoverInv, TypeOK, ScannerTypeOK, ScannerState
<1>1. ScannerHolds(w) => scanner[w].job \in Requests
  BY <1>0 DEF ScannerHolds, ScannerState
<1>2. CASE AckScan(w) \/ RejectTooLong(w)
  BY <1>0, <1>1, <1>2 DEF AckScan, RejectTooLong, ScannerDown, ScannerIdle, ScannerAt, At
<1>3. CASE EndScanner(w) \/ CrashScanner(w) \/ DropScannerChannel(w)
  BY <1>1, <1>3 DEF EndScanner, CrashScanner, DropScannerChannel, ReturnScan
<1>4. CASE \/ LoadJob(w) \/ LookupFile(w) \/ StreamFile(w) \/ ScanStream(w) \/ RetryScan(w)
           \/ RecordVerdict(w) \/ CopyToQuarantine(w) \/ DeleteUpload(w) \/ LabelQuarantined(w)
           \/ EnqueueImage(w) \/ CompleteJob(w) \/ DispatchNotice(w) \/ ReportQueued(w)
           \/ FailScan(w) \/ ScanUnanswered(w) \/ NoticeUnconfirmed(w) \/ LoseConnection(w)
           \/ ScanTooLong(w) \/ DispatchFailed(w) \/ RestartScanner(w)
  BY <1>4
  DEF LoadJob, LookupFile, StreamFile, ScanStream, RetryScan, RecordVerdict, CopyToQuarantine,
      DeleteUpload, LabelQuarantined, EnqueueImage, CompleteJob, DispatchNotice, ReportQueued,
      FailScan, ScanUnanswered, NoticeUnconfirmed, LoseConnection, ScanTooLong, DispatchFailed,
      RestartScanner, ScannerWorking, At, shared, queues
<1> QED
  BY <1>2, <1>3, <1>4 DEF ScannerStep, ScannerMove

(* A new delivery differs from those that the other scanners still have. *)
LEMMA DifferKept ==
    ASSUME HandoverInv, FailureInv, NEW w \in Scanners, ScannerStep(w)
    PROVE  DeliveriesDiffer'
<1>0. scanner \in [Scanners -> ScannerState] /\ scanQ \in [Requests -> Message]
  BY DEF HandoverInv, TypeOK, SharedTypeOK, ScannerTypeOK, ScannerState
<1>1. \A v \in Scanners \ {w} : scanner'[v] = scanner[v]
  BY ScannerEffect DEF HandoverInv
<1>2. ASSUME NEW v \in Scanners \ {w}, ScannerBusy(v), scanner'[w].pc \notin {"down", "idle"},
             scanner[v].job = scanner'[w].job
      PROVE  scanner[v].count # scanner'[w].count
  <2>1. ASSUME NEW r \in Requests, ReceiveScan(w, r) PROVE scanner[v].count # scanner'[w].count
    <3>1. /\ scanner'[w].job = r /\ scanner'[w].count = scanQ[r].count /\ scanQ[r].state = "ready"
      BY <1>0, <2>1 DEF ReceiveScan, ScannerAt, IsReady
    <3>2. ~ ScannerHolds(v) /\ scanQ[scanner[v].job].state # "dead"
      BY <1>2, <3>1 DEF ScannerHolds, HeldAt
    <3>3. scanner[v].count < scanQ[r].count
      BY <1>2, <3>1, <3>2 DEF FailureInv, HeldOrPast
    <3>4. scanner[v].count \in Nat /\ scanQ[r].count \in Nat
      BY <1>0 DEF ScannerState, Message
    <3> QED
      BY <3>1, <3>3, <3>4
  <2>2. CASE ~ \E r \in Requests : ReceiveScan(w, r)
    BY <1>2, <2>2, DeliveryKept DEF FailureInv, DeliveriesDiffer
  <2> QED
    BY <2>1, <2>2
<1> QED
  BY <1>1, <1>2 DEF FailureInv, DeliveriesDiffer, ScannerBusy

LEMMA PastKept ==
    ASSUME HandoverInv, FailureInv, NEW w \in Scanners, ScannerStep(w)
    PROVE  HeldOrPast'
<1> USE DEF ScannerBusy
<1>0. /\ scanner \in [Scanners -> ScannerState] /\ scanQ \in [Requests -> Message]
      /\ \A v \in Scanners : ScannerBusy(v) => scanner[v].job \in Requests /\ scanner[v].job # None
  BY NoneAssumption
  DEF HandoverInv, TypeOK, SharedTypeOK, ScannerTypeOK, ScannerState, ScannerKnows, KnowsJob
<1>1. \A v \in Scanners \ {w} : scanner'[v] = scanner[v]
  BY ScannerEffect DEF HandoverInv
<1> SUFFICES ASSUME NEW v \in Scanners, scanner'[v].pc \notin {"down", "idle"}
             PROVE  \/ scanner'[v].job # None /\ HeldAt(scanQ', scanner'[v].job, scanner'[v].count)
                    \/ scanQ'[scanner'[v].job].state = "dead"
                    \/ scanner'[v].count < scanQ'[scanner'[v].job].count
  BY DEF HeldOrPast, ScannerHolds, HeldAt
<1>2. ASSUME NEW r \in Requests, ReceiveScan(w, r), v = w
      PROVE  scanner'[v].job # None /\ HeldAt(scanQ', scanner'[v].job, scanner'[v].count)
  BY <1>0, <1>2, NoneAssumption DEF ReceiveScan, ScannerAt, HeldAt, Deliver
<1>3. CASE v # w \/ ~ \E r \in Requests : ReceiveScan(w, r)
  <2> DEFINE job == scanner[v].job
             n == scanner[v].count
  <2>1. /\ ScannerBusy(v) /\ scanner'[v].job = job /\ scanner'[v].count = n
        /\ job \in Requests /\ job # None /\ n \in Nat
    <3>1. ScannerBusy(v) /\ scanner'[v].job = job /\ scanner'[v].count = n
      BY <1>1, <1>3, DeliveryKept
    <3>2. n \in Nat
      BY <1>0 DEF ScannerState
    <3> QED
      BY <1>0, <3>1, <3>2
  <2>2. \/ HeldAt(scanQ, job, n) \/ scanQ[job].state = "dead" \/ n < scanQ[job].count
    BY <2>1 DEF FailureInv, HeldOrPast, ScannerHolds
  <2>3. scanQ[job].count \in Nat
    BY <1>0, <2>1 DEF Message
  <2>4. ScannerHolds(w) /\ scanner[w].job = job /\ v # w => ~ HeldAt(scanQ, job, n)
    <3>1. SUFFICES ASSUME ScannerHolds(w), scanner[w].job = job, v # w, HeldAt(scanQ, job, n)
                   PROVE  FALSE
      OBVIOUS
    <3>2. scanner[w].count = n
      BY <3>1 DEF ScannerHolds, HeldAt
    <3>3. ScannerBusy(w)
      BY <3>1 DEF ScannerHolds, FailureInv, FreeHasNone
    <3> QED
      BY <2>1, <3>1, <3>2, <3>3 DEF FailureInv, DeliveriesDiffer
  <2>9. \/ scanQ' = scanQ
        \/ ~ ScannerHolds(w) /\ \E r \in Requests : ReceiveScan(w, r)
        \/ /\ ScannerHolds(w) /\ scanner[w].job \in Requests
           /\ \/ scanQ' = Ack(scanQ, scanner[w].job) /\ v # w
              \/ scanQ' = Discard(scanQ, scanner[w].job) /\ v # w
              \/ scanQ' = Return(scanQ, scanner[w].job)
    <3>1. (\E r \in Requests : ReceiveScan(w, r)) => ~ ScannerHolds(w)
      BY DEF ReceiveScan, At, FailureInv, FreeHasNone, ScannerHolds
    <3> QED
      BY <3>1, DeliverySteps
  <2> HIDE DEF job, n
  <2>5. CASE scanQ'[job] = scanQ[job]
    BY <2>1, <2>2, <2>5 DEF HeldAt
  <2>6. ASSUME NEW r \in Requests, ReceiveScan(w, r), r = job
        PROVE  scanQ'[job].state = "dead" \/ n < scanQ'[job].count
    BY <1>0, <2>1, <2>2, <2>6 DEF ReceiveScan, IsReady, Deliver, HeldAt
  <2>7. CASE ScannerHolds(w) /\ scanner[w].job = job /\ v # w
    <3>1. n < scanQ[job].count /\ scanQ[job].state = "held"
      BY <2>2, <2>4, <2>7 DEF ScannerHolds, HeldAt
    <3>2. CASE scanQ' = Return(scanQ, job)
      BY <1>0, <2>1, <2>3, <3>1, <3>2, MessageReturned
    <3>3. CASE scanQ' = Ack(scanQ, job) \/ scanQ' = Discard(scanQ, job)
      BY <1>0, <2>1, <3>1, <3>3 DEF Ack, Discard
    <3>4. CASE scanQ' = scanQ
      BY <2>1, <2>5, <3>4
    <3> QED
      BY <2>7, <2>9, <3>2, <3>3, <3>4
  <2>8. CASE ScannerHolds(w) /\ v = w /\ scanQ' = Return(scanQ, job)
    <3>1. scanQ[job].count = n
      BY <2>8 DEF ScannerHolds, HeldAt, job, n
    <3> QED
      BY <1>0, <2>1, <2>3, <2>8, <3>1, MessageReturned
  <2> QED
    <3>1. CASE ScannerHolds(w) /\ scanner[w].job \in Requests /\ scanner[w].job # job
      <4>1. scanQ'[job] = scanQ[job]
        <5>1. CASE scanQ' = Return(scanQ, scanner[w].job)
          BY <1>0, <2>1, <3>1, <5>1, MessageReturned
        <5>2. CASE scanQ' = Ack(scanQ, scanner[w].job) \/ scanQ' = Discard(scanQ, scanner[w].job)
          BY <1>0, <2>1, <3>1, <5>2 DEF Ack, Discard
        <5> QED
          BY <2>9, <3>1, <5>1, <5>2
      <4> QED
        BY <2>1, <2>5, <4>1
    <3>2. CASE \E r \in Requests : ReceiveScan(w, r)
      <4>1. PICK r \in Requests : ReceiveScan(w, r)
        BY <3>2
      <4>2. r # job => scanQ'[job] = scanQ[job]
        BY <1>0, <2>1, <4>1 DEF ReceiveScan, Deliver
      <4> QED
        BY <2>1, <2>5, <2>6, <4>1, <4>2
    <3>3. CASE scanQ' = scanQ
      BY <2>1, <2>5, <3>3
    <3>4. v = w => scanner[w].job = job
      BY DEF job
    <3> QED
      BY <2>1, <2>7, <2>8, <2>9, <3>1, <3>2, <3>3, <3>4, DeliverySteps
<1> QED
  BY <1>2, <1>3

LEMMA FreeKept ==
    ASSUME HandoverInv, FailureInv, NEW w \in Scanners, ScannerStep(w)
    PROVE  FreeHasNone'
<1>0. scanner \in [Scanners -> ScannerState]
  BY DEF HandoverInv, TypeOK, ScannerTypeOK, ScannerState
<1>1. \A v \in Scanners \ {w} : scanner'[v] = scanner[v]
  BY ScannerEffect DEF HandoverInv
<1>2. ASSUME scanner'[w].pc \in {"down", "idle"} PROVE scanner'[w].job = None
  <2>1. ASSUME NEW pc, Proceed(w, pc), pc \notin {"down", "idle"} PROVE FALSE
    BY <1>0, <1>2, <2>1 DEF Proceed, ScannerState
  <2>2. ASSUME NEW pc, NEW v, Leave(w, pc, v), pc \notin {"down", "idle"} PROVE FALSE
    BY <1>0, <1>2, <2>2 DEF Leave, ScannerAt
  <2>3. ~ \/ LookupFile(w) \/ RecordVerdict(w) \/ CopyToQuarantine(w) \/ DeleteUpload(w)
          \/ LabelQuarantined(w) \/ EnqueueImage(w) \/ CompleteJob(w) \/ DispatchNotice(w)
          \/ ReportQueued(w) \/ DispatchFailed(w) \/ LoadJob(w)
    BY <2>1
    DEF LoadJob, LookupFile, RecordVerdict, AfterVerdict, CopyToQuarantine, DeleteUpload,
        LabelQuarantined, EnqueueImage, CompleteJob, DispatchNotice, ReportQueued, DispatchFailed
  <2>4. ~ \/ FailScan(w) \/ ScanUnanswered(w) \/ NoticeUnconfirmed(w) \/ LoseConnection(w)
          \/ ScanTooLong(w) \/ ScanStream(w)
    BY <2>2
    DEF FailScan, ScanUnanswered, NoticeUnconfirmed, LoseConnection, ScanTooLong, ScanStream
  <2>5. ~ (StreamFile(w) \/ RetryScan(w) \/ \E r \in Requests : ReceiveScan(w, r))
    <3>1. ASSUME StreamFile(w) PROVE FALSE
      <4>1. scanner'[w].pc = "scan"
        BY <1>0, <3>1 DEF StreamFile, ScannerState
      <4> QED
        BY <1>2, <4>1
    <3>2. ASSUME RetryScan(w) PROVE FALSE
      <4>1. scanner'[w].pc = scanner[w].pc
        BY <1>0, <3>2 DEF RetryScan, ScannerState
      <4> QED
        BY <1>2, <3>2, <4>1 DEF RetryScan, At
    <3>3. ASSUME NEW r \in Requests, ReceiveScan(w, r) PROVE FALSE
      <4>1. scanner'[w].pc = "load"
        BY <1>0, <3>3 DEF ReceiveScan, ScannerAt
      <4> QED
        BY <1>2, <4>1
    <3> QED
      BY <3>1, <3>2, <3>3
  <2>6. CASE DropScannerChannel(w)
    BY <1>2, <2>6 DEF DropScannerChannel, FailureInv, FreeHasNone, ScannerBusy
  <2>7. CASE \/ AckScan(w) \/ RejectTooLong(w) \/ EndScanner(w) \/ CrashScanner(w)
             \/ RestartScanner(w)
    BY <1>0, <2>7
    DEF AckScan, RejectTooLong, EndScanner, CrashScanner, RestartScanner, ScannerAt, ScannerDown,
        ScannerIdle
  <2> QED
    BY <2>3, <2>4, <2>5, <2>6, <2>7 DEF ScannerStep, ScannerMove
<1> QED
  BY <1>1, <1>2 DEF FailureInv, FreeHasNone, ScannerBusy

(* Only the last delivery tells the developer of a failure. *)
LEMMA FailuresTold ==
    ASSUME HandoverInv, NEW w \in Scanners, ScannerStep(w),
           NEW r \in Requests, "failed" \in notices'[r], "failed" \notin notices[r]
    PROVE  /\ scanner[w].job = r /\ scanner[w].count = DeliveryLimit /\ ScannerBusy(w)
           /\ scanner'[w].job = r /\ scanner'[w].pc = "exit"
           /\ scanner'[w].count = DeliveryLimit /\ scanQ' = scanQ
<1> USE DEF HandoverInv, TypeOK, SharedTypeOK, shared, queues
<1>1. CASE DispatchFailed(w)
  <2>1. scanner[w].job = r
    BY <1>1 DEF DispatchFailed
  <2>2. scanner[w].count = DeliveryLimit
    <3>1. scanner[w].count >= MaxDeliveryCount /\ scanner[w].count \in 0..DeliveryLimit
      BY <1>1 DEF DispatchFailed, ScannerTypeOK
    <3> QED
      BY <3>1, MaxDeliveryAssumption, DeliveryLimitAssumption
  <2> QED
    BY <1>1, <2>1, <2>2 DEF DispatchFailed, Proceed, ScannerTypeOK, ScannerBusy, At
<1>2. CASE DispatchNotice(w) \/ NoticeUnconfirmed(w)
  BY <1>2 DEF DispatchNotice, NoticeUnconfirmed, NoticeOf
<1> QED
  BY <1>1, <1>2
  DEF ScannerStep, ScannerMove, ReceiveScan, LoadJob, LookupFile, StreamFile, RetryScan,
      ScanStream, RecordVerdict, CopyToQuarantine, DeleteUpload, LabelQuarantined, EnqueueImage,
      CompleteJob, ReportQueued, AckScan, FailScan, ScanUnanswered, LoseConnection, ScanTooLong,
      RejectTooLong, EndScanner, CrashScanner, DropScannerChannel, RestartScanner

LEMMA FinalKept ==
    ASSUME HandoverInv, FailureInv, NEW w \in Scanners, ScannerStep(w)
    PROVE  FailedInLastDelivery'
<1>0. scanner \in [Scanners -> ScannerState] /\ scanQ \in [Requests -> Message]
  BY DEF HandoverInv, TypeOK, SharedTypeOK, ScannerTypeOK, ScannerState
<1>1. \A v \in Scanners \ {w} : scanner'[v] = scanner[v]
  BY ScannerEffect DEF HandoverInv
<1> SUFFICES ASSUME NEW r \in Requests, "failed" \in notices'[r]
             PROVE  \/ scanQ'[r].state = "dead"
                    \/ \E v \in Scanners : /\ scanner'[v].job = r /\ scanner'[v].pc = "exit"
                                           /\ scanner'[v].job # None
                                           /\ HeldAt(scanQ', scanner'[v].job, scanner'[v].count)
                                           /\ scanner'[v].count = DeliveryLimit
  BY DEF FailedInLastDelivery, ScannerHolds, HeldAt, At
<1>2. r # None
  BY NoneAssumption
<1>3. CASE "failed" \notin notices[r]
  <2>1. /\ scanner[w].job = r /\ scanner[w].count = DeliveryLimit /\ ScannerBusy(w)
        /\ scanner'[w].job = r /\ scanner'[w].pc = "exit"
        /\ scanner'[w].count = DeliveryLimit /\ scanQ' = scanQ
    BY <1>3, FailuresTold
  <2>2. ~ (DeliveryLimit < scanQ[r].count)
    BY <1>0, DeliveryLimitAssumption DEF Message
  <2>3. HeldAt(scanQ, r, DeliveryLimit) \/ scanQ[r].state = "dead"
    BY <2>1, <2>2 DEF FailureInv, HeldOrPast, ScannerHolds
  <2> QED
    BY <1>2, <2>1, <2>3 DEF HeldAt
<1>4. CASE scanQ[r].state = "dead"
  <2>1. scanner[w].job = r => ~ ScannerHolds(w)
    BY <1>4 DEF ScannerHolds, HeldAt
  <2>2. scanQ'[r] = scanQ[r]
    <3>1. ASSUME NEW q \in Requests, ReceiveScan(w, q) PROVE scanQ'[r] = scanQ[r]
      BY <1>0, <1>4, <3>1 DEF ReceiveScan, IsReady, Deliver
    <3>2. ASSUME NEW q \in Requests, q # r,
                 \/ scanQ' = Ack(scanQ, q)
                 \/ scanQ' = Discard(scanQ, q)
                 \/ scanQ' = Return(scanQ, q)
          PROVE  scanQ'[r] = scanQ[r]
      BY <1>0, <3>2, MessageReturned DEF Ack, Discard
    <3> QED
      BY <2>1, <3>1, <3>2, DeliverySteps
  <2> QED
    BY <1>4, <2>2
<1>5. ASSUME NEW u \in Scanners, scanner[u].job = r, At(u, "exit"), ScannerHolds(u),
             scanner[u].count = DeliveryLimit
      PROVE  \/ scanQ'[r].state = "dead"
             \/ /\ scanner'[u] = scanner[u] /\ scanQ'[r] = scanQ[r]
  <2>1. HeldAt(scanQ, r, DeliveryLimit)
    BY <1>5 DEF ScannerHolds
  <2>2. CASE u = w
    <3>1. scanQ' = Return(scanQ, r)
      <4>1. ~ \E q \in Requests : ReceiveScan(w, q)
        BY <1>5, <2>2 DEF ReceiveScan, At
      <4> QED
        BY <1>5, <2>2, <4>1, DeliverySteps DEF At
    <3>2. scanQ[r].count = DeliveryLimit
      BY <2>1 DEF HeldAt
    <3> QED
      BY <1>0, <3>1, <3>2, DeliveryLimitAssumption DEF Return, Discard, Message
  <2>3. CASE u # w
    <3>1. ScannerHolds(w) => scanner[w].job # r
      <4>1. SUFFICES ASSUME ScannerHolds(w), scanner[w].job = r PROVE FALSE
        OBVIOUS
      <4>2. scanner[w].count = DeliveryLimit /\ ScannerBusy(w) /\ ScannerBusy(u)
        BY <1>2, <1>5, <2>1, <4>1
        DEF ScannerHolds, HeldAt, FailureInv, FreeHasNone, ScannerBusy, At
      <4> QED
        BY <1>5, <2>3, <4>1, <4>2 DEF FailureInv, DeliveriesDiffer
    <3>2. scanQ'[r] = scanQ[r]
      <4>1. ASSUME NEW q \in Requests, ReceiveScan(w, q) PROVE scanQ'[r] = scanQ[r]
        BY <1>0, <2>1, <4>1 DEF ReceiveScan, IsReady, Deliver, HeldAt
      <4>2. ASSUME NEW q \in Requests, q # r,
                   \/ scanQ' = Ack(scanQ, q) \/ scanQ' = Discard(scanQ, q)
                   \/ scanQ' = Return(scanQ, q)
            PROVE  scanQ'[r] = scanQ[r]
        BY <1>0, <4>2, MessageReturned DEF Ack, Discard
      <4> QED
        BY <3>1, <4>1, <4>2, DeliverySteps
    <3> QED
      BY <1>1, <2>3, <3>2
  <2> QED
    BY <2>2, <2>3
<1> QED
  <2>1. CASE "failed" \in notices[r] /\ scanQ[r].state # "dead"
    <3>1. PICK u \in Scanners : /\ scanner[u].job = r /\ At(u, "exit") /\ ScannerHolds(u)
                                /\ scanner[u].count = DeliveryLimit
      BY <2>1 DEF FailureInv, FailedInLastDelivery
    <3>2. scanQ'[r].state = "dead" \/ (scanner'[u] = scanner[u] /\ scanQ'[r] = scanQ[r])
      BY <1>5, <3>1
    <3> QED
      BY <3>1, <3>2 DEF ScannerHolds, HeldAt, At
  <2> QED
    BY <1>3, <1>4, <2>1

LEMMA FailureKept ==
    ASSUME HandoverInv, WorkIsQueued, FailureInv, [Next]_vars
    PROVE  FailureInv'
<1>0. scanQ \in [Requests -> Message]
  BY DEF HandoverInv, TypeOK, SharedTypeOK
<1>1. ASSUME NEW r \in Requests, ApiStep(r), UNCHANGED <<scanner, imager>> PROVE FailureInv'
  <2>1. \A q \in Requests : scanQ[q].state # "none" => scanQ'[q] = scanQ[q]
    <3>1. CASE PublishScanTask(r)
      <4>1. scanQ[r].state = "none"
        BY <3>1 DEF PublishScanTask, HandoverInv, RequestKnows
      <4>2. \A q \in Requests \ {r} : scanQ'[q] = scanQ[q]
        BY <1>0, <3>1 DEF PublishScanTask, Send, Publish
      <4> QED
        BY <4>1, <4>2
    <3> QED
      BY <1>1, <3>1
      DEF ApiStep, ReceiveUpload, CheckDuplicate, PutObject, InsertRows, AnswerAccepted,
          FailUpload, shared, queues
  <2>2. notices' = notices
    BY <1>1, ApiEffect DEF HandoverInv
  <2>3. \A w \in Scanners : ScannerBusy(w) => /\ scanner[w].job \in Requests
                                             /\ scanQ'[scanner[w].job] = scanQ[scanner[w].job]
    BY <2>1 DEF HandoverInv, ScannerKnows, KnowsJob, WorkIsQueued
  <2>4. DeliveriesDiffer' /\ HeldOrPast' /\ FreeHasNone'
    BY <1>1, <2>3
    DEF FailureInv, DeliveriesDiffer, HeldOrPast, FreeHasNone, ScannerBusy, ScannerHolds, HeldAt
  <2>5. FailedInLastDelivery'
    <3>1. SUFFICES ASSUME NEW q \in Requests, "failed" \in notices[q]
                   PROVE  \/ scanQ'[q].state = "dead"
                          \/ \E w \in Scanners : /\ scanner[w].job = q /\ scanner[w].pc = "exit"
                                                 /\ scanner[w].job # None
                                                 /\ HeldAt(scanQ', scanner[w].job, scanner[w].count)
                                                 /\ scanner[w].count = DeliveryLimit
      BY <1>1, <2>2 DEF FailedInLastDelivery, ScannerHolds, HeldAt, At
    <3>2. CASE scanQ[q].state = "dead"
      BY <2>1, <3>2
    <3>3. CASE scanQ[q].state # "dead"
      <4>1. PICK w \in Scanners : /\ scanner[w].job = q /\ At(w, "exit") /\ ScannerHolds(w)
                                  /\ scanner[w].count = DeliveryLimit
        BY <3>1, <3>3 DEF FailureInv, FailedInLastDelivery
      <4>2. scanQ'[q] = scanQ[q]
        BY <2>1, <4>1 DEF ScannerHolds, HeldAt
      <4> QED
        BY <4>1, <4>2 DEF ScannerHolds, HeldAt, At
    <3> QED
      BY <3>2, <3>3
  <2> QED
    BY <2>4, <2>5 DEF FailureInv
<1>2. ASSUME NEW w \in Scanners, ScannerStep(w) PROVE FailureInv'
  BY <1>2, DifferKept, PastKept, FreeKept, FinalKept DEF FailureInv
<1>3. ASSUME UNCHANGED <<scanner, scanQ, notices>> PROVE FailureInv'
  BY <1>3
  DEF FailureInv, DeliveriesDiffer, HeldOrPast, FreeHasNone, FailedInLastDelivery, ScannerBusy,
      ScannerHolds, HeldAt, At
<1>4. ASSUME NEW i \in Imagers, ImagerStep(i), UNCHANGED <<apiVars, scanner>> PROVE FailureInv'
  BY <1>3, <1>4, ImagerEffect DEF HandoverInv
<1>5. CASE UNCHANGED vars
  BY <1>3, <1>5 DEF vars, shared, queues
<1> QED
  BY <1>1, <1>2, <1>4, <1>5 DEF Next

(* A job whose failure is announced has a task, in its last delivery.      *)
LEMMA NoneIsLeft ==
    ASSUME HandoverInv, FailureInv, NEW r \in Requests, FailedForGood(r)
    PROVE  Committed(r) /\ ~ IsReady(scanQ, r)
<1>1. scanQ[r].state \in {"dead", "held"}
  <2>1. "failed" \in notices[r]
    BY DEF FailedForGood
  <2>2. \/ scanQ[r].state = "dead"
        \/ \E w \in Scanners : scanner[w].job = r /\ ScannerHolds(w)
    BY <2>1 DEF FailureInv, FailedInLastDelivery
  <2>3. ASSUME NEW w \in Scanners, scanner[w].job = r, ScannerHolds(w)
        PROVE  scanQ[r].state = "held"
    BY <2>3 DEF ScannerHolds, HeldAt
  <2> QED
    BY <2>2, <2>3
<1> QED
  BY <1>1 DEF HandoverInv, TaskHasRow, IsReady

(* Request handlers do not touch a job that is there. *)
LEMMA FailureStandsApi ==
    ASSUME HandoverInv, FailureInv, NEW q \in Requests, ApiStep(q), UNCHANGED <<scanner, imager>>,
           NEW r \in Requests, FailedForGood(r)
    PROVE  FailedForGood(r)' /\ status'[r] = status[r] /\ notices'[r] = notices[r]
<1> USE DEF HandoverInv, TypeOK, SharedTypeOK, shared, database
<1>1. status'[r] = status[r]
  <2>1. CASE InsertRows(q)
    <3>1. q # r
      BY <2>1, NoneIsLeft DEF InsertRows, RequestKnows
    <3> QED
      BY <2>1, <3>1 DEF InsertRows
  <2> QED
    BY <2>1
    DEF ApiStep, ReceiveUpload, CheckDuplicate, PutObject, PublishScanTask, AnswerAccepted,
        FailUpload
<1>2. UNCHANGED <<imageQ, notices>>
  BY ApiEffect
<1>3. FailedForGood(r)'
  BY <1>2 DEF FailedForGood, ImagerBusy, JobOf
<1> QED
  BY <1>1, <1>2, <1>3

(* A scanner that begins no delivery goes on working, but never starts to. *)
LEMMA WorkWentOn ==
    ASSUME HandoverInv, NEW w \in Scanners, ScannerStep(w), scanner'[w].pc \in ScannerWorking,
           ~ \E q \in Requests : ReceiveScan(w, q)
    PROVE  scanner[w].pc \in ScannerWorking /\ scanner'[w].job = scanner[w].job
<1>0. scanner \in [Scanners -> ScannerState]
  BY DEF HandoverInv, TypeOK, ScannerTypeOK, ScannerState
<1>1. scanner'[w].job = scanner[w].job
  BY DeliveryKept DEF ScannerWorking
<1>2. CASE DispatchFailed(w)
  <2>1. scanner'[w].pc = "exit"
    BY <1>0, <1>2 DEF DispatchFailed, Proceed, ScannerState
  <2> QED
    BY <2>1 DEF ScannerWorking
<1>3. CASE \/ AckScan(w) \/ RejectTooLong(w) \/ EndScanner(w) \/ CrashScanner(w)
           \/ RestartScanner(w)
  <2>1. scanner'[w].pc \in {"down", "idle"}
    BY <1>0, <1>3
    DEF AckScan, RejectTooLong, EndScanner, CrashScanner, RestartScanner, ScannerAt, ScannerDown,
        ScannerIdle
  <2> QED
    BY <2>1 DEF ScannerWorking
<1>4. CASE DropScannerChannel(w)
  BY <1>4 DEF DropScannerChannel
<1>5. CASE \/ LoadJob(w) \/ LookupFile(w) \/ StreamFile(w) \/ ScanStream(w) \/ RetryScan(w)
           \/ RecordVerdict(w) \/ CopyToQuarantine(w) \/ DeleteUpload(w) \/ LabelQuarantined(w)
           \/ EnqueueImage(w) \/ CompleteJob(w) \/ DispatchNotice(w) \/ ReportQueued(w)
           \/ FailScan(w) \/ ScanUnanswered(w) \/ NoticeUnconfirmed(w) \/ LoseConnection(w)
           \/ ScanTooLong(w)
  <2>1. scanner[w].pc \in ScannerWorking
    BY <1>5
    DEF LoadJob, LookupFile, StreamFile, ScanStream, RetryScan, RecordVerdict, CopyToQuarantine,
        DeleteUpload, LabelQuarantined, EnqueueImage, CompleteJob, DispatchNotice, ReportQueued,
        FailScan, ScanUnanswered, NoticeUnconfirmed, LoseConnection, ScanTooLong, ScannerWorking,
        At
  <2> QED
    BY <1>1, <2>1
<1> QED
  BY <1>1, <1>2, <1>3, <1>4, <1>5 DEF ScannerStep, ScannerMove

(* Only a scanner that is at work on a job writes its status, publishes an *)
(* image task of it, or tells of it other than that it failed.             *)
LEMMA OnlyWorkersWrite ==
    ASSUME HandoverInv, NEW w \in Scanners, ScannerStep(w), NEW r \in Requests,
           scanner[w].pc \in ScannerWorking => scanner[w].job # r
    PROVE  /\ status'[r] = status[r]
           /\ notices'[r] \in {notices[r], notices[r] \cup {"failed"}}
           /\ \A t \in ImageTasks : t[1] = r => imageQ'[t] = imageQ[t]
<1> USE DEF HandoverInv, TypeOK, SharedTypeOK, shared, database, queues, At
<1>1. CASE \/ LoadJob(w) \/ RecordVerdict(w) \/ LabelQuarantined(w) \/ CompleteJob(w)
           \/ FailScan(w) \/ ScanUnanswered(w) \/ LoseConnection(w) \/ ScanTooLong(w)
  BY <1>1
  DEF LoadJob, RecordVerdict, LabelQuarantined, CompleteJob, FailScan, ScanUnanswered,
      LoseConnection, ScanTooLong, RecordFailure, WriteStatus, ScannerWorking
<1>2. CASE DispatchNotice(w) \/ NoticeUnconfirmed(w)
  BY <1>2 DEF DispatchNotice, NoticeUnconfirmed, RecordFailure, WriteStatus, ScannerWorking
<1>3. CASE DispatchFailed(w)
  BY <1>3 DEF DispatchFailed
<1>4. CASE EnqueueImage(w)
  <2> DEFINE task == <<scanner[w].job, scanner[w].count>>
  <2>1. task[1] # r
    BY <1>4 DEF EnqueueImage, ScannerWorking
  <2>2. imageQ' = Send(imageQ, task, "image" \in declared)
    BY <1>4 DEF EnqueueImage
  <2>3. \A t \in ImageTasks : t # task => imageQ'[t] = imageQ[t]
    <3> HIDE DEF task
    <3> QED
      BY <2>2 DEF Send, Publish
  <2> QED
    BY <1>4, <2>1, <2>3 DEF EnqueueImage
<1>5. CASE \/ LookupFile(w) \/ StreamFile(w) \/ ScanStream(w) \/ RetryScan(w)
           \/ CopyToQuarantine(w) \/ DeleteUpload(w) \/ ReportQueued(w) \/ AckScan(w)
           \/ RejectTooLong(w) \/ EndScanner(w) \/ CrashScanner(w) \/ DropScannerChannel(w)
           \/ RestartScanner(w) \/ \E q \in Requests : ReceiveScan(w, q)
  BY <1>5
  DEF LookupFile, StreamFile, ScanStream, RetryScan, CopyToQuarantine, DeleteUpload, ReportQueued,
      AckScan, RejectTooLong, EndScanner, CrashScanner, DropScannerChannel, RestartScanner,
      ReceiveScan
<1> QED
  BY <1>1, <1>2, <1>3, <1>4, <1>5 DEF ScannerStep, ScannerMove

LEMMA FailureStandsScanner ==
    ASSUME HandoverInv, FailureInv, NEW w \in Scanners, ScannerStep(w), UNCHANGED imager,
           NEW r \in Requests, FailedForGood(r)
    PROVE  FailedForGood(r)' /\ status'[r] = status[r] /\ notices'[r] = notices[r]
<1>1. /\ status'[r] = status[r]
      /\ notices'[r] \in {notices[r], notices[r] \cup {"failed"}}
      /\ \A t \in ImageTasks : t[1] = r => imageQ'[t] = imageQ[t]
  BY OnlyWorkersWrite DEF FailedForGood
<1>2. notices'[r] = notices[r]
  BY <1>1 DEF FailedForGood
<1>3. ASSUME NEW v \in Scanners, scanner'[v].pc \in ScannerWorking PROVE scanner'[v].job # r
  <2>1. CASE v # w
    <3>1. scanner'[v] = scanner[v]
      BY <2>1, ScannerEffect DEF HandoverInv
    <3> QED
      BY <1>3, <3>1 DEF FailedForGood
  <2>2. CASE v = w /\ \E q \in Requests : ReceiveScan(w, q)
    <3>1. PICK q \in Requests : ReceiveScan(w, q)
      BY <2>2
    <3>2. q # r
      BY <3>1, NoneIsLeft DEF ReceiveScan
    <3>3. scanner'[w].job = q
      BY <3>1 DEF ReceiveScan, ScannerAt, HandoverInv, TypeOK, ScannerTypeOK
    <3> QED
      BY <2>2, <3>2, <3>3
  <2>3. CASE v = w /\ ~ \E q \in Requests : ReceiveScan(w, q)
    BY <1>3, <2>3, WorkWentOn DEF FailedForGood
  <2> QED
    BY <2>1, <2>2, <2>3
<1>4. FailedForGood(r)'
  BY <1>1, <1>2, <1>3 DEF FailedForGood, ImagerBusy, JobOf
<1> QED
  BY <1>1, <1>2, <1>4

ImagerState ==
    [pc : ImagerPc, task : ImageTasks \cup {None}, count : 0..DeliveryLimit, next : Renditions]

(* A busy image processor keeps its task until it ends. *)
LEMMA ImageTaskKept ==
    ASSUME ImagerTypeOK, NEW i \in Imagers, ImagerStep(i), imager'[i].pc \notin {"down", "idle"},
           ~ \E t \in ImageTasks : ReceiveImage(i, t)
    PROVE  ImagerBusy(i) /\ imager'[i].task = imager[i].task
<1> USE DEF ImagerBusy, Stage
<1>0. imager \in [Imagers -> ImagerState]
  BY DEF ImagerTypeOK, ImagerState
<1>1. ASSUME NEW pc, Advance(i, pc) PROVE imager'[i].task = imager[i].task
  BY <1>0, <1>1 DEF Advance, ImagerState
<1>2. CASE \/ OpenJob(i) \/ RenderImage(i) \/ FinishImage(i) \/ TellComplete(i)
           \/ AbandonImage(i)
  BY <1>1, <1>2 DEF OpenJob, RenderImage, FinishImage, TellComplete, AbandonImage, ImagerWorking
<1>3. CASE StoreRendition(i)
  BY <1>0, <1>3 DEF StoreRendition, ImagerState
<1>4. CASE DropImagerChannel(i)
  BY <1>4 DEF DropImagerChannel
<1>5. CASE AckImage(i) \/ EndImager(i) \/ RestartImager(i)
  BY <1>0, <1>5 DEF AckImage, EndImager, RestartImager, ImagerDown, ImagerIdle
<1> QED
  BY <1>2, <1>3, <1>4, <1>5 DEF ImagerStep, ImagerMove, FailImage

(* An image processor that gets no task of the job does nothing to it. *)
LEMMA FailureStandsImager ==
    ASSUME HandoverInv, FailureInv, NEW i \in Imagers, ImagerStep(i), UNCHANGED scanner,
           NEW r \in Requests, FailedForGood(r)
    PROVE  FailedForGood(r)' /\ status'[r] = status[r] /\ notices'[r] = notices[r]
<1> USE DEF HandoverInv, TypeOK, SharedTypeOK, ImagerTypeOK, Stage, Advance
<1>1. notices' = notices
  BY ImagerEffect
<1>2. ImagerBusy(i) => JobOf(i) # r
  BY DEF FailedForGood
<1>3. status'[r] = status[r]
  BY <1>2
  DEF ImagerStep, ImagerMove, FailImage, ReceiveImage, OpenJob, RenderImage, StoreRendition,
      FinishImage, TellComplete, AckImage, AbandonImage, EndImager, DropImagerChannel,
      RestartImager, WriteStatus, ImagerBusy, shared, database
<1>4. ASSUME NEW t \in ImageTasks, t[1] = r PROVE imageQ'[t] = imageQ[t]
  <2>1. imageQ[t].state \notin {"ready", "held"}
    BY <1>4 DEF FailedForGood
  <2>2. ASSUME NEW u \in ImageTasks, ReceiveImage(i, u) PROVE imageQ'[t] = imageQ[t]
    BY <2>1, <2>2 DEF ReceiveImage, IsReady, Deliver
  <2>3. CASE \/ ImagerHolds(i) /\ imageQ' = Ack(imageQ, imager[i].task)
             \/ ImagerHolds(i) /\ imageQ' = Return(imageQ, imager[i].task)
    <3>1. t # imager[i].task /\ imager[i].task \in ImageTasks
      BY <2>1, <2>3 DEF ImagerHolds, HeldAt
    <3> QED
      BY <2>3, <3>1, MessageReturned DEF Ack
  <2>4. CASE imageQ' = imageQ
    BY <2>4
  <2> QED
    BY <2>2, <2>3, <2>4
    DEF ImagerStep, ImagerMove, FailImage, OpenJob, RenderImage, StoreRendition, FinishImage,
        TellComplete, AckImage, AbandonImage, EndImager, DropImagerChannel, RestartImager,
        ReturnImage, shared, queues
<1>5. ASSUME NEW j \in Imagers, imager'[j].pc \notin {"down", "idle"} PROVE imager'[j].task[1] # r
  <2>1. CASE j # i
    <3>1. imager'[j] = imager[j]
      BY <2>1, ImagerEffect
    <3> QED
      BY <1>5, <3>1 DEF FailedForGood, ImagerBusy, JobOf
  <2>2. ASSUME NEW u \in ImageTasks, ReceiveImage(i, u) PROVE imager'[i].task[1] # r
    <3>1. u[1] # r
      BY <2>2 DEF ReceiveImage, IsReady, FailedForGood
    <3>2. imager'[i].task = u
      BY <2>2 DEF ReceiveImage
    <3> QED
      BY <3>1, <3>2
  <2>3. CASE j = i /\ ~ \E u \in ImageTasks : ReceiveImage(i, u)
    BY <1>2, <1>5, <2>3, ImageTaskKept DEF JobOf
  <2> QED
    BY <2>1, <2>2, <2>3
<1>6. FailedForGood(r)'
  BY <1>1, <1>4, <1>5 DEF FailedForGood, ImagerBusy, JobOf
<1> QED
  BY <1>1, <1>3, <1>6

(* Once a developer was told "failed" and what was under way then is over, *)
(* the job is left as it is: its scan was in the last delivery.            *)
THEOREM FailureIsFinal == Spec => FailedIsFinal
<1>1. Init => WorkIsQueued /\ FailureInv
  BY DEF Init, SharedInit, ScannerInit, ScannerDown, ScannerAt, WorkIsQueued, FailureInv,
         DeliveriesDiffer, HeldOrPast, FreeHasNone, FailedInLastDelivery, ScannerBusy
<1>2. HandoverInv /\ (WorkIsQueued /\ FailureInv) /\ [Next]_vars => (WorkIsQueued /\ FailureInv)'
  BY WorkWasPublished, FailureKept
<1>3. HandoverInv /\ FailureInv /\ [Next]_vars =>
        [\A r \in Requests : FailedForGood(r) =>
           /\ FailedForGood(r)'
           /\ status'[r] = status[r]
           /\ notices'[r] = notices[r]]_vars
  BY FailureStandsApi, FailureStandsScanner, FailureStandsImager DEF Next
<1> QED
  BY <1>1, <1>2, <1>3, Handover, PTL DEF Spec, FailedIsFinal

-----------------------------------------------------------------------------
(* Deliveries and image tasks come to an end *)

(* An image processor changes at most the task that it has, and only while *)
(* the broker counts on it.                                                *)
LEMMA ImagerOnQueue ==
    ASSUME HandoverInv, NEW i \in Imagers, ImagerStep(i)
    PROVE  MovesOn(imageQ, imageQ')
<1>0. imageQ \in [ImageTasks -> Message]
  BY DEF HandoverInv, TypeOK, SharedTypeOK
<1>1. ImagerHolds(i) => imager[i].task \in ImageTasks /\ imageQ[imager[i].task].state = "held"
  BY DEF ImagerHolds, HeldAt, HandoverInv, TypeOK, ImagerTypeOK
<1>2. ASSUME NEW t \in ImageTasks, ReceiveImage(i, t) PROVE MovesOn(imageQ, imageQ')
  BY <1>0, <1>2, QueueMovesOn DEF ReceiveImage, IsReady
<1>3. CASE AckImage(i) \/ EndImager(i) \/ FailImage(i) \/ DropImagerChannel(i)
  <2>1. \/ imageQ' = imageQ
        \/ ImagerHolds(i) /\ imageQ' = Ack(imageQ, imager[i].task)
        \/ ImagerHolds(i) /\ imageQ' = Return(imageQ, imager[i].task)
    BY <1>3 DEF AckImage, EndImager, FailImage, DropImagerChannel, ReturnImage
  <2>2. imageQ' = imageQ => MovesOn(imageQ, imageQ')
    BY DEF MovesOn
  <2> QED
    BY <1>0, <1>1, <2>1, <2>2, QueueMovesOn
<1>4. CASE OpenJob(i) \/ RenderImage(i) \/ StoreRendition(i) \/ FinishImage(i) \/ TellComplete(i)
           \/ AbandonImage(i) \/ RestartImager(i)
  <2>1. imageQ' = imageQ
    BY <1>4
    DEF OpenJob, RenderImage, StoreRendition, FinishImage, TellComplete, AbandonImage,
        RestartImager, shared, queues
  <2> QED
    BY <2>1 DEF MovesOn
<1> QED
  BY <1>2, <1>3, <1>4 DEF ImagerStep, ImagerMove

(* A delivery that a scanner works on has begun. *)
LEMMA DeliveryHasBegun ==
    ASSUME HandoverInv, WorkIsQueued, FailureInv, NEW w \in Scanners, ScannerBusy(w),
           NEW r, r = scanner[w].job
    PROVE  /\ r \in Requests /\ scanner[w].count \in 0..DeliveryLimit
           /\ InDelivery(scanner[w].count) <= Rank(scanQ[r])
<1>1. r \in Requests /\ scanner[w].count \in 0..DeliveryLimit /\ scanQ[r] \in Message
  BY DEF HandoverInv, ScannerKnows, KnowsJob, TypeOK, SharedTypeOK, ScannerTypeOK
<1>2. /\ scanner[w].count \in Nat /\ scanQ[r].count \in Nat /\ DeliveryLimit \in Nat
      /\ scanner[w].count <= DeliveryLimit /\ Rank(scanQ[r]) \in Nat
  BY <1>1, Ranks, DeliveryLimitAssumption
<1>3. scanQ[r].state # "none"
  BY DEF WorkIsQueued
<1>4. CASE ScannerHolds(w)
  <2>1. scanQ[r].state = "held" /\ scanQ[r].count = scanner[w].count
    BY <1>4 DEF ScannerHolds, HeldAt
  <2>2. Rank(scanQ[r]) = 2 * scanner[w].count + 2
    BY <1>1, <2>1, Ranks
  <2> QED
    BY <1>1, <1>2, <2>2 DEF InDelivery
<1>5. CASE scanQ[r].state = "dead"
  <2>1. Rank(scanQ[r]) = 2 * DeliveryLimit + 3
    BY <1>1, <1>5, Ranks
  <2> QED
    BY <1>1, <1>2, <2>1 DEF InDelivery
<1>6. CASE scanner[w].count < scanQ[r].count
  <2>1. Rank(scanQ[r]) >= 2 * scanQ[r].count + 1
    <3>1. scanQ[r].count <= DeliveryLimit
      BY <1>1, <1>2, Ranks
    <3>2. scanQ[r].state \in {"ready", "held", "acked", "dead", "unrouted"}
      BY <1>1, <1>3 DEF Message, MessageStates
    <3> QED
      BY <1>1, <1>2, <3>1, <3>2, Ranks
  <2> QED
    BY <1>1, <1>2, <1>6, <2>1 DEF InDelivery
<1> QED
  BY <1>1, <1>4, <1>5, <1>6 DEF FailureInv, HeldOrPast

(* A scanner publishes an image task only on its way past that point. *)
LEMMA EnqueuedOnce ==
    ASSUME HandoverInv, NEW w \in Scanners, ScannerStep(w)
    PROVE  /\ EnqueueImage(w) \/ imageQ' = imageQ
           /\ scanner'[w].pc \in BeforeEnqueue =>
                 /\ imageQ' = imageQ
                 /\ (\E r \in Requests : ReceiveScan(w, r)) \/ scanner[w].pc \in BeforeEnqueue
<1> USE DEF BeforeEnqueue, At
<1>0. scanner \in [Scanners -> ScannerState]
  BY DEF HandoverInv, TypeOK, ScannerTypeOK, ScannerState
<1>1. ASSUME NEW pc, Proceed(w, pc) PROVE scanner'[w].pc = pc
  BY <1>0, <1>1 DEF Proceed, ScannerState
<1>2. ASSUME NEW pc, NEW v, Leave(w, pc, v) PROVE scanner'[w].pc = pc
  BY <1>0, <1>2 DEF Leave, ScannerAt
<1>3. CASE \/ LoadJob(w) \/ LookupFile(w) \/ RecordVerdict(w) \/ CopyToQuarantine(w)
           \/ DeleteUpload(w) \/ LabelQuarantined(w) \/ EnqueueImage(w) \/ CompleteJob(w)
           \/ DispatchNotice(w) \/ ReportQueued(w) \/ DispatchFailed(w)
  BY <1>1, <1>3
  DEF LoadJob, LookupFile, RecordVerdict, CopyToQuarantine, DeleteUpload, LabelQuarantined,
      EnqueueImage, CompleteJob, DispatchNotice, ReportQueued, DispatchFailed, shared, queues
<1>4. CASE \/ FailScan(w) \/ ScanUnanswered(w) \/ NoticeUnconfirmed(w) \/ LoseConnection(w)
           \/ ScanTooLong(w) \/ ScanStream(w)
  BY <1>2, <1>4
  DEF FailScan, ScanUnanswered, NoticeUnconfirmed, LoseConnection, ScanTooLong, ScanStream, shared,
      queues
<1>5. CASE StreamFile(w) \/ RetryScan(w)
  BY <1>5 DEF StreamFile, RetryScan, shared, queues
<1>6. CASE DropScannerChannel(w) \/ \E r \in Requests : ReceiveScan(w, r)
  BY <1>6 DEF DropScannerChannel, ReceiveScan
<1>7. CASE \/ AckScan(w) \/ RejectTooLong(w) \/ EndScanner(w) \/ CrashScanner(w)
           \/ RestartScanner(w)
  BY <1>0, <1>7
  DEF AckScan, RejectTooLong, EndScanner, CrashScanner, RestartScanner, ScannerAt, ScannerDown,
      ScannerIdle
<1> QED
  BY <1>3, <1>4, <1>5, <1>6, <1>7 DEF ScannerStep, ScannerMove

(* Scan and image tasks only move on. *)
LEMMA TasksMoveOn ==
    ASSUME HandoverInv, UntilEnqueued, [Next]_vars
    PROVE  MovesOn(scanQ, scanQ') /\ MovesOn(imageQ, imageQ')
<1>0. scanQ \in [Requests -> Message] /\ imageQ \in [ImageTasks -> Message]
  BY DEF HandoverInv, TypeOK, SharedTypeOK
<1>1. (scanQ' = scanQ => MovesOn(scanQ, scanQ')) /\ (imageQ' = imageQ => MovesOn(imageQ, imageQ'))
  BY DEF MovesOn
<1>2. ASSUME NEW r \in Requests, ApiStep(r)
      PROVE  MovesOn(scanQ, scanQ') /\ MovesOn(imageQ, imageQ')
  <2>1. CASE PublishScanTask(r)
    <3>1. scanQ[r].state = "none"
      BY <2>1 DEF PublishScanTask, HandoverInv, RequestKnows
    <3> QED
      BY <1>0, <1>1, <2>1, <3>1, QueueMovesOn DEF PublishScanTask
  <2> QED
    BY <1>1, <1>2, <2>1
    DEF ApiStep, ReceiveUpload, CheckDuplicate, PutObject, InsertRows, AnswerAccepted, FailUpload,
        shared, queues
<1>3. ASSUME NEW w \in Scanners, ScannerStep(w)
      PROVE  MovesOn(scanQ, scanQ') /\ MovesOn(imageQ, imageQ')
  <2>1. MovesOn(scanQ, scanQ')
    BY <1>0, <1>1, <1>3, ScannerOnQueue, QueueMovesOn
  <2>2. CASE EnqueueImage(w)
    <3> DEFINE t == <<scanner[w].job, scanner[w].count>>
    <3>1. t \in ImageTasks /\ imageQ[t].state = "none"
      BY <2>2
      DEF EnqueueImage, At, UntilEnqueued, BeforeEnqueue, HandoverInv, ScannerKnows, KnowsJob,
          ScannerBusy, ImageTasks, TypeOK, ScannerTypeOK
    <3>2. imageQ' = Send(imageQ, t, "image" \in declared)
      BY <2>2 DEF EnqueueImage
    <3> HIDE DEF t
    <3> QED
      BY <1>0, <2>1, <3>1, <3>2, QueueMovesOn
  <2> QED
    BY <1>1, <1>3, <2>1, <2>2, EnqueuedOnce
<1>4. ASSUME NEW i \in Imagers, ImagerStep(i)
      PROVE  MovesOn(scanQ, scanQ') /\ MovesOn(imageQ, imageQ')
  BY <1>1, <1>4, ImagerOnQueue, ImagerEffect DEF HandoverInv
<1>5. CASE UNCHANGED vars
  BY <1>1, <1>5 DEF vars, shared, queues
<1> QED
  BY <1>2, <1>3, <1>4, <1>5 DEF Next

LEMMA ImagesKept ==
    ASSUME HandoverInv, HandoverInv', WorkIsQueued, FailureInv, ImageInv, [Next]_vars
    PROVE  ImageInv'
<1>0. /\ scanQ \in [Requests -> Message] /\ imageQ \in [ImageTasks -> Message]
      /\ scanQ' \in [Requests -> Message] /\ imageQ' \in [ImageTasks -> Message]
      /\ MovesOn(scanQ, scanQ')
  BY TasksMoveOn DEF HandoverInv, TypeOK, SharedTypeOK, ImageInv
<1>1. \A r \in Requests : /\ Rank(scanQ[r]) \in Nat /\ Rank(scanQ'[r]) \in Nat
                          /\ Rank(scanQ[r]) <= Rank(scanQ'[r])
  BY <1>0, MovedOn
<1>2. \A r \in Requests, n \in 0..DeliveryLimit :
         <<r, n>> \in ImageTasks /\ <<r, n>>[1] = r /\ <<r, n>>[2] = n
  BY DEF ImageTasks
(* Who publishes an image task *)
<1>3. ASSUME NEW r \in Requests, NEW n \in 0..DeliveryLimit,
             imageQ[<<r, n>>].state = "none", imageQ'[<<r, n>>].state # "none"
      PROVE  \E w \in Scanners : /\ ScannerStep(w) /\ EnqueueImage(w)
                                 /\ ScannerBusy(w) /\ scanner[w].job = r /\ scanner[w].count = n
  <2>1. ASSUME NEW w \in Scanners, ScannerStep(w), EnqueueImage(w)
        PROVE  ScannerBusy(w) /\ scanner[w].job = r /\ scanner[w].count = n
    <3>1. ScannerBusy(w) /\ imageQ' = Send(imageQ, <<scanner[w].job, scanner[w].count>>,
                                           "image" \in declared)
      BY <2>1 DEF EnqueueImage, ScannerBusy, At
    <3>2. scanner[w].job \in Requests /\ scanner[w].count \in 0..DeliveryLimit
      BY <3>1, DeliveryHasBegun
    <3> QED
      BY <1>0, <1>2, <1>3, <3>1, <3>2, QueueSend
  <2>2. \A i \in Imagers : ~ ImagerStep(i)
    BY <1>2, <1>3, ImagerEffect DEF HandoverInv
  <2>3. imageQ' # imageQ
    BY <1>3
  <2>4. \A q \in Requests : ~ ApiStep(q)
    BY <2>3, ApiEffect DEF HandoverInv
  <2>5. ~ UNCHANGED vars
    BY <2>3 DEF vars, shared, queues
  <2> QED
    BY <2>1, <2>2, <2>3, <2>4, <2>5, EnqueuedOnce DEF Next
<1>4. ImagesFollow'
  <2> SUFFICES ASSUME NEW t \in ImageTasks, imageQ'[t].state # "none"
               PROVE  InDelivery(t[2]) <= Rank(scanQ'[t[1]])
    BY DEF ImagesFollow
  <2>1. t[1] \in Requests /\ t[2] \in 0..DeliveryLimit /\ t = <<t[1], t[2]>>
    BY DEF ImageTasks
  <2>2. InDelivery(t[2]) <= Rank(scanQ[t[1]])
    <3>1. CASE imageQ[t].state = "none"
      BY <1>3, <2>1, <3>1, DeliveryHasBegun
    <3>2. CASE imageQ[t].state # "none"
      BY <3>2 DEF ImageInv, ImagesFollow
    <3> QED
      BY <3>1, <3>2
  <2> QED
    BY <1>1, <2>1, <2>2 DEF InDelivery
<1>5. UntilEnqueued'
  <2> SUFFICES ASSUME NEW w \in Scanners, scanner'[w].pc \in BeforeEnqueue,
                      NEW r, r = scanner'[w].job, NEW n, n = scanner'[w].count,
                      imageQ'[<<r, n>>].state # "none"
               PROVE  FALSE
    BY DEF UntilEnqueued
  <2>0. /\ r \in Requests /\ n \in 0..DeliveryLimit /\ n \in Nat
        /\ scanner'[w].pc \notin {"down", "idle", "report"}
    BY DEF HandoverInv, ScannerKnows, KnowsJob, ScannerBusy, BeforeEnqueue, TypeOK, ScannerTypeOK
  <2>1. ASSUME NEW q \in Requests, ReceiveScan(w, q), imageQ' = imageQ PROVE FALSE
    <3>1. r = q /\ n = scanQ[r].count /\ scanQ[r].state = "ready"
      BY <2>1 DEF ReceiveScan, IsReady, ScannerAt, HandoverInv, TypeOK, ScannerTypeOK
    <3>2. Rank(scanQ[r]) = 2 * n + 1
      BY <1>0, <2>0, <3>1, Ranks
    <3>3. InDelivery(n) <= Rank(scanQ[r])
      BY <1>2, <2>0, <2>1 DEF ImageInv, ImagesFollow
    <3> QED
      BY <2>0, <3>2, <3>3 DEF InDelivery
  <2>2. ASSUME scanner[w].pc \in BeforeEnqueue, r = scanner[w].job, n = scanner[w].count
        PROVE  FALSE
    <3>1. imageQ[<<r, n>>].state = "none" /\ ScannerBusy(w)
      BY <2>2 DEF ImageInv, UntilEnqueued, BeforeEnqueue, ScannerBusy
    <3>2. PICK v \in Scanners : /\ ScannerStep(v) /\ EnqueueImage(v)
                               /\ ScannerBusy(v) /\ scanner[v].job = r /\ scanner[v].count = n
      BY <1>3, <2>0, <3>1
    <3>3. v = w
      BY <2>2, <3>1, <3>2 DEF FailureInv, DeliveriesDiffer
    <3>4. scanner'[w].pc = "report"
      BY <3>2, <3>3 DEF EnqueueImage, Proceed, HandoverInv, TypeOK, ScannerTypeOK
    <3> QED
      BY <2>0, <3>4
  <2>3. ASSUME NEW v \in Scanners, ScannerStep(v) PROVE FALSE
    <3>1. CASE v # w
      BY <2>2, <2>3, <3>1, ScannerEffect DEF HandoverInv
    <3>2. CASE v = w
      <4>1. /\ imageQ' = imageQ
            /\ (\E q \in Requests : ReceiveScan(w, q)) \/ scanner[w].pc \in BeforeEnqueue
        BY <2>3, <3>2, EnqueuedOnce
      <4>2. CASE ~ \E q \in Requests : ReceiveScan(w, q)
        BY <2>0, <2>2, <2>3, <3>2, <4>1, <4>2, DeliveryKept
      <4> QED
        BY <2>1, <4>1, <4>2
    <3> QED
      BY <3>1, <3>2
  <2>4. CASE UNCHANGED scanner
    BY <2>2, <2>4
  <2> QED
    BY <2>3, <2>4 DEF Next, vars
<1> QED
  BY <1>4, <1>5 DEF ImageInv

(* No task of the pipeline ever comes back or is published twice.          *)
THEOREM DeliveriesComeToAnEnd == Spec => DeliveriesEnd
<1>1. Init => WorkIsQueued /\ FailureInv /\ ImageInv
  <2>1. Init => WorkIsQueued /\ FailureInv
    BY DEF Init, SharedInit, ScannerInit, ScannerDown, ScannerAt, WorkIsQueued, FailureInv,
           DeliveriesDiffer, HeldOrPast, FreeHasNone, FailedInLastDelivery, ScannerBusy
  <2>2. Init => ImageInv
    BY DEF Init, SharedInit, ScannerInit, ScannerDown, ScannerAt, NoMessage, ImageInv,
           ImagesFollow, UntilEnqueued, BeforeEnqueue
  <2> QED
    BY <2>1, <2>2
<1>2. /\ HandoverInv /\ HandoverInv' /\ (WorkIsQueued /\ FailureInv /\ ImageInv) /\ [Next]_vars
      => (WorkIsQueued /\ FailureInv /\ ImageInv)'
  BY WorkWasPublished, FailureKept, ImagesKept
<1>3. HandoverInv /\ (WorkIsQueued /\ FailureInv /\ ImageInv) /\ [Next]_vars
      => [MovesOn(scanQ, scanQ') /\ MovesOn(imageQ, imageQ')]_vars
  BY TasksMoveOn DEF ImageInv
<1> QED
  BY <1>1, <1>2, <1>3, Handover, PTL DEF Spec, DeliveriesEnd

=============================================================================

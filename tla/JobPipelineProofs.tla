-------------------------- MODULE JobPipelineProofs --------------------------
(***************************************************************************)
(* Proofs about JobPipeline, for every set of requests, workers, contents  *)
(* and for every delivery limit.                                           *)
(***************************************************************************)
EXTENDS JobPipeline, QueueProofs

-----------------------------------------------------------------------------
(* Types *)

LEMMA InitHandover == Init => HandoverInv
<1> SUFFICES ASSUME Init PROVE HandoverInv
  OBVIOUS
<1> USE DEF Init, SharedInit, ApiInit, ScannerInit, ImagerInit, ScannerIdle, ScannerDown, ScannerAt,
            ImagerIdle, ImagerDown, NoMessage
<1>1. SharedTypeOK
  BY DeliveryLimitAssumption DEF SharedTypeOK, Statuses, Buckets, Notices, Message, MessageStates
<1>2. ApiTypeOK /\ ScannerTypeOK /\ ImagerTypeOK
  BY DeliveryLimitAssumption, RenditionAssumption, AttemptsAssumption
  DEF ApiTypeOK, ScannerTypeOK, ScannerPc, Verdicts, ImagerTypeOK, ImagerPc, Renditions
<1>3. RequestKnows
  BY DEF RequestKnows, Committed
<1>4. ScannerKnows /\ ImagerKnows
  BY DEF ScannerKnows, ScannerBusy, ImagerKnows, ImagerBusy
<1>5. TaskHasRow /\ AckHandled
  BY DEF TaskHasRow, AckHandled
<1> QED
  BY <1>1, <1>2, <1>3, <1>4, <1>5 DEF HandoverInv, TypeOK

LEMMA ApiTypes ==
    ASSUME TypeOK, RequestKnows, NEW r \in Requests, ApiStep(r), UNCHANGED <<scanner, imager>>
    PROVE  TypeOK'
<1> USE DEF TypeOK, shared, database, storage, queues, Goto
<1>1. ScannerTypeOK' /\ ImagerTypeOK'
  BY DEF ScannerTypeOK, ImagerTypeOK
<1>2. upload[r] # None => upload[r] \in Files
  BY DEF ApiTypeOK
<1>3. ASSUME upload[r] # None
      PROVE  /\ RowOf(upload[r]) \in Rows
             /\ upload[r].content \in Contents
             /\ UploadKey(upload[r]) \in Keys
  BY <1>2, <1>3 DEF Files, Rows, RowOf, Keys, Contents, Digest, UploadKey
<1>4. CASE ReceiveUpload(r)
  BY <1>1, <1>4, UploadsAssumption DEF ReceiveUpload, SharedTypeOK, ApiTypeOK, Handling
<1>5. CASE CheckDuplicate(r)
  BY <1>1, <1>5 DEF CheckDuplicate, SharedTypeOK, ApiTypeOK, Handling, Answers
<1>6. CASE PutObject(r)
  BY <1>1, <1>3, <1>6 DEF PutObject, SharedTypeOK, ApiTypeOK, Handling, RequestKnows
<1>7. CASE InsertRows(r)
  BY <1>1, <1>3, <1>7
  DEF InsertRows, Touch, SharedTypeOK, ApiTypeOK, Handling, RequestKnows, Statuses, ActiveStatuses,
      Buckets
<1>8. CASE PublishScanTask(r)
  BY <1>1, <1>8, QueueTypes DEF PublishScanTask, SharedTypeOK, ApiTypeOK, Handling
<1>9. CASE AnswerAccepted(r)
  BY <1>1, <1>9 DEF AnswerAccepted, SharedTypeOK, ApiTypeOK, Answers
<1>10. CASE FailUpload(r)
  BY <1>1, <1>10 DEF FailUpload, SharedTypeOK, ApiTypeOK, Answers
<1> QED
  BY <1>4, <1>5, <1>6, <1>7, <1>8, <1>9, <1>10 DEF ApiStep

LEMMA WriteStatusTypes ==
    ASSUME SharedTypeOK, NEW r \in Requests, NEW s \in Statuses, WriteStatus(r, s)
    PROVE  /\ file' \in [Requests -> Rows \cup {None}]
           /\ status' \in [Requests -> Statuses]
           /\ latest' \in [Owners -> Requests \cup {None}]
BY DEF SharedTypeOK, WriteStatus, Touch

LEMMA ScannerTypes ==
    ASSUME TypeOK, ScannerKnows, NEW w \in Scanners, ScannerStep(w), UNCHANGED <<apiVars, imager>>
    PROVE  TypeOK'
<1> USE DEF TypeOK, shared, database, storage, queues, At, Proceed
<1> DEFINE job == scanner[w].job
<1>1. ApiTypeOK' /\ ImagerTypeOK'
  BY DEF ApiTypeOK, ImagerTypeOK, apiVars
<1>2. ScannerBusy(w) =>
        /\ job \in Requests
        /\ file[job] \in Rows
        /\ KeyOf(job) \in Keys
  BY DEF ScannerKnows, KnowsJob, Committed, KeyOf, Keys, Rows, SharedTypeOK
<1>3. scanner[w].count \in 0..DeliveryLimit /\ scanner[w].verdict \in Verdicts
  BY DEF ScannerTypeOK
<1>4. scanner[w].pc \in ScannerWorking \cup ScannerEnding \cup {"ack"} => ScannerBusy(w)
  BY DEF ScannerBusy, ScannerWorking, ScannerEnding
<1>5. ScannerHolds(w) => job \in Requests
  BY DEF ScannerHolds, ScannerTypeOK
<1>6. ASSUME NEW r \in Requests, ReceiveScan(w, r) PROVE TypeOK'
  <2>1. scanQ[r].count \in 0..DeliveryLimit
    BY DEF SharedTypeOK, Message
  <2>2. SharedTypeOK'
    BY <1>6, QueueTypes DEF ReceiveScan, SharedTypeOK
  <2>3. ScannerTypeOK'
    BY <1>6, <2>1, AttemptsAssumption
    DEF ReceiveScan, ScannerAt, ScannerTypeOK, ScannerPc, ScannerWorking, Verdicts
  <2> QED
    BY <1>1, <2>2, <2>3
<1>7. CASE LookupFile(w)
  BY <1>1, <1>2, <1>3, <1>4, <1>7
  DEF LookupFile, SharedTypeOK, ScannerTypeOK, ScannerPc, ScannerWorking, ScannerEnding
<1>28. CASE StreamFile(w)
  <2>1. uploads[KeyOf(job)] \in Contents \cup {None}
    BY <1>2, <1>4, <1>28 DEF StreamFile, SharedTypeOK, ScannerWorking
  <2>2. SharedTypeOK'
    BY <1>28 DEF StreamFile, SharedTypeOK
  <2> QED
    BY <1>1, <1>28, <2>1, <2>2 DEF StreamFile, ScannerTypeOK, ScannerPc, ScannerWorking
<1>29. CASE RetryScan(w)
  <2>1. scanner[w].tries + 1 \in 0..(ScanAttempts - 1)
    BY <1>29, AttemptsAssumption DEF RetryScan, ScannerTypeOK
  <2>2. SharedTypeOK'
    BY <1>29 DEF RetryScan, SharedTypeOK
  <2> QED
    BY <1>1, <1>29, <2>1, <2>2 DEF RetryScan, ScannerTypeOK
<1>30. ASSUME NEW pc \in ScannerPc, NEW v \in Verdicts, Leave(w, pc, v) PROVE ScannerTypeOK'
  BY <1>30, <1>3, AttemptsAssumption DEF Leave, ScannerAt, ScannerTypeOK
<1>31. ASSUME NEW r \in Requests, NEW s \in Statuses, RecordFailure(r, s),
              bucket' = bucket, UNCHANGED <<storage, scanQ, imageQ, declared>>,
              notices' \in [Requests -> SUBSET Notices]
       PROVE  SharedTypeOK'
  BY <1>31, WriteStatusTypes DEF RecordFailure, SharedTypeOK
<1>32. "failed" \in Statuses /\ "queued_for_retry" \in Statuses
  BY DEF Statuses
<1>8. CASE ScanStream(w)
  <2>1. SharedTypeOK'
    BY <1>8 DEF ScanStream, SharedTypeOK
  <2>2. ScannerTypeOK'
    <3>1. PICK v \in ScanVerdict(Sent(w)) : Leave(w, "record", v)
      BY <1>8 DEF ScanStream
    <3>2. v \in Verdicts /\ "record" \in ScannerPc
      BY DEF ScanVerdict, Verdicts, ScannerPc, ScannerWorking
    <3> QED
      BY <1>30, <3>1, <3>2
  <2> QED
    BY <1>1, <2>1, <2>2
<1>9. CASE RecordVerdict(w)
  BY <1>1, <1>2, <1>3, <1>4, WriteStatusTypes, <1>9
  DEF RecordVerdict, SharedTypeOK, ScannerTypeOK, ScannerPc, ScannerWorking, ScannerEnding,
      AfterVerdict, Verdicts, Statuses, ActiveStatuses, ScannerKnows, KnowsJob
<1>10. CASE CopyToQuarantine(w)
  BY <1>1, <1>2, <1>3, <1>4, <1>10
  DEF CopyToQuarantine, SharedTypeOK, ScannerTypeOK, ScannerPc, ScannerWorking, ScannerEnding
<1>11. CASE DeleteUpload(w)
  <2>1. SharedTypeOK'
    BY <1>11 DEF DeleteUpload, SharedTypeOK
  <2>2. ScannerTypeOK'
    BY <1>11 DEF DeleteUpload, ScannerTypeOK, ScannerPc, ScannerWorking
  <2> QED
    BY <1>1, <2>1, <2>2
<1>12. CASE LabelQuarantined(w)
  <2>1. "quarantined" \in Statuses /\ job \in Requests
    BY <1>2, <1>4, <1>12 DEF LabelQuarantined, Statuses, ScannerWorking
  <2>2. SharedTypeOK'
    BY <1>12, <2>1, WriteStatusTypes DEF LabelQuarantined, SharedTypeOK, Buckets
  <2>3. ScannerTypeOK'
    BY <1>12 DEF LabelQuarantined, ScannerTypeOK, ScannerPc, ScannerWorking
  <2> QED
    BY <1>1, <2>2, <2>3
<1>13. CASE EnqueueImage(w)
  <2>1. <<job, scanner[w].count>> \in ImageTasks
    BY <1>2, <1>3, <1>4, <1>13 DEF EnqueueImage, ImageTasks, ScannerWorking
  <2>2. SharedTypeOK'
    BY <1>13, <2>1, QueueTypes DEF EnqueueImage, SharedTypeOK
  <2>3. ScannerTypeOK'
    BY <1>13 DEF EnqueueImage, ScannerTypeOK, ScannerPc, ScannerWorking
  <2> QED
    BY <1>1, <2>2, <2>3
<1>14. CASE CompleteJob(w)
  BY <1>1, <1>2, <1>3, <1>4, WriteStatusTypes, <1>14
  DEF CompleteJob, SharedTypeOK, ScannerTypeOK, ScannerPc, ScannerWorking, ScannerEnding,
      Statuses, ActiveStatuses
<1>15. CASE DispatchNotice(w)
  BY <1>1, <1>2, <1>3, <1>4, <1>15
  DEF DispatchNotice, NoticeUnconfirmed, SharedTypeOK, ScannerTypeOK, ScannerPc, ScannerWorking,
      ScannerEnding, NoticeOf, Notices
<1>16. CASE ReportQueued(w)
  BY <1>1, <1>2, <1>3, <1>4, <1>16
  DEF ReportQueued, SharedTypeOK, ScannerTypeOK, ScannerPc, ScannerWorking, ScannerEnding
<1>17. CASE AckScan(w)
  <2>1. SharedTypeOK'
    BY <1>5, <1>17, QueueTypes DEF AckScan, SharedTypeOK
  <2>2. ScannerTypeOK'
    BY <1>17, DeliveryLimitAssumption, AttemptsAssumption
    DEF AckScan, ScannerTypeOK, ScannerDown, ScannerIdle, ScannerAt, ScannerPc, Verdicts
  <2> QED
    BY <1>1, <2>1, <2>2
<1>18. CASE DispatchFailed(w)
  BY <1>1, <1>2, <1>3, <1>4, <1>18
  DEF DispatchFailed, SharedTypeOK, ScannerTypeOK, ScannerPc, ScannerWorking, ScannerEnding,
      Notices
<1>19. CASE RejectTooLong(w)
  <2>1. SharedTypeOK'
    BY <1>5, <1>19, QueueTypes DEF RejectTooLong, SharedTypeOK
  <2>2. ScannerTypeOK'
    BY <1>19, DeliveryLimitAssumption, AttemptsAssumption
    DEF RejectTooLong, ScannerTypeOK, ScannerDown, ScannerIdle, ScannerAt, ScannerPc, Verdicts
  <2> QED
    BY <1>1, <2>1, <2>2
<1>20. CASE EndScanner(w)
  <2>1. SharedTypeOK'
    BY <1>5, <1>20, QueueTypes DEF EndScanner, ReturnScan, SharedTypeOK
  <2>2. ScannerTypeOK'
    BY <1>20, DeliveryLimitAssumption, AttemptsAssumption
    DEF EndScanner, ScannerTypeOK, ScannerDown, ScannerIdle, ScannerAt, ScannerPc, Verdicts
  <2> QED
    BY <1>1, <2>1, <2>2
<1>21. CASE CrashScanner(w)
  <2>1. SharedTypeOK'
    BY <1>5, <1>21, QueueTypes DEF CrashScanner, ReturnScan, SharedTypeOK
  <2>2. ScannerTypeOK'
    BY <1>21, DeliveryLimitAssumption, AttemptsAssumption
    DEF CrashScanner, ScannerTypeOK, ScannerDown, ScannerIdle, ScannerAt, ScannerPc, Verdicts
  <2> QED
    BY <1>1, <2>1, <2>2
<1>22. CASE DropScannerChannel(w)
  <2>1. SharedTypeOK'
    BY <1>5, <1>22, QueueTypes DEF DropScannerChannel, ReturnScan, SharedTypeOK
  <2>2. ScannerTypeOK'
    BY <1>22, DeliveryLimitAssumption, AttemptsAssumption
    DEF DropScannerChannel, ScannerTypeOK, ScannerDown, ScannerIdle, ScannerAt, ScannerPc, Verdicts
  <2> QED
    BY <1>1, <2>1, <2>2
<1>23. CASE RestartScanner(w)
  BY <1>1, <1>2, <1>3, <1>4, DeliveryLimitAssumption, AttemptsAssumption, <1>23
  DEF RestartScanner, SharedTypeOK, WorkQueues, ScannerTypeOK, ScannerPc, ScannerIdle,
      ScannerAt, Verdicts
<1>24. CASE LoadJob(w)
  BY <1>1, <1>2, <1>3, <1>4, WriteStatusTypes, <1>24
  DEF LoadJob, SharedTypeOK, ScannerTypeOK, ScannerPc, ScannerWorking, ScannerEnding, Statuses,
      ActiveStatuses
<1>25. CASE FailScan(w) \/ ScanUnanswered(w)
  <2>1. job \in Requests
    BY <1>2, <1>4, <1>25 DEF FailScan, ScanUnanswered, ScannerWorking
  <2>2. SharedTypeOK'
    BY <1>25, <1>31, <1>32, <2>1 DEF FailScan, ScanUnanswered, SharedTypeOK
  <2>3. ScannerTypeOK'
    BY <1>3, <1>25, <1>30 DEF FailScan, ScanUnanswered, ScannerPc, ScannerEnding, Verdicts
  <2> QED
    BY <1>1, <2>2, <2>3
<1>26. CASE LoseConnection(w) \/ ScanTooLong(w)
  <2>1. job \in Requests
    BY <1>2, <1>4, <1>26 DEF LoseConnection, ScanTooLong, ScannerWorking
  <2>2. SharedTypeOK'
    BY <1>26, <1>31, <1>32, <2>1 DEF LoseConnection, ScanTooLong, SharedTypeOK
  <2>3. ScannerTypeOK'
    BY <1>26, <1>30 DEF LoseConnection, ScanTooLong, ScannerPc, ScannerEnding, Verdicts
  <2> QED
    BY <1>1, <2>2, <2>3
<1>27. CASE NoticeUnconfirmed(w)
  <2>1. job \in Requests
    BY <1>2, <1>4, <1>27 DEF NoticeUnconfirmed, ScannerWorking
  <2>2. notices' \in [Requests -> SUBSET Notices]
    BY <1>27 DEF NoticeUnconfirmed, NoticeOf, Notices, SharedTypeOK
  <2>3. SharedTypeOK'
    BY <1>27, <1>31, <1>32, <2>1, <2>2 DEF NoticeUnconfirmed
  <2>4. ScannerTypeOK'
    BY <1>3, <1>27, <1>30 DEF NoticeUnconfirmed, ScannerPc, ScannerEnding
  <2> QED
    BY <1>1, <2>3, <2>4
<1> QED
  BY <1>6, <1>7, <1>8, <1>9, <1>10, <1>11, <1>12, <1>13, <1>14, <1>15, <1>16, <1>17, <1>18,
     <1>19, <1>20, <1>21, <1>22, <1>23, <1>24, <1>25, <1>26, <1>27, <1>28, <1>29
  DEF ScannerStep, ScannerMove

LEMMA ImagerTypes ==
    ASSUME TypeOK, ImagerKnows, NEW i \in Imagers, ImagerStep(i), UNCHANGED <<apiVars, scanner>>
    PROVE  TypeOK'
<1> USE DEF TypeOK, shared, database, storage, queues, Stage, Advance
<1> DEFINE task == imager[i].task
<1>1. ApiTypeOK' /\ ScannerTypeOK'
  BY DEF ApiTypeOK, ScannerTypeOK, apiVars
<1>2. imager[i].pc \in ImagerWorking \cup {"confirm"} =>
        task \in ImageTasks /\ JobOf(i) \in Requests /\ file[JobOf(i)] \in Rows
  BY DEF ImagerKnows, ImagerBusy, ImagerWorking, Committed, JobOf, ImageTasks, SharedTypeOK
<1>3. imager[i].next \in Renditions /\ imager[i].next \in 1..RenditionCount
  BY DEF ImagerTypeOK, Renditions
<1>4. ImagerHolds(i) => task \in ImageTasks
  BY DEF ImagerHolds, ImagerTypeOK
<1>5. ASSUME NEW t \in ImageTasks, ReceiveImage(i, t) PROVE TypeOK'
  <2>1. imageQ[t].count \in 0..DeliveryLimit
    BY DEF SharedTypeOK, Message
  <2>2. SharedTypeOK'
    BY <1>5, QueueTypes DEF ReceiveImage, SharedTypeOK
  <2>3. ImagerTypeOK'
    BY <1>5, <2>1, RenditionAssumption
    DEF ReceiveImage, ImagerTypeOK, ImagerPc, ImagerWorking, Renditions
  <2> QED
    BY <1>1, <2>2, <2>3
<1>6. CASE OpenJob(i)
  BY <1>1, <1>2, <1>6, WriteStatusTypes
  DEF OpenJob, SharedTypeOK, ImagerTypeOK, ImagerPc, ImagerWorking, Statuses, ActiveStatuses
<1>7. CASE RenderImage(i)
  BY <1>1, <1>7 DEF RenderImage, SharedTypeOK, ImagerTypeOK, ImagerPc, ImagerWorking
<1>8. CASE StoreRendition(i)
  <2>1. SharedTypeOK'
    BY <1>2, <1>3, <1>8 DEF StoreRendition, SharedTypeOK, ImagerWorking, Rows
  <2>2. imager[i].next # RenditionCount => imager[i].next + 1 \in Renditions
    BY <1>3, RenditionAssumption DEF Renditions
  <2>3. ImagerTypeOK'
    BY <1>8, <2>2 DEF StoreRendition, ImagerTypeOK, ImagerPc, ImagerWorking
  <2> QED
    BY <1>1, <2>1, <2>3
<1>9. CASE FinishImage(i)
  BY <1>1, <1>2, <1>9, WriteStatusTypes
  DEF FinishImage, SharedTypeOK, ImagerTypeOK, ImagerPc, ImagerWorking, Statuses,
      ActiveStatuses, Buckets
<1>10. CASE TellComplete(i)
  BY <1>1, <1>10 DEF TellComplete, SharedTypeOK, ImagerTypeOK, ImagerPc, ImagerWorking
<1>11. CASE AbandonImage(i)
  BY <1>1, <1>11 DEF AbandonImage, SharedTypeOK, ImagerTypeOK, ImagerPc, ImagerWorking
<1>12. CASE AckImage(i)
  <2>1. SharedTypeOK'
    BY <1>4, <1>12, QueueTypes DEF AckImage, SharedTypeOK
  <2>2. ImagerTypeOK'
    BY <1>12, DeliveryLimitAssumption, RenditionAssumption
    DEF AckImage, ImagerTypeOK, ImagerPc, ImagerIdle, ImagerDown, Renditions
  <2> QED
    BY <1>1, <2>1, <2>2
<1>13. CASE EndImager(i)
  <2>1. SharedTypeOK'
    BY <1>4, <1>13, QueueTypes DEF EndImager, ReturnImage, SharedTypeOK
  <2>2. ImagerTypeOK'
    BY <1>13, DeliveryLimitAssumption, RenditionAssumption
    DEF EndImager, ImagerTypeOK, ImagerPc, ImagerDown, Renditions
  <2> QED
    BY <1>1, <2>1, <2>2
<1>14. CASE DropImagerChannel(i)
  <2>1. SharedTypeOK'
    BY <1>4, <1>14, QueueTypes DEF DropImagerChannel, ReturnImage, SharedTypeOK
  <2> QED
    BY <1>1, <1>14, <2>1 DEF DropImagerChannel, ImagerTypeOK
<1>15. CASE RestartImager(i)
  BY <1>1, <1>15, DeliveryLimitAssumption, RenditionAssumption
  DEF RestartImager, SharedTypeOK, WorkQueues, ImagerTypeOK, ImagerPc, ImagerIdle, Renditions
<1> QED
  BY <1>5, <1>6, <1>7, <1>8, <1>9, <1>10, <1>11, <1>12, <1>13, <1>14, <1>15
  DEF ImagerStep, ImagerMove, FailImage

-----------------------------------------------------------------------------
(* What the steps of each component do to the state that the others rely on *)

(* A request handler commits one row, before the only publish, and touches *)
(* nothing else that a worker reads of the database and the queues.        *)
LEMMA ApiEffect ==
    ASSUME TypeOK, RequestKnows, NEW r \in Requests, ApiStep(r)
    PROVE  /\ \A q \in Requests : Committed(q) => file'[q] = file[q]
           /\ \A q \in Requests : scanQ'[q].state = "acked" => scanQ[q].state = "acked"
           /\ UNCHANGED <<imageQ, notices>>
<1> USE DEF TypeOK, SharedTypeOK, shared, database, storage, queues, Committed
<1>1. CASE InsertRows(r)
  BY <1>1 DEF InsertRows, RequestKnows
<1>2. CASE PublishScanTask(r)
  BY <1>2, QueueSend DEF PublishScanTask
<1> QED
  BY <1>1, <1>2
  DEF ApiStep, ReceiveUpload, CheckDuplicate, PutObject, AnswerAccepted, FailUpload

(* A scanner publishes nothing but the image task of its own job, and      *)
(* acknowledges only what it works on, at the end.                         *)
LEMMA ScannerEffect ==
    ASSUME TypeOK, ScannerKnows, NEW w \in Scanners, ScannerStep(w)
    PROVE  /\ UNCHANGED file
           /\ \A v \in Scanners \ {w} : scanner'[v] = scanner[v]
           /\ \A r \in Requests : notices[r] \subseteq notices'[r]
           /\ \A r \in Requests : scanQ'[r].state = "none" <=> scanQ[r].state = "none"
           /\ \A r \in Requests : scanQ'[r].state = "acked" =>
                 scanQ[r].state = "acked" \/ (At(w, "ack") /\ scanner[w].job = r)
           /\ \A t \in ImageTasks : imageQ[t].state # "none" => imageQ'[t].state # "none"
           /\ \A t \in ImageTasks : imageQ'[t].state # "none" =>
                 imageQ[t].state # "none" \/ (At(w, "enqueue") /\ t[1] = scanner[w].job)
<1> USE DEF TypeOK, shared, database, storage, queues, Proceed
<1>1. ScannerHolds(w) => scanner[w].job \in Requests /\ scanQ[scanner[w].job].state = "held"
  BY DEF ScannerHolds, HeldAt, ScannerTypeOK
<1>2. UNCHANGED file /\ \A v \in Scanners \ {w} : scanner'[v] = scanner[v]
  BY DEF ScannerTypeOK, ScannerStep, ScannerMove, ReceiveScan, LoadJob, LookupFile, StreamFile,
         RetryScan, ScanStream, RecordVerdict, CopyToQuarantine, DeleteUpload, LabelQuarantined,
         EnqueueImage, CompleteJob, DispatchNotice, NoticeUnconfirmed, ReportQueued, AckScan,
         FailScan, ScanUnanswered, LoseConnection, ScanTooLong, Leave, ScannerAt,
         DispatchFailed, RejectTooLong, EndScanner, CrashScanner, DropScannerChannel,
         RestartScanner, RecordFailure, WriteStatus
<1>3. \A r \in Requests : notices[r] \subseteq notices'[r]
  <2>1. CASE DispatchNotice(w) \/ NoticeUnconfirmed(w) \/ DispatchFailed(w)
    BY <2>1 DEF DispatchNotice, NoticeUnconfirmed, DispatchFailed, SharedTypeOK
  <2> QED
    BY <2>1
    DEF ScannerStep, ScannerMove, ReceiveScan, LoadJob, LookupFile, StreamFile, RetryScan,
        ScanStream, RecordVerdict, CopyToQuarantine, DeleteUpload, LabelQuarantined,
        EnqueueImage, CompleteJob, ReportQueued, AckScan, FailScan, ScanUnanswered,
        LoseConnection, ScanTooLong, Leave, ScannerAt, RejectTooLong, EndScanner, CrashScanner,
        DropScannerChannel, RestartScanner
<1>4. \A r \in Requests :
         /\ scanQ'[r].state = "none" <=> scanQ[r].state = "none"
         /\ scanQ'[r].state = "acked" =>
               scanQ[r].state = "acked" \/ (At(w, "ack") /\ scanner[w].job = r)
  <2> USE DEF SharedTypeOK
  <2>1. CASE \E r \in Requests : ReceiveScan(w, r)
    BY <2>1, QueueMoves DEF ReceiveScan, IsReady
  <2>2. CASE AckScan(w)
    BY <1>1, <2>2, QueueMoves DEF AckScan
  <2>3. CASE RejectTooLong(w)
    BY <1>1, <2>3, QueueMoves DEF RejectTooLong
  <2>4. CASE EndScanner(w) \/ CrashScanner(w) \/ DropScannerChannel(w)
    BY <1>1, <2>4, QueueMoves DEF EndScanner, CrashScanner, DropScannerChannel, ReturnScan
  <2> QED
    BY <2>1, <2>2, <2>3, <2>4
    DEF ScannerStep, ScannerMove, LoadJob, LookupFile, StreamFile, RetryScan, ScanStream,
        RecordVerdict, CopyToQuarantine, DeleteUpload, LabelQuarantined, EnqueueImage,
        CompleteJob, DispatchNotice, NoticeUnconfirmed, ReportQueued, FailScan, ScanUnanswered,
        LoseConnection, ScanTooLong, Leave, ScannerAt, DispatchFailed, RestartScanner
<1>5. \A t \in ImageTasks :
         /\ imageQ[t].state # "none" => imageQ'[t].state # "none"
         /\ imageQ'[t].state # "none" =>
               imageQ[t].state # "none" \/ (At(w, "enqueue") /\ t[1] = scanner[w].job)
  <2>1. CASE EnqueueImage(w)
    <3> DEFINE task == <<scanner[w].job, scanner[w].count>>
    <3>1. task \in ImageTasks
      BY <2>1 DEF EnqueueImage, At, ImageTasks, ScannerKnows, KnowsJob, ScannerBusy, ScannerTypeOK
    <3>2. imageQ' = Send(imageQ, task, "image" \in declared) /\ At(w, "enqueue")
      BY <2>1 DEF EnqueueImage
    <3>3. \A t \in ImageTasks : imageQ'[t].state # "none" <=> t = task \/ imageQ[t].state # "none"
      BY <3>1, <3>2, QueueSend DEF SharedTypeOK
    <3> QED
      BY <3>2, <3>3
  <2> QED
    BY <2>1
    DEF ScannerStep, ScannerMove, ReceiveScan, LoadJob, LookupFile, StreamFile, RetryScan,
        ScanStream, RecordVerdict, CopyToQuarantine, DeleteUpload, LabelQuarantined,
        CompleteJob, DispatchNotice, NoticeUnconfirmed, ReportQueued, AckScan, FailScan,
        ScanUnanswered, LoseConnection, ScanTooLong, Leave, ScannerAt, DispatchFailed,
        RejectTooLong, EndScanner, CrashScanner, DropScannerChannel, RestartScanner
<1> QED
  BY <1>2, <1>3, <1>4, <1>5

(* A scan that fails leaves for one of the ends with its job and without a *)
(* new clean verdict.                                                      *)
LEMMA ScannerLeaves ==
    ASSUME TypeOK, NEW w \in Scanners,
           \/ FailScan(w) \/ ScanUnanswered(w) \/ NoticeUnconfirmed(w)
           \/ LoseConnection(w) \/ ScanTooLong(w)
    PROVE  /\ ScannerBusy(w)
           /\ scanner'[w].job = scanner[w].job
           /\ scanner'[w].pc \in ScannerEnding
           /\ scanner'[w].verdict \in {"none", "unanswered", scanner[w].verdict}
           /\ UNCHANGED bucket
           /\ \A r \in Requests \ {scanner[w].job} : status'[r] = status[r]
           /\ \A r \in Requests : status'[r] \in {status[r], "failed", "queued_for_retry"}
BY DEF TypeOK, SharedTypeOK, ScannerTypeOK, FailScan, ScanUnanswered, NoticeUnconfirmed,
       LoseConnection, ScanTooLong, Leave, ScannerAt, ScannerBusy, ScannerWorking,
       ScannerEnding, At, RecordFailure, WriteStatus, Committed

(* An image processor publishes nothing and leaves the scan queue alone. *)
LEMMA ImagerEffect ==
    ASSUME TypeOK, NEW i \in Imagers, ImagerStep(i)
    PROVE  /\ UNCHANGED <<file, scanQ, notices>>
           /\ \A j \in Imagers \ {i} : imager'[j] = imager[j]
           /\ \A t \in ImageTasks : imageQ'[t].state = "none" <=> imageQ[t].state = "none"
<1> USE DEF TypeOK, SharedTypeOK, ImagerTypeOK, shared, database, storage, queues, Stage, Advance
<1>1. ImagerHolds(i) => imager[i].task \in ImageTasks /\ imageQ[imager[i].task].state = "held"
  BY DEF ImagerHolds, HeldAt
<1>2. ASSUME NEW t \in ImageTasks, ReceiveImage(i, t)
      PROVE  /\ UNCHANGED <<file, scanQ, notices>>
             /\ \A j \in Imagers \ {i} : imager'[j] = imager[j]
             /\ \A u \in ImageTasks : imageQ'[u].state = "none" <=> imageQ[u].state = "none"
  <2>1. imageQ' = Deliver(imageQ, t) /\ imageQ[t].state # "none"
    BY <1>2 DEF ReceiveImage, IsReady
  <2>2. \A u \in ImageTasks : imageQ'[u].state = "none" <=> imageQ[u].state = "none"
    BY <2>1, QueueMoves
  <2> QED
    BY <1>2, <2>2 DEF ReceiveImage
<1>3. CASE AckImage(i)
  <2>1. \A u \in ImageTasks : imageQ'[u].state = "none" <=> imageQ[u].state = "none"
    <3>1. CASE ImagerHolds(i)
      <4>1. imageQ' = Ack(imageQ, imager[i].task)
        BY <1>3, <3>1 DEF AckImage
      <4> QED
        BY <1>1, <3>1, <4>1, QueueMoves
    <3> QED
      BY <1>3, <3>1 DEF AckImage
  <2> QED
    BY <1>3, <2>1 DEF AckImage
<1>4. CASE EndImager(i) \/ DropImagerChannel(i)
  <2>1. \A u \in ImageTasks : imageQ'[u].state = "none" <=> imageQ[u].state = "none"
    <3>1. CASE ImagerHolds(i)
      <4>1. imageQ' = Return(imageQ, imager[i].task)
        BY <1>4, <3>1 DEF EndImager, DropImagerChannel, ReturnImage
      <4> QED
        BY <1>1, <3>1, <4>1, QueueMoves
    <3> QED
      BY <1>4, <3>1 DEF EndImager, DropImagerChannel, ReturnImage
  <2> QED
    BY <1>4, <2>1 DEF EndImager, DropImagerChannel
<1>5. CASE \/ OpenJob(i) \/ RenderImage(i) \/ StoreRendition(i) \/ FinishImage(i)
           \/ TellComplete(i) \/ AbandonImage(i) \/ RestartImager(i)
  BY <1>5
  DEF OpenJob, RenderImage, StoreRendition, FinishImage, TellComplete, AbandonImage,
      RestartImager, WriteStatus
<1> QED
  BY <1>2, <1>3, <1>4, <1>5 DEF ImagerStep, ImagerMove, FailImage

-----------------------------------------------------------------------------
(* The handover of a job from component to component *)

LEMMA ApiHandover ==
    ASSUME HandoverInv, NEW r \in Requests, ApiStep(r), UNCHANGED <<scanner, imager>>
    PROVE  HandoverInv'
<1> USE DEF HandoverInv
<1>1. TypeOK'
  BY ApiTypes
<1>2. \A q \in Requests : Committed(q) => Committed(q)' /\ file'[q] = file[q]
  BY ApiEffect DEF Committed
<1>3. RequestKnows'
  <2> USE DEF TypeOK, SharedTypeOK, ApiTypeOK, shared, database, storage, queues, Goto, Committed
  <2>1. CASE ReceiveUpload(r)
    <3>1. upload'[r] \in Files /\ None \notin Files
      BY <2>1, UploadsAssumption, NoneAssumption DEF ReceiveUpload
    <3> QED
      BY <2>1, <3>1 DEF ReceiveUpload, RequestKnows
  <2>2. CASE CheckDuplicate(r)
    BY <2>2 DEF CheckDuplicate, RequestKnows
  <2>3. CASE PutObject(r)
    BY <2>3 DEF PutObject, RequestKnows
  <2>4. CASE InsertRows(r)
    <3>1. upload[r] \in Files
      BY <2>4 DEF InsertRows, RequestKnows
    <3>2. RowOf(upload[r]) \in Rows /\ None \notin Rows
      BY <3>1, NoneAssumption DEF RowOf, Rows, Files, Contents, Digest
    <3> QED
      BY <2>4, <3>2 DEF InsertRows, RequestKnows
  <2>5. CASE PublishScanTask(r)
    <3>1. \A q \in Requests : q # r => scanQ'[q] = scanQ[q]
      BY <2>5 DEF PublishScanTask, Publish, Send
    <3>2. scanQ'[r].state # "none"
      BY <2>5, QueueSend DEF PublishScanTask
    <3> QED
      BY <2>5, <3>1, <3>2 DEF PublishScanTask, RequestKnows
  <2>6. CASE AnswerAccepted(r)
    BY <2>6 DEF AnswerAccepted, RequestKnows
  <2>7. CASE FailUpload(r)
    BY <2>7 DEF FailUpload, RequestKnows, Handling
  <2> QED
    BY <2>1, <2>2, <2>3, <2>4, <2>5, <2>6, <2>7 DEF ApiStep
<1>4. TaskHasRow'
  <2>1. \A q \in Requests : scanQ'[q].state # "none" => scanQ[q].state # "none" \/ Committed(q)
    <3>1. CASE PublishScanTask(r)
      <4>1. scanQ' = Send(scanQ, r, "scan" \in declared) /\ Committed(r)
        BY <3>1 DEF PublishScanTask, RequestKnows
      <4> QED
        BY <4>1, QueueSend DEF TypeOK, SharedTypeOK
    <3> QED
      BY <3>1
      DEF ApiStep, ReceiveUpload, CheckDuplicate, PutObject, InsertRows, AnswerAccepted,
          FailUpload, shared, queues
  <2> QED
    BY <1>2, <2>1, ApiEffect DEF TaskHasRow, ImageTasks
<1>5. ScannerKnows'
  <2>1. ASSUME NEW w \in Scanners, ScannerBusy(w)' PROVE KnowsJob(w)'
    <3>1. KnowsJob(w)
      BY <2>1 DEF ScannerKnows, ScannerBusy
    <3> QED
      BY <1>2, <3>1, ApiEffect DEF KnowsJob, PassedOn, ImageTaskOf, At
  <2> QED
    BY <2>1 DEF ScannerKnows
<1>6. ImagerKnows'
  BY <1>2 DEF ImagerKnows, ImagerBusy, JobOf, ImageTasks
<1>7. AckHandled'
  BY ApiEffect DEF AckHandled, PassedOn, ImageTaskOf
<1> QED
  BY <1>1, <1>3, <1>4, <1>5, <1>6, <1>7

LEMMA ScannerHandover ==
    ASSUME HandoverInv, NEW w \in Scanners, ScannerStep(w), UNCHANGED <<apiVars, imager>>
    PROVE  HandoverInv'
<1> USE DEF HandoverInv
<1> DEFINE job == scanner[w].job
<1>1. TypeOK'
  BY ScannerTypes
<1>2. file' = file /\ \A q \in Requests : Committed(q)' = Committed(q)
  BY ScannerEffect DEF Committed
<1>3. \A q \in Requests : ImageTaskOf(q) => ImageTaskOf(q)'
  <2>1. \A q \in Requests, n \in 0..DeliveryLimit : <<q, n>> \in ImageTasks
    BY DEF ImageTasks
  <2> QED
    BY <2>1, ScannerEffect DEF ImageTaskOf
<1>4. \A q \in Requests : PassedOn(q) => PassedOn(q)'
  BY <1>3, ScannerEffect DEF PassedOn
<1>5. RequestKnows'
  BY <1>2, ScannerEffect DEF RequestKnows, apiVars
<1>6. TaskHasRow'
  <2>1. At(w, "enqueue") => Committed(job)
    BY DEF At, ScannerKnows, KnowsJob, ScannerBusy
  <2> QED
    BY <1>2, <2>1, ScannerEffect DEF TaskHasRow, ImageTasks
<1>7. ImagerKnows'
  BY <1>2 DEF ImagerKnows, ImagerBusy, JobOf, ImageTasks
<1>8. AckHandled'
  <2>1. At(w, "ack") => PassedOn(job)
    BY DEF At, ScannerKnows, KnowsJob, ScannerBusy
  <2> QED
    BY <1>4, <2>1, ScannerEffect DEF AckHandled
<1>9. ScannerKnows'
  <2>1. ASSUME NEW v \in Scanners, v # w, ScannerBusy(v)'
        PROVE  KnowsJob(v)'
    <3>1. scanner'[v] = scanner[v]
      BY <2>1, ScannerEffect
    <3>2. KnowsJob(v)
      BY <2>1, <3>1 DEF ScannerKnows, ScannerBusy
    <3> QED
      BY <1>2, <1>3, <1>4, <3>1, <3>2 DEF KnowsJob, At
  <2>2. ASSUME ScannerBusy(w)'
        PROVE  KnowsJob(w)'
    <3> USE DEF At, Proceed
    <3>1. ScannerBusy(w) => KnowsJob(w)
      BY DEF ScannerKnows
    <3>2. scanner \in [Scanners -> [pc : ScannerPc, job : Requests \cup {None},
                                     count : 0..DeliveryLimit, spooled : Contents \cup {None},
                                tries : 0..(ScanAttempts - 1), verdict : Verdicts]]
      BY DEF TypeOK, ScannerTypeOK
    <3>3. ASSUME NEW r \in Requests, ReceiveScan(w, r) PROVE KnowsJob(w)'
      <4>1. Committed(r)'
        BY <1>2, <3>3 DEF ReceiveScan, IsReady, TaskHasRow
      <4> QED
        BY <3>2, <3>3, <4>1 DEF ReceiveScan, ScannerAt, KnowsJob
    <3>11. CASE StreamFile(w) \/ RetryScan(w)
      BY <1>2, <3>1, <3>2, <3>11
      DEF StreamFile, RetryScan, KnowsJob, ScannerBusy, ScannerWorking
    <3>12. CASE ScanStream(w)
      <4>1. PICK v \in {"clean", "infected"} : Leave(w, "record", v)
        BY <3>12 DEF ScanStream, ScanVerdict
      <4> QED
        BY <1>2, <3>1, <3>2, <3>12, <4>1
        DEF ScanStream, Leave, ScannerAt, KnowsJob, ScannerBusy, ScannerWorking
    <3>4. CASE \/ LoadJob(w) \/ LookupFile(w) \/ RecordVerdict(w)
               \/ CopyToQuarantine(w) \/ DeleteUpload(w) \/ LabelQuarantined(w) \/ CompleteJob(w)
      BY <1>2, <3>1, <3>2, <3>4
      DEF LoadJob, LookupFile, RecordVerdict, AfterVerdict,
          CopyToQuarantine, DeleteUpload, LabelQuarantined, CompleteJob, KnowsJob,
          ScannerBusy, ScannerWorking
    <3>5. CASE EnqueueImage(w)
      <4>1. <<job, scanner[w].count>> \in ImageTasks /\ job \in Requests
        BY <3>1, <3>2, <3>5 DEF EnqueueImage, ImageTasks, KnowsJob, ScannerBusy
      <4>2. imageQ' = Send(imageQ, <<job, scanner[w].count>>, "image" \in declared)
        BY <3>5 DEF EnqueueImage
      <4>3. ImageTaskOf(job)'
        <5>1. imageQ'[<<job, scanner[w].count>>].state # "none"
          BY <4>1, <4>2, QueueSend DEF TypeOK, SharedTypeOK
        <5>2. scanner[w].count \in 0..DeliveryLimit /\ scanner'[w].job = job
          BY <3>2, <3>5 DEF EnqueueImage
        <5>3. \E n \in 0..DeliveryLimit : imageQ'[<<scanner'[w].job, n>>].state # "none"
          BY <5>1, <5>2
        <5> QED
          BY <5>3 DEF ImageTaskOf
      <4> QED
        BY <1>2, <3>1, <3>2, <3>5, <4>3 DEF EnqueueImage, KnowsJob, ScannerBusy, ScannerWorking
    <3>6. CASE DispatchNotice(w)
      <4>1. PassedOn(job)'
        BY <3>1, <3>6
        DEF DispatchNotice, NoticeUnconfirmed, NoticeOf, PassedOn, KnowsJob, ScannerBusy,
            TypeOK, SharedTypeOK
      <4> QED
        BY <1>2, <3>1, <3>2, <3>6, <4>1
        DEF DispatchNotice, NoticeUnconfirmed, KnowsJob, ScannerBusy, ScannerWorking
    <3>7. CASE ReportQueued(w)
      BY <1>2, <1>3, <3>1, <3>2, <3>7
      DEF ReportQueued, KnowsJob, ScannerBusy, ScannerWorking, PassedOn
    <3>8. CASE DispatchFailed(w)
      BY <1>2, <3>1, <3>2, <3>8 DEF DispatchFailed, KnowsJob, ScannerBusy, ScannerWorking
    <3>13. CASE \/ FailScan(w) \/ ScanUnanswered(w) \/ NoticeUnconfirmed(w)
                \/ LoseConnection(w) \/ ScanTooLong(w)
      <4>1. /\ scanner'[w].job = job
            /\ scanner'[w].pc \in ScannerEnding
            /\ ScannerBusy(w)
        BY <3>13, ScannerLeaves
      <4> QED
        BY <1>2, <3>1, <4>1 DEF KnowsJob, ScannerWorking, ScannerEnding
    <3>9. CASE DropScannerChannel(w)
      BY <1>2, <1>3, <1>4, <3>1, <3>9 DEF DropScannerChannel, KnowsJob, ScannerBusy
    <3>10. CASE \/ AckScan(w) \/ RejectTooLong(w) \/ EndScanner(w) \/ CrashScanner(w)
                \/ RestartScanner(w)
      BY <2>2, <3>2, <3>10
      DEF AckScan, RejectTooLong, EndScanner, CrashScanner, RestartScanner, ScannerBusy,
          ScannerDown, ScannerIdle, ScannerAt
    <3> QED
      BY <3>3, <3>4, <3>5, <3>6, <3>7, <3>8, <3>9, <3>10, <3>11, <3>12, <3>13
      DEF ScannerStep, ScannerMove
  <2> QED
    BY <2>1, <2>2 DEF ScannerKnows
<1> QED
  BY <1>1, <1>5, <1>6, <1>7, <1>8, <1>9

LEMMA ImagerHandover ==
    ASSUME HandoverInv, NEW i \in Imagers, ImagerStep(i), UNCHANGED <<apiVars, scanner>>
    PROVE  HandoverInv'
<1> USE DEF HandoverInv
<1>1. TypeOK'
  BY ImagerTypes
<1>2. file' = file /\ \A q \in Requests : Committed(q)' = Committed(q)
  BY ImagerEffect DEF Committed
<1>3. \A q \in Requests : ImageTaskOf(q) => ImageTaskOf(q)'
  <2>1. \A q \in Requests, n \in 0..DeliveryLimit : <<q, n>> \in ImageTasks
    BY DEF ImageTasks
  <2> QED
    BY <2>1, ImagerEffect DEF ImageTaskOf
<1>4. \A q \in Requests : PassedOn(q) => PassedOn(q)'
  BY <1>3, ImagerEffect DEF PassedOn
<1>5. RequestKnows'
  BY <1>2, ImagerEffect DEF RequestKnows, apiVars
<1>6. TaskHasRow'
  BY <1>2, ImagerEffect DEF TaskHasRow, ImageTasks
<1>7. ScannerKnows'
  <2>1. ASSUME NEW w \in Scanners, ScannerBusy(w)' PROVE KnowsJob(w)'
    <3>1. KnowsJob(w)
      BY <2>1 DEF ScannerKnows, ScannerBusy
    <3> QED
      BY <1>2, <1>3, <1>4, <3>1 DEF KnowsJob, At
  <2> QED
    BY <2>1 DEF ScannerKnows
<1>8. AckHandled'
  <2>1. \A q \in Requests : scanQ'[q] = scanQ[q]
    BY ImagerEffect
  <2> QED
    BY <1>4, <2>1 DEF AckHandled
<1>9. ImagerKnows'
  <2> USE DEF Stage, Advance, ImagerBusy, JobOf
  <2>1. imager \in [Imagers -> [pc : ImagerPc, task : ImageTasks \cup {None},
                               count : 0..DeliveryLimit, next : Renditions]]
    BY DEF TypeOK, ImagerTypeOK
  <2>2. \A j \in Imagers \ {i} : imager'[j] = imager[j]
    BY ImagerEffect
  <2>3. ASSUME NEW t \in ImageTasks, ReceiveImage(i, t)
        PROVE  imager'[i].task = t /\ Committed(t[1])
    BY <2>1, <2>3 DEF ReceiveImage, IsReady, TaskHasRow
  <2>4. CASE \E t \in ImageTasks : ReceiveImage(i, t)
    BY <1>2, <2>2, <2>3, <2>4 DEF ImagerKnows, ImageTasks
  <2>5. CASE \/ OpenJob(i) \/ RenderImage(i) \/ FinishImage(i) \/ TellComplete(i)
             \/ AbandonImage(i) \/ DropImagerChannel(i)
    BY <1>2, <2>1, <2>2, <2>5
    DEF OpenJob, RenderImage, FinishImage, TellComplete, AbandonImage, DropImagerChannel,
        ImagerKnows, ImagerWorking, ImageTasks
  <2>6. CASE StoreRendition(i)
    <3>1. imager'[i].task = imager[i].task /\ ImagerBusy(i)
      BY <2>1, <2>6 DEF StoreRendition
    <3> QED
      BY <1>2, <2>2, <3>1 DEF ImagerKnows, ImageTasks
  <2>7. CASE AckImage(i) \/ EndImager(i) \/ RestartImager(i)
    <3>1. ~ ImagerBusy(i)'
      BY <2>1, <2>7 DEF AckImage, EndImager, RestartImager, ImagerIdle, ImagerDown
    <3> QED
      BY <1>2, <2>2, <3>1 DEF ImagerKnows, ImageTasks
  <2> QED
    BY <2>4, <2>5, <2>6, <2>7 DEF ImagerStep, ImagerMove, FailImage
<1> QED
  BY <1>1, <1>5, <1>6, <1>7, <1>8, <1>9

(* The invariant of the handover holds in every reachable state. *)
THEOREM Handover == Spec => []HandoverInv
<1>1. HandoverInv /\ [Next]_vars => HandoverInv'
  <2> SUFFICES ASSUME HandoverInv, [Next]_vars PROVE HandoverInv'
    OBVIOUS
  <2>1. CASE Next
    BY <2>1, ApiHandover, ScannerHandover, ImagerHandover DEF Next
  <2>2. CASE UNCHANGED vars
    BY <2>2
    DEF vars, apiVars, shared, database, storage, queues, HandoverInv, TypeOK, SharedTypeOK,
        ApiTypeOK, ScannerTypeOK, ImagerTypeOK, RequestKnows, TaskHasRow, ScannerKnows,
        ScannerBusy, KnowsJob, At, ImagerKnows, ImagerBusy, JobOf, AckHandled, PassedOn,
        ImageTaskOf, Committed
  <2> QED
    BY <2>1, <2>2
<1> QED
  BY InitHandover, <1>1, PTL DEF Spec

(* Every variable keeps its type. *)
THEOREM TypeCorrect == Spec => []TypeOK
<1>1. HandoverInv => TypeOK
  BY DEF HandoverInv
<1> QED
  BY <1>1, Handover, PTL

(* A message is never delivered for a job that is not committed. *)
THEOREM TasksHaveRows == Spec => []TaskHasRow
<1>1. HandoverInv => TaskHasRow
  BY DEF HandoverInv
<1> QED
  BY <1>1, Handover, PTL

(* Only an upload that failed can leave a job without a scan task. *)
THEOREM NoSilentLoss == Spec => []TaskUnlessError
<1>1. HandoverInv => TaskUnlessError
  BY DEF HandoverInv, RequestKnows, TaskUnlessError, TypeOK, ApiTypeOK, Handling, Answers
<1> QED
  BY <1>1, Handover, PTL

(* An acknowledged scan has passed its outcome on. *)
THEOREM NoJobVanishes == Spec => []AckHandled
<1>1. HandoverInv => AckHandled
  BY DEF HandoverInv
<1> QED
  BY <1>1, Handover, PTL

=============================================================================

----------------------------- MODULE ServingProofs -----------------------------
(***************************************************************************)
(* Proofs that the pipeline never serves a tainted file and never loses an *)
(* object, on top of the handover invariant of JobPipelineProofs.          *)
(***************************************************************************)
EXTENDS JobPipelineProofs

-----------------------------------------------------------------------------
(* Tainted files *)

LEMMA InitTaint == Init => TaintInv
BY DEF Init, SharedInit, ApiInit, ScannerInit, ImagerInit, ScannerDown, ScannerAt, ImagerDown,
       Keys, TaintInv, UploadsMatch, VerdictSound, ScannerBusy, ImagesSound, ImagerBusy,
       RenditionsSound, SilentBeforeRow, TaintedNeverServed, Committed

(* A new row starts unserved: nobody was told of it, no image task has its *)
(* job, and no rendition has a tainted digest.                             *)
LEMMA ApiTaint ==
    ASSUME HandoverInv, TaintInv, NEW r \in Requests, ApiStep(r), UNCHANGED <<scanner, imager>>
    PROVE  TaintInv'
<1> USE DEF HandoverInv, TaintInv
<1>1. /\ \A q \in Requests : Committed(q) => Committed(q)' /\ file'[q] = file[q]
      /\ UNCHANGED <<imageQ, notices, processed>>
  <2>1. UNCHANGED processed
    BY DEF ApiStep, ReceiveUpload, CheckDuplicate, PutObject, InsertRows, PublishScanTask,
           AnswerAccepted, FailUpload, shared, storage
  <2> QED
    BY <2>1, ApiEffect DEF Committed
<1>2. UploadsMatch'
  <2>1. CASE PutObject(r)
    <3>1. UploadKey(upload[r])[1] = Digest(upload[r].content)
      BY DEF UploadKey
    <3> QED
      BY <2>1, <3>1 DEF PutObject, UploadsMatch, TypeOK, SharedTypeOK
  <2>2. CASE UNCHANGED uploads
    BY <2>2 DEF UploadsMatch
  <2> QED
    BY <2>1, <2>2
    DEF ApiStep, ReceiveUpload, CheckDuplicate, InsertRows, PublishScanTask,
        AnswerAccepted, FailUpload, shared, storage
<1>3. VerdictSound'
  <2>1. \A w \in Scanners : ScannerBusy(w) => file'[scanner[w].job] = file[scanner[w].job]
    BY <1>1 DEF ScannerKnows, KnowsJob
  <2> QED
    BY <2>1 DEF VerdictSound, ScannerBusy, At, Tainted
<1>4. ImagesSound'
  <2>1. \A i \in Imagers : ImagerBusy(i) => file'[imager[i].task[1]] = file[imager[i].task[1]]
    BY <1>1 DEF ImagerKnows, JobOf, ImageTasks
  <2> QED
    BY <2>1 DEF ImagesSound, ImagerBusy, JobOf, Tainted
<1>5. RenditionsSound' /\ SilentBeforeRow'
  BY <1>1 DEF RenditionsSound, SilentBeforeRow
<1>6. ASSUME NEW q \in Requests, Committed(q)', Tainted(file'[q].digest)
      PROVE  Unserved(q)'
  <2>1. ~ ImageTaskOf(q)' <=> ~ ImageTaskOf(q)
    BY <1>1 DEF ImageTaskOf
  <2>2. CASE Committed(q)
    <3>1. status'[q] = status[q] /\ bucket'[q] = bucket[q]
      BY <2>2
      DEF ApiStep, ReceiveUpload, CheckDuplicate, PutObject, InsertRows, PublishScanTask,
          AnswerAccepted, FailUpload, shared, database, RequestKnows, TypeOK, SharedTypeOK
    <3> QED
      BY <1>1, <1>6, <2>1, <2>2, <3>1 DEF TaintedNeverServed, Unserved
  <2>3. CASE ~ Committed(q)
    <3>1. status'[q] = "pending" /\ bucket'[q] = "uploads"
      BY <1>6, <2>3
      DEF ApiStep, ReceiveUpload, CheckDuplicate, PutObject, InsertRows, PublishScanTask,
          AnswerAccepted, FailUpload, shared, database, TypeOK, SharedTypeOK, Committed
    <3>2. ~ ImageTaskOf(q)
      <4>1. \A n \in 0..DeliveryLimit : <<q, n>> \in ImageTasks /\ <<q, n>>[1] = q
        BY DEF ImageTasks
      <4> QED
        BY <2>3, <4>1 DEF ImageTaskOf, TaskHasRow
    <3>3. notices[q] = {}
      BY <2>3 DEF SilentBeforeRow
    <3>4. \A n \in Renditions : <<file'[q].digest, n>> \notin processed'
      BY <1>1, <1>6 DEF RenditionsSound
    <3> QED
      BY <1>1, <2>1, <3>1, <3>2, <3>3, <3>4 DEF Unserved
  <2> QED
    BY <2>2, <2>3
<1> QED
  BY <1>2, <1>3, <1>4, <1>5, <1>6 DEF TaintedNeverServed, Tainted

(* Once the file is tainted, the verdict on it is not clean, so the worker *)
(* is on none of the steps that serve the file.                            *)
LEMMA ScannerServes ==
    ASSUME HandoverInv, TaintInv, NEW w \in Scanners, ScannerStep(w),
           NEW r \in Requests, Committed(r), Tainted(file[r].digest)
    PROVE  Unserved(r)'
<1> USE DEF HandoverInv, TypeOK, SharedTypeOK, shared, database, storage, queues, At
<1> DEFINE job == scanner[w].job
<1>1. Unserved(r) /\ file' = file
  BY ScannerEffect DEF TaintInv, TaintedNeverServed
<1>2. ScannerBusy(w) /\ job = r =>
         /\ scanner[w].verdict # "clean"
         /\ scanner[w].pc \notin {"enqueue", "complete", "report"}
         /\ At(w, "notify") \/ At(w, "record") => scanner[w].verdict = "infected"
  <2>1. scanner[w].pc \in {"notify", "record"} =>
          scanner[w].pc \in ScannerWorking \ {"load", "lookup", "stream", "scan"}
    BY DEF ScannerWorking
  <2> QED
    BY <2>1 DEF TaintInv, VerdictSound, ScannerKnows, KnowsJob
<1>3. status'[r] \notin {"clean", "processing", "completed"}
  <2> USE <1>1, <1>2 DEF Unserved, WriteStatus, ScannerBusy
  <2>1. CASE LoadJob(w) \/ RecordVerdict(w) \/ LabelQuarantined(w) \/ CompleteJob(w)
    BY <2>1 DEF LoadJob, RecordVerdict, LabelQuarantined, CompleteJob
  <2>2. CASE \/ FailScan(w) \/ ScanUnanswered(w) \/ NoticeUnconfirmed(w)
             \/ LoseConnection(w) \/ ScanTooLong(w)
    BY <2>2, ScannerLeaves
  <2> QED
    BY <2>1, <2>2
    DEF ScannerStep, ScannerMove, ReceiveScan, LookupFile, StreamFile, RetryScan, ScanStream,
        CopyToQuarantine, DeleteUpload, EnqueueImage, DispatchNotice, NoticeUnconfirmed,
        ReportQueued, AckScan, DispatchFailed, RejectTooLong, EndScanner, CrashScanner,
        DropScannerChannel, RestartScanner
<1>4. bucket'[r] # "processed" /\ UNCHANGED processed
  BY <1>1
  DEF Unserved, ScannerStep, ScannerMove, ReceiveScan, LoadJob, LookupFile, StreamFile,
      RetryScan, ScanStream, RecordVerdict, CopyToQuarantine, DeleteUpload, LabelQuarantined,
      EnqueueImage, CompleteJob, DispatchNotice, NoticeUnconfirmed, ReportQueued, AckScan,
      FailScan, ScanUnanswered, LoseConnection, ScanTooLong, Leave, ScannerAt, DispatchFailed,
      RejectTooLong, EndScanner, CrashScanner, DropScannerChannel, RestartScanner
<1>5. "completed" \notin notices'[r]
  <2> USE <1>1, <1>2 DEF Unserved, ScannerBusy
  <2>1. CASE DispatchNotice(w) \/ NoticeUnconfirmed(w)
    BY <2>1 DEF DispatchNotice, NoticeUnconfirmed, NoticeOf
  <2>2. CASE DispatchFailed(w)
    BY <2>2 DEF DispatchFailed
  <2> QED
    BY <2>1, <2>2
    DEF ScannerStep, ScannerMove, ReceiveScan, LoadJob, LookupFile, StreamFile, RetryScan,
        ScanStream, RecordVerdict, CopyToQuarantine, DeleteUpload, LabelQuarantined,
        EnqueueImage, CompleteJob, ReportQueued, AckScan, FailScan, ScanUnanswered,
        LoseConnection, ScanTooLong, Leave, ScannerAt, RejectTooLong, EndScanner, CrashScanner,
        DropScannerChannel, RestartScanner
<1>6. ~ ImageTaskOf(r)'
  <2>1. \A n \in 0..DeliveryLimit : <<r, n>> \in ImageTasks /\ <<r, n>>[1] = r
    BY DEF ImageTasks
  <2>2. ~ (At(w, "enqueue") /\ job = r)
    BY <1>2 DEF ScannerBusy
  <2>3. \A n \in 0..DeliveryLimit : imageQ'[<<r, n>>].state = "none"
    BY <1>1, <2>1, <2>2, ScannerEffect DEF Unserved, ImageTaskOf
  <2> QED
    BY <2>3 DEF ImageTaskOf
<1> QED
  BY <1>1, <1>3, <1>4, <1>5, <1>6 DEF Unserved

(* A scan of an object with a tainted key finds the signature or fails. *)
LEMMA ScannerVerdict ==
    ASSUME HandoverInv, TaintInv, NEW w \in Scanners, ScannerStep(w)
    PROVE  VerdictSound'
<1> USE DEF HandoverInv, At, Proceed
<1> DEFINE job == scanner[w].job
<1>1. file' = file /\ \A v \in Scanners \ {w} : scanner'[v] = scanner[v]
  BY ScannerEffect
<1>2. scanner \in [Scanners -> [pc : ScannerPc, job : Requests \cup {None},
                                count : 0..DeliveryLimit, spooled : Contents \cup {None},
                                tries : 0..(ScanAttempts - 1), verdict : Verdicts]]
  BY DEF TypeOK, ScannerTypeOK
<1> DEFINE Sound(v) ==
      /\ v.pc = "scan" => v.spooled \in Contents /\ Digest(v.spooled) = file[v.job].digest
      /\ v.verdict = "clean" => ~ Tainted(file[v.job].digest)
      /\ v.pc \in {"enqueue", "complete", "report"} => v.verdict = "clean"
<1>3. ScannerBusy(w) => job \in Requests /\ Sound(scanner[w])
  BY DEF TaintInv, VerdictSound, ScannerKnows, KnowsJob
<1>4. ASSUME ScannerBusy(w)' PROVE Sound(scanner'[w])
  <2> USE <1>2, <1>3 DEF ScannerBusy
  <2>1. CASE \E r \in Requests : ReceiveScan(w, r)
    BY <2>1 DEF ReceiveScan, ScannerAt
  <2>2. CASE StreamFile(w)
    <3>1. KeyOf(job) \in Keys /\ KeyOf(job)[1] = file[job].digest
      BY <2>2
      DEF StreamFile, KeyOf, Keys, Rows, Committed, ScannerKnows, KnowsJob, TypeOK, SharedTypeOK
    <3>2. /\ uploads[KeyOf(job)] \in Contents
          /\ Digest(uploads[KeyOf(job)]) = file[job].digest
      BY <2>2, <3>1 DEF StreamFile, TaintInv, UploadsMatch, TypeOK, SharedTypeOK
    <3>3. /\ scanner'[w].spooled = uploads[KeyOf(job)]
          /\ scanner'[w].pc = "scan"
          /\ scanner'[w].job = job
          /\ scanner'[w].verdict = scanner[w].verdict
      BY <2>2 DEF StreamFile
    <3> QED
      BY <2>2, <3>2, <3>3 DEF StreamFile
  <2>3. CASE RetryScan(w)
    BY <2>3 DEF RetryScan
  <2>4. CASE ScanStream(w)
    <3>1. PICK v \in ScanVerdict(scanner[w].spooled) : Leave(w, "record", v)
      BY <2>4 DEF ScanStream, Sent
    <3>2. v = "clean" => ~ Tainted(file[job].digest)
      BY <2>4, <3>1 DEF ScanStream, ScanVerdict, Tainted
    <3> QED
      BY <3>1, <3>2 DEF Leave, ScannerAt
  <2>5. CASE RecordVerdict(w)
    <3>1. scanner[w].verdict \in {"clean", "infected"}
      BY <2>5 DEF RecordVerdict, ScannerKnows, KnowsJob, ScannerWorking
    <3> QED
      BY <2>5, <3>1 DEF RecordVerdict, AfterVerdict
  <2>6. CASE \/ AckScan(w) \/ RejectTooLong(w) \/ EndScanner(w) \/ CrashScanner(w)
             \/ RestartScanner(w)
    BY <1>4, <2>6
    DEF AckScan, RejectTooLong, EndScanner, CrashScanner, RestartScanner, ScannerDown, ScannerIdle,
        ScannerAt
  <2>7. CASE \/ FailScan(w) \/ ScanUnanswered(w) \/ NoticeUnconfirmed(w)
             \/ LoseConnection(w) \/ ScanTooLong(w)
    BY <2>7, ScannerLeaves DEF ScannerEnding
  <2>8. CASE \/ LoadJob(w) \/ LookupFile(w) \/ CopyToQuarantine(w) \/ DeleteUpload(w)
             \/ LabelQuarantined(w) \/ EnqueueImage(w) \/ CompleteJob(w) \/ DispatchNotice(w)
             \/ ReportQueued(w) \/ DispatchFailed(w) \/ DropScannerChannel(w)
    BY <2>8
    DEF LoadJob, LookupFile, CopyToQuarantine, DeleteUpload, LabelQuarantined, EnqueueImage,
        CompleteJob, DispatchNotice, ReportQueued, DispatchFailed, DropScannerChannel
  <2> QED
    BY <2>1, <2>2, <2>3, <2>4, <2>5, <2>6, <2>7, <2>8 DEF ScannerStep, ScannerMove
<1>5. ASSUME NEW v \in Scanners, v # w, ScannerBusy(v)' PROVE Sound(scanner'[v])
  BY <1>1, <1>5 DEF TaintInv, VerdictSound, ScannerBusy
<1>6. \A v \in Scanners : ScannerBusy(v)' => Sound(scanner'[v])
  BY <1>4, <1>5
<1> QED
  BY <1>1, <1>6 DEF VerdictSound, Tainted

LEMMA ScannerTaint ==
    ASSUME HandoverInv, TaintInv, NEW w \in Scanners, ScannerStep(w), UNCHANGED <<apiVars, imager>>
    PROVE  TaintInv'
<1> USE DEF shared, database, storage, queues
<1>1. UNCHANGED <<file, imager>>
  BY ScannerEffect DEF HandoverInv
<1>2. UploadsMatch'
  <2>1. CASE DeleteUpload(w)
    BY <2>1 DEF DeleteUpload, TaintInv, UploadsMatch, HandoverInv, TypeOK, SharedTypeOK
  <2>2. CASE UNCHANGED uploads
    BY <2>2 DEF TaintInv, UploadsMatch
  <2> QED
    BY <2>1, <2>2
    DEF ScannerStep, ScannerMove, ReceiveScan, LoadJob, LookupFile, StreamFile, RetryScan,
        ScanStream, RecordVerdict, CopyToQuarantine, LabelQuarantined, EnqueueImage,
        CompleteJob, DispatchNotice, NoticeUnconfirmed, ReportQueued, AckScan, FailScan,
        ScanUnanswered, LoseConnection, ScanTooLong, Leave, ScannerAt, DispatchFailed,
        RejectTooLong, EndScanner, CrashScanner, DropScannerChannel, RestartScanner
<1>3. VerdictSound'
  BY ScannerVerdict
<1>4. ImagesSound'
  BY <1>1 DEF TaintInv, ImagesSound, ImagerBusy, JobOf, Tainted
<1>5. RenditionsSound'
  <2>1. UNCHANGED processed
    BY DEF ScannerStep, ScannerMove, ReceiveScan, LoadJob, LookupFile, StreamFile, RetryScan,
           ScanStream, RecordVerdict, CopyToQuarantine, DeleteUpload, LabelQuarantined,
           EnqueueImage, CompleteJob, DispatchNotice, NoticeUnconfirmed, ReportQueued, AckScan,
           FailScan, ScanUnanswered, LoseConnection, ScanTooLong, Leave, ScannerAt,
           DispatchFailed, RejectTooLong, EndScanner, CrashScanner, DropScannerChannel,
           RestartScanner
  <2> QED
    BY <2>1 DEF TaintInv, RenditionsSound
<1>6. SilentBeforeRow'
  <2> USE <1>1 DEF TaintInv, SilentBeforeRow, Committed
  <2>1. CASE DispatchNotice(w) \/ NoticeUnconfirmed(w) \/ DispatchFailed(w)
    BY <2>1
    DEF DispatchNotice, NoticeUnconfirmed, DispatchFailed, At, HandoverInv, TypeOK,
        SharedTypeOK, ScannerKnows, ScannerBusy, KnowsJob
  <2>2. CASE UNCHANGED notices
    BY <2>2
  <2> QED
    BY <2>1, <2>2
    DEF ScannerStep, ScannerMove, ReceiveScan, LoadJob, LookupFile, StreamFile, RetryScan,
        ScanStream, RecordVerdict, CopyToQuarantine, DeleteUpload, LabelQuarantined,
        EnqueueImage, CompleteJob, ReportQueued, AckScan, FailScan, ScanUnanswered,
        LoseConnection, ScanTooLong, Leave, ScannerAt, RejectTooLong, EndScanner, CrashScanner,
        DropScannerChannel, RestartScanner
<1>7. TaintedNeverServed'
  <2>1. ASSUME NEW r \in Requests, Committed(r)', Tainted(file'[r].digest)
        PROVE  Unserved(r)'
    BY <1>1, <2>1, ScannerServes DEF Committed
  <2> QED
    BY <2>1 DEF TaintedNeverServed, Tainted
<1> QED
  BY <1>2, <1>3, <1>4, <1>5, <1>6, <1>7 DEF TaintInv

(* An image task of a tainted file does not exist, so its row is not       *)
(* touched and nothing with its digest is stored.                          *)
LEMMA ImagerTaint ==
    ASSUME HandoverInv, TaintInv, NEW i \in Imagers, ImagerStep(i), UNCHANGED <<apiVars, scanner>>
    PROVE  TaintInv'
<1> USE DEF shared, database, storage, queues, JobOf, Stage
<1>1. /\ UNCHANGED <<file, notices, scanner>>
      /\ \A j \in Imagers \ {i} : imager'[j] = imager[j]
      /\ \A t \in ImageTasks : imageQ'[t].state = "none" <=> imageQ[t].state = "none"
  BY ImagerEffect DEF HandoverInv
<1>2. UNCHANGED uploads
  BY DEF ImagerStep, ImagerMove, FailImage, ReceiveImage, OpenJob, RenderImage, StoreRendition,
         FinishImage, TellComplete, AckImage, AbandonImage, EndImager, DropImagerChannel,
         RestartImager
<1>3. UploadsMatch' /\ VerdictSound' /\ SilentBeforeRow'
  BY <1>1, <1>2
  DEF TaintInv, UploadsMatch, VerdictSound, ScannerBusy, At, SilentBeforeRow, Committed, Tainted
<1>4. ImagerBusy(i) =>
        /\ imager[i].task \in ImageTasks
        /\ JobOf(i) \in Requests
        /\ ~ Tainted(file[JobOf(i)].digest)
  BY DEF HandoverInv, ImagerKnows, TaintInv, ImagesSound, ImageTasks
<1>5. imager \in [Imagers -> [pc : ImagerPc, task : ImageTasks \cup {None},
                              count : 0..DeliveryLimit, next : Renditions]]
  BY DEF HandoverInv, TypeOK, ImagerTypeOK
<1>6. ImagesSound'
  <2> USE <1>5 DEF ImagerBusy, Advance
  <2>1. ASSUME NEW t \in ImageTasks, ReceiveImage(i, t)
        PROVE  imager'[i].task = t /\ ~ Tainted(file[t[1]].digest)
    <3>1. PICK r \in Requests, n \in 0..DeliveryLimit : t = <<r, n>>
      BY DEF ImageTasks
    <3>2. ImageTaskOf(r) /\ Committed(r)
      BY <2>1, <3>1 DEF ReceiveImage, IsReady, ImageTaskOf, HandoverInv, TaskHasRow
    <3> QED
      BY <2>1, <3>1, <3>2 DEF ReceiveImage, TaintInv, TaintedNeverServed, Unserved
  <2>2. ASSUME ImagerBusy(i)'
        PROVE  ~ Tainted(file[imager'[i].task[1]].digest)
    <3>1. CASE \E t \in ImageTasks : ReceiveImage(i, t)
      BY <2>1, <3>1
    <3>2. CASE AckImage(i) \/ EndImager(i) \/ RestartImager(i)
      BY <2>2, <3>2 DEF AckImage, EndImager, RestartImager, ImagerIdle, ImagerDown
    <3>3. CASE StoreRendition(i)
      <4>1. imager'[i].task = imager[i].task /\ ImagerBusy(i)
        BY <3>3 DEF StoreRendition
      <4> QED
        BY <1>4, <4>1
    <3>4. CASE \/ OpenJob(i) \/ RenderImage(i) \/ FinishImage(i) \/ TellComplete(i)
               \/ AbandonImage(i) \/ DropImagerChannel(i)
      BY <1>4, <3>4
      DEF OpenJob, RenderImage, FinishImage, TellComplete, AbandonImage, DropImagerChannel,
          ImagerWorking
    <3> QED
      BY <3>1, <3>2, <3>3, <3>4 DEF ImagerStep, ImagerMove, FailImage
  <2>3. ASSUME NEW j \in Imagers, j # i, ImagerBusy(j)'
        PROVE  ~ Tainted(file[imager'[j].task[1]].digest)
    BY <1>1, <2>3 DEF TaintInv, ImagesSound
  <2> QED
    BY <1>1, <2>2, <2>3 DEF ImagesSound, Tainted
<1>7. RenditionsSound'
  <2>1. CASE StoreRendition(i)
    BY <1>4, <2>1 DEF StoreRendition, ImagerBusy, TaintInv, RenditionsSound
  <2>2. CASE UNCHANGED processed
    BY <2>2 DEF TaintInv, RenditionsSound
  <2> QED
    BY <2>1, <2>2
    DEF ImagerStep, ImagerMove, FailImage, ReceiveImage, OpenJob, RenderImage, FinishImage,
        TellComplete, AckImage, AbandonImage, EndImager, DropImagerChannel, RestartImager
<1>8. ASSUME NEW r \in Requests, Committed(r), Tainted(file[r].digest)
      PROVE  Unserved(r)'
  <2>1. Unserved(r)
    BY <1>8 DEF TaintInv, TaintedNeverServed
  <2>2. ImagerBusy(i) => JobOf(i) # r
    BY <1>4, <1>8
  <2>3. status'[r] = status[r] /\ bucket'[r] = bucket[r]
    BY <2>2
    DEF ImagerBusy, HandoverInv, TypeOK, SharedTypeOK, WriteStatus, ImagerStep, ImagerMove,
        FailImage, ReceiveImage, OpenJob, RenderImage, StoreRendition, FinishImage,
        TellComplete, AckImage, AbandonImage, EndImager, DropImagerChannel, RestartImager
  <2>4. ~ ImageTaskOf(r)'
    <3>1. \A n \in 0..DeliveryLimit : <<r, n>> \in ImageTasks
      BY DEF ImageTasks
    <3> QED
      BY <1>1, <2>1, <3>1 DEF Unserved, ImageTaskOf
  <2>5. \A n \in Renditions : <<file'[r].digest, n>> \notin processed'
    BY <1>1, <1>7, <1>8 DEF RenditionsSound, Tainted
  <2> QED
    BY <1>1, <2>1, <2>3, <2>4, <2>5 DEF Unserved
<1> QED
  BY <1>1, <1>3, <1>6, <1>7, <1>8 DEF TaintInv, TaintedNeverServed, Committed, Tainted

(* What no process ever does to a tainted file holds in every state. *)
THEOREM TaintHandled == Spec => []TaintInv
<1>1. HandoverInv /\ TaintInv /\ [Next]_vars => TaintInv'
  <2> SUFFICES ASSUME HandoverInv, TaintInv, [Next]_vars PROVE TaintInv'
    OBVIOUS
  <2>1. CASE Next
    BY <2>1, ApiTaint, ScannerTaint, ImagerTaint DEF Next
  <2>2. CASE UNCHANGED vars
    BY <2>2
    DEF vars, apiVars, shared, database, storage, queues, TaintInv, UploadsMatch, VerdictSound, At,
        ScannerBusy, ImagesSound, ImagerBusy, JobOf, RenditionsSound, SilentBeforeRow,
        TaintedNeverServed, Unserved, ImageTaskOf, Committed, Tainted
  <2> QED
    BY <2>1, <2>2
<1> QED
  BY InitTaint, Handover, <1>1, PTL DEF Spec

(* A file with a signature is never served. *)
THEOREM NeverServed == Spec => []TaintedNeverServed
<1>1. TaintInv => TaintedNeverServed
  BY DEF TaintInv
<1> QED
  BY <1>1, TaintHandled, PTL

-----------------------------------------------------------------------------
(* Objects *)

LEMMA InitEvidence == Init => EvidenceInv
BY DEF Init, SharedInit, ApiInit, ScannerInit, ScannerDown, ScannerAt, EvidenceInv, MovedFirst,
       ScannerBusy, StoredFirst, EvidenceKept, Committed

(* The put comes before the row that names its object. *)
LEMMA ApiEvidence ==
    ASSUME HandoverInv, TaintInv, EvidenceInv,
           NEW r \in Requests, ApiStep(r), UNCHANGED <<scanner, imager>>
    PROVE  EvidenceInv'
<1> USE DEF HandoverInv, TypeOK, SharedTypeOK, ApiTypeOK, shared, database, storage, queues, Goto
<1>1. /\ \A q \in Requests : Committed(q) => Committed(q)' /\ file'[q] = file[q]
      /\ UNCHANGED <<notices, quarantine>>
  <2>1. UNCHANGED quarantine
    BY DEF ApiStep, ReceiveUpload, CheckDuplicate, PutObject, InsertRows, PublishScanTask,
           AnswerAccepted, FailUpload
  <2> QED
    BY <2>1, ApiEffect DEF Committed
<1>2. MovedFirst'
  <2>1. \A w \in Scanners : ScannerBusy(w) => file'[scanner[w].job] = file[scanner[w].job]
    BY <1>1 DEF ScannerKnows, KnowsJob
  <2> QED
    BY <1>1, <2>1 DEF EvidenceInv, MovedFirst, ScannerBusy, At, KeyOf
<1>3. \A k \in Keys : uploads[k] # None => uploads'[k] # None
  <2>1. CASE PutObject(r)
    <3>1. upload[r].content \in Contents /\ None \notin Contents
      BY <2>1, NoneAssumption DEF PutObject, RequestKnows, Files
    <3> QED
      BY <2>1, <3>1 DEF PutObject
  <2> QED
    BY <2>1
    DEF ApiStep, ReceiveUpload, CheckDuplicate, InsertRows, PublishScanTask, AnswerAccepted,
        FailUpload
<1>4. \A q \in Requests : upload[q] # None => UploadKey(upload[q]) \in Keys
  BY DEF Files, Contents, UploadKey, Digest, Keys
<1>5. StoredFirst'
  <2>1. CASE PutObject(r)
    <3>1. upload[r] # None /\ upload[r].content \in Contents /\ None \notin Contents
      BY <2>1, NoneAssumption DEF PutObject, RequestKnows, Files
    <3>2. uploads'[UploadKey(upload[r])] # None
      BY <1>4, <2>1, <3>1 DEF PutObject
    <3>3. \A q \in Requests \ {r} : request'[q] = request[q] /\ upload' = upload
      BY <2>1 DEF PutObject
    <3>4. upload' = upload
      BY <2>1 DEF PutObject
    <3> QED
      BY <1>1, <1>3, <1>4, <3>2, <3>3, <3>4 DEF EvidenceInv, StoredFirst, RequestKnows
  <2>2. CASE ReceiveUpload(r)
    <3>1. \A q \in Requests : request'[q] = "insert" =>
             request[q] = "insert" /\ upload'[q] = upload[q]
      BY <2>2 DEF ReceiveUpload
    <3> QED
      BY <2>2, <3>1 DEF ReceiveUpload, EvidenceInv, StoredFirst
  <2>3. CASE \/ CheckDuplicate(r) \/ InsertRows(r) \/ PublishScanTask(r) \/ AnswerAccepted(r)
             \/ FailUpload(r)
    <3>1. \A q \in Requests : request'[q] = "insert" => request[q] = "insert"
      BY <2>3 DEF CheckDuplicate, InsertRows, PublishScanTask, AnswerAccepted, FailUpload, Answers
    <3>2. UNCHANGED <<upload, uploads>>
      BY <2>3 DEF CheckDuplicate, InsertRows, PublishScanTask, AnswerAccepted, FailUpload
    <3> QED
      BY <1>1, <3>1, <3>2 DEF EvidenceInv, StoredFirst
  <2> QED
    BY <2>1, <2>2, <2>3 DEF ApiStep
<1>6. ASSUME NEW q \in Requests, Committed(q)'
      PROVE  /\ uploads'[KeyOf(q)'] # None \/ KeyOf(q)' \in quarantine'
             /\ bucket'[q] = "quarantine" \/ status'[q] = "quarantined"
                  \/ "quarantined" \in notices'[q] => KeyOf(q)' \in quarantine'
  <2>1. CASE Committed(q)
    <3>1. status'[q] = status[q] /\ bucket'[q] = bucket[q]
      BY <2>1
      DEF ApiStep, ReceiveUpload, CheckDuplicate, PutObject, InsertRows, PublishScanTask,
          AnswerAccepted, FailUpload, RequestKnows
    <3>2. KeyOf(q)' = KeyOf(q) /\ KeyOf(q) \in Keys
      BY <1>1, <2>1 DEF KeyOf, Keys, Committed, Rows
    <3> QED
      BY <1>1, <1>3, <2>1, <3>1, <3>2 DEF EvidenceInv, EvidenceKept
  <2>2. CASE ~ Committed(q)
    <3>1. q = r /\ InsertRows(r)
      BY <1>6, <2>2
      DEF ApiStep, ReceiveUpload, CheckDuplicate, PutObject, InsertRows, PublishScanTask,
          AnswerAccepted, FailUpload, Committed
    <3>2. KeyOf(r)' = UploadKey(upload[r])
      BY <3>1 DEF InsertRows, KeyOf, UploadKey, RowOf
    <3>3. status'[r] = "pending" /\ bucket'[r] = "uploads" /\ uploads' = uploads
      BY <3>1 DEF InsertRows
    <3>4. notices[r] = {}
      BY <2>2, <3>1 DEF TaintInv, SilentBeforeRow
    <3>5. uploads[UploadKey(upload[r])] # None \/ UploadKey(upload[r]) \in quarantine
      BY <3>1 DEF InsertRows, EvidenceInv, StoredFirst
    <3> QED
      BY <1>1, <3>1, <3>2, <3>3, <3>4, <3>5
  <2> QED
    BY <2>1, <2>2
<1> QED
  BY <1>2, <1>5, <1>6 DEF EvidenceInv, EvidenceKept, KeyOf

(* An object leaves the uploads after its copy was checked, and quarantine *)
(* never loses one.                                                        *)
LEMMA ScannerMoves ==
    ASSUME HandoverInv, EvidenceInv, NEW w \in Scanners, ScannerStep(w)
    PROVE  /\ quarantine \subseteq quarantine'
           /\ \A k \in Keys : uploads[k] # None => uploads'[k] # None \/ k \in quarantine'
           /\ \A r \in Requests : bucket'[r] = "quarantine" \/ status'[r] = "quarantined" =>
                 \/ bucket[r] = "quarantine"
                 \/ status[r] = "quarantined"
                 \/ At(w, "label") /\ scanner[w].job = r
<1> USE DEF HandoverInv, TypeOK, SharedTypeOK, shared, database, storage, queues, At
<1>1. quarantine \subseteq quarantine'
  BY DEF ScannerStep, ScannerMove, ReceiveScan, LoadJob, LookupFile, StreamFile, RetryScan,
         ScanStream, RecordVerdict, CopyToQuarantine, DeleteUpload, LabelQuarantined,
         EnqueueImage, CompleteJob, DispatchNotice, NoticeUnconfirmed, ReportQueued, AckScan,
         FailScan, ScanUnanswered, LoseConnection, ScanTooLong, Leave, ScannerAt,
         DispatchFailed, RejectTooLong, EndScanner, CrashScanner, DropScannerChannel,
         RestartScanner
<1>2. \A k \in Keys : uploads[k] # None => uploads'[k] # None \/ k \in quarantine'
  <2>1. CASE DeleteUpload(w)
    BY <2>1 DEF DeleteUpload, EvidenceInv, MovedFirst, ScannerBusy
  <2> QED
    BY <2>1
    DEF ScannerStep, ScannerMove, ReceiveScan, LoadJob, LookupFile, StreamFile, RetryScan,
        ScanStream, RecordVerdict, CopyToQuarantine, LabelQuarantined, EnqueueImage,
        CompleteJob, DispatchNotice, NoticeUnconfirmed, ReportQueued, AckScan, FailScan,
        ScanUnanswered, LoseConnection, ScanTooLong, Leave, ScannerAt, DispatchFailed,
        RejectTooLong, EndScanner, CrashScanner, DropScannerChannel, RestartScanner
<1>3. \A r \in Requests : bucket'[r] = "quarantine" \/ status'[r] = "quarantined" =>
         \/ bucket[r] = "quarantine"
         \/ status[r] = "quarantined"
         \/ At(w, "label") /\ scanner[w].job = r
  <2> USE DEF WriteStatus
  <2>1. CASE LoadJob(w) \/ LabelQuarantined(w) \/ CompleteJob(w)
    BY <2>1 DEF LoadJob, LabelQuarantined, CompleteJob
  <2>2. CASE RecordVerdict(w)
    BY <2>2 DEF RecordVerdict, ScannerTypeOK, Verdicts
  <2>3. CASE \/ FailScan(w) \/ ScanUnanswered(w) \/ NoticeUnconfirmed(w)
             \/ LoseConnection(w) \/ ScanTooLong(w)
    BY <2>3, ScannerLeaves
  <2> QED
    BY <2>1, <2>2, <2>3
    DEF ScannerStep, ScannerMove, ReceiveScan, LookupFile, StreamFile, RetryScan, ScanStream,
        CopyToQuarantine, DeleteUpload, EnqueueImage, DispatchNotice, NoticeUnconfirmed,
        ReportQueued, AckScan, DispatchFailed, RejectTooLong, EndScanner, CrashScanner,
        DropScannerChannel, RestartScanner
<1> QED
  BY <1>1, <1>2, <1>3

LEMMA ScannerEvidence ==
    ASSUME HandoverInv, TaintInv, EvidenceInv,
           NEW w \in Scanners, ScannerStep(w), UNCHANGED <<apiVars, imager>>
    PROVE  EvidenceInv'
<1> USE DEF HandoverInv, TypeOK, SharedTypeOK, At, Proceed
<1> DEFINE job == scanner[w].job
<1>1. /\ UNCHANGED <<file, request, upload>>
      /\ \A v \in Scanners \ {w} : scanner'[v] = scanner[v]
  BY ScannerEffect DEF apiVars
<1>2. \A r \in Requests : Committed(r) => KeyOf(r) \in Keys
  BY DEF KeyOf, Keys, Committed, Rows
<1>3. scanner \in [Scanners -> [pc : ScannerPc, job : Requests \cup {None},
                                count : 0..DeliveryLimit, spooled : Contents \cup {None},
                                tries : 0..(ScanAttempts - 1), verdict : Verdicts]]
  BY DEF ScannerTypeOK
<1>4. ASSUME ScannerBusy(w)'
      PROVE  /\ scanner'[w].pc \in {"delete", "label"} => KeyOf(scanner'[w].job) \in quarantine'
             /\ scanner'[w].pc = "notify" /\ scanner'[w].verdict = "infected" =>
                   KeyOf(scanner'[w].job) \in quarantine'
  <2> USE <1>3 DEF ScannerBusy
  <2>1. scanner[w].pc \in {"delete", "label"} => KeyOf(job) \in quarantine'
    BY ScannerMoves DEF EvidenceInv, MovedFirst
  <2>2. scanner[w].pc = "notify" /\ scanner[w].verdict = "infected" => KeyOf(job) \in quarantine'
    BY ScannerMoves DEF EvidenceInv, MovedFirst
  <2>3. scanner[w].pc = "complete" => scanner[w].verdict = "clean"
    BY DEF TaintInv, VerdictSound
  <2>4. CASE CopyToQuarantine(w)
    BY <2>4 DEF CopyToQuarantine
  <2>5. CASE \/ LoadJob(w) \/ LookupFile(w) \/ StreamFile(w) \/ RetryScan(w)
             \/ RecordVerdict(w) \/ EnqueueImage(w) \/ DispatchNotice(w) \/ ReportQueued(w)
             \/ DispatchFailed(w)
    <3>1. CASE LoadJob(w) \/ LookupFile(w)
      BY <3>1 DEF LoadJob, LookupFile
    <3>4. CASE StreamFile(w)
      <4>1. scanner'[w].pc = "scan"
        BY <3>4 DEF StreamFile
      <4> QED
        BY <4>1
    <3>2. CASE RetryScan(w) \/ RecordVerdict(w)
      BY <3>2 DEF RetryScan, RecordVerdict, AfterVerdict
    <3>3. CASE EnqueueImage(w) \/ DispatchNotice(w) \/ ReportQueued(w) \/ DispatchFailed(w)
      BY <3>3 DEF EnqueueImage, DispatchNotice, ReportQueued, DispatchFailed
    <3> QED
      BY <2>5, <3>1, <3>2, <3>3, <3>4
  <2>9. CASE \/ DeleteUpload(w) \/ LabelQuarantined(w) \/ CompleteJob(w)
             \/ DropScannerChannel(w)
    BY <2>1, <2>2, <2>3, <2>9
    DEF DeleteUpload, LabelQuarantined, CompleteJob, DropScannerChannel
  <2>6. CASE (\E r \in Requests : ReceiveScan(w, r)) \/ ScanStream(w)
    BY <2>6 DEF ReceiveScan, ScanStream, Leave, ScannerAt
  <2>7. CASE \/ AckScan(w) \/ RejectTooLong(w) \/ EndScanner(w) \/ CrashScanner(w)
             \/ RestartScanner(w)
    BY <1>4, <2>7
    DEF AckScan, RejectTooLong, EndScanner, CrashScanner, RestartScanner, ScannerDown, ScannerIdle,
        ScannerAt
  <2>8. CASE \/ FailScan(w) \/ ScanUnanswered(w) \/ NoticeUnconfirmed(w)
             \/ LoseConnection(w) \/ ScanTooLong(w)
    BY <2>8, ScannerLeaves DEF ScannerEnding
  <2> QED
    BY <2>4, <2>5, <2>6, <2>7, <2>8, <2>9 DEF ScannerStep, ScannerMove
<1>5. MovedFirst'
  <2>1. \A v \in Scanners \ {w} : ScannerBusy(v)' => ScannerBusy(v)
    BY <1>1 DEF ScannerBusy
  <2> QED
    BY <1>1, <1>4, <2>1, ScannerMoves DEF EvidenceInv, MovedFirst, KeyOf
<1>6. StoredFirst'
  <2>1. \A r \in Requests : request[r] = "insert" => UploadKey(upload[r]) \in Keys
    BY DEF RequestKnows, ApiTypeOK, Files, Contents, UploadKey, Digest, Keys
  <2> QED
    BY <1>1, <2>1, ScannerMoves DEF EvidenceInv, StoredFirst
<1>7. \A r \in Requests : "quarantined" \in notices'[r] =>
         \/ "quarantined" \in notices[r]
         \/ /\ At(w, "notify")
            /\ scanner[w].verdict = "infected"
            /\ job = r
  <2> USE DEF shared, database, storage, queues
  <2>1. CASE DispatchNotice(w) \/ NoticeUnconfirmed(w) \/ DispatchFailed(w)
    BY <2>1 DEF DispatchNotice, NoticeUnconfirmed, NoticeOf, DispatchFailed
  <2> QED
    BY <2>1
    DEF ScannerStep, ScannerMove, ReceiveScan, LoadJob, LookupFile, StreamFile, RetryScan,
        ScanStream, RecordVerdict, CopyToQuarantine, DeleteUpload, LabelQuarantined,
        EnqueueImage, CompleteJob, ReportQueued, AckScan, FailScan, ScanUnanswered,
        LoseConnection, ScanTooLong, Leave, ScannerAt, RejectTooLong, EndScanner, CrashScanner,
        DropScannerChannel, RestartScanner
<1>8. ASSUME NEW r \in Requests, Committed(r)
      PROVE  /\ uploads'[KeyOf(r)] # None \/ KeyOf(r) \in quarantine'
             /\ bucket'[r] = "quarantine" \/ status'[r] = "quarantined"
                  \/ "quarantined" \in notices'[r] => KeyOf(r) \in quarantine'
  <2>1. uploads'[KeyOf(r)] # None \/ KeyOf(r) \in quarantine'
    BY <1>2, <1>8, ScannerMoves DEF EvidenceInv, EvidenceKept
  <2>2. At(w, "label") /\ job = r => KeyOf(r) \in quarantine
    BY DEF EvidenceInv, MovedFirst, ScannerBusy
  <2>3. At(w, "notify") /\ scanner[w].verdict = "infected" /\ job = r => KeyOf(r) \in quarantine
    BY DEF EvidenceInv, MovedFirst, ScannerBusy
  <2> QED
    BY <1>7, <1>8, <2>1, <2>2, <2>3, ScannerMoves DEF EvidenceInv, EvidenceKept
<1>9. EvidenceKept'
  BY <1>1, <1>8 DEF EvidenceKept, Committed, KeyOf
<1> QED
  BY <1>5, <1>6, <1>9 DEF EvidenceInv

(* The image processor reads the uploads and never labels quarantine. *)
LEMMA ImagerEvidence ==
    ASSUME HandoverInv, EvidenceInv,
           NEW i \in Imagers, ImagerStep(i), UNCHANGED <<apiVars, scanner>>
    PROVE  EvidenceInv'
<1> USE DEF HandoverInv, TypeOK, SharedTypeOK, shared, database, storage, queues
<1>1. UNCHANGED <<file, notices, scanner, request, upload>>
  BY ImagerEffect DEF apiVars
<1>2. UNCHANGED <<uploads, quarantine>>
  BY DEF ImagerStep, ImagerMove, FailImage, ReceiveImage, OpenJob, RenderImage, StoreRendition,
         FinishImage, TellComplete, AckImage, AbandonImage, EndImager, DropImagerChannel,
         RestartImager
<1>3. \A r \in Requests :
         /\ bucket'[r] = "quarantine" => bucket[r] = "quarantine"
         /\ status'[r] = "quarantined" => status[r] = "quarantined"
  BY DEF WriteStatus, ImagerStep, ImagerMove, FailImage, ReceiveImage, OpenJob, RenderImage,
         StoreRendition, FinishImage, TellComplete, AckImage, AbandonImage, EndImager,
         DropImagerChannel, RestartImager
<1> QED
  BY <1>1, <1>2, <1>3
  DEF EvidenceInv, MovedFirst, ScannerBusy, At, StoredFirst, EvidenceKept, KeyOf, Committed

(* The objects behind committed rows, and where the rows say they are *)
THEOREM EvidenceHandled == Spec => []EvidenceInv
<1>1. HandoverInv /\ TaintInv /\ EvidenceInv /\ [Next]_vars => EvidenceInv'
  <2> SUFFICES ASSUME HandoverInv, TaintInv, EvidenceInv, [Next]_vars PROVE EvidenceInv'
    OBVIOUS
  <2>1. CASE Next
    BY <2>1, ApiEvidence, ScannerEvidence, ImagerEvidence DEF Next
  <2>2. CASE UNCHANGED vars
    BY <2>2
    DEF vars, apiVars, shared, database, storage, queues, EvidenceInv, MovedFirst,
        ScannerBusy, At, StoredFirst, EvidenceKept, KeyOf, Committed
  <2> QED
    BY <2>1, <2>2
<1> QED
  BY InitEvidence, Handover, TaintHandled, <1>1, PTL DEF Spec

(* No object of a committed row is lost between the buckets. *)
THEOREM NoObjectLost == Spec => []EvidenceKept
<1>1. EvidenceInv => EvidenceKept
  BY DEF EvidenceInv
<1> QED
  BY <1>1, EvidenceHandled, PTL

-----------------------------------------------------------------------------
(* Renditions *)

LEMMA ApiRenders ==
    ASSUME HandoverInv, RenderInv, NEW r \in Requests, ApiStep(r), UNCHANGED <<scanner, imager>>
    PROVE  RenderInv'
<1> USE DEF HandoverInv, TypeOK, SharedTypeOK
<1>1. /\ \A q \in Requests : Committed(q) => file'[q] = file[q]
      /\ processed' = processed
  BY ApiEffect
  DEF ApiStep, ReceiveUpload, CheckDuplicate, PutObject, InsertRows, PublishScanTask,
      AnswerAccepted, FailUpload, shared, database, storage
<1>2. \A q \in Requests : Committed(q)' =>
         \/ Committed(q) /\ status'[q] = status[q] /\ bucket'[q] = bucket[q]
         \/ status'[q] = "pending" /\ bucket'[q] = "uploads"
  <2>1. CASE InsertRows(r)
    BY <2>1 DEF InsertRows, Committed
  <2> QED
    BY <2>1
    DEF ApiStep, ReceiveUpload, CheckDuplicate, PutObject, PublishScanTask, AnswerAccepted,
        FailUpload, shared, database, Committed
<1>3. RenditionsComplete'
  BY <1>1, <1>2 DEF RenderInv, RenditionsComplete, Committed
<1>4. \A w \in Scanners : At(w, "complete") =>
         Committed(scanner[w].job) /\ scanner[w].job \in Requests
  BY DEF ScannerKnows, KnowsJob, ScannerBusy, At
<1>5. \A i \in Imagers : imager[i].pc \in {"open", "render", "store", "finish"} =>
         Committed(JobOf(i)) /\ JobOf(i) \in Requests
  BY DEF ImagerKnows, ImagerBusy, JobOf, ImageTasks
<1>6. RenderedFirst'
  BY <1>1, <1>4, <1>5 DEF RenderInv, RenderedFirst, StoredUpTo, At, Stage, JobOf
<1> QED
  BY <1>3, <1>6 DEF RenderInv

(* Only CompleteJob completes a scanned job, and only after RecordVerdict  *)
(* found that it is no image.                                              *)
LEMMA ScannerCompletes ==
    ASSUME HandoverInv, NEW w \in Scanners, ScannerStep(w)
    PROVE  /\ UNCHANGED processed
           /\ \A r \in Requests : status'[r] = "completed" =>
                 status[r] = "completed" \/ (At(w, "complete") /\ r = scanner[w].job)
           /\ \A r \in Requests : bucket'[r] = "processed" => bucket[r] = "processed"
<1> USE DEF HandoverInv, TypeOK, SharedTypeOK, shared, database, storage, queues
<1> DEFINE Same == UNCHANGED <<status, bucket, processed>>
<1>1. CASE RecordVerdict(w)
  BY <1>1 DEF RecordVerdict, WriteStatus, ScannerTypeOK, Verdicts
<1>2. CASE \/ FailScan(w) \/ ScanUnanswered(w) \/ NoticeUnconfirmed(w)
           \/ LoseConnection(w) \/ ScanTooLong(w)
  <2>1. UNCHANGED processed
    BY <1>2 DEF FailScan, ScanUnanswered, NoticeUnconfirmed, LoseConnection, ScanTooLong
  <2>2. /\ UNCHANGED bucket
        /\ \A r \in Requests : status'[r] \in {status[r], "failed", "queued_for_retry"}
    BY <1>2, ScannerLeaves
  <2> QED
    BY <2>1, <2>2
<1>3. CASE LoadJob(w) \/ LabelQuarantined(w) \/ CompleteJob(w)
  BY <1>3 DEF LoadJob, LabelQuarantined, CompleteJob, WriteStatus
<1>4. ASSUME \/ LookupFile(w) \/ StreamFile(w) \/ ScanStream(w) \/ RetryScan(w)
             \/ CopyToQuarantine(w) \/ DeleteUpload(w) \/ EnqueueImage(w) \/ DispatchNotice(w)
             \/ ReportQueued(w) \/ AckScan(w) \/ DispatchFailed(w) \/ RejectTooLong(w)
             \/ EndScanner(w) \/ CrashScanner(w) \/ DropScannerChannel(w) \/ RestartScanner(w)
             \/ \E r \in Requests : ReceiveScan(w, r)
      PROVE  Same
  BY <1>4
  DEF LookupFile, StreamFile, ScanStream, RetryScan, CopyToQuarantine, DeleteUpload, EnqueueImage,
      DispatchNotice, ReportQueued, AckScan, DispatchFailed, RejectTooLong, EndScanner,
      CrashScanner, DropScannerChannel, RestartScanner, ReceiveScan
<1> QED
  BY <1>1, <1>2, <1>3, <1>4 DEF ScannerStep, ScannerMove

LEMMA NoImageIsCompleted ==
    ASSUME HandoverInv, NEW w \in Scanners, ScannerStep(w), scanner'[w].pc = "complete",
           scanner'[w] # scanner[w]
    PROVE  file[scanner'[w].job].ext \notin ImageExts
<1> USE DEF HandoverInv, TypeOK
<1>0. scanner \in [Scanners -> [pc : ScannerPc, job : Requests \cup {None},
                                count : 0..DeliveryLimit, spooled : Contents \cup {None},
                                tries : 0..(ScanAttempts - 1), verdict : Verdicts]]
  BY DEF ScannerTypeOK
<1>1. CASE RecordVerdict(w)
  BY <1>0, <1>1 DEF RecordVerdict, Proceed, AfterVerdict
<1>2. ASSUME NEW pc, Proceed(w, pc), pc # "complete" PROVE FALSE
  BY <1>0, <1>2 DEF Proceed
<1>3. ASSUME NEW pc, NEW v, Leave(w, pc, v), pc # "complete" PROVE FALSE
  BY <1>0, <1>3 DEF Leave, ScannerAt
<1>4. CASE \/ LoadJob(w) \/ LookupFile(w) \/ CopyToQuarantine(w) \/ DeleteUpload(w)
           \/ LabelQuarantined(w) \/ EnqueueImage(w) \/ CompleteJob(w) \/ DispatchNotice(w)
           \/ ReportQueued(w) \/ DispatchFailed(w)
  BY <1>2, <1>4
  DEF LoadJob, LookupFile, CopyToQuarantine, DeleteUpload, LabelQuarantined, EnqueueImage,
      CompleteJob, DispatchNotice, ReportQueued, DispatchFailed
<1>5. CASE \/ FailScan(w) \/ ScanUnanswered(w) \/ NoticeUnconfirmed(w) \/ LoseConnection(w)
           \/ ScanTooLong(w) \/ ScanStream(w)
  BY <1>3, <1>5
  DEF FailScan, ScanUnanswered, NoticeUnconfirmed, LoseConnection, ScanTooLong, ScanStream
<1>6. CASE \/ StreamFile(w) \/ RetryScan(w) \/ DropScannerChannel(w)
  BY <1>0, <1>6 DEF StreamFile, RetryScan, DropScannerChannel, At
<1>7. CASE \/ AckScan(w) \/ RejectTooLong(w) \/ EndScanner(w) \/ CrashScanner(w)
           \/ RestartScanner(w)
           \/ \E r \in Requests : ReceiveScan(w, r)
  BY <1>0, <1>7
  DEF AckScan, RejectTooLong, EndScanner, CrashScanner, RestartScanner, ReceiveScan, ScannerAt,
      ScannerDown, ScannerIdle
<1> QED
  BY <1>1, <1>4, <1>5, <1>6, <1>7 DEF ScannerStep, ScannerMove

LEMMA ScannerRenders ==
    ASSUME HandoverInv, RenderInv, NEW w \in Scanners, ScannerStep(w), UNCHANGED imager
    PROVE  RenderInv'
<1> USE DEF HandoverInv
<1>1. /\ file' = file /\ processed' = processed
      /\ \A v \in Scanners \ {w} : scanner'[v] = scanner[v]
  BY ScannerEffect, ScannerCompletes
<1>2. RenderedFirst'
  BY <1>1, NoImageIsCompleted DEF RenderInv, RenderedFirst, StoredUpTo, At, Stage, JobOf
<1>3. RenditionsComplete'
  BY <1>1, ScannerCompletes DEF RenderInv, RenderedFirst, RenditionsComplete, Committed
<1> QED
  BY <1>2, <1>3 DEF RenderInv

LEMMA ImagerRenders ==
    ASSUME HandoverInv, RenderInv, NEW i \in Imagers, ImagerStep(i), UNCHANGED scanner
    PROVE  RenderInv'
<1> USE DEF HandoverInv, TypeOK
<1>0. /\ imager \in [Imagers -> [pc : ImagerPc, task : ImageTasks \cup {None},
                                 count : 0..DeliveryLimit, next : Renditions]]
      /\ RenditionCount \in Nat \ {0}
  BY RenditionAssumption DEF ImagerTypeOK
<1>1. /\ file' = file
      /\ \A j \in Imagers \ {i} : imager'[j] = imager[j]
  BY ImagerEffect
<1>2. processed \subseteq processed'
  BY DEF ImagerStep, ImagerMove, ReceiveImage, OpenJob, RenderImage, StoreRendition,
         FinishImage, TellComplete, AckImage, AbandonImage, FailImage, EndImager,
         DropImagerChannel, RestartImager, shared, storage
<1>3. ASSUME NEW n \in Renditions, imager'[i].pc \in {"open", "render", "store"}, n < imager'[i].next
      PROVE  <<file[imager'[i].task[1]].digest, n>> \in processed'
  <2>1. CASE \E t \in ImageTasks : ReceiveImage(i, t)
    BY <1>0, <1>3, <2>1 DEF ReceiveImage, Renditions
  <2>2. CASE OpenJob(i) \/ RenderImage(i)
    BY <1>0, <1>2, <1>3, <2>2
    DEF OpenJob, RenderImage, Advance, Stage, RenderInv, RenderedFirst, StoredUpTo, JobOf
  <2>3. CASE StoreRendition(i)
    <3>1. /\ imager[i].pc = "store" /\ imager[i].next \in Renditions /\ Renditions \subseteq Nat
          /\ processed' = processed \cup {<<file[JobOf(i)].digest, imager[i].next>>}
          /\ StoredUpTo(i, imager[i].next)
      BY <1>0, <2>3 DEF StoreRendition, Stage, RenderInv, RenderedFirst, Renditions
    <3>2. imager'[i] = IF imager[i].next = RenditionCount THEN [imager[i] EXCEPT !.pc = "finish"]
                       ELSE [imager[i] EXCEPT !.next = imager[i].next + 1]
      BY <1>0, <2>3 DEF StoreRendition
    <3>3. imager'[i].task = imager[i].task /\ imager'[i].next = imager[i].next + 1
      <4>1. imager[i] \in [pc : ImagerPc, task : ImageTasks \cup {None},
                           count : 0..DeliveryLimit, next : Renditions]
        BY <1>0
      <4>2. imager[i].next # RenditionCount
        <5>1. imager[i].next = RenditionCount => imager'[i].pc = "finish"
          BY <3>2, <4>1
        <5> QED
          BY <1>3, <5>1
      <4> QED
        BY <3>2, <4>1, <4>2
    <3>4. n < imager[i].next \/ n = imager[i].next
      <4>1. n \in Nat /\ imager[i].next \in Nat /\ n < imager[i].next + 1
        BY <1>3, <3>1, <3>3
      <4> QED
        BY <4>1
    <3> QED
      BY <1>1, <3>1, <3>3, <3>4 DEF StoredUpTo, JobOf
  <2>4. CASE imager' = imager
    BY <1>2, <1>3, <2>4 DEF RenderInv, RenderedFirst, StoredUpTo, JobOf
  <2>5. CASE \/ FinishImage(i) \/ TellComplete(i) \/ AbandonImage(i) \/ AckImage(i) \/ EndImager(i)
             \/ RestartImager(i)
    BY <1>0, <1>3, <2>5
    DEF FinishImage, TellComplete, AbandonImage, AckImage, EndImager, RestartImager, Advance,
        ImagerIdle, ImagerDown
  <2> QED
    BY <2>1, <2>2, <2>3, <2>4, <2>5
    DEF ImagerStep, ImagerMove, FailImage, DropImagerChannel
<1>4. ASSUME NEW n \in Renditions, imager'[i].pc = "finish"
      PROVE  <<file[imager'[i].task[1]].digest, n>> \in processed'
  <2>1. CASE StoreRendition(i)
    BY <1>0, <1>4, <2>1
    DEF StoreRendition, Stage, RenderInv, RenderedFirst, StoredUpTo, JobOf, Renditions
  <2>2. CASE imager' = imager
    BY <1>0, <1>2, <1>4, <2>2 DEF RenderInv, RenderedFirst, StoredUpTo, JobOf, Stage, Renditions
  <2>3. CASE \/ OpenJob(i) \/ RenderImage(i) \/ FinishImage(i) \/ TellComplete(i) \/ AbandonImage(i)
             \/ AckImage(i) \/ EndImager(i) \/ RestartImager(i)
             \/ \E t \in ImageTasks : ReceiveImage(i, t)
    BY <1>0, <1>4, <2>3
    DEF OpenJob, RenderImage, FinishImage, TellComplete, AbandonImage, AckImage, EndImager,
        RestartImager, ReceiveImage, Advance, ImagerIdle, ImagerDown
  <2> QED
    BY <2>1, <2>2, <2>3 DEF ImagerStep, ImagerMove, FailImage, DropImagerChannel
<1>5. RenderedFirst'
  <2>1. \A j \in Imagers :
           /\ imager'[j].pc \in {"open", "render", "store"} => StoredUpTo(j, imager[j].next)'
           /\ imager'[j].pc = "finish" => StoredUpTo(j, RenditionCount + 1)'
    BY <1>1, <1>2, <1>3, <1>4 DEF RenderInv, RenderedFirst, StoredUpTo, JobOf, Stage
  <2> QED
    BY <1>1, <2>1 DEF RenderInv, RenderedFirst, At, Stage
<1>6. \A r \in Requests : status'[r] = "completed" \/ bucket'[r] = "processed" =>
         \/ status[r] = "completed" /\ status'[r] = "completed" /\ bucket'[r] = bucket[r]
         \/ bucket[r] = "processed"
         \/ Stage(i, "finish") /\ r = JobOf(i)
  <2> USE DEF SharedTypeOK
  <2>1. CASE FinishImage(i)
    BY <2>1 DEF FinishImage, WriteStatus
  <2>2. CASE OpenJob(i)
    BY <2>2 DEF OpenJob, WriteStatus
  <2> QED
    BY <2>1, <2>2
    DEF ImagerStep, ImagerMove, ReceiveImage, RenderImage, StoreRendition, TellComplete, AckImage,
        AbandonImage, FailImage, EndImager, DropImagerChannel, RestartImager, shared, database
<1>7. RenditionsComplete'
  <2>1. Stage(i, "finish") => \A n \in Renditions : <<file[JobOf(i)].digest, n>> \in processed
    BY <1>0 DEF RenderInv, RenderedFirst, StoredUpTo, Renditions
  <2> QED
    BY <1>1, <1>2, <1>6, <2>1 DEF RenderInv, RenditionsComplete, Committed
<1> QED
  BY <1>5, <1>7 DEF RenderInv

LEMMA InitRender == Init => RenderInv
BY DEF Init, SharedInit, ScannerInit, ImagerInit, ScannerDown, ScannerAt, ImagerDown, RenderInv,
       RenderedFirst, RenditionsComplete, Stage, At, Committed

(* A job is not called processed before its renditions are there. *)
THEOREM RenditionsAreThere == Spec => []RenditionsComplete
<1>1. HandoverInv /\ RenderInv /\ [Next]_vars => RenderInv'
  <2> SUFFICES ASSUME HandoverInv, RenderInv, [Next]_vars PROVE RenderInv'
    OBVIOUS
  <2>1. CASE Next
    BY <2>1, ApiRenders, ScannerRenders, ImagerRenders DEF Next
  <2>2. CASE UNCHANGED vars
    BY <2>2
    DEF vars, shared, database, storage, RenderInv, RenderedFirst, RenditionsComplete, StoredUpTo,
        Stage, At, JobOf, Committed
  <2> QED
    BY <2>1, <2>2
<1>2. RenderInv => RenditionsComplete
  BY DEF RenderInv
<1> QED
  BY InitRender, Handover, <1>1, <1>2, PTL DEF Spec

=============================================================================

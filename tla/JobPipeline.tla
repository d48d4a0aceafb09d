----------------------------- MODULE JobPipeline -----------------------------
(***************************************************************************)
(* The upload pipeline of FiloJ: file API, security scanner and image      *)
(* processor, over the database, the buckets and the queues they share.    *)
(***************************************************************************)
EXTENDS UploadApi, Scanner, ImageProcessor

vars == <<apiVars, scanner, imager, shared>>

Init ==
    /\ SharedInit
    /\ ApiInit
    /\ ScannerInit
    /\ ImagerInit

Next ==
    \/ \E r \in Requests : ApiStep(r) /\ UNCHANGED <<scanner, imager>>
    \/ \E w \in Scanners : ScannerStep(w) /\ UNCHANGED <<apiVars, imager>>
    \/ \E i \in Imagers : ImagerStep(i) /\ UNCHANGED <<apiVars, scanner>>

Spec == Init /\ [][Next]_vars

(* A worker that has a message keeps working on it; the operator starts a  *)
(* worker that is down; and a message that a worker could take again and   *)
(* again is taken, even if idle workers come and go (hence strong).        *)
(* Nothing is assumed of developers, crashes, failures or dropped          *)
(* connections: all of them may happen for ever, or never.                 *)
Fairness ==
    /\ \A w \in Scanners :
          /\ WF_vars(ScannerMove(w) /\ UNCHANGED <<apiVars, imager>>)
          /\ \A r \in Requests : SF_vars(ReceiveScan(w, r) /\ UNCHANGED <<apiVars, imager>>)
          /\ WF_vars(RestartScanner(w) /\ UNCHANGED <<apiVars, imager>>)
    /\ \A i \in Imagers :
          /\ WF_vars(ImagerMove(i) /\ UNCHANGED <<apiVars, scanner>>)
          /\ \A t \in ImageTasks : SF_vars(ReceiveImage(i, t) /\ UNCHANGED <<apiVars, scanner>>)
          /\ WF_vars(RestartImager(i) /\ UNCHANGED <<apiVars, scanner>>)

FairSpec == Spec /\ Fairness

-----------------------------------------------------------------------------
(* Every variable stays in its type: rows, statuses, buckets, objects and  *)
(* messages as the models and the workers declare them.                    *)
TypeOK == SharedTypeOK /\ ApiTypeOK /\ ScannerTypeOK /\ ImagerTypeOK

(* No worker can meet a message whose job is not committed: upload_file    *)
(* publishes after its commit, so the "Job not found" branches, which      *)
(* acknowledge and so lose the task, are never taken.                      *)
TaskHasRow ==
    /\ \A r \in Requests : scanQ[r].state # "none" => Committed(r)
    /\ \A t \in ImageTasks : imageQ[t].state # "none" => Committed(t[1])

(* A committed job stays without a scan task only if its upload was        *)
(* answered with an error: the publish comes after the commit and may      *)
(* fail, and then nothing but the answer tells the developer that no       *)
(* worker will ever see the job.                                           *)
TaskUnlessError ==
    \A r \in Requests :
        Committed(r) /\ scanQ[r].state = "none" => request[r] \in {"publish", "error"}

(* An image task was published, whether or not there was a queue for it. *)
ImageTaskOf(r) == \E n \in 0..DeliveryLimit : imageQ[<<r, n>>].state # "none"

(* The outcome of a job has gone on to the next party *)
PassedOn(r) == notices[r] \cap {"completed", "quarantined"} # {} \/ ImageTaskOf(r)

(* A scan message is acknowledged only after its outcome has gone on:      *)
(* either the developer's webhook was sent completed or quarantined, or an *)
(* image task was published.  No crash, lost connection or redelivery      *)
(* makes an acknowledged job vanish without one of them.  (It may have been *)
(* published to nobody, see AcceptedIsScheduled.)                          *)
AckHandled ==
    \A r \in Requests : scanQ[r].state = "acked" => PassedOn(r)

ScanContract ==
    INSTANCE TaskContract
    WITH Tasks <- Requests,
         task <- Standing(scanQ),
         effect <- {r \in Requests : PassedOn(r)}

(* Seen through the scan queue, the API and the scanners keep the contract *)
(* of a task queue: a job is passed on only for a task that was published, *)
(* and a scan that was acknowledged or given up stays so, although workers *)
(* that lost their delivery go on and answer it later.                     *)
ScanPromise == ScanContract!Promise

(* All contents with this digest carry a signature *)
Tainted(digest) == \A c \in Contents : Digest(c) = digest => c \in Infected

(* Nothing shows the job's file to be clean. *)
Unserved(r) ==
    /\ status[r] \notin {"clean", "processing", "completed"}
    /\ bucket[r] # "processed"
    /\ "completed" \notin notices[r]
    /\ ~ ImageTaskOf(r)
    /\ \A n \in Renditions : <<file[r].digest, n>> \notin processed

(* A file whose digest belongs to contents with a signature only is never  *)
(* reported clean or completed, never handed to the image processor and    *)
(* never leaves a rendition, whatever is redelivered, overtaken or scanned *)
(* twice.  It says nothing of a signature that lies in the first 2048      *)
(* bytes, which the digest leaves out: there a clean file may share it.    *)
TaintedNeverServed ==
    \A r \in Requests : Committed(r) /\ Tainted(file[r].digest) => Unserved(r)

(* The object behind a committed row is never lost between the buckets,    *)
(* and a job labelled or announced as quarantined has its object there:    *)
(* move_to_quarantine copies and checks before it deletes.                 *)
EvidenceKept ==
    \A r \in Requests : Committed(r) =>
        /\ uploads[KeyOf(r)] # None \/ KeyOf(r) \in quarantine
        /\ bucket[r] = "quarantine" \/ status[r] = "quarantined"
              \/ "quarantined" \in notices[r] => KeyOf(r) \in quarantine

(* A file whose row says "processed", or an image whose job is completed,  *)
(* has all its renditions, although a worker may die between any two of    *)
(* them and the scanner writes "completed" for other files.                *)
RenditionsComplete ==
    \A r \in Requests : Committed(r) =>
        (bucket[r] = "processed" \/ (status[r] = "completed" /\ file[r].ext \in ImageExts)
            => \A n \in Renditions : <<file[r].digest, n>> \in processed)

(* The developer was told "failed", and nobody is at work on the job who   *)
(* could say otherwise: no scanner, not with an older delivery either, and *)
(* no image task of an earlier delivery or of the last.                    *)
FailedForGood(r) ==
    /\ "failed" \in notices[r]
    /\ \A w \in Scanners : scanner[w].pc \in ScannerWorking => scanner[w].job # r
    /\ \A t \in ImageTasks : t[1] = r => imageQ[t].state \notin {"ready", "held"}
    /\ \A i \in Imagers : ImagerBusy(i) => JobOf(i) # r

(* From then on the job is left as it is: the failure was announced in the *)
(* last delivery, so no attempt that begins later scans it again, changes  *)
(* its status, publishes an image task or tells the developer anything     *)
(* else.  What was under way when "failed" was sent may still do all that: *)
(* a scanner that lost its delivery, or an image task that was published   *)
(* before the scan failed.                                                 *)
FailedIsFinal ==
    [][\A r \in Requests : FailedForGood(r) =>
          /\ FailedForGood(r)'
          /\ status'[r] = status[r]
          /\ notices'[r] = notices[r]]_vars

(* Each step leaves a scan or image task alone or brings it nearer to its  *)
(* end: each delivery publishes a new image task and none twice, and what  *)
(* was acknowledged or given up never comes back, although workers that    *)
(* lost their delivery go on and other workers have the next.              *)
DeliveriesEnd == [][MovesOn(scanQ, scanQ') /\ MovesOn(imageQ, imageQ')]_vars

(* Every scan task that is queued is eventually acknowledged or given up:  *)
(* the delivery limit keeps a file that always ends its worker from being  *)
(* redelivered for ever.                                                   *)
ScanSettles ==
    \A r \in Requests : IsReady(scanQ, r) ~> scanQ[r].state \in {"acked", "dead"}

(* The same of every image task. *)
ImageSettles ==
    \A t \in ImageTasks : IsReady(imageQ, t) ~> imageQ[t].state \in {"acked", "dead"}

-----------------------------------------------------------------------------
(* Why the invariants above are inductive: what each process knows while   *)
(* it is under way.                                                        *)

(* A handler that runs has its file; it commits the row before it          *)
(* publishes, and no message exists before that.                           *)
RequestKnows ==
    \A r \in Requests :
        /\ request[r] # "unsent" => upload[r] # None
        /\ request[r] \in {"publish", "event", "accepted"} => Committed(r)
        /\ request[r] \in {"unsent", "check", "put", "insert", "publish", "existing"} =>
              scanQ[r].state = "none"
        /\ request[r] \in {"event", "accepted"} => scanQ[r].state # "none"
        /\ request[r] \in {"unsent", "check", "put", "insert", "existing"} => ~ Committed(r)
        /\ Committed(r) => file[r] = RowOf(upload[r])

(* A busy scanner works on a committed job, and has a verdict from the     *)
(* scan on; what it acknowledges has been passed on.                       *)
KnowsJob(w) ==
    /\ scanner[w].job \in Requests
    /\ Committed(scanner[w].job)
    /\ scanner[w].pc \in ScannerWorking \ {"load", "lookup", "stream", "scan"} =>
          scanner[w].verdict \in {"clean", "infected"}
    /\ At(w, "report") => ImageTaskOf(scanner[w].job)
    /\ At(w, "ack") => PassedOn(scanner[w].job)

ScannerKnows == \A w \in Scanners : ScannerBusy(w) => KnowsJob(w)

ImagerKnows ==
    \A i \in Imagers : ImagerBusy(i) =>
        /\ imager[i].task \in ImageTasks
        /\ Committed(JobOf(i))

(* The part of the state that TaskHasRow and AckHandled depend on *)
HandoverInv ==
    /\ TypeOK
    /\ RequestKnows
    /\ TaskHasRow
    /\ ScannerKnows
    /\ ImagerKnows
    /\ AckHandled

(* A busy scanner works on a task that was published. *)
WorkIsQueued == \A w \in Scanners : ScannerBusy(w) => scanQ[scanner[w].job].state # "none"

(* No trace of a tainted digest outside the scanner: an object has the     *)
(* digest of its key, and so has what a scanner spooled from it, so a scan *)
(* of a tainted key cannot say clean.                                      *)
UploadsMatch == \A k \in Keys : uploads[k] # None => Digest(uploads[k]) = k[1]

VerdictSound ==
    \A w \in Scanners : ScannerBusy(w) =>
        /\ At(w, "scan") =>
              /\ scanner[w].spooled \in Contents
              /\ Digest(scanner[w].spooled) = file[scanner[w].job].digest
        /\ scanner[w].verdict = "clean" => ~ Tainted(file[scanner[w].job].digest)
        /\ scanner[w].pc \in {"enqueue", "complete", "report"} => scanner[w].verdict = "clean"

ImagesSound ==
    \A i \in Imagers : ImagerBusy(i) => ~ Tainted(file[JobOf(i)].digest)

RenditionsSound == \A p \in processed : ~ Tainted(p[1])

(* Nobody is told of a job before its row is there. *)
SilentBeforeRow == \A r \in Requests : notices[r] # {} => Committed(r)

TaintInv ==
    /\ UploadsMatch
    /\ VerdictSound
    /\ ImagesSound
    /\ RenditionsSound
    /\ SilentBeforeRow
    /\ TaintedNeverServed

(* The key a scanner is about to delete or has deleted is in quarantine. *)
MovedFirst ==
    \A w \in Scanners : ScannerBusy(w) =>
        /\ scanner[w].pc \in {"delete", "label"} => KeyOf(scanner[w].job) \in quarantine
        /\ At(w, "notify") /\ scanner[w].verdict = "infected" =>
              KeyOf(scanner[w].job) \in quarantine

(* The put came first, and only quarantine takes it away again. *)
StoredFirst ==
    \A r \in Requests : request[r] = "insert" =>
        uploads[UploadKey(upload[r])] # None \/ UploadKey(upload[r]) \in quarantine

EvidenceInv == MovedFirst /\ StoredFirst /\ EvidenceKept

(* An image worker has stored the renditions before the next one it is to  *)
(* store, and all when it finishes; a scanner completes no images.         *)
StoredUpTo(i, n) == \A m \in Renditions : m < n => <<file[JobOf(i)].digest, m>> \in processed

RenderedFirst ==
    /\ \A w \in Scanners : At(w, "complete") => file[scanner[w].job].ext \notin ImageExts
    /\ \A i \in Imagers :
          /\ imager[i].pc \in {"open", "render", "store"} => StoredUpTo(i, imager[i].next)
          /\ Stage(i, "finish") => StoredUpTo(i, RenditionCount + 1)

RenderInv == RenderedFirst /\ RenditionsComplete

(* Two scanners on the same message have different deliveries of it, and a *)
(* delivery that is not held any more has been followed by a count, or was *)
(* the last.                                                               *)
DeliveriesDiffer ==
    \A w, v \in Scanners :
        ScannerBusy(w) /\ ScannerBusy(v) /\ w # v /\ scanner[w].job = scanner[v].job =>
            scanner[w].count # scanner[v].count

HeldOrPast ==
    \A w \in Scanners : ScannerBusy(w) =>
        \/ ScannerHolds(w)
        \/ scanQ[scanner[w].job].state = "dead"
        \/ scanner[w].count < scanQ[scanner[w].job].count

FreeHasNone == \A w \in Scanners : ~ ScannerBusy(w) => scanner[w].job = None

(* "failed" is sent only in the last delivery of the scan: the message is  *)
(* dead, or the worker that sent it still has it and is on its way out.    *)
FailedInLastDelivery ==
    \A r \in Requests : "failed" \in notices[r] =>
        \/ scanQ[r].state = "dead"
        \/ \E w \in Scanners : /\ scanner[w].job = r
                               /\ At(w, "exit")
                               /\ ScannerHolds(w)
                               /\ scanner[w].count = DeliveryLimit

FailureInv == DeliveriesDiffer /\ HeldOrPast /\ FreeHasNone /\ FailedInLastDelivery

(* An image task exists only of a delivery that has begun, and only when   *)
(* that delivery is through with publishing it.                            *)
ImagesFollow ==
    \A t \in ImageTasks : imageQ[t].state # "none" => InDelivery(t[2]) <= Rank(scanQ[t[1]])

BeforeEnqueue == {"load", "lookup", "stream", "scan", "record", "enqueue"}

UntilEnqueued ==
    \A w \in Scanners : scanner[w].pc \in BeforeEnqueue =>
        imageQ[<<scanner[w].job, scanner[w].count>>].state = "none"

ImageInv == ImagesFollow /\ UntilEnqueued

-----------------------------------------------------------------------------
(* What the repository says of itself and the pipeline does not keep       *)

(* scan_file looks a file up with scalar_one_or_none: there is at most one *)
(* row for a storage location.                                             *)
OneRowPerKey == \A r \in Requests : Committed(r) => OnlyRow(r)

(* upload_file's "File uploaded and scheduled for processing": the scan    *)
(* task of an upload that was answered so reached a queue.                 *)
AcceptedIsScheduled ==
    \A r \in Requests : request[r] = "accepted" => scanQ[r].state # "unrouted"

(* README, "computes a SHA-256 hash for deduplication": an upload that is  *)
(* answered "File already exists" has the content of a stored file of the  *)
(* same developer.                                                         *)
DuplicateMeansSame ==
    \A r \in Requests : request[r] = "existing" =>
        \E q \in Requests \ {r} :
            /\ Committed(q)
            /\ upload[q].dev = upload[r].dev
            /\ upload[q].content = upload[r].content

=============================================================================

------------------------------- MODULE Scanner -------------------------------
(***************************************************************************)
(* The security scanner: scan_file, run by each worker process for one     *)
(* message at a time (prefetch 1).  The pc of a worker is the next effect  *)
(* that other processes can see; every await between two effects may raise *)
(* and the process may die there.  A worker that ends stays down until an  *)
(* operator starts it again.                                               *)
(*                                                                         *)
(* Audit events are not kept: publishing one is only a place to fail.      *)
(***************************************************************************)
EXTENDS PipelineState

CONSTANTS
    Scanners,
    ScanAttempts   \* stop_after_attempt of ClamAVClient.scan

ASSUME AttemptsAssumption == ScanAttempts \in Nat \ {0}

VARIABLE scanner   \* worker -> [pc, job, count, spooled, tries, verdict]

ScannerWorking == {"load", "lookup", "stream", "scan", "record", "copy", "delete", "label",
                   "enqueue", "complete", "notify", "report"}
ScannerEnding == {"raise", "exit", "reject"}
ScannerPc == {"down", "idle", "ack"} \cup ScannerWorking \cup ScannerEnding
Verdicts == {"none", "clean", "infected", "unanswered"}

(* A worker that has nothing spooled and no verdict *)
ScannerAt(pc, job, count) ==
    [pc |-> pc, job |-> job, count |-> count, spooled |-> None, tries |-> 0, verdict |-> "none"]
ScannerDown == ScannerAt("down", None, 0)
ScannerIdle == ScannerAt("idle", None, 0)

ScannerInit == scanner = [w \in Scanners |-> ScannerDown]

ScannerTypeOK ==
    scanner \in [Scanners -> [pc : ScannerPc, job : Requests \cup {None},
                              count : 0..DeliveryLimit, spooled : Contents \cup {None},
                              tries : 0..(ScanAttempts - 1), verdict : Verdicts]]

ScannerBusy(w) == scanner[w].pc \notin {"down", "idle"}
ScannerHolds(w) == scanner[w].job # None /\ HeldAt(scanQ, scanner[w].job, scanner[w].count)

At(w, pc) == scanner[w].pc = pc
Proceed(w, pc) == scanner' = [scanner EXCEPT ![w].pc = pc]

(* On to another pc without the spooled file *)
Leave(w, pc, verdict) ==
    scanner' = [scanner EXCEPT ![w] =
        [ScannerAt(pc, scanner[w].job, scanner[w].count) EXCEPT !.verdict = verdict]]

(* What the broker does with the worker's delivery when its channel closes *)
ReturnScan(w) ==
    scanQ' = IF ScannerHolds(w) THEN Return(scanQ, scanner[w].job) ELSE scanQ

ReceiveScan(w, r) ==
    /\ At(w, "idle")
    /\ IsReady(scanQ, r)
    /\ scanQ' = Deliver(scanQ, r)
    /\ scanner' = [scanner EXCEPT ![w] = ScannerAt("load", r, scanQ[r].count)]
    /\ UNCHANGED <<database, storage, imageQ, notices, declared>>

(* A job that is not found is logged and its message acknowledged. *)
LoadJob(w) ==
    /\ At(w, "load")
    /\ IF Committed(scanner[w].job)
       THEN WriteStatus(scanner[w].job, "scanning") /\ Proceed(w, "lookup")
       ELSE UNCHANGED <<file, status, latest>> /\ Proceed(w, "ack")
    /\ UNCHANGED <<bucket, storage, queues>>

(* scalar_one_or_none: two rows with this storage_location raise *)
OnlyRow(r) == \A q \in Requests : Committed(q) /\ KeyOf(q) = KeyOf(r) => q = r

LookupFile(w) ==
    /\ At(w, "lookup")
    /\ OnlyRow(scanner[w].job)
    /\ Proceed(w, "stream")
    /\ UNCHANGED shared

(* The file is spooled first; the object may change or go while it is      *)
(* scanned.                                                                *)
StreamFile(w) ==
    LET content == uploads[KeyOf(scanner[w].job)] IN
    /\ At(w, "stream")
    /\ content # None
    /\ scanner' = [scanner EXCEPT ![w] = [scanner[w] EXCEPT !.pc = "scan", !.spooled = content]]
    /\ UNCHANGED shared

(* A slip in Sent: without the seek an attempt sends what the one before   *)
(* has left, which is nothing.                                             *)
SentOnce(w) == IF scanner[w].tries = 0 THEN scanner[w].spooled ELSE None

(* What an attempt of ClamAVClient.scan sends: it seeks to 0 first.        *)
Sent(w) == scanner[w].spooled

(* A slip in ScanVerdict: only FOUND counts as infected, an ERROR as clean. *)
ErrorIsClean(c) == IF c \in Infected THEN {"infected", "clean"} ELSE {"clean"}

(* OK only for a content without a signature; FOUND only for one with it;  *)
(* ERROR for any.  Whatever is not OK counts as infected.                  *)
ScanVerdict(c) == (IF c \in Infected THEN {} ELSE {"clean"}) \cup {"infected"}

ScanStream(w) ==
    /\ At(w, "scan")
    /\ \E v \in ScanVerdict(Sent(w)) : Leave(w, "record", v)
    /\ UNCHANGED shared

(* clamd's ConnectionError: wait and try again *)
RetryScan(w) ==
    /\ At(w, "scan")
    /\ scanner[w].tries + 1 < ScanAttempts
    /\ scanner' = [scanner EXCEPT ![w].tries = scanner[w].tries + 1]
    /\ UNCHANGED shared

AfterVerdict(r, v) ==
    IF v = "infected" THEN "copy"
    ELSE IF file[r].ext \in ImageExts THEN "enqueue" ELSE "complete"

RecordVerdict(w) ==
    /\ At(w, "record")
    /\ WriteStatus(scanner[w].job, scanner[w].verdict)
    /\ Proceed(w, AfterVerdict(scanner[w].job, scanner[w].verdict))
    /\ UNCHANGED <<bucket, storage, queues>>

(* A slip in CopyToQuarantine: an error of the copy goes unnoticed. *)
CopyUnchecked(w) ==
    /\ At(w, "copy")
    /\ quarantine' \in {quarantine, quarantine \cup {KeyOf(scanner[w].job)}}
    /\ Proceed(w, "delete")
    /\ UNCHANGED <<database, uploads, processed, queues>>

(* copy_object and the head_object that checks it *)
CopyToQuarantine(w) ==
    LET key == KeyOf(scanner[w].job) IN
    /\ At(w, "copy")
    /\ uploads[key] # None
    /\ quarantine' = quarantine \cup {key}
    /\ Proceed(w, "delete")
    /\ UNCHANGED <<database, uploads, processed, queues>>

DeleteUpload(w) ==
    /\ At(w, "delete")
    /\ uploads' = [uploads EXCEPT ![KeyOf(scanner[w].job)] = None]
    /\ Proceed(w, "label")
    /\ UNCHANGED <<database, quarantine, processed, queues>>

LabelQuarantined(w) ==
    /\ At(w, "label")
    /\ bucket' = [bucket EXCEPT ![scanner[w].job] = "quarantine"]
    /\ WriteStatus(scanner[w].job, "quarantined")
    /\ Proceed(w, "notify")
    /\ UNCHANGED <<storage, queues>>

EnqueueImage(w) ==
    /\ At(w, "enqueue")
    /\ imageQ' = Send(imageQ, <<scanner[w].job, scanner[w].count>>, "image" \in declared)
    /\ Proceed(w, "report")
    /\ UNCHANGED <<database, storage, scanQ, notices, declared>>

CompleteJob(w) ==
    /\ At(w, "complete")
    /\ WriteStatus(scanner[w].job, "completed")
    /\ Proceed(w, "notify")
    /\ UNCHANGED <<bucket, storage, queues>>

NoticeOf(v) == IF v = "infected" THEN "quarantined" ELSE "completed"

DispatchNotice(w) ==
    /\ At(w, "notify")
    /\ notices' = [notices EXCEPT ![scanner[w].job] = @ \cup {NoticeOf(scanner[w].verdict)}]
    /\ Proceed(w, "ack")
    /\ UNCHANGED <<database, storage, scanQ, imageQ, declared>>

(* the audit event after the image task *)
ReportQueued(w) ==
    /\ At(w, "report")
    /\ Proceed(w, "ack")
    /\ UNCHANGED shared

(* A slip in AckScan: the acknowledgement of a lost delivery counts. *)
AckAnyway(w) ==
    /\ At(w, "ack")
    /\ scanQ' = Ack(scanQ, scanner[w].job)
    /\ scanner' = [scanner EXCEPT ![w] = ScannerIdle]
    /\ UNCHANGED <<database, storage, imageQ, notices, declared>>

(* Acknowledging on a channel that was closed raises and ends the worker. *)
AckScan(w) ==
    /\ At(w, "ack")
    /\ scanQ' = IF ScannerHolds(w) THEN Ack(scanQ, scanner[w].job) ELSE scanQ
    /\ scanner' = [scanner EXCEPT ![w] = IF ScannerHolds(w) THEN ScannerIdle ELSE ScannerDown]
    /\ UNCHANGED <<database, storage, imageQ, notices, declared>>

-----------------------------------------------------------------------------
(* Failures *)

(* job_transaction records the failure if it can still read and write the job. *)
RecordFailure(r, s) ==
    IF Committed(r)
    THEN WriteStatus(r, s) \/ UNCHANGED <<file, status, latest>>
    ELSE UNCHANGED <<file, status, latest>>

(* A slip in FailScan: the failure is recorded but not raised again. *)
FailSwallowed(w) ==
    /\ scanner[w].pc \in ScannerWorking
    /\ RecordFailure(scanner[w].job, "failed")
    /\ Leave(w, "ack", scanner[w].verdict)
    /\ UNCHANGED <<bucket, storage, queues>>

FailScan(w) ==
    /\ scanner[w].pc \in ScannerWorking
    /\ RecordFailure(scanner[w].job, "failed")
    /\ Leave(w, "raise", scanner[w].verdict)
    /\ UNCHANGED <<bucket, storage, queues>>

(* clamd closes the connection without an answer: scan_res is None.        *)
ScanUnanswered(w) ==
    /\ At(w, "scan")
    /\ RecordFailure(scanner[w].job, "failed")
    /\ Leave(w, "raise", "unanswered")
    /\ UNCHANGED <<bucket, storage, queues>>

(* The broker has the notice, but its confirmation does not arrive.        *)
NoticeUnconfirmed(w) ==
    /\ At(w, "notify")
    /\ notices' = [notices EXCEPT ![scanner[w].job] = @ \cup {NoticeOf(scanner[w].verdict)}]
    /\ RecordFailure(scanner[w].job, "failed")
    /\ Leave(w, "raise", scanner[w].verdict)
    /\ UNCHANGED <<bucket, storage, scanQ, imageQ, declared>>

(* The ConnectionError of the last attempt.  It is clamd's: those of S3,   *)
(* the database and the broker are exceptions like any other.              *)
LoseConnection(w) ==
    /\ At(w, "scan")
    /\ scanner[w].tries + 1 = ScanAttempts
    /\ RecordFailure(scanner[w].job, "queued_for_retry")
    /\ Leave(w, "exit", "none")
    /\ UNCHANGED <<bucket, storage, queues>>

(* clamd's BufferTooLongError *)
ScanTooLong(w) ==
    /\ At(w, "scan")
    /\ RecordFailure(scanner[w].job, "failed")
    /\ Leave(w, "reject", "none")
    /\ UNCHANGED <<bucket, storage, queues>>

(* A slip in DispatchFailed: the delivery before the last counts as last. *)
DispatchFailedEarly(w) ==
    /\ At(w, "raise")
    /\ scanner[w].count + 1 >= MaxDeliveryCount
    /\ scanner[w].verdict # "none"
    /\ notices' = [notices EXCEPT ![scanner[w].job] = @ \cup {"failed"}]
    /\ Proceed(w, "exit")
    /\ UNCHANGED <<database, storage, scanQ, imageQ, declared>>

(* The last delivery tells the developer, but only after a scan result:    *)
(* before one the handler itself raises.                                   *)
DispatchFailed(w) ==
    /\ At(w, "raise")
    /\ scanner[w].count >= MaxDeliveryCount
    /\ scanner[w].verdict # "none"
    /\ notices' = [notices EXCEPT ![scanner[w].job] = @ \cup {"failed"}]
    /\ Proceed(w, "exit")
    /\ UNCHANGED <<database, storage, scanQ, imageQ, declared>>

(* nack(requeue=False); leaving process() then acknowledges a second time, *)
(* which raises and ends the worker.                                       *)
RejectTooLong(w) ==
    /\ At(w, "reject")
    /\ scanQ' = IF ScannerHolds(w) THEN Discard(scanQ, scanner[w].job) ELSE scanQ
    /\ scanner' = [scanner EXCEPT ![w] = ScannerDown]
    /\ UNCHANGED <<database, storage, imageQ, notices, declared>>

(* An exception leaves process(), which requeues the message, and then     *)
(* scan_worker's loop; SystemExit goes the same way.                       *)
EndScanner(w) ==
    /\ scanner[w].pc \in ScannerEnding
    /\ ReturnScan(w)
    /\ scanner' = [scanner EXCEPT ![w] = ScannerDown]
    /\ UNCHANGED <<database, storage, imageQ, notices, declared>>

(* The process is killed. *)
CrashScanner(w) ==
    /\ scanner[w].pc # "down"
    /\ ReturnScan(w)
    /\ scanner' = [scanner EXCEPT ![w] = ScannerDown]
    /\ UNCHANGED <<database, storage, imageQ, notices, declared>>

(* The broker connection drops under a busy worker, which does not notice. *)
DropScannerChannel(w) ==
    /\ ScannerBusy(w)
    /\ ScannerHolds(w)
    /\ ReturnScan(w)
    /\ UNCHANGED <<scanner, database, storage, imageQ, notices, declared>>

(* scan_worker connects to the broker and to clamd and declares the queue. *)
(* If clamd does not answer in five attempts the worker ends again.        *)
RestartScanner(w) ==
    /\ At(w, "down")
    /\ scanner' = [scanner EXCEPT ![w] = ScannerIdle]
    /\ declared' = declared \cup {"scan"}
    /\ UNCHANGED <<database, storage, scanQ, imageQ, notices>>

-----------------------------------------------------------------------------
(* What a running worker does with the message it works on *)
ScannerMove(w) ==
    \/ LoadJob(w)
    \/ LookupFile(w)
    \/ StreamFile(w)
    \/ ScanStream(w)
    \/ RetryScan(w)
    \/ RecordVerdict(w)
    \/ CopyToQuarantine(w)
    \/ DeleteUpload(w)
    \/ LabelQuarantined(w)
    \/ EnqueueImage(w)
    \/ CompleteJob(w)
    \/ DispatchNotice(w)
    \/ ReportQueued(w)
    \/ AckScan(w)
    \/ FailScan(w)
    \/ ScanUnanswered(w)
    \/ NoticeUnconfirmed(w)
    \/ LoseConnection(w)
    \/ ScanTooLong(w)
    \/ DispatchFailed(w)
    \/ RejectTooLong(w)
    \/ EndScanner(w)

ScannerStep(w) ==
    \/ \E r \in Requests : ReceiveScan(w, r)
    \/ ScannerMove(w)
    \/ CrashScanner(w)
    \/ DropScannerChannel(w)
    \/ RestartScanner(w)

=============================================================================

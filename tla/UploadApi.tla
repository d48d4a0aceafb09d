------------------------------ MODULE UploadApi ------------------------------
(***************************************************************************)
(* POST /file/upload of the file API: one pc-labelled request handler per  *)
(* request.  The handler awaits between the duplicate check, the S3 put,   *)
(* the insert and the publish, so any two requests interleave there.       *)
(***************************************************************************)
EXTENDS PipelineState

CONSTANT Uploads     \* the files that pass validation in this instance

ASSUME UploadsAssumption == Uploads \subseteq Files

VARIABLES
    request,   \* request -> where its handler is, or what it answered
    upload     \* request -> the file it carries

apiVars == <<request, upload>>

Answers == {"existing", "accepted", "error"}
Handling == {"check", "put", "insert", "publish", "event"}

ApiInit ==
    /\ request = [r \in Requests |-> "unsent"]
    /\ upload = [r \in Requests |-> None]

ApiTypeOK ==
    /\ request \in [Requests -> {"unsent"} \cup Handling \cup Answers]
    /\ upload \in [Requests -> Files \cup {None}]

Goto(r, pc) == request' = [request EXCEPT ![r] = pc]

RowOf(f) == [dev |-> f.dev, digest |-> Digest(f.content), ext |-> f.ext]
UploadKey(f) == <<Digest(f.content), f.ext>>

ReceiveUpload(r) ==
    /\ request[r] = "unsent"
    /\ \E f \in Uploads : upload' = [upload EXCEPT ![r] = f]
    /\ Goto(r, "check")
    /\ UNCHANGED shared

(* The developer's newest job for this digest is still worth answering with *)
HasActiveJob(f) ==
    LET newest == latest[<<f.dev, Digest(f.content)>>]
    IN  newest # None /\ status[newest] \in ActiveStatuses

CheckDuplicate(r) ==
    /\ request[r] = "check"
    /\ Goto(r, IF HasActiveJob(upload[r]) THEN "existing" ELSE "put")
    /\ UNCHANGED <<upload, shared>>

PutObject(r) ==
    /\ request[r] = "put"
    /\ uploads' = [uploads EXCEPT ![UploadKey(upload[r])] = upload[r].content]
    /\ Goto(r, "insert")
    /\ UNCHANGED <<upload, database, quarantine, processed, queues>>

(* A slip in InsertRows: the commit is missing. *)
InsertUncommitted(r) ==
    /\ request[r] = "insert"
    /\ Goto(r, "publish")
    /\ UNCHANGED <<upload, shared>>

(* One commit for the FileMetaData row and its Job *)
InsertRows(r) ==
    /\ request[r] = "insert"
    /\ file' = [file EXCEPT ![r] = RowOf(upload[r])]
    /\ status' = [status EXCEPT ![r] = "pending"]
    /\ bucket' = [bucket EXCEPT ![r] = "uploads"]
    /\ Touch(r, <<upload[r].dev, Digest(upload[r].content)>>)
    /\ Goto(r, "publish")
    /\ UNCHANGED <<upload, storage, queues>>

(* A slip in PublishScanTask: an error of the broker goes unnoticed. *)
PublishUnchecked(r) ==
    /\ request[r] = "publish"
    /\ scanQ' \in {scanQ, Send(scanQ, r, "scan" \in declared)}
    /\ Goto(r, "event")
    /\ UNCHANGED <<upload, database, storage, imageQ, notices, declared>>

PublishScanTask(r) ==
    /\ request[r] = "publish"
    /\ scanQ' = Send(scanQ, r, "scan" \in declared)
    /\ Goto(r, "event")
    /\ UNCHANGED <<upload, database, storage, imageQ, notices, declared>>

(* The audit event, then the answer *)
AnswerAccepted(r) ==
    /\ request[r] = "event"
    /\ Goto(r, "accepted")
    /\ UNCHANGED <<upload, shared>>

(* An await of the handler raises, or the process dies: a 500 or no answer. *)
(* The rollback undoes nothing that was committed.                          *)
FailUpload(r) ==
    /\ request[r] \in Handling
    /\ Goto(r, "error")
    /\ UNCHANGED <<upload, shared>>

ApiStep(r) ==
    \/ ReceiveUpload(r)
    \/ CheckDuplicate(r)
    \/ PutObject(r)
    \/ InsertRows(r)
    \/ PublishScanTask(r)
    \/ AnswerAccepted(r)
    \/ FailUpload(r)

=============================================================================

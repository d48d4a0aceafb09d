---------------------------- MODULE PipelineState ----------------------------
(***************************************************************************)
(* What the file API, the security scanner and the image processor share:  *)
(* the database rows, the three S3 buckets, the two work queues and the    *)
(* webhook notices handed to the dispatcher.                               *)
(*                                                                         *)
(* One upload request creates at most one FileMetaData row and one Job, so *)
(* a request, its job and its scan message have the same identity.         *)
(***************************************************************************)
EXTENDS WorkQueue

CONSTANTS
    Requests,          \* upload requests, and the jobs they create
    Developers,        \* authenticated developers
    Heads,             \* first 2048 bytes of a file
    Tails,             \* the bytes after them
    Exts,              \* allowed file extensions
    ImageExts,         \* the extensions that ALLOWED_FILES calls "image"
    Infected,          \* the contents ClamAV has a signature for
    RenditionCount,    \* 3 thumbnail sizes in 2 formats, numbered in order
    MaxDeliveryCount,  \* MAX_DELIVERY_COUNT of the scanner
    None               \* no request, no object, no row

Contents == Heads \X Tails

(* validate_mime has read the first 2048 bytes and does not seek back when *)
(* upload_file starts to hash: the digest is that of the rest.             *)
Digest(c) == c[2]
Keys == Tails \X Exts
Owners == Developers \X Tails
Files == [dev : Developers, content : Contents, ext : Exts]
Rows == [dev : Developers, digest : Tails, ext : Exts]
ImageTasks == Requests \X (0..DeliveryLimit)
Renditions == 1..RenditionCount

ASSUME ImageExtsAssumption == ImageExts \subseteq Exts
ASSUME InfectedAssumption == Infected \subseteq Contents
ASSUME RenditionAssumption == RenditionCount \in Nat \ {0}
ASSUME MaxDeliveryAssumption == MaxDeliveryCount \in Nat /\ MaxDeliveryCount >= DeliveryLimit
ASSUME NoneAssumption == None \notin Requests \cup Contents \cup Files \cup Rows \cup ImageTasks

VARIABLES
    file,        \* request -> its FileMetaData row
    status,      \* request -> Job.status, "absent" before the row exists
    bucket,      \* request -> FileMetaData.bucket
    latest,      \* (developer, digest) -> the job with the newest updated_at
    uploads,     \* key -> the content stored in the uploads bucket
    quarantine,  \* keys present in the quarantine bucket
    processed,   \* (digest, rendition) present in the processed bucket
    scanQ,       \* the scanner-queue, by request
    imageQ,      \* the image_processor queue, by (request, scan delivery)
    notices,     \* request -> webhook events published for its file
    declared     \* the work queues that a worker has declared so far

database == <<file, status, bucket, latest>>
storage == <<uploads, quarantine, processed>>
queues == <<scanQ, imageQ, notices, declared>>
shared == <<database, storage, queues>>

ActiveStatuses == {"pending", "scanning", "clean", "processing", "completed"}
Statuses == ActiveStatuses \cup
    {"absent", "infected", "quarantined", "failed", "queued_for_retry"}
Buckets == {"uploads", "quarantine", "processed"}
Notices == {"completed", "quarantined", "failed"}
WorkQueues == {"scan", "image"}

SharedInit ==
    /\ file = [r \in Requests |-> None]
    /\ status = [r \in Requests |-> "absent"]
    /\ bucket = [r \in Requests |-> "uploads"]
    /\ latest = [o \in Owners |-> None]
    /\ uploads = [k \in Keys |-> None]
    /\ quarantine = {}
    /\ processed = {}
    /\ scanQ = [r \in Requests |-> NoMessage]
    /\ imageQ = [t \in ImageTasks |-> NoMessage]
    /\ notices = [r \in Requests |-> {}]
    /\ declared = {}

SharedTypeOK ==
    /\ file \in [Requests -> Rows \cup {None}]
    /\ status \in [Requests -> Statuses]
    /\ bucket \in [Requests -> Buckets]
    /\ latest \in [Owners -> Requests \cup {None}]
    /\ uploads \in [Keys -> Contents \cup {None}]
    /\ quarantine \subseteq Keys
    /\ processed \subseteq Tails \X Renditions
    /\ scanQ \in [Requests -> Message]
    /\ imageQ \in [ImageTasks -> Message]
    /\ notices \in [Requests -> SUBSET Notices]
    /\ declared \subseteq WorkQueues

Committed(r) == file[r] # None
KeyOf(r) == <<file[r].digest, file[r].ext>>
OwnerOf(r) == <<file[r].dev, file[r].digest>>

(* updated_at is the time the transaction began, not of its commit: one    *)
(* that was open for long (that of a scan, or of an upload since its       *)
(* duplicate check) need not make its job the newest, if there is another. *)
Touch(r, owner) ==
    \/ latest' = [latest EXCEPT ![owner] = r]
    \/ latest[owner] \notin {None, r} /\ UNCHANGED latest

(* One committed UPDATE of a job *)
WriteStatus(r, s) ==
    /\ status' = [status EXCEPT ![r] = s]
    /\ Touch(r, OwnerOf(r))
    /\ UNCHANGED file

=============================================================================

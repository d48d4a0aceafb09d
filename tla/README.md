# FiloJ in TLA+

A specification of FiloJ, the event-driven file-upload system of this
repository: the upload pipeline (file API, security scanner, image processor),
the webhook dispatcher, the broker client and the audit logger, the gateway's
handling of API keys and the auth service's account handlers.  TLC checks the
models on small instances; TLAPS proves every safety property of the passing
runs for all constants.

Run everything from this directory, for example

    tlc -workers 2 -config pipeline_uploads.cfg MCJobPipeline.tla
    tlapm JobPipelineProofs.tla

`PROJECT.json` lists the components, the runs, a mutant for every checked
property (a small, plausible error in the code under which TLC finds the
property violated), the source lines behind every definition, the hazards of
the code and the theorems.

## 1. The system

| Component | State it keeps | Operations | Module |
|---|---|---|---|
| File API (`api/`) | rows `FileMetaData`, `Job`; objects in the uploads bucket | `upload_file` | `UploadApi` |
| Security scanner (`security_scanner/`) | job status, bucket label, objects in quarantine | `scan_file` and the loop `scan_worker` | `Scanner` |
| Image processor (`image_processor/`) | job status, renditions in the processed bucket | `process_image` and its loop | `ImageProcessor` |
| RabbitMQ, as `shared/broker.py` sets it up | queues, delivery counts | declare and bind, publish, ack, nack, redeliver, dead-letter | `WorkQueue` |
| Broker client (`shared/broker.py`) | a robust connection; a dictionary of exchanges | `connect`, `setup_exchanges`, `_on_reconnect`, `publish`, `close` | `BrokerClient`, `AuditTrail` |
| Database and buckets (`shared/models.py`, `shared/storage.py`) | the rows and objects above | commit, put, copy, delete | `PipelineState` |
| Webhook dispatcher (`dispatcher/`) | its queue; the attempt in the payload | `process_webhook`, retries, dead letters | `WebhookDispatcher` |
| Webhook configuration | `developers.webhook_url/secret`; a Redis hash with a TTL of 600 s | set, delete, look up, cache | `WebhookConfig` |
| Audit logger (`logger_service/`) | `audit_logs` rows; in memory a batch, and the iterator's buffer of deliveries not yet read | `audit_logger`, `process_batch` | `AuditLogger` |
| Gateway (`gateway/`) | key metadata in Redis (TTL 300 s), usage counters per hour (TTL 3700 s) | `FileServiceHandler.get_context`, `proxy_request` | `ApiKeyCache`, `ApiKeyGate` |
| Auth service (`auth_service/`) | `developers`, `refresh_tokens`, `api_keys` | register, login, refresh, logout, create key, gRPC look-ups | `AccountApi`; look-ups in `ApiKeyGate`, `WebhookDispatcher` |
| Generated gRPC code, migrations, configuration, logging | none of its own | | not modelled |

**How they interact.**  A developer's request enters through the gateway, which
checks the API key against Redis (on a miss: against the auth service over
gRPC) and forwards it to the file API.  The API stores the object, commits the
rows and publishes a scan task.  The scanner streams the object through ClamAV
and then either moves it to quarantine, or completes the job, or publishes an
image task; the image processor stores the renditions and completes the job.
The scanner publishes webhook notices, which the dispatcher posts to the
developer's endpoint, and all three publish audit events, which the logger
stores in batches.  There are no locks between processes: everything shared is
in the database, in a bucket, in a queue or in Redis, and is read and written
in separate calls.

**What is hard about it.**

* Every message is delivered at least once.  A worker whose channel dropped
  does not notice; it goes on writing, moving and publishing while another
  works on the same message.  Handlers have no claim, version or idempotence
  key, so a redelivery runs the whole handler over the half-done state.
* Every `await` between two effects may raise, and the process may die there.
  Most exceptions end the worker process, and nothing restarts it but an
  operator.
* The delivery limit is the queue's; the retry limit of the dispatcher is in
  the payload; the scanner compares the queue's count with a constant of its
  own to send the "failed" notice in the last delivery.
* Database sessions do not lock what they read: duplicate checks, token checks
  and name checks are separate from the write they guard.
* A queue exists only once its consumer has started.  What is published before
  is dropped by the broker, and `publish` does not raise.
* `publish` looks its exchange up in a dictionary that `_on_reconnect` empties
  and fills again while the process goes on publishing.
* Both Redis caches are written with `HSET` and then `EXPIRE`, from a look-up
  made before, and are never invalidated.

**What makes each part correct** is stated by the properties of section 4; the
hazards that each of them is for are in `PROJECT.json`.

## 2. The modules

    WorkQueue ── PipelineState ─┬─ UploadApi ──────┐
        │                       ├─ Scanner ────────┼─ JobPipeline ── MCJobPipeline
        │                       └─ ImageProcessor ─┘     ·   └─ JobPipelineProofs ─┬─ ServingProofs
        │                                                ·                         └─ PromiseProofs
        │                                           TaskContract ── RetryContract
        │                                                ·                ·
        ├─ AuditLogger ───────── AuditTrail (with BrokerClient)           ·
        │                             ├─ MCAuditTrail                     ·
        │                             └─ AuditProofs                      ·
        ├─ WebhookDispatcher (with WebhookConfig) · · · · · · · · · · · · ·
        │                             ├─ MCWebhookDispatcher
        │                             └─ WebhookProofs
        └─ QueueProofs
    ApiKeyCache ── ApiKeyGate ─┬─ MCApiKeyGate
                               └─ GateProofs
    AccountApi ─┬─ MCAccountApi
                └─ AccountProofs

A line is EXTENDS; the dots are the instances of `TaskContract` that
`JobPipeline` and `AuditLogger` are shown to implement, and of `RetryContract`
that `WebhookDispatcher` is.  `QueueProofs` has the lemmas about `WorkQueue`'s
operators; the proofs about a queue extend it too (`JobPipelineProofs` and with
it `ServingProofs` and `PromiseProofs`, `AuditProofs`, `WebhookProofs`).
`GateProofs` and `AccountProofs` have no queue and stand on the library alone.

Conventions.  A process is a record with a `pc` that names its next effect
visible to others; one action is the code from one such effect to the next.
What lies between two effects may raise, which is the `Fail...` action of that
`pc`.  Operators that no action uses, each with a comment that begins
"A slip in", are the errors of the mutants; they take no part in any run.

**`WorkQueue`** is a RabbitMQ quorum queue as a value: a function from message
identities to a state and a count.  `get_configured_queue` gives every queue an
`x-delivery-limit` and a dead-letter exchange without a queue, so a message
over the limit is gone.  `Send` is a publish that depends on whether the
consumer has declared and bound the queue: if not, the message is `unrouted`.
`HeldAt(q, m, n)` tells whether delivery `n` is still
the one the broker waits for: a worker with an old delivery works on, but its
ack raises.  The order of ready messages is open.

**`PipelineState`** holds what the pipeline shares.  An upload request, its row,
its job and its scan message have one identity.  `Digest` drops the first 2048
bytes of a content, as the code does (`validate_mime` reads them and does not
seek back).  `WriteStatus` is one committed update of a job, a blind write;
`latest` is the job with the newest `updated_at`.  That is the time at which the
transaction began (`Touch`): a long one need not make its job the newest, be it
a scan's update or an upload's insert, whose transaction began with the
duplicate check.
`declared` is the set of work queues whose worker has started once.

**`UploadApi`, `Scanner`, `ImageProcessor`** have one action per await with an
effect: check, put, commit, publish; load, look up, scan, record, copy, delete,
label, enqueue, complete, notify, acknowledge; open, render, store, finish,
tell, acknowledge.  The scanner's scan is as many attempts as `ClamAVClient.scan`
makes: each rewinds the spooled file and sends it (`Sent`), may end without an
answer (`ScanUnanswered`), and only the last one's `ConnectionError` reaches the
handler (`LoseConnection`), which answers it with "queued_for_retry" and an
exit.  A `ConnectionError` here is clamd's; those of S3, the database and the
broker are raised as other types and take the general branch (`FailScan`).  A
notice can be at the broker although its confirmation never came
(`NoticeUnconfirmed`).  The other failure actions are the branches of
`job_transaction` and of the handlers: recorded and raised,
`BufferTooLongError` with a reject, a swallowed `MemoryError`, a kill, and a
dropped channel.  `JobPipeline` composes the three and states the properties.

**`TaskContract`** is what a work queue and its consumers promise: a task is
finished only after its effect took place, what is finished or lost is never
taken up again, an effect is never undone and belongs to a submitted task.  It
has no queue, count, worker or batch.  `JobPipeline` implements it with the
scan queue as the tasks and "a notice was sent or an image task was published"
as the effect (`ScanPromise`); `AuditLogger` with the audit events and "a row
is committed" (`AuditPromise`).  The image tasks do not implement it, and no
property says so: an image task that runs out of memory is acknowledged without
an effect (`AbandonImage`).

**`RetryContract`** is the same for a queue whose consumers may also hand a task
on (`HandOn`): they submit a task that did not exist before, and this is the
effect of the old one.  `WebhookDispatcher` implements it with the messages as
the tasks and "accepted, buried, or its retry was published" as the effect
(`WebhookPromise`).  The contract is one of messages.  A notice as a whole keeps
neither: a dispatcher with an old delivery can publish a retry of a notice that
another one has settled, so a notice that was over is under way again.  Of
notices, `NoticeAccounted` says that none is lost.

**`WebhookDispatcher`**: a message is the notice and the path of delivery
counts that led to it, because a delivery publishes at most one retry; the
length of the path is the `attempt` of the payload.  `get_webhook_config`
calls itself after it filled the cache, which is the loop fetch, look up,
store, expire, fetch.  **`WebhookConfig`** is the configuration and its copy.
The webhook queue is taken as declared by an earlier start of the dispatcher.

**`AuditLogger`**: one worker.  The broker delivers into the buffer of the
queue's iterator, up to the prefetch and also while a batch is processed
(`DeliverEvent`); the loop reads from the buffer into the batch
(`CollectEvent`).  Then the commit, the acknowledgements in order, and the
`finally` block that processes the batch once more.  Leaving the loop gives back
what it has not read (`LeaveLoop`).  What the broker took back with a channel
stays in buffer and batch, so a batch may hold two deliveries of one event.
**`BrokerClient`** is the publishing side of a process: `connect` fills the
dictionary of exchanges one declaration at a time; a lost link makes whatever
awaits an answer raise, so a setup in `_on_reconnect` stops where it is;
the robust connection comes back, sets the prefetch, empties the dictionary and
fills it again.  **`AuditTrail`** composes the two: an event enters the queue
only through a client whose link is up and that knows "system.events".

**`ApiKeyCache`** holds a key's standing in the database, its copy in Redis and
its counters; the Lua script of `check_and_increment` is one atomic step
(`Verdict`, `Charge`).  **`ApiKeyGate`** is `get_context`.  After a miss the
handler calls itself and then reads the cache once more; only the outermost
reading counts, so the depth of the recursion is not in the state.  A reading
that finds nothing forwards the request without `X-Developer-Id`, which the
file API refuses (`nameless`).  `LoseAnswer` is a script call that ran but
timed out at the client, which repeats it (`retry_on_timeout`).  The context
is then forwarded (`ForwardRequest`): `upstream` is what the file service has
of a request, with or without `X-Developer-Id`, and may still act on when the
gateway's own call has timed out.

**`AccountApi`**: register, login, refresh, logout and `create_apikey`, each
request with a session of its own.  Rows are known by the request that
inserted them.  The flush of `register` waits for another uncommitted insert of
the same email; the account is committed together with its first token; a
refresh revokes the old token in one commit and adds the new one in another.

## 3. What is abstracted, and what is not modelled

* Pixels, thumbnail sizes, file bodies beyond head and tail, HTTP headers,
  signatures, password hashes and token encodings.
* The payload of a webhook: `process_webhook` serialises with `"."` between
  items (`processor.py`, line 45), which makes a body that is not JSON.  This does not change what the
  dispatcher does, so no model shows it.
* Requests that are refused before their first state change: wrong extension
  or MIME type, malformed bodies, missing headers.  `Uploads` is the set of
  files that pass.
* Malformed queue messages: all senders are in this repository and send the
  fields the workers read.
* Audit events of the pipeline, except as a step that may fail; `AuditLogger`
  models their consumer with events of its own.
* The order of messages, the length of delays and the TTLs.  That they are long
  enough is an assumption, and named where it is used (section 5).
* The gap in the exchange map during a reconnect is state of `BrokerClient`.  In
  the pipeline it appears as a publish that fails.  A declaration that fails
  while the link is up is not modelled: what makes the broker refuse one (an
  exchange of another type, a missing plugin) makes the first `connect` fail.
* How long a scanner waits for clamd before its loop starts: it is not started
  until then.
* `is_active` of keys and developers is never written by the code; an operator
  does it (`ChangeStanding`, `ChangeActive`).
* Requests to the auth service through the gateway: they are forwarded with the
  claims of their access token and keep no state.  Logging, configuration,
  migrations and generated code keep none either.
* Ten hazards of `PROJECT.json` have no property.  In each the code does what it
  should perhaps not do, and no comment, test or doc states a rule to hold it to:
  - a scanner that lost its channel can write its outcome over that of the
    delivery that replaced it (`security_scanner/worker.py:134`).  What must not
    happen in spite of it (`TaintedNeverServed`, `EvidenceKept`) is checked;
  - the last delivery of a scan that failed before its verdict raises instead of
    sending "failed" (`security_scanner/worker.py:197`);
  - up to four audit events wait in memory for a fifth, and a batch that cannot
    be committed is lost with all its events (`logger_service/worker.py:56`, `:26`);
  - a process that ends between `HSET` and `EXPIRE` leaves a copy without a TTL
    (`webhook_repo.py:17`, `api_key_repo.py:43`).  That nothing else does is
    proved (`CachedHooksExpire`, `CachedKeysExpire`);
  - overlapping refreshes of one token give two sessions, and overlapping
    creations of one key name two rows (`routes/auth.py:124`, `api_keys.py:25`);
  - an auth service that is out of reach costs the notice
    (`dispatcher/grpc_clients/auth_client.py:37`);
  - a request whose copy expires after it was counted is refused
    (`gateway/handlers/file.py:44`).

  All ten are in the models: their states are reached, and the properties nearby
  are stated so that they do not claim the contrary.

## 4. The runs

Each run lists what it shows; `PROJECT.json` has the mutant of every property.

### The pipeline

| Run | Instance | Shows |
|---|---|---|
| `pipeline_uploads` | two requests, one scanner, documents clean or infected, delivery limit 1; 720 000 states | `TypeOK`, `TaskHasRow`, `TaskUnlessError`, `AckHandled`, `TaintedNeverServed`, `EvidenceKept` |
| `pipeline_redelivery` | one image, two scanners, one image processor, two renditions, two scan attempts; 520 000 states | `TaintedNeverServed`, `EvidenceKept`, `RenditionsComplete`, `FailedIsFinal`, `ScanPromise`, `DeliveriesEnd` |
| `pipeline_liveness` | one image, one worker of each kind; 140 000 states | `ScanSettles`, `ImageSettles` |

* `TaskHasRow`: the row is committed before its task can be met, so the
  branches "Job not found", which acknowledge and lose the task, never run.
* `TaskUnlessError`: the task of a committed job was published, unless its
  handler is still to do it or the upload was answered with an error.  So a job
  that stays "pending" without a task was left by one of two gaps, an upload
  that failed after its commit or one before the first scanner
  (`pipeline_unbound` below), and by no other.
* `AckHandled`: an acknowledged scan message has led to a notice or to an
  image task.  `ScanPromise` is the refinement of `TaskContract` by the scan
  queue, which says this of every step, and that what was settled stays so.
* `TaintedNeverServed`: a file that ClamAV has a signature for is never called
  clean or completed, handed to the image processor or rendered, however often
  it is scanned and whoever overtakes whom.  Stated for digests all of whose
  contents are infected, because the digest does not identify a content.
* `EvidenceKept`: the object of a committed row is in the uploads or in
  quarantine, and in quarantine if that is what the row or a notice says.
* `RenditionsComplete`: "processed" means that all renditions are there.
* `FailedIsFinal`, of every step: once the developer was told "failed", and no
  scanner and no image task of the job is left from before, its status and its
  notices stay as they are.  "failed" is announced in the last delivery, so
  nothing that begins later can change them.  What was under way still can: a
  scanner with an older delivery may send its own outcome, and an image task
  that was published before the scan failed (at the audit event after it, say)
  still completes the job.  The property begins when these are over
  (`FailedForGood`).  That "failed" is sent at all it does not say: the code
  does not send it if there is no verdict, nor would it if its limit were above
  the queue's.  `MaxDeliveryAssumption` allows that; the two are equal in the
  code and in the runs.
* `DeliveriesEnd`: no step takes a scan or image task back, whichever of two
  deliveries of a scan publishes the image task.  A message's `Rank` (`WorkQueue`)
  grows with its state and its count and has 2 * `DeliveryLimit` + 4 values, so
  each message changes at most 2 * `DeliveryLimit` + 3 times.
* `ScanSettles`, `ImageSettles`: a queued task is acknowledged or given up.

Why these bounds: two requests are the smallest number that can share a key, a
digest and a developer; two scanners the smallest number with an old and a new
delivery of one message; a limit of one gives a first and a last delivery, and
`MaxDeliveryCount` equals it as it does in the code (3 and 3); two renditions
have a moment between them; two attempts are one that is repeated and the last.
`pipeline_redelivery` has a view (`MCView`): what an upload's handler does after
its scan task is out, the audit event and the answer, is seen by no worker and by
no property of this run, so states that differ only in that count as one (it
would be 1.6 million states without).
The safety properties are proved for all bounds (section 6).

### Webhooks and audit

| Run | Instance | Shows |
|---|---|---|
| `webhook_delivery` | one notice, two workers, two attempts of two deliveries; 1.3 million states | `TypeOK`, `NoticeAccounted`, `WebhookPromise` |
| `webhook_liveness` | one notice, one worker, two configurations; 95 000 states | `NoticesSettle`, `StaleClears` |
| `audit_batches` | two events, batches of two, a prefetch of two, two deliveries, a publisher with two exchanges; 54 000 states | `TrailTypeOK`, `AckedIsLogged`, `OneRowPerDelivery`, `SetupComplete`, `AuditPromise`, `BatchesSettle`, `PublishingReturns` |

* `NoticeAccounted`: a published notice is on its way, accepted, buried or out
  of deliveries.  A retry is published before the message it replaces is
  acknowledged, so no crash falls between them.
* `WebhookPromise`: message by message, the dispatcher implements
  `RetryContract`.  What is acknowledged was settled or handed on, a retry is
  always a new message, and a message that is over is not taken up again by
  whoever still works on it.
* `NoticesSettle`: attempts and deliveries multiply, and still end.
* `StaleClears`: a changed configuration leaves the cache, unless a worker
  ended between `HSET` and `EXPIRE`.  That exception is real: the copy then has
  no TTL, and nothing in the code removes it.
* `AckedIsLogged`, `OneRowPerDelivery`: what is acknowledged is stored, and the
  second pass of the `finally` block inserts nothing twice.
* `BatchesSettle`: a full batch of events always moves on.  Fewer than a batch
  wait for the next event or for shutdown; no property says otherwise, because
  the code does not.
* `AuditPromise`: the logger implements `TaskContract`.
* `SetupComplete`, `PublishingReturns`: a client that is connected and has no
  setup under way knows all its exchanges, wherever earlier connections broke;
  and if the connection holds from some time on, the service can publish its
  events again.  Between `_on_reconnect`'s `clear` and the last declaration
  it cannot, and what it publishes then raises.

Two attempts are one retry and its end; three attempts only repeat the middle
one and are beyond TLC's reach here.  Two events are enough for a batch that is
full, for one that waits, for one of two deliveries of the same event, and for
an event that comes back into the buffer while the batch with it is processed.
With three events (1.7 million states) there is also one beyond the batch; this
is too large to check for liveness, and TLC found nothing new in it about
`AuditInv` and `EventsEnd`, which are proved for any number.  Two exchanges, with "system.events" the second, have a
moment at which one is declared and the other is not; the four of the code have
more of the same.

### Access

| Run | Instance | Shows |
|---|---|---|
| `gate_requests` | two requests with one key, one admission an hour, two hours, one repeated call; 86 000 states | `TypeOK`, `WithinLimit`, `QuotaUsable`, `ServedIsCharged`, `RevokedStaysOut`, `OutdatedClears`, `AllAnswered` |
| `account_sessions` | two registrations, a login, two refreshes, a logout, two keys, one developer; 770 000 states | `TypeOK`, `OneAccountPerEmail`, `AccountHasSession`, `RotatedOut`, `RevokedIsFinal`, `DisabledGetsNothing`, `NameStaysTaken` |

* `WithinLimit` and `QuotaUsable`: a key is admitted at most
  `requests_per_hour` times in an hour, and not refused before so many
  admissions were made or lost on their way back from Redis.
* `ServedIsCharged`: what the file service has of a request was admitted first,
  also after a miss, when the handler calls itself and drops the result; a
  request that was refused never reaches it, not even later.
* `RevokedStaysOut`: once a key has no standing, no copy that says otherwise
  and no such answer on its way into the cache, only the database lets it in.
* `OutdatedClears`: a change of standing arrives, with the same exception for
  `HSET` and `EXPIRE` as above.
* `AllAnswered`: the handler's recursion ends, for an unknown key too.
* `RotatedOut`: the refresh that fails between its two commits costs the client
  its session, but never leaves it two.
* `RevokedIsFinal`, `DisabledGetsNothing`, `NameStaysTaken`: what is revoked,
  disabled or taken stays so for every request that starts afterwards.  Stated
  with the requests that are past their check, because for those it is not so:
  two overlapping refreshes of one token give two sessions, and two overlapping
  creations of one key name give two rows, on which every later
  `scalar_one_or_none` raises.

Requests with different keys, and developers with different emails, share
nothing in these modules, so one of each is enough.  A counter is cut off one
above the limit (`Bump`), and the count of lost admissions at the limit;
neither answers differently beyond.  `MaxWindow` bounds the clock at two
hours: one turn of the hour is all a request can meet, since it reads the
window anew in each pass.  `account_sessions` runs without deadlock checking:
each request is sent once, and when all are over nothing is left to do.

### Where the code and its own words differ

Each of these runs ends with a counterexample.

| Run | Property | What happens |
|---|---|---|
| `pipeline_same_key` | `OneRowPerKey` | Two uploads of one file that overlap between duplicate check and commit, or an upload after a failed one, give two rows with one storage location; `scan_file` uses `scalar_one_or_none` on it, and neither job can ever be scanned. |
| `pipeline_unbound` | `AcceptedIsScheduled` | An upload that is answered before the first scanner has ever started publishes to an exchange without a queue.  The broker drops the task, `publish` does not raise, the client reads "File uploaded and scheduled for processing", and every later upload of the file is answered "File already exists". |
| `pipeline_digest` | `DuplicateMeansSame` | Two files that differ only in their first 2048 bytes have one digest; the second is answered "File already exists". |
| `webhook_bad_url` | `DeadByCrashOnly` | A post that fails with anything but the three named exceptions, as with the empty URL of a developer without a configuration, ends the dispatcher in every delivery until the queue gives the notice up, which `retry.py` reserves for crashes. |

Not checked by a run, because the code states nothing to compare with: a job
whose publish fails stays "pending" for ever and counts as a duplicate; a
connection error of clamd in the last delivery stores "queued_for_retry" for a
message that is dead-lettered next; an image that was abandoned stays "processing"; two scanners of one message can
send contradictory notices ("completed" and "quarantined", if ClamAV answers
`ERROR` to one of them).  `PROJECT.json` has them among the hazards.

## 5. Fairness

Safety properties are checked and proved for `Spec`, without fairness.  The
liveness runs use `FairSpec`, which assumes

* of a running worker or handler, weak fairness: it goes on with what it works
  on.  Each move includes its failures, so it may fail for ever;
* of a worker that is down, weak fairness of its restart.  The repository has
  no supervisor; this is an assumption about the operator (`make sec-worker`
  and its like), and without it no task need ever settle;
* of a ready message, strong fairness of its delivery: RabbitMQ delivers it if
  idle consumers come again and again, even if none stays;
* of a broker client, weak fairness of its setup (`connect`, the robust
  connection's return, the declarations).  Connections may break for ever;
  `PublishingReturns` is about those that hold from some time on;
* of Redis, weak fairness of expiry, and that a TTL of 300 or 600 seconds does
  not end each time between an `EXPIRE` and the same process's next reading
  (strong fairness of the reading that finds the copy).  Without this the
  recursions of `get_webhook_config` and `get_context` need not end.

`audit_batches` uses `TrailSpec`, which states the same of the logger and of its
publisher.  Nothing is assumed of developers, of clamd, of webhook endpoints, of
the file service behind the gateway (the gateway's own timeout is what answers),
of crashes, of dropped connections or of
failures.  One assumption is in a guard: `ForgetUsage` drops a counter only
when no script call of its hour is under way.  The counter outlives its hour by
100 seconds, and a call ends, with its repetition, within ten.

## 6. What is proved

TLAPS proves every invariant and every action property that a passing run
checks, and the three refinements.  The theorems hold for every number of requests,
developers, workers, contents, renditions, attempts, deliveries, exchanges,
keys and hours, under the assumptions named in the modules: limits are naturals,
`MaxDeliveryCount` is at least `DeliveryLimit`, there is at least one rendition,
attempt, hour and exchange, batches are not empty and fit in the prefetch,
`Uploads` are files, `None` and its like are none of the data, the kinds of
account requests are disjoint, and the gateway's requests are finitely many
(they are counted).  `MaxWindow` is such a bound too: any natural will do.

None of the properties is inductive as it stands.  Each model module ends with
the strengthening, named part by part, which TLC checked on the run's instance
before it was proved; the proof modules follow its parts.

**`QueueProofs`** has what `Publish`, `Deliver`, `Return`, `Ack` and `Discard` do
to a message, to its delivery count and to its standing as a task, and that each
of them raises the message's `Rank` when it is done as the broker does it
(`QueueMovesOn`).

**`JobPipelineProofs`.**  The state does not say why a scanner that acknowledges
has passed its job on.  `HandoverInv` adds what each process knows while it is
under way: a handler past its commit has a committed row, and no message exists
before it (`RequestKnows`); a busy scanner has a committed job, a verdict from
the scan on, and at its ack a job that has been passed on (`ScannerKnows`); a
busy image processor has a task of a committed job (`ImagerKnows`).

* `Handover`: `Spec => []HandoverInv`
* `TypeCorrect`, `TasksHaveRows`, `NoSilentLoss` (`TaskUnlessError`),
  `NoJobVanishes` (`AckHandled`): the invariants follow.

The crucial lemmas are that notices and image tasks only ever grow, so what a
scanner knew is not undone by another one with an old delivery.

**`ServingProofs`.**  `TaintInv` traces a tainted digest: an object has the
digest of its key (`UploadsMatch`), so a scan of it cannot say clean
(`VerdictSound`), so no image task, image processor or rendition has it.
`EvidenceInv` traces the object: a scanner past its copy has the key in
quarantine (`MovedFirst`), and a handler past its put has it stored, or a
scanner has quarantined it since (`StoredFirst`).  `RenderInv` says what an
image processor's `next` stands for: all renditions before it are stored
(`RenderedFirst`), by this delivery or an earlier one, since none is ever
deleted; and that a scanner completes only what is no image.

* `TaintHandled`, `NeverServed`: `Spec => []TaintInv`, so `[]TaintedNeverServed`
* `EvidenceHandled`, `NoObjectLost`: `Spec => []EvidenceInv`, so `[]EvidenceKept`
* `RenditionsAreThere`: `Spec => []RenditionsComplete`

**`PromiseProofs`.**

* `ScanPromiseKept`: `Spec => ScanPromise`, the refinement.  Initial states map
  to initial states; a step of an upload maps to `Submit`, a notice or an image
  task to `Perform`, an ack to `Finish` (by `AckHandled`'s part of
  `HandoverInv`), a discard or a last return to `GiveUp`, the rest to stutters.
* `FailureIsFinal`: `Spec => FailedIsFinal`, a property of every step.
  "failed" is sent with a count at the limit, so the proof has to show that such
  a count is held by no one else and comes back to no one.  `FailureInv`: two
  scanners with one message have different counts (`DeliveriesDiffer`); a
  delivery that is not held any more was followed by a larger count or by the end
  of the message (`HeldOrPast`), which at the limit leaves only the end; so
  "failed" was sent by a scanner that still has the last delivery and is on its
  way out, or the message is dead (`FailedInLastDelivery`).  Then no scanner
  receives the job again, and only scanners at work and image processors with a
  task write a job's status, publish its image tasks or send its notices.
* `DeliveriesComeToAnEnd`: `Spec => DeliveriesEnd`.  What is not obvious is that
  an image task is never published over one that is under way.  It is named by
  its scan's delivery.  `ImageInv`: such a task exists only if its delivery has
  begun (`ImagesFollow`), and not while the delivery's scanner still has to
  publish it (`UntilEnqueued`).  With `DeliveriesDiffer` no one else publishes it.

**`WebhookProofs`.**  `DispatchInv`: a busy worker has a message, with room for
a retry if it is about to publish one (`WorkInHand`); a message that is
acknowledged, or about to be, was settled or its retry was published
(`FollowedFirst`); a dead one had used its deliveries (`DeadWasExhausted`).  This
gives `NoticeAccounted` by the longest retry: of the messages of a notice that
were ever published, take one with the largest attempt.  It is in flight, or
exhausted, or settled, for a retry of it would have a larger attempt.  That
there is a largest rests on `MaxAttempts`.

* `DispatchInvariant`, `DispatchTypes`, `NoticesAreAccounted`

The refinement of `RetryContract` needs that a retry is always new, or `HandOn`
would be a submission of a task that is there.  `RetryInv` is the argument of
`ImageInv` over again, about messages that are made of deliveries of messages
of the same queue: workers with one message have different deliveries of it
(`DeliveriesDiffer`), a delivery that is not held any more lies behind the
message's rank (`HeldOrPast`), a retry exists only of a delivery that has begun
(`RetriesFollow`), and not before that delivery's worker has published it
(`UntilRetried`).  A step of `PublishRetry` then maps to `HandOn`, an accepted
post or a dead letter to `Perform`, an ack to `Finish` (by `FollowedFirst`), a
last return to `GiveUp`.

* `RetryInvariant`: `Spec => []RetryInv`
* `WebhookPromiseKept`: `Spec => WebhookPromise`
* `RetriesComeToAnEnd`: every step leaves a message alone or raises its rank
  (`RetriesEnd`).  A message has at most `DeliveryLimit` + 1 retries and a path at
  most `MaxAttempts` messages, so a notice has only so many deliveries; that its
  messages do move on is `NoticesSettle`.
* `CachedHooksExpire`: a cached configuration has a TTL, or a worker is about to
  set it, or some worker ended between the two calls (`CopiesExpire`).
* `WithdrawnHooksStayOut`: a configuration that was changed or deleted, and that
  is neither cached nor in the hands of a worker that will cache it or post to
  it, is out of use until the developer sets it again (`WithdrawnStaysOut`).  The
  look-up that a worker began before the change is why the hands matter.

**`AuditProofs`**, about the composition `TrailSpec`, whose behaviours are
behaviours of the logger (`TrailIsLogger`).  `AuditInv`: an event occurs in the
buffer and the batch together no more often than it has deliveries without a
row, whichever of them were returned meanwhile (`BatchDelivered`); a new
delivery is none of those that wait in the buffer, so it is counted once
(`BufferDelivered`); and a batch that is inserted has a row for each place
(`BatchStored`).  `ClientInv`: a setup runs only on a
connection, and what comes before the next declaration is in the dictionary
(`SetupProgress`).

* `AuditInvariant`, `TrailInvariant`, `TrailTypes`
* `NoUnstoredAck` (`AckedIsLogged`), `RowsAreDeliveries` (`OneRowPerDelivery`),
  `SetupIsComplete`
* `AuditPromiseKept`: `TrailSpec => AuditPromise`, the refinement.  A commit
  maps to one `Perform` of all its events, a closed channel to one `GiveUp`.
* `EventsComeToAnEnd`: `TrailSpec => EventsEnd`.  Answering a batch twice, or on a
  channel that is gone, takes no event back.

**`GateProofs`.**  `GateInv` ties a counter to the requests: it is at least the
number admitted in its hour for as long as a script can still ask for it
(`UsageCovers`), and at most
the admissions and the lost answers, or else those reach the limit
(`UsageExplained`); a request is admitted once, before it is forwarded
(`AdmittedOnce`); and no hour lies ahead of the clock (`ClockAhead`), so a
counter that Redis drops is not used again.

* `GateInvariant`, `GateTypesKept`, `QuotaHolds`, `QuotaIsUsable`,
  `ServedUploadsAreCharged`, `RevokedKeysStayOut`
* `CachedKeysExpire`: as `CachedHooksExpire`, of the gate's copies.

**`AccountProofs`.**  `AccountInv`: an email is claimed once, by an account or by
a registration whose insert is not committed yet (`EmailClaimedOnce`); a token
belongs to a request that came to its last commit (`TokenAfterIssue`); a refresh
that is about to issue has the old token revoked (`RevokedBeforeIssue`).

* `AccountInvariant`, `AccountTypes`, `EmailIsUnique`, `AccountsHaveSessions`,
  `TokensRotate`, `RevocationIsFinal`, `DisabledStaysOut`, `NamesAreTaken`

**Only model-checked**: the liveness properties (`ScanSettles`, `ImageSettles`,
`NoticesSettle`, `StaleClears`, `BatchesSettle`, `PublishingReturns`,
`OutdatedClears`, `AllAnswered`); fairness and `ENABLED` are beyond TLAPS.  Of
most of them the part that needs no fairness is proved:

| Liveness property | What is proved of it |
|---|---|
| `ScanSettles`, `ImageSettles` | `DeliveriesEnd`: a task can only move a bounded number of times |
| `NoticesSettle` | `RetriesEnd`, and that the attempts are bounded (`TypeOK`) |
| `BatchesSettle` | `EventsEnd` |
| `PublishingReturns` | `SetupComplete`: when the setup is over, it did all its work |
| `StaleClears` | `CopiesExpire`, and `WithdrawnStaysOut` for what comes after |
| `OutdatedClears` | `CopiesExpire`, and `RevokedStaysOut` for what comes after |

What remains to TLC is that a step which is possible is taken.  `AllAnswered`
has no such part: the handler may find its copy expired any number of times, and
only the assumption about the TTL ends the recursion.

`RetriesEnd`, `EventsEnd`, `CopiesExpire` and `WithdrawnStaysOut` are theorems
only; no run lists them.  The violations are counterexamples of TLC.

## 7. The plan

1. *Runs.*  The overlapping creations of a key, and the overlapping refreshes
   of a token, as runs of their own, should the repository come to state what
   they are to end with.
2. *Model.*  The publisher's client in front of the scan queue, so that an
   upload meets the gap of a reconnect as `AuditTrail`'s events do; it would
   multiply the states of `pipeline_uploads` by the client's.
3. *Composition.*  The gate and the pipeline meet in one place,
   `X-Developer-Id`; `ServedIsCharged` and the pipeline's properties are the two
   sides of it.

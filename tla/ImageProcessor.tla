---------------------------- MODULE ImageProcessor ----------------------------
(***************************************************************************)
(* The image processor: process_image, one message at a time per worker.   *)
(* It writes no status when it fails; MemoryError and a cancellation       *)
(* return normally, so the message is acknowledged and the worker goes on. *)
(***************************************************************************)
EXTENDS PipelineState

CONSTANT Imagers

VARIABLE imager    \* worker -> [pc, task, count, next]

ImagerWorking == {"open", "render", "store", "finish", "tell"}
ImagerPc == {"down", "idle", "confirm"} \cup ImagerWorking

ImagerDown == [pc |-> "down", task |-> None, count |-> 0, next |-> 1]
ImagerIdle == [pc |-> "idle", task |-> None, count |-> 0, next |-> 1]

ImagerInit == imager = [i \in Imagers |-> ImagerDown]

ImagerTypeOK ==
    imager \in [Imagers -> [pc : ImagerPc, task : ImageTasks \cup {None},
                            count : 0..DeliveryLimit, next : Renditions]]

ImagerBusy(i) == imager[i].pc \notin {"down", "idle"}
ImagerHolds(i) == imager[i].task # None /\ HeldAt(imageQ, imager[i].task, imager[i].count)

JobOf(i) == imager[i].task[1]
Stage(i, pc) == imager[i].pc = pc
Advance(i, pc) == imager' = [imager EXCEPT ![i].pc = pc]

ReturnImage(i) ==
    imageQ' = IF ImagerHolds(i) THEN Return(imageQ, imager[i].task) ELSE imageQ

ReceiveImage(i, t) ==
    /\ Stage(i, "idle")
    /\ IsReady(imageQ, t)
    /\ imageQ' = Deliver(imageQ, t)
    /\ imager' = [imager EXCEPT ![i] =
           [pc |-> "open", task |-> t, count |-> imageQ[t].count, next |-> 1]]
    /\ UNCHANGED <<database, storage, scanQ, notices, declared>>

(* The task carries the scan task's payload, so the key is the job's own   *)
(* and the hash comparison holds whenever the job is there.                *)
OpenJob(i) ==
    /\ Stage(i, "open")
    /\ IF Committed(JobOf(i))
       THEN WriteStatus(JobOf(i), "processing") /\ Advance(i, "render")
       ELSE UNCHANGED <<file, status, latest>> /\ Advance(i, "confirm")
    /\ UNCHANGED <<bucket, storage, queues>>

(* Stream the object and render every thumbnail in memory. *)
RenderImage(i) ==
    /\ Stage(i, "render")
    /\ uploads[KeyOf(JobOf(i))] # None
    /\ Advance(i, "store")
    /\ UNCHANGED shared

StoreRendition(i) ==
    /\ Stage(i, "store")
    /\ processed' = processed \cup {<<file[JobOf(i)].digest, imager[i].next>>}
    /\ imager' = [imager EXCEPT ![i] =
           IF imager[i].next = RenditionCount THEN [imager[i] EXCEPT !.pc = "finish"]
           ELSE [imager[i] EXCEPT !.next = imager[i].next + 1]]
    /\ UNCHANGED <<database, uploads, quarantine, queues>>

FinishImage(i) ==
    /\ Stage(i, "finish")
    /\ bucket' = [bucket EXCEPT ![JobOf(i)] = "processed"]
    /\ WriteStatus(JobOf(i), "completed")
    /\ Advance(i, "tell")
    /\ UNCHANGED <<storage, queues>>

(* the audit event; nothing is dispatched to the developer's webhook *)
TellComplete(i) ==
    /\ Stage(i, "tell")
    /\ Advance(i, "confirm")
    /\ UNCHANGED shared

AckImage(i) ==
    /\ Stage(i, "confirm")
    /\ imageQ' = IF ImagerHolds(i) THEN Ack(imageQ, imager[i].task) ELSE imageQ
    /\ imager' = [imager EXCEPT ![i] = IF ImagerHolds(i) THEN ImagerIdle ELSE ImagerDown]
    /\ UNCHANGED <<database, storage, scanQ, notices, declared>>

(* A slip in AbandonImage: an error ends the loop but not the job. *)
AbandonAndFinish(i) ==
    /\ imager[i].pc \in ImagerWorking
    /\ Advance(i, "finish")
    /\ UNCHANGED shared

(* MemoryError, or a CancelledError or KeyboardInterrupt that is swallowed *)
AbandonImage(i) ==
    /\ imager[i].pc \in ImagerWorking
    /\ Advance(i, "confirm")
    /\ UNCHANGED shared

(* Any other exception requeues the message and ends the worker; being     *)
(* killed does the same, whatever the worker was doing.                    *)
EndImager(i) ==
    /\ imager[i].pc # "down"
    /\ ReturnImage(i)
    /\ imager' = [imager EXCEPT ![i] = ImagerDown]
    /\ UNCHANGED <<database, storage, scanQ, notices, declared>>

FailImage(i) == imager[i].pc \in ImagerWorking /\ EndImager(i)

DropImagerChannel(i) ==
    /\ ImagerBusy(i)
    /\ ImagerHolds(i)
    /\ ReturnImage(i)
    /\ UNCHANGED <<imager, database, storage, scanQ, notices, declared>>

(* processor declares the queue before it consumes. *)
RestartImager(i) ==
    /\ Stage(i, "down")
    /\ imager' = [imager EXCEPT ![i] = ImagerIdle]
    /\ declared' = declared \cup {"image"}
    /\ UNCHANGED <<database, storage, scanQ, imageQ, notices>>

-----------------------------------------------------------------------------
ImagerMove(i) ==
    \/ OpenJob(i)
    \/ RenderImage(i)
    \/ StoreRendition(i)
    \/ FinishImage(i)
    \/ TellComplete(i)
    \/ AckImage(i)
    \/ AbandonImage(i)
    \/ FailImage(i)

ImagerStep(i) ==
    \/ \E t \in ImageTasks : ReceiveImage(i, t)
    \/ ImagerMove(i)
    \/ EndImager(i)
    \/ DropImagerChannel(i)
    \/ RestartImager(i)

=============================================================================

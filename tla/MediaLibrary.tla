---------------------------- MODULE MediaLibrary ----------------------------
(***************************************************************************)
(* Media assets from upload to deletion, and the drafts that use them.     *)
(*                                                                         *)
(*   requests  MediaService (upload, multipart, delete, reprocess) and the *)
(*             media side of DraftsService (update, schedule, publishNow,  *)
(*             cancel, reschedule, archive), each cut off wherever a call  *)
(*             of it throws or the API dies;                               *)
(*   jobs      what the publish jobs of a draft make of its status;        *)
(*   workers   processMediaIngest, one media_ingest worker per process;    *)
(*   browser   uploads objects to storage through signed URLs.             *)
(* Each actor advances one awaited call at a time.                         *)
(***************************************************************************)
EXTENDS JobQueue, FiniteSets

CONSTANTS
  Assets,         \* media assets that may be created
  Converted,      \* the videos among them that shouldNormalizeVideo picks
  Drafts,
  Processes,      \* worker processes
  Requests,       \* concurrent API requests
  MaxEntries,     \* bound: entries ever added to media_ingest
  MaxMishaps,     \* bound: crashed processes and failing catch blocks
  IngestTries,    \* BullMQ attempts of a media.ingest entry (5 in the code)
  ReprocessTries, \* BullMQ attempts of a media.reprocess entry (4)
  None

ASSUME MediaAssumption ==
  /\ Converted \subseteq Assets
  /\ MaxEntries \in Nat /\ MaxMishaps \in Nat
  /\ {IngestTries, ReprocessTries} \subseteq Nat \ {0}
  /\ None \notin Assets \cup Drafts

Entries == 1 .. MaxEntries

MediaStatus == {"UPLOADING", "PROCESSING", "READY", "FAILED", "DELETED"}

VARIABLES
  asset,    \* MediaAsset rows with their MediaVariant and MediaThumbnail rows
  object,   \* the assets whose uploaded file is in storage
  upload,   \* what storage knows of the multipart upload of an asset
  draft,    \* Draft rows: status, media selections, uncancelled schedule, jobs
  entry,    \* media_ingest entries
  task,     \* what an entry asks for
  worker,   \* processMediaIngest's locals
  request,  \* MediaService's and DraftsService's locals
  mishaps   \* crashes and failed catch blocks so far

vars == <<asset, object, upload, draft, entry, task, worker, request, mishaps>>

-----------------------------------------------------------------------------
(* Types and initial states. *)

(* A multipart upload replaces the random upload id by the storage's. *)
AssetRow == [status : MediaStatus \cup {"NONE"}, uploadId : {"random", "storage"},
             variants : SUBSET {"original", "normalized"}, thumbnails : Nat]

(* "uploaded": every part is there, and the upload has not been completed. *)
UploadState == {"none", "open", "uploaded", "completed", "aborted"}

(* Media are kept for READY and SCHEDULED drafts; "OTHER" is DRAFT, FAILED, *)
(* PUBLISHED, PARTIALLY_PUBLISHED or ARCHIVED, and nothing here asks which. *)
DraftRow == [status : {"READY", "SCHEDULED", "OTHER"}, media : SUBSET Assets,
             schedule : BOOLEAN, jobs : BOOLEAN]

Task == [asset : Assets \cup {None}, tries : Nat]

WorkerPC == {"idle", "download", "convert", "saveOriginal", "clearThumbnails",
             "addThumbnail", "markReady", "markFailed", "done"}

RequestPC == {"idle", "storeUploadId", "find", "finalize", "enqueue", "abort",
              "delete", "select", "readiness", "count", "saveReadiness",
              "publish", "publishJobs", "scheduleJobs", "schedule",
              "cancel"}

Request == [pc : RequestPC, asset : Assets \cup {None}, draft : Drafts \cup {None},
            media : SUBSET Assets, tries : Nat, ready : BOOLEAN]

TypeOK ==
  /\ asset \in [Assets -> AssetRow]
  /\ object \subseteq Assets
  /\ upload \in [Assets -> UploadState]
  /\ draft \in [Drafts -> DraftRow]
  /\ entry \in [Entries -> Entry]
  /\ task \in [Entries -> Task]
  /\ worker \in [Processes -> [pc : WorkerPC, entry : Entries \cup {0}]]
  /\ request \in [Requests -> Request]
  /\ mishaps \in 0 .. MaxMishaps

IdleWorker == [pc |-> "idle", entry |-> 0]

IdleRequest == [pc |-> "idle", asset |-> None, draft |-> None, media |-> {},
                tries |-> 0, ready |-> FALSE]

Init ==
  /\ asset = [a \in Assets |-> [status |-> "NONE", uploadId |-> "random",
                                variants |-> {}, thumbnails |-> 0]]
  /\ object = {}
  /\ upload = [a \in Assets |-> "none"]
  /\ draft = [d \in Drafts |-> [status |-> "OTHER", media |-> {},
                                schedule |-> FALSE, jobs |-> FALSE]]
  /\ entry = [e \in Entries |-> Absent]
  /\ task = [e \in Entries |-> [asset |-> None, tries |-> 0]]
  /\ worker = [p \in Processes |-> IdleWorker]
  /\ request = [r \in Requests |-> IdleRequest]
  /\ mishaps = 0

-----------------------------------------------------------------------------
(* Helpers of the request steps. *)

ReqAt(r, pc) == request[r].pc = pc
Go(r, new) == request' = [request EXCEPT ![r] = new]
Begin(r, new) == ReqAt(r, "idle") /\ Go(r, new)
Finish(r) == Go(r, IdleRequest)

Exists(a) == asset[a].status # "NONE"
SetStatus(a, s) == asset' = [asset EXCEPT ![a].status = s]

ReadyMedia == {a \in Assets : asset[a].status = "READY"}

-----------------------------------------------------------------------------
(* Uploads: initUpload, the browser's PUT, completeUpload. *)

InitUpload(r, a) ==
  /\ ReqAt(r, "idle") /\ ~Exists(a)
  /\ SetStatus(a, "UPLOADING")
  /\ UNCHANGED <<object, upload, draft, entry, task, worker, request, mishaps>>

(* createPendingMediaAsset, then createMultipartUpload in storage. *)
InitMultipartUpload(r, a) ==
  /\ ~Exists(a)
  /\ SetStatus(a, "UPLOADING")
  /\ upload' = [upload EXCEPT ![a] = "open"]
  /\ Begin(r, [IdleRequest EXCEPT !.pc = "storeUploadId", !.asset = a])
  /\ UNCHANGED <<object, draft, entry, task, worker, mishaps>>

StoreUploadId(r) ==
  /\ ReqAt(r, "storeUploadId")
  /\ asset' = [asset EXCEPT ![request[r].asset].uploadId = "storage"]
  /\ Finish(r)
  /\ UNCHANGED <<object, upload, draft, entry, task, worker, mishaps>>

(* A single PUT through the signed URL. *)
PutObject(a) ==
  /\ Exists(a) /\ upload[a] = "none"
  /\ object' = object \cup {a}
  /\ UNCHANGED <<asset, upload, draft, entry, task, worker, request, mishaps>>

CompleteUpload(r, a) ==
  /\ Exists(a)
  /\ Begin(r, [IdleRequest EXCEPT !.pc = "find", !.asset = a])
  /\ UNCHANGED <<asset, object, upload, draft, entry, task, worker, mishaps>>

(* The upload id must be the stored one, and storage knows nothing of an   *)
(* upload that has ended.                                                  *)
Pending(a) == asset[a].uploadId = "storage" /\ upload[a] \in {"open", "uploaded"}

(* The browser puts part after part through the signed URL of each. *)
UploadParts(a) ==
  /\ Pending(a)
  /\ upload' = [upload EXCEPT ![a] = "uploaded"]
  /\ UNCHANGED <<asset, object, draft, entry, task, worker, request, mishaps>>

(* It asks for this when all the parts are there. *)
CompleteMultipartUpload(r, a) ==
  /\ Pending(a) /\ upload[a] = "uploaded"
  /\ upload' = [upload EXCEPT ![a] = "completed"]
  /\ object' = object \cup {a}
  /\ Begin(r, [IdleRequest EXCEPT !.pc = "find", !.asset = a])
  /\ UNCHANGED <<asset, draft, entry, task, worker, mishaps>>

(* finalizeUploadedAsset: objectExists. *)
FindObject(r) ==
  /\ ReqAt(r, "find")
  /\ IF request[r].asset \in object
     THEN Go(r, [request[r] EXCEPT !.pc = "finalize"])
     ELSE Finish(r)
  /\ UNCHANGED <<asset, object, upload, draft, entry, task, worker, mishaps>>

(* Whatever the status was: the update is unconditional. *)
Finalize(r) ==
  /\ ReqAt(r, "finalize")
  /\ SetStatus(request[r].asset, "PROCESSING")
  /\ Go(r, [request[r] EXCEPT !.pc = "enqueue", !.tries = IngestTries])
  /\ UNCHANGED <<object, upload, draft, entry, task, worker, mishaps>>

(* It asks for this when a part, or the completion, has failed. *)
AbortMultipartUpload(r, a) ==
  /\ Pending(a)
  /\ upload' = [upload EXCEPT ![a] = "aborted"]
  /\ Begin(r, [IdleRequest EXCEPT !.pc = "abort", !.asset = a])
  /\ UNCHANGED <<asset, object, draft, entry, task, worker, mishaps>>

MarkAborted(r) ==
  /\ ReqAt(r, "abort")
  /\ SetStatus(request[r].asset, "DELETED")
  /\ Finish(r)
  /\ UNCHANGED <<object, upload, draft, entry, task, worker, mishaps>>

(* reprocess checks ownership, not the status. *)
Reprocess(r, a) ==
  /\ Exists(a)
  /\ SetStatus(a, "PROCESSING")
  /\ Begin(r, [IdleRequest EXCEPT !.pc = "enqueue", !.asset = a, !.tries = ReprocessTries])
  /\ UNCHANGED <<object, upload, draft, entry, task, worker, mishaps>>

(* The job ids contain the time of the call: each add makes a new entry. *)
Enqueue(r) ==
  /\ ReqAt(r, "enqueue")
  /\ \E e \in Entries :
       /\ entry[e] = Absent /\ task[e].asset = None
       /\ \A f \in 1 .. e - 1 : task[f].asset # None
       /\ entry' = Add(entry, e)
       /\ task' = [task EXCEPT ![e] = [asset |-> request[r].asset,
                                       tries |-> request[r].tries]]
  /\ Finish(r)
  /\ UNCHANGED <<asset, object, upload, draft, worker, mishaps>>

(* QueueService.enqueue skips the add while Redis is unavailable. *)
EnqueueSkipped(r) ==
  /\ ReqAt(r, "enqueue")
  /\ Finish(r)
  /\ UNCHANGED <<asset, object, upload, draft, entry, task, worker, mishaps>>

-----------------------------------------------------------------------------
(* deleteMedia, also called by bulkDelete for each asset in turn. *)

InUse(a) ==
  \E d \in Drafts : a \in draft[d].media /\ draft[d].status \in {"READY", "SCHEDULED"}

DeleteCheck(r, a) ==
  /\ Exists(a) /\ ~InUse(a)
  /\ Begin(r, [IdleRequest EXCEPT !.pc = "delete", !.asset = a])
  /\ UNCHANGED <<asset, object, upload, draft, entry, task, worker, mishaps>>

DeleteWrite(r) ==
  /\ ReqAt(r, "delete")
  /\ SetStatus(request[r].asset, "DELETED")
  /\ Finish(r)
  /\ UNCHANGED <<object, upload, draft, entry, task, worker, mishaps>>

-----------------------------------------------------------------------------
(* DraftsService, as far as media goes. *)

SetDraft(d, s) == draft' = [draft EXCEPT ![d].status = s]

(* An update that names no media goes on to updateDraftReadiness. *)
UpdateText(r, d) ==
  /\ Begin(r, [IdleRequest EXCEPT !.pc = "readiness", !.draft = d])
  /\ UNCHANGED <<asset, object, upload, draft, entry, task, worker, mishaps>>

(* replaceMediaSelections: deleteMany, then createMany. *)
UpdateMedia(r, d, media) ==
  /\ media # {} /\ \A a \in media : Exists(a)
  /\ draft' = [draft EXCEPT ![d].media = {}]
  /\ Begin(r, [IdleRequest EXCEPT !.pc = "select", !.draft = d, !.media = media])
  /\ UNCHANGED <<asset, object, upload, entry, task, worker, mishaps>>

(* A draft selects an asset once: createMany throws if another update has  *)
(* put it back meanwhile.                                                  *)
SelectMedia(r) ==
  /\ ReqAt(r, "select")
  /\ LET d == request[r].draft
         chosen == request[r].media
     IN  IF draft[d].media \cap chosen = {}
         THEN /\ draft' = [draft EXCEPT ![d].media = @ \cup chosen]
              /\ Go(r, [request[r] EXCEPT !.pc = "readiness", !.media = {}])
         ELSE Finish(r) /\ UNCHANGED draft
  /\ UNCHANGED <<asset, object, upload, entry, task, worker, mishaps>>

(* updateDraftReadiness: read the selections, count the READY ones, write  *)
(* the status (of a draft that has a platform).                            *)
ReadSelections(r) ==
  /\ ReqAt(r, "readiness")
  /\ Go(r, [request[r] EXCEPT !.pc = "count", !.media = draft[request[r].draft].media])
  /\ UNCHANGED <<asset, object, upload, draft, entry, task, worker, mishaps>>

CountReady(r) ==
  /\ ReqAt(r, "count")
  /\ LET media == request[r].media
     IN  Go(r, [request[r] EXCEPT !.pc = "saveReadiness",
                  !.ready = media # {} /\ media \subseteq ReadyMedia])
  /\ UNCHANGED <<asset, object, upload, draft, entry, task, worker, mishaps>>

SaveReadiness(r) ==
  /\ ReqAt(r, "saveReadiness")
  /\ SetDraft(request[r].draft, IF request[r].ready THEN "READY" ELSE "OTHER")
  /\ Finish(r)
  /\ UNCHANGED <<asset, object, upload, entry, task, worker, mishaps>>

(* validate: media are selected and all of them READY. *)
Validated(d) == draft[d].media # {} /\ draft[d].media \subseteq ReadyMedia

PublishCheck(r, d) ==
  /\ Validated(d)
  /\ Begin(r, [IdleRequest EXCEPT !.pc = "publish", !.draft = d])
  /\ UNCHANGED <<asset, object, upload, draft, entry, task, worker, mishaps>>

PublishWrite(r) ==
  /\ ReqAt(r, "publish")
  /\ SetDraft(request[r].draft, "READY")
  /\ Go(r, [request[r] EXCEPT !.pc = "publishJobs"])
  /\ UNCHANGED <<asset, object, upload, entry, task, worker, mishaps>>

ScheduleCheck(r, d) ==
  /\ Validated(d)
  /\ Begin(r, [IdleRequest EXCEPT !.pc = "scheduleJobs", !.draft = d])
  /\ UNCHANGED <<asset, object, upload, draft, entry, task, worker, mishaps>>

(* createJobs, and for schedule the PublishSchedule row before it: Drafts  *)
(* has them one by one.  publishNow has only syncDraftStatus left then.    *)
CreateJobs(r) ==
  /\ LET d == request[r].draft
     IN  \/ /\ ReqAt(r, "publishJobs") /\ Finish(r)
            /\ draft' = [draft EXCEPT ![d].jobs = TRUE]
         \/ /\ ReqAt(r, "scheduleJobs")
            /\ draft' = [draft EXCEPT ![d].jobs = TRUE, ![d].schedule = TRUE]
            /\ Go(r, [request[r] EXCEPT !.pc = "schedule"])
  /\ UNCHANGED <<asset, object, upload, entry, task, worker, mishaps>>

(* reschedule asks for an uncancelled schedule, and for nothing else. *)
Reschedule(r, d) ==
  /\ draft[d].schedule
  /\ Begin(r, [IdleRequest EXCEPT !.pc = "schedule", !.draft = d])
  /\ UNCHANGED <<asset, object, upload, draft, entry, task, worker, mishaps>>

(* The last write of schedule and of reschedule, whatever the status is. *)
ScheduleWrite(r) ==
  /\ ReqAt(r, "schedule")
  /\ SetDraft(request[r].draft, "SCHEDULED")
  /\ Finish(r)
  /\ UNCHANGED <<asset, object, upload, entry, task, worker, mishaps>>

(* Any draft can be cancelled: its schedules, its jobs if it has some (each *)
(* with a syncDraftStatus), and then the status, whatever it is.           *)
Cancel(r, d) ==
  /\ draft' = [draft EXCEPT ![d].schedule = FALSE]
  /\ Begin(r, [IdleRequest EXCEPT !.pc = "cancel", !.draft = d])
  /\ UNCHANGED <<asset, object, upload, entry, task, worker, mishaps>>

CancelWrite(r) ==
  /\ ReqAt(r, "cancel")
  /\ SetDraft(request[r].draft, "READY")
  /\ Finish(r)
  /\ UNCHANGED <<asset, object, upload, entry, task, worker, mishaps>>

Archive(r, d) ==
  /\ ReqAt(r, "idle")
  /\ SetDraft(d, "OTHER")
  /\ UNCHANGED <<asset, object, upload, entry, task, worker, request, mishaps>>

(* syncDraftStatus of the API and of the publish worker: a draft with jobs *)
(* takes the status its jobs give it (ResolveDraftStatus, PublishStatus).  *)
(* Which one that is, the jobs decide, and they are not modelled here.     *)
SyncDraftStatus(d) ==
  /\ draft[d].jobs
  /\ \E s \in {"READY", "SCHEDULED", "OTHER"} : SetDraft(d, s)
  /\ UNCHANGED <<asset, object, upload, entry, task, worker, request, mishaps>>

(* A call of the request throws, or the API dies: what it has written stays. *)
RequestFails(r) ==
  /\ ~ReqAt(r, "idle")
  /\ Finish(r)
  /\ UNCHANGED <<asset, object, upload, draft, entry, task, worker, mishaps>>

-----------------------------------------------------------------------------
(* processMediaIngest *)

AtStep(p, pc) == worker[p].pc = pc
AssetOf(p) == task[worker[p].entry].asset
Proceed(p, pc) == worker' = [worker EXCEPT ![p].pc = pc]
Leave(p) == worker' = [worker EXCEPT ![p] = IdleWorker]

Start(p, e) ==
  /\ AtStep(p, "idle")
  /\ entry[e].state = "waiting"
  /\ entry' = Take(entry, e)
  /\ worker' = [worker EXCEPT ![p] = [pc |-> "download", entry |-> e]]
  /\ UNCHANGED <<asset, object, upload, draft, task, request, mishaps>>

(* downloadObject throws when there is nothing to download. *)
Download(p) ==
  /\ AtStep(p, "download")
  /\ Proceed(p, IF AssetOf(p) \notin object THEN "markFailed"
                ELSE IF AssetOf(p) \in Converted THEN "convert" ELSE "saveOriginal")
  /\ UNCHANGED <<asset, object, upload, draft, entry, task, request, mishaps>>

AddVariant(p, kind) == asset' = [asset EXCEPT ![AssetOf(p)].variants = @ \cup {kind}]

(* normalizeVideo, its upload, and the upsert of the normalized variant. *)
Convert(p) ==
  /\ AtStep(p, "convert")
  /\ AddVariant(p, "normalized")
  /\ Proceed(p, "saveOriginal")
  /\ UNCHANGED <<object, upload, draft, entry, task, request, mishaps>>

(* Seeded slip: the variant of a converted video replaces the original. *)
SaveOriginalUnlessConverted(p) ==
  /\ AtStep(p, "saveOriginal")
  /\ IF AssetOf(p) \in Converted THEN UNCHANGED asset ELSE AddVariant(p, "original")
  /\ Proceed(p, "clearThumbnails")
  /\ UNCHANGED <<object, upload, draft, entry, task, request, mishaps>>

(* The thumbnail file, and the upsert of the original variant. *)
SaveOriginal(p) ==
  /\ AtStep(p, "saveOriginal")
  /\ AddVariant(p, "original")
  /\ Proceed(p, "clearThumbnails")
  /\ UNCHANGED <<object, upload, draft, entry, task, request, mishaps>>

(* Seeded slip: old thumbnails are kept. *)
ClearNoThumbnails(p) ==
  /\ AtStep(p, "clearThumbnails")
  /\ Proceed(p, "addThumbnail")
  /\ UNCHANGED <<asset, object, upload, draft, entry, task, request, mishaps>>

ClearThumbnails(p) ==
  /\ AtStep(p, "clearThumbnails")
  /\ asset' = [asset EXCEPT ![AssetOf(p)].thumbnails = 0]
  /\ Proceed(p, "addThumbnail")
  /\ UNCHANGED <<object, upload, draft, entry, task, request, mishaps>>

AddThumbnail(p) ==
  /\ AtStep(p, "addThumbnail")
  /\ asset' = [asset EXCEPT ![AssetOf(p)].thumbnails = @ + 1]
  /\ Proceed(p, "markReady")
  /\ UNCHANGED <<object, upload, draft, entry, task, request, mishaps>>

(* Seeded slip: the worker writes the platforms' word for it. *)
MarkReadyRaw(p) ==
  /\ AtStep(p, "markReady")
  /\ SetStatus(AssetOf(p), "FINISHED")
  /\ Proceed(p, "done")
  /\ UNCHANGED <<object, upload, draft, entry, task, request, mishaps>>

(* Whatever the status was: a deletion meanwhile is overwritten. *)
MarkReady(p) ==
  /\ AtStep(p, "markReady")
  /\ SetStatus(AssetOf(p), "READY")
  /\ Proceed(p, "done")
  /\ UNCHANGED <<object, upload, draft, entry, task, request, mishaps>>

Return(p) ==
  /\ AtStep(p, "done")
  /\ entry' = Complete(entry, worker[p].entry)
  /\ Leave(p)
  /\ UNCHANGED <<asset, object, upload, draft, task, request, mishaps>>

(* ffprobe, ffmpeg, sharp, storage or Postgres fail inside the try block. *)
ProcessingFails(p) ==
  /\ worker[p].pc \in {"download", "convert", "saveOriginal", "clearThumbnails",
                       "addThumbnail", "markReady"}
  /\ Proceed(p, "markFailed")
  /\ UNCHANGED <<asset, object, upload, draft, entry, task, request, mishaps>>

GiveUp(p) ==
  /\ entry' = Throw(entry, worker[p].entry, task[worker[p].entry].tries)
  /\ Leave(p)

(* Seeded slip: the error is thrown on without marking the asset. *)
MarkFailedNot(p) ==
  /\ AtStep(p, "markFailed")
  /\ GiveUp(p)
  /\ UNCHANGED <<asset, object, upload, draft, task, request, mishaps>>

MarkFailed(p) ==
  /\ AtStep(p, "markFailed")
  /\ SetStatus(AssetOf(p), "FAILED")
  /\ GiveUp(p)
  /\ UNCHANGED <<object, upload, draft, task, request, mishaps>>

(* The catch block's own update fails. *)
MarkFailedFails(p) ==
  /\ AtStep(p, "markFailed")
  /\ mishaps < MaxMishaps /\ mishaps' = mishaps + 1
  /\ GiveUp(p)
  /\ UNCHANGED <<asset, object, upload, draft, task, request>>

Crash(p) ==
  /\ ~AtStep(p, "idle")
  /\ mishaps < MaxMishaps /\ mishaps' = mishaps + 1
  /\ Leave(p)
  /\ UNCHANGED <<asset, object, upload, draft, entry, task, request>>

StallEntry(e) ==
  /\ entry[e].state = "active"
  /\ \A p \in Processes : worker[p].entry # e
  /\ entry' = Stall(entry, e)
  /\ UNCHANGED <<asset, object, upload, draft, task, worker, request, mishaps>>

-----------------------------------------------------------------------------
(* uploadSingleFile and uploadMultipartFile, the two ways the browser      *)
(* uploads a file; it may be left after any of their steps.                *)
UploadSingleFile(r, a) == InitUpload(r, a) \/ PutObject(a) \/ CompleteUpload(r, a)

UploadMultipartFile(r, a) ==
  \/ InitMultipartUpload(r, a) \/ UploadParts(a)
  \/ CompleteMultipartUpload(r, a) \/ AbortMultipartUpload(r, a)

MediaRequest(r) ==
  \/ \E a \in Assets :
       \/ UploadSingleFile(r, a) \/ UploadMultipartFile(r, a)
       \/ Reprocess(r, a) \/ DeleteCheck(r, a)
  \/ StoreUploadId(r) \/ FindObject(r) \/ Finalize(r) \/ MarkAborted(r)
  \/ Enqueue(r) \/ EnqueueSkipped(r) \/ DeleteWrite(r)

DraftRequest(r) ==
  \/ \E d \in Drafts :
       \/ UpdateText(r, d)
       \/ \E media \in SUBSET Assets : UpdateMedia(r, d, media)
       \/ PublishCheck(r, d) \/ ScheduleCheck(r, d) \/ Reschedule(r, d)
       \/ Cancel(r, d) \/ Archive(r, d)
  \/ SelectMedia(r) \/ ReadSelections(r) \/ CountReady(r) \/ SaveReadiness(r)
  \/ PublishWrite(r) \/ CreateJobs(r) \/ ScheduleWrite(r)
  \/ CancelWrite(r)

IngestStep(p) ==
  \/ \E e \in Entries : Start(p, e)
  \/ Download(p) \/ Convert(p) \/ SaveOriginal(p) \/ ClearThumbnails(p)
  \/ AddThumbnail(p) \/ MarkReady(p) \/ Return(p) \/ MarkFailed(p)

Next ==
  \/ \E r \in Requests : MediaRequest(r) \/ DraftRequest(r) \/ RequestFails(r)
  \/ \E d \in Drafts : SyncDraftStatus(d)
  \/ \E p \in Processes :
       IngestStep(p) \/ ProcessingFails(p) \/ MarkFailedFails(p) \/ Crash(p)
  \/ \E e \in Entries : StallEntry(e)

(* The workers take what is queued and finish what they took; BullMQ finds *)
(* stalled entries.  Nothing is assumed of requests, uploads or failures.  *)
Spec ==
  /\ Init /\ [][Next]_vars
  /\ \A p \in Processes : WF_vars(IngestStep(p))
  /\ \A e \in Entries : WF_vars(StallEntry(e))

-----------------------------------------------------------------------------
(* Properties. *)

(* A READY asset can be published: its file is in storage, and so is the   *)
(* normalized variant the media resolver prefers, although uploads, runs,  *)
(* retries, reprocessing and deletions overlap.                            *)
ReadyIsPublishable ==
  \A a \in Assets : asset[a].status = "READY" =>
    /\ a \in object
    /\ "original" \in asset[a].variants
    /\ a \in Converted => "normalized" \in asset[a].variants

(* An asset whose entries have all completed has exactly one thumbnail,    *)
(* however often it was processed and wherever a crash or a failing try    *)
(* interrupted a run, and it never has two (with one worker process: two   *)
(* may both clear and then both add).                                      *)
OneThumbnail ==
  \A a \in Assets :
    /\ asset[a].thumbnails <= 1
    /\ asset[a].status = "READY"
       /\ (\A e \in Entries : task[e].asset = a => entry[e].state = "completed")
       => asset[a].thumbnails = 1

(* An asset whose processing is queued leaves PROCESSING, in spite of a    *)
(* crash and of failing tries.                                             *)
QueuedIngestSettles ==
  \A a \in Assets :
    asset[a].status = "PROCESSING" /\ (\E e \in Entries : task[e].asset = a /\ entry[e] = Fresh)
    ~> asset[a].status # "PROCESSING"

(* docs/media-pipeline.md: "Safe delete checks for READY/SCHEDULED draft   *)
(* references."  So no deletion takes an asset such a draft uses.          *)
SafeDelete ==
  [][\A r \in Requests : DeleteWrite(r) => ~InUse(request[r].asset)]_vars
=============================================================================

------------------------- MODULE MediaLibraryProofs -------------------------
(***************************************************************************)
(* Proofs about MediaLibrary, for every set of assets, drafts, requests    *)
(* and worker processes (any number of each) and every choice of bounds.   *)
(*                                                                         *)
(* The heart of the inductive invariant is WorkerKnows: what a run of      *)
(* processMediaIngest has made sure of before it writes READY.  Nobody     *)
(* takes it back: files and variants are never removed.                    *)
(***************************************************************************)
EXTENDS MediaLibrary, JobQueueProofs

(* A request under way works on an asset or on a draft. *)
Fits(q) ==
  /\ q.pc \in {"storeUploadId", "find", "finalize", "enqueue", "abort", "delete"} =>
       q.asset \in Assets
  /\ q.pc \in {"select", "readiness", "count", "saveReadiness", "publish", "publishJobs",
               "scheduleJobs", "schedule", "cancel"} =>
       q.draft \in Drafts

(* What BullMQ holds names an asset. *)
EntryFits(e) == entry[e].state # "absent" => task[e].asset \in Assets

(* A busy worker works on an entry that names an asset. *)
WorkerFits(p) ==
  worker[p].pc # "idle" => worker[p].entry \in Entries /\ AssetOf(p) \in Assets

(* What a run has made sure of before it marks the asset READY. *)
WorkerKnows(p) ==
  /\ worker[p].pc \in {"convert", "saveOriginal", "clearThumbnails", "addThumbnail", "markReady"} =>
       AssetOf(p) \in object
  /\ worker[p].pc \in {"saveOriginal", "clearThumbnails", "addThumbnail", "markReady"} =>
       (AssetOf(p) \in Converted => "normalized" \in asset[AssetOf(p)].variants)
  /\ worker[p].pc \in {"clearThumbnails", "addThumbnail", "markReady"} =>
       "original" \in asset[AssetOf(p)].variants

Shape ==
  /\ TypeOK
  /\ \A r \in Requests : Fits(request[r])
  /\ \A e \in Entries : EntryFits(e)
  /\ \A p \in Processes : WorkerFits(p)

IInv ==
  /\ Shape
  /\ \A p \in Processes : WorkerKnows(p)
  /\ ReadyIsPublishable

-----------------------------------------------------------------------------
(* Types. *)

(* Replacing one row keeps the asset table well formed. *)
LEMMA RowType ==
  ASSUME TypeOK, NEW a \in Assets, NEW row \in AssetRow, asset' = [asset EXCEPT ![a] = row]
  PROVE  asset' \in [Assets -> AssetRow]
BY DEF TypeOK

(* Writing a status keeps the asset table well formed. *)
LEMMA SetStatusType ==
  ASSUME TypeOK, NEW a \in Assets, NEW s \in MediaStatus, SetStatus(a, s)
  PROVE  asset' \in [Assets -> AssetRow]
<1> DEFINE row == [asset[a] EXCEPT !.status = s]
<1>1. asset[a] \in AssetRow
  BY DEF TypeOK
<1>2. row \in AssetRow
  BY <1>1 DEF AssetRow
<1>3. asset' = [asset EXCEPT ![a] = row]
  BY DEF SetStatus
<1> HIDE DEF row
<1> QED BY <1>2, <1>3, RowType

(* Replacing the locals of one request keeps them all well formed. *)
LEMMA GoFits ==
  ASSUME Shape, NEW r \in Requests, NEW new \in Request, Fits(new), Go(r, new)
  PROVE  /\ request' \in [Requests -> Request]
         /\ \A x \in Requests : Fits(request'[x])
<1>1. request' = [request EXCEPT ![r] = new] /\ request \in [Requests -> Request]
  BY DEF Go, Shape, TypeOK
<1>2. request' \in [Requests -> Request]
  BY <1>1
<1>3. \A x \in Requests : request'[x] = IF x = r THEN new ELSE request[x]
  BY <1>1
<1> QED BY <1>2, <1>3 DEF Shape

(* A request that ends leaves well-formed locals. *)
LEMMA FinishFits ==
  ASSUME Shape, NEW r \in Requests, Finish(r)
  PROVE  /\ request' \in [Requests -> Request]
         /\ \A x \in Requests : Fits(request'[x])
<1>1. IdleRequest \in Request /\ Fits(IdleRequest)
  BY DEF IdleRequest, Request, RequestPC, Fits
<1> QED BY <1>1, GoFits DEF Finish

(* A request that starts on an asset has well-formed locals. *)
LEMMA OnAsset ==
  ASSUME NEW a \in Assets, NEW n \in Nat,
         NEW pc \in {"storeUploadId", "find", "enqueue", "abort", "delete"}
  PROVE  /\ [IdleRequest EXCEPT !.pc = pc, !.asset = a] \in Request
         /\ Fits([IdleRequest EXCEPT !.pc = pc, !.asset = a])
         /\ [IdleRequest EXCEPT !.pc = pc, !.asset = a, !.tries = n] \in Request
         /\ Fits([IdleRequest EXCEPT !.pc = pc, !.asset = a, !.tries = n])
BY DEF IdleRequest, Request, RequestPC, Fits

(* A request that starts on a draft has well-formed locals. *)
LEMMA OnDraft ==
  ASSUME NEW d \in Drafts, NEW media \in SUBSET Assets,
         NEW pc \in {"select", "readiness", "publish", "scheduleJobs", "schedule", "cancel"}
  PROVE  /\ [IdleRequest EXCEPT !.pc = pc, !.draft = d] \in Request
         /\ Fits([IdleRequest EXCEPT !.pc = pc, !.draft = d])
         /\ [IdleRequest EXCEPT !.pc = pc, !.draft = d, !.media = media] \in Request
         /\ Fits([IdleRequest EXCEPT !.pc = pc, !.draft = d, !.media = media])
BY DEF IdleRequest, Request, RequestPC, Fits

(* The requests of MediaService keep everything well formed. *)
LEMMA MediaRequestShape ==
  ASSUME Shape, NEW r \in Requests, MediaRequest(r)
  PROVE  Shape'
<1> DEFINE RequestsFit == /\ request' \in [Requests -> Request]
                          /\ \A x \in Requests : Fits(request'[x])
<1>a. request[r] \in Request /\ Fits(request[r]) /\ TypeOK
  BY DEF Shape, TypeOK
<1>b. IngestTries \in Nat /\ ReprocessTries \in Nat
  BY MediaAssumption
<1>c. ASSUME asset' \in [Assets -> AssetRow], RequestsFit,
             object' \subseteq Assets,
             upload' \in [Assets -> UploadState],
             UNCHANGED <<draft, entry, task, worker, mishaps>>
      PROVE  Shape'
  BY <1>c DEF Shape, TypeOK, EntryFits, WorkerFits, AssetOf
<1>d. ASSUME UNCHANGED request PROVE RequestsFit
  BY <1>d DEF Shape, TypeOK
<1> HIDE DEF RequestsFit
<1>e. asset \in [Assets -> AssetRow] /\ object \subseteq Assets
      /\ upload \in [Assets -> UploadState]
  BY <1>a DEF TypeOK
<1>f. {"open", "uploaded", "completed", "aborted"} \subseteq UploadState
  BY DEF UploadState
<1>1. ASSUME NEW a \in Assets, InitUpload(r, a) PROVE Shape'
  <2>1. asset' \in [Assets -> AssetRow]
    BY <1>1, <1>a, SetStatusType DEF InitUpload, MediaStatus
  <2> QED BY <2>1, <1>1, <1>c, <1>d, <1>e DEF InitUpload
<1>2. ASSUME NEW a \in Assets, InitMultipartUpload(r, a) PROVE Shape'
  <2>1. asset' \in [Assets -> AssetRow]
    BY <1>2, <1>a, SetStatusType DEF InitMultipartUpload, MediaStatus
  <2>2. RequestsFit
    BY <1>2, OnAsset, GoFits DEF InitMultipartUpload, Begin, RequestsFit
  <2> QED BY <2>1, <2>2, <1>2, <1>c, <1>e, <1>f DEF InitMultipartUpload
<1>3. ASSUME NEW a \in Assets, CompleteUpload(r, a) PROVE Shape'
  <2>1. RequestsFit
    BY <1>3, OnAsset, GoFits DEF CompleteUpload, Begin, RequestsFit
  <2> QED BY <2>1, <1>3, <1>c, <1>e DEF CompleteUpload
<1>4. ASSUME NEW a \in Assets, CompleteMultipartUpload(r, a) PROVE Shape'
  <2>1. RequestsFit
    BY <1>4, OnAsset, GoFits DEF CompleteMultipartUpload, Begin, RequestsFit
  <2> QED BY <2>1, <1>4, <1>c, <1>e, <1>f DEF CompleteMultipartUpload
<1>5. ASSUME NEW a \in Assets, AbortMultipartUpload(r, a) PROVE Shape'
  <2>1. RequestsFit
    BY <1>5, OnAsset, GoFits DEF AbortMultipartUpload, Begin, RequestsFit
  <2> QED BY <2>1, <1>5, <1>c, <1>e, <1>f DEF AbortMultipartUpload
<1>6. ASSUME NEW a \in Assets, Reprocess(r, a) PROVE Shape'
  <2>1. asset' \in [Assets -> AssetRow]
    BY <1>6, <1>a, SetStatusType DEF Reprocess, MediaStatus
  <2>2. RequestsFit
    BY <1>6, <1>b, OnAsset, GoFits DEF Reprocess, Begin, RequestsFit
  <2> QED BY <2>1, <2>2, <1>6, <1>c, <1>e DEF Reprocess
<1>7. ASSUME NEW a \in Assets, DeleteCheck(r, a) PROVE Shape'
  <2>1. RequestsFit
    BY <1>7, OnAsset, GoFits DEF DeleteCheck, Begin, RequestsFit
  <2> QED BY <2>1, <1>7, <1>c, <1>e DEF DeleteCheck
<1>8. CASE StoreUploadId(r)
  <2>1. request[r].asset \in Assets
    BY <1>8, <1>a DEF StoreUploadId, ReqAt, Fits
  <2>2. asset' \in [Assets -> AssetRow]
    BY <2>1, <1>8, <1>e DEF StoreUploadId, AssetRow
  <2>3. RequestsFit
    BY <1>8, FinishFits DEF StoreUploadId, RequestsFit
  <2> QED BY <2>2, <2>3, <1>8, <1>c, <1>e DEF StoreUploadId
<1>9. CASE FindObject(r)
  <2> DEFINE new == [request[r] EXCEPT !.pc = "finalize"]
  <2>1. request[r].asset \in Assets
    BY <1>9, <1>a DEF FindObject, ReqAt, Fits
  <2>2. new \in Request /\ Fits(new)
    BY <2>1, <1>a DEF Request, RequestPC, Fits
  <2>3. Go(r, new) \/ Finish(r)
    BY <1>9 DEF FindObject
  <2> HIDE DEF new
  <2>4. RequestsFit
    BY <2>2, <2>3, GoFits, FinishFits DEF RequestsFit
  <2> QED BY <2>4, <1>9, <1>c, <1>e DEF FindObject
<1>10. CASE Finalize(r)
  <2> DEFINE new == [request[r] EXCEPT !.pc = "enqueue", !.tries = IngestTries]
  <2>1. request[r].asset \in Assets
    BY <1>10, <1>a DEF Finalize, ReqAt, Fits
  <2>2. new \in Request /\ Fits(new)
    BY <2>1, <1>a, <1>b DEF Request, RequestPC, Fits
  <2>3. Go(r, new)
    BY <1>10 DEF Finalize
  <2> HIDE DEF new
  <2>4. RequestsFit
    BY <2>2, <2>3, GoFits DEF RequestsFit
  <2>5. asset' \in [Assets -> AssetRow]
    BY <2>1, <1>10, <1>a, SetStatusType DEF Finalize, MediaStatus
  <2> QED BY <2>4, <2>5, <1>10, <1>c, <1>e DEF Finalize
<1>11. CASE MarkAborted(r)
  <2>1. request[r].asset \in Assets
    BY <1>11, <1>a DEF MarkAborted, ReqAt, Fits
  <2>2. asset' \in [Assets -> AssetRow]
    BY <2>1, <1>11, <1>a, SetStatusType DEF MarkAborted, MediaStatus
  <2>3. RequestsFit
    BY <1>11, FinishFits DEF MarkAborted, RequestsFit
  <2> QED BY <2>2, <2>3, <1>11, <1>c, <1>e DEF MarkAborted
<1>12. CASE Enqueue(r)
  <2>1. request[r].asset \in Assets /\ request[r].tries \in Nat
    BY <1>12, <1>a DEF Enqueue, ReqAt, Fits, Request
  <2>2. RequestsFit
    BY <1>12, FinishFits DEF Enqueue, RequestsFit
  <2>3. PICK e \in Entries :
          /\ entry[e] = Absent /\ task[e].asset = None
          /\ entry' = Add(entry, e)
          /\ task' = [task EXCEPT ![e] = [asset |-> request[r].asset,
                                          tries |-> request[r].tries]]
    BY <1>12 DEF Enqueue
  <2>4. entry \in [Entries -> Entry] /\ task \in [Entries -> Task]
    BY <1>a DEF TypeOK
  <2>5. entry' \in [Entries -> Entry]
    BY <2>3, <2>4, QueueType, <1>b
  <2>6. task' \in [Entries -> Task]
    BY <2>1, <2>3, <2>4 DEF Task
  <2>7. \A x \in Entries \ {e} : entry'[x] = entry[x] /\ task'[x] = task[x]
    BY <2>3, <2>4, QueueFrame, <1>b
  <2>8. \A x \in Entries : EntryFits(x)'
    BY <2>1, <2>3, <2>4, <2>7 DEF EntryFits, Shape
  <2>9. \A p \in Processes : WorkerFits(p)'
    <3> SUFFICES ASSUME NEW p \in Processes, worker[p].pc # "idle"
                 PROVE  worker[p].entry \in Entries /\ task'[worker[p].entry].asset \in Assets
      BY <1>12 DEF Enqueue, WorkerFits, AssetOf
    <3>1. worker[p].entry \in Entries /\ task[worker[p].entry].asset \in Assets
      BY DEF Shape, WorkerFits, AssetOf
    <3>2. worker[p].entry # e
      BY <3>1, <2>3, MediaAssumption
    <3> QED BY <3>1, <3>2, <2>7
  <2>10. TypeOK'
    BY <1>12, <1>a, <2>2, <2>5, <2>6 DEF Enqueue, TypeOK, RequestsFit
  <2> QED BY <2>2, <2>8, <2>9, <2>10 DEF Shape, RequestsFit
<1>13. CASE EnqueueSkipped(r)
  <2>1. RequestsFit
    BY <1>13, FinishFits DEF EnqueueSkipped, RequestsFit
  <2> QED BY <2>1, <1>13, <1>c, <1>e DEF EnqueueSkipped
<1>14. CASE DeleteWrite(r)
  <2>1. request[r].asset \in Assets
    BY <1>14, <1>a DEF DeleteWrite, ReqAt, Fits
  <2>2. asset' \in [Assets -> AssetRow]
    BY <2>1, <1>14, <1>a, SetStatusType DEF DeleteWrite, MediaStatus
  <2>3. RequestsFit
    BY <1>14, FinishFits DEF DeleteWrite, RequestsFit
  <2> QED BY <2>2, <2>3, <1>14, <1>c, <1>e DEF DeleteWrite
<1>15. ASSUME NEW a \in Assets, PutObject(a) PROVE Shape'
  BY <1>15, <1>c, <1>d, <1>e DEF PutObject
<1>16. ASSUME NEW a \in Assets, UploadParts(a) PROVE Shape'
  BY <1>16, <1>c, <1>d, <1>e, <1>f DEF UploadParts
<1> QED
  BY <1>1, <1>2, <1>3, <1>4, <1>5, <1>6, <1>7, <1>8, <1>9, <1>10, <1>11, <1>12, <1>13, <1>14,
     <1>15, <1>16
     DEF MediaRequest, UploadSingleFile, UploadMultipartFile

(* A request that goes on with its draft has well-formed locals. *)
LEMMA OnSameDraft ==
  ASSUME NEW q \in Request, q.draft \in Drafts, NEW pc \in {"publishJobs", "schedule"}
  PROVE  [q EXCEPT !.pc = pc] \in Request /\ Fits([q EXCEPT !.pc = pc])
BY DEF Request, RequestPC, Fits

(* Writing a status keeps the draft table well formed. *)
LEMMA SetDraftType ==
  ASSUME Shape, NEW d \in Drafts, NEW s \in {"READY", "SCHEDULED", "OTHER"}, SetDraft(d, s)
  PROVE  draft' \in [Drafts -> DraftRow]
<1> DEFINE row == [draft[d] EXCEPT !.status = s]
<1>1. draft \in [Drafts -> DraftRow]
  BY DEF Shape, TypeOK
<1>2. row \in DraftRow
  BY <1>1 DEF DraftRow
<1>3. draft' = [draft EXCEPT ![d] = row]
  BY DEF SetDraft
<1> HIDE DEF row
<1> QED BY <1>1, <1>2, <1>3

(* Only the draft is written by DraftsService, by what the jobs make of it *)
(* and, if anything, before a request is cut off.                          *)
LEMMA DraftFrame ==
  ASSUME \/ \E r \in Requests : DraftRequest(r) \/ RequestFails(r)
         \/ \E d \in Drafts : SyncDraftStatus(d)
  PROVE  UNCHANGED <<asset, object, upload, entry, task, worker, mishaps>>
BY DEF DraftRequest, UpdateText, UpdateMedia, SelectMedia, ReadSelections, CountReady,
       SaveReadiness, PublishCheck, PublishWrite, ScheduleCheck, CreateJobs, Reschedule,
       ScheduleWrite, Cancel, CancelWrite, Archive, RequestFails, SyncDraftStatus

(* The requests of DraftsService keep everything well formed. *)
LEMMA DraftRequestShape ==
  ASSUME Shape, NEW r \in Requests, DraftRequest(r)
  PROVE  Shape'
<1> DEFINE RequestsFit == /\ request' \in [Requests -> Request]
                          /\ \A x \in Requests : Fits(request'[x])
<1>a. request[r] \in Request /\ Fits(request[r]) /\ draft \in [Drafts -> DraftRow]
  BY DEF Shape, TypeOK
<1>b. ASSUME draft' \in [Drafts -> DraftRow], RequestsFit,
             UNCHANGED <<asset, object, upload, entry, task, worker, mishaps>>
      PROVE  Shape'
  BY <1>b DEF Shape, TypeOK, EntryFits, WorkerFits, AssetOf
<1>c. ASSUME NEW d \in Drafts, NEW row \in DraftRow, draft' = [draft EXCEPT ![d] = row]
      PROVE  draft' \in [Drafts -> DraftRow]
  BY <1>a, <1>c
<1> HIDE DEF RequestsFit
<1>1. ASSUME NEW d \in Drafts, UpdateText(r, d) PROVE Shape'
  <2>1. RequestsFit
    BY <1>1, OnDraft, GoFits DEF UpdateText, Begin, RequestsFit
  <2> QED BY <2>1, <1>1, <1>a, <1>b DEF UpdateText
<1>2. ASSUME NEW d \in Drafts, NEW media \in SUBSET Assets, UpdateMedia(r, d, media)
      PROVE  Shape'
  <2> DEFINE row == [draft[d] EXCEPT !.media = {}]
  <2>1. RequestsFit
    BY <1>2, OnDraft, GoFits DEF UpdateMedia, Begin, RequestsFit
  <2>2. draft[d] \in DraftRow
    BY <1>a
  <2>3. row \in DraftRow
    BY <2>2 DEF DraftRow
  <2>4. draft' = [draft EXCEPT ![d] = row]
    BY <1>2 DEF UpdateMedia
  <2> HIDE DEF row
  <2> QED BY <2>1, <2>3, <2>4, <1>2, <1>b, <1>c DEF UpdateMedia
<1>3. ASSUME NEW d \in Drafts, ScheduleCheck(r, d) PROVE Shape'
  <2>1. RequestsFit
    BY <1>3, OnDraft, GoFits DEF ScheduleCheck, Begin, RequestsFit
  <2> QED BY <2>1, <1>3, <1>a, <1>b DEF ScheduleCheck
<1>4. CASE SelectMedia(r)
  <2> DEFINE d == request[r].draft
             row == [draft[d] EXCEPT !.media = @ \cup request[r].media]
             new == [request[r] EXCEPT !.pc = "readiness", !.media = {}]
  <2>1. d \in Drafts /\ request[r].media \subseteq Assets
    BY <1>4, <1>a DEF SelectMedia, ReqAt, Fits, Request
  <2>2. draft[d] \in DraftRow
    BY <2>1, <1>a
  <2>3. row \in DraftRow
    BY <2>1, <2>2 DEF DraftRow
  <2>4. new \in Request /\ Fits(new)
    BY <2>1, <1>a DEF Request, RequestPC, Fits
  <2>5. CASE draft' = [draft EXCEPT ![d] = row] /\ Go(r, new)
    <3> HIDE DEF row, new, d
    <3>1. RequestsFit
      BY <2>4, <2>5, GoFits DEF RequestsFit
    <3> QED BY <3>1, <2>1, <2>3, <2>5, <1>4, <1>b, <1>c DEF SelectMedia
  <2>6. CASE Finish(r) /\ UNCHANGED draft
    BY <2>6, <1>4, <1>a, <1>b, FinishFits DEF SelectMedia, RequestsFit
  <2> QED BY <2>5, <2>6, <1>4 DEF SelectMedia
<1>5. CASE ReadSelections(r)
  <2> DEFINE new == [request[r] EXCEPT !.pc = "count", !.media = draft[request[r].draft].media]
  <2>1. request[r].draft \in Drafts
    BY <1>5, <1>a DEF ReadSelections, ReqAt, Fits
  <2>2. draft[request[r].draft].media \subseteq Assets
    BY <2>1, <1>a DEF DraftRow
  <2>3. new \in Request /\ Fits(new)
    BY <2>1, <2>2, <1>a DEF Request, RequestPC, Fits
  <2>4. Go(r, new)
    BY <1>5 DEF ReadSelections
  <2> HIDE DEF new
  <2>5. RequestsFit
    BY <2>3, <2>4, GoFits DEF RequestsFit
  <2> QED BY <2>5, <1>5, <1>a, <1>b DEF ReadSelections
<1>6. CASE CountReady(r)
  <2> DEFINE ok == request[r].media # {} /\ request[r].media \subseteq ReadyMedia
             new == [request[r] EXCEPT !.pc = "saveReadiness", !.ready = ok]
  <2>1. request[r].draft \in Drafts
    BY <1>6, <1>a DEF CountReady, ReqAt, Fits
  <2>2. ok \in BOOLEAN
    OBVIOUS
  <2>3. Go(r, new)
    BY <1>6 DEF CountReady
  <2>4. new \in Request /\ Fits(new)
    <3> HIDE DEF ok
    <3> QED BY <2>1, <2>2, <1>a DEF Request, RequestPC, Fits
  <2> HIDE DEF new
  <2>5. RequestsFit
    BY <2>3, <2>4, GoFits DEF RequestsFit
  <2> QED BY <2>5, <1>6, <1>a, <1>b DEF CountReady
<1>7. CASE SaveReadiness(r) \/ ScheduleWrite(r) \/ CancelWrite(r)
  <2>1. request[r].draft \in Drafts
    BY <1>7, <1>a DEF SaveReadiness, ScheduleWrite, CancelWrite, ReqAt, Fits
  <2>2. draft' \in [Drafts -> DraftRow]
    BY <2>1, <1>7, SetDraftType DEF SaveReadiness, ScheduleWrite, CancelWrite
  <2>3. RequestsFit
    BY <1>7, FinishFits DEF SaveReadiness, ScheduleWrite, CancelWrite, RequestsFit
  <2> QED BY <2>2, <2>3, <1>7, <1>b DEF SaveReadiness, ScheduleWrite, CancelWrite
<1>8. CASE PublishWrite(r)
  <2>1. request[r].draft \in Drafts
    BY <1>8, <1>a DEF PublishWrite, ReqAt, Fits
  <2>2. draft' \in [Drafts -> DraftRow]
    BY <2>1, <1>8, SetDraftType DEF PublishWrite
  <2>3. RequestsFit
    BY <2>1, <1>8, <1>a, OnSameDraft, GoFits DEF PublishWrite, RequestsFit
  <2> QED BY <2>2, <2>3, <1>8, <1>b DEF PublishWrite
<1>9. CASE CreateJobs(r)
  <2> DEFINE d == request[r].draft
             published == [draft[d] EXCEPT !.jobs = TRUE]
             scheduled == [draft[d] EXCEPT !.jobs = TRUE, !.schedule = TRUE]
             new == [request[r] EXCEPT !.pc = "schedule"]
  <2>1. d \in Drafts
    BY <1>9, <1>a DEF CreateJobs, ReqAt, Fits
  <2>2. draft[d] \in DraftRow
    BY <2>1, <1>a
  <2>3. published \in DraftRow /\ scheduled \in DraftRow
    BY <2>2 DEF DraftRow
  <2>4. new \in Request /\ Fits(new)
    BY <2>1, <1>a, OnSameDraft
  <2>5. \/ draft' = [draft EXCEPT ![d] = published] /\ Finish(r)
        \/ draft' = [draft EXCEPT ![d] = scheduled] /\ Go(r, new)
    BY <1>9, <1>a, <2>1 DEF CreateJobs
  <2> HIDE DEF published, scheduled, new, d
  <2>6. draft' \in [Drafts -> DraftRow]
    BY <2>1, <2>3, <2>5, <1>c
  <2>7. RequestsFit
    BY <2>4, <2>5, GoFits, FinishFits DEF RequestsFit
  <2> QED BY <2>6, <2>7, <1>9, <1>b DEF CreateJobs
<1>10. ASSUME NEW d \in Drafts, PublishCheck(r, d) \/ Reschedule(r, d) PROVE Shape'
  <2>1. RequestsFit
    BY <1>10, OnDraft, GoFits DEF PublishCheck, Reschedule, Begin, RequestsFit
  <2> QED BY <2>1, <1>10, <1>a, <1>b DEF PublishCheck, Reschedule
<1>11. ASSUME NEW d \in Drafts, Cancel(r, d) PROVE Shape'
  <2> DEFINE row == [draft[d] EXCEPT !.schedule = FALSE]
  <2>1. RequestsFit
    BY <1>11, OnDraft, GoFits DEF Cancel, Begin, RequestsFit
  <2>2. draft[d] \in DraftRow
    BY <1>a
  <2>3. row \in DraftRow
    BY <2>2 DEF DraftRow
  <2>4. draft' = [draft EXCEPT ![d] = row]
    BY <1>11 DEF Cancel
  <2> HIDE DEF row
  <2> QED BY <2>1, <2>3, <2>4, <1>11, <1>b, <1>c DEF Cancel
<1>12. ASSUME NEW d \in Drafts, Archive(r, d) PROVE Shape'
  <2>1. draft' \in [Drafts -> DraftRow]
    BY <1>12, SetDraftType DEF Archive
  <2>2. RequestsFit
    BY <1>12 DEF Archive, RequestsFit, Shape, TypeOK
  <2> QED BY <2>1, <2>2, <1>12, <1>b DEF Archive
<1> QED
  BY <1>1, <1>2, <1>3, <1>4, <1>5, <1>6, <1>7, <1>8, <1>9, <1>10, <1>11, <1>12
     DEF DraftRequest

(* The steps of a worker, its failures included. *)
WorkerStep(p) == IngestStep(p) \/ ProcessingFails(p) \/ MarkFailedFails(p) \/ Crash(p)

(* Setting one worker's locals keeps all of them well formed. *)
LEMMA LocalsFit ==
  ASSUME Shape, NEW p \in Processes, UNCHANGED task,
         NEW new \in [pc : WorkerPC, entry : Entries \cup {0}],
         new.pc # "idle" => new.entry \in Entries /\ task[new.entry].asset \in Assets,
         worker' = [worker EXCEPT ![p] = new]
  PROVE  /\ worker' \in [Processes -> [pc : WorkerPC, entry : Entries \cup {0}]]
         /\ \A x \in Processes : WorkerFits(x)'
<1>1. worker \in [Processes -> [pc : WorkerPC, entry : Entries \cup {0}]]
  BY DEF Shape, TypeOK
<1>2. \A x \in Processes : worker'[x] = IF x = p THEN new ELSE worker[x]
  BY <1>1
<1>3. worker' \in [Processes -> [pc : WorkerPC, entry : Entries \cup {0}]]
  BY <1>1
<1> QED BY <1>2, <1>3 DEF Shape, WorkerFits, AssetOf

(* A worker that goes on with its entry has well-formed locals. *)
LEMMA ProceedFits ==
  ASSUME Shape, NEW p \in Processes, UNCHANGED task, NEW pc \in WorkerPC,
         worker[p].pc # "idle", Proceed(p, pc)
  PROVE  /\ worker' \in [Processes -> [pc : WorkerPC, entry : Entries \cup {0}]]
         /\ \A x \in Processes : WorkerFits(x)'
<1> DEFINE new == [worker[p] EXCEPT !.pc = pc]
<1>1. worker[p] \in [pc : WorkerPC, entry : Entries \cup {0}] /\ WorkerFits(p)
  BY DEF Shape, TypeOK
<1>2. /\ new \in [pc : WorkerPC, entry : Entries \cup {0}]
      /\ new.entry \in Entries /\ task[new.entry].asset \in Assets
  BY <1>1 DEF WorkerFits, AssetOf
<1>3. worker' = [worker EXCEPT ![p] = new]
  BY DEF Proceed
<1> HIDE DEF new
<1> QED BY <1>2, <1>3, LocalsFit

(* A worker that is set free has well-formed locals. *)
LEMMA LeaveFits ==
  ASSUME Shape, NEW p \in Processes, UNCHANGED task, Leave(p)
  PROVE  /\ worker' \in [Processes -> [pc : WorkerPC, entry : Entries \cup {0}]]
         /\ \A x \in Processes : WorkerFits(x)'
<1>1. IdleWorker \in [pc : WorkerPC, entry : Entries \cup {0}] /\ IdleWorker.pc = "idle"
  BY DEF IdleWorker, WorkerPC
<1> QED BY <1>1, LocalsFit DEF Leave

(* Any step that keeps the parts well formed keeps the whole. *)
LEMMA WorkerParts ==
  ASSUME Shape,
         asset' \in [Assets -> AssetRow],
         worker' \in [Processes -> [pc : WorkerPC, entry : Entries \cup {0}]],
         \A x \in Processes : WorkerFits(x)',
         entry' \in [Entries -> Entry],
         \A e \in Entries :
           entry'[e].state # "absent" => entry[e].state # "absent" \/ task[e].asset \in Assets,
         mishaps' \in 0 .. MaxMishaps,
         UNCHANGED <<object, upload, draft, task, request>>
  PROVE  Shape'
BY DEF Shape, TypeOK, EntryFits

(* The steps of a worker keep everything well formed. *)
LEMMA WorkerShape ==
  ASSUME Shape, NEW p \in Processes, WorkerStep(p)
  PROVE  Shape'
<1> DEFINE Locals == [pc : WorkerPC, entry : Entries \cup {0}]
           LocalsOK == /\ worker' \in [Processes -> Locals]
                       /\ \A x \in Processes : WorkerFits(x)'
           QueueOK == /\ entry' \in [Entries -> Entry]
                      /\ \A e \in Entries :
                           entry'[e].state # "absent" =>
                             entry[e].state # "absent" \/ task[e].asset \in Assets
<1>a. /\ asset \in [Assets -> AssetRow] /\ entry \in [Entries -> Entry]
      /\ task \in [Entries -> Task] /\ mishaps \in 0 .. MaxMishaps /\ TypeOK
      /\ worker[p] \in Locals
  BY DEF Shape, TypeOK
<1>b. worker[p].pc # "idle" => worker[p].entry \in Entries /\ AssetOf(p) \in Assets
  BY DEF Shape, WorkerFits
<1>c. ASSUME asset' \in [Assets -> AssetRow], LocalsOK, QueueOK, mishaps' \in 0 .. MaxMishaps,
             UNCHANGED <<object, upload, draft, task, request>>
      PROVE  Shape'
  BY <1>c, WorkerParts
<1>d. ASSUME worker[p].pc # "idle", NEW pc \in WorkerPC, Proceed(p, pc), UNCHANGED task
      PROVE  LocalsOK
  BY <1>d, ProceedFits
<1>e. ASSUME Leave(p), UNCHANGED task PROVE LocalsOK
  BY <1>e, LeaveFits
<1>f. ASSUME UNCHANGED entry PROVE QueueOK
  BY <1>a, <1>f
<1>g. ASSUME NEW e \in Entries, NEW n \in Nat, task[e].asset \in Assets,
             entry' \in {Take(entry, e), Complete(entry, e), Throw(entry, e, n)}
      PROVE  QueueOK
  <2>1. entry' \in [Entries -> Entry]
    BY <1>a, <1>g, QueueType
  <2>2. \A x \in Entries \ {e} : entry'[x] = entry[x]
    BY <1>a, <1>g, QueueFrame
  <2> QED BY <2>1, <2>2, <1>g
<1>h. ASSUME NEW kind \in {"original", "normalized"}, AddVariant(p, kind), AssetOf(p) \in Assets
      PROVE  asset' \in [Assets -> AssetRow]
  <2> DEFINE row == [asset[AssetOf(p)] EXCEPT !.variants = @ \cup {kind}]
  <2>1. asset[AssetOf(p)] \in AssetRow
    BY <1>a, <1>h
  <2>2. row \in AssetRow
    BY <2>1 DEF AssetRow
  <2>3. asset' = [asset EXCEPT ![AssetOf(p)] = row]
    BY <1>h DEF AddVariant
  <2> HIDE DEF row
  <2> QED BY <1>a, <1>h, <2>2, <2>3, RowType
<1>i. ASSUME NEW n \in Nat, AssetOf(p) \in Assets,
             asset' = [asset EXCEPT ![AssetOf(p)].thumbnails = n]
      PROVE  asset' \in [Assets -> AssetRow]
  <2> DEFINE row == [asset[AssetOf(p)] EXCEPT !.thumbnails = n]
  <2>1. asset[AssetOf(p)] \in AssetRow
    BY <1>a, <1>i
  <2>2. row \in AssetRow
    BY <2>1 DEF AssetRow
  <2>3. asset' = [asset EXCEPT ![AssetOf(p)] = row]
    BY <1>i
  <2> HIDE DEF row
  <2> QED BY <1>a, <1>i, <2>2, <2>3, RowType
<1>j. /\ {"download", "convert", "saveOriginal", "clearThumbnails", "addThumbnail",
          "markReady", "markFailed", "done"} \subseteq WorkerPC
      /\ "READY" \in MediaStatus /\ "FAILED" \in MediaStatus
  BY DEF WorkerPC, MediaStatus
<1> HIDE DEF LocalsOK, QueueOK
<1>1. ASSUME NEW e \in Entries, Start(p, e) PROVE Shape'
  <2> DEFINE new == [pc |-> "download", entry |-> e]
  <2>1. task[e].asset \in Assets
    BY <1>1 DEF Start, Shape, EntryFits
  <2>2. new \in Locals /\ new.entry = e
    BY <1>j
  <2>3. worker' = [worker EXCEPT ![p] = new] /\ UNCHANGED task
    BY <1>1 DEF Start
  <2> HIDE DEF new
  <2>4. LocalsOK
    BY <2>1, <2>2, <2>3, LocalsFit DEF LocalsOK
  <2>5. QueueOK
    BY <2>1, <1>1, <1>g DEF Start
  <2> QED BY <2>4, <2>5, <1>1, <1>a, <1>c DEF Start
<1>2. CASE Download(p)
  <2>1. LocalsOK
    BY <1>2, <1>d, <1>j DEF Download, AtStep
  <2> QED BY <2>1, <1>2, <1>a, <1>c, <1>f DEF Download
<1>3. CASE Convert(p)
  <2>1. LocalsOK /\ AssetOf(p) \in Assets
    BY <1>3, <1>b, <1>d, <1>j DEF Convert, AtStep
  <2>2. asset' \in [Assets -> AssetRow]
    BY <2>1, <1>3, <1>h DEF Convert
  <2> QED BY <2>1, <2>2, <1>3, <1>a, <1>c, <1>f DEF Convert
<1>4. CASE SaveOriginal(p)
  <2>1. LocalsOK /\ AssetOf(p) \in Assets
    BY <1>4, <1>b, <1>d, <1>j DEF SaveOriginal, AtStep
  <2>2. asset' \in [Assets -> AssetRow]
    BY <2>1, <1>4, <1>h DEF SaveOriginal
  <2> QED BY <2>1, <2>2, <1>4, <1>a, <1>c, <1>f DEF SaveOriginal
<1>5. CASE ClearThumbnails(p)
  <2>1. LocalsOK /\ AssetOf(p) \in Assets
    BY <1>5, <1>b, <1>d, <1>j DEF ClearThumbnails, AtStep
  <2>2. asset' \in [Assets -> AssetRow]
    BY <2>1, <1>5, <1>i DEF ClearThumbnails
  <2> QED BY <2>1, <2>2, <1>5, <1>a, <1>c, <1>f DEF ClearThumbnails
<1>6. CASE AddThumbnail(p)
  <2>1. LocalsOK /\ AssetOf(p) \in Assets
    BY <1>6, <1>b, <1>d, <1>j DEF AddThumbnail, AtStep
  <2>2. asset[AssetOf(p)].thumbnails + 1 \in Nat
    BY <2>1, <1>a DEF AssetRow
  <2>3. asset' = [asset EXCEPT ![AssetOf(p)].thumbnails = asset[AssetOf(p)].thumbnails + 1]
    BY <1>6 DEF AddThumbnail
  <2>4. asset' \in [Assets -> AssetRow]
    BY <2>1, <2>2, <2>3, <1>i
  <2> QED BY <2>1, <2>4, <1>6, <1>a, <1>c, <1>f DEF AddThumbnail
<1>7. CASE MarkReady(p)
  <2>1. LocalsOK /\ AssetOf(p) \in Assets
    BY <1>7, <1>b, <1>d, <1>j DEF MarkReady, AtStep
  <2>2. asset' \in [Assets -> AssetRow]
    BY <2>1, <1>7, <1>a, <1>j, SetStatusType DEF MarkReady
  <2> QED BY <2>1, <2>2, <1>7, <1>a, <1>c, <1>f DEF MarkReady
<1>k. ASSUME worker[p].pc # "idle", GiveUp(p), UNCHANGED task PROVE LocalsOK /\ QueueOK
  <2>1. LocalsOK
    BY <1>e, <1>k DEF GiveUp
  <2>2. worker[p].entry \in Entries /\ task[worker[p].entry].asset \in Assets
    BY <1>b, <1>k DEF AssetOf
  <2>3. task[worker[p].entry].tries \in Nat
    BY <2>2, <1>a DEF Task
  <2> QED BY <2>1, <2>2, <2>3, <1>g, <1>k DEF GiveUp
<1>8. CASE Return(p)
  <2>1. worker[p].entry \in Entries /\ task[worker[p].entry].asset \in Assets
    BY <1>8, <1>b DEF Return, AtStep, AssetOf
  <2>2. LocalsOK
    BY <1>8, <1>e DEF Return
  <2>3. QueueOK
    BY <2>1, <1>8, <1>g, 0 \in Nat DEF Return
  <2> QED BY <2>2, <2>3, <1>8, <1>a, <1>c DEF Return
<1>9. CASE MarkFailed(p)
  <2>1. LocalsOK /\ QueueOK /\ AssetOf(p) \in Assets
    BY <1>9, <1>b, <1>k DEF MarkFailed, AtStep
  <2>2. asset' \in [Assets -> AssetRow]
    BY <2>1, <1>9, <1>a, <1>j, SetStatusType DEF MarkFailed
  <2> QED BY <2>1, <2>2, <1>9, <1>a, <1>c DEF MarkFailed
<1>10. CASE ProcessingFails(p)
  <2>1. LocalsOK
    BY <1>10, <1>d, <1>j DEF ProcessingFails
  <2> QED BY <2>1, <1>10, <1>a, <1>c, <1>f DEF ProcessingFails
<1>l. ASSUME mishaps < MaxMishaps, mishaps' = mishaps + 1 PROVE mishaps' \in 0 .. MaxMishaps
  BY <1>a, <1>l, MediaAssumption DEF MediaAssumption
<1>11. CASE MarkFailedFails(p)
  <2>1. LocalsOK /\ QueueOK
    BY <1>11, <1>k DEF MarkFailedFails, AtStep
  <2> QED BY <2>1, <1>11, <1>a, <1>c, <1>l DEF MarkFailedFails
<1>12. CASE Crash(p)
  <2>1. LocalsOK /\ QueueOK
    BY <1>12, <1>e, <1>f DEF Crash
  <2> QED BY <2>1, <1>12, <1>a, <1>c, <1>l DEF Crash
<1> QED
  BY <1>1, <1>2, <1>3, <1>4, <1>5, <1>6, <1>7, <1>8, <1>9, <1>10, <1>11, <1>12
     DEF WorkerStep, IngestStep

(* What happens outside the requests' and the worker's own steps keeps     *)
(* everything well formed: BullMQ's stalled check, the status that jobs    *)
(* give their draft, and a request that is cut off.                        *)
LEMMA OutsideShape ==
  ASSUME Shape
  PROVE  /\ \A e \in Entries : StallEntry(e) => Shape'
         /\ \A d \in Drafts : SyncDraftStatus(d) => Shape'
         /\ \A r \in Requests : RequestFails(r) => Shape'
         /\ UNCHANGED vars => Shape'
<1>1. ASSUME NEW e \in Entries, StallEntry(e) PROVE Shape'
  <2>1. entry \in [Entries -> Entry] /\ task[e].asset \in Assets
    BY <1>1 DEF StallEntry, Shape, TypeOK, EntryFits
  <2>2. entry' \in [Entries -> Entry]
    BY <2>1, <1>1, QueueType, 0 \in Nat DEF StallEntry
  <2>3. \A x \in Entries \ {e} : entry'[x] = entry[x]
    BY <2>1, <1>1, QueueFrame, 0 \in Nat DEF StallEntry
  <2> QED BY <2>1, <2>2, <2>3, <1>1 DEF StallEntry, Shape, TypeOK, EntryFits, WorkerFits, AssetOf
<1>2. ASSUME UNCHANGED vars PROVE Shape'
  BY <1>2 DEF vars, Shape, TypeOK, EntryFits, WorkerFits, AssetOf
<1>3. ASSUME NEW d \in Drafts, SyncDraftStatus(d) PROVE Shape'
  <2>1. draft' \in [Drafts -> DraftRow]
    BY <1>3, SetDraftType DEF SyncDraftStatus
  <2> QED BY <2>1, <1>3
          DEF SyncDraftStatus, Shape, TypeOK, EntryFits, WorkerFits, AssetOf
<1>4. ASSUME NEW r \in Requests, RequestFails(r) PROVE Shape'
  <2>1. request' \in [Requests -> Request] /\ \A x \in Requests : Fits(request'[x])
    BY <1>4, FinishFits DEF RequestFails
  <2> QED BY <2>1, <1>4
          DEF RequestFails, Shape, TypeOK, EntryFits, WorkerFits, AssetOf
<1> QED BY <1>1, <1>2, <1>3, <1>4

(* Every step keeps everything well formed. *)
LEMMA ShapeStep == Shape /\ [Next]_vars => Shape'
BY MediaRequestShape, DraftRequestShape, WorkerShape, OutsideShape DEF Next, WorkerStep

-----------------------------------------------------------------------------
(* What a run knows, and what READY means. *)

(* No step takes a file or a variant away, or renames the asset of a run. *)
Grows ==
  /\ object \subseteq object'
  /\ \A a \in Assets : asset[a].variants \subseteq asset'[a].variants
  /\ \A p \in Processes : worker[p].pc # "idle" => task'[worker[p].entry] = task[worker[p].entry]

(* Only a run that knows enough makes an asset READY. *)
ReadyByRun ==
  \A a \in Assets :
    asset'[a].status = "READY" =>
      asset[a].status = "READY" \/ \E p \in Processes : AtStep(p, "markReady") /\ AssetOf(p) = a

(* An update of the status alone keeps every variant. *)
LEMMA StatusGrows ==
  ASSUME TypeOK, NEW a \in Assets, NEW s, SetStatus(a, s)
  PROVE  \A b \in Assets : /\ asset'[b].variants = asset[b].variants
                           /\ b # a => asset'[b].status = asset[b].status
                           /\ b = a => asset'[b].status = s
BY DEF TypeOK, SetStatus, AssetRow

(* Requests neither take anything away nor make an asset READY. *)
LEMMA RequestGrows ==
  ASSUME Shape, NEW r \in Requests, MediaRequest(r) \/ DraftRequest(r)
  PROVE  Grows /\ ReadyByRun /\ UNCHANGED worker
<1>a. TypeOK /\ Fits(request[r])
  BY DEF Shape
<1>b. ASSUME NEW a \in Assets, NEW s \in MediaStatus \ {"READY"}, SetStatus(a, s)
      PROVE  /\ \A b \in Assets : asset[b].variants \subseteq asset'[b].variants
             /\ ReadyByRun
  BY <1>a, <1>b, StatusGrows DEF ReadyByRun
<1>c. ASSUME UNCHANGED asset
      PROVE  /\ \A b \in Assets : asset[b].variants \subseteq asset'[b].variants
             /\ ReadyByRun
  BY <1>c DEF ReadyByRun
<1>d. {"UPLOADING", "PROCESSING", "DELETED"} \subseteq MediaStatus \ {"READY"}
  BY DEF MediaStatus
<1>1. ASSUME NEW a \in Assets, InitUpload(r, a) \/ InitMultipartUpload(r, a) \/ Reprocess(r, a)
      PROVE  Grows /\ ReadyByRun /\ UNCHANGED worker
  BY <1>1, <1>b, <1>d DEF InitUpload, InitMultipartUpload, Reprocess, Grows
<1>2. ASSUME NEW a \in Assets,
             \/ CompleteUpload(r, a) \/ CompleteMultipartUpload(r, a)
             \/ AbortMultipartUpload(r, a) \/ DeleteCheck(r, a)
             \/ PutObject(a) \/ UploadParts(a)
      PROVE  Grows /\ ReadyByRun /\ UNCHANGED worker
  BY <1>2, <1>c
     DEF CompleteUpload, CompleteMultipartUpload, AbortMultipartUpload, DeleteCheck, PutObject,
         UploadParts, Grows
<1>3. CASE StoreUploadId(r)
  <2>1. \A b \in Assets : /\ asset'[b].variants = asset[b].variants
                          /\ asset'[b].status = asset[b].status
    BY <1>3, <1>a DEF StoreUploadId, TypeOK, AssetRow
  <2> QED BY <2>1, <1>3 DEF StoreUploadId, Grows, ReadyByRun
<1>4. CASE Finalize(r) \/ MarkAborted(r) \/ DeleteWrite(r)
  <2>1. request[r].asset \in Assets
    BY <1>4, <1>a DEF Finalize, MarkAborted, DeleteWrite, ReqAt, Fits
  <2> QED BY <2>1, <1>4, <1>b, <1>d DEF Finalize, MarkAborted, DeleteWrite, Grows
<1>5. CASE FindObject(r) \/ EnqueueSkipped(r)
  BY <1>5, <1>c DEF FindObject, EnqueueSkipped, Grows
<1>6. CASE Enqueue(r)
  <2>1. PICK e \in Entries :
          /\ task[e].asset = None
          /\ task' = [task EXCEPT ![e] = [asset |-> request[r].asset,
                                          tries |-> request[r].tries]]
    BY <1>6 DEF Enqueue
  <2>2. task \in [Entries -> Task]
    BY <1>a DEF TypeOK
  <2>3. ASSUME NEW p \in Processes, worker[p].pc # "idle"
        PROVE  task'[worker[p].entry] = task[worker[p].entry]
    <3>1. worker[p].entry \in Entries /\ task[worker[p].entry].asset \in Assets
      BY <2>3 DEF Shape, WorkerFits, AssetOf
    <3>2. worker[p].entry # e
      BY <2>1, <3>1, MediaAssumption DEF MediaAssumption
    <3> QED BY <2>1, <2>2, <3>1, <3>2
  <2> QED BY <2>3, <1>6, <1>c DEF Enqueue, Grows
<1>7. CASE DraftRequest(r)
  <2>1. UNCHANGED <<asset, object, task, worker>>
    BY <1>7, DraftFrame
  <2> QED BY <2>1, <1>c DEF Grows
<1> QED
  BY <1>1, <1>2, <1>3, <1>4, <1>5, <1>6, <1>7
     DEF MediaRequest, UploadSingleFile, UploadMultipartFile

(* Nor does anything outside their own steps and the worker's. *)
LEMMA OutsideGrows ==
  ASSUME \/ \E e \in Entries : StallEntry(e)
         \/ \E d \in Drafts : SyncDraftStatus(d)
         \/ \E r \in Requests : RequestFails(r)
         \/ UNCHANGED vars
  PROVE  Grows /\ ReadyByRun /\ UNCHANGED worker
<1>1. UNCHANGED <<asset, object, task, worker>>
  BY DraftFrame DEF StallEntry, vars
<1> QED BY <1>1 DEF Grows, ReadyByRun

(* Workers add variants, and make an asset READY in one place only. *)
LEMMA WorkerGrows ==
  ASSUME Shape, NEW p \in Processes, WorkerStep(p)
  PROVE  Grows /\ ReadyByRun /\ \A x \in Processes \ {p} : worker'[x] = worker[x]
<1>a. /\ TypeOK /\ asset \in [Assets -> AssetRow]
      /\ worker \in [Processes -> [pc : WorkerPC, entry : Entries \cup {0}]]
      /\ WorkerFits(p)
  BY DEF Shape, TypeOK
<1>1. \A x \in Processes \ {p} : worker'[x] = worker[x]
  BY <1>a
     DEF WorkerStep, IngestStep, Start, Download, Convert, SaveOriginal, ClearThumbnails,
         AddThumbnail, MarkReady, Return, MarkFailed, ProcessingFails, MarkFailedFails, Crash,
         GiveUp, Proceed, Leave
<1>2. UNCHANGED <<object, task>>
  BY DEF WorkerStep, IngestStep, Start, Download, Convert, SaveOriginal, ClearThumbnails,
         AddThumbnail, MarkReady, Return, MarkFailed, ProcessingFails, MarkFailedFails, Crash
<1>3. CASE UNCHANGED asset
  BY <1>1, <1>2, <1>3 DEF Grows, ReadyByRun
<1>4. CASE \E kind \in {"original", "normalized"} : AddVariant(p, kind)
  <2>1. \A b \in Assets : /\ asset[b].variants \subseteq asset'[b].variants
                          /\ asset'[b].status = asset[b].status
    BY <1>4, <1>a DEF AddVariant, AssetRow
  <2> QED BY <2>1, <1>1, <1>2 DEF Grows, ReadyByRun
<1>5. CASE ClearThumbnails(p) \/ AddThumbnail(p)
  <2>1. \A b \in Assets : /\ asset'[b].variants = asset[b].variants
                          /\ asset'[b].status = asset[b].status
    BY <1>5, <1>a DEF ClearThumbnails, AddThumbnail, AssetRow
  <2> QED BY <2>1, <1>1, <1>2 DEF Grows, ReadyByRun
<1>6. CASE MarkReady(p) \/ MarkFailed(p)
  <2>1. AssetOf(p) \in Assets
    BY <1>6, <1>a DEF MarkReady, MarkFailed, AtStep, WorkerFits
  <2>2. \A b \in Assets : asset[b].variants \subseteq asset'[b].variants
    BY <2>1, <1>6, <1>a, StatusGrows DEF MarkReady, MarkFailed
  <2>3. ASSUME MarkReady(p) PROVE ReadyByRun
    <3>1. \A b \in Assets : b # AssetOf(p) => asset'[b].status = asset[b].status
      BY <2>1, <2>3, <1>a, StatusGrows DEF MarkReady
    <3>2. AtStep(p, "markReady")
      BY <2>3 DEF MarkReady
    <3> QED BY <3>1, <3>2 DEF ReadyByRun
  <2>4. ASSUME MarkFailed(p) PROVE ReadyByRun
    <3>1. \A b \in Assets : b # AssetOf(p) => asset'[b].status = asset[b].status
      BY <2>1, <2>4, <1>a, StatusGrows DEF MarkFailed
    <3>2. asset'[AssetOf(p)].status = "FAILED"
      BY <2>1, <2>4, <1>a, StatusGrows DEF MarkFailed
    <3> QED BY <3>1, <3>2 DEF ReadyByRun
  <2> QED BY <2>2, <2>3, <2>4, <1>1, <1>2, <1>6 DEF Grows
<1>7. \/ UNCHANGED asset
      \/ \E kind \in {"original", "normalized"} : AddVariant(p, kind)
      \/ ClearThumbnails(p) \/ AddThumbnail(p) \/ MarkReady(p) \/ MarkFailed(p)
  BY DEF WorkerStep, IngestStep, Start, Download, Convert, SaveOriginal, Return,
         ProcessingFails, MarkFailedFails, Crash
<1> QED BY <1>3, <1>4, <1>5, <1>6, <1>7

(* What a run knows stays true while the run itself stands still. *)
LEMMA KnowsStays ==
  ASSUME NEW x \in Processes, Shape, Grows, WorkerKnows(x), worker'[x] = worker[x]
  PROVE  WorkerKnows(x)'
<1>1. CASE worker[x].pc = "idle"
  BY <1>1 DEF WorkerKnows
<1>2. CASE worker[x].pc # "idle"
  <2>1. AssetOf(x)' = AssetOf(x) /\ AssetOf(x) \in Assets
    BY <1>2 DEF Grows, AssetOf, Shape, WorkerFits
  <2>2. object \subseteq object' /\ asset[AssetOf(x)].variants \subseteq asset'[AssetOf(x)].variants
    BY <2>1 DEF Grows
  <2> QED BY <2>1, <2>2 DEF WorkerKnows
<1> QED BY <1>1, <1>2

(* What a run has to know at a step, spelled out for the next state. *)
LEMMA KnowsNext ==
  ASSUME NEW p \in Processes, NEW a, AssetOf(p)' = a,
         worker'[p].pc \in {"convert", "saveOriginal", "clearThumbnails", "addThumbnail", "markReady"} =>
           a \in object',
         worker'[p].pc \in {"saveOriginal", "clearThumbnails", "addThumbnail", "markReady"} =>
           (a \in Converted => "normalized" \in asset'[a].variants),
         worker'[p].pc \in {"clearThumbnails", "addThumbnail", "markReady"} =>
           "original" \in asset'[a].variants
  PROVE  WorkerKnows(p)'
BY DEF WorkerKnows

(* A run has done what its next step relies on. *)
LEMMA KnowsProceed ==
  ASSUME NEW p \in Processes, Shape, Grows, WorkerKnows(p), NEW a, a = AssetOf(p),
         \/ Download(p) \/ Convert(p) \/ SaveOriginal(p) \/ ClearThumbnails(p)
         \/ AddThumbnail(p) \/ MarkReady(p) \/ ProcessingFails(p)
  PROVE  WorkerKnows(p)'
<1>a. /\ asset \in [Assets -> AssetRow]
      /\ worker \in [Processes -> [pc : WorkerPC, entry : Entries \cup {0}]]
  BY DEF Shape, TypeOK
<1>b. worker[p].pc # "idle"
  BY DEF Download, Convert, SaveOriginal, ClearThumbnails, AddThumbnail, MarkReady,
         ProcessingFails, AtStep
<1>c. worker'[p].entry = worker[p].entry
  BY <1>a DEF Download, Convert, SaveOriginal, ClearThumbnails, AddThumbnail, MarkReady,
         ProcessingFails, Proceed
<1>d. AssetOf(p)' = a /\ a \in Assets
  BY <1>b, <1>c DEF AssetOf, Grows, Shape, WorkerFits
<1>e. object \subseteq object' /\ asset[a].variants \subseteq asset'[a].variants
  BY <1>d DEF Grows
<1>f. /\ worker[p].pc \in {"convert", "saveOriginal", "clearThumbnails", "addThumbnail", "markReady"} =>
           a \in object
      /\ worker[p].pc \in {"saveOriginal", "clearThumbnails", "addThumbnail", "markReady"} =>
           (a \in Converted => "normalized" \in asset[a].variants)
      /\ worker[p].pc \in {"clearThumbnails", "addThumbnail", "markReady"} =>
           "original" \in asset[a].variants
  BY DEF WorkerKnows
<1>g. ASSUME NEW kind \in {"original", "normalized"}, AddVariant(p, kind)
      PROVE  kind \in asset'[a].variants
  BY <1>a, <1>d, <1>g DEF AddVariant, AssetRow
<1>1. CASE Download(p)
  <2>1. \/ worker'[p].pc = "markFailed"
        \/ worker'[p].pc = "convert" /\ a \in object
        \/ worker'[p].pc = "saveOriginal" /\ a \in object /\ a \notin Converted
    BY <1>a, <1>1 DEF Download, Proceed
  <2> QED BY <2>1, <1>d, <1>e, KnowsNext
<1>2. CASE Convert(p)
  <2>1. worker[p].pc = "convert" /\ worker'[p].pc = "saveOriginal"
    BY <1>a, <1>2 DEF Convert, AtStep, Proceed
  <2>2. "normalized" \in asset'[a].variants
    BY <1>g, <1>2 DEF Convert
  <2> QED BY <2>1, <2>2, <1>d, <1>e, <1>f, KnowsNext
<1>3. CASE SaveOriginal(p)
  <2>1. worker[p].pc = "saveOriginal" /\ worker'[p].pc = "clearThumbnails"
    BY <1>a, <1>3 DEF SaveOriginal, AtStep, Proceed
  <2>2. "original" \in asset'[a].variants
    BY <1>g, <1>3 DEF SaveOriginal
  <2> QED BY <2>1, <2>2, <1>d, <1>e, <1>f, KnowsNext
<1>4. CASE ClearThumbnails(p)
  <2>1. worker[p].pc = "clearThumbnails" /\ worker'[p].pc = "addThumbnail"
    BY <1>a, <1>4 DEF ClearThumbnails, AtStep, Proceed
  <2> QED BY <2>1, <1>d, <1>e, <1>f, KnowsNext
<1>5. CASE AddThumbnail(p)
  <2>1. worker[p].pc = "addThumbnail" /\ worker'[p].pc = "markReady"
    BY <1>a, <1>5 DEF AddThumbnail, AtStep, Proceed
  <2> QED BY <2>1, <1>d, <1>e, <1>f, KnowsNext
<1>6. CASE MarkReady(p) \/ ProcessingFails(p)
  <2>1. worker'[p].pc \in {"done", "markFailed"}
    BY <1>a, <1>6 DEF MarkReady, ProcessingFails, Proceed
  <2> QED BY <2>1, <1>d, KnowsNext
<1> QED BY <1>1, <1>2, <1>3, <1>4, <1>5, <1>6

(* Whatever a worker does, it knows what it has to know next. *)
LEMMA KnowsStep ==
  ASSUME NEW p \in Processes, Shape, Grows, WorkerKnows(p), WorkerStep(p)
  PROVE  WorkerKnows(p)'
<1>a. worker \in [Processes -> [pc : WorkerPC, entry : Entries \cup {0}]]
  BY DEF Shape, TypeOK
<1>1. CASE \/ \E e \in Entries : Start(p, e)
           \/ Return(p) \/ MarkFailed(p) \/ MarkFailedFails(p) \/ Crash(p)
  <2>1. worker'[p].pc \in {"idle", "download"}
    BY <1>a, <1>1
       DEF Start, Return, MarkFailed, MarkFailedFails, Crash, GiveUp, Leave, IdleWorker
  <2> QED BY <2>1 DEF WorkerKnows
<1>2. CASE \/ Download(p) \/ Convert(p) \/ SaveOriginal(p) \/ ClearThumbnails(p)
           \/ AddThumbnail(p) \/ MarkReady(p) \/ ProcessingFails(p)
  BY <1>2, KnowsProceed
<1> QED BY <1>1, <1>2 DEF WorkerStep, IngestStep

(* READY stays true of what it says, and is written only when it is true. *)
LEMMA ReadyStep ==
  ASSUME IInv, Grows, ReadyByRun
  PROVE  ReadyIsPublishable'
<1> SUFFICES ASSUME NEW a \in Assets, asset'[a].status = "READY"
             PROVE  /\ a \in object'
                    /\ "original" \in asset'[a].variants
                    /\ a \in Converted => "normalized" \in asset'[a].variants
  BY DEF ReadyIsPublishable
<1>1. /\ a \in object
      /\ "original" \in asset[a].variants
      /\ a \in Converted => "normalized" \in asset[a].variants
  <2>1. CASE asset[a].status = "READY"
    BY <2>1 DEF IInv, ReadyIsPublishable
  <2>2. CASE \E p \in Processes : AtStep(p, "markReady") /\ AssetOf(p) = a
    BY <2>2 DEF IInv, WorkerKnows, AtStep
  <2> QED BY <2>1, <2>2 DEF ReadyByRun
<1> QED BY <1>1 DEF Grows

(* The initial states satisfy the invariant. *)
LEMMA InitInv == Init => IInv
<1> SUFFICES ASSUME Init PROVE IInv
  OBVIOUS
<1>1. TypeOK
  BY MediaAssumption
     DEF MediaAssumption, Init, TypeOK, AssetRow, UploadState, MediaStatus, DraftRow, Entry, EntryState,
         Absent, Task, IdleWorker, WorkerPC, IdleRequest, Request, RequestPC
<1>2. /\ \A r \in Requests : Fits(request[r])
      /\ \A e \in Entries : EntryFits(e)
      /\ \A p \in Processes : WorkerFits(p) /\ WorkerKnows(p)
      /\ ReadyIsPublishable
  BY DEF Init, IdleRequest, Fits, EntryFits, Absent, IdleWorker, WorkerFits, WorkerKnows,
         ReadyIsPublishable
<1> QED BY <1>1, <1>2 DEF IInv, Shape

(* Every step keeps the invariant. *)
LEMMA InvStep == IInv /\ [Next]_vars => IInv'
<1> SUFFICES ASSUME IInv, [Next]_vars PROVE IInv'
  OBVIOUS
<1>1. Shape /\ \A p \in Processes : WorkerKnows(p)
  BY DEF IInv
<1>2. Shape'
  BY <1>1, ShapeStep
<1>3. CASE UNCHANGED worker /\ Grows /\ ReadyByRun
  <2>1. \A p \in Processes : WorkerKnows(p)'
    BY <1>1, <1>3, KnowsStays
  <2> QED BY <2>1, <1>2, <1>3, ReadyStep DEF IInv
<1>4. ASSUME NEW p \in Processes, WorkerStep(p) PROVE IInv'
  <2>1. Grows /\ ReadyByRun /\ \A x \in Processes \ {p} : worker'[x] = worker[x]
    BY <1>1, <1>4, WorkerGrows
  <2>2. WorkerKnows(p)'
    BY <1>1, <1>4, <2>1, KnowsStep
  <2>3. \A x \in Processes \ {p} : WorkerKnows(x)'
    BY <1>1, <2>1, KnowsStays
  <2> QED BY <2>1, <2>2, <2>3, <1>2, ReadyStep DEF IInv
<1>5. \/ UNCHANGED worker /\ Grows /\ ReadyByRun
      \/ \E p \in Processes : WorkerStep(p)
  BY <1>1, RequestGrows, OutsideGrows DEF Next, WorkerStep
<1> QED BY <1>3, <1>4, <1>5

(* The invariant holds in every reachable state. *)
THEOREM MediaInvariance == Spec => []IInv
BY InitInv, InvStep, PTL DEF Spec

(* Every row, queue entry and local variable of uploads, deletions, draft  *)
(* updates and processMediaIngest keeps its type.                          *)
THEOREM MediaTypeCorrect == Spec => []TypeOK
<1>1. IInv => TypeOK
  BY DEF IInv, Shape
<1> QED BY <1>1, MediaInvariance, PTL

(* However many workers process an asset at once, and whatever requests,   *)
(* retries, crashes and failures interleave with them: an asset that       *)
(* processMediaIngest or anybody else leaves READY has its file, its       *)
(* original variant and, if it had to be converted, the normalized one.    *)
THEOREM ReadyMediaIsPublishable == Spec => []ReadyIsPublishable
<1>1. IInv => ReadyIsPublishable
  BY DEF IInv
<1> QED BY <1>1, MediaInvariance, PTL

-----------------------------------------------------------------------------
(* One thumbnail. *)

(* One worker process is deployed; BullMQ hands a process one entry of a   *)
(* queue at a time.                                                        *)
OneProcess == \A p, q \in Processes : p = q

(* A run has its entry to itself, and has cleared the thumbnails before it *)
(* adds one.                                                               *)
RunCounts(p) ==
  /\ worker[p].pc # "idle" => entry[worker[p].entry].state = "active"
  /\ worker[p].pc = "addThumbnail" => asset[AssetOf(p)].thumbnails = 0
  /\ worker[p].pc \in {"markReady", "done"} => asset[AssetOf(p)].thumbnails = 1

(* An entry of the asset has not completed. *)
Unfinished(a) == \E e \in Entries : task[e].asset = a /\ entry[e].state # "completed"

(* There are never two thumbnails, and none are missing for good: one that *)
(* was cleared from a READY asset is still to be added by an entry.        *)
ThumbnailDue(a) ==
  /\ asset[a].thumbnails <= 1
  /\ asset[a].thumbnails = 0 /\ asset[a].status = "READY" => Unfinished(a)

TInv ==
  /\ \A p \in Processes : RunCounts(p)
  /\ \A a \in Assets : ThumbnailDue(a)

(* The steps outside the worker keep the thumbnails, and every entry that  *)
(* names an asset, or BullMQ takes an entry away that no worker holds.     *)
KeepsQueue ==
  /\ \A a \in Assets : asset'[a].thumbnails = asset[a].thumbnails
  /\ \A e \in Entries : task[e].asset \in Assets =>
       /\ task'[e] = task[e]
       /\ \/ entry'[e] = entry[e]
          \/ /\ \A p \in Processes : worker[p].entry # e
             /\ entry'[e].state # "completed"

(* Setting a status changes no thumbnails. *)
LEMMA StatusKeepsThumbnails ==
  ASSUME TypeOK, NEW a \in Assets, NEW s, SetStatus(a, s)
  PROVE  \A b \in Assets : asset'[b].thumbnails = asset[b].thumbnails
BY DEF TypeOK, SetStatus, AssetRow

(* Requests touch neither thumbnails nor entries in use. *)
LEMMA RequestKeepsQueue ==
  ASSUME Shape, NEW r \in Requests, MediaRequest(r) \/ DraftRequest(r)
  PROVE  KeepsQueue
<1>a. TypeOK /\ Fits(request[r])
  BY DEF Shape
<1>b. ASSUME UNCHANGED <<asset, entry, task>> PROVE KeepsQueue
  BY <1>b DEF KeepsQueue
<1>c. ASSUME NEW a \in Assets, NEW s, SetStatus(a, s), UNCHANGED <<entry, task>>
      PROVE  KeepsQueue
  BY <1>a, <1>c, StatusKeepsThumbnails DEF KeepsQueue
<1>1. ASSUME NEW a \in Assets, InitUpload(r, a) \/ InitMultipartUpload(r, a) \/ Reprocess(r, a)
      PROVE  KeepsQueue
  BY <1>1, <1>c DEF InitUpload, InitMultipartUpload, Reprocess
<1>2. ASSUME NEW a \in Assets,
             \/ PutObject(a) \/ CompleteUpload(r, a) \/ UploadParts(a)
             \/ CompleteMultipartUpload(r, a) \/ AbortMultipartUpload(r, a) \/ DeleteCheck(r, a)
      PROVE  KeepsQueue
  BY <1>2, <1>b
     DEF PutObject, CompleteUpload, UploadParts, CompleteMultipartUpload,
         AbortMultipartUpload, DeleteCheck
<1>3. CASE StoreUploadId(r)
  <2>1. \A b \in Assets : asset'[b].thumbnails = asset[b].thumbnails
    BY <1>3, <1>a DEF StoreUploadId, TypeOK, AssetRow
  <2> QED BY <2>1, <1>3 DEF StoreUploadId, KeepsQueue
<1>4. CASE Finalize(r) \/ MarkAborted(r) \/ DeleteWrite(r)
  <2>1. request[r].asset \in Assets
    BY <1>4, <1>a DEF Finalize, MarkAborted, DeleteWrite, ReqAt, Fits
  <2> QED BY <2>1, <1>4, <1>c DEF Finalize, MarkAborted, DeleteWrite
<1>5. CASE FindObject(r) \/ EnqueueSkipped(r)
  BY <1>5, <1>b DEF FindObject, EnqueueSkipped
<1>6. CASE Enqueue(r)
  <2>1. PICK e \in Entries :
          /\ task[e].asset = None
          /\ entry' = Add(entry, e)
          /\ task' = [task EXCEPT ![e] = [asset |-> request[r].asset,
                                          tries |-> request[r].tries]]
    BY <1>6 DEF Enqueue
  <2>2. task \in [Entries -> Task] /\ entry \in [Entries -> Entry]
    BY <1>a DEF TypeOK
  <2>3. \A x \in Entries \ {e} : task'[x] = task[x] /\ entry'[x] = entry[x]
    BY <2>1, <2>2, QueueFrame, 0 \in Nat
  <2>4. task[e].asset \notin Assets
    BY <2>1, MediaAssumption DEF MediaAssumption
  <2> QED BY <2>3, <2>4, <1>6 DEF Enqueue, KeepsQueue
<1>7. CASE DraftRequest(r)
  BY <1>7, <1>b, DraftFrame
<1> QED
  BY <1>1, <1>2, <1>3, <1>4, <1>5, <1>6, <1>7
     DEF MediaRequest, UploadSingleFile, UploadMultipartFile

(* An entry whose lock ran out waits again or has failed. *)
LEMMA StallKeepsQueue ==
  ASSUME Shape, NEW e \in Entries, StallEntry(e)
  PROVE  KeepsQueue
<1>1. entry \in [Entries -> Entry]
  BY DEF Shape, TypeOK
<1>2. \A x \in Entries \ {e} : entry'[x] = entry[x]
  BY <1>1, QueueFrame, 0 \in Nat DEF StallEntry
<1>3. entry'[e].state # "completed"
  BY <1>1 DEF StallEntry, Stall, Done
<1> QED BY <1>2, <1>3 DEF StallEntry, KeepsQueue

(* Steps outside the worker keep the invariant. *)
LEMMA OutsideCounts ==
  ASSUME Shape, TInv, UNCHANGED worker, Grows, ReadyByRun, KeepsQueue
  PROVE  TInv'
<1>1. ASSUME NEW p \in Processes PROVE RunCounts(p)'
  <2>1. CASE worker[p].pc = "idle"
    BY <2>1 DEF RunCounts
  <2>2. CASE worker[p].pc # "idle"
    <3>1. worker[p].entry \in Entries /\ AssetOf(p) \in Assets /\ AssetOf(p)' = AssetOf(p)
      BY <2>2 DEF Shape, WorkerFits, Grows, AssetOf
    <3>2. entry'[worker[p].entry] = entry[worker[p].entry]
      BY <3>1 DEF KeepsQueue, AssetOf
    <3>3. asset'[AssetOf(p)].thumbnails = asset[AssetOf(p)].thumbnails
      BY <3>1 DEF KeepsQueue
    <3> QED BY <3>1, <3>2, <3>3 DEF TInv, RunCounts
  <2> QED BY <2>1, <2>2
<1>2. ASSUME NEW a \in Assets PROVE ThumbnailDue(a)'
  <2>1. asset'[a].thumbnails = asset[a].thumbnails /\ ThumbnailDue(a)
    BY DEF KeepsQueue, TInv
  <2>2. ASSUME asset'[a].thumbnails = 0, asset'[a].status = "READY" PROVE Unfinished(a)'
    <3>1. asset[a].status = "READY"
      <4>1. ASSUME NEW p \in Processes, AtStep(p, "markReady"), AssetOf(p) = a PROVE FALSE
        <5>1. RunCounts(p) /\ worker[p].pc = "markReady"
          BY <4>1 DEF TInv, AtStep
        <5>2. asset[a].thumbnails = 1
          BY <4>1, <5>1 DEF RunCounts
        <5>3. asset[a].thumbnails = 0
          BY <2>1, <2>2
        <5> QED BY <5>2, <5>3
      <4> QED BY <2>2, <4>1 DEF ReadyByRun
    <3>2. PICK e \in Entries : task[e].asset = a /\ entry[e].state # "completed"
      BY <2>1, <2>2, <3>1 DEF ThumbnailDue, Unfinished
    <3>3. task'[e].asset = a /\ entry'[e].state # "completed"
      BY <3>2 DEF KeepsQueue
    <3> QED BY <3>3 DEF Unfinished
  <2> QED BY <2>1, <2>2 DEF ThumbnailDue
<1> QED BY <1>1, <1>2 DEF TInv

(* The steps of the only worker keep the invariant. *)
LEMMA WorkerCounts ==
  ASSUME OneProcess, Shape, TInv, NEW p \in Processes, WorkerStep(p),
         NEW a, a = AssetOf(p), NEW mine, mine = worker[p].entry
  PROVE  TInv'
<1>a. /\ asset \in [Assets -> AssetRow] /\ entry \in [Entries -> Entry]
      /\ worker \in [Processes -> [pc : WorkerPC, entry : Entries \cup {0}]]
  BY DEF Shape, TypeOK
<1>b. worker[p].pc # "idle" => a \in Assets /\ mine \in Entries
  BY DEF Shape, WorkerFits
<1>c. RunCounts(p) /\ \A b \in Assets : ThumbnailDue(b)
  BY DEF TInv
<1>d. ASSUME RunCounts(p)', \A b \in Assets : ThumbnailDue(b)' PROVE TInv'
  BY <1>d DEF TInv, OneProcess
<1>e. UNCHANGED task
  BY DEF WorkerStep, IngestStep, Start, Download, Convert, SaveOriginal, ClearThumbnails,
         AddThumbnail, MarkReady, Return, MarkFailed, ProcessingFails, MarkFailedFails, Crash
<1>f. ASSUME NEW b \in Assets, asset'[b].thumbnails = asset[b].thumbnails,
             asset'[b].status = "READY" => asset[b].status = "READY",
             \A e \in Entries : entry[e].state # "completed" => entry'[e].state # "completed"
      PROVE  ThumbnailDue(b)'
  BY <1>c, <1>e, <1>f DEF ThumbnailDue, Unfinished
<1>g. ASSUME NEW pc, Proceed(p, pc)
      PROVE  worker'[p].pc = pc /\ worker'[p].entry = mine /\ AssetOf(p)' = a
  BY <1>a, <1>e, <1>g DEF Proceed, AssetOf
<1>h. ASSUME Leave(p) PROVE RunCounts(p)'
  BY <1>a, <1>h DEF Leave, IdleWorker, RunCounts
<1>1. ASSUME NEW e \in Entries, Start(p, e) PROVE TInv'
  <2>1. entry'[e].state = "active" /\ \A x \in Entries \ {e} : entry'[x] = entry[x]
    BY <1>1, <1>a DEF Start, Take, Entry
  <2>2. worker'[p] = [pc |-> "download", entry |-> e]
    BY <1>1, <1>a DEF Start
  <2>3. RunCounts(p)'
    BY <2>1, <2>2 DEF RunCounts
  <2>4. UNCHANGED asset
    BY <1>1 DEF Start
  <2> QED BY <2>1, <2>3, <2>4, <1>d, <1>f
<1>2. CASE Download(p) \/ Convert(p) \/ SaveOriginal(p) \/ ProcessingFails(p)
  <2>1. PICK pc \in {"convert", "saveOriginal", "clearThumbnails", "markFailed"} : Proceed(p, pc)
    BY <1>2 DEF Download, Convert, SaveOriginal, ProcessingFails
  <2>2. UNCHANGED entry /\ worker[p].pc # "idle"
    BY <1>2 DEF Download, Convert, SaveOriginal, ProcessingFails, AtStep
  <2>3. RunCounts(p)'
    BY <2>1, <2>2, <1>c, <1>g DEF RunCounts
  <2>4. \A b \in Assets : /\ asset'[b].thumbnails = asset[b].thumbnails
                          /\ asset'[b].status = asset[b].status
    BY <1>2, <1>a
       DEF Download, Convert, SaveOriginal, ProcessingFails, AddVariant, AssetRow
  <2> QED BY <2>2, <2>3, <2>4, <1>d, <1>f
<1>3. CASE ClearThumbnails(p)
  <2>1. Proceed(p, "addThumbnail") /\ UNCHANGED entry /\ worker[p].pc # "idle"
    BY <1>3 DEF ClearThumbnails, AtStep
  <2>2. a \in Assets /\ mine \in Entries /\ entry[mine].state = "active"
    BY <2>1, <1>b, <1>c DEF RunCounts
  <2>3. /\ asset'[a].thumbnails = 0
        /\ \A b \in Assets \ {a} : asset'[b] = asset[b]
    BY <2>2, <1>3, <1>a DEF ClearThumbnails, AssetRow
  <2>4. RunCounts(p)'
    BY <2>1, <2>2, <2>3, <1>g DEF RunCounts
  <2>5. ThumbnailDue(a)'
    <3>1. Unfinished(a)'
      BY <2>1, <2>2, <1>e DEF Unfinished, AssetOf
    <3> QED BY <2>3, <3>1 DEF ThumbnailDue
  <2>6. \A b \in Assets \ {a} : ThumbnailDue(b)'
    BY <2>1, <2>3, <1>f
  <2> QED BY <2>4, <2>5, <2>6, <1>d
<1>4. CASE AddThumbnail(p)
  <2>1. Proceed(p, "markReady") /\ UNCHANGED entry /\ worker[p].pc = "addThumbnail"
    BY <1>4 DEF AddThumbnail, AtStep
  <2>2. /\ a \in Assets /\ mine \in Entries /\ entry[mine].state = "active"
        /\ asset[a].thumbnails = 0
    BY <2>1, <1>b, <1>c DEF RunCounts
  <2>3. /\ asset'[a].thumbnails = 1
        /\ \A b \in Assets \ {a} : asset'[b] = asset[b]
    BY <2>2, <1>4, <1>a DEF AddThumbnail, AssetRow
  <2>4. RunCounts(p)'
    BY <2>1, <2>2, <2>3, <1>g DEF RunCounts
  <2>5. ThumbnailDue(a)'
    BY <2>3 DEF ThumbnailDue
  <2>6. \A b \in Assets \ {a} : ThumbnailDue(b)'
    BY <2>1, <2>3, <1>f
  <2> QED BY <2>4, <2>5, <2>6, <1>d
<1>i. ASSUME NEW s, SetStatus(a, s), a \in Assets
      PROVE  /\ \A b \in Assets : asset'[b].thumbnails = asset[b].thumbnails
             /\ \A b \in Assets \ {a} : asset'[b].status = asset[b].status
             /\ asset'[a].status = s
  BY <1>a, <1>i DEF SetStatus, AssetRow
<1>5. CASE MarkReady(p)
  <2>1. Proceed(p, "done") /\ UNCHANGED entry /\ worker[p].pc = "markReady"
    BY <1>5 DEF MarkReady, AtStep
  <2>2. /\ a \in Assets /\ mine \in Entries /\ entry[mine].state = "active"
        /\ asset[a].thumbnails = 1
    BY <2>1, <1>b, <1>c DEF RunCounts
  <2>3. SetStatus(a, "READY")
    BY <1>5 DEF MarkReady
  <2>4. RunCounts(p)'
    BY <2>1, <2>2, <2>3, <1>g, <1>i DEF RunCounts
  <2>5. ThumbnailDue(a)'
    BY <2>2, <2>3, <1>i DEF ThumbnailDue
  <2>6. \A b \in Assets \ {a} : ThumbnailDue(b)'
    BY <2>1, <2>2, <2>3, <1>f, <1>i
  <2> QED BY <2>4, <2>5, <2>6, <1>d
<1>6. CASE Return(p)
  <2>1. Leave(p) /\ UNCHANGED asset /\ entry' = Complete(entry, mine) /\ worker[p].pc = "done"
    BY <1>6 DEF Return, AtStep
  <2>2. a \in Assets /\ mine \in Entries /\ asset[a].thumbnails = 1
    BY <2>1, <1>b, <1>c DEF RunCounts
  <2>3. \A x \in Entries \ {mine} : entry'[x] = entry[x]
    BY <2>1, <2>2, <1>a, QueueFrame, 0 \in Nat
  <2>4. ThumbnailDue(a)'
    BY <2>1, <2>2 DEF ThumbnailDue
  <2>5. ASSUME NEW b \in Assets \ {a} PROVE ThumbnailDue(b)'
    <3>1. Unfinished(b) => Unfinished(b)'
      BY <2>3, <2>5, <1>e DEF Unfinished, AssetOf
    <3> QED BY <2>1, <2>5, <3>1, <1>c DEF ThumbnailDue
  <2> QED BY <2>1, <2>4, <2>5, <1>d, <1>h
<1>7. CASE MarkFailed(p) \/ MarkFailedFails(p)
  <2>1. GiveUp(p) /\ worker[p].pc = "markFailed"
    BY <1>7 DEF MarkFailed, MarkFailedFails, AtStep
  <2>2. a \in Assets /\ mine \in Entries
    BY <2>1, <1>b
  <2>3. RunCounts(p)'
    BY <2>1, <1>h DEF GiveUp
  <2>4. \A e \in Entries : entry[e].state # "completed" => entry'[e].state # "completed"
    BY <2>1, <2>2, <1>a DEF GiveUp, Throw, Done
  <2>5. \A b \in Assets : /\ asset'[b].thumbnails = asset[b].thumbnails
                          /\ asset'[b].status = "READY" => asset[b].status = "READY"
    BY <2>2, <1>7, <1>i DEF MarkFailed, MarkFailedFails
  <2>6. ASSUME NEW b \in Assets PROVE ThumbnailDue(b)'
    <3>1. Unfinished(b) => Unfinished(b)'
      BY <2>4, <1>e DEF Unfinished
    <3> QED BY <2>5, <3>1, <1>c DEF ThumbnailDue
  <2> QED BY <2>3, <2>6, <1>d
<1>8. CASE Crash(p)
  <2>1. RunCounts(p)' /\ UNCHANGED <<asset, entry>>
    BY <1>8, <1>h DEF Crash
  <2> QED BY <2>1, <1>d, <1>f
<1> QED
  BY <1>1, <1>2, <1>3, <1>4, <1>5, <1>6, <1>7, <1>8 DEF WorkerStep, IngestStep

(* Every step keeps the invariant. *)
LEMMA CountsStep == OneProcess /\ IInv /\ TInv /\ [Next]_vars => TInv'
<1> SUFFICES ASSUME OneProcess, IInv, TInv, [Next]_vars PROVE TInv'
  OBVIOUS
<1>1. Shape
  BY DEF IInv
<1>2. ASSUME NEW r \in Requests, MediaRequest(r) \/ DraftRequest(r) PROVE TInv'
  BY <1>1, <1>2, RequestGrows, RequestKeepsQueue, OutsideCounts
<1>3. ASSUME NEW e \in Entries, StallEntry(e) PROVE TInv'
  BY <1>1, <1>3, OutsideGrows, StallKeepsQueue, OutsideCounts
<1>4. ASSUME NEW p \in Processes, WorkerStep(p) PROVE TInv'
  BY <1>1, <1>4, WorkerCounts
<1>5. CASE UNCHANGED vars
  BY <1>5 DEF vars, TInv, RunCounts, ThumbnailDue, Unfinished, AssetOf
<1>6. CASE (\E d \in Drafts : SyncDraftStatus(d)) \/ \E r \in Requests : RequestFails(r)
  <2>1. KeepsQueue
    BY <1>6, DraftFrame DEF KeepsQueue
  <2> QED BY <2>1, <1>1, <1>6, OutsideGrows, OutsideCounts
<1> QED BY <1>2, <1>3, <1>4, <1>5, <1>6 DEF Next, WorkerStep

(* With one worker process, an asset whose entries have all completed has  *)
(* exactly one thumbnail and never two, although runs crash, fail and      *)
(* repeat between the deletion of the old thumbnails and the new one.      *)
THEOREM OneThumbnailSurvives == OneProcess => (Spec => []OneThumbnail)
<1> SUFFICES ASSUME OneProcess PROVE Spec => []OneThumbnail
  OBVIOUS
<1>1. Init => TInv
  BY DEF Init, IdleWorker, TInv, RunCounts, ThumbnailDue
<1>2. IInv /\ TInv /\ [Next]_vars => TInv'
  BY CountsStep
<1>3. IInv /\ TInv => OneThumbnail
  <2> SUFFICES ASSUME IInv, TInv, NEW a \in Assets
               PROVE  /\ asset[a].thumbnails <= 1
                      /\ asset[a].status = "READY" /\ ~Unfinished(a) => asset[a].thumbnails = 1
    BY DEF OneThumbnail, Unfinished
  <2>1. asset[a].thumbnails \in Nat
    BY DEF IInv, Shape, TypeOK, AssetRow
  <2> QED BY <2>1 DEF TInv, ThumbnailDue
<1> QED BY <1>1, <1>2, <1>3, MediaInvariance, PTL DEF Spec
=============================================================================

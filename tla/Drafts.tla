------------------------------- MODULE Drafts -------------------------------
(***************************************************************************)
(* Drafts from composition to their publish jobs.                          *)
(*                                                                         *)
(*   requests  DraftsService (create, update, archive, duplicate,          *)
(*             publishNow, schedule, cancel, reschedule), with the calls   *)
(*             of PublishService it makes (createJobs, cancelJob,          *)
(*             syncDraftStatus) and QueueService.enqueue;                  *)
(*   worker    runs the jobs whose entries are due, reduced to the two row *)
(*             updates the API can see (PublishPipeline has the rest);     *)
(*   sweep     recoverPublishJobs, for QUEUED jobs that are due.           *)
(* A request advances one awaited call at a time and may fail at any of    *)
(* them.  Instants are abstract: several times 30 s apart, the slack the   *)
(* API allows a schedule in the past.                                      *)
(***************************************************************************)
EXTENDS JobQueue, PublishStatus, FiniteSets

CONSTANTS
  MaxDrafts,    \* bound: drafts ever created
  Platforms,
  Operations,   \* the operations users call, a subset of AllOperations
  MaxTime,      \* bound: the last instant
  MaxRequests,  \* bound: requests ever made
  MaxJobs,      \* bound: publish jobs ever created
  FirstDrafts,  \* the id of a draft composed before, 0 for none
  Earlier,      \* how many jobs it may have to begin with
  None          \* no platform

AllOperations == {"create", "update", "archive", "duplicate", "publishNow",
                  "schedule", "cancel", "reschedule"}

ASSUME DraftsAssumption ==
  /\ Operations \subseteq AllOperations
  /\ MaxDrafts \in Nat /\ MaxTime \in Nat \ {0} /\ MaxRequests \in Nat \ {0} /\ MaxJobs \in Nat
  /\ FirstDrafts \subseteq 0 .. MaxDrafts /\ Earlier \subseteq 0 .. MaxJobs
  /\ None \notin Platforms

DraftIds == 1 .. MaxDrafts
Instants == 1 .. MaxTime
Jobs == 1 .. MaxJobs
Requests == 1 .. MaxRequests   \* in the order in which they are made
Schedules == 1 .. MaxRequests

VARIABLES
  now,       \* the current instant
  draft,     \* Draft rows with their DraftPlatformTarget rows
  schedule,  \* PublishSchedule rows, in the order of their creation
  job,       \* PublishJob rows, in the order of their creation
  entry,     \* the publish_dispatch entry of each job
  due,       \* the instant at which the delay of that entry ends
  request,   \* the locals of the API requests
  worker,    \* the locals of the worker
  made       \* requests made so far

vars == <<now, draft, schedule, job, entry, due, request, worker, made>>

-----------------------------------------------------------------------------
(* Types and initial states. *)

(* hint is canonicalPostJson.platforms; version stands for updatedAt.      *)
DraftRow == [status : DraftStatus \cup {"NONE"}, version : Nat,
             scheduledAt : Instants \cup {0}, targets : SUBSET Platforms,
             hint : SUBSET Platforms]

ScheduleRow == [draft : DraftIds \cup {0}, at : Instants \cup {0}, cancelled : BOOLEAN]

(* version is the draft's updatedAt in the idempotency key, keyAt the      *)
(* instant in both keys; asked is the earliest instant anybody asked for   *)
(* (history, read by no action).                                           *)
JobRow == [draft : DraftIds \cup {0}, platform : Platforms \cup {None},
           status : PublishJobStatus \cup {"NONE"}, runAt : Instants \cup {0},
           keyAt : Instants \cup {0}, version : Nat, sched : Schedules \cup {0},
           asked : Instants \cup {0}]

RequestPC ==
  {"idle", "targets", "addTarget", "row", "readiness", "validate", "ready",
   "addSchedule", "readDraft", "find", "create", "enqueue", "scheduled",
   "readJobs", "sync", "findOpen", "cancelCheck", "cancelWrite", "cancelled",
   "move", "findQueued", "moveJob", "moved"}

(* todo and jobs are what a loop over platforms or jobs has still to       *)
(* visit, found the jobs that cancel found open.                           *)
Request == [op : AllOperations \cup {"none"}, pc : RequestPC,
            draft : DraftIds \cup {0}, at : Instants \cup {0},
            todo : SUBSET Platforms, hint : SUBSET Platforms,
            platform : Platforms \cup {None}, jobs : SUBSET Jobs,
            found : SUBSET Jobs, job : Jobs \cup {0}, version : Nat,
            sched : Schedules \cup {0}, next : DraftStatus]

TypeOK ==
  /\ now \in Instants
  /\ draft \in [DraftIds -> DraftRow]
  /\ schedule \in [Schedules -> ScheduleRow]
  /\ job \in [Jobs -> JobRow]
  /\ entry \in [Jobs -> Entry]
  /\ due \in [Jobs -> Instants \cup {0}]
  /\ request \in [Requests -> Request]
  /\ worker \in [job : Jobs \cup {0}, pc : {"idle", "run", "readJobs", "sync"},
                 next : DraftStatus]
  /\ made \in 0 .. MaxRequests

NoDraft == [status |-> "NONE", version |-> 0, scheduledAt |-> 0, targets |-> {},
            hint |-> {}]

NoJob == [draft |-> 0, platform |-> None, status |-> "NONE", runAt |-> 0,
          keyAt |-> 0, version |-> 0, sched |-> 0, asked |-> 0]

IdleRequest == [op |-> "none", pc |-> "idle", draft |-> 0, at |-> 0, todo |-> {},
                hint |-> {}, platform |-> None, jobs |-> {}, found |-> {}, job |-> 0,
                version |-> 0, sched |-> 0, next |-> "DRAFT"]

IdleWorker == [job |-> 0, pc |-> "idle", next |-> "DRAFT"]

(* Of n calls of publishNow that overlapped: each wrote the draft, so that *)
(* each read a version of its own and made a job.                          *)
EarlierJob(d, j, p) ==
  [draft |-> d, platform |-> p, status |-> "QUEUED", runAt |-> 1, keyAt |-> 1,
   version |-> j, sched |-> 0, asked |-> 1]

(* Draft d has been composed before, unless d = 0, and n calls have        *)
(* published it; their jobs wait in the queue.  All of them together count *)
(* as one request.                                                         *)
Composed(d, n, p) ==
  /\ n # 0 => d # 0
  /\ draft = [e \in DraftIds |->
       IF e # d THEN NoDraft
       ELSE [NoDraft EXCEPT !.status = IF n = 0 THEN "READY" ELSE "SCHEDULED",
               !.version = 2 * n, !.targets = Platforms, !.hint = Platforms]]
  /\ job = [j \in Jobs |-> IF j <= n THEN EarlierJob(d, j, p) ELSE NoJob]
  /\ entry = [j \in Jobs |-> IF j <= n THEN Fresh ELSE Absent]
  /\ due = [j \in Jobs |-> IF j <= n THEN 1 ELSE 0]
  /\ made = IF n = 0 THEN 0 ELSE 1

Init ==
  /\ now = 1
  /\ \E d \in FirstDrafts, n \in Earlier, p \in Platforms : Composed(d, n, p)
  /\ schedule = [s \in Schedules |-> [draft |-> 0, at |-> 0, cancelled |-> FALSE]]
  /\ request = [r \in Requests |-> IdleRequest]
  /\ worker = IdleWorker

-----------------------------------------------------------------------------
(* Helpers of the request steps. *)

ReqAt(r, pc) == request[r].pc = pc
Go(r, new) == request' = [request EXCEPT ![r] = new]
Finish(r) == Go(r, IdleRequest)

(* A user calls op, and the first awaited call is made.                    *)
Begin(r, op, new) ==
  /\ op \in Operations
  /\ r = made + 1 /\ made' = r
  /\ Go(r, [new EXCEPT !.op = op])

Exists(d) == draft[d].status # "NONE"

(* The id the next draft row gets. *)
NextDraftId(d) == (\A e \in DraftIds : e >= d => ~Exists(e)) /\ (d # 1 => Exists(d - 1))

(* Prisma's update: whatever else it writes, updatedAt changes.            *)
WriteDraft(d, row) ==
  draft' = [draft EXCEPT ![d] = [row EXCEPT !.version = draft[d].version + 1]]

SetDraftStatus(d, status) == WriteDraft(d, [draft[d] EXCEPT !.status = status])

(* platformsFromDraft, and createJobs' own copy of it: while an update has  *)
(* taken the targets away, the canonical post still names the platforms.   *)
PlatformsOf(row) == IF row.targets # {} THEN row.targets ELSE row.hint

ResolvePlatforms(row) == IF row.targets # {} THEN row.targets ELSE row.hint

JobsOf(d) == {j \in Jobs : job[j].draft = d}

DerivedStatus(d) == ResolveDraftStatus({job[j].status : j \in JobsOf(d)})

-----------------------------------------------------------------------------
(* create, update, duplicate and archive *)

(* draft.create; the targets of a new draft are added one by one. *)
Create(r, d, platforms, at) ==
  /\ NextDraftId(d) /\ platforms # {}
  /\ draft' = [draft EXCEPT ![d] = [status |-> "DRAFT", version |-> 0, scheduledAt |-> at,
                                   targets |-> {}, hint |-> platforms]]
  /\ Begin(r, "create", [IdleRequest EXCEPT !.pc = "addTarget", !.draft = d,
                                            !.todo = platforms, !.at = at])
  /\ UNCHANGED <<now, schedule, job, entry, due, worker>>

(* An update that names platforms replaces the targets first. *)
UpdatePlatforms(r, d, platforms) ==
  /\ Exists(d)
  /\ Begin(r, "update", [IdleRequest EXCEPT !.pc = "targets", !.draft = d,
                                            !.todo = platforms, !.hint = platforms])
  /\ UNCHANGED <<now, draft, schedule, job, entry, due, worker>>

(* An update of the text, or of scheduledAt: the jobs are not told. *)
UpdateRow(r, d, at) ==
  /\ Exists(d)
  /\ Begin(r, "update", [IdleRequest EXCEPT !.pc = "row", !.draft = d, !.at = at,
                                            !.hint = PlatformsOf(draft[d])])
  /\ UNCHANGED <<now, draft, schedule, job, entry, due, worker>>

(* The copy takes the platforms of the source as they are read here. *)
Duplicate(r, d, copy) ==
  /\ Exists(d) /\ NextDraftId(copy)
  /\ draft' = [draft EXCEPT ![copy] = [status |-> "DRAFT", version |-> 0, scheduledAt |-> 0,
                                      targets |-> {}, hint |-> draft[d].hint]]
  /\ Begin(r, "duplicate",
       [IdleRequest EXCEPT !.draft = copy, !.todo = draft[d].targets,
          !.pc = IF draft[d].targets = {} THEN "readiness" ELSE "addTarget"])
  /\ UNCHANGED <<now, schedule, job, entry, due, worker>>

(* replacePlatformTargets: deleteMany. *)
ClearTargets(r) ==
  /\ ReqAt(r, "targets")
  /\ draft' = [draft EXCEPT ![request[r].draft].targets = {}]
  /\ Go(r, [request[r] EXCEPT !.pc = IF request[r].todo = {} THEN "row" ELSE "addTarget"])
  /\ UNCHANGED <<now, schedule, job, entry, due, worker, made>>

AfterTarget(r, p) ==
  [request[r] EXCEPT !.todo = @ \ {p},
     !.pc = IF request[r].todo # {p} THEN "addTarget"
            ELSE IF request[r].op = "update" THEN "row" ELSE "readiness"]

(* draftPlatformTarget.create, refused if another update has put the       *)
(* target back meanwhile.  An unknown account is passed over.              *)
AddTarget(r, p) ==
  /\ ReqAt(r, "addTarget") /\ p \in request[r].todo
  /\ LET d == request[r].draft
     IN  \/ /\ p \notin draft[d].targets
            /\ draft' = [draft EXCEPT ![d].targets = @ \cup {p}]
            /\ Go(r, AfterTarget(r, p))
         \/ Go(r, AfterTarget(r, p)) /\ UNCHANGED draft
  /\ UNCHANGED <<now, schedule, job, entry, due, worker, made>>

(* The row follows its targets, with what was read when the update began.  *)
SaveRow(r) ==
  /\ ReqAt(r, "row")
  /\ LET d == request[r].draft
     IN  WriteDraft(d, [draft[d] EXCEPT !.hint = request[r].hint,
           !.scheduledAt = IF request[r].at = 0 THEN @ ELSE request[r].at])
  /\ Go(r, [request[r] EXCEPT !.pc = "readiness"])
  /\ UNCHANGED <<now, schedule, job, entry, due, worker, made>>

(* updateDraftReadiness: whatever the status was.  Whether the media are   *)
(* READY is MediaLibrary's.                                                *)
SaveReadiness(r) ==
  /\ ReqAt(r, "readiness")
  /\ \E status \in {"READY", "DRAFT"} :
       /\ status = "READY" => PlatformsOf(draft[request[r].draft]) # {}
       /\ SetDraftStatus(request[r].draft, status)
  /\ IF request[r].op = "create" /\ request[r].at # 0
     THEN Go(r, [request[r] EXCEPT !.pc = "validate"])
     ELSE Finish(r)
  /\ UNCHANGED <<now, schedule, job, entry, due, worker, made>>

(* The jobs of an archived draft stay as they are. *)
Archive(r, d) ==
  /\ Exists(d)
  /\ SetDraftStatus(d, "ARCHIVED")
  /\ "archive" \in Operations
  /\ r = made + 1 /\ made' = r
  /\ UNCHANGED <<now, schedule, job, entry, due, worker, request>>

-----------------------------------------------------------------------------
(* publishNow and schedule *)

(* What validate can refuse here: no target, and a scheduledAt gone by.    *)
(* Media, accounts and platform rules may make any request fail.           *)
Valid(d) ==
  /\ Exists(d) /\ draft[d].targets # {}
  /\ draft[d].scheduledAt = 0 \/ draft[d].scheduledAt >= now

PublishNow(r, d) ==
  /\ Valid(d)
  /\ Begin(r, "publishNow", [IdleRequest EXCEPT !.pc = "ready", !.draft = d])
  /\ UNCHANGED <<now, draft, schedule, job, entry, due, worker>>

(* The draft is written before its jobs are created: updatedAt changes.    *)
MarkReady(r) ==
  /\ ReqAt(r, "ready")
  /\ SetDraftStatus(request[r].draft, "READY")
  /\ Go(r, [request[r] EXCEPT !.pc = "readDraft", !.at = now])
  /\ UNCHANGED <<now, schedule, job, entry, due, worker, made>>

ScheduleDraft(r, d, at) ==
  /\ at >= now /\ Valid(d)
  /\ Begin(r, "schedule", [IdleRequest EXCEPT !.pc = "addSchedule", !.draft = d, !.at = at])
  /\ UNCHANGED <<now, draft, schedule, job, entry, due, worker>>

(* create ends with a call of schedule if it was given an instant. *)
ScheduleCreated(r) ==
  /\ ReqAt(r, "validate")
  /\ request[r].at >= now /\ Valid(request[r].draft)
  /\ Go(r, [request[r] EXCEPT !.pc = "addSchedule"])
  /\ UNCHANGED <<now, draft, schedule, job, entry, due, worker, made>>

FreeSchedules == {s \in Schedules : schedule[s].draft = 0}

AddSchedule(r) ==
  /\ ReqAt(r, "addSchedule")
  /\ \E s \in FreeSchedules :
       /\ \A t \in FreeSchedules : s <= t
       /\ schedule' = [schedule EXCEPT ![s] = [draft |-> request[r].draft,
                          at |-> request[r].at, cancelled |-> FALSE]]
       /\ Go(r, [request[r] EXCEPT !.pc = "readDraft", !.sched = s])
  /\ UNCHANGED <<now, draft, job, entry, due, worker, made>>

(* Seeded slip: the status of the jobs is written into the draft. *)
MarkScheduledQueued(r) ==
  /\ ReqAt(r, "scheduled")
  /\ LET d == request[r].draft
     IN  WriteDraft(d, [draft[d] EXCEPT !.status = "QUEUED", !.scheduledAt = request[r].at])
  /\ Finish(r)
  /\ UNCHANGED <<now, schedule, job, entry, due, worker, made>>

(* The draft is updated after its jobs were created. *)
MarkScheduled(r) ==
  /\ ReqAt(r, "scheduled")
  /\ LET d == request[r].draft
     IN  WriteDraft(d, [draft[d] EXCEPT !.status = "SCHEDULED",
                                        !.scheduledAt = request[r].at])
  /\ Finish(r)
  /\ UNCHANGED <<now, schedule, job, entry, due, worker, made>>

-----------------------------------------------------------------------------
(* createJobs *)

(* draft.findFirst, which throws if there is no platform to publish on. *)
ReadDraft(r) ==
  /\ ReqAt(r, "readDraft")
  /\ LET row == draft[request[r].draft]
     IN  /\ ResolvePlatforms(row) # {}
         /\ Go(r, [request[r] EXCEPT !.pc = "find", !.todo = ResolvePlatforms(row),
                                     !.version = row.version])
  /\ UNCHANGED <<now, draft, schedule, job, entry, due, worker, made>>

(* The request goes on to the next platform, or leaves the loop.           *)
NextPlatform(r, p) ==
  [request[r] EXCEPT !.todo = @ \ {p}, !.platform = None, !.job = 0,
     !.pc = IF request[r].todo # {p} THEN "find"
            ELSE IF request[r].op = "publishNow" THEN "readJobs" ELSE "scheduled"]

Live == {"QUEUED", "RUNNING", "WAITING_REMOTE", "SUCCEEDED"}

(* The job was created for this draft, platform and instant: dedupeKey.    *)
SameDedupeKey(j, r, p) ==
  job[j].draft = request[r].draft /\ job[j].platform = p /\ job[j].keyAt = request[r].at

(* The draft had not been updated either: idempotencyKey. *)
SameIdempotencyKey(j, r, p) ==
  SameDedupeKey(j, r, p) /\ job[j].version = request[r].version

(* publishJob.findFirst: a live job with the key is taken for this one. *)
FindJob(r, p) ==
  /\ ReqAt(r, "find") /\ p \in request[r].todo
  /\ IF \E j \in Jobs : SameDedupeKey(j, r, p) /\ job[j].status \in Live
     THEN Go(r, NextPlatform(r, p))
     ELSE Go(r, [request[r] EXCEPT !.pc = "create", !.platform = p])
  /\ UNCHANGED <<now, draft, schedule, job, entry, due, worker, made>>

FreeJobs == {j \in Jobs : job[j].draft = 0}

(* The next row of PublishJob becomes the job of request r. *)
InsertJob(r) ==
  \E j \in FreeJobs :
    /\ \A k \in FreeJobs : j <= k
    /\ job' = [job EXCEPT ![j] =
         [draft |-> request[r].draft, platform |-> request[r].platform,
          status |-> "QUEUED", runAt |-> request[r].at, keyAt |-> request[r].at,
          version |-> request[r].version, sched |-> request[r].sched,
          asked |-> request[r].at]]
    /\ Go(r, [request[r] EXCEPT !.pc = "enqueue", !.job = j])

(* Seeded slip: no unique key stands behind publishJob.findFirst. *)
CreateJobAnyway(r) ==
  /\ ReqAt(r, "create")
  /\ InsertJob(r)
  /\ UNCHANGED <<now, draft, schedule, entry, due, worker, made>>

(* publishJob.create, unless the unique key refuses the row: the job that  *)
(* has the key is returned, whatever has become of it.                     *)
CreateJob(r) ==
  /\ ReqAt(r, "create")
  /\ IF \E j \in Jobs : SameIdempotencyKey(j, r, request[r].platform)
     THEN Go(r, NextPlatform(r, request[r].platform)) /\ UNCHANGED job
     ELSE InsertJob(r)
  /\ UNCHANGED <<now, draft, schedule, entry, due, worker, made>>

Later(t, u) == IF t > u THEN t ELSE u

(* Seeded slip: the entry is added without the delay. *)
EnqueueAtOnce(r) ==
  /\ ReqAt(r, "enqueue")
  /\ entry' = Add(entry, request[r].job) /\ due' = [due EXCEPT ![request[r].job] = now]
  /\ Go(r, NextPlatform(r, request[r].platform))
  /\ UNCHANGED <<now, draft, schedule, job, worker, made>>

(* QueueService.enqueue with the delay until runAt.  The add is skipped     *)
(* while Redis is known to be away, or it fails, having reached Redis or   *)
(* not: no error reaches the caller.                                       *)
Enqueue(r) ==
  /\ ReqAt(r, "enqueue")
  /\ LET j == request[r].job
     IN  \/ entry' = Add(entry, j) /\ due' = [due EXCEPT ![j] = Later(request[r].at, now)]
         \/ UNCHANGED <<entry, due>>
  /\ Go(r, NextPlatform(r, request[r].platform))
  /\ UNCHANGED <<now, draft, schedule, job, worker, made>>

(* PublishService.syncDraftStatus, on behalf of publishNow and cancelJob. *)
ReadJobs(r) ==
  /\ ReqAt(r, "readJobs")
  /\ Go(r, [request[r] EXCEPT !.pc = "sync", !.next = DerivedStatus(request[r].draft)])
  /\ UNCHANGED <<now, draft, schedule, job, entry, due, worker, made>>

(* cancel goes on with the next job it found. *)
Sync(r) ==
  /\ ReqAt(r, "sync")
  /\ SetDraftStatus(request[r].draft, request[r].next)
  /\ IF request[r].op = "publishNow" THEN Finish(r)
     ELSE Go(r, [request[r] EXCEPT !.job = 0, !.jobs = @ \ {request[r].job},
            !.pc = IF request[r].jobs = {request[r].job} THEN "cancelled" ELSE "cancelCheck"])
  /\ UNCHANGED <<now, schedule, job, entry, due, worker, made>>

-----------------------------------------------------------------------------
(* cancel and reschedule *)

(* publishSchedule.updateMany comes first. *)
Cancel(r, d) ==
  /\ Exists(d)
  /\ schedule' = [s \in Schedules |->
       IF schedule[s].draft = d THEN [schedule[s] EXCEPT !.cancelled = TRUE] ELSE schedule[s]]
  /\ Begin(r, "cancel", [IdleRequest EXCEPT !.pc = "findOpen", !.draft = d])
  /\ UNCHANGED <<now, draft, job, entry, due, worker>>

FindOpen(r) ==
  /\ ReqAt(r, "findOpen")
  /\ LET open == {j \in JobsOf(request[r].draft) : job[j].status \in Open}
     IN  Go(r, [request[r] EXCEPT !.jobs = open, !.found = open,
                  !.pc = IF open = {} THEN "cancelled" ELSE "cancelCheck"])
  /\ UNCHANGED <<now, draft, schedule, job, entry, due, worker, made>>

(* cancelJob throws if the job has completed meanwhile, and with it cancel. *)
CancelCheck(r, j) ==
  /\ ReqAt(r, "cancelCheck") /\ j \in request[r].jobs
  /\ IF job[j].status \in {"SUCCEEDED", "FAILED"}
     THEN Finish(r)
     ELSE Go(r, [request[r] EXCEPT !.pc = "cancelWrite", !.job = j])
  /\ UNCHANGED <<now, draft, schedule, job, entry, due, worker, made>>

(* Seeded slip: a job that waits in its queue is left to the worker, as if *)
(* its entry had been removed.                                             *)
CancelWriteUnlessWaiting(r) ==
  /\ ReqAt(r, "cancelWrite")
  /\ job' = IF job[request[r].job].status = "QUEUED" /\ entry[request[r].job].state # "absent"
             THEN job ELSE [job EXCEPT ![request[r].job].status = "CANCELLED"]
  /\ Go(r, [request[r] EXCEPT !.pc = "readJobs"])
  /\ UNCHANGED <<now, draft, schedule, entry, due, worker, made>>

CancelWrite(r) ==
  /\ ReqAt(r, "cancelWrite")
  /\ job' = [job EXCEPT ![request[r].job].status = "CANCELLED"]
  /\ Go(r, [request[r] EXCEPT !.pc = "readJobs"])
  /\ UNCHANGED <<now, draft, schedule, entry, due, worker, made>>

(* READY, also if some jobs have succeeded. *)
MarkCancelled(r) ==
  /\ ReqAt(r, "cancelled")
  /\ SetDraftStatus(request[r].draft, "READY")
  /\ Finish(r)
  /\ UNCHANGED <<now, schedule, job, entry, due, worker, made>>

ActiveSchedules(d) == {s \in Schedules : schedule[s].draft = d /\ ~schedule[s].cancelled}

(* publishSchedule.findFirst: the latest one that is not cancelled. *)
Reschedule(r, d, at) ==
  /\ Exists(d) /\ at >= now
  /\ \E s \in ActiveSchedules(d) :
       /\ \A t \in ActiveSchedules(d) : t <= s
       /\ Begin(r, "reschedule", [IdleRequest EXCEPT !.pc = "move", !.draft = d,
                                                     !.at = at, !.sched = s])
  /\ UNCHANGED <<now, draft, schedule, job, entry, due, worker>>

MoveSchedule(r) ==
  /\ ReqAt(r, "move")
  /\ schedule' = [schedule EXCEPT ![request[r].sched].at = request[r].at]
  /\ Go(r, [request[r] EXCEPT !.pc = "findQueued"])
  /\ UNCHANGED <<now, draft, job, entry, due, worker, made>>

FindQueued(r) ==
  /\ ReqAt(r, "findQueued")
  /\ LET queued == {j \in JobsOf(request[r].draft) :
                      job[j].sched = request[r].sched /\ job[j].status = "QUEUED"}
     IN  Go(r, [request[r] EXCEPT !.jobs = queued,
                  !.pc = IF queued = {} THEN "moved" ELSE "moveJob"])
  /\ UNCHANGED <<now, draft, schedule, job, entry, due, worker, made>>

(* The row alone is moved: the keys and the delayed entry stay. *)
MoveJob(r, j) ==
  /\ ReqAt(r, "moveJob") /\ j \in request[r].jobs
  /\ job' = [job EXCEPT ![j].runAt = request[r].at,
                        ![j].asked = IF request[r].at < @ THEN request[r].at ELSE @]
  /\ Go(r, [request[r] EXCEPT !.jobs = @ \ {j},
              !.pc = IF request[r].jobs = {j} THEN "moved" ELSE "moveJob"])
  /\ UNCHANGED <<now, draft, schedule, entry, due, worker, made>>

MarkMoved(r) ==
  /\ ReqAt(r, "moved")
  /\ LET d == request[r].draft
     IN  WriteDraft(d, [draft[d] EXCEPT !.status = "SCHEDULED",
                                        !.scheduledAt = request[r].at])
  /\ Finish(r)
  /\ UNCHANGED <<now, schedule, job, entry, due, worker, made>>

(* A Prisma call fails, a check refuses, or the API process dies. *)
RequestFails(r) ==
  /\ ~ReqAt(r, "idle")
  /\ Finish(r)
  /\ UNCHANGED <<now, draft, schedule, job, entry, due, worker, made>>

-----------------------------------------------------------------------------
(* The worker, the sweep and the clock *)

(* processPublishJob does not ask whether runAt has come. *)
StartJob(j) ==
  /\ worker.pc = "idle"
  /\ entry[j].state = "waiting" /\ due[j] <= now
  /\ job[j].status \notin {"CANCELLED", "SUCCEEDED"}
  /\ entry' = Take(entry, j)
  /\ job' = [job EXCEPT ![j].status = "RUNNING"]
  /\ worker' = [worker EXCEPT !.pc = "run", !.job = j]
  /\ UNCHANGED <<now, draft, schedule, due, request, made>>

SkipJob(j) ==
  /\ worker.pc = "idle"
  /\ entry[j].state = "waiting" /\ due[j] <= now
  /\ job[j].status \in {"CANCELLED", "SUCCEEDED"}
  /\ entry' = Complete(entry, j)
  /\ UNCHANGED <<now, draft, schedule, job, due, request, worker, made>>

(* The outcome is written whatever the status is by now.  FAILED stands    *)
(* for NEEDS_REAUTH too; how a job waits is PublishPipeline's.             *)
FinishJob ==
  /\ worker.pc = "run"
  /\ \E outcome \in {"SUCCEEDED", "FAILED"} :
       job' = [job EXCEPT ![worker.job].status = outcome]
  /\ worker' = [worker EXCEPT !.pc = "readJobs"]
  /\ UNCHANGED <<now, draft, schedule, entry, due, request, made>>

WorkerReadJobs ==
  /\ worker.pc = "readJobs"
  /\ worker' = [worker EXCEPT !.pc = "sync",
                  !.next = DerivedStatus(job[worker.job].draft)]
  /\ UNCHANGED <<now, draft, schedule, job, entry, due, request, made>>

WorkerSync ==
  /\ worker.pc = "sync"
  /\ SetDraftStatus(job[worker.job].draft, worker.next)
  /\ entry' = Complete(entry, worker.job)
  /\ worker' = IdleWorker
  /\ UNCHANGED <<now, schedule, job, due, request, made>>

(* Seeded slip: the sweep looks at the draft's status as well. *)
RecoverScheduled(j) ==
  /\ job[j].status = "QUEUED" /\ job[j].runAt <= now
  /\ draft[job[j].draft].status = "SCHEDULED"
  /\ entry[j].state = "absent"
  /\ entry' = Add(entry, j)
  /\ due' = [due EXCEPT ![j] = now]
  /\ UNCHANGED <<now, draft, schedule, job, request, worker, made>>

(* recoverPublishJobs: a QUEUED job whose runAt has come gets an entry     *)
(* without delay, unless it has one.  (In PublishPipeline the sweep reads  *)
(* and adds in two steps.)                                                 *)
Recover(j) ==
  /\ job[j].status = "QUEUED" /\ job[j].runAt <= now
  /\ entry[j].state = "absent"
  /\ entry' = Add(entry, j)
  /\ due' = [due EXCEPT ![j] = now]
  /\ UNCHANGED <<now, draft, schedule, job, request, worker, made>>

Tick ==
  /\ now < MaxTime /\ now' = now + 1
  /\ UNCHANGED <<draft, schedule, job, entry, due, request, worker, made>>

-----------------------------------------------------------------------------
(* A user calls an operation. *)
Call(r) ==
  \E d \in DraftIds :
    \/ \E platforms \in SUBSET Platforms, at \in Instants \cup {0} : Create(r, d, platforms, at)
    \/ \E platforms \in SUBSET Platforms : UpdatePlatforms(r, d, platforms)
    \/ \E at \in Instants \cup {0} : UpdateRow(r, d, at)
    \/ \E copy \in DraftIds : Duplicate(r, d, copy)
    \/ Archive(r, d) \/ PublishNow(r, d) \/ Cancel(r, d)
    \/ \E at \in Instants : ScheduleDraft(r, d, at) \/ Reschedule(r, d, at)

(* A request goes on. *)
Continue(r) ==
  \/ ClearTargets(r) \/ SaveRow(r) \/ SaveReadiness(r) \/ MarkReady(r)
  \/ ScheduleCreated(r) \/ AddSchedule(r) \/ MarkScheduled(r)
  \/ ReadDraft(r) \/ CreateJob(r) \/ Enqueue(r) \/ ReadJobs(r) \/ Sync(r)
  \/ \E p \in Platforms : AddTarget(r, p) \/ FindJob(r, p)
  \/ FindOpen(r) \/ CancelWrite(r) \/ MarkCancelled(r)
  \/ MoveSchedule(r) \/ FindQueued(r) \/ MarkMoved(r)
  \/ \E j \in Jobs : CancelCheck(r, j) \/ MoveJob(r, j)

WorkerStep ==
  \/ \E j \in Jobs : StartJob(j) \/ SkipJob(j)
  \/ FinishJob \/ WorkerReadJobs \/ WorkerSync

Next ==
  \/ \E r \in Requests : Call(r) \/ Continue(r) \/ RequestFails(r)
  \/ WorkerStep
  \/ \E j \in Jobs : Recover(j)
  \/ Tick

(* The clock and the worker go on, and so does the sweep; nothing is       *)
(* assumed of users, of requests or of Redis.                              *)
Spec ==
  /\ Init /\ [][Next]_vars
  /\ WF_vars(Tick) /\ WF_vars(WorkerStep)
  /\ \A j \in Jobs : WF_vars(Recover(j))

-----------------------------------------------------------------------------
(* Properties. *)

(* A job nobody cancels is picked up once its time has come, although the  *)
(* request that made it may die before the enqueue, Redis may be away or   *)
(* lose the add, and the job may be rescheduled while its entry waits.     *)
DueJobRuns ==
  \A j \in Jobs :
    job[j].status = "QUEUED" /\ job[j].runAt <= now ~> job[j].status # "QUEUED"

(* No job starts before the earliest instant anybody asked for, whether    *)
(* its entry came from createJobs or from the sweep and however it was     *)
(* rescheduled.                                                            *)
NeverBeforeAsked ==
  [][\A j \in Jobs :
       job[j].status = "QUEUED" /\ job'[j].status = "RUNNING" => job[j].asked <= now]_vars

(* Of the requests that read the same version of a draft, however they     *)
(* interleave, one at most creates its job for a platform and an instant.  *)
OneJobPerReading ==
  \A i, j \in Jobs :
    /\ i # j /\ job[i].draft # 0
    /\ job[i].draft = job[j].draft /\ job[i].platform = job[j].platform
    /\ job[i].keyAt = job[j].keyAt
    => job[i].version # job[j].version

(* A cancel that is about to report success has left no job queued of      *)
(* those it found, although they were cancelled one by one while the worker *)
(* and the sweep went on, and other requests with them.                    *)
CancelLeavesNoneQueued ==
  \A r \in Requests :
    ReqAt(r, "cancelled") => \A j \in request[r].found : job[j].status # "QUEUED"
=============================================================================

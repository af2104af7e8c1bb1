--------------------------- MODULE PublishPipeline ---------------------------
(***************************************************************************)
(* The publish jobs of one draft, from the queue to the platform.          *)
(*                                                                         *)
(* Actors, each advancing one awaited call at a time:                      *)
(*   workers   processPublishJob on the dispatch or on the retry queue;    *)
(*   sweeps    recoverPublishJobs, one timer per worker process;           *)
(*   clients   API requests running PublishService.cancelJob or retryJob;  *)
(*   platform  settles the posts it accepted.                              *)
(* They share the PublishJob, PublishAttempt and Draft rows in Postgres    *)
(* and the BullMQ entries in Redis.  All jobs are due (runAt has passed).  *)
(***************************************************************************)
EXTENDS JobQueue, PublishStatus, PlatformContract, FiniteSets

CONSTANTS
  Jobs,           \* the publish jobs of the draft
  Platform,       \* the platform of each job
  Processes,      \* worker processes
  Clients,        \* concurrent API requests
  MaxAttempts,    \* bound: attempts of one job
  MaxRetries,     \* bound: user retries of one job that reach the queue
  MaxCrashes,     \* bound: processes that die
  DispatchTries,  \* BullMQ attempts of a publish.dispatch entry (5 in the code)
  RemoteTries,    \* BullMQ attempts of a publish.remote-status entry (5)
  RetryTries,     \* BullMQ attempts of a publish.retry entry (3)
  Faults,         \* what may go wrong, a subset of FaultKinds
  None

FaultKinds ==
  {"lost_answer",   \* a submission is accepted but the call still fails
   "late_error",    \* a call made after a submission was accepted fails
   "store_error",   \* a Postgres or Redis call of a worker fails
   "redis_down",    \* the API finds Redis unavailable and skips an enqueue
   "crash",         \* a worker process or an API request dies
   "slow_save",     \* two row updates take longer than a 30 s queue delay
   "evict"}         \* completed entries are dropped from Redis

ASSUME ConstantsAssumption ==
  /\ IsFiniteSet(Jobs) /\ Jobs # {}
  /\ Platform \in [Jobs -> {"INSTAGRAM", "FACEBOOK", "TIKTOK"}]
  /\ MaxAttempts \in Nat \ {0}
  /\ MaxRetries \in Nat /\ MaxCrashes \in Nat
  /\ {DispatchTries, RemoteTries, RetryTries} \subseteq Nat \ {0}
  /\ Faults \subseteq FaultKinds

(***************************************************************************)
(* Queue entries.  The custom job ids publish_dispatch_<job> and           *)
(* publish_remote_<job> are one per job; publish_retry_<job>_<time> is new *)
(* on every user retry.                                                    *)
(***************************************************************************)
DispatchEntry(j) == [kind |-> "dispatch", job |-> j, seq |-> 0]
RemoteEntry(j)   == [kind |-> "remote", job |-> j, seq |-> 0]
RetryEntry(j, k) == [kind |-> "retry", job |-> j, seq |-> k]

EntryIds ==
  [kind : {"dispatch", "remote"}, job : Jobs, seq : {0}]
    \cup [kind : {"retry"}, job : Jobs, seq : 1 .. MaxRetries]

Tries(e) == CASE e.kind = "dispatch" -> DispatchTries
              [] e.kind = "remote"   -> RemoteTries
              [] e.kind = "retry"    -> RetryTries

(* Remote polls and user retries share the publish_retry queue. *)
QueueOf(e) == IF e.kind = "dispatch" THEN "publish_dispatch" ELSE "publish_retry"

(* One BullMQ worker per queue in each process, each with concurrency 1. *)
Workers == [process : Processes, queue : {"publish_dispatch", "publish_retry"}]

ASSUME NoneAssumption == None \notin EntryIds \cup Jobs

Attempts == 1 .. MaxAttempts

VARIABLES
  job,       \* PublishJob rows: status, attemptCount, remotePublishId
  attempt,   \* PublishAttempt rows: status by job and attempt number
  draft,     \* Draft.status
  entry,     \* BullMQ entries by job id
  post,      \* what the platform did with the submission of each attempt
  worker,    \* processPublishJob's locals
  client,    \* cancelJob's and retryJob's locals
  sweep,     \* recoverPublishJobs' locals
  crashes    \* processes that died so far

vars == <<job, attempt, draft, entry, post, worker, client, sweep, crashes>>

-----------------------------------------------------------------------------
(* What an error leaves in the rows. *)

(* Seeded slip: the error kind is stored in place of a status. *)
FailedStatusRaw(kind) == kind

FailedStatus(kind) == IF kind = "auth" THEN "NEEDS_REAUTH" ELSE "FAILED"

-----------------------------------------------------------------------------
(* Types and initial states. *)

WorkerPC ==
  {"idle", "markRunning", "createAttempt", "submit", "poll", "requeue",
   "saveAttempt", "saveJob", "failAttempt", "failJob", "readJobs", "saveDraft"}

ClientPC == {"idle", "cancel", "retry", "enqueue", "readJobs", "saveDraft"}

(* The columns of a PublishJob row that decide what is done with it. *)
JobRow == [status : PublishJobStatus, attemptCount : 0 .. MaxAttempts,
           remoteId : 0 .. MaxAttempts]

(* The locals of processPublishJob: attemptNumber, the submission's id,    *)
(* finalStatus, the kind of the caught error, and the next draft status.   *)
Run == [pc : WorkerPC, entry : EntryIds \cup {None}, num : 0 .. MaxAttempts,
        rid : 0 .. MaxAttempts, outcome : PublishJobStatus \cup {"NONE"},
        kind : ErrorKinds \cup {"none"}, next : DraftStatus]

ApiRequest == [pc : ClientPC, job : Jobs \cup {None}, next : DraftStatus]

Sweep == [pc : {"dispatch", "remote"}, todo : SUBSET Jobs]

TypeOK ==
  /\ job \in [Jobs -> JobRow]
  /\ attempt \in [Jobs -> [Attempts -> PublishJobStatus \cup {"NONE"}]]
  /\ draft \in DraftStatus
  /\ entry \in [EntryIds -> Entry]
  /\ post \in [Jobs -> [Attempts -> Accepted \cup {"none"}]]
  /\ worker \in [Workers -> Run]
  /\ client \in [Clients -> ApiRequest]
  /\ sweep \in [Processes -> Sweep]
  /\ crashes \in 0 .. MaxCrashes

IdleWorker ==
  [pc |-> "idle", entry |-> None, num |-> 0, rid |-> 0, outcome |-> "NONE",
   kind |-> "none", next |-> "DRAFT"]

IdleClient == [pc |-> "idle", job |-> None, next |-> "DRAFT"]

(* No sweep is under way: the last one has added all it found. *)
IdleSweep == [pc |-> "remote", todo |-> {}]

(* The API has created the jobs; the enqueue that follows may have been    *)
(* skipped because Redis was unavailable.                                  *)
Init ==
  /\ job = [j \in Jobs |-> [status |-> "QUEUED", attemptCount |-> 0,
                            remoteId |-> 0]]
  /\ attempt = [j \in Jobs |-> [n \in Attempts |-> "NONE"]]
  /\ draft = "SCHEDULED"
  /\ \E queued \in SUBSET Jobs :
       /\ queued = Jobs \/ "redis_down" \in Faults
       /\ entry = [e \in EntryIds |->
                     IF e.kind = "dispatch" /\ e.job \in queued THEN Fresh ELSE Absent]
  /\ post = [j \in Jobs |-> [n \in Attempts |-> "none"]]
  /\ worker = [w \in Workers |-> IdleWorker]
  /\ client = [c \in Clients |-> IdleClient]
  /\ sweep = [p \in Processes |-> IdleSweep]
  /\ crashes = 0

-----------------------------------------------------------------------------
(* processPublishJob *)

JobOf(w) == worker[w].entry.job

(* The worker w is somewhere inside processPublishJob. *)
Busy(w) == worker[w].pc # "idle"

(* The row of job j is updated. *)
StoreJob(j, row) == job' = [job EXCEPT ![j] = row]

(* Worker w is in the call named pc. *)
At(w, pc) == worker[w].pc = pc

(* The locals of w become new. *)
Step(w, new) == worker' = [worker EXCEPT ![w] = new]

(* The 30 s delay of a remote-status entry outlasts the two row updates    *)
(* that follow its add, unless they are slow.                              *)
DelayElapsed(e) ==
  \/ "slow_save" \in Faults
  \/ e.kind # "remote"
  \/ \A w \in Workers : Busy(w) /\ JobOf(w) = e.job =>
       worker[w].pc \notin {"saveAttempt", "saveJob"}

(* BullMQ hands w an entry whose delay has passed. *)
CanTake(w, e) ==
  /\ ~Busy(w)
  /\ entry[e].state = "waiting"
  /\ QueueOf(e) = w.queue
  /\ DelayElapsed(e)

(* Seeded slip: only successful jobs count as finalized. *)
FinalizedOnlySucceeded == {"SUCCEEDED"}

Finalized == {"CANCELLED", "SUCCEEDED"}

(* findUnique read a finalized job: "publish_job_already_finalized". *)
SkipFinalized(w, e) ==
  /\ CanTake(w, e)
  /\ job[e.job].status \in Finalized
  /\ entry' = Complete(entry, e)
  /\ UNCHANGED <<job, attempt, draft, post, worker, client, sweep, crashes>>

(* Seeded slip: a run never resumes. *)
ResumedIdNone(r) == 0

(* The submission a run of job row r resumes: 0 for none. *)
ResumedId(r) == IF r.status = "WAITING_REMOTE" THEN r.remoteId ELSE 0

(* findUnique: the run works on this snapshot of the row. *)
Fetch(w, e) ==
  /\ CanTake(w, e)
  /\ job[e.job].status \notin Finalized
  /\ job[e.job].attemptCount < MaxAttempts
  /\ entry' = Take(entry, e)
  /\ Step(w, [IdleWorker EXCEPT !.pc = "markRunning", !.entry = e,
                                !.num = job[e.job].attemptCount + 1,
                                !.rid = ResumedId(job[e.job])])
  /\ UNCHANGED <<job, attempt, draft, post, client, sweep, crashes>>

MarkRunning(w) ==
  /\ At(w, "markRunning")
  /\ StoreJob(JobOf(w), [job[JobOf(w)] EXCEPT
              !.status = "RUNNING", !.attemptCount = worker[w].num])
  /\ Step(w, [worker[w] EXCEPT !.pc = "createAttempt"])
  /\ UNCHANGED <<attempt, draft, entry, post, client, sweep, crashes>>

(* Seeded slip: the row is not checked for being new. *)
CreateAttemptUpsert(w) ==
  /\ At(w, "createAttempt")
  /\ attempt' = [attempt EXCEPT ![JobOf(w)][worker[w].num] = "RUNNING"]
  /\ Step(w, [worker[w] EXCEPT !.pc = "submit"])
  /\ UNCHANGED <<job, draft, entry, post, client, sweep, crashes>>

(* Seeded slip: the row is left to be written with the outcome. *)
CreateAttemptLate(w) ==
  /\ At(w, "createAttempt")
  /\ Step(w, [worker[w] EXCEPT !.pc = "submit"])
  /\ UNCHANGED <<job, attempt, draft, entry, post, client, sweep, crashes>>

(* publishAttempt.create, and the event that goes with it.                 *)
CreateAttempt(w) ==
  /\ At(w, "createAttempt")
  /\ attempt[JobOf(w)][worker[w].num] = "NONE"
  /\ attempt' = [attempt EXCEPT ![JobOf(w)][worker[w].num] = "RUNNING"]
  /\ Step(w, [worker[w] EXCEPT !.pc = "submit"])
  /\ UNCHANGED <<job, draft, entry, post, client, sweep, crashes>>

(* The processor throws: the run is over and BullMQ books a failed try. *)
Rethrow(w) ==
  /\ entry' = Throw(entry, worker[w].entry, Tries(worker[w].entry))
  /\ Step(w, IdleWorker)

(* @@unique([publishJobId, attemptNumber]) refuses the row, outside the    *)
(* try block.                                                              *)
DuplicateAttempt(w) ==
  /\ At(w, "createAttempt")
  /\ attempt[JobOf(w)][worker[w].num] # "NONE"
  /\ Rethrow(w)
  /\ UNCHANGED <<job, attempt, draft, post, client, sweep, crashes>>

(* The run goes on in its catch block with a normalized error. *)
Caught(w, kind) ==
  Step(w, [worker[w] EXCEPT !.pc = "failAttempt", !.kind = kind,
                            !.rid = 0, !.outcome = "NONE"])

(* validateConnection, validateMedia or the platform refuse, and nothing   *)
(* was submitted by this run.                                              *)
Refuse(w, kind) ==
  /\ At(w, "submit")
  /\ worker[w].rid = 0 \/ "late_error" \in Faults
  /\ Caught(w, kind)
  /\ UNCHANGED <<job, attempt, draft, entry, post, client, sweep, crashes>>

(* The snapshot was waiting for the platform: poll its submission again. *)
ResumePoll(w) ==
  /\ At(w, "submit")
  /\ worker[w].rid # 0
  /\ Step(w, [worker[w] EXCEPT !.pc = "poll"])
  /\ UNCHANGED <<job, attempt, draft, entry, post, client, sweep, crashes>>

(* The platform accepts a submission, which the model numbers like the     *)
(* attempt that made it.                                                   *)
AcceptPost(w, answer) ==
  /\ At(w, "submit")
  /\ worker[w].rid = 0
  /\ answer \in SubmitAnswers(Platform[JobOf(w)])
  /\ post' = [post EXCEPT ![JobOf(w)][worker[w].num] = PostOf(answer)]

Submit(w, answer) ==
  /\ AcceptPost(w, answer)
  /\ Step(w, [worker[w] EXCEPT !.rid = worker[w].num, !.outcome = answer,
                !.pc = IF answer = "SUCCEEDED" THEN "saveAttempt" ELSE "poll"])
  /\ UNCHANGED <<job, attempt, draft, entry, client, sweep, crashes>>

(* Accepted, but the answer is lost or a later call of the adapter (the    *)
(* permalink, the upload) fails.                                           *)
SubmitUnanswered(w, answer, kind) ==
  /\ "lost_answer" \in Faults
  /\ AcceptPost(w, answer)
  /\ Caught(w, kind)
  /\ UNCHANGED <<job, attempt, draft, entry, client, sweep, crashes>>

(* pollUntilRemoteSettles: seven polls, ten seconds apart. *)
Poll(w) ==
  /\ At(w, "poll")
  /\ LET answer == PollAnswer(Platform[JobOf(w)], post[JobOf(w)][worker[w].rid])
     IN  Step(w, [worker[w] EXCEPT !.outcome = answer,
                    !.pc = IF answer = "WAITING_REMOTE" THEN "requeue" ELSE "saveAttempt"])
  /\ UNCHANGED <<job, attempt, draft, entry, post, client, sweep, crashes>>

PollFails(w, kind) ==
  /\ At(w, "poll")
  /\ "late_error" \in Faults
  /\ Caught(w, kind)
  /\ UNCHANGED <<job, attempt, draft, entry, post, client, sweep, crashes>>

(* scheduleRemotePollRetry *)
Requeue(w) ==
  /\ At(w, "requeue")
  /\ entry' = Add(entry, RemoteEntry(JobOf(w)))
  /\ Step(w, [worker[w] EXCEPT !.pc = "saveAttempt"])
  /\ UNCHANGED <<job, attempt, draft, post, client, sweep, crashes>>

SaveAttempt(w) ==
  /\ At(w, "saveAttempt")
  /\ attempt' = [attempt EXCEPT ![JobOf(w)][worker[w].num] = worker[w].outcome]
  /\ Step(w, [worker[w] EXCEPT !.pc = "saveJob"])
  /\ UNCHANGED <<job, draft, entry, post, client, sweep, crashes>>

(* The job row is written: only the draft is left to update. *)
Settled(w) == Step(w, [IdleWorker EXCEPT !.pc = "readJobs", !.entry = worker[w].entry])

(* Seeded slip: the remote id is left as it was. *)
SaveJobWithoutId(w) ==
  /\ At(w, "saveJob")
  /\ StoreJob(JobOf(w), [job[JobOf(w)] EXCEPT !.status = worker[w].outcome])
  /\ Settled(w)
  /\ UNCHANGED <<attempt, draft, entry, post, client, sweep, crashes>>

SaveJob(w) ==
  /\ At(w, "saveJob")
  /\ StoreJob(JobOf(w), [job[JobOf(w)] EXCEPT
              !.status = worker[w].outcome, !.remoteId = worker[w].rid])
  /\ Settled(w)
  /\ UNCHANGED <<attempt, draft, entry, post, client, sweep, crashes>>

(* The catch block: the attempt row, then the job row and its event. *)
FailAttempt(w) ==
  /\ At(w, "failAttempt")
  /\ attempt' = [attempt EXCEPT
                   ![JobOf(w)][worker[w].num] = FailedStatus(worker[w].kind)]
  /\ Step(w, [worker[w] EXCEPT !.pc = "failJob"])
  /\ UNCHANGED <<job, draft, entry, post, client, sweep, crashes>>

(* Seeded slip: every failure is stored as FAILED. *)
FailJobPlain(w) ==
  /\ At(w, "failJob")
  /\ StoreJob(JobOf(w), [job[JobOf(w)] EXCEPT !.status = "FAILED"])
  /\ IF worker[w].kind = "transient"
     THEN Rethrow(w)
     ELSE Settled(w) /\ UNCHANGED entry
  /\ UNCHANGED <<attempt, draft, post, client, sweep, crashes>>

(* Seeded slip: a transient error is thrown on before the row is written. *)
FailJobTooLate(w) ==
  /\ At(w, "failJob")
  /\ IF worker[w].kind = "transient"
     THEN Rethrow(w) /\ UNCHANGED job
     ELSE /\ Settled(w)
          /\ StoreJob(JobOf(w), [job[JobOf(w)] EXCEPT
                      !.status = FailedStatus(worker[w].kind)])
          /\ UNCHANGED entry
  /\ UNCHANGED <<attempt, draft, post, client, sweep, crashes>>

FailJob(w) ==
  /\ At(w, "failJob")
  /\ StoreJob(JobOf(w), [job[JobOf(w)] EXCEPT
              !.status = FailedStatus(worker[w].kind)])
  /\ IF worker[w].kind = "transient"
     THEN Rethrow(w)
     ELSE Settled(w) /\ UNCHANGED entry
  /\ UNCHANGED <<attempt, draft, post, client, sweep, crashes>>

(* syncDraftStatus: read the statuses of all jobs, then write the draft. *)
DerivedStatus == ResolveDraftStatus({job[j].status : j \in Jobs})

ReadJobs(w) ==
  /\ At(w, "readJobs")
  /\ Step(w, [worker[w] EXCEPT !.pc = "saveDraft", !.next = DerivedStatus])
  /\ UNCHANGED <<job, attempt, draft, entry, post, client, sweep, crashes>>

SaveDraft(w) ==
  /\ At(w, "saveDraft")
  /\ draft' = worker[w].next
  /\ entry' = Complete(entry, worker[w].entry)
  /\ Step(w, IdleWorker)
  /\ UNCHANGED <<job, attempt, post, client, sweep, crashes>>

(* A Postgres or Redis call fails.  Inside the try block that is one more  *)
(* error, normalized as transient; outside of it the processor throws.     *)
StoreErrorInTry(w) ==
  /\ "store_error" \in Faults
  /\ worker[w].pc \in {"requeue", "saveAttempt", "saveJob"}
  /\ Caught(w, "transient")
  /\ UNCHANGED <<job, attempt, draft, entry, post, client, sweep, crashes>>

StoreErrorOutsideTry(w) ==
  /\ "store_error" \in Faults
  /\ worker[w].pc \in {"markRunning", "createAttempt", "failAttempt", "failJob",
                       "readJobs", "saveDraft"}
  /\ Rethrow(w)
  /\ UNCHANGED <<job, attempt, draft, post, client, sweep, crashes>>

(* The row is written but the insert of the event after it fails: a run     *)
(* that has stored its outcome goes to the catch block all the same.        *)
EventWriteFails(w) ==
  /\ "store_error" \in Faults
  /\ \/ /\ At(w, "createAttempt")
        /\ attempt[JobOf(w)][worker[w].num] = "NONE"
        /\ attempt' = [attempt EXCEPT ![JobOf(w)][worker[w].num] = "RUNNING"]
        /\ Rethrow(w)
        /\ UNCHANGED job
     \/ /\ At(w, "saveJob")
        /\ StoreJob(JobOf(w), [job[JobOf(w)] EXCEPT
                    !.status = worker[w].outcome, !.remoteId = worker[w].rid])
        /\ Caught(w, "transient")
        /\ UNCHANGED <<attempt, entry>>
     \/ /\ At(w, "failJob")
        /\ StoreJob(JobOf(w), [job[JobOf(w)] EXCEPT
                    !.status = FailedStatus(worker[w].kind)])
        /\ Rethrow(w)
        /\ UNCHANGED attempt
  /\ UNCHANGED <<draft, post, client, sweep, crashes>>

-----------------------------------------------------------------------------
(* recoverPublishJobs, on its one-minute timer in each process *)

(* Seeded slip: the sweep forgets the queued jobs. *)
SweepQueuedNone(p) ==
  /\ sweep[p] = IdleSweep
  /\ sweep' = [sweep EXCEPT ![p] = [pc |-> "dispatch", todo |-> {}]]
  /\ UNCHANGED <<job, attempt, draft, entry, post, worker, client, crashes>>

(* findMany of the QUEUED jobs; all fit in one batch. *)
SweepQueued(p) ==
  /\ sweep[p] = IdleSweep
  /\ sweep' = [sweep EXCEPT ![p] =
                 [pc |-> "dispatch", todo |-> {j \in Jobs : job[j].status = "QUEUED"}]]
  /\ UNCHANGED <<job, attempt, draft, entry, post, worker, client, crashes>>

AddDispatch(p, j) ==
  /\ sweep[p].pc = "dispatch" /\ j \in sweep[p].todo
  /\ entry' = Add(entry, DispatchEntry(j))
  /\ sweep' = [sweep EXCEPT ![p].todo = @ \ {j}]
  /\ UNCHANGED <<job, attempt, draft, post, worker, client, crashes>>

(* findMany of the WAITING_REMOTE jobs, after the last dispatch was added. *)
SweepWaiting(p) ==
  /\ sweep[p].pc = "dispatch" /\ sweep[p].todo = {}
  /\ sweep' = [sweep EXCEPT ![p] =
                 [pc |-> "remote",
                  todo |-> {j \in Jobs : job[j].status = "WAITING_REMOTE"}]]
  /\ UNCHANGED <<job, attempt, draft, entry, post, worker, client, crashes>>

AddRemote(p, j) ==
  /\ sweep[p].pc = "remote" /\ j \in sweep[p].todo
  /\ entry' = Add(entry, RemoteEntry(j))
  /\ sweep' = [sweep EXCEPT ![p].todo = @ \ {j}]
  /\ UNCHANGED <<job, attempt, draft, post, worker, client, crashes>>

-----------------------------------------------------------------------------
(* PublishService.cancelJob and retryJob *)

Request(c, new) == client' = [client EXCEPT ![c] = new]

Cancellable == PublishJobStatus \ {"SUCCEEDED", "FAILED"}
Retryable == {"FAILED", "NEEDS_REAUTH", "CANCELLED"}

(* findFirst and the status check of cancelJob. *)
CancelCheck(c, j) ==
  /\ client[c].pc = "idle"
  /\ job[j].status \in Cancellable
  /\ Request(c, [IdleClient EXCEPT !.pc = "cancel", !.job = j])
  /\ UNCHANGED <<job, attempt, draft, entry, post, worker, sweep, crashes>>

(* The update is not conditional on the status that was checked. *)
CancelWrite(c) ==
  /\ client[c].pc = "cancel"
  /\ StoreJob(client[c].job, [job[client[c].job] EXCEPT !.status = "CANCELLED"])
  /\ Request(c, [client[c] EXCEPT !.pc = "readJobs"])
  /\ UNCHANGED <<attempt, draft, entry, post, worker, sweep, crashes>>

CancelReadJobs(c) ==
  /\ client[c].pc = "readJobs"
  /\ Request(c, [client[c] EXCEPT !.pc = "saveDraft", !.next = DerivedStatus])
  /\ UNCHANGED <<job, attempt, draft, entry, post, worker, sweep, crashes>>

CancelSaveDraft(c) ==
  /\ client[c].pc = "saveDraft"
  /\ draft' = client[c].next
  /\ Request(c, IdleClient)
  /\ UNCHANGED <<job, attempt, entry, post, worker, sweep, crashes>>

(* Retry ids the bound still leaves for job j. *)
FreeRetries(j) == {k \in 1 .. MaxRetries : entry[RetryEntry(j, k)].state = "absent"}

RetryCheck(c, j) ==
  /\ client[c].pc = "idle"
  /\ job[j].status \in Retryable
  /\ FreeRetries(j) # {}
  /\ Request(c, [IdleClient EXCEPT !.pc = "retry", !.job = j])
  /\ UNCHANGED <<job, attempt, draft, entry, post, worker, sweep, crashes>>

RetryWrite(c) ==
  /\ client[c].pc = "retry"
  /\ StoreJob(client[c].job, [job[client[c].job] EXCEPT !.status = "QUEUED"])
  /\ Request(c, [client[c] EXCEPT !.pc = "enqueue"])
  /\ UNCHANGED <<attempt, draft, entry, post, worker, sweep, crashes>>

RetryEnqueue(c) ==
  /\ client[c].pc = "enqueue"
  /\ \E k \in FreeRetries(client[c].job) :
       entry' = Add(entry, RetryEntry(client[c].job, k))
  /\ Request(c, IdleClient)
  /\ UNCHANGED <<job, attempt, draft, post, worker, sweep, crashes>>

(* QueueService.enqueue returns without adding while Redis is unavailable. *)
RetryEnqueueSkipped(c) ==
  /\ client[c].pc = "enqueue"
  /\ "redis_down" \in Faults
  /\ Request(c, IdleClient)
  /\ UNCHANGED <<job, attempt, draft, entry, post, worker, sweep, crashes>>

-----------------------------------------------------------------------------
(* The environment: the platform, Redis housekeeping and failures *)

(* A Facebook video ends processing before it is published. *)
FinishProcessing(j, n) ==
  /\ Platform[j] = "FACEBOOK"
  /\ post[j][n] = "processing"
  /\ post' = [post EXCEPT ![j][n] = "processed"]
  /\ UNCHANGED <<job, attempt, draft, entry, worker, client, sweep, crashes>>

Settle(j, n) ==
  /\ \E s \in Outcomes(post[j][n]) : post' = [post EXCEPT ![j][n] = s]
  /\ UNCHANGED <<job, attempt, draft, entry, worker, client, sweep, crashes>>

(* SIGKILL, out of memory, or an unhandled rejection: the process dies     *)
(* with both of its workers and its timer.                                 *)
Crash(p) ==
  /\ "crash" \in Faults
  /\ crashes < MaxCrashes
  /\ crashes' = crashes + 1
  /\ worker' = [w \in Workers |-> IF w.process = p THEN IdleWorker ELSE worker[w]]
  /\ sweep' = [sweep EXCEPT ![p] = IdleSweep]
  /\ UNCHANGED <<job, attempt, draft, entry, post, client>>

ClientDies(c) ==
  /\ "crash" \in Faults
  /\ client[c].pc # "idle"
  /\ Request(c, IdleClient)
  /\ UNCHANGED <<job, attempt, draft, entry, post, worker, sweep, crashes>>

(* The lock of an entry whose worker died runs out. *)
StallEntry(e) ==
  /\ entry[e].state = "active"
  /\ \A w \in Workers : worker[w].entry # e
  /\ entry' = Stall(entry, e)
  /\ UNCHANGED <<job, attempt, draft, post, worker, client, sweep, crashes>>

EvictEntry(e) ==
  /\ "evict" \in Faults
  /\ entry[e].state = "completed"
  /\ entry' = Evict(entry, e)
  /\ UNCHANGED <<job, attempt, draft, post, worker, client, sweep, crashes>>

-----------------------------------------------------------------------------
(* Everything w may do next when no call fails. *)
WorkerStep(w) ==
  \/ \E e \in EntryIds : SkipFinalized(w, e) \/ Fetch(w, e)
  \/ MarkRunning(w) \/ CreateAttempt(w) \/ DuplicateAttempt(w)
  \/ \E kind \in ErrorKinds : Refuse(w, kind)
  \/ ResumePoll(w)
  \/ \E answer \in PublishJobStatus : Submit(w, answer)
  \/ Poll(w) \/ Requeue(w)
  \/ SaveAttempt(w) \/ SaveJob(w)
  \/ FailAttempt(w) \/ FailJob(w)
  \/ ReadJobs(w) \/ SaveDraft(w)

WorkerFault(w) ==
  \/ \E kind \in ErrorKinds : PollFails(w, kind)
  \/ \E answer \in PublishJobStatus, kind \in ErrorKinds :
       SubmitUnanswered(w, answer, kind)
  \/ StoreErrorInTry(w) \/ StoreErrorOutsideTry(w) \/ EventWriteFails(w)

SweepStep(p) ==
  \/ SweepQueued(p) \/ SweepWaiting(p)
  \/ \E j \in Jobs : AddDispatch(p, j) \/ AddRemote(p, j)

ClientStep(c) ==
  \/ \E j \in Jobs : CancelCheck(c, j) \/ RetryCheck(c, j)
  \/ CancelWrite(c) \/ CancelReadJobs(c) \/ CancelSaveDraft(c)
  \/ RetryWrite(c) \/ RetryEnqueue(c) \/ RetryEnqueueSkipped(c)

Environment ==
  \/ \E j \in Jobs, n \in Attempts : FinishProcessing(j, n) \/ Settle(j, n)
  \/ \E p \in Processes : Crash(p)
  \/ \E c \in Clients : ClientDies(c)
  \/ \E e \in EntryIds : StallEntry(e) \/ EvictEntry(e)

Next ==
  \/ \E w \in Workers : WorkerStep(w) \/ WorkerFault(w)
  \/ \E p \in Processes : SweepStep(p)
  \/ \E c \in Clients : ClientStep(c)
  \/ Environment

Spec == Init /\ [][Next]_vars

(***************************************************************************)
(* Workers run what BullMQ hands them, the sweep timer fires, the platform *)
(* settles what it accepted, and a request that has begun is served.       *)
(* Nothing is assumed of users, of failures, or of what Redis evicts.      *)
(***************************************************************************)
Fairness ==
  /\ \A w \in Workers : WF_vars(WorkerStep(w))
  /\ \A p \in Processes : WF_vars(SweepStep(p))
  /\ \A c \in Clients : WF_vars(client[c].pc # "idle" /\ ClientStep(c))
  /\ \A j \in Jobs, n \in Attempts : WF_vars(Settle(j, n))
  /\ \A e \in EntryIds : WF_vars(StallEntry(e))

FairSpec == Spec /\ Fairness

-----------------------------------------------------------------------------
(* Safety. *)

(* Inside the try block: the run owns an attempt row. *)
InTry(w) ==
  worker[w].pc \in {"submit", "poll", "requeue", "saveAttempt", "saveJob",
                    "failAttempt", "failJob"}

(* Two runs of the same job that overlap never work on the same attempt    *)
(* row, although both may have read the same attemptCount: of two runs     *)
(* that count to the same number the unique index stops one.               *)
AttemptsExclusive ==
  \A v, w \in Workers :
    /\ v # w /\ InTry(v) /\ InTry(w)
    /\ JobOf(v) = JobOf(w)
    => worker[v].num # worker[w].num

(* Whatever fails and whenever a process dies, a submission the platform   *)
(* accepted has a row in the attempt log.                                  *)
PostsAreLogged ==
  \A j \in Jobs, n \in Attempts : post[j][n] # "none" => attempt[j][n] # "NONE"

(* What an adapter may have taken for a published post: Facebook's         *)
(* pollStatus is content with a finished processing phase.                 *)
Confirmed(p) ==
  IF p = "FACEBOOK" THEN {"processed", "live", "withdrawn"} ELSE {"live"}

(* A job is SUCCEEDED only if the submission its row names was confirmed   *)
(* by the platform: no overlap of runs, cancellations, retries and crashes *)
(* reports a publication that did not happen or names another post.        *)
SuccessIsReal ==
  \A j \in Jobs : job[j].status = "SUCCEEDED" =>
    /\ job[j].remoteId # 0
    /\ post[j][job[j].remoteId] \in Confirmed(Platform[j])

(* A job that waits for the platform names a submission the platform has,  *)
(* so that a later run can resume polling instead of submitting again.     *)
WaitingIsPollable ==
  \A j \in Jobs : job[j].status = "WAITING_REMOTE" =>
    job[j].remoteId # 0 /\ post[j][job[j].remoteId] \in Accepted

HasConfirmedPost(j) == \E n \in Attempts : post[j][n] \in Confirmed(Platform[j])

(* What draft status s claims of the platforms. *)
ClaimIsReal(s) ==
  /\ s = "PUBLISHED" => \A j \in Jobs : HasConfirmedPost(j)
  /\ s = "PARTIALLY_PUBLISHED" => \E j \in Jobs : HasConfirmedPost(j)

(* The draft says PUBLISHED only if every job has a confirmed post, and    *)
(* PARTIALLY_PUBLISHED only if one has, although it is written by several  *)
(* actors from statuses they read earlier.                                 *)
DraftClaimsAreReal == ClaimIsReal(draft)

(* No job has two posts that the platform did not reject: the idempotency  *)
(* docs/architecture.md promises of publish operations.                    *)
AtMostOnce ==
  \A j \in Jobs :
    Cardinality({n \in Attempts : post[j][n] \in {"processing", "processed", "live"}}) <= 1

(* Attempt rows are a log: once an attempt has ended its row stays.        *)
EndedAttemptsStay ==
  [][\A j \in Jobs, n \in Attempts :
       attempt[j][n] \notin {"NONE", "RUNNING"} => attempt'[j][n] = attempt[j][n]]_attempt

(* No worker holds job j. *)
Unattended(j) == \A w \in Workers : Busy(w) => JobOf(w) # j

(* Between runs the job row and the last attempt row tell the same story,  *)
(* unless the user cancelled in between.                                   *)
JobMatchesLastAttempt ==
  \A j \in Jobs :
    Unattended(j) /\ job[j].status \notin {"QUEUED", "CANCELLED"} =>
      /\ job[j].attemptCount # 0
      /\ attempt[j][job[j].attemptCount] = job[j].status

(* A cancellation that no run overlaps is respected by every later run.    *)
CancelledUnattended(j) ==
  /\ job[j].status = "CANCELLED" /\ Unattended(j)
  /\ \A c \in Clients : client[c].pc \notin {"retry", "enqueue"}

QuietCancelIsFinal ==
  \A j \in Jobs : [](CancelledUnattended(j) => [](job[j].status = "CANCELLED"))

-----------------------------------------------------------------------------
(* Liveness. *)

(* A queued job is picked up, even if its enqueue was lost.                *)
QueuedIsPickedUp ==
  \A j \in Jobs : job[j].status = "QUEUED" ~> job[j].status # "QUEUED"

(* A run that began comes to an end the user can see.                      *)
RunningEnds == \A j \in Jobs : job[j].status = "RUNNING" ~> job[j].status # "RUNNING"

(* A job that waits for the platform learns what became of its post.       *)
WaitingEnds ==
  \A j \in Jobs : job[j].status = "WAITING_REMOTE" ~> job[j].status # "WAITING_REMOTE"
=============================================================================

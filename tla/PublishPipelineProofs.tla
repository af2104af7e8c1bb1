------------------------ MODULE PublishPipelineProofs ------------------------
(***************************************************************************)
(* Proofs about PublishPipeline, for every set of jobs, processes and API  *)
(* requests, every choice of bounds and every set of faults.               *)
(*                                                                         *)
(* IInv is inductive.  Its heart is RunInv, what a run of                  *)
(* processPublishJob knows of the attempt row it created and of the        *)
(* submission it made or resumed; Grows, what no step takes back, carries  *)
(* that knowledge over the steps of everybody else.                        *)
(***************************************************************************)
EXTENDS PublishPipeline, JobQueueProofs

(* The ids the code makes up are ids of entries, and name their job. *)
LEMMA EntryIdFacts ==
  /\ \A j \in Jobs : DispatchEntry(j) \in EntryIds /\ RemoteEntry(j) \in EntryIds
  /\ \A j \in Jobs, k \in 1 .. MaxRetries : RetryEntry(j, k) \in EntryIds
  /\ \A e \in EntryIds : e.job \in Jobs /\ Tries(e) \in Nat /\ e # None
BY ConstantsAssumption, NoneAssumption
   DEF DispatchEntry, RemoteEntry, RetryEntry, EntryIds, Tries, ConstantsAssumption, NoneAssumption

(* What a run knows about the attempt and the submission it works on. *)
RunInv(w) ==
  LET r == worker[w]
  IN  /\ r.pc # "idle" => r.entry \in EntryIds
      /\ InTry(w) \/ r.pc \in {"markRunning", "createAttempt"} => r.num # 0
      /\ InTry(w) => attempt[JobOf(w)][r.num] # "NONE"
      /\ r.pc # "idle" /\ r.rid # 0 => post[JobOf(w)][r.rid] \in Accepted
      /\ r.pc \in {"poll", "requeue", "saveAttempt", "saveJob"} => r.rid # 0
      /\ r.pc = "submit" /\ r.rid = 0 => post[JobOf(w)][r.num] = "none"
      /\ r.pc = "requeue" => r.outcome = "WAITING_REMOTE"
      /\ r.pc \in {"saveAttempt", "saveJob"} =>
           r.outcome \in {"SUCCEEDED", "WAITING_REMOTE", "FAILED"}
      /\ r.pc \in {"saveAttempt", "saveJob"} /\ r.outcome = "SUCCEEDED" =>
           post[JobOf(w)][r.rid] \in Confirmed(Platform[JobOf(w)])

(* A request under way works on a job. *)
ClientInv(c) == client[c].pc # "idle" => client[c].job \in Jobs

(* Only Facebook tells the end of processing from publication. *)
PostsFit ==
  \A j \in Jobs, n \in Attempts :
    post[j][n] \in {"processed", "withdrawn"} => Platform[j] = "FACEBOOK"

(* Every draft status some actor holds or has written is a true claim. *)
Claims ==
  /\ ClaimIsReal(draft)
  /\ \A w \in Workers : ClaimIsReal(worker[w].next)
  /\ \A c \in Clients : ClaimIsReal(client[c].next)

IInv ==
  /\ TypeOK
  /\ \A w \in Workers : RunInv(w)
  /\ \A c \in Clients : ClientInv(c)
  /\ PostsFit
  /\ AttemptsExclusive
  /\ PostsAreLogged
  /\ SuccessIsReal
  /\ WaitingIsPollable
  /\ Claims

(* A caught error is stored as a publish job status. *)
LEMMA FailedStatusType == \A k : FailedStatus(k) \in PublishJobStatus
BY DEF FailedStatus, PublishJobStatus

(* syncDraftStatus derives a draft status. *)
LEMMA DerivedStatusType == DerivedStatus \in DraftStatus
BY DEF DerivedStatus, ResolveDraftStatus, DraftStatus

(* Idle actors have well-formed locals. *)
LEMMA IdleType == IdleWorker \in Run /\ IdleClient \in ApiRequest /\ IdleSweep \in Sweep
BY ConstantsAssumption
   DEF IdleWorker, Run, WorkerPC, PublishJobStatus, ErrorKinds, DraftStatus,
       IdleClient, ApiRequest, ClientPC, IdleSweep, Sweep, ConstantsAssumption

(* Updating one row keeps the job table well formed. *)
LEMMA StoreJobType ==
  ASSUME TypeOK, NEW j \in Jobs, NEW row \in JobRow, StoreJob(j, row)
  PROVE  job' \in [Jobs -> JobRow]
BY DEF TypeOK, StoreJob

(* Replacing the locals of one worker keeps them all well formed. *)
LEMMA StepType ==
  ASSUME TypeOK, NEW w \in Workers, NEW new \in Run, Step(w, new)
  PROVE  worker' \in [Workers -> Run]
BY DEF TypeOK, Step

(* Replacing the locals of one API request keeps them all well formed. *)
LEMMA RequestType ==
  ASSUME TypeOK, NEW c \in Clients, NEW new \in ApiRequest, Request(c, new)
  PROVE  client' \in [Clients -> ApiRequest]
BY DEF TypeOK, Request

(* What the locals of a busy worker point to exists. *)
LEMMA RunTypes ==
  ASSUME NEW w \in Workers, TypeOK, RunInv(w)
  PROVE  /\ worker[w] \in Run
         /\ Busy(w) => /\ worker[w].entry \in EntryIds
                       /\ JobOf(w) \in Jobs
                       /\ job[JobOf(w)] \in JobRow
                       /\ Tries(worker[w].entry) \in Nat
         /\ InTry(w) \/ At(w, "createAttempt") \/ At(w, "markRunning") =>
              worker[w].num \in Attempts
         /\ worker[w].rid # 0 => worker[w].rid \in Attempts
BY EntryIdFacts, ConstantsAssumption
   DEF TypeOK, Run, RunInv, Busy, At, JobOf, Attempts, ConstantsAssumption, InTry

(* A run that throws leaves its worker and its entry well formed. *)
LEMMA RethrowType ==
  ASSUME TypeOK, NEW w \in Workers, RunInv(w), Busy(w), Rethrow(w)
  PROVE  worker' \in [Workers -> Run] /\ entry' \in [EntryIds -> Entry]
<1>1. worker' \in [Workers -> Run]
  BY StepType, IdleType DEF Rethrow
<1>2. entry' \in [EntryIds -> Entry]
  BY RunTypes, QueueType DEF Rethrow, TypeOK
<1> QED BY <1>1, <1>2

(* Entering the catch block keeps the locals well formed. *)
LEMMA CaughtType ==
  ASSUME TypeOK, NEW w \in Workers, NEW kind \in ErrorKinds, Caught(w, kind)
  PROVE  worker' \in [Workers -> Run]
<1>1. worker[w] \in Run /\ 0 \in 0 .. MaxAttempts
  BY ConstantsAssumption DEF TypeOK, ConstantsAssumption
<1>2. [worker[w] EXCEPT !.pc = "failAttempt", !.kind = kind, !.rid = 0,
                        !.outcome = "NONE"] \in Run
  BY <1>1 DEF Run, WorkerPC
<1> QED BY <1>2, StepType DEF Caught

(* Leaving the job row for the draft keeps the locals well formed. *)
LEMMA SettledType ==
  ASSUME TypeOK, NEW w \in Workers, Settled(w)
  PROVE  worker' \in [Workers -> Run]
<1>1. [IdleWorker EXCEPT !.pc = "readJobs", !.entry = worker[w].entry] \in Run
  BY IdleType DEF TypeOK, Run, WorkerPC
<1> QED BY <1>1, StepType DEF Settled

(* Every step of processPublishJob preserves the type invariant. *)
LEMMA WorkerType ==
  ASSUME TypeOK, NEW w \in Workers, RunInv(w), WorkerStep(w)
  PROVE  TypeOK'
<1>1. ASSUME NEW e \in EntryIds, SkipFinalized(w, e) PROVE TypeOK'
  BY <1>1, QueueType DEF TypeOK, SkipFinalized
<1>2. ASSUME NEW e \in EntryIds, Fetch(w, e) PROVE TypeOK'
  <2>1. /\ job[e.job].attemptCount + 1 \in 0 .. MaxAttempts
        /\ ResumedId(job[e.job]) \in 0 .. MaxAttempts
    BY <1>2, EntryIdFacts, ConstantsAssumption
       DEF Fetch, TypeOK, JobRow, ResumedId, ConstantsAssumption
  <2>2. [IdleWorker EXCEPT !.pc = "markRunning", !.entry = e,
                           !.num = job[e.job].attemptCount + 1,
                           !.rid = ResumedId(job[e.job])] \in Run
    BY <2>1, IdleType DEF Run, WorkerPC
  <2>3. worker' \in [Workers -> Run]
    BY <1>2, <2>2, StepType DEF Fetch
  <2>4. entry' \in [EntryIds -> Entry]
    BY <1>2, QueueType DEF Fetch, TypeOK
  <2> QED BY <1>2, <2>3, <2>4 DEF TypeOK, Fetch
<1>3. CASE MarkRunning(w)
  <2>1. Busy(w) /\ At(w, "markRunning")
    BY <1>3 DEF MarkRunning, At, Busy
  <2>2. [job[JobOf(w)] EXCEPT !.status = "RUNNING",
                              !.attemptCount = worker[w].num] \in JobRow
    BY <2>1, RunTypes DEF JobRow, Run, PublishJobStatus
  <2>3. job' \in [Jobs -> JobRow]
    BY <1>3, <2>1, <2>2, RunTypes, StoreJobType DEF MarkRunning
  <2>4. [worker[w] EXCEPT !.pc = "createAttempt"] \in Run
    BY RunTypes DEF Run, WorkerPC
  <2>5. worker' \in [Workers -> Run]
    BY <1>3, <2>4, StepType DEF MarkRunning
  <2> QED BY <1>3, <2>3, <2>5 DEF TypeOK, MarkRunning
<1>4. CASE CreateAttempt(w)
  <2>1. Busy(w) /\ At(w, "createAttempt")
    BY <1>4 DEF CreateAttempt, At, Busy
  <2>4. [worker[w] EXCEPT !.pc = "submit"] \in Run
    BY RunTypes DEF Run, WorkerPC
  <2>5. worker' \in [Workers -> Run]
    BY <1>4, <2>4, StepType DEF CreateAttempt
  <2>6. attempt' \in [Jobs -> [Attempts -> PublishJobStatus \cup {"NONE"}]]
    BY <1>4, <2>1, RunTypes DEF CreateAttempt, TypeOK, PublishJobStatus
  <2> QED BY <1>4, <2>5, <2>6 DEF TypeOK, CreateAttempt
<1>5. CASE DuplicateAttempt(w)
  BY <1>5, RethrowType DEF TypeOK, DuplicateAttempt, At, Busy
<1>6. ASSUME NEW k \in ErrorKinds, Refuse(w, k) PROVE TypeOK'
  BY <1>6, CaughtType DEF TypeOK, Refuse
<1>7. CASE ResumePoll(w)
  <2>1. [worker[w] EXCEPT !.pc = "poll"] \in Run
    BY RunTypes DEF Run, WorkerPC
  <2> QED BY <1>7, <2>1, StepType DEF TypeOK, ResumePoll
<1>8. ASSUME NEW a \in PublishJobStatus, Submit(w, a) PROVE TypeOK'
  <2>1. Busy(w) /\ InTry(w)
    BY <1>8 DEF Submit, AcceptPost, At, Busy, InTry
  <2>2. [worker[w] EXCEPT !.rid = worker[w].num, !.outcome = a,
           !.pc = IF a = "SUCCEEDED" THEN "saveAttempt" ELSE "poll"] \in Run
    BY RunTypes DEF Run, WorkerPC
  <2>3. worker' \in [Workers -> Run]
    BY <1>8, <2>2, StepType DEF Submit
  <2>4. post' \in [Jobs -> [Attempts -> Accepted \cup {"none"}]]
    BY <1>8, <2>1, RunTypes DEF Submit, AcceptPost, TypeOK, PostOf, Accepted
  <2> QED BY <1>8, <2>3, <2>4 DEF TypeOK, Submit
<1>9. CASE Poll(w)
  <2> DEFINE answer == PollAnswer(Platform[JobOf(w)], post[JobOf(w)][worker[w].rid])
  <2>1. Busy(w) /\ worker[w].rid # 0
    BY <1>9 DEF Poll, At, Busy, RunInv
  <2>2. post[JobOf(w)][worker[w].rid] \in Accepted
    BY <2>1 DEF RunInv, Busy
  <2>3. answer \in PublishJobStatus
    BY <2>2 DEF PollAnswer, Accepted, PublishJobStatus
  <2> HIDE DEF answer
  <2>4. [worker[w] EXCEPT !.outcome = answer,
           !.pc = IF answer = "WAITING_REMOTE" THEN "requeue" ELSE "saveAttempt"] \in Run
    BY <2>3, RunTypes DEF Run, WorkerPC
  <2>5. worker' \in [Workers -> Run]
    BY <1>9, <2>4, StepType DEF Poll, answer
  <2> QED BY <1>9, <2>5 DEF TypeOK, Poll
<1>10. CASE Requeue(w)
  <2>1. [worker[w] EXCEPT !.pc = "saveAttempt"] \in Run
    BY RunTypes DEF Run, WorkerPC
  <2>2. worker' \in [Workers -> Run]
    BY <1>10, <2>1, StepType DEF Requeue
  <2>3. JobOf(w) \in Jobs
    BY <1>10, RunTypes DEF Requeue, At, Busy
  <2>4. entry' \in [EntryIds -> Entry]
    BY <1>10, <2>3, QueueType, EntryIdFacts, 1 \in Nat DEF Requeue, TypeOK
  <2> QED BY <1>10, <2>2, <2>4 DEF TypeOK, Requeue
<1>11. CASE SaveAttempt(w)
  <2>1. Busy(w) /\ InTry(w) /\ worker[w].outcome \in PublishJobStatus
    BY <1>11 DEF SaveAttempt, At, Busy, InTry, RunInv, PublishJobStatus
  <2>2. attempt' \in [Jobs -> [Attempts -> PublishJobStatus \cup {"NONE"}]]
    BY <1>11, <2>1, RunTypes DEF SaveAttempt, TypeOK
  <2>3. [worker[w] EXCEPT !.pc = "saveJob"] \in Run
    BY RunTypes DEF Run, WorkerPC
  <2>4. worker' \in [Workers -> Run]
    BY <1>11, <2>3, StepType DEF SaveAttempt
  <2> QED BY <1>11, <2>2, <2>4 DEF TypeOK, SaveAttempt
<1>12. CASE SaveJob(w)
  <2>1. Busy(w) /\ worker[w].outcome \in PublishJobStatus
    BY <1>12 DEF SaveJob, At, Busy, RunInv, PublishJobStatus
  <2>2. [job[JobOf(w)] EXCEPT
           !.status = worker[w].outcome, !.remoteId = worker[w].rid] \in JobRow
    BY <2>1, RunTypes DEF JobRow, Run
  <2>3. job' \in [Jobs -> JobRow]
    BY <1>12, <2>1, <2>2, RunTypes, StoreJobType DEF SaveJob
  <2> QED BY <1>12, <2>3, SettledType DEF TypeOK, SaveJob
<1>13. CASE FailAttempt(w)
  <2>1. Busy(w) /\ InTry(w)
    BY <1>13 DEF FailAttempt, At, Busy, InTry
  <2>2. attempt' \in [Jobs -> [Attempts -> PublishJobStatus \cup {"NONE"}]]
    BY <1>13, <2>1, RunTypes, FailedStatusType DEF FailAttempt, TypeOK
  <2>3. [worker[w] EXCEPT !.pc = "failJob"] \in Run
    BY RunTypes DEF Run, WorkerPC
  <2>4. worker' \in [Workers -> Run]
    BY <1>13, <2>3, StepType DEF FailAttempt
  <2> QED BY <1>13, <2>2, <2>4 DEF TypeOK, FailAttempt
<1>14. CASE FailJob(w)
  <2>1. Busy(w)
    BY <1>14 DEF FailJob, At, Busy
  <2>2. [job[JobOf(w)] EXCEPT !.status = FailedStatus(worker[w].kind)] \in JobRow
    BY <2>1, RunTypes, FailedStatusType DEF JobRow
  <2>3. job' \in [Jobs -> JobRow]
    BY <1>14, <2>1, <2>2, RunTypes, StoreJobType DEF FailJob
  <2>4. worker' \in [Workers -> Run] /\ entry' \in [EntryIds -> Entry]
    BY <1>14, <2>1, SettledType, RethrowType DEF FailJob, TypeOK
  <2> QED BY <1>14, <2>3, <2>4 DEF TypeOK, FailJob
<1>15. CASE ReadJobs(w)
  <2>1. [worker[w] EXCEPT !.pc = "saveDraft", !.next = DerivedStatus] \in Run
    BY RunTypes, DerivedStatusType DEF Run, WorkerPC
  <2> QED BY <1>15, <2>1, StepType DEF TypeOK, ReadJobs
<1>16. CASE SaveDraft(w)
  <2>1. worker[w].next \in DraftStatus /\ worker[w].entry \in EntryIds
    BY <1>16, RunTypes DEF SaveDraft, At, Busy, Run
  <2>2. entry' \in [EntryIds -> Entry]
    BY <1>16, <2>1, QueueType, 1 \in Nat DEF SaveDraft, TypeOK
  <2> QED BY <1>16, <2>1, <2>2, StepType, IdleType DEF TypeOK, SaveDraft
<1> QED BY <1>1, <1>2, <1>3, <1>4, <1>5, <1>6, <1>7, <1>8, <1>9, <1>10, <1>11, <1>12,
           <1>13, <1>14, <1>15, <1>16 DEF WorkerStep

(* So does every failure inside processPublishJob. *)
LEMMA FaultType ==
  ASSUME TypeOK, NEW w \in Workers, RunInv(w), WorkerFault(w)
  PROVE  TypeOK'
<1>1. ASSUME NEW kind \in ErrorKinds, PollFails(w, kind) PROVE TypeOK'
  BY <1>1, CaughtType DEF TypeOK, PollFails
<1>2. ASSUME NEW a \in PublishJobStatus, NEW kind \in ErrorKinds,
             SubmitUnanswered(w, a, kind)
      PROVE  TypeOK'
  <2>1. Busy(w) /\ InTry(w)
    BY <1>2 DEF SubmitUnanswered, AcceptPost, At, Busy, InTry
  <2>2. post' \in [Jobs -> [Attempts -> Accepted \cup {"none"}]]
    BY <1>2, <2>1, RunTypes DEF SubmitUnanswered, AcceptPost, TypeOK, PostOf, Accepted
  <2> QED BY <1>2, <2>2, CaughtType DEF TypeOK, SubmitUnanswered
<1>3. CASE StoreErrorInTry(w)
  <2>1. "transient" \in ErrorKinds
    BY DEF ErrorKinds
  <2> QED BY <1>3, <2>1, CaughtType DEF TypeOK, StoreErrorInTry
<1>4. CASE StoreErrorOutsideTry(w)
  BY <1>4, RethrowType DEF TypeOK, StoreErrorOutsideTry, Busy
<1>5. CASE EventWriteFails(w)
  <2>1. CASE At(w, "createAttempt")
    <3>1. Busy(w) /\ JobOf(w) \in Jobs /\ worker[w].num \in Attempts
      BY <2>1, RunTypes DEF At, Busy
    <3>2. attempt' \in [Jobs -> [Attempts -> PublishJobStatus \cup {"NONE"}]]
      <4>1. attempt' = [attempt EXCEPT ![JobOf(w)][worker[w].num] = "RUNNING"]
        BY <1>5, <2>1 DEF EventWriteFails, At
      <4> QED BY <3>1, <4>1 DEF TypeOK, PublishJobStatus
    <3> QED BY <1>5, <2>1, <3>1, <3>2, RethrowType DEF EventWriteFails, At, TypeOK
  <2>2. CASE At(w, "saveJob")
    <3>1. Busy(w) /\ worker[w].outcome \in PublishJobStatus /\ "transient" \in ErrorKinds
      BY <2>2 DEF At, Busy, RunInv, PublishJobStatus, ErrorKinds
    <3>2. [job[JobOf(w)] EXCEPT
             !.status = worker[w].outcome, !.remoteId = worker[w].rid] \in JobRow
      BY <3>1, RunTypes DEF JobRow, Run
    <3>3. job' \in [Jobs -> JobRow]
      BY <1>5, <2>2, <3>1, <3>2, RunTypes, StoreJobType DEF EventWriteFails, At
    <3> QED BY <1>5, <2>2, <3>1, <3>3, CaughtType DEF EventWriteFails, At, TypeOK
  <2>3. CASE At(w, "failJob")
    <3>1. Busy(w)
      BY <2>3 DEF At, Busy
    <3>2. [job[JobOf(w)] EXCEPT !.status = FailedStatus(worker[w].kind)] \in JobRow
      BY <3>1, RunTypes, FailedStatusType DEF JobRow
    <3>3. job' \in [Jobs -> JobRow]
      BY <1>5, <2>3, <3>1, <3>2, RunTypes, StoreJobType DEF EventWriteFails, At
    <3> QED BY <1>5, <2>3, <3>1, <3>3, RethrowType DEF EventWriteFails, At, TypeOK
  <2> QED BY <1>5, <2>1, <2>2, <2>3 DEF EventWriteFails
<1> QED BY <1>1, <1>2, <1>3, <1>4, <1>5 DEF WorkerFault

(* recoverPublishJobs preserves the type invariant. *)
LEMMA SweepType ==
  ASSUME TypeOK, NEW p \in Processes, SweepStep(p)
  PROVE  TypeOK'
<1>1. CASE SweepQueued(p)
  BY <1>1 DEF TypeOK, SweepQueued, Sweep
<1>2. CASE SweepWaiting(p)
  BY <1>2 DEF TypeOK, SweepWaiting, Sweep
<1>3. ASSUME NEW j \in Jobs, NEW e \in EntryIds, entry' = Add(entry, e),
             sweep' = [sweep EXCEPT ![p].todo = @ \ {j}],
             UNCHANGED <<job, attempt, draft, post, worker, client, crashes>>
      PROVE  TypeOK'
  <2>1. entry' \in [EntryIds -> Entry]
    BY <1>3, QueueType, 1 \in Nat DEF TypeOK
  <2> QED BY <1>3, <2>1 DEF TypeOK, Sweep
<1> QED BY <1>1, <1>2, <1>3, EntryIdFacts DEF SweepStep, AddDispatch, AddRemote

(* cancelJob and retryJob preserve the type invariant. *)
LEMMA ClientType ==
  ASSUME TypeOK, NEW c \in Clients, ClientInv(c), ClientStep(c)
  PROVE  TypeOK'
<1>1. client[c] \in ApiRequest
  BY DEF TypeOK
<1>2. ASSUME NEW j \in Jobs, CancelCheck(c, j) \/ RetryCheck(c, j) PROVE TypeOK'
  <2>1. /\ [IdleClient EXCEPT !.pc = "cancel", !.job = j] \in ApiRequest
        /\ [IdleClient EXCEPT !.pc = "retry", !.job = j] \in ApiRequest
    BY IdleType DEF ApiRequest, ClientPC
  <2> QED BY <1>2, <2>1, RequestType DEF TypeOK, CancelCheck, RetryCheck
<1>3. CASE CancelWrite(c)
  <2>1. client[c].job \in Jobs /\ job[client[c].job] \in JobRow
    BY <1>3 DEF CancelWrite, ClientInv, TypeOK
  <2>2. [job[client[c].job] EXCEPT !.status = "CANCELLED"] \in JobRow
    BY <2>1 DEF JobRow, PublishJobStatus
  <2>3. job' \in [Jobs -> JobRow]
    BY <1>3, <2>1, <2>2, StoreJobType DEF CancelWrite
  <2>4. [client[c] EXCEPT !.pc = "readJobs"] \in ApiRequest
    BY <1>1 DEF ApiRequest, ClientPC
  <2> QED BY <1>3, <2>3, <2>4, RequestType DEF TypeOK, CancelWrite
<1>4. CASE CancelReadJobs(c)
  <2>1. [client[c] EXCEPT !.pc = "saveDraft", !.next = DerivedStatus] \in ApiRequest
    BY <1>1, DerivedStatusType DEF ApiRequest, ClientPC
  <2> QED BY <1>4, <2>1, RequestType DEF TypeOK, CancelReadJobs
<1>5. CASE CancelSaveDraft(c)
  BY <1>1, <1>5, IdleType, RequestType DEF TypeOK, CancelSaveDraft, ApiRequest
<1>6. CASE RetryWrite(c)
  <2>1. client[c].job \in Jobs /\ job[client[c].job] \in JobRow
    BY <1>6 DEF RetryWrite, ClientInv, TypeOK
  <2>2. [job[client[c].job] EXCEPT !.status = "QUEUED"] \in JobRow
    BY <2>1 DEF JobRow, PublishJobStatus
  <2>3. job' \in [Jobs -> JobRow]
    BY <1>6, <2>1, <2>2, StoreJobType DEF RetryWrite
  <2>4. [client[c] EXCEPT !.pc = "enqueue"] \in ApiRequest
    BY <1>1 DEF ApiRequest, ClientPC
  <2> QED BY <1>6, <2>3, <2>4, RequestType DEF TypeOK, RetryWrite
<1>7. CASE RetryEnqueue(c)
  <2>1. PICK k \in FreeRetries(client[c].job) :
          entry' = Add(entry, RetryEntry(client[c].job, k))
    BY <1>7 DEF RetryEnqueue
  <2>2. RetryEntry(client[c].job, k) \in EntryIds
    BY <1>7, EntryIdFacts DEF RetryEnqueue, ClientInv, FreeRetries
  <2>3. entry' \in [EntryIds -> Entry]
    BY <2>1, <2>2, QueueType, 1 \in Nat DEF TypeOK
  <2> QED BY <1>7, <2>3, IdleType, RequestType DEF TypeOK, RetryEnqueue
<1>8. CASE RetryEnqueueSkipped(c)
  BY <1>8, IdleType, RequestType DEF TypeOK, RetryEnqueueSkipped
<1> QED BY <1>2, <1>3, <1>4, <1>5, <1>6, <1>7, <1>8 DEF ClientStep

(* The platform, BullMQ and crashes preserve the type invariant. *)
LEMMA EnvironmentType ==
  ASSUME TypeOK, Environment
  PROVE  TypeOK'
<1>1. ASSUME NEW j \in Jobs, NEW n \in Attempts, FinishProcessing(j, n) \/ Settle(j, n)
      PROVE  TypeOK'
  <2>1. PICK s \in Accepted : post' = [post EXCEPT ![j][n] = s]
    <3>1. CASE FinishProcessing(j, n)
      BY <3>1 DEF FinishProcessing, Accepted
    <3>2. CASE Settle(j, n)
      <4>1. Outcomes(post[j][n]) \subseteq Accepted
        BY DEF Outcomes, Accepted
      <4> QED BY <3>2, <4>1 DEF Settle
    <3> QED BY <1>1, <3>1, <3>2
  <2> QED BY <1>1, <2>1 DEF TypeOK, FinishProcessing, Settle
<1>2. ASSUME NEW p \in Processes, Crash(p) PROVE TypeOK'
  BY <1>2, IdleType, ConstantsAssumption DEF TypeOK, Crash, ConstantsAssumption
<1>3. ASSUME NEW c \in Clients, ClientDies(c) PROVE TypeOK'
  BY <1>3, IdleType, RequestType DEF TypeOK, ClientDies
<1>4. ASSUME NEW e \in EntryIds, StallEntry(e) \/ EvictEntry(e) PROVE TypeOK'
  BY <1>4, QueueType, 1 \in Nat DEF TypeOK, StallEntry, EvictEntry
<1> QED BY <1>1, <1>2, <1>3, <1>4 DEF Environment

-----------------------------------------------------------------------------
(* What no step takes back: an attempt row, the platform's acceptance of a  *)
(* post, and its confirmation.                                              *)
Grows ==
  \A j \in Jobs, n \in Attempts :
    /\ attempt[j][n] # "NONE" => attempt'[j][n] # "NONE"
    /\ post[j][n] \in Accepted => post'[j][n] \in Accepted
    /\ post[j][n] \in Confirmed(Platform[j]) => post'[j][n] \in Confirmed(Platform[j])

(* Writing a status to an attempt row takes nothing back. *)
LEMMA AttemptGrows ==
  ASSUME TypeOK, NEW j \in Jobs, NEW n \in Attempts, NEW s, s # "NONE",
         attempt' = [attempt EXCEPT ![j][n] = s], UNCHANGED post
  PROVE  Grows
BY DEF TypeOK, Grows

(* A post that is taken on, and stays confirmed if it was, takes nothing back. *)
LEMMA PostGrows ==
  ASSUME TypeOK, NEW j \in Jobs, NEW n \in Attempts, NEW s \in Accepted,
         post' = [post EXCEPT ![j][n] = s], UNCHANGED attempt,
         post[j][n] \in Confirmed(Platform[j]) => s \in Confirmed(Platform[j])
  PROVE  Grows
BY DEF TypeOK, Grows

(* A step that touches neither attempts nor posts takes nothing back. *)
LEMMA SameGrows ==
  ASSUME UNCHANGED <<attempt, post>>
  PROVE  Grows
BY DEF Grows

(* A submission that was not made is neither accepted nor confirmed. *)
LEMMA NoneUnconfirmed == \A p : "none" \notin Confirmed(p) /\ "none" \notin Accepted
BY DEF Confirmed, Accepted

(* A failed attempt still has its row. *)
LEMMA FailedStatusNone == \A k : FailedStatus(k) # "NONE"
BY DEF FailedStatus

(* A submission uses an attempt number nothing was submitted under. *)
LEMMA AcceptGrows ==
  ASSUME IInv, NEW w \in Workers, NEW a, AcceptPost(w, a), UNCHANGED attempt
  PROVE  Grows
<1>1. InTry(w) /\ Busy(w) /\ post[JobOf(w)][worker[w].num] = "none"
  BY DEF IInv, RunInv, AcceptPost, At, InTry, Busy
<1>2. JobOf(w) \in Jobs /\ worker[w].num \in Attempts
  BY <1>1, RunTypes DEF IInv
<1>3. PostOf(a) \in Accepted
  BY DEF PostOf, Accepted
<1>4. post' = [post EXCEPT ![JobOf(w)][worker[w].num] = PostOf(a)]
  BY DEF AcceptPost
<1>5. post[JobOf(w)][worker[w].num] \notin Confirmed(Platform[JobOf(w)])
  BY <1>1, NoneUnconfirmed
<1>6. TypeOK
  BY DEF IInv
<1> QED BY <1>2, <1>3, <1>4, <1>5, <1>6, PostGrows

(* No step of a worker takes anything back. *)
LEMMA WorkerGrows ==
  ASSUME IInv, NEW w \in Workers, WorkerStep(w) \/ WorkerFault(w)
  PROVE  Grows
<1>1. CASE UNCHANGED <<attempt, post>>
  BY <1>1, SameGrows
<1>2. ASSUME NEW s, s # "NONE", Busy(w), InTry(w) \/ At(w, "createAttempt"),
             attempt' = [attempt EXCEPT ![JobOf(w)][worker[w].num] = s], UNCHANGED post
      PROVE  Grows
  BY <1>2, RunTypes, AttemptGrows DEF IInv
<1>3. CASE CreateAttempt(w)
  BY <1>2, <1>3 DEF CreateAttempt, At, Busy
<1>4. CASE SaveAttempt(w)
  <2>1. worker[w].outcome # "NONE"
    BY <1>4 DEF IInv, RunInv, SaveAttempt, At
  <2>2. Busy(w) /\ InTry(w)
    BY <1>4 DEF SaveAttempt, At, Busy, InTry
  <2> QED BY <1>2, <1>4, <2>1, <2>2 DEF SaveAttempt
<1>5. CASE FailAttempt(w)
  BY <1>2, <1>5, FailedStatusNone DEF FailAttempt, At, Busy, InTry
<1>6. CASE EventWriteFails(w)
  BY <1>1, <1>2, <1>6 DEF EventWriteFails, At, Busy
<1>7. ASSUME NEW a \in PublishJobStatus, Submit(w, a) PROVE Grows
  BY <1>7, AcceptGrows DEF Submit
<1>8. ASSUME NEW a \in PublishJobStatus, NEW k \in ErrorKinds, SubmitUnanswered(w, a, k)
      PROVE  Grows
  BY <1>8, AcceptGrows DEF SubmitUnanswered
<1> QED
  BY <1>1, <1>3, <1>4, <1>5, <1>6, <1>7, <1>8
     DEF WorkerStep, WorkerFault, SkipFinalized, Fetch, MarkRunning, DuplicateAttempt,
         Refuse, ResumePoll, Poll, Requeue, SaveJob, FailJob, ReadJobs, SaveDraft,
         PollFails, StoreErrorInTry, StoreErrorOutsideTry

(* Neither the platform nor a crash takes anything back. *)
LEMMA EnvironmentGrows ==
  ASSUME IInv, Environment
  PROVE  Grows
<1>1. ASSUME NEW j \in Jobs, NEW n \in Attempts, FinishProcessing(j, n) PROVE Grows
  BY <1>1, PostGrows DEF IInv, FinishProcessing, Accepted, Confirmed
<1>2. ASSUME NEW j \in Jobs, NEW n \in Attempts, Settle(j, n) PROVE Grows
  <2>1. PICK s \in Outcomes(post[j][n]) : post' = [post EXCEPT ![j][n] = s]
    BY <1>2 DEF Settle
  <2>2. s \in Accepted /\ (post[j][n] \in Confirmed(Platform[j]) => s \in Confirmed(Platform[j]))
    BY <2>1 DEF Outcomes, Accepted, Confirmed
  <2> QED BY <1>2, <2>1, <2>2, PostGrows DEF IInv, Settle
<1>3. CASE UNCHANGED <<attempt, post>>
  BY <1>3, SameGrows
<1> QED BY <1>1, <1>2, <1>3 DEF Environment, Crash, ClientDies, StallEntry, EvictEntry

(* No step takes anything back. *)
LEMMA NextGrows ==
  ASSUME IInv, [Next]_vars
  PROVE  Grows
<1>1. ASSUME NEW c \in Clients, ClientStep(c) PROVE UNCHANGED <<attempt, post>>
  BY <1>1 DEF ClientStep, CancelCheck, CancelWrite, CancelReadJobs, CancelSaveDraft,
              RetryCheck, RetryWrite, RetryEnqueue, RetryEnqueueSkipped
<1>2. ASSUME NEW p \in Processes, SweepStep(p) PROVE UNCHANGED <<attempt, post>>
  BY <1>2 DEF SweepStep, SweepQueued, SweepWaiting, AddDispatch, AddRemote
<1> QED BY <1>1, <1>2, SameGrows, WorkerGrows, EnvironmentGrows DEF Next, vars

-----------------------------------------------------------------------------
(* The effect of a step of w on the locals of the workers. *)

(* A step of w replaces the locals of w and of nobody else. *)
LEMMA StepFrame ==
  ASSUME TypeOK, NEW w \in Workers, NEW new, Step(w, new)
  PROVE  /\ worker'[w] = new
         /\ \A v \in Workers \ {w} : worker'[v] = worker[v]
BY DEF TypeOK, Step

(* A step of w leaves the locals of the other workers alone. *)
LEMMA OthersStay ==
  ASSUME TypeOK, NEW w \in Workers, WorkerStep(w) \/ WorkerFault(w)
  PROVE  \A v \in Workers \ {w} : worker'[v] = worker[v]
BY StepFrame
   DEF WorkerStep, WorkerFault, SkipFinalized, Fetch, MarkRunning, CreateAttempt,
       DuplicateAttempt, Refuse, ResumePoll, Submit, Poll, Requeue, SaveAttempt, SaveJob,
       FailAttempt, FailJob, ReadJobs, SaveDraft, PollFails, SubmitUnanswered,
       StoreErrorInTry, StoreErrorOutsideTry, EventWriteFails, Rethrow, Caught, Settled

(* A run that submits nothing new leaves every untouched attempt untouched. *)
LEMMA NoneStays ==
  ASSUME TypeOK, NEW w \in Workers, NEW a, AcceptPost(w, a),
         NEW j \in Jobs, NEW n \in Attempts, <<j, n>> # <<JobOf(w), worker[w].num>>
  PROVE  post'[j][n] = post[j][n]
BY DEF TypeOK, AcceptPost

(* A run that does not move keeps what it knows, as nothing is taken back. *)
LEMMA RunFrame ==
  ASSUME IInv, Grows, NEW v \in Workers, worker'[v] = worker[v],
         At(v, "submit") /\ worker[v].rid = 0 => post'[JobOf(v)][worker[v].num] = "none"
  PROVE  RunInv(v)'
<1>1. RunInv(v) /\ TypeOK
  BY DEF IInv
<1>2. CASE ~Busy(v)
  BY <1>2 DEF RunInv, InTry, Busy
<1>3. CASE Busy(v)
  <2>1. JobOf(v) \in Jobs
    BY <1>1, <1>3, RunTypes
  <2>2. InTry(v) => worker[v].num \in Attempts
    BY <1>1, RunTypes
  <2>3. worker[v].rid # 0 => worker[v].rid \in Attempts
    BY <1>1, RunTypes
  <2> QED BY <1>1, <1>3, <2>1, <2>2, <2>3 DEF RunInv, InTry, JobOf, Grows, At, Busy
<1> QED BY <1>2, <1>3

(* An idle worker knows nothing. *)
LEMMA IdleRun ==
  ASSUME NEW w \in Workers, worker'[w] = IdleWorker
  PROVE  RunInv(w)'
BY DEF IdleWorker, RunInv, InTry

(* A run that throws is over. *)
LEMMA RethrowRun ==
  ASSUME TypeOK, NEW w \in Workers, Rethrow(w)
  PROVE  RunInv(w)'
BY StepFrame, IdleRun DEF Rethrow

(* A run that has stored its outcome needs only its entry. *)
LEMMA SettledRun ==
  ASSUME TypeOK, NEW w \in Workers, RunInv(w), Busy(w), Settled(w)
  PROVE  RunInv(w)'
<1>1. worker'[w] = [IdleWorker EXCEPT !.pc = "readJobs", !.entry = worker[w].entry]
  BY StepFrame DEF Settled
<1> QED BY <1>1 DEF IdleWorker, RunInv, InTry, Busy

(* A run that enters the catch block keeps its attempt row. *)
LEMMA CaughtRun ==
  ASSUME TypeOK, NEW w \in Workers, RunInv(w), Grows, InTry(w), NEW k, Caught(w, k)
  PROVE  RunInv(w)'
<1>1. worker'[w] = [worker[w] EXCEPT !.pc = "failAttempt", !.kind = k, !.rid = 0,
                                     !.outcome = "NONE"]
  BY StepFrame DEF Caught
<1>2. Busy(w)
  BY DEF InTry, Busy
<1>3. worker[w] \in Run /\ JobOf(w) \in Jobs /\ worker[w].num \in Attempts
  BY <1>2, RunTypes
<1>4. /\ worker'[w].pc = "failAttempt" /\ worker'[w].rid = 0
      /\ worker'[w].entry = worker[w].entry /\ worker'[w].num = worker[w].num
  BY <1>1, <1>3 DEF Run
<1>5. attempt'[JobOf(w)][worker[w].num] # "NONE" /\ worker[w].num # 0
  BY <1>3 DEF RunInv, Grows
<1> QED BY <1>2, <1>4, <1>5 DEF RunInv, InTry, JobOf, Busy

(* Each step of processPublishJob establishes what its next step relies on. *)
LEMMA WorkerRun ==
  ASSUME IInv, Grows, NEW w \in Workers, WorkerStep(w)
  PROVE  RunInv(w)'
<1>0. TypeOK /\ RunInv(w)
  BY DEF IInv
<1>1. ASSUME NEW e \in EntryIds, SkipFinalized(w, e) PROVE RunInv(w)'
  BY <1>0, <1>1, RunFrame DEF SkipFinalized, CanTake, Busy, At
<1>2. ASSUME NEW e \in EntryIds, Fetch(w, e) PROVE RunInv(w)'
  <2>1. worker'[w] = [IdleWorker EXCEPT !.pc = "markRunning", !.entry = e,
                                        !.num = job[e.job].attemptCount + 1,
                                        !.rid = ResumedId(job[e.job])]
    BY <1>0, <1>2, StepFrame DEF Fetch
  <2>2. e.job \in Jobs /\ job[e.job].attemptCount \in Nat
    BY <1>0, EntryIdFacts, ConstantsAssumption DEF TypeOK, JobRow, ConstantsAssumption
  <2>3. ResumedId(job[e.job]) # 0 => post'[e.job][ResumedId(job[e.job])] \in Accepted
    BY <1>2, <2>2 DEF IInv, WaitingIsPollable, ResumedId, Fetch
  <2> QED BY <2>1, <2>2, <2>3 DEF RunInv, IdleWorker, InTry, JobOf
<1>3. CASE MarkRunning(w)
  <2>1. worker'[w] = [worker[w] EXCEPT !.pc = "createAttempt"]
    BY <1>0, <1>3, StepFrame DEF MarkRunning
  <2>2. worker[w] \in Run
    BY <1>0, RunTypes
  <2> QED BY <1>0, <1>3, <2>1, <2>2 DEF MarkRunning, RunInv, InTry, JobOf, Run, At
<1>4. CASE CreateAttempt(w)
  <2>1. worker'[w] = [worker[w] EXCEPT !.pc = "submit"]
    BY <1>0, <1>4, StepFrame DEF CreateAttempt
  <2>2. worker[w] \in Run /\ JobOf(w) \in Jobs /\ worker[w].num \in Attempts
    BY <1>0, <1>4, RunTypes DEF CreateAttempt, At, Busy
  <2>3. post[JobOf(w)][worker[w].num] = "none"
    BY <1>4, <2>2 DEF CreateAttempt, IInv, PostsAreLogged
  <2>4. attempt'[JobOf(w)][worker[w].num] = "RUNNING"
    BY <1>0, <1>4, <2>2 DEF CreateAttempt, TypeOK
  <2> QED BY <1>0, <1>4, <2>1, <2>2, <2>3, <2>4
          DEF CreateAttempt, RunInv, InTry, JobOf, Run, At
<1>5. CASE DuplicateAttempt(w)
  BY <1>0, <1>5, RethrowRun DEF DuplicateAttempt
<1>6. ASSUME NEW k \in ErrorKinds, Refuse(w, k) PROVE RunInv(w)'
  BY <1>0, <1>6, CaughtRun DEF Refuse, At, InTry
<1>7. CASE ResumePoll(w)
  <2>1. worker'[w] = [worker[w] EXCEPT !.pc = "poll"]
    BY <1>0, <1>7, StepFrame DEF ResumePoll
  <2>2. worker[w] \in Run
    BY <1>0, RunTypes
  <2> QED BY <1>0, <1>7, <2>1, <2>2 DEF ResumePoll, RunInv, InTry, JobOf, Run, At
<1>8. ASSUME NEW a \in PublishJobStatus, Submit(w, a) PROVE RunInv(w)'
  <2>1. worker'[w] = [worker[w] EXCEPT !.rid = worker[w].num, !.outcome = a,
                        !.pc = IF a = "SUCCEEDED" THEN "saveAttempt" ELSE "poll"]
    BY <1>0, <1>8, StepFrame DEF Submit
  <2>2. Busy(w) /\ InTry(w)
    BY <1>8 DEF Submit, AcceptPost, At, Busy, InTry
  <2>3. worker[w] \in Run /\ JobOf(w) \in Jobs /\ worker[w].num \in Attempts
    BY <1>0, <2>2, RunTypes
  <2>4. post'[JobOf(w)][worker[w].num] = PostOf(a)
    BY <1>0, <1>8, <2>3 DEF Submit, AcceptPost, TypeOK
  <2>5. PostOf(a) \in Accepted /\ (a = "SUCCEEDED" => PostOf(a) \in Confirmed(Platform[JobOf(w)]))
    BY DEF PostOf, Accepted, Confirmed
  <2>6. /\ worker'[w].entry = worker[w].entry /\ worker'[w].num = worker[w].num
        /\ worker'[w].rid = worker[w].num /\ worker'[w].outcome = a
        /\ worker'[w].pc = IF a = "SUCCEEDED" THEN "saveAttempt" ELSE "poll"
    BY <2>1, <2>3 DEF Run
  <2>7. attempt'[JobOf(w)][worker[w].num] # "NONE" /\ worker[w].num # 0
    BY <1>0, <2>2, <2>3 DEF RunInv, Grows
  <2> QED BY <1>0, <2>2, <2>4, <2>5, <2>6, <2>7 DEF RunInv, InTry, JobOf, Busy
<1>9. CASE Poll(w)
  <2> DEFINE answer == PollAnswer(Platform[JobOf(w)], post[JobOf(w)][worker[w].rid])
  <2>1. worker'[w] = [worker[w] EXCEPT !.outcome = answer,
                        !.pc = IF answer = "WAITING_REMOTE" THEN "requeue" ELSE "saveAttempt"]
    BY <1>0, <1>9, StepFrame DEF Poll
  <2>2. Busy(w) /\ InTry(w) /\ worker[w].rid # 0
    BY <1>0, <1>9 DEF Poll, At, Busy, InTry, RunInv
  <2>3. /\ worker[w] \in Run /\ JobOf(w) \in Jobs
        /\ worker[w].num \in Attempts /\ worker[w].rid \in Attempts
    BY <1>0, <2>2, RunTypes
  <2>4. post[JobOf(w)][worker[w].rid] \in Accepted
    BY <1>0, <2>2 DEF RunInv, Busy
  <2>5. answer \in {"SUCCEEDED", "WAITING_REMOTE", "FAILED"}
    BY <2>4 DEF PollAnswer, Accepted
  <2>6. answer = "SUCCEEDED" =>
          post[JobOf(w)][worker[w].rid] \in Confirmed(Platform[JobOf(w)])
    BY <2>3, <2>4 DEF PollAnswer, Accepted, Confirmed, IInv, PostsFit
  <2> HIDE DEF answer
  <2>7. /\ worker'[w].entry = worker[w].entry /\ worker'[w].num = worker[w].num
        /\ worker'[w].rid = worker[w].rid /\ worker'[w].outcome = answer
        /\ worker'[w].pc = IF answer = "WAITING_REMOTE" THEN "requeue" ELSE "saveAttempt"
    BY <2>1, <2>3 DEF Run
  <2> QED BY <1>0, <1>9, <2>2, <2>4, <2>5, <2>6, <2>7 DEF Poll, RunInv, InTry, JobOf, Busy
<1>10. CASE Requeue(w)
  <2>1. worker'[w] = [worker[w] EXCEPT !.pc = "saveAttempt"]
    BY <1>0, <1>10, StepFrame DEF Requeue
  <2>2. worker[w] \in Run
    BY <1>0, RunTypes
  <2> QED BY <1>0, <1>10, <2>1, <2>2 DEF Requeue, RunInv, InTry, JobOf, Run, At
<1>11. CASE SaveAttempt(w)
  <2>1. worker'[w] = [worker[w] EXCEPT !.pc = "saveJob"]
    BY <1>0, <1>11, StepFrame DEF SaveAttempt
  <2>2. InTry(w) /\ Busy(w)
    BY <1>11 DEF SaveAttempt, InTry, At, Busy
  <2>3. worker[w] \in Run /\ JobOf(w) \in Jobs /\ worker[w].num \in Attempts
    BY <1>0, <2>2, RunTypes
  <2>4. attempt'[JobOf(w)][worker[w].num] # "NONE"
    BY <1>0, <2>2, <2>3 DEF RunInv, Grows
  <2> QED BY <1>0, <1>11, <2>1, <2>3, <2>4 DEF SaveAttempt, RunInv, InTry, JobOf, Run, At
<1>12. CASE SaveJob(w)
  BY <1>0, <1>12, SettledRun DEF SaveJob, At, Busy
<1>13. CASE FailAttempt(w)
  <2>1. worker'[w] = [worker[w] EXCEPT !.pc = "failJob"]
    BY <1>0, <1>13, StepFrame DEF FailAttempt
  <2>2. InTry(w) /\ Busy(w)
    BY <1>13 DEF FailAttempt, InTry, At, Busy
  <2>3. worker[w] \in Run /\ JobOf(w) \in Jobs /\ worker[w].num \in Attempts
    BY <1>0, <2>2, RunTypes
  <2>4. attempt'[JobOf(w)][worker[w].num] # "NONE"
    BY <1>0, <2>2, <2>3 DEF RunInv, Grows
  <2> QED BY <1>0, <1>13, <2>1, <2>3, <2>4 DEF FailAttempt, RunInv, InTry, JobOf, Run, At
<1>14. CASE FailJob(w)
  BY <1>0, <1>14, SettledRun, RethrowRun DEF FailJob, At, Busy
<1>15. CASE ReadJobs(w)
  <2>1. worker'[w] = [worker[w] EXCEPT !.pc = "saveDraft", !.next = DerivedStatus]
    BY <1>0, <1>15, StepFrame DEF ReadJobs
  <2>2. worker[w] \in Run
    BY <1>0, RunTypes
  <2> QED BY <1>0, <1>15, <2>1, <2>2 DEF ReadJobs, RunInv, InTry, JobOf, Run, At
<1>16. CASE SaveDraft(w)
  BY <1>0, <1>16, StepFrame, IdleRun DEF SaveDraft
<1> QED BY <1>1, <1>2, <1>3, <1>4, <1>5, <1>6, <1>7, <1>8, <1>9, <1>10, <1>11, <1>12,
           <1>13, <1>14, <1>15, <1>16 DEF WorkerStep

(* So does each failure inside processPublishJob. *)
LEMMA FaultRun ==
  ASSUME IInv, Grows, NEW w \in Workers, WorkerFault(w)
  PROVE  RunInv(w)'
<1>0. TypeOK /\ RunInv(w)
  BY DEF IInv
<1>1. ASSUME NEW kind \in ErrorKinds, PollFails(w, kind) PROVE RunInv(w)'
  BY <1>0, <1>1, CaughtRun DEF PollFails, At, InTry
<1>2. ASSUME NEW a \in PublishJobStatus, NEW k \in ErrorKinds, SubmitUnanswered(w, a, k)
      PROVE  RunInv(w)'
  BY <1>0, <1>2, CaughtRun DEF SubmitUnanswered, AcceptPost, At, InTry
<1>3. CASE StoreErrorInTry(w)
  BY <1>0, <1>3, CaughtRun DEF StoreErrorInTry, InTry
<1>4. CASE StoreErrorOutsideTry(w)
  BY <1>0, <1>4, RethrowRun DEF StoreErrorOutsideTry
<1>5. CASE EventWriteFails(w)
  BY <1>0, <1>5, CaughtRun, RethrowRun DEF EventWriteFails, At, InTry
<1> QED BY <1>1, <1>2, <1>3, <1>4, <1>5 DEF WorkerFault

(* A step of one worker preserves what every run knows. *)
LEMMA WorkerRuns ==
  ASSUME IInv, Grows, NEW w \in Workers, WorkerStep(w) \/ WorkerFault(w)
  PROVE  \A v \in Workers : RunInv(v)'
<1>0. TypeOK
  BY DEF IInv
<1>1. RunInv(w)'
  BY WorkerRun, FaultRun
<1>2. ASSUME NEW v \in Workers \ {w} PROVE RunInv(v)'
  <2>1. worker'[v] = worker[v]
    BY <1>0, OthersStay
  <2>2. ASSUME At(v, "submit"), worker[v].rid = 0
        PROVE  post'[JobOf(v)][worker[v].num] = "none"
    <3>1. /\ InTry(v) /\ JobOf(v) \in Jobs /\ worker[v].num \in Attempts
          /\ post[JobOf(v)][worker[v].num] = "none"
      BY <1>0, <2>2, RunTypes DEF IInv, RunInv, At, InTry, Busy
    <3>2. ASSUME NEW a, AcceptPost(w, a)
          PROVE  <<JobOf(v), worker[v].num>> # <<JobOf(w), worker[w].num>>
      BY <3>1, <3>2 DEF IInv, AttemptsExclusive, AcceptPost, At, InTry
    <3>3. (\E a : AcceptPost(w, a)) \/ UNCHANGED post
      BY DEF WorkerStep, WorkerFault, SkipFinalized, Fetch, MarkRunning, CreateAttempt,
             DuplicateAttempt, Refuse, ResumePoll, Submit, Poll, Requeue, SaveAttempt,
             SaveJob, FailAttempt, FailJob, ReadJobs, SaveDraft, PollFails,
             SubmitUnanswered, StoreErrorInTry, StoreErrorOutsideTry, EventWriteFails
    <3> QED BY <1>0, <3>1, <3>2, <3>3, NoneStays
  <2> QED BY <2>1, <2>2, RunFrame
<1> QED BY <1>1, <1>2

(* The environment preserves what every run knows. *)
LEMMA EnvironmentRuns ==
  ASSUME IInv, Grows, Environment
  PROVE  \A v \in Workers : RunInv(v)'
<1> SUFFICES ASSUME NEW v \in Workers PROVE RunInv(v)'
  OBVIOUS
<1>0. TypeOK
  BY DEF IInv
<1>1. ASSUME At(v, "submit"), worker[v].rid = 0
      PROVE  post[JobOf(v)][worker[v].num] = "none" /\ JobOf(v) \in Jobs /\ worker[v].num \in Attempts
  BY <1>0, <1>1, RunTypes DEF IInv, RunInv, At, InTry, Busy
<1>2. ASSUME NEW j \in Jobs, NEW n \in Attempts, FinishProcessing(j, n) PROVE RunInv(v)'
  <2>1. \A i \in Jobs, m \in Attempts : post[i][m] = "none" => post'[i][m] = "none"
    BY <1>0, <1>2 DEF TypeOK, FinishProcessing
  <2> QED BY <1>1, <1>2, <2>1, RunFrame DEF FinishProcessing
<1>3. ASSUME NEW j \in Jobs, NEW n \in Attempts, Settle(j, n) PROVE RunInv(v)'
  <2>1. post[j][n] # "none"
    BY <1>3 DEF Settle, Outcomes
  <2>2. \A i \in Jobs, m \in Attempts : post[i][m] = "none" => post'[i][m] = "none"
    BY <1>0, <1>3, <2>1 DEF TypeOK, Settle
  <2> QED BY <1>1, <1>3, <2>2, RunFrame DEF Settle
<1>4. ASSUME NEW p \in Processes, Crash(p) PROVE RunInv(v)'
  <2>1. worker'[v] = IdleWorker \/ worker'[v] = worker[v]
    BY <1>4 DEF Crash
  <2> QED BY <1>1, <1>4, <2>1, IdleRun, RunFrame DEF Crash
<1>5. CASE UNCHANGED <<attempt, post, worker>>
  BY <1>1, <1>5, RunFrame
<1> QED BY <1>2, <1>3, <1>4, <1>5 DEF Environment, ClientDies, StallEntry, EvictEntry

(* API requests touch no attempt, post or worker. *)
LEMMA ClientFrame ==
  ASSUME NEW c \in Clients, ClientStep(c)
  PROVE  UNCHANGED <<attempt, post, worker, sweep, crashes>>
BY DEF ClientStep, CancelCheck, CancelWrite, CancelReadJobs, CancelSaveDraft,
       RetryCheck, RetryWrite, RetryEnqueue, RetryEnqueueSkipped

(* A sweep touches only queue entries and its own list. *)
LEMMA SweepFrame ==
  ASSUME NEW p \in Processes, SweepStep(p)
  PROVE  UNCHANGED <<job, attempt, draft, post, worker, client, crashes>>
BY DEF SweepStep, SweepQueued, SweepWaiting, AddDispatch, AddRemote

(* A worker touches no API request and no sweep. *)
LEMMA WorkerFrame ==
  ASSUME NEW w \in Workers, WorkerStep(w) \/ WorkerFault(w)
  PROVE  UNCHANGED <<client, sweep, crashes>>
BY DEF WorkerStep, WorkerFault, SkipFinalized, Fetch, MarkRunning, CreateAttempt,
       DuplicateAttempt, Refuse, ResumePoll, Submit, Poll, Requeue, SaveAttempt,
       SaveJob, FailAttempt, FailJob, ReadJobs, SaveDraft, PollFails,
       SubmitUnanswered, StoreErrorInTry, StoreErrorOutsideTry, EventWriteFails

(* Every step preserves what every run knows. *)
LEMMA RunsStep ==
  ASSUME IInv, [Next]_vars
  PROVE  \A v \in Workers : RunInv(v)'
<1>1. Grows
  BY NextGrows
<1>2. CASE UNCHANGED <<attempt, post, worker>>
  <2> SUFFICES ASSUME NEW v \in Workers PROVE RunInv(v)'
    OBVIOUS
  <2>1. At(v, "submit") /\ worker[v].rid = 0 => post[JobOf(v)][worker[v].num] = "none"
    BY DEF IInv, RunInv, At
  <2> QED BY <1>1, <1>2, <2>1, RunFrame
<1> QED BY <1>1, <1>2, WorkerRuns, EnvironmentRuns, ClientFrame, SweepFrame DEF Next, vars

(* Every step leaves a request in progress with the job it is about. *)
LEMMA RequestsStep ==
  ASSUME IInv, [Next]_vars
  PROVE  \A c \in Clients : ClientInv(c)'
<1>1. CASE UNCHANGED client
  BY <1>1 DEF IInv, ClientInv
<1>2. ASSUME NEW c \in Clients, NEW new \in ApiRequest, Request(c, new),
             new.pc # "idle" => new.job \in Jobs
      PROVE  \A d \in Clients : ClientInv(d)'
  BY <1>2 DEF IInv, TypeOK, ClientInv, Request
<1>3. ASSUME NEW c \in Clients, ClientStep(c) PROVE \A d \in Clients : ClientInv(d)'
  <2>1. client[c] \in ApiRequest /\ (client[c].pc # "idle" => client[c].job \in Jobs)
    BY DEF IInv, TypeOK, ClientInv
  <2>2. IdleClient \in ApiRequest /\ IdleClient.pc = "idle"
    BY IdleType DEF IdleClient
  <2>3. ASSUME NEW j \in Jobs, CancelCheck(c, j) PROVE \A d \in Clients : ClientInv(d)'
    <3>1. [IdleClient EXCEPT !.pc = "cancel", !.job = j] \in ApiRequest
      BY <2>2 DEF ApiRequest, ClientPC
    <3>2. [IdleClient EXCEPT !.pc = "cancel", !.job = j].job = j
      BY <2>2 DEF ApiRequest
    <3> QED BY <1>2, <2>3, <3>1, <3>2 DEF CancelCheck
  <2>4. ASSUME NEW j \in Jobs, RetryCheck(c, j) PROVE \A d \in Clients : ClientInv(d)'
    <3>1. [IdleClient EXCEPT !.pc = "retry", !.job = j] \in ApiRequest
      BY <2>2 DEF ApiRequest, ClientPC
    <3>2. [IdleClient EXCEPT !.pc = "retry", !.job = j].job = j
      BY <2>2 DEF ApiRequest
    <3> QED BY <1>2, <2>4, <3>1, <3>2 DEF RetryCheck
  <2>5. ASSUME NEW pc \in ClientPC, Request(c, [client[c] EXCEPT !.pc = pc]),
               client[c].pc # "idle"
        PROVE  \A d \in Clients : ClientInv(d)'
    <3>1. [client[c] EXCEPT !.pc = pc] \in ApiRequest /\ [client[c] EXCEPT !.pc = pc].job \in Jobs
      BY <2>1, <2>5 DEF ApiRequest
    <3> QED BY <1>2, <2>5, <3>1
  <2>6. CASE CancelWrite(c) \/ RetryWrite(c)
    BY <2>5, <2>6 DEF CancelWrite, RetryWrite, ClientPC
  <2>7. CASE CancelReadJobs(c)
    <3>1. /\ [client[c] EXCEPT !.pc = "saveDraft", !.next = DerivedStatus] \in ApiRequest
          /\ [client[c] EXCEPT !.pc = "saveDraft", !.next = DerivedStatus].job \in Jobs
      BY <2>1, <2>7, DerivedStatusType DEF CancelReadJobs, ApiRequest, ClientPC
    <3> QED BY <1>2, <2>7, <3>1 DEF CancelReadJobs
  <2>8. CASE Request(c, IdleClient)
    BY <1>2, <2>2, <2>8
  <2> QED BY <1>3, <2>3, <2>4, <2>6, <2>7, <2>8
          DEF ClientStep, CancelSaveDraft, RetryEnqueue, RetryEnqueueSkipped
<1>4. ASSUME NEW c \in Clients, ClientDies(c) PROVE \A d \in Clients : ClientInv(d)'
  BY <1>2, <1>4, IdleType DEF ClientDies, IdleClient
<1> QED BY <1>1, <1>3, <1>4, WorkerFrame, SweepFrame
        DEF Next, vars, Environment, FinishProcessing, Settle, Crash, StallEntry, EvictEntry

-----------------------------------------------------------------------------
(* No two runs in the try block share an attempt row. *)

(* A run that is in the try block after the step was there before it, with  *)
(* the same attempt.                                                        *)
Keeps(v) ==
  InTry(v)' => /\ InTry(v)
               /\ worker'[v].num = worker[v].num
               /\ worker'[v].entry = worker[v].entry

(* If nobody enters the try block, attempts stay exclusive. *)
LEMMA KeepsExclusive ==
  ASSUME AttemptsExclusive, \A v \in Workers : Keeps(v)
  PROVE  AttemptsExclusive'
BY DEF AttemptsExclusive, Keeps, JobOf

(* Only the insert of the attempt row enters the try block. *)
LEMMA WorkerKeeps ==
  ASSUME TypeOK, NEW w \in Workers, WorkerStep(w) \/ WorkerFault(w), ~CreateAttempt(w)
  PROVE  Keeps(w)
<1>1. worker[w] \in Run
  BY DEF TypeOK
<1>2. CASE worker'[w].pc \notin {"submit", "poll", "requeue", "saveAttempt", "saveJob",
                                "failAttempt", "failJob"}
  BY <1>2 DEF Keeps, InTry
<1>3. ASSUME NEW pc, InTry(w), Step(w, [worker[w] EXCEPT !.pc = pc]) PROVE Keeps(w)
  <2>1. worker'[w] = [worker[w] EXCEPT !.pc = pc]
    BY <1>3, StepFrame
  <2> QED BY <1>1, <1>3, <2>1 DEF Keeps, Run
<1>4. ASSUME NEW k, InTry(w), Caught(w, k) PROVE Keeps(w)
  <2>1. worker'[w] = [worker[w] EXCEPT !.pc = "failAttempt", !.kind = k, !.rid = 0,
                                       !.outcome = "NONE"]
    BY <1>4, StepFrame DEF Caught
  <2> QED BY <1>1, <1>4, <2>1 DEF Keeps, Run
<1>5. CASE worker'[w] = IdleWorker
  BY <1>2, <1>5 DEF IdleWorker
<1>6. CASE Settled(w)
  <2>1. worker'[w] = [IdleWorker EXCEPT !.pc = "readJobs", !.entry = worker[w].entry]
    BY <1>6, StepFrame DEF Settled
  <2> QED BY <1>2, <2>1 DEF IdleWorker
<1>7. CASE Rethrow(w)
  BY <1>5, <1>7, StepFrame DEF Rethrow
<1>8. ASSUME NEW e \in EntryIds, SkipFinalized(w, e) PROVE Keeps(w)
  BY <1>8 DEF SkipFinalized, Keeps, InTry
<1>9. ASSUME NEW e \in EntryIds, Fetch(w, e) PROVE Keeps(w)
  <2>1. worker'[w] = [IdleWorker EXCEPT !.pc = "markRunning", !.entry = e,
                                        !.num = job[e.job].attemptCount + 1,
                                        !.rid = ResumedId(job[e.job])]
    BY <1>9, StepFrame DEF Fetch
  <2> QED BY <1>2, <2>1 DEF IdleWorker
<1>10. CASE MarkRunning(w)
  <2>1. worker'[w].pc = "createAttempt"
    BY <1>1, <1>10, StepFrame DEF MarkRunning, Run
  <2> QED BY <1>2, <2>1
<1>11. ASSUME NEW a, Submit(w, a) PROVE Keeps(w)
  <2>1. worker'[w] = [worker[w] EXCEPT !.rid = worker[w].num, !.outcome = a,
                        !.pc = IF a = "SUCCEEDED" THEN "saveAttempt" ELSE "poll"]
    BY <1>11, StepFrame DEF Submit
  <2> QED BY <1>1, <1>11, <2>1 DEF Keeps, Run, Submit, AcceptPost, At, InTry
<1>12. CASE Poll(w)
  <2> DEFINE answer == PollAnswer(Platform[JobOf(w)], post[JobOf(w)][worker[w].rid])
  <2>1. worker'[w] = [worker[w] EXCEPT !.outcome = answer,
                        !.pc = IF answer = "WAITING_REMOTE" THEN "requeue" ELSE "saveAttempt"]
    BY <1>12, StepFrame DEF Poll
  <2> HIDE DEF answer
  <2> QED BY <1>1, <1>12, <2>1 DEF Keeps, Run, Poll, At, InTry
<1>13. CASE ResumePoll(w) \/ Requeue(w) \/ SaveAttempt(w) \/ FailAttempt(w)
  BY <1>3, <1>13 DEF ResumePoll, Requeue, SaveAttempt, FailAttempt, At, InTry
<1>14. CASE ReadJobs(w)
  <2>1. worker'[w] = [worker[w] EXCEPT !.pc = "saveDraft", !.next = DerivedStatus]
    BY <1>14, StepFrame DEF ReadJobs
  <2> QED BY <1>1, <1>2, <2>1 DEF Run
<1>15. CASE SaveDraft(w)
  BY <1>5, <1>15, StepFrame DEF SaveDraft
<1>16. CASE WorkerFault(w)
  BY <1>4, <1>7, <1>16
     DEF WorkerFault, PollFails, SubmitUnanswered, AcceptPost, StoreErrorInTry,
         StoreErrorOutsideTry, EventWriteFails, At, InTry
<1> QED
  BY <1>4, <1>6, <1>7, <1>8, <1>9, <1>10, <1>11, <1>12, <1>13, <1>14, <1>15, <1>16
     DEF WorkerStep, DuplicateAttempt, Refuse, SaveJob, FailJob, At, InTry

(* The insert succeeds only for a number no other run holds. *)
LEMMA CreateExclusive ==
  ASSUME IInv, NEW w \in Workers, CreateAttempt(w)
  PROVE  AttemptsExclusive'
<1>1. TypeOK
  BY DEF IInv
<1>2. worker'[w] = [worker[w] EXCEPT !.pc = "submit"]
  BY <1>1, StepFrame DEF CreateAttempt
<1>3. worker[w] \in Run
  BY <1>1 DEF TypeOK
<1>4. worker'[w].num = worker[w].num /\ worker'[w].entry = worker[w].entry
  BY <1>2, <1>3 DEF Run
<1>5. \A v \in Workers \ {w} : worker'[v] = worker[v]
  BY <1>1, OthersStay DEF WorkerStep
<1>6. ASSUME NEW v \in Workers \ {w}, InTry(v), JobOf(v) = JobOf(w)
      PROVE  worker[v].num # worker[w].num
  BY <1>6 DEF IInv, RunInv, CreateAttempt
<1> QED BY <1>4, <1>5, <1>6 DEF AttemptsExclusive, IInv, InTry, JobOf

(* Every step keeps attempts exclusive. *)
LEMMA ExclusiveStep ==
  ASSUME IInv, [Next]_vars
  PROVE  AttemptsExclusive'
<1>0. TypeOK /\ AttemptsExclusive
  BY DEF IInv
<1>1. CASE UNCHANGED worker
  BY <1>0, <1>1 DEF AttemptsExclusive, InTry, JobOf
<1>2. ASSUME NEW w \in Workers, WorkerStep(w) \/ WorkerFault(w) PROVE AttemptsExclusive'
  <2>1. CASE CreateAttempt(w)
    BY <2>1, CreateExclusive
  <2>2. CASE ~CreateAttempt(w)
    <3>1. \A v \in Workers \ {w} : Keeps(v)
      BY <1>0, <1>2, OthersStay DEF Keeps, InTry
    <3> QED BY <1>0, <1>2, <2>2, <3>1, WorkerKeeps, KeepsExclusive
  <2> QED BY <2>1, <2>2
<1>3. ASSUME NEW p \in Processes, Crash(p) PROVE AttemptsExclusive'
  <2>1. \A v \in Workers : worker'[v] = IdleWorker \/ worker'[v] = worker[v]
    BY <1>3 DEF Crash
  <2>2. \A v \in Workers : Keeps(v)
    BY <2>1 DEF Keeps, InTry, IdleWorker
  <2> QED BY <1>0, <2>2, KeepsExclusive
<1> QED BY <1>1, <1>2, <1>3, ClientFrame, SweepFrame
        DEF Next, vars, Environment, FinishProcessing, Settle, ClientDies, StallEntry,
            EvictEntry

-----------------------------------------------------------------------------
(* The posts: each has an attempt row, and fits its platform. *)

(* Every step keeps the posts logged and in the states of their platform. *)
LEMMA PostsStep ==
  ASSUME IInv, [Next]_vars
  PROVE  PostsAreLogged' /\ PostsFit'
<1>0. TypeOK /\ PostsAreLogged /\ PostsFit /\ Grows
  BY NextGrows DEF IInv
<1>1. CASE UNCHANGED post
  BY <1>0, <1>1 DEF PostsAreLogged, PostsFit, Grows
<1>2. ASSUME NEW j \in Jobs, NEW n \in Attempts, NEW s,
             post' = [post EXCEPT ![j][n] = s], attempt[j][n] # "NONE",
             s \in {"processed", "withdrawn"} => Platform[j] = "FACEBOOK"
      PROVE  PostsAreLogged' /\ PostsFit'
  BY <1>0, <1>2 DEF PostsAreLogged, PostsFit, Grows, TypeOK
<1>3. ASSUME NEW w \in Workers, NEW a, AcceptPost(w, a) PROVE PostsAreLogged' /\ PostsFit'
  <2>1. InTry(w) /\ Busy(w)
    BY <1>3 DEF AcceptPost, At, InTry, Busy
  <2>2. /\ JobOf(w) \in Jobs /\ worker[w].num \in Attempts
        /\ attempt[JobOf(w)][worker[w].num] # "NONE"
    BY <1>0, <2>1, RunTypes DEF IInv, RunInv
  <2>3. post' = [post EXCEPT ![JobOf(w)][worker[w].num] = PostOf(a)]
    BY <1>3 DEF AcceptPost
  <2>4. PostOf(a) \notin {"processed", "withdrawn"}
    BY DEF PostOf
  <2> QED BY <1>2, <2>2, <2>3, <2>4
<1>4. ASSUME NEW j \in Jobs, NEW n \in Attempts, FinishProcessing(j, n)
      PROVE  PostsAreLogged' /\ PostsFit'
  BY <1>0, <1>2, <1>4 DEF FinishProcessing, PostsAreLogged
<1>5. ASSUME NEW j \in Jobs, NEW n \in Attempts, Settle(j, n)
      PROVE  PostsAreLogged' /\ PostsFit'
  <2>1. PICK s \in Outcomes(post[j][n]) : post' = [post EXCEPT ![j][n] = s]
    BY <1>5 DEF Settle
  <2>2. post[j][n] # "none" /\ (s = "withdrawn" => post[j][n] = "processed") /\ s # "processed"
    BY <2>1 DEF Outcomes
  <2>3. /\ attempt[j][n] # "NONE"
        /\ s \in {"processed", "withdrawn"} => Platform[j] = "FACEBOOK"
    BY <1>0, <2>2 DEF PostsAreLogged, PostsFit
  <2> QED BY <1>2, <2>1, <2>3
<1>6. ASSUME NEW w \in Workers, WorkerStep(w) \/ WorkerFault(w)
      PROVE  (\E a : AcceptPost(w, a)) \/ UNCHANGED post
  BY <1>6 DEF WorkerStep, WorkerFault, SkipFinalized, Fetch, MarkRunning, CreateAttempt,
              DuplicateAttempt, Refuse, ResumePoll, Submit, Poll, Requeue, SaveAttempt,
              SaveJob, FailAttempt, FailJob, ReadJobs, SaveDraft, PollFails,
              SubmitUnanswered, StoreErrorInTry, StoreErrorOutsideTry, EventWriteFails
<1> QED BY <1>1, <1>3, <1>4, <1>5, <1>6, ClientFrame, SweepFrame
        DEF Next, vars, Environment, Crash, ClientDies, StallEntry, EvictEntry

-----------------------------------------------------------------------------
(* The job rows and the draft. *)

(* A row that says SUCCEEDED or WAITING_REMOTE after the step said so of the *)
(* same submission before it, or was written by a run that knows the answer. *)
LEMMA RowsStay ==
  ASSUME IInv, Grows,
         \A j \in Jobs :
           \/ job'[j].status \notin {"SUCCEEDED", "WAITING_REMOTE"}
           \/ job'[j].status = job[j].status /\ job'[j].remoteId = job[j].remoteId
           \/ /\ job'[j].remoteId \in Attempts
              /\ post[j][job'[j].remoteId] \in Accepted
              /\ job'[j].status = "SUCCEEDED" =>
                   post[j][job'[j].remoteId] \in Confirmed(Platform[j])
  PROVE  SuccessIsReal' /\ WaitingIsPollable'
<1> SUFFICES ASSUME NEW j \in Jobs
             PROVE  /\ job'[j].status = "SUCCEEDED" =>
                         /\ job'[j].remoteId # 0
                         /\ post'[j][job'[j].remoteId] \in Confirmed(Platform[j])
                    /\ job'[j].status = "WAITING_REMOTE" =>
                         /\ job'[j].remoteId # 0
                         /\ post'[j][job'[j].remoteId] \in Accepted
  BY DEF SuccessIsReal, WaitingIsPollable
<1>1. job[j].remoteId # 0 => job[j].remoteId \in Attempts
  BY ConstantsAssumption DEF IInv, TypeOK, JobRow, Attempts, ConstantsAssumption
<1>2. CASE job'[j].status = job[j].status /\ job'[j].remoteId = job[j].remoteId
  BY <1>1, <1>2 DEF IInv, SuccessIsReal, WaitingIsPollable, Grows
<1>3. CASE /\ job'[j].remoteId \in Attempts
           /\ post[j][job'[j].remoteId] \in Accepted
           /\ job'[j].status = "SUCCEEDED" =>
                post[j][job'[j].remoteId] \in Confirmed(Platform[j])
  BY <1>3, ConstantsAssumption DEF Grows, Attempts, ConstantsAssumption
<1> QED BY <1>2, <1>3

(* Every step keeps the claims of the job rows true. *)
LEMMA RowsStep ==
  ASSUME IInv, [Next]_vars
  PROVE  SuccessIsReal' /\ WaitingIsPollable'
<1>0. TypeOK /\ Grows
  BY NextGrows DEF IInv
<1>1. CASE UNCHANGED job
  BY <1>0, <1>1, RowsStay
<1>2. ASSUME NEW j \in Jobs, NEW row, StoreJob(j, row),
             \/ row.status \notin {"SUCCEEDED", "WAITING_REMOTE"}
             \/ row.status = job[j].status /\ row.remoteId = job[j].remoteId
             \/ /\ row.remoteId \in Attempts
                /\ post[j][row.remoteId] \in Accepted
                /\ row.status = "SUCCEEDED" =>
                     post[j][row.remoteId] \in Confirmed(Platform[j])
      PROVE  SuccessIsReal' /\ WaitingIsPollable'
  <2>1. job'[j] = row /\ \A i \in Jobs \ {j} : job'[i] = job[i]
    BY <1>0, <1>2 DEF StoreJob, TypeOK
  <2> QED BY <1>0, <1>2, <2>1, RowsStay
<1>3. ASSUME NEW w \in Workers, Busy(w)
      PROVE  /\ JobOf(w) \in Jobs /\ job[JobOf(w)] \in JobRow /\ worker[w] \in Run
             /\ worker[w].rid # 0 => worker[w].rid \in Attempts
             /\ RunInv(w)
  BY <1>0, <1>3, RunTypes DEF IInv
<1>4. ASSUME NEW w \in Workers, MarkRunning(w) PROVE SuccessIsReal' /\ WaitingIsPollable'
  <2>1. Busy(w)
    BY <1>4 DEF MarkRunning, At, Busy
  <2>2. [job[JobOf(w)] EXCEPT !.status = "RUNNING",
                              !.attemptCount = worker[w].num].status = "RUNNING"
    BY <1>3, <2>1 DEF JobRow
  <2> QED BY <1>2, <1>3, <1>4, <2>1, <2>2 DEF MarkRunning
<1>5. ASSUME NEW w \in Workers, CreateAttempt(w) PROVE SuccessIsReal' /\ WaitingIsPollable'
  BY <1>1, <1>5 DEF CreateAttempt
<1>6. ASSUME NEW w \in Workers, At(w, "saveJob"), NEW row, StoreJob(JobOf(w), row),
             row.status = worker[w].outcome, row.remoteId = worker[w].rid
      PROVE  SuccessIsReal' /\ WaitingIsPollable'
  <2>1. Busy(w)
    BY <1>6 DEF At, Busy
  <2>2. /\ worker[w].rid \in Attempts
        /\ post[JobOf(w)][worker[w].rid] \in Accepted
        /\ worker[w].outcome = "SUCCEEDED" =>
             post[JobOf(w)][worker[w].rid] \in Confirmed(Platform[JobOf(w)])
    BY <1>3, <1>6, <2>1 DEF RunInv, At
  <2> QED BY <1>2, <1>3, <1>6, <2>1, <2>2
<1>7. ASSUME NEW w \in Workers, SaveJob(w) PROVE SuccessIsReal' /\ WaitingIsPollable'
  <2> DEFINE row == [job[JobOf(w)] EXCEPT
                       !.status = worker[w].outcome, !.remoteId = worker[w].rid]
  <2>1. Busy(w) /\ At(w, "saveJob")
    BY <1>7 DEF SaveJob, At, Busy
  <2>2. row.status = worker[w].outcome /\ row.remoteId = worker[w].rid
    BY <1>3, <2>1 DEF JobRow
  <2>3. StoreJob(JobOf(w), row)
    BY <1>7 DEF SaveJob
  <2> HIDE DEF row
  <2> QED BY <1>6, <2>1, <2>2, <2>3
<1>8. ASSUME NEW w \in Workers, FailJob(w) PROVE SuccessIsReal' /\ WaitingIsPollable'
  <2> DEFINE row == [job[JobOf(w)] EXCEPT !.status = FailedStatus(worker[w].kind)]
  <2>1. Busy(w)
    BY <1>8 DEF FailJob, At, Busy
  <2>2. row.status \notin {"SUCCEEDED", "WAITING_REMOTE"}
    BY <1>3, <2>1 DEF JobRow, FailedStatus
  <2>3. StoreJob(JobOf(w), row)
    BY <1>8 DEF FailJob
  <2> HIDE DEF row
  <2> QED BY <1>2, <1>3, <2>1, <2>2, <2>3
<1>9. ASSUME NEW w \in Workers, EventWriteFails(w)
      PROVE  SuccessIsReal' /\ WaitingIsPollable'
  <2> DEFINE saved == [job[JobOf(w)] EXCEPT !.status = worker[w].outcome,
                                            !.remoteId = worker[w].rid]
             failed == [job[JobOf(w)] EXCEPT !.status = FailedStatus(worker[w].kind)]
  <2>1. \/ UNCHANGED job
        \/ At(w, "saveJob") /\ StoreJob(JobOf(w), saved)
        \/ At(w, "failJob") /\ StoreJob(JobOf(w), failed)
    BY <1>9 DEF EventWriteFails
  <2>2. Busy(w)
    BY <1>9 DEF EventWriteFails, At, Busy
  <2>3. saved.status = worker[w].outcome /\ saved.remoteId = worker[w].rid
    BY <1>3, <2>2 DEF JobRow
  <2>4. failed.status \notin {"SUCCEEDED", "WAITING_REMOTE"}
    BY <1>3, <2>2 DEF JobRow, FailedStatus
  <2> HIDE DEF saved, failed
  <2> QED BY <1>1, <1>2, <1>3, <1>6, <2>1, <2>2, <2>3, <2>4
<1>10. ASSUME NEW w \in Workers, WorkerStep(w) \/ WorkerFault(w)
       PROVE  SuccessIsReal' /\ WaitingIsPollable'
  BY <1>1, <1>4, <1>5, <1>7, <1>8, <1>9, <1>10
     DEF WorkerStep, WorkerFault, SkipFinalized, Fetch, DuplicateAttempt, Refuse,
         ResumePoll, Submit, Poll, Requeue, SaveAttempt, FailAttempt, ReadJobs, SaveDraft,
         PollFails, SubmitUnanswered, StoreErrorInTry, StoreErrorOutsideTry
<1>11. ASSUME NEW c \in Clients, ClientStep(c) PROVE SuccessIsReal' /\ WaitingIsPollable'
  <2>1. CASE CancelWrite(c) \/ RetryWrite(c)
    <3>1. client[c].job \in Jobs /\ job[client[c].job] \in JobRow
      BY <1>0, <2>1 DEF IInv, ClientInv, CancelWrite, RetryWrite, TypeOK
    <3> DEFINE row(s) == [job[client[c].job] EXCEPT !.status = s]
    <3>2. \A s : row(s).status = s
      BY <3>1 DEF JobRow
    <3>3. \E s \in {"CANCELLED", "QUEUED"} : StoreJob(client[c].job, row(s))
      BY <2>1 DEF CancelWrite, RetryWrite
    <3> HIDE DEF row
    <3> QED BY <1>2, <3>1, <3>2, <3>3
  <2> QED BY <1>1, <1>11, <2>1
          DEF ClientStep, CancelCheck, CancelReadJobs, CancelSaveDraft, RetryCheck,
              RetryEnqueue, RetryEnqueueSkipped
<1> QED BY <1>1, <1>10, <1>11, SweepFrame
        DEF Next, vars, Environment, FinishProcessing, Settle, Crash, ClientDies,
            StallEntry, EvictEntry

(* The status syncDraftStatus derives claims only what the job rows claim. *)
LEMMA DerivedIsReal ==
  ASSUME TypeOK, SuccessIsReal
  PROVE  ClaimIsReal(DerivedStatus)
<1>1. \A j \in Jobs : job[j].status = "SUCCEEDED" => HasConfirmedPost(j)
  <2> SUFFICES ASSUME NEW j \in Jobs, job[j].status = "SUCCEEDED"
               PROVE  HasConfirmedPost(j)
    OBVIOUS
  <2>1. job[j].remoteId \in 0 .. MaxAttempts /\ MaxAttempts \in Nat
    BY ConstantsAssumption DEF TypeOK, JobRow, ConstantsAssumption
  <2>2. job[j].remoteId \in Attempts
    BY <2>1 DEF SuccessIsReal, Attempts
  <2> QED BY <2>2 DEF SuccessIsReal, HasConfirmedPost
<1>2. DerivedStatus = "PUBLISHED" => \A j \in Jobs : job[j].status = "SUCCEEDED"
  BY DEF DerivedStatus, ResolveDraftStatus, AllSucceeded
<1>3. DerivedStatus = "PARTIALLY_PUBLISHED" => \E j \in Jobs : job[j].status = "SUCCEEDED"
  BY DEF DerivedStatus, ResolveDraftStatus
<1> QED BY <1>1, <1>2, <1>3 DEF ClaimIsReal

(* Every step keeps the draft statuses held or written true. *)
LEMMA ClaimsStep ==
  ASSUME IInv, [Next]_vars
  PROVE  Claims'
<1>0. TypeOK /\ Grows /\ SuccessIsReal /\ Claims
  BY NextGrows DEF IInv
<1>1. \A j \in Jobs : HasConfirmedPost(j) => HasConfirmedPost(j)'
  BY <1>0 DEF HasConfirmedPost, Grows
<1>2. ASSUME draft' \in {draft} \cup {worker[w].next : w \in Workers}
                              \cup {client[c].next : c \in Clients},
             \A w \in Workers : worker'[w].next \in {worker[w].next, "DRAFT", DerivedStatus},
             \A c \in Clients : client'[c].next \in {client[c].next, "DRAFT", DerivedStatus}
      PROVE  Claims'
  <2>1. ClaimIsReal(DerivedStatus) /\ ClaimIsReal("DRAFT")
    BY <1>0, DerivedIsReal DEF ClaimIsReal
  <2>2. ClaimIsReal(draft)'
    BY <1>0, <1>1, <1>2 DEF Claims, ClaimIsReal
  <2>3. ASSUME NEW w \in Workers PROVE ClaimIsReal(worker[w].next)'
    BY <1>0, <1>1, <1>2, <2>1 DEF Claims, ClaimIsReal
  <2>4. ASSUME NEW c \in Clients PROVE ClaimIsReal(client[c].next)'
    BY <1>0, <1>1, <1>2, <2>1 DEF Claims, ClaimIsReal
  <2> QED BY <2>2, <2>3, <2>4 DEF Claims
<1>3. ASSUME NEW w \in Workers, WorkerStep(w) \/ WorkerFault(w) PROVE Claims'
  <2>1. draft' \in {draft, worker[w].next} /\ UNCHANGED client
    BY <1>3, WorkerFrame
       DEF WorkerStep, WorkerFault, SkipFinalized, Fetch, MarkRunning, CreateAttempt,
           DuplicateAttempt, Refuse, ResumePoll, Submit, Poll, Requeue, SaveAttempt,
           SaveJob, FailAttempt, FailJob, ReadJobs, SaveDraft, PollFails,
           SubmitUnanswered, StoreErrorInTry, StoreErrorOutsideTry, EventWriteFails
  <2>2. worker'[w].next \in {worker[w].next, "DRAFT", DerivedStatus}
    <3>1. worker[w] \in Run
      BY <1>0 DEF TypeOK
    <3>2. CASE UNCHANGED worker
      BY <3>2
    <3>3. ASSUME NEW pc, Step(w, [worker[w] EXCEPT !.pc = pc])
          PROVE  worker'[w].next = worker[w].next
      BY <1>0, <3>1, <3>3, StepFrame DEF Run
    <3>4. ASSUME NEW k, Caught(w, k) PROVE worker'[w].next = worker[w].next
      <4>1. worker'[w] = [worker[w] EXCEPT !.pc = "failAttempt", !.kind = k, !.rid = 0,
                                           !.outcome = "NONE"]
        BY <1>0, <3>4, StepFrame DEF Caught
      <4> QED BY <3>1, <4>1 DEF Run
    <3>5. CASE Settled(w)
      <4>1. worker'[w] = [IdleWorker EXCEPT !.pc = "readJobs", !.entry = worker[w].entry]
        BY <1>0, <3>5, StepFrame DEF Settled
      <4> QED BY <4>1 DEF IdleWorker
    <3>6. CASE Step(w, IdleWorker)
      BY <1>0, <3>6, StepFrame DEF IdleWorker
    <3>7. ASSUME NEW e \in EntryIds, Fetch(w, e) PROVE worker'[w].next = "DRAFT"
      <4>1. worker'[w] = [IdleWorker EXCEPT !.pc = "markRunning", !.entry = e,
                                            !.num = job[e.job].attemptCount + 1,
                                            !.rid = ResumedId(job[e.job])]
        BY <1>0, <3>7, StepFrame DEF Fetch
      <4> QED BY <4>1 DEF IdleWorker
    <3>8. ASSUME NEW a, Submit(w, a) PROVE worker'[w].next = worker[w].next
      <4>1. worker'[w] = [worker[w] EXCEPT !.rid = worker[w].num, !.outcome = a,
                            !.pc = IF a = "SUCCEEDED" THEN "saveAttempt" ELSE "poll"]
        BY <1>0, <3>8, StepFrame DEF Submit
      <4> QED BY <3>1, <4>1 DEF Run
    <3>9. CASE Poll(w)
      <4> DEFINE answer == PollAnswer(Platform[JobOf(w)], post[JobOf(w)][worker[w].rid])
      <4>1. worker'[w] = [worker[w] EXCEPT !.outcome = answer,
              !.pc = IF answer = "WAITING_REMOTE" THEN "requeue" ELSE "saveAttempt"]
        BY <1>0, <3>9, StepFrame DEF Poll
      <4> HIDE DEF answer
      <4> QED BY <3>1, <4>1 DEF Run
    <3>10. CASE ReadJobs(w)
      <4>1. worker'[w] = [worker[w] EXCEPT !.pc = "saveDraft", !.next = DerivedStatus]
        BY <1>0, <3>10, StepFrame DEF ReadJobs
      <4> QED BY <3>1, <4>1 DEF Run
    <3> QED
      BY <1>3, <3>2, <3>3, <3>4, <3>5, <3>6, <3>7, <3>8, <3>9, <3>10
         DEF WorkerStep, WorkerFault, SkipFinalized, MarkRunning, CreateAttempt,
             DuplicateAttempt, Refuse, ResumePoll, Requeue, SaveAttempt, SaveJob,
             FailAttempt, FailJob, SaveDraft, PollFails, SubmitUnanswered,
             StoreErrorInTry, StoreErrorOutsideTry, EventWriteFails, Rethrow
  <2>3. \A v \in Workers : worker'[v].next \in {worker[v].next, "DRAFT", DerivedStatus}
    BY <1>0, <1>3, <2>2, OthersStay
  <2> QED BY <1>2, <2>1, <2>3
<1>4. ASSUME NEW c \in Clients, ClientStep(c) PROVE Claims'
  <2>1. draft' \in {draft, client[c].next} /\ UNCHANGED worker
    BY <1>4, ClientFrame
       DEF ClientStep, CancelCheck, CancelWrite, CancelReadJobs, CancelSaveDraft,
           RetryCheck, RetryWrite, RetryEnqueue, RetryEnqueueSkipped
  <2>2. ASSUME NEW new, Request(c, new), new.next \in {client[c].next, "DRAFT", DerivedStatus}
        PROVE  Claims'
    <3>1. \A d \in Clients : client'[d].next \in {client[d].next, "DRAFT", DerivedStatus}
      BY <1>0, <2>2 DEF Request, TypeOK
    <3> QED BY <1>2, <2>1, <3>1
  <2>3. client[c] \in ApiRequest
    BY <1>0 DEF TypeOK
  <2>4. ASSUME NEW pc, Request(c, [client[c] EXCEPT !.pc = pc]) PROVE Claims'
    <3>1. [client[c] EXCEPT !.pc = pc].next = client[c].next
      BY <2>3 DEF ApiRequest
    <3> QED BY <2>2, <2>4, <3>1
  <2>5. ASSUME NEW pc, NEW j, Request(c, [IdleClient EXCEPT !.pc = pc, !.job = j])
        PROVE  Claims'
    <3>1. [IdleClient EXCEPT !.pc = pc, !.job = j].next = "DRAFT"
      BY DEF IdleClient
    <3> QED BY <2>2, <2>5, <3>1
  <2>6. CASE Request(c, IdleClient)
    BY <2>2, <2>6 DEF IdleClient
  <2>7. CASE CancelReadJobs(c)
    <3>1. [client[c] EXCEPT !.pc = "saveDraft", !.next = DerivedStatus].next = DerivedStatus
      BY <2>3 DEF ApiRequest
    <3> QED BY <2>2, <2>7, <3>1 DEF CancelReadJobs
  <2> QED BY <1>4, <2>4, <2>5, <2>6, <2>7
          DEF ClientStep, CancelCheck, CancelWrite, CancelSaveDraft, RetryCheck, RetryWrite,
              RetryEnqueue, RetryEnqueueSkipped
<1>5. CASE Environment
  <2>1. UNCHANGED draft
    BY <1>5 DEF Environment, FinishProcessing, Settle, Crash, ClientDies, StallEntry, EvictEntry
  <2>2. \A w \in Workers : worker'[w].next \in {worker[w].next, "DRAFT"}
    BY <1>5 DEF Environment, FinishProcessing, Settle, Crash, ClientDies, StallEntry,
                EvictEntry, IdleWorker
  <2>3. \A c \in Clients : client'[c].next \in {client[c].next, "DRAFT"}
    BY <1>0, <1>5 DEF Environment, FinishProcessing, Settle, Crash, ClientDies, StallEntry,
                      EvictEntry, IdleClient, Request, TypeOK
  <2> QED BY <1>2, <2>1, <2>2, <2>3
<1>6. CASE UNCHANGED <<draft, worker, client>>
  BY <1>2, <1>6
<1> QED BY <1>3, <1>4, <1>5, <1>6, SweepFrame DEF Next, vars

-----------------------------------------------------------------------------
(* The theorems. *)

(* The invariant holds when the jobs have been created. *)
LEMMA InitInv == Init => IInv
<1> SUFFICES ASSUME Init PROVE IInv
  OBVIOUS
<1>1. TypeOK
  <2>1. job \in [Jobs -> JobRow]
    BY ConstantsAssumption
       DEF Init, JobRow, PublishJobStatus, ConstantsAssumption
  <2>2. entry \in [EntryIds -> Entry]
    BY DEF Init, Entry, EntryState, Fresh, Absent
  <2>3. crashes \in 0 .. MaxCrashes /\ draft \in DraftStatus
    BY ConstantsAssumption DEF Init, DraftStatus, ConstantsAssumption
  <2> QED BY <2>1, <2>2, <2>3, IdleType DEF Init, TypeOK
<1>2. \A w \in Workers : RunInv(w)
  BY DEF Init, RunInv, IdleWorker, InTry
<1>3. \A c \in Clients : ClientInv(c)
  BY DEF Init, ClientInv, IdleClient
<1>4. PostsFit /\ PostsAreLogged
  BY DEF Init, PostsFit, PostsAreLogged
<1>5. AttemptsExclusive
  BY DEF Init, AttemptsExclusive, InTry, IdleWorker
<1>6. SuccessIsReal /\ WaitingIsPollable
  BY DEF Init, SuccessIsReal, WaitingIsPollable
<1>7. Claims
  BY DEF Init, Claims, ClaimIsReal, IdleWorker, IdleClient
<1> QED BY <1>1, <1>2, <1>3, <1>4, <1>5, <1>6, <1>7 DEF IInv

(* Every step preserves the type invariant. *)
LEMMA TypeStep ==
  ASSUME IInv, [Next]_vars
  PROVE  TypeOK'
<1>1. CASE UNCHANGED vars
  BY <1>1 DEF IInv, TypeOK, vars
<1>2. ASSUME NEW w \in Workers, WorkerStep(w) \/ WorkerFault(w) PROVE TypeOK'
  BY <1>2, WorkerType, FaultType DEF IInv
<1>3. ASSUME NEW c \in Clients, ClientStep(c) PROVE TypeOK'
  BY <1>3, ClientType DEF IInv
<1> QED BY <1>1, <1>2, <1>3, SweepType, EnvironmentType DEF Next, IInv

(* The inductive invariant holds in every reachable state. *)
THEOREM Invariance == Spec => []IInv
<1>1. IInv /\ [Next]_vars => IInv'
  BY TypeStep, RunsStep, RequestsStep, PostsStep, ExclusiveStep, RowsStep, ClaimsStep DEF IInv
<1> QED BY <1>1, InitInv, PTL DEF Spec

(* Every row, entry and local variable keeps its type. *)
THEOREM TypeCorrect == Spec => []TypeOK
BY Invariance, PTL DEF IInv

(* Runs of one job may overlap on the dispatch and the retry queue, but    *)
(* the unique index on (publishJobId, attemptNumber) keeps them off each   *)
(* other's attempt row.                                                    *)
THEOREM AttemptsAreExclusive == Spec => []AttemptsExclusive
BY Invariance, PTL DEF IInv

(* Whatever fails or crashes, the attempt log misses no accepted post:     *)
(* processPublishJob creates the row before it calls the adapter.          *)
THEOREM PostsHaveRows == Spec => []PostsAreLogged
BY Invariance, PTL DEF IInv

(* A job row says SUCCEEDED only of a post the platform has confirmed,     *)
(* whoever else writes the row in between.                                 *)
THEOREM SuccessHasPost == Spec => []SuccessIsReal
BY Invariance, PTL DEF IInv

(* A job row that waits for the platform names the submission to poll.     *)
THEOREM WaitingHasPost == Spec => []WaitingIsPollable
BY Invariance, PTL DEF IInv

(* syncDraftStatus reads the job rows and writes the draft in two calls,   *)
(* from workers and API requests at once; a stale write may be out of      *)
(* date, but it never claims a publication that did not happen.            *)
THEOREM DraftClaimsHold == Spec => []DraftClaimsAreReal
<1>1. IInv => DraftClaimsAreReal
  BY DEF IInv, Claims, DraftClaimsAreReal
<1> QED BY <1>1, Invariance, PTL

=============================================================================

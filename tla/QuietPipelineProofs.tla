------------------------ MODULE QuietPipelineProofs ------------------------
(***************************************************************************)
(* Proofs about PublishPipeline of what holds only as long as certain      *)
(* calls do not fail, or as long as no user retries a job, for every set   *)
(* of jobs, processes and API requests:                                    *)
(*   the attempt log is final if the store never fails;                    *)
(*   a cancellation that no run overlaps is final until a user retries;    *)
(*   in quiet operation a job is submitted once, and its row agrees with   *)
(*   the log between runs.                                                 *)
(* The last needs how the two queues hand a job over: QInv.                *)
(***************************************************************************)
EXTENDS PublishPipelineProofs, FiniteSetTheorems

-----------------------------------------------------------------------------
(* The attempt log. *)

(* Control states of a run whose attempt has not ended. *)
Unended == {"submit", "poll", "requeue", "saveAttempt", "failAttempt"}

(* The attempt of such a run is the one its row says is running. *)
OwnRow(w) == worker[w].pc \in Unended => attempt[JobOf(w)][worker[w].num] = "RUNNING"

(* A run whose attempt has not ended has just created its row, or had it   *)
(* already and did not touch it.                                           *)
LEMMA OpenKeeps ==
  ASSUME TypeOK, "store_error" \notin Faults, NEW w \in Workers, WorkerStep(w) \/ WorkerFault(w),
         worker'[w].pc \in Unended, ~CreateAttempt(w)
  PROVE  /\ worker[w].pc \in Unended /\ worker'[w].num = worker[w].num
         /\ worker'[w].entry = worker[w].entry /\ attempt' = attempt
<1>1. InTry(w) /\ worker'[w].num = worker[w].num /\ worker'[w].entry = worker[w].entry
  BY WorkerKeeps DEF Keeps, InTry, Unended
<1>2. worker[w] \in Run
  BY DEF TypeOK
<1>3. ~SaveJob(w) /\ ~FailJob(w)
  <2>1. ~Settled(w)
    <3>1. Settled(w) => worker'[w] = [IdleWorker EXCEPT !.pc = "readJobs", !.entry = worker[w].entry]
      BY StepFrame DEF Settled
    <3> QED BY <3>1 DEF IdleWorker, Unended
  <2>2. ~Rethrow(w)
    BY StepFrame DEF Rethrow, IdleWorker, Unended
  <2> QED BY <2>1, <2>2 DEF SaveJob, FailJob
<1>4. ~SaveAttempt(w) /\ ~FailAttempt(w)
  <2>1. ~SaveAttempt(w)
    BY <1>2, StepFrame DEF SaveAttempt, Run, Unended
  <2>2. ~FailAttempt(w)
    BY <1>2, StepFrame DEF FailAttempt, Run, Unended
  <2> QED BY <2>1, <2>2
<1>5. worker[w].pc \in Unended /\ attempt' = attempt
  BY <1>1, <1>3, <1>4
     DEF WorkerStep, WorkerFault, SkipFinalized, Fetch, MarkRunning, DuplicateAttempt, Refuse, ResumePoll,
         Submit, AcceptPost, Poll, Requeue, ReadJobs, SaveDraft, PollFails, SubmitUnanswered,
         StoreErrorInTry, StoreErrorOutsideTry, EventWriteFails, CanTake, Busy, At, InTry, Unended
<1> QED BY <1>1, <1>5

(* Who writes to the log: the row it creates, or the one of its own run. *)
LEMMA LogStep ==
  ASSUME "store_error" \notin Faults, [Next]_vars
  PROVE  \/ UNCHANGED attempt
         \/ \E w \in Workers : CreateAttempt(w) \/ SaveAttempt(w) \/ FailAttempt(w)
<1>1. ASSUME NEW w \in Workers, WorkerStep(w) \/ WorkerFault(w)
      PROVE  UNCHANGED attempt \/ CreateAttempt(w) \/ SaveAttempt(w) \/ FailAttempt(w)
  BY <1>1
     DEF WorkerStep, WorkerFault, SkipFinalized, Fetch, MarkRunning, DuplicateAttempt, Refuse, ResumePoll,
         Submit, Poll, Requeue, SaveJob, FailJob, ReadJobs, SaveDraft, PollFails, SubmitUnanswered,
         StoreErrorInTry, StoreErrorOutsideTry, EventWriteFails
<1> QED
  BY <1>1, ClientFrame, SweepFrame
     DEF Next, vars, Environment, FinishProcessing, Settle, Crash, ClientDies, StallEntry, EvictEntry

LEMMA OwnRowStep ==
  ASSUME IInv, "store_error" \notin Faults, \A w \in Workers : OwnRow(w), [Next]_vars
  PROVE  \A v \in Workers : OwnRow(v)'
<1> SUFFICES ASSUME NEW v \in Workers, worker'[v].pc \in Unended
             PROVE  attempt'[worker'[v].entry.job][worker'[v].num] = "RUNNING"
  BY DEF OwnRow, JobOf
<1>1. CASE CreateAttempt(v)
  <2>1. /\ Busy(v) /\ At(v, "createAttempt") /\ worker'[v] = [worker[v] EXCEPT !.pc = "submit"]
        /\ attempt' = [attempt EXCEPT ![JobOf(v)][worker[v].num] = "RUNNING"]
    BY <1>1, StepFrame DEF IInv, CreateAttempt, At, Busy
  <2>2. JobOf(v) \in Jobs /\ worker[v].num \in Attempts /\ worker[v] \in Run
    BY <2>1, RunTypes DEF IInv
  <2>3. worker'[v].entry.job = JobOf(v) /\ worker'[v].num = worker[v].num
    BY <2>1, <2>2 DEF Run, JobOf
  <2> QED BY <2>1, <2>2, <2>3 DEF IInv, TypeOK
<1>2. CASE ~CreateAttempt(v)
  <2>1. /\ worker[v].pc \in Unended /\ worker'[v].num = worker[v].num /\ worker'[v].entry = worker[v].entry
        /\ WorkerStep(v) \/ WorkerFault(v) => attempt' = attempt
    <3>1. CASE WorkerStep(v) \/ WorkerFault(v)
      BY <1>2, <3>1, OpenKeeps DEF IInv
    <3>2. CASE worker'[v] = worker[v] /\ ~(WorkerStep(v) \/ WorkerFault(v))
      BY <3>2
    <3>3. CASE worker'[v] # worker[v]
      <4>1. ASSUME NEW w \in Workers, WorkerStep(w) \/ WorkerFault(w) PROVE w = v
        BY <3>3, <4>1, OthersStay DEF IInv
      <4>2. ASSUME NEW p \in Processes, Crash(p) PROVE FALSE
        BY <3>3, <4>2 DEF Crash, IdleWorker, Unended
      <4> QED
        BY <3>1, <3>3, <4>1, <4>2, ClientFrame, SweepFrame
           DEF Next, vars, Environment, FinishProcessing, Settle, ClientDies, StallEntry, EvictEntry
    <3> QED BY <3>1, <3>2, <3>3
  <2>2. attempt[JobOf(v)][worker[v].num] = "RUNNING" /\ InTry(v) /\ Busy(v)
    BY <2>1 DEF OwnRow, InTry, Busy, Unended
  <2>3. JobOf(v) \in Jobs /\ worker[v].num \in Attempts
    BY <2>2, RunTypes DEF IInv
  <2>4. ASSUME NEW w \in Workers, CreateAttempt(w) \/ SaveAttempt(w) \/ FailAttempt(w)
        PROVE  attempt'[JobOf(v)][worker[v].num] = "RUNNING"
    <3>1. CASE w = v
      BY <1>2, <2>1, <2>2, <2>4, <3>1 DEF WorkerStep
    <3>2. CASE w # v
      <4>1. PICK s : attempt' = [attempt EXCEPT ![JobOf(w)][worker[w].num] = s]
        BY <2>4 DEF CreateAttempt, SaveAttempt, FailAttempt
      <4>2. <<JobOf(w), worker[w].num>> # <<JobOf(v), worker[v].num>>
        BY <2>2, <2>4, <3>2 DEF IInv, AttemptsExclusive, InTry, CreateAttempt, SaveAttempt, FailAttempt, At
      <4> QED BY <2>2, <2>3, <4>1, <4>2 DEF IInv, TypeOK
    <3> QED BY <3>1, <3>2
  <2>5. attempt'[JobOf(v)][worker[v].num] = "RUNNING"
    BY <2>2, <2>4, LogStep
  <2> QED BY <2>1, <2>5 DEF JobOf
<1> QED BY <1>1, <1>2

(* As long as the store answers, an attempt that has ended stays in the    *)
(* log as it ended, whatever else fails, overlaps or crashes.  If a write  *)
(* of the job row fails, the catch block ends the attempt a second time.   *)
THEOREM EndedAttemptsAreFinal == "store_error" \notin Faults => (Spec => EndedAttemptsStay)
<1> SUFFICES ASSUME "store_error" \notin Faults PROVE Spec => EndedAttemptsStay
  OBVIOUS
<1> DEFINE Own == \A w \in Workers : OwnRow(w)
<1>1. Init => Own
  BY DEF Init, OwnRow, IdleWorker, Unended
<1>2. IInv /\ Own /\ [Next]_vars => Own'
  BY OwnRowStep
<1>3. ASSUME IInv, Own, [Next]_vars
      PROVE  [\A j \in Jobs, n \in Attempts :
                attempt[j][n] \notin {"NONE", "RUNNING"} => attempt'[j][n] = attempt[j][n]]_attempt
  <2>1. ASSUME NEW w \in Workers, CreateAttempt(w) \/ SaveAttempt(w) \/ FailAttempt(w),
               NEW j \in Jobs, NEW n \in Attempts, attempt[j][n] \notin {"NONE", "RUNNING"}
        PROVE  attempt'[j][n] = attempt[j][n]
    <3>1. attempt[JobOf(w)][worker[w].num] \in {"NONE", "RUNNING"}
      BY <1>3, <2>1 DEF OwnRow, Unended, CreateAttempt, SaveAttempt, FailAttempt, At
    <3>2. PICK s : attempt' = [attempt EXCEPT ![JobOf(w)][worker[w].num] = s]
      BY <2>1 DEF CreateAttempt, SaveAttempt, FailAttempt
    <3>3. <<JobOf(w), worker[w].num>> # <<j, n>>
      BY <2>1, <3>1
    <3> QED BY <1>3, <3>2, <3>3 DEF IInv, TypeOK
  <2> QED BY <1>3, <2>1, LogStep
<1> QED BY <1>1, <1>2, <1>3, Invariance, PTL DEF Spec, EndedAttemptsStay

-----------------------------------------------------------------------------
(* Cancellation. *)

(* A run keeps its entry until it is over. *)
LEMMA EntryKept ==
  ASSUME TypeOK, NEW w \in Workers, WorkerStep(w) \/ WorkerFault(w), Busy(w)
  PROVE  \/ worker'[w] = IdleWorker /\ (SaveDraft(w) \/ Rethrow(w))
         \/ worker'[w].entry = worker[w].entry /\ worker'[w].pc # "idle"
<1>1. worker[w] \in Run
  BY DEF TypeOK
<1>2. ASSUME NEW pc \in WorkerPC \ {"idle"}, Step(w, [worker[w] EXCEPT !.pc = pc])
      PROVE  worker'[w].entry = worker[w].entry /\ worker'[w].pc # "idle"
  <2>1. worker'[w] = [worker[w] EXCEPT !.pc = pc]
    BY <1>2, StepFrame
  <2> QED BY <1>1, <1>2, <2>1 DEF Run
<1>3. ASSUME NEW k, Caught(w, k) PROVE worker'[w].entry = worker[w].entry /\ worker'[w].pc # "idle"
  <2>1. worker'[w] = [worker[w] EXCEPT !.pc = "failAttempt", !.kind = k, !.rid = 0, !.outcome = "NONE"]
    BY <1>3, StepFrame DEF Caught
  <2> QED BY <1>1, <2>1 DEF Run
<1>4. ASSUME Settled(w) PROVE worker'[w].entry = worker[w].entry /\ worker'[w].pc # "idle"
  <2>1. worker'[w] = [IdleWorker EXCEPT !.pc = "readJobs", !.entry = worker[w].entry]
    BY <1>4, StepFrame DEF Settled
  <2> QED BY <2>1 DEF IdleWorker
<1>5. ASSUME Rethrow(w) PROVE worker'[w] = IdleWorker
  BY <1>5, StepFrame DEF Rethrow
<1>6. ASSUME NEW e \in EntryIds PROVE ~SkipFinalized(w, e) /\ ~Fetch(w, e)
  BY DEF SkipFinalized, Fetch, CanTake
<1>7. ASSUME NEW a, Submit(w, a) PROVE worker'[w].entry = worker[w].entry /\ worker'[w].pc # "idle"
  <2>1. worker'[w] = [worker[w] EXCEPT !.rid = worker[w].num, !.outcome = a,
                        !.pc = IF a = "SUCCEEDED" THEN "saveAttempt" ELSE "poll"]
    BY <1>7, StepFrame DEF Submit
  <2> QED BY <1>1, <2>1 DEF Run
<1>8. ASSUME Poll(w) PROVE worker'[w].entry = worker[w].entry /\ worker'[w].pc # "idle"
  <2> DEFINE answer == PollAnswer(Platform[JobOf(w)], post[JobOf(w)][worker[w].rid])
  <2>1. worker'[w] = [worker[w] EXCEPT !.outcome = answer,
                        !.pc = IF answer = "WAITING_REMOTE" THEN "requeue" ELSE "saveAttempt"]
    BY <1>8, StepFrame DEF Poll
  <2> HIDE DEF answer
  <2> QED BY <1>1, <2>1 DEF Run
<1>9. ASSUME ReadJobs(w) PROVE worker'[w].entry = worker[w].entry /\ worker'[w].pc # "idle"
  <2>1. worker'[w] = [worker[w] EXCEPT !.pc = "saveDraft", !.next = DerivedStatus]
    BY <1>9, StepFrame DEF ReadJobs
  <2> QED BY <1>1, <2>1 DEF Run
<1>10. ASSUME SaveDraft(w) PROVE worker'[w] = IdleWorker
  BY <1>10, StepFrame DEF SaveDraft
<1>11. CASE MarkRunning(w) \/ CreateAttempt(w) \/ ResumePoll(w) \/ Requeue(w) \/ SaveAttempt(w) \/ FailAttempt(w)
  BY <1>2, <1>11 DEF MarkRunning, CreateAttempt, ResumePoll, Requeue, SaveAttempt, FailAttempt, WorkerPC
<1>12. CASE WorkerFault(w)
  BY <1>3, <1>5, <1>12
     DEF WorkerFault, PollFails, SubmitUnanswered, StoreErrorInTry, StoreErrorOutsideTry, EventWriteFails
<1> QED
  BY <1>3, <1>4, <1>5, <1>6, <1>7, <1>8, <1>9, <1>10, <1>11, <1>12
     DEF WorkerStep, DuplicateAttempt, Refuse, SaveJob, FailJob

LEMMA NoFreeRetries ==
  ASSUME MaxRetries = 0
  PROVE  \A j : FreeRetries(j) = {}
BY DEF FreeRetries

(* Nobody but a run of the job writes another status over a cancellation. *)
LEMMA CancelledStays ==
  ASSUME IInv, MaxRetries = 0, NEW j \in Jobs, CancelledUnattended(j), [Next]_vars
  PROVE  CancelledUnattended(j)'
<1>1. ASSUME NEW w \in Workers, WorkerStep(w) \/ WorkerFault(w)
      PROVE  job'[j] = job[j] /\ ~(Busy(w)' /\ JobOf(w)' = j)
  <2>1. ASSUME Busy(w) PROVE JobOf(w) # j /\ JobOf(w) \in Jobs
    BY <2>1, RunTypes DEF IInv, CancelledUnattended, Unattended
  <2>2. ASSUME NEW e \in EntryIds, Fetch(w, e) PROVE job'[j] = job[j] /\ JobOf(w)' # j
    <3>1. e.job # j /\ job' = job
      BY <2>2 DEF Fetch, CancelledUnattended, Finalized
    <3>2. worker'[w].entry = e
      <4>1. worker'[w] = [IdleWorker EXCEPT !.pc = "markRunning", !.entry = e,
                            !.num = job[e.job].attemptCount + 1, !.rid = ResumedId(job[e.job])]
        BY <2>2, StepFrame DEF IInv, Fetch
      <4> QED BY <4>1 DEF IdleWorker
    <3> QED BY <3>1, <3>2 DEF JobOf
  <2>3. ASSUME NEW e \in EntryIds, SkipFinalized(w, e) PROVE job'[j] = job[j] /\ ~Busy(w)'
    BY <2>3 DEF SkipFinalized, CanTake, Busy
  <2>4. CASE Busy(w)
    <3>1. UNCHANGED job \/ \E row : StoreJob(JobOf(w), row)
      BY <1>1, <2>4
         DEF WorkerStep, WorkerFault, SkipFinalized, Fetch, MarkRunning, CreateAttempt, DuplicateAttempt,
             Refuse, ResumePoll, Submit, Poll, Requeue, SaveAttempt, SaveJob, FailAttempt, FailJob, ReadJobs,
             SaveDraft, PollFails, SubmitUnanswered, StoreErrorInTry, StoreErrorOutsideTry, EventWriteFails
    <3>2. job'[j] = job[j]
      BY <2>1, <2>4, <3>1 DEF StoreJob, IInv, TypeOK
    <3>3. worker'[w] = IdleWorker \/ worker'[w].entry = worker[w].entry
      BY <1>1, <2>4, EntryKept DEF IInv
    <3> QED BY <2>1, <2>4, <3>2, <3>3 DEF Busy, JobOf, IdleWorker
  <2> QED
    BY <1>1, <2>2, <2>3, <2>4
       DEF WorkerStep, WorkerFault, MarkRunning, CreateAttempt, DuplicateAttempt,
           Refuse, ResumePoll, Submit, AcceptPost, Poll, Requeue, SaveAttempt, SaveJob, FailAttempt, FailJob,
           ReadJobs, SaveDraft, PollFails, SubmitUnanswered, StoreErrorInTry, StoreErrorOutsideTry,
           EventWriteFails, At, Busy
<1>2. ASSUME NEW w \in Workers, WorkerStep(w) \/ WorkerFault(w) PROVE CancelledUnattended(j)'
  <2>1. UNCHANGED client /\ \A v \in Workers \ {w} : worker'[v] = worker[v]
    BY <1>2, WorkerFrame, OthersStay DEF IInv
  <2> QED BY <1>1, <1>2, <2>1 DEF CancelledUnattended, Unattended, Busy, JobOf
<1>3. ASSUME NEW c \in Clients, ClientStep(c) PROVE CancelledUnattended(j)'
  <2>1. UNCHANGED worker
    BY <1>3, ClientFrame
  <2>2. client[c] \in ApiRequest /\ client[c].pc \notin {"retry", "enqueue"}
    BY DEF IInv, TypeOK, CancelledUnattended
  <2>3. job'[j].status = "CANCELLED"
    <3>1. CASE CancelWrite(c)
      <4>1. client[c].job \in Jobs /\ job \in [Jobs -> JobRow]
        BY <3>1 DEF IInv, TypeOK, ClientInv, CancelWrite
      <4> QED BY <3>1, <4>1 DEF CancelWrite, StoreJob, CancelledUnattended, JobRow
    <3> QED
      BY <1>3, <2>2, <3>1 DEF ClientStep, CancelCheck, RetryCheck, CancelReadJobs, CancelSaveDraft, RetryWrite,
         RetryEnqueue, RetryEnqueueSkipped, CancelledUnattended
  <2>4. client'[c].pc \notin {"retry", "enqueue"} /\ \A d \in Clients \ {c} : client'[d] = client[d]
    <3>1. PICK new : Request(c, new) /\ new.pc \notin {"retry", "enqueue"}
      <4>1. IdleClient.pc = "idle" /\ \A k \in Jobs : [IdleClient EXCEPT !.pc = "cancel", !.job = k].pc = "cancel"
        BY DEF IdleClient
      <4>2. /\ [client[c] EXCEPT !.pc = "readJobs"].pc = "readJobs"
            /\ [client[c] EXCEPT !.pc = "saveDraft", !.next = DerivedStatus].pc = "saveDraft"
        BY <2>2 DEF ApiRequest
      <4> QED
        BY <1>3, <2>2, <4>1, <4>2, NoFreeRetries
           DEF ClientStep, CancelCheck, RetryCheck, CancelWrite, CancelReadJobs,
               CancelSaveDraft, RetryWrite, RetryEnqueue, RetryEnqueueSkipped
    <3> QED BY <3>1 DEF Request, IInv, TypeOK
  <2> QED BY <2>1, <2>3, <2>4 DEF CancelledUnattended, Unattended, Busy, JobOf
<1>4. ASSUME NEW p \in Processes, SweepStep(p) PROVE CancelledUnattended(j)'
  BY <1>4, SweepFrame DEF CancelledUnattended, Unattended, Busy, JobOf
<1>5. ASSUME NEW p \in Processes, Crash(p) PROVE CancelledUnattended(j)'
  BY <1>5 DEF Crash, CancelledUnattended, Unattended, Busy, JobOf, IdleWorker
<1>6. ASSUME NEW c \in Clients, ClientDies(c) PROVE CancelledUnattended(j)'
  BY <1>6 DEF ClientDies, Request, CancelledUnattended, Unattended, Busy, JobOf, IdleClient, IInv, TypeOK
<1>7. CASE UNCHANGED <<job, worker, client>>
  BY <1>7 DEF CancelledUnattended, Unattended, Busy, JobOf
<1> QED
  BY <1>2, <1>3, <1>4, <1>5, <1>6, <1>7
     DEF Next, vars, Environment, FinishProcessing, Settle, StallEntry, EvictEntry

(* A cancellation that no run of the job overlaps is respected for ever,   *)
(* whatever fails, crashes or is delivered again, as long as no user       *)
(* retries: processPublishJob reads the row before it does anything.       *)
THEOREM QuietCancellation == MaxRetries = 0 => (Spec => QuietCancelIsFinal)
<1> SUFFICES ASSUME MaxRetries = 0 PROVE Spec => QuietCancelIsFinal
  OBVIOUS
<1> SUFFICES ASSUME NEW j \in Jobs
             PROVE  Spec => [](CancelledUnattended(j) => [](job[j].status = "CANCELLED"))
  BY DEF QuietCancelIsFinal
<1>1. IInv /\ CancelledUnattended(j) /\ [Next]_vars => CancelledUnattended(j)'
  BY CancelledStays
<1>2. CancelledUnattended(j) => job[j].status = "CANCELLED"
  BY DEF CancelledUnattended
<1> QED BY <1>1, <1>2, Invariance, PTL DEF Spec

-----------------------------------------------------------------------------
(* Quiet operation: nothing fails but the API's connection to Redis, and   *)
(* no user retries.                                                        *)
Quiet == Faults \subseteq {"redis_down"} /\ MaxRetries = 0

OnJob(w, j) == Busy(w) /\ JobOf(w) = j

(* Control states of a run that has not submitted, of one that saves what  *)
(* the platform told, and of one that has written the job row.             *)
Before == {"markRunning", "createAttempt", "submit"}
Saving == {"saveAttempt", "saveJob"}
After == {"readJobs", "saveDraft"}

(* w runs job j for its dispatch entry, or for its remote-status entry. *)
Dispatches(w, j) == OnJob(w, j) /\ worker[w].entry = DispatchEntry(j)
Polls(w, j) == OnJob(w, j) /\ worker[w].entry = RemoteEntry(j)

DispatchState(j) == entry[DispatchEntry(j)].state
RemoteState(j) == entry[RemoteEntry(j)].state

(* An entry is active exactly while one worker has it; a sweep finds       *)
(* waiting only what has a remote-status entry already.                    *)
QueueQuiet ==
  /\ \A c \in Clients : client[c].pc \notin {"retry", "enqueue"}
  /\ \A w \in Workers : Busy(w) => entry[worker[w].entry].state = "active"
  /\ \A w \in Workers : ~Busy(w) => worker[w].entry = None
  /\ \A v, w \in Workers : Busy(v) /\ Busy(w) /\ worker[v].entry = worker[w].entry => v = w
  /\ \A e \in EntryIds : entry[e].state = "active" => \E w \in Workers : worker[w].entry = e
  /\ \A p \in Processes : sweep[p].pc = "remote" => \A j \in sweep[p].todo : RemoteState(j) # "absent"

(* The dispatch run hands the job to the remote-status entry it adds, and  *)
(* is past its last write of the job row when that entry is taken.         *)
HandOver(j) ==
  /\ job[j].status = "WAITING_REMOTE" => RemoteState(j) # "absent"
  /\ \A w \in Workers : OnJob(w, j) /\ worker[w].pc \in Saving /\ worker[w].outcome = "WAITING_REMOTE" =>
       RemoteState(j) # "absent"
  /\ RemoteState(j) # "absent" =>
       /\ DispatchState(j) \in {"active", "completed"}
       /\ \A w \in Workers : Dispatches(w, j) =>
            /\ worker[w].pc \in Saving \cup After
            /\ worker[w].pc \in Saving => worker[w].outcome = "WAITING_REMOTE"
  /\ RemoteState(j) = "waiting" =>
       \/ job[j].status \in {"WAITING_REMOTE", "CANCELLED"}
       \/ \E w \in Workers : Dispatches(w, j) /\ worker[w].pc \in Saving
  /\ \A v, w \in Workers : Dispatches(v, j) /\ Polls(w, j) => worker[v].pc \in After

(* Only the dispatch run submits, and it is not run again once it did. *)
Once(j) ==
  /\ \A w \in Workers : Polls(w, j) =>
       /\ worker[w].pc \in Before => worker[w].rid # 0
       /\ worker[w].pc \notin {"failAttempt", "failJob"}
  /\ \A w \in Workers : Dispatches(w, j) =>
       /\ worker[w].pc \in Before => worker[w].rid = 0
       /\ worker[w].pc \in Before \cup {"failAttempt", "failJob"} => \A n \in Attempts : post[j][n] = "none"
  /\ \A m, n \in Attempts : post[j][m] # "none" /\ post[j][n] # "none" =>
       m = n /\ DispatchState(j) \notin {"absent", "waiting"}

(* What the runs of j have numbered and written. *)
RowsAgree(j) ==
  /\ \A n \in Attempts : job[j].attemptCount < n => attempt[j][n] = "NONE"
  /\ \A w \in Workers : OnJob(w, j) =>
       /\ worker[w].pc = "markRunning" => worker[w].num = job[j].attemptCount + 1
       /\ worker[w].pc = "createAttempt" =>
            worker[w].num = job[j].attemptCount /\ attempt[j][worker[w].num] = "NONE"
       /\ InTry(w) => worker[w].num = job[j].attemptCount
       /\ worker[w].pc = "saveJob" => attempt[j][worker[w].num] = worker[w].outcome
       /\ worker[w].pc = "failJob" => attempt[j][worker[w].num] = FailedStatus(worker[w].kind)
  /\ /\ \A w \in Workers : OnJob(w, j) => worker[w].pc \in After
     /\ job[j].status \notin {"QUEUED", "CANCELLED"}
     => job[j].attemptCount # 0 /\ attempt[j][job[j].attemptCount] = job[j].status

JobQuiet(j) == HandOver(j) /\ Once(j) /\ RowsAgree(j)

QInv == QueueQuiet /\ \A j \in Jobs : JobQuiet(j)

-----------------------------------------------------------------------------
(* Entries *)

(* Without retries there are two entries for each job. *)
LEMMA TwoEntries ==
  ASSUME Quiet
  PROVE  /\ \A e \in EntryIds : e.job \in Jobs /\ (e = DispatchEntry(e.job) \/ e = RemoteEntry(e.job))
         /\ \A j \in Jobs : DispatchEntry(j) \in EntryIds /\ RemoteEntry(j) \in EntryIds
         /\ \A j : DispatchEntry(j).job = j /\ RemoteEntry(j).job = j
         /\ \A i, j : DispatchEntry(i) # RemoteEntry(j)
         /\ \A j : DispatchEntry(j).kind = "dispatch" /\ RemoteEntry(j).kind = "remote"
         /\ \A j \in Jobs : DispatchEntry(j) # None /\ RemoteEntry(j) # None
<1>1. 1 .. MaxRetries = {}
  BY DEF Quiet
<1>2. \A e \in EntryIds : e.job \in Jobs /\ (e = DispatchEntry(e.job) \/ e = RemoteEntry(e.job))
  BY <1>1 DEF EntryIds, DispatchEntry, RemoteEntry
<1>3. \A j \in Jobs : DispatchEntry(j) \in EntryIds /\ RemoteEntry(j) \in EntryIds
  BY EntryIdFacts
<1>4. /\ \A j : DispatchEntry(j).job = j /\ RemoteEntry(j).job = j
      /\ \A i, j : DispatchEntry(i) # RemoteEntry(j)
      /\ \A j : DispatchEntry(j).kind = "dispatch" /\ RemoteEntry(j).kind = "remote"
  BY DEF DispatchEntry, RemoteEntry
<1> QED BY <1>2, <1>3, <1>4, EntryIdFacts

(* What a run of job j may count on. *)
LEMMA Scene ==
  ASSUME IInv, QInv, Quiet, NEW w \in Workers, Busy(w)
  PROVE  /\ JobOf(w) \in Jobs /\ worker[w].entry \in EntryIds /\ worker[w] \in Run
         /\ Dispatches(w, JobOf(w)) \/ Polls(w, JobOf(w))
         /\ Dispatches(w, JobOf(w)) => DispatchState(JobOf(w)) = "active"
         /\ Polls(w, JobOf(w)) => RemoteState(JobOf(w)) = "active"
         /\ worker[w].pc \notin After =>
              \A v \in Workers \ {w} : OnJob(v, JobOf(w)) => worker[v].pc \in After
<1>1. /\ JobOf(w) \in Jobs /\ worker[w].entry \in EntryIds /\ worker[w] \in Run
  BY RunTypes DEF IInv
<1>2. Dispatches(w, JobOf(w)) \/ Polls(w, JobOf(w))
  BY <1>1, TwoEntries DEF Dispatches, Polls, OnJob, JobOf
<1>3. entry[worker[w].entry].state = "active"
  BY DEF QInv, QueueQuiet
<1>4. ASSUME worker[w].pc \notin After, NEW v \in Workers \ {w}, OnJob(v, JobOf(w))
      PROVE  worker[v].pc \in After
  <2>1. Dispatches(v, JobOf(w)) \/ Polls(v, JobOf(w))
    <3>1. worker[v].entry \in EntryIds
      BY <1>4, RunTypes DEF IInv, OnJob
    <3> QED BY <1>4, <3>1, TwoEntries DEF Dispatches, Polls, OnJob, JobOf
  <2>2. worker[v].entry # worker[w].entry
    BY <1>4 DEF QInv, QueueQuiet, OnJob
  <2>3. HandOver(JobOf(w))
    BY <1>1 DEF QInv, JobQuiet
  <2> QED BY <1>2, <1>4, <2>1, <2>2, <2>3 DEF HandOver, Dispatches, Polls
<1> QED BY <1>1, <1>2, <1>3, <1>4 DEF Dispatches, Polls, DispatchState, RemoteState

(* What is left alone of job j. *)
SameJob(j) ==
  /\ job'[j] = job[j] /\ attempt'[j] = attempt[j] /\ post'[j] = post[j]
  /\ DispatchState(j)' = DispatchState(j) /\ RemoteState(j)' = RemoteState(j)
  /\ \A w \in Workers : (OnJob(w, j)' <=> OnJob(w, j)) /\ (OnJob(w, j) => worker'[w] = worker[w])

LEMMA JobFrame ==
  ASSUME NEW j \in Jobs, JobQuiet(j), SameJob(j)
  PROVE  JobQuiet(j)'
<1>1. HandOver(j)'
  BY DEF JobQuiet, SameJob, HandOver, Dispatches, Polls
<1>2. Once(j)'
  BY DEF JobQuiet, SameJob, Once, Dispatches, Polls
<1>3. RowsAgree(j)'
  BY DEF JobQuiet, SameJob, RowsAgree, InTry
<1> QED BY <1>1, <1>2, <1>3 DEF JobQuiet

-----------------------------------------------------------------------------
(* Steps *)

(* In quiet operation no run meets a failing call. *)
LEMMA QuietFaults ==
  ASSUME Quiet
  PROVE  /\ Faults \cap {"lost_answer", "late_error", "store_error", "crash", "slow_save", "evict"} = {}
         /\ \A w : ~WorkerFault(w)
         /\ \A p : ~Crash(p)
         /\ \A c : ~ClientDies(c)
         /\ \A e : ~EvictEntry(e)
<1>1. Faults \cap {"lost_answer", "late_error", "store_error", "crash", "slow_save", "evict"} = {}
  BY DEF Quiet
<1> QED
  BY <1>1 DEF WorkerFault, PollFails, SubmitUnanswered, StoreErrorInTry, StoreErrorOutsideTry,
              EventWriteFails, Crash, ClientDies, EvictEntry

(* A run that goes on keeps its entry, and nobody else moves. *)
LEMMA RunMoves ==
  ASSUME TypeOK, NEW w \in Workers, NEW j \in Jobs, OnJob(w, j), WorkerStep(w), worker'[w] # IdleWorker
  PROVE  /\ \A v \in Workers \ {w} : worker'[v] = worker[v]
         /\ worker'[w].entry = worker[w].entry
         /\ \A v \in Workers : /\ OnJob(v, j)' <=> OnJob(v, j)
                               /\ Dispatches(v, j)' <=> Dispatches(v, j)
                               /\ Polls(v, j)' <=> Polls(v, j)
<1>1. worker'[w].entry = worker[w].entry /\ worker'[w].pc # "idle"
  BY EntryKept DEF OnJob
<1>2. \A v \in Workers \ {w} : worker'[v] = worker[v]
  BY OthersStay
<1>3. \A v \in Workers : OnJob(v, j)' <=> OnJob(v, j)
  BY <1>1, <1>2 DEF OnJob, Busy, JobOf
<1>4. \A v \in Workers : worker'[v].entry = worker[v].entry
  BY <1>1, <1>2
<1> QED BY <1>1, <1>2, <1>3, <1>4 DEF Dispatches, Polls

(* So does a run that is over. *)
LEMMA RunIsOver ==
  ASSUME TypeOK, NEW w \in Workers, NEW j \in Jobs, OnJob(w, j), WorkerStep(w), worker'[w] = IdleWorker
  PROVE  /\ \A v \in Workers \ {w} : worker'[v] = worker[v]
         /\ \A v \in Workers : /\ OnJob(v, j)' <=> OnJob(v, j) /\ v # w
                               /\ Dispatches(v, j)' <=> Dispatches(v, j) /\ v # w
                               /\ Polls(v, j)' <=> Polls(v, j) /\ v # w
<1>1. \A v \in Workers \ {w} : worker'[v] = worker[v]
  BY OthersStay
<1>2. ~Busy(w)'
  BY DEF Busy, IdleWorker
<1>3. \A v \in Workers : OnJob(v, j)' <=> OnJob(v, j) /\ v # w
  BY <1>1, <1>2 DEF OnJob, Busy, JobOf
<1> QED BY <1>1, <1>3 DEF Dispatches, Polls

LEMMA QuietMarkRunning ==
  ASSUME IInv, QInv, Quiet, NEW w \in Workers, NEW j \in Jobs, OnJob(w, j), MarkRunning(w)
  PROVE  JobQuiet(j)'
<1> DEFINE n == worker[w].num
<1>1. /\ JobQuiet(j) /\ JobOf(w) = j /\ worker[w] \in Run /\ n \in Attempts
      /\ worker[w].pc = "markRunning" /\ n = job[j].attemptCount + 1 /\ job[j] \in JobRow
  BY Scene, RunTypes DEF IInv, QInv, OnJob, MarkRunning, At, JobQuiet, RowsAgree
<1>2. worker'[w] = [worker[w] EXCEPT !.pc = "createAttempt"]
  BY StepFrame DEF IInv, MarkRunning
<1>3. /\ worker'[w].pc = "createAttempt" /\ worker'[w].num = n /\ worker'[w].rid = worker[w].rid
      /\ worker'[w] # IdleWorker
  BY <1>1, <1>2 DEF Run, IdleWorker
<1>4. /\ \A v \in Workers \ {w} : worker'[v] = worker[v]
      /\ \A v \in Workers : /\ OnJob(v, j)' <=> OnJob(v, j)
                            /\ Dispatches(v, j)' <=> Dispatches(v, j)
                            /\ Polls(v, j)' <=> Polls(v, j)
  BY <1>3, RunMoves DEF IInv, WorkerStep
<1>5. job'[j].status = "RUNNING" /\ job'[j].attemptCount = n
  BY <1>1 DEF MarkRunning, StoreJob, IInv, TypeOK, JobRow
<1>6. UNCHANGED <<attempt, post, entry>>
  BY DEF MarkRunning
<1>7. \A v \in Workers \ {w} : OnJob(v, j) => worker[v].pc \in After
  BY <1>1, Scene DEF After, OnJob
<1>8. HandOver(j)'
  BY <1>1, <1>3, <1>4, <1>5, <1>6, <1>7, Scene
     DEF JobQuiet, HandOver, Dispatches, Polls, DispatchState, RemoteState, Saving, After, OnJob
<1>9. Once(j)'
  BY <1>1, <1>3, <1>4, <1>6 DEF JobQuiet, Once, DispatchState, Before
<1>10. RowsAgree(j)'
  BY <1>1, <1>3, <1>4, <1>5, <1>6, <1>7 DEF JobQuiet, RowsAgree, InTry, After, Attempts, JobRow
<1> QED BY <1>8, <1>9, <1>10 DEF JobQuiet

(* The attempt row is new: two runs of a job never count to one number. *)
LEMMA QuietCreateAttempt ==
  ASSUME IInv, QInv, Quiet, NEW w \in Workers, NEW j \in Jobs, OnJob(w, j), CreateAttempt(w)
  PROVE  JobQuiet(j)'
<1> DEFINE n == worker[w].num
<1>1. /\ JobQuiet(j) /\ JobOf(w) = j /\ worker[w] \in Run /\ n \in Attempts
      /\ worker[w].pc = "createAttempt" /\ n = job[j].attemptCount /\ job[j] \in JobRow
  BY Scene, RunTypes DEF IInv, QInv, OnJob, CreateAttempt, At, JobQuiet, RowsAgree
<1>2. worker'[w] = [worker[w] EXCEPT !.pc = "submit"]
  BY StepFrame DEF IInv, CreateAttempt
<1>3. /\ worker'[w].pc = "submit" /\ worker'[w].num = n /\ worker'[w].rid = worker[w].rid
      /\ worker'[w] # IdleWorker
  BY <1>1, <1>2 DEF Run, IdleWorker
<1>4. /\ \A v \in Workers \ {w} : worker'[v] = worker[v]
      /\ \A v \in Workers : /\ OnJob(v, j)' <=> OnJob(v, j)
                            /\ Dispatches(v, j)' <=> Dispatches(v, j)
                            /\ Polls(v, j)' <=> Polls(v, j)
  BY <1>3, RunMoves DEF IInv, WorkerStep
<1>5. attempt'[j] = [attempt[j] EXCEPT ![n] = "RUNNING"]
  BY <1>1 DEF CreateAttempt, IInv, TypeOK
<1>6. UNCHANGED <<job, post, entry>>
  BY DEF CreateAttempt
<1>7. \A v \in Workers \ {w} : OnJob(v, j) => worker[v].pc \in After
  BY <1>1, Scene DEF After, OnJob
<1>8. HandOver(j)'
  BY <1>1, <1>3, <1>4, <1>6, <1>7, Scene
     DEF JobQuiet, HandOver, Dispatches, Polls, DispatchState, RemoteState, Saving, After, OnJob
<1>9. Once(j)'
  BY <1>1, <1>3, <1>4, <1>6 DEF JobQuiet, Once, DispatchState, Before
<1>10. attempt'[j][n] = "RUNNING" /\ \A m \in Attempts \ {n} : attempt'[j][m] = attempt[j][m]
  BY <1>1, <1>5 DEF IInv, TypeOK
<1>11. RowsAgree(j)'
  BY <1>1, <1>3, <1>4, <1>6, <1>7, <1>10 DEF JobQuiet, RowsAgree, InTry, After, Attempts, JobRow
<1> QED BY <1>8, <1>9, <1>11 DEF JobQuiet

LEMMA QuietNeverTwice ==
  ASSUME IInv, QInv, Quiet, NEW w \in Workers
  PROVE  ~DuplicateAttempt(w)
BY Scene DEF QInv, JobQuiet, RowsAgree, OnJob, DuplicateAttempt, At, Busy

(* A run inside its try block, about to move on. *)
LEMMA QuietStep ==
  ASSUME IInv, QInv, Quiet, NEW w \in Workers, NEW j \in Jobs, OnJob(w, j), WorkerStep(w),
         InTry(w), worker'[w].pc # "idle"
  PROVE  /\ JobQuiet(j) /\ JobOf(w) = j /\ worker[w] \in Run /\ worker[w].num \in Attempts
         /\ worker[w].num = job[j].attemptCount /\ job[j] \in JobRow
         /\ \A v \in Workers \ {w} : worker'[v] = worker[v]
         /\ \A v \in Workers : /\ OnJob(v, j)' <=> OnJob(v, j)
                               /\ Dispatches(v, j)' <=> Dispatches(v, j)
                               /\ Polls(v, j)' <=> Polls(v, j)
         /\ \A v \in Workers \ {w} : OnJob(v, j) => worker[v].pc \in After
         /\ \A v \in Workers \ {w} : Dispatches(v, j) \/ Polls(v, j) => worker[v].pc \in After
         /\ Dispatches(w, j) \/ Polls(w, j)
<1>1. /\ JobQuiet(j) /\ JobOf(w) = j /\ worker[w] \in Run /\ worker[w].num \in Attempts
      /\ worker[w].num = job[j].attemptCount /\ job[j] \in JobRow
  BY Scene, RunTypes DEF IInv, QInv, OnJob, JobQuiet, RowsAgree
<1>2. worker'[w] # IdleWorker
  BY DEF IdleWorker
<1>3. /\ \A v \in Workers \ {w} : worker'[v] = worker[v]
      /\ \A v \in Workers : /\ OnJob(v, j)' <=> OnJob(v, j)
                            /\ Dispatches(v, j)' <=> Dispatches(v, j)
                            /\ Polls(v, j)' <=> Polls(v, j)
  BY <1>2, RunMoves DEF IInv
<1>4. \A v \in Workers \ {w} : OnJob(v, j) => worker[v].pc \in After
  BY <1>1, Scene DEF After, OnJob, InTry
<1>5. \A v \in Workers : Dispatches(v, j) \/ Polls(v, j) => OnJob(v, j)
  BY DEF Dispatches, Polls
<1> QED BY <1>1, <1>3, <1>4, <1>5, Scene DEF OnJob

LEMMA QuietRefuse ==
  ASSUME IInv, QInv, Quiet, NEW w \in Workers, NEW j \in Jobs, OnJob(w, j),
         NEW kind \in ErrorKinds, Refuse(w, kind)
  PROVE  JobQuiet(j)'
<1>1. worker[w] \in Run /\ worker[w].pc = "submit" /\ worker[w].rid = 0
  BY QuietFaults DEF IInv, TypeOK, Refuse, At
<1>2. worker'[w] = [worker[w] EXCEPT !.pc = "failAttempt", !.kind = kind, !.rid = 0, !.outcome = "NONE"]
  BY StepFrame DEF IInv, Refuse, Caught
<1>3. worker'[w].pc = "failAttempt" /\ worker'[w].num = worker[w].num
  BY <1>1, <1>2 DEF Run
<1>4. WorkerStep(w) /\ InTry(w) /\ worker'[w].pc # "idle"
  BY <1>1, <1>3 DEF WorkerStep, InTry
<1>5. UNCHANGED <<job, attempt, post, entry>>
  BY DEF Refuse
<1>6. Dispatches(w, j) /\ ~Polls(w, j)
  BY <1>1, <1>3, <1>4, QuietStep, TwoEntries DEF JobQuiet, Once, Before, Dispatches, Polls
<1>7. HandOver(j)'
  BY <1>1, <1>3, <1>4, <1>5, <1>6, QuietStep
     DEF JobQuiet, HandOver, DispatchState, RemoteState, Saving, After
<1>8. Once(j)'
  BY <1>1, <1>3, <1>4, <1>5, <1>6, QuietStep DEF JobQuiet, Once, DispatchState, Before
<1>9. RowsAgree(j)'
  BY <1>1, <1>3, <1>4, <1>5, QuietStep DEF JobQuiet, RowsAgree, InTry, After
<1> QED BY <1>7, <1>8, <1>9 DEF JobQuiet

LEMMA QuietResumePoll ==
  ASSUME IInv, QInv, Quiet, NEW w \in Workers, NEW j \in Jobs, OnJob(w, j), ResumePoll(w)
  PROVE  JobQuiet(j)'
<1>1. worker[w] \in Run /\ worker[w].pc = "submit" /\ worker[w].rid # 0
  BY DEF IInv, TypeOK, ResumePoll, At
<1>2. worker'[w] = [worker[w] EXCEPT !.pc = "poll"]
  BY StepFrame DEF IInv, ResumePoll
<1>3. worker'[w].pc = "poll" /\ worker'[w].num = worker[w].num /\ worker'[w].rid = worker[w].rid
  BY <1>1, <1>2 DEF Run
<1>4. WorkerStep(w) /\ InTry(w) /\ worker'[w].pc # "idle"
  BY <1>1, <1>3 DEF WorkerStep, InTry
<1>5. UNCHANGED <<job, attempt, post, entry>>
  BY DEF ResumePoll
<1>6. Polls(w, j) /\ ~Dispatches(w, j)
  BY <1>1, <1>3, <1>4, QuietStep, TwoEntries DEF JobQuiet, Once, Before, Dispatches, Polls
<1>7. HandOver(j)'
  BY <1>1, <1>3, <1>4, <1>5, <1>6, QuietStep
     DEF JobQuiet, HandOver, DispatchState, RemoteState, Saving, After
<1>8. Once(j)'
  BY <1>1, <1>3, <1>4, <1>5, <1>6, QuietStep DEF JobQuiet, Once, DispatchState, Before
<1>9. RowsAgree(j)'
  BY <1>1, <1>3, <1>4, <1>5, QuietStep DEF JobQuiet, RowsAgree, InTry, After
<1> QED BY <1>7, <1>8, <1>9 DEF JobQuiet

(* The only submission: the entry of the run is active, and no other run   *)
(* will take it after this one.                                            *)
LEMMA QuietSubmit ==
  ASSUME IInv, QInv, Quiet, NEW w \in Workers, NEW j \in Jobs, OnJob(w, j),
         NEW answer \in PublishJobStatus, Submit(w, answer)
  PROVE  JobQuiet(j)'
<1> DEFINE n == worker[w].num
<1>1. worker[w] \in Run /\ worker[w].pc = "submit" /\ worker[w].rid = 0
  BY DEF IInv, TypeOK, Submit, AcceptPost, At
<1>2. worker'[w] = [worker[w] EXCEPT !.rid = n, !.outcome = answer,
                      !.pc = IF answer = "SUCCEEDED" THEN "saveAttempt" ELSE "poll"]
  BY StepFrame DEF IInv, Submit
<1>3. /\ worker'[w].pc \in {"saveAttempt", "poll"} /\ worker'[w].num = n
      /\ worker'[w].pc = "saveAttempt" => worker'[w].outcome = "SUCCEEDED"
  BY <1>1, <1>2 DEF Run
<1>4. WorkerStep(w) /\ InTry(w) /\ worker'[w].pc # "idle"
  BY <1>1, <1>3 DEF WorkerStep, InTry
<1>5. UNCHANGED <<job, attempt, entry>>
  BY DEF Submit
<1>6. Dispatches(w, j) /\ ~Polls(w, j) /\ DispatchState(j) = "active"
  BY <1>1, <1>3, <1>4, QuietStep, TwoEntries, Scene DEF JobQuiet, Once, Before, Dispatches, Polls, OnJob
<1>7. \A m \in Attempts \ {n} : post'[j][m] = "none"
  <2>1. \A m \in Attempts : post[j][m] = "none"
    BY <1>1, <1>3, <1>4, <1>6, QuietStep DEF JobQuiet, Once, Before
  <2> QED BY <1>3, <1>4, <2>1, QuietStep DEF Submit, AcceptPost, IInv, TypeOK
<1>8. RemoteState(j) = "absent"
  BY <1>1, <1>3, <1>4, <1>6, QuietStep DEF JobQuiet, HandOver, Saving, After
<1>9. HandOver(j)'
  BY <1>1, <1>3, <1>4, <1>5, <1>6, <1>8, QuietStep
     DEF JobQuiet, HandOver, DispatchState, RemoteState, Saving, After
<1>10. Once(j)'
  BY <1>3, <1>4, <1>5, <1>6, <1>7, QuietStep DEF JobQuiet, Once, DispatchState, Before, After
<1>11. RowsAgree(j)'
  BY <1>3, <1>4, <1>5, QuietStep DEF JobQuiet, RowsAgree, InTry, After
<1> QED BY <1>9, <1>10, <1>11 DEF JobQuiet

LEMMA QuietPoll ==
  ASSUME IInv, QInv, Quiet, NEW w \in Workers, NEW j \in Jobs, OnJob(w, j), Poll(w)
  PROVE  JobQuiet(j)'
<1> DEFINE answer == PollAnswer(Platform[JobOf(w)], post[JobOf(w)][worker[w].rid])
<1>1. worker[w] \in Run /\ worker[w].pc = "poll"
  BY DEF IInv, TypeOK, Poll, At
<1>2. worker'[w] = [worker[w] EXCEPT !.outcome = answer,
                      !.pc = IF answer = "WAITING_REMOTE" THEN "requeue" ELSE "saveAttempt"]
  BY StepFrame DEF IInv, Poll
<1> HIDE DEF answer
<1>3. /\ worker'[w].pc \in {"saveAttempt", "requeue"} /\ worker'[w].num = worker[w].num
      /\ worker'[w].pc = "saveAttempt" => worker'[w].outcome # "WAITING_REMOTE"
  BY <1>1, <1>2 DEF Run
<1>4. WorkerStep(w) /\ InTry(w) /\ worker'[w].pc # "idle"
  BY <1>1, <1>3 DEF WorkerStep, InTry
<1>5. UNCHANGED <<job, attempt, post, entry>>
  BY DEF Poll
<1>6. Dispatches(w, j) => RemoteState(j) = "absent"
  BY <1>1, <1>4, QuietStep DEF JobQuiet, HandOver, Saving, After
<1>7. HandOver(j)'
  BY <1>1, <1>3, <1>4, <1>5, <1>6, QuietStep
     DEF JobQuiet, HandOver, DispatchState, RemoteState, Saving, After
<1>8. Once(j)'
  BY <1>1, <1>3, <1>4, <1>5, QuietStep DEF JobQuiet, Once, DispatchState, Before
<1>9. RowsAgree(j)'
  BY <1>1, <1>3, <1>4, <1>5, QuietStep DEF JobQuiet, RowsAgree, InTry, After
<1> QED BY <1>7, <1>8, <1>9 DEF JobQuiet

(* The hand-over: the dispatch run adds the remote-status entry.  The add  *)
(* of a remote-status run is ignored, as its own entry is active.          *)
LEMMA QuietRequeue ==
  ASSUME IInv, QInv, Quiet, NEW w \in Workers, NEW j \in Jobs, OnJob(w, j), Requeue(w)
  PROVE  JobQuiet(j)'
<1>1. /\ worker[w] \in Run /\ worker[w].pc = "requeue" /\ worker[w].outcome = "WAITING_REMOTE"
      /\ entry' = Add(entry, RemoteEntry(j)) /\ entry \in [EntryIds -> Entry]
  BY DEF IInv, TypeOK, RunInv, Requeue, At, OnJob
<1>2. worker'[w] = [worker[w] EXCEPT !.pc = "saveAttempt"]
  BY StepFrame DEF IInv, Requeue
<1>3. /\ worker'[w].pc = "saveAttempt" /\ worker'[w].num = worker[w].num
      /\ worker'[w].outcome = "WAITING_REMOTE"
  BY <1>1, <1>2 DEF Run
<1>4. WorkerStep(w) /\ InTry(w) /\ worker'[w].pc # "idle"
  BY <1>1, <1>3 DEF WorkerStep, InTry
<1>5. UNCHANGED <<job, attempt, post>>
  BY DEF Requeue
<1>6. DispatchState(j)' = DispatchState(j)
  BY <1>1, TwoEntries DEF Add, DispatchState
<1>7. ASSUME Dispatches(w, j) PROVE HandOver(j)'
  <2>1. RemoteState(j) = "absent" /\ DispatchState(j) = "active" /\ ~Polls(w, j)
    BY <1>1, <1>4, <1>7, QuietStep, Scene, TwoEntries
       DEF JobQuiet, HandOver, Saving, After, OnJob, Dispatches, Polls
  <2>2. RemoteState(j)' = "waiting"
    BY <1>1, <2>1, TwoEntries DEF Add, Fresh, RemoteState
  <2>3. HandOver(j)'
    BY <1>1, <1>3, <1>4, <1>5, <1>6, <1>7, <2>1, <2>2, TwoEntries, QuietStep
       DEF JobQuiet, HandOver, Saving, After, QInv, QueueQuiet, Dispatches, OnJob
  <2> QED BY <2>3
<1>8. ASSUME Polls(w, j) PROVE HandOver(j)'
  <2>1. RemoteState(j) = "active" /\ ~Dispatches(w, j)
    BY <1>8, Scene, TwoEntries DEF OnJob, Dispatches, Polls
  <2>2. RemoteState(j)' = RemoteState(j)
    BY <1>1, <2>1 DEF Add, RemoteState
  <2>3. HandOver(j)'
    BY <1>1, <1>3, <1>4, <1>5, <1>6, <2>1, <2>2, QuietStep DEF JobQuiet, HandOver, Saving, After
  <2> QED BY <2>3
<1>9. HandOver(j)'
  BY <1>4, <1>7, <1>8, QuietStep
<1>10. Once(j)'
  BY <1>1, <1>3, <1>4, <1>5, <1>6, QuietStep DEF JobQuiet, Once, Before
<1>11. RowsAgree(j)'
  BY <1>1, <1>3, <1>4, <1>5, QuietStep DEF JobQuiet, RowsAgree, InTry, After
<1> QED BY <1>9, <1>10, <1>11 DEF JobQuiet

LEMMA QuietSaveAttempt ==
  ASSUME IInv, QInv, Quiet, NEW w \in Workers, NEW j \in Jobs, OnJob(w, j), SaveAttempt(w)
  PROVE  JobQuiet(j)'
<1> DEFINE n == worker[w].num
<1>1. worker[w] \in Run /\ worker[w].pc = "saveAttempt"
  BY DEF IInv, TypeOK, SaveAttempt, At
<1>2. worker'[w] = [worker[w] EXCEPT !.pc = "saveJob"]
  BY StepFrame DEF IInv, SaveAttempt
<1>3. /\ worker'[w].pc = "saveJob" /\ worker'[w].num = n
      /\ worker'[w].outcome = worker[w].outcome
  BY <1>1, <1>2 DEF Run
<1>4. WorkerStep(w) /\ InTry(w) /\ worker'[w].pc # "idle"
  BY <1>1, <1>3 DEF WorkerStep, InTry
<1>5. UNCHANGED <<job, post, entry>>
  BY DEF SaveAttempt
<1>6. attempt'[j][n] = worker[w].outcome /\ \A m \in Attempts \ {n} : attempt'[j][m] = attempt[j][m]
  BY <1>4, QuietStep DEF SaveAttempt, IInv, TypeOK
<1>7. HandOver(j)'
  BY <1>1, <1>3, <1>4, <1>5, QuietStep
     DEF JobQuiet, HandOver, DispatchState, RemoteState, Saving, After
<1>8. Once(j)'
  BY <1>1, <1>3, <1>4, <1>5, QuietStep DEF JobQuiet, Once, DispatchState, Before
<1>9. RowsAgree(j)'
  BY <1>1, <1>3, <1>4, <1>5, <1>6, QuietStep DEF JobQuiet, RowsAgree, InTry, After, JobRow, Attempts
<1> QED BY <1>7, <1>8, <1>9 DEF JobQuiet

LEMMA QuietSaveJob ==
  ASSUME IInv, QInv, Quiet, NEW w \in Workers, NEW j \in Jobs, OnJob(w, j), SaveJob(w)
  PROVE  JobQuiet(j)'
<1> DEFINE n == worker[w].num
<1>1. worker[w] \in Run /\ worker[w].pc = "saveJob"
  BY DEF IInv, TypeOK, SaveJob, At
<1>2. worker'[w] = [IdleWorker EXCEPT !.pc = "readJobs", !.entry = worker[w].entry]
  BY StepFrame DEF IInv, SaveJob, Settled
<1>3. worker'[w].pc = "readJobs"
  BY <1>2 DEF IdleWorker
<1>4. WorkerStep(w) /\ InTry(w) /\ worker'[w].pc # "idle"
  BY <1>1, <1>3 DEF WorkerStep, InTry
<1>5. UNCHANGED <<attempt, post, entry>>
  BY DEF SaveJob
<1>6. job'[j].status = worker[w].outcome /\ job'[j].attemptCount = job[j].attemptCount
  BY <1>4, QuietStep DEF SaveJob, StoreJob, IInv, TypeOK, JobRow
<1>7. /\ attempt[j][n] = worker[w].outcome /\ n = job[j].attemptCount /\ n # 0
  BY <1>1, <1>4, QuietStep DEF JobQuiet, RowsAgree, Attempts
<1>8. Polls(w, j) => RemoteState(j) = "active"
  BY Scene DEF OnJob
<1>9. HandOver(j)'
  <2>1. worker[w].outcome = "WAITING_REMOTE" => RemoteState(j) # "absent"
    BY <1>1, <1>4, QuietStep DEF JobQuiet, HandOver, Saving
  <2>2. RemoteState(j) = "waiting" => job'[j].status \in {"WAITING_REMOTE", "CANCELLED"}
    <3>1. RemoteState(j) = "waiting" => Dispatches(w, j)
      BY <1>4, <1>8, QuietStep
    <3>2. RemoteState(j) = "waiting" => worker[w].outcome = "WAITING_REMOTE"
      BY <1>1, <1>4, <3>1, QuietStep DEF JobQuiet, HandOver, Saving
    <3> QED BY <1>6, <3>2
  <2> QED
    BY <1>1, <1>3, <1>4, <1>5, <1>6, <2>1, <2>2, QuietStep
       DEF JobQuiet, HandOver, DispatchState, RemoteState, Saving, After
<1>10. Once(j)'
  BY <1>1, <1>3, <1>4, <1>5, QuietStep DEF JobQuiet, Once, DispatchState, Before
<1>11. RowsAgree(j)'
  BY <1>1, <1>3, <1>4, <1>5, <1>6, <1>7, QuietStep DEF JobQuiet, RowsAgree, InTry, After
<1> QED BY <1>9, <1>10, <1>11 DEF JobQuiet

LEMMA QuietFailAttempt ==
  ASSUME IInv, QInv, Quiet, NEW w \in Workers, NEW j \in Jobs, OnJob(w, j), FailAttempt(w)
  PROVE  JobQuiet(j)'
<1> DEFINE n == worker[w].num
<1>1. worker[w] \in Run /\ worker[w].pc = "failAttempt"
  BY DEF IInv, TypeOK, FailAttempt, At
<1>2. worker'[w] = [worker[w] EXCEPT !.pc = "failJob"]
  BY StepFrame DEF IInv, FailAttempt
<1>3. worker'[w].pc = "failJob" /\ worker'[w].num = n /\ worker'[w].kind = worker[w].kind
  BY <1>1, <1>2 DEF Run
<1>4. WorkerStep(w) /\ InTry(w) /\ worker'[w].pc # "idle"
  BY <1>1, <1>3 DEF WorkerStep, InTry
<1>5. UNCHANGED <<job, post, entry>>
  BY DEF FailAttempt
<1>6. /\ attempt'[j][n] = FailedStatus(worker[w].kind)
      /\ \A m \in Attempts \ {n} : attempt'[j][m] = attempt[j][m]
  BY <1>4, QuietStep DEF FailAttempt, IInv, TypeOK
<1>7. HandOver(j)'
  BY <1>1, <1>3, <1>4, <1>5, QuietStep
     DEF JobQuiet, HandOver, DispatchState, RemoteState, Saving, After
<1>8. Once(j)'
  BY <1>1, <1>3, <1>4, <1>5, QuietStep DEF JobQuiet, Once, DispatchState, Before
<1>9. RowsAgree(j)'
  BY <1>1, <1>3, <1>4, <1>5, <1>6, QuietStep DEF JobQuiet, RowsAgree, InTry, After, JobRow, Attempts
<1> QED BY <1>7, <1>8, <1>9 DEF JobQuiet

(* A failed run is a dispatch run that submitted nothing: throwing it back *)
(* to the queue does not lead to a second submission.                      *)
LEMMA QuietFailJob ==
  ASSUME IInv, QInv, Quiet, NEW w \in Workers, NEW j \in Jobs, OnJob(w, j), FailJob(w)
  PROVE  JobQuiet(j)'
<1> DEFINE n == worker[w].num
           failed == FailedStatus(worker[w].kind)
<1>1. /\ worker[w].pc = "failJob" /\ InTry(w) /\ WorkerStep(w)
      /\ UNCHANGED <<attempt, post>>
  BY DEF FailJob, At, InTry, WorkerStep
<1>2. /\ JobQuiet(j) /\ JobOf(w) = j /\ n \in Attempts /\ n = job[j].attemptCount
      /\ attempt[j][n] = failed
  BY <1>1, RunTypes, Scene DEF IInv, QInv, OnJob, JobQuiet, RowsAgree
<1>3. /\ Dispatches(w, j) /\ ~Polls(w, j) /\ DispatchState(j) = "active" /\ RemoteState(j) = "absent"
      /\ \A m \in Attempts : post[j][m] = "none"
  BY <1>1, <1>2, Scene DEF OnJob, JobQuiet, Once, HandOver, Saving, After
<1>4. \A v \in Workers \ {w} : OnJob(v, j) => worker[v].pc \in After
  BY <1>1, <1>2, Scene DEF OnJob, After
<1>5. \A v \in Workers : Dispatches(v, j) \/ Polls(v, j) => OnJob(v, j)
  BY DEF Dispatches, Polls
<1>6. \A v \in Workers : ~Polls(v, j)
  BY <1>3, Scene DEF OnJob, Polls
<1>7. job'[j].status = failed /\ job'[j].attemptCount = n
  BY <1>2 DEF FailJob, StoreJob, IInv, TypeOK, JobRow
<1>8. failed \in {"FAILED", "NEEDS_REAUTH"} /\ n # 0
  BY <1>2 DEF FailedStatus, Attempts
<1>9. CASE worker[w].kind = "transient"
  <2>1. worker'[w] = IdleWorker /\ entry' = Throw(entry, DispatchEntry(j), Tries(DispatchEntry(j)))
    BY <1>3, <1>9, StepFrame DEF IInv, FailJob, Rethrow, Dispatches
  <2>2. /\ \A v \in Workers \ {w} : worker'[v] = worker[v]
        /\ \A v \in Workers : /\ OnJob(v, j)' <=> OnJob(v, j) /\ v # w
                              /\ Dispatches(v, j)' <=> Dispatches(v, j) /\ v # w
                              /\ Polls(v, j)' <=> Polls(v, j) /\ v # w
    BY <1>1, <2>1, RunIsOver DEF IInv
  <2>3. RemoteState(j)' = "absent"
    BY <1>3, <2>1, TwoEntries DEF IInv, TypeOK, Throw, RemoteState
  <2>4. HandOver(j)'
    BY <1>4, <1>5, <1>6, <1>7, <1>8, <2>2, <2>3 DEF HandOver, Saving, After
  <2>5. Once(j)'
    BY <1>1, <1>3, <1>4, <1>5, <1>6, <2>2 DEF Once, Before, After
  <2>6. RowsAgree(j)'
    BY <1>1, <1>2, <1>4, <1>7, <1>8, <2>2 DEF JobQuiet, RowsAgree, InTry, After
  <2> QED BY <2>4, <2>5, <2>6 DEF JobQuiet
<1>10. CASE worker[w].kind # "transient"
  <2>1. worker'[w] = [IdleWorker EXCEPT !.pc = "readJobs", !.entry = worker[w].entry] /\ entry' = entry
    BY <1>10, StepFrame DEF IInv, FailJob, Settled
  <2>2. worker'[w].pc = "readJobs"
    BY <2>1 DEF IdleWorker
  <2>3. /\ \A v \in Workers \ {w} : worker'[v] = worker[v]
        /\ \A v \in Workers : /\ OnJob(v, j)' <=> OnJob(v, j)
                              /\ Dispatches(v, j)' <=> Dispatches(v, j)
                              /\ Polls(v, j)' <=> Polls(v, j)
    BY <1>1, <2>2, RunMoves DEF IInv, IdleWorker
  <2>4. HandOver(j)'
    BY <1>3, <1>4, <1>5, <1>6, <1>7, <1>8, <2>1, <2>2, <2>3
       DEF HandOver, Saving, After, DispatchState, RemoteState
  <2>5. Once(j)'
    BY <1>1, <1>3, <1>4, <1>5, <1>6, <2>1, <2>2, <2>3 DEF Once, Before, After
  <2>6. RowsAgree(j)'
    BY <1>1, <1>2, <1>4, <1>7, <1>8, <2>2, <2>3 DEF JobQuiet, RowsAgree, InTry, After
  <2> QED BY <2>4, <2>5, <2>6 DEF JobQuiet
<1> QED BY <1>9, <1>10

LEMMA QuietReadJobs ==
  ASSUME IInv, QInv, Quiet, NEW w \in Workers, NEW j \in Jobs, OnJob(w, j), ReadJobs(w)
  PROVE  JobQuiet(j)'
<1>1. worker[w] \in Run /\ worker[w].pc = "readJobs" /\ JobQuiet(j)
  BY DEF IInv, TypeOK, ReadJobs, At, QInv
<1>2. worker'[w] = [worker[w] EXCEPT !.pc = "saveDraft", !.next = DerivedStatus]
  BY StepFrame DEF IInv, ReadJobs
<1>3. worker'[w].pc = "saveDraft"
  BY <1>1, <1>2 DEF Run
<1>4. /\ \A v \in Workers \ {w} : worker'[v] = worker[v]
      /\ \A v \in Workers : /\ OnJob(v, j)' <=> OnJob(v, j)
                            /\ Dispatches(v, j)' <=> Dispatches(v, j)
                            /\ Polls(v, j)' <=> Polls(v, j)
  BY <1>3, RunMoves DEF IInv, WorkerStep, IdleWorker
<1>5. UNCHANGED <<job, attempt, post, entry>>
  BY DEF ReadJobs
<1>6. HandOver(j)'
  BY <1>1, <1>3, <1>4, <1>5 DEF JobQuiet, HandOver, DispatchState, RemoteState, Saving, After
<1>7. Once(j)'
  BY <1>1, <1>3, <1>4, <1>5 DEF JobQuiet, Once, DispatchState, Before
<1>8. RowsAgree(j)'
  BY <1>1, <1>3, <1>4, <1>5 DEF JobQuiet, RowsAgree, InTry, After
<1> QED BY <1>6, <1>7, <1>8 DEF JobQuiet

LEMMA QuietSaveDraft ==
  ASSUME IInv, QInv, Quiet, NEW w \in Workers, NEW j \in Jobs, OnJob(w, j), SaveDraft(w)
  PROVE  JobQuiet(j)'
<1>1. worker[w].pc = "saveDraft" /\ JobQuiet(j) /\ entry' = Complete(entry, worker[w].entry)
  BY DEF ReadJobs, At, QInv, SaveDraft
<1>2. worker'[w] = IdleWorker
  BY StepFrame DEF IInv, SaveDraft
<1>3. /\ \A v \in Workers \ {w} : worker'[v] = worker[v]
      /\ \A v \in Workers : /\ OnJob(v, j)' <=> OnJob(v, j) /\ v # w
                            /\ Dispatches(v, j)' <=> Dispatches(v, j) /\ v # w
                            /\ Polls(v, j)' <=> Polls(v, j) /\ v # w
  BY <1>2, RunIsOver DEF IInv, WorkerStep
<1>4. UNCHANGED <<job, attempt, post>>
  BY DEF SaveDraft
<1>5. \/ /\ Dispatches(w, j) /\ DispatchState(j) = "active"
         /\ DispatchState(j)' = "completed" /\ RemoteState(j)' = RemoteState(j)
      \/ /\ Polls(w, j) /\ RemoteState(j) = "active"
         /\ RemoteState(j)' = "completed" /\ DispatchState(j)' = DispatchState(j)
  BY <1>1, TwoEntries, Scene
     DEF OnJob, Dispatches, Polls, Complete, Done, DispatchState, RemoteState, IInv, TypeOK
<1>6. HandOver(j)'
  BY <1>1, <1>3, <1>4, <1>5 DEF JobQuiet, HandOver, Saving, After
<1>7. Once(j)'
  BY <1>1, <1>3, <1>4, <1>5 DEF JobQuiet, Once
<1>8. RowsAgree(j)'
  BY <1>1, <1>3, <1>4 DEF JobQuiet, RowsAgree, InTry, After
<1> QED BY <1>6, <1>7, <1>8 DEF JobQuiet

(* Dropping the entry of a finalized job leaves no run to hand over to. *)
LEMMA QuietSkip ==
  ASSUME IInv, QInv, Quiet, NEW w \in Workers, NEW e \in EntryIds, NEW j \in Jobs, e.job = j,
         SkipFinalized(w, e)
  PROVE  JobQuiet(j)'
<1>1. /\ JobQuiet(j) /\ entry' = Complete(entry, e) /\ entry[e].state = "waiting"
      /\ UNCHANGED <<job, attempt, post, worker>>
  BY DEF QInv, SkipFinalized, CanTake
<1>2. \/ /\ DispatchState(j) = "waiting"
         /\ DispatchState(j)' = "completed" /\ RemoteState(j)' = RemoteState(j)
      \/ /\ RemoteState(j) = "waiting"
         /\ RemoteState(j)' = "completed" /\ DispatchState(j)' = DispatchState(j)
  BY <1>1, TwoEntries DEF Complete, Done, DispatchState, RemoteState, IInv, TypeOK
<1>3. \A v \in Workers : /\ OnJob(v, j)' <=> OnJob(v, j)
                         /\ Dispatches(v, j)' <=> Dispatches(v, j)
                         /\ Polls(v, j)' <=> Polls(v, j)
  BY <1>1 DEF OnJob, Dispatches, Polls, Busy, JobOf
<1>4. HandOver(j)'
  BY <1>1, <1>2, <1>3 DEF JobQuiet, HandOver
<1>5. Once(j)'
  BY <1>1, <1>2, <1>3 DEF JobQuiet, Once
<1>6. RowsAgree(j)'
  BY <1>1, <1>3 DEF JobQuiet, RowsAgree, InTry
<1> QED BY <1>4, <1>5, <1>6 DEF JobQuiet

(* A dispatch entry is taken by one run, which submits nothing before; a   *)
(* remote-status entry, by one run that resumes the submission.            *)
LEMMA QuietFetch ==
  ASSUME IInv, QInv, Quiet, NEW w \in Workers, NEW e \in EntryIds, NEW j \in Jobs, e.job = j, Fetch(w, e)
  PROVE  JobQuiet(j)'
<1>1. /\ JobQuiet(j) /\ entry' = Take(entry, e) /\ entry[e].state = "waiting" /\ ~Busy(w)
      /\ UNCHANGED <<job, attempt, post>>
      /\ job[j].status \notin Finalized /\ DelayElapsed(e)
      /\ job[j] \in JobRow /\ job[j].attemptCount + 1 \in Attempts
  BY ConstantsAssumption DEF QInv, Fetch, CanTake, IInv, TypeOK, JobRow, Attempts, ConstantsAssumption
<1>2. worker'[w] = [IdleWorker EXCEPT !.pc = "markRunning", !.entry = e,
                      !.num = job[e.job].attemptCount + 1, !.rid = ResumedId(job[e.job])]
  BY StepFrame DEF IInv, Fetch
<1>3. /\ worker'[w].pc = "markRunning" /\ worker'[w].entry = e
      /\ worker'[w].num = job[j].attemptCount + 1 /\ worker'[w].rid = ResumedId(job[j])
  BY <1>2 DEF IdleWorker
<1>4. \A v \in Workers \ {w} : worker'[v] = worker[v]
  BY OthersStay DEF IInv, WorkerStep
<1>5. \A v \in Workers \ {w} : /\ OnJob(v, j)' <=> OnJob(v, j)
                               /\ Dispatches(v, j)' <=> Dispatches(v, j)
                               /\ Polls(v, j)' <=> Polls(v, j)
  BY <1>4 DEF OnJob, Dispatches, Polls, Busy, JobOf
<1>6. ~OnJob(w, j) /\ OnJob(w, j)' /\ ~Dispatches(w, j) /\ ~Polls(w, j)
  BY <1>1, <1>3 DEF OnJob, Dispatches, Polls, Busy, JobOf
<1>7. \A v \in Workers : OnJob(v, j) <=> Dispatches(v, j) \/ Polls(v, j)
  BY Scene DEF OnJob, Dispatches, Polls
<1>8. CASE e = DispatchEntry(j)
  <2>1. DispatchState(j) = "waiting" /\ DispatchState(j)' = "active" /\ RemoteState(j)' = RemoteState(j)
    BY <1>1, <1>8, TwoEntries DEF Take, DispatchState, RemoteState, IInv, TypeOK, Entry
  <2>2. RemoteState(j) = "absent" /\ \A m \in Attempts : post[j][m] = "none"
    BY <1>1, <2>1 DEF JobQuiet, HandOver, Once
  <2>3. \A v \in Workers : ~OnJob(v, j)
    BY <1>7, <2>1, <2>2, Scene DEF OnJob, Dispatches, Polls
  <2>4. Dispatches(w, j)' /\ ~Polls(w, j)'
    BY <1>3, <1>6, <1>8, TwoEntries DEF Dispatches, Polls
  <2>5. worker'[w].rid = 0
    BY <1>1, <1>3, <2>2 DEF ResumedId, JobQuiet, HandOver
  <2>6. \A v \in Workers : ~Polls(v, j)'
    BY <1>5, <1>7, <2>3, <2>4
  <2>7. HandOver(j)'
    BY <1>1, <1>3, <1>5, <1>7, <2>1, <2>2, <2>3, <2>4, <2>6 DEF JobQuiet, HandOver, Saving, After
  <2>8. Once(j)'
    BY <1>1, <1>3, <1>5, <1>7, <2>2, <2>3, <2>4, <2>5, <2>6 DEF Once, Before
  <2>9. RowsAgree(j)'
    BY <1>1, <1>3, <1>5, <1>6, <2>3 DEF JobQuiet, RowsAgree, InTry, After
  <2> QED BY <2>7, <2>8, <2>9 DEF JobQuiet
<1>9. CASE e = RemoteEntry(j)
  <2>1. RemoteState(j) = "waiting" /\ RemoteState(j)' = "active" /\ DispatchState(j)' = DispatchState(j)
    BY <1>1, <1>9, TwoEntries DEF Take, DispatchState, RemoteState, IInv, TypeOK, Entry
  <2>2. \A v \in Workers : ~Polls(v, j)
    BY <2>1, Scene DEF Polls, OnJob
  <2>3. \A v \in Workers : OnJob(v, j) => worker[v].pc \notin Saving
    BY <1>1, <1>9, QuietFaults, TwoEntries DEF DelayElapsed, OnJob, Saving
  <2>4. \A v \in Workers : OnJob(v, j) => worker[v].pc \in After
    BY <1>1, <1>7, <2>1, <2>2, <2>3 DEF JobQuiet, HandOver
  <2>5. job[j].status = "WAITING_REMOTE"
    BY <1>1, <1>7, <2>1, <2>3 DEF JobQuiet, HandOver, Finalized
  <2>6. worker'[w].rid # 0
    BY <1>3, <2>5 DEF ResumedId, IInv, WaitingIsPollable
  <2>7. ~Dispatches(w, j)' /\ Polls(w, j)'
    BY <1>3, <1>6, <1>9, TwoEntries DEF Dispatches, Polls
  <2>8. HandOver(j)'
    BY <1>1, <1>3, <1>4, <1>5, <1>7, <2>1, <2>4, <2>7 DEF JobQuiet, HandOver, Saving, After
  <2>9. Once(j)'
    BY <1>1, <1>3, <1>4, <1>5, <1>7, <2>1, <2>4, <2>6, <2>7 DEF JobQuiet, Once, Before, After
  <2>10. RowsAgree(j)'
    BY <1>1, <1>3, <1>4, <1>5, <1>6, <2>4 DEF JobQuiet, RowsAgree, InTry, After
  <2> QED BY <2>8, <2>9, <2>10 DEF JobQuiet
<1> QED BY <1>8, <1>9, TwoEntries

-----------------------------------------------------------------------------
(* The queues *)

(* Every entry is as busy as before. *)
LEMMA QueueKeeps ==
  ASSUME QueueQuiet, UNCHANGED <<client, sweep>>,
         \A w \in Workers : (Busy(w)' <=> Busy(w)) /\ worker'[w].entry = worker[w].entry,
         \A e \in EntryIds : /\ entry'[e].state = "active" <=> entry[e].state = "active"
                             /\ entry[e].state # "absent" => entry'[e].state # "absent",
         \A w \in Workers : Busy(w) => worker[w].entry \in EntryIds,
         \A p \in Processes : sweep[p].todo \subseteq Jobs
  PROVE  QueueQuiet'
BY EntryIdFacts DEF QueueQuiet, RemoteState

(* One more entry is active, and one more worker has it. *)
LEMMA QueueTakes ==
  ASSUME QueueQuiet, UNCHANGED <<client, sweep>>,
         NEW w \in Workers, ~Busy(w), Busy(w)', NEW e \in EntryIds, worker'[w].entry = e,
         \A v \in Workers \ {w} : worker'[v] = worker[v],
         entry[e].state = "waiting", entry'[e].state = "active",
         \A d \in EntryIds \ {e} : entry'[d] = entry[d],
         \A v \in Workers : Busy(v) => worker[v].entry \in EntryIds,
         \A p \in Processes : sweep[p].todo \subseteq Jobs
  PROVE  QueueQuiet'
<1>1. \A v \in Workers \ {w} : (Busy(v)' <=> Busy(v)) /\ (Busy(v) => worker[v].entry # e)
  BY DEF Busy, QueueQuiet
<1>2. worker[w].entry = None
  BY DEF QueueQuiet
<1> QED BY <1>1, <1>2, EntryIdFacts DEF QueueQuiet, RemoteState

(* One run is over, and its entry is no longer active. *)
LEMMA QueueEnds ==
  ASSUME QueueQuiet, UNCHANGED <<client, sweep>>,
         NEW w \in Workers, Busy(w), NEW e \in EntryIds, worker[w].entry = e, worker'[w] = IdleWorker,
         \A v \in Workers \ {w} : worker'[v] = worker[v],
         entry'[e].state \notin {"active", "absent"},
         \A d \in EntryIds \ {e} : entry'[d] = entry[d],
         \A v \in Workers : Busy(v) => worker[v].entry \in EntryIds,
         \A p \in Processes : sweep[p].todo \subseteq Jobs
  PROVE  QueueQuiet'
<1>1. \A v \in Workers \ {w} : (Busy(v)' <=> Busy(v)) /\ (Busy(v) => worker[v].entry # e)
  BY DEF Busy, QueueQuiet
<1>2. ~Busy(w)' /\ worker'[w].entry = None
  BY DEF Busy, IdleWorker
<1> QED BY <1>1, <1>2, EntryIdFacts DEF QueueQuiet, RemoteState

-----------------------------------------------------------------------------
(* The workers *)

(* What happens to job j does not happen to job i. *)
LEMMA Elsewhere ==
  ASSUME NEW w \in Workers, NEW j \in Jobs, NEW i \in Jobs \ {j}, JobQuiet(i),
         \A v \in Workers \ {w} : worker'[v] = worker[v],
         Busy(w) => JobOf(w) = j, Busy(w)' => worker'[w].entry.job = j,
         job'[i] = job[i], attempt'[i] = attempt[i], post'[i] = post[i],
         entry'[DispatchEntry(i)] = entry[DispatchEntry(i)], entry'[RemoteEntry(i)] = entry[RemoteEntry(i)]
  PROVE  JobQuiet(i)'
<1>1. \A v \in Workers : (OnJob(v, i)' <=> OnJob(v, i)) /\ (OnJob(v, i) => worker'[v] = worker[v])
  BY DEF OnJob, Busy, JobOf
<1> QED BY <1>1, JobFrame DEF SameJob, DispatchState, RemoteState

(* A run under way touches the rows, the post and the entries of its job. *)
LEMMA RunElsewhere ==
  ASSUME IInv, QInv, Quiet, NEW w \in Workers, Busy(w), WorkerStep(w), NEW i \in Jobs, i # JobOf(w)
  PROVE  JobQuiet(i)'
<1> DEFINE j == JobOf(w)
           n == worker[w].num
           e == worker[w].entry
<1>1. j \in Jobs /\ e \in EntryIds /\ e.job = j /\ JobQuiet(i)
  BY Scene DEF QInv, JobOf
<1>2. /\ \A v \in Workers \ {w} : worker'[v] = worker[v]
      /\ Busy(w)' => worker'[w].entry.job = j
  BY OthersStay, EntryKept DEF IInv, Busy, JobOf, IdleWorker
<1>3. \A d \in EntryIds : ~SkipFinalized(w, d) /\ ~Fetch(w, d)
  BY DEF SkipFinalized, Fetch, CanTake
<1>4. job'[i] = job[i]
  <2>1. UNCHANGED job \/ \E row : StoreJob(j, row)
    BY <1>3 DEF WorkerStep, MarkRunning, CreateAttempt, DuplicateAttempt, Refuse, ResumePoll, Submit, Poll,
                Requeue, SaveAttempt, SaveJob, FailAttempt, FailJob, ReadJobs, SaveDraft
  <2> QED BY <2>1 DEF StoreJob, IInv, TypeOK
<1>5. attempt'[i] = attempt[i]
  <2>1. UNCHANGED attempt \/ \E s : attempt' = [attempt EXCEPT ![j][n] = s]
    BY <1>3 DEF WorkerStep, MarkRunning, CreateAttempt, DuplicateAttempt, Refuse, ResumePoll, Submit, Poll,
                Requeue, SaveAttempt, SaveJob, FailAttempt, FailJob, ReadJobs, SaveDraft
  <2> QED BY <2>1 DEF IInv, TypeOK
<1>6. post'[i] = post[i]
  <2>1. UNCHANGED post \/ \E s : post' = [post EXCEPT ![j][n] = s]
    BY <1>3 DEF WorkerStep, MarkRunning, CreateAttempt, DuplicateAttempt, Refuse, ResumePoll, Submit, Poll,
                Requeue, SaveAttempt, SaveJob, FailAttempt, FailJob, ReadJobs, SaveDraft, AcceptPost
  <2> QED BY <2>1 DEF IInv, TypeOK
<1>7. entry'[DispatchEntry(i)] = entry[DispatchEntry(i)] /\ entry'[RemoteEntry(i)] = entry[RemoteEntry(i)]
  <2>1. \/ UNCHANGED entry
        \/ entry' = Add(entry, RemoteEntry(j))
        \/ entry' = Complete(entry, e)
        \/ entry' = Throw(entry, e, Tries(e))
    BY <1>3 DEF WorkerStep, MarkRunning, CreateAttempt, DuplicateAttempt, Refuse, ResumePoll, Submit, Poll,
                Requeue, SaveAttempt, SaveJob, FailAttempt, FailJob, ReadJobs, SaveDraft, Rethrow
  <2>2. RemoteEntry(j) \in EntryIds /\ {DispatchEntry(i), RemoteEntry(i)} \subseteq EntryIds \ {RemoteEntry(j), e}
    BY <1>1, TwoEntries
  <2>3. \A d \in EntryIds \ {RemoteEntry(j), e} : entry'[d] = entry[d]
    BY <1>1, <2>1, <2>2 DEF Add, Complete, Throw, IInv, TypeOK
  <2> QED BY <2>2, <2>3
<1> QED BY <1>1, <1>2, <1>4, <1>5, <1>6, <1>7, Elsewhere

(* What a run under way does to its own job. *)
LEMMA RunQuiet ==
  ASSUME IInv, QInv, Quiet, NEW w \in Workers, Busy(w), WorkerStep(w), NEW j \in Jobs, j = JobOf(w)
  PROVE  JobQuiet(j)'
<1>1. OnJob(w, j)
  BY DEF OnJob
<1>2. \A d \in EntryIds : ~SkipFinalized(w, d) /\ ~Fetch(w, d)
  BY DEF SkipFinalized, Fetch, CanTake
<1> QED
  BY <1>1, <1>2, QuietMarkRunning, QuietCreateAttempt, QuietNeverTwice, QuietRefuse, QuietResumePoll,
     QuietSubmit, QuietPoll, QuietRequeue, QuietSaveAttempt, QuietSaveJob, QuietFailAttempt, QuietFailJob,
     QuietReadJobs, QuietSaveDraft DEF WorkerStep

(* What a run under way does to the queues. *)
LEMMA RunQueue ==
  ASSUME IInv, QInv, Quiet, NEW w \in Workers, Busy(w), WorkerStep(w)
  PROVE  QueueQuiet'
<1>1. /\ QueueQuiet /\ UNCHANGED <<client, sweep>> /\ entry \in [EntryIds -> Entry]
      /\ \A v \in Workers : Busy(v) => worker[v].entry \in EntryIds
      /\ \A p \in Processes : sweep[p].todo \subseteq Jobs
      /\ \A v \in Workers \ {w} : worker'[v] = worker[v]
  BY WorkerFrame, OthersStay DEF QInv, IInv, TypeOK, RunInv, Busy, Sweep
<1>2. \A d \in EntryIds : ~SkipFinalized(w, d) /\ ~Fetch(w, d)
  BY DEF SkipFinalized, Fetch, CanTake
<1>3. worker[w].entry \in EntryIds /\ Tries(worker[w].entry) \in Nat /\ entry[worker[w].entry].state = "active"
  BY <1>1, EntryIdFacts DEF QueueQuiet
<1>4. CASE SaveDraft(w) \/ Rethrow(w)
  <2>1. worker'[w] = IdleWorker
    BY <1>4, StepFrame DEF IInv, SaveDraft, Rethrow
  <2>2. entry' = Complete(entry, worker[w].entry) \/ entry' = Throw(entry, worker[w].entry, Tries(worker[w].entry))
    BY <1>4 DEF SaveDraft, Rethrow
  <2>3. /\ entry'[worker[w].entry].state \notin {"active", "absent"}
        /\ \A d \in EntryIds \ {worker[w].entry} : entry'[d] = entry[d]
    BY <1>1, <1>3, <2>2 DEF Complete, Throw, Done
  <2> QED BY <1>1, <1>3, <2>1, <2>3, QueueEnds
<1>5. CASE ~SaveDraft(w) /\ ~Rethrow(w)
  <2>1. \A v \in Workers : (Busy(v)' <=> Busy(v)) /\ worker'[v].entry = worker[v].entry
    BY <1>1, <1>5, EntryKept DEF IInv, Busy
  <2>2. UNCHANGED entry \/ entry' = Add(entry, RemoteEntry(JobOf(w)))
    BY <1>2, <1>5
       DEF WorkerStep, MarkRunning, CreateAttempt, DuplicateAttempt, Refuse, ResumePoll, Submit, Poll,
           Requeue, SaveAttempt, SaveJob, FailAttempt, FailJob, ReadJobs
  <2>3. RemoteEntry(JobOf(w)) \in EntryIds
    BY Scene, TwoEntries
  <2>4. \A d \in EntryIds : /\ entry'[d].state = "active" <=> entry[d].state = "active"
                            /\ entry[d].state # "absent" => entry'[d].state # "absent"
    BY <1>1, <2>2, <2>3 DEF Add, Fresh
  <2> QED BY <1>1, <2>1, <2>4, QueueKeeps
<1> QED BY <1>4, <1>5

(* A run begins or goes on. *)
LEMMA WorkerQuiet ==
  ASSUME IInv, QInv, Quiet, NEW w \in Workers, WorkerStep(w)
  PROVE  QInv'
<1>1. /\ QueueQuiet /\ UNCHANGED <<client, sweep>> /\ entry \in [EntryIds -> Entry]
      /\ \A v \in Workers : Busy(v) => worker[v].entry \in EntryIds
      /\ \A p \in Processes : sweep[p].todo \subseteq Jobs
      /\ \A v \in Workers \ {w} : worker'[v] = worker[v]
      /\ \A j \in Jobs : JobQuiet(j)
  BY WorkerFrame, OthersStay DEF QInv, IInv, TypeOK, RunInv, Busy, Sweep
<1>2. CASE Busy(w)
  <2>1. \A i \in Jobs : JobQuiet(i)'
    BY <1>2, RunElsewhere, RunQuiet
  <2> QED BY <1>2, <2>1, RunQueue DEF QInv
<1>3. ASSUME NEW e \in EntryIds, Fetch(w, e) PROVE QInv'
  <2>1. /\ e.job \in Jobs /\ entry' = Take(entry, e) /\ entry[e].state = "waiting" /\ ~Busy(w)
        /\ UNCHANGED <<job, attempt, post>>
    BY <1>3, TwoEntries DEF Fetch, CanTake
  <2>2. worker'[w].entry = e /\ Busy(w)'
    <3>1. worker'[w] = [IdleWorker EXCEPT !.pc = "markRunning", !.entry = e,
                          !.num = job[e.job].attemptCount + 1, !.rid = ResumedId(job[e.job])]
      BY <1>3, StepFrame DEF IInv, Fetch
    <3> QED BY <3>1 DEF IdleWorker, Busy
  <2>3. entry'[e].state = "active" /\ \A d \in EntryIds \ {e} : entry'[d] = entry[d]
    BY <1>1, <2>1 DEF Take, Entry
  <2>4. QueueQuiet'
    BY <1>1, <2>1, <2>2, <2>3, QueueTakes
  <2>5. ASSUME NEW i \in Jobs \ {e.job} PROVE JobQuiet(i)'
    <3>1. {DispatchEntry(i), RemoteEntry(i)} \subseteq EntryIds \ {e}
      BY <2>1, TwoEntries
    <3> QED BY <1>1, <2>1, <2>2, <2>3, <3>1, Elsewhere
  <2>6. JobQuiet(e.job)'
    <3> DEFINE j == e.job
    <3> HIDE DEF j
    <3>1. JobQuiet(j)'
      BY <1>3, <2>1, QuietFetch DEF j
    <3> QED BY <3>1 DEF j
  <2> QED BY <2>4, <2>5, <2>6 DEF QInv
<1>4. ASSUME NEW e \in EntryIds, SkipFinalized(w, e) PROVE QInv'
  <2>1. /\ e.job \in Jobs /\ entry' = Complete(entry, e) /\ entry[e].state = "waiting" /\ ~Busy(w)
        /\ UNCHANGED <<job, attempt, post, worker>>
    BY <1>4, TwoEntries DEF SkipFinalized, CanTake
  <2>2. entry'[e].state = "completed" /\ \A d \in EntryIds \ {e} : entry'[d] = entry[d]
    BY <1>1, <2>1 DEF Complete, Done
  <2>3. QueueQuiet'
    BY <1>1, <2>1, <2>2, QueueKeeps DEF Busy
  <2>4. ASSUME NEW i \in Jobs \ {e.job} PROVE JobQuiet(i)'
    <3>1. {DispatchEntry(i), RemoteEntry(i)} \subseteq EntryIds \ {e}
      BY <2>1, TwoEntries
    <3>2. ~Busy(w)'
      BY <2>1 DEF Busy
    <3> QED BY <1>1, <2>1, <2>2, <3>1, <3>2, Elsewhere
  <2>5. JobQuiet(e.job)'
    <3> DEFINE j == e.job
    <3> HIDE DEF j
    <3>1. JobQuiet(j)'
      BY <1>4, <2>1, QuietSkip DEF j
    <3> QED BY <3>1 DEF j
  <2> QED BY <2>3, <2>4, <2>5 DEF QInv
<1>5. Busy(w) \/ \E e \in EntryIds : SkipFinalized(w, e) \/ Fetch(w, e)
  BY DEF WorkerStep, MarkRunning, CreateAttempt, DuplicateAttempt, Refuse, ResumePoll, Submit, AcceptPost,
         Poll, Requeue, SaveAttempt, SaveJob, FailAttempt, FailJob, ReadJobs, SaveDraft, At, Busy
<1> QED BY <1>2, <1>3, <1>4, <1>5

-----------------------------------------------------------------------------
(* Everybody else *)

(* A sweep adds a dispatch entry that was lost, never a remote-status one. *)
LEMMA SweepQuiet ==
  ASSUME IInv, QInv, Quiet, NEW p \in Processes, SweepStep(p)
  PROVE  QInv'
<1>1. UNCHANGED <<job, attempt, post, worker, client>>
  BY SweepFrame
<1>2. /\ QueueQuiet /\ entry \in [EntryIds -> Entry] /\ \A j \in Jobs : JobQuiet(j)
      /\ sweep \in [Processes -> Sweep]
      /\ \A v \in Workers : Busy(v) => worker[v].entry \in EntryIds
  BY DEF QInv, IInv, TypeOK, RunInv, Busy
<1>3. \A v \in Workers : Busy(v)' <=> Busy(v)
  BY <1>1 DEF Busy
<1>4. ASSUME NEW j \in Jobs, AddDispatch(p, j) PROVE QInv'
  <2>1. /\ DispatchEntry(j) \in EntryIds /\ \A d \in EntryIds \ {DispatchEntry(j)} : entry'[d] = entry[d]
        /\ DispatchState(j) # "absent" => UNCHANGED entry
        /\ DispatchState(j) = "absent" => DispatchState(j)' = "waiting"
    BY <1>2, <1>4, TwoEntries DEF AddDispatch, Add, Fresh, DispatchState
  <2>2. \A e \in EntryIds : /\ entry'[e].state = "active" <=> entry[e].state = "active"
                            /\ entry[e].state # "absent" => entry'[e].state # "absent"
    BY <2>1 DEF DispatchState
  <2>3. sweep'[p].pc = "dispatch" /\ \A q \in Processes \ {p} : sweep'[q] = sweep[q]
    BY <1>2, <1>4 DEF AddDispatch, Sweep
  <2>4. QueueQuiet'
    <3>1. \A q \in Processes, i \in Jobs : sweep'[q].pc = "remote" /\ i \in sweep'[q].todo => RemoteState(i)' # "absent"
      BY <1>2, <2>2, <2>3, EntryIdFacts DEF QueueQuiet, RemoteState
    <3>2. \A q \in Processes : sweep'[q].pc = "remote" => sweep'[q].todo \subseteq Jobs
      BY <1>2, <2>3 DEF Sweep
    <3> QED BY <1>1, <1>2, <1>3, <2>2, <3>1, <3>2 DEF QueueQuiet
  <2>5. ASSUME NEW i \in Jobs PROVE JobQuiet(i)'
    <3>1. \A v \in Workers : /\ OnJob(v, i)' <=> OnJob(v, i)
                             /\ Dispatches(v, i)' <=> Dispatches(v, i)
                             /\ Polls(v, i)' <=> Polls(v, i)
      BY <1>1 DEF OnJob, Dispatches, Polls, Busy, JobOf
    <3>2. RemoteState(i)' = RemoteState(i)
      BY <2>1, TwoEntries DEF RemoteState
    <3>3. DispatchState(i)' = DispatchState(i) \/ (DispatchState(i) = "absent" /\ DispatchState(i)' = "waiting")
      <4>1. CASE i = j
        BY <2>1, <4>1 DEF DispatchState
      <4>2. CASE i # j
        BY <2>1, <4>2, TwoEntries DEF DispatchState
      <4> QED BY <4>1, <4>2
    <3>4. HandOver(i)'
      BY <1>1, <1>2, <3>1, <3>2, <3>3 DEF JobQuiet, HandOver
    <3>5. Once(i)'
      BY <1>1, <1>2, <3>1, <3>3 DEF JobQuiet, Once
    <3>6. RowsAgree(i)'
      BY <1>1, <1>2, <3>1 DEF JobQuiet, RowsAgree, InTry
    <3> QED BY <3>4, <3>5, <3>6 DEF JobQuiet
  <2> QED BY <2>4, <2>5 DEF QInv
<1>5. ASSUME UNCHANGED entry,
             \A q \in Processes : sweep'[q].pc = "remote" => \A j \in sweep'[q].todo : RemoteState(j) # "absent"
      PROVE  QInv'
  <2>1. \A j \in Jobs : SameJob(j)
    BY <1>1, <1>5 DEF SameJob, OnJob, Busy, JobOf, DispatchState, RemoteState
  <2>2. QueueQuiet'
    BY <1>1, <1>2, <1>3, <1>5 DEF QueueQuiet, RemoteState
  <2> QED BY <1>2, <2>1, <2>2, JobFrame DEF QInv
<1>6. ASSUME SweepQueued(p) PROVE QInv'
  <2>1. sweep'[p].pc = "dispatch" /\ UNCHANGED entry /\ \A q \in Processes \ {p} : sweep'[q] = sweep[q]
    BY <1>2, <1>6 DEF SweepQueued, Sweep
  <2> QED BY <1>2, <1>5, <2>1 DEF QueueQuiet
<1>7. ASSUME SweepWaiting(p) PROVE QInv'
  <2>1. /\ sweep'[p].todo = {j \in Jobs : job[j].status = "WAITING_REMOTE"}
        /\ UNCHANGED entry /\ \A q \in Processes \ {p} : sweep'[q] = sweep[q]
    BY <1>2, <1>7 DEF SweepWaiting, Sweep
  <2>2. \A j \in sweep'[p].todo : RemoteState(j) # "absent"
    BY <1>2, <2>1 DEF JobQuiet, HandOver
  <2> QED BY <1>2, <1>5, <2>1, <2>2 DEF QueueQuiet
<1>8. ASSUME NEW j \in Jobs, AddRemote(p, j) PROVE QInv'
  <2>1. RemoteState(j) # "absent"
    BY <1>2, <1>8 DEF AddRemote, QueueQuiet
  <2>2. /\ UNCHANGED entry
        /\ \A q \in Processes \ {p} : sweep'[q] = sweep[q]
        /\ sweep'[p].pc = sweep[p].pc /\ sweep'[p].todo = sweep[p].todo \ {j}
    BY <1>2, <1>8, <2>1 DEF AddRemote, Add, RemoteState, Sweep
  <2> QED BY <1>2, <1>5, <2>2 DEF QueueQuiet
<1> QED BY <1>4, <1>6, <1>7, <1>8 DEF SweepStep

(* Of the API's requests only a cancellation gets to write a row. *)
LEMMA ClientQuiet ==
  ASSUME IInv, QInv, Quiet, NEW c \in Clients, ClientStep(c)
  PROVE  QInv'
<1>1. UNCHANGED <<attempt, post, worker, sweep>>
  BY ClientFrame
<1>2. /\ QueueQuiet /\ client[c] \in ApiRequest /\ client[c].pc \notin {"retry", "enqueue"}
      /\ \A j \in Jobs : JobQuiet(j)
      /\ MaxRetries = 0
  BY DEF QInv, QueueQuiet, IInv, TypeOK, Quiet
<1>3. /\ UNCHANGED entry
      /\ UNCHANGED job \/ CancelWrite(c)
      /\ client'[c].pc \notin {"retry", "enqueue"} /\ \A d \in Clients \ {c} : client'[d] = client[d]
  <2>1. PICK new : Request(c, new) /\ new.pc \notin {"retry", "enqueue"}
    <3>1. IdleClient.pc = "idle" /\ \A k \in Jobs : [IdleClient EXCEPT !.pc = "cancel", !.job = k].pc = "cancel"
      BY DEF IdleClient
    <3>2. /\ [client[c] EXCEPT !.pc = "readJobs"].pc = "readJobs"
          /\ [client[c] EXCEPT !.pc = "saveDraft", !.next = DerivedStatus].pc = "saveDraft"
      BY <1>2 DEF ApiRequest
    <3> QED
      BY <1>2, <3>1, <3>2, NoFreeRetries
         DEF ClientStep, CancelCheck, RetryCheck, CancelWrite, CancelReadJobs,
             CancelSaveDraft, RetryWrite, RetryEnqueue, RetryEnqueueSkipped
  <2>2. client'[c].pc \notin {"retry", "enqueue"} /\ \A d \in Clients \ {c} : client'[d] = client[d]
    BY <2>1 DEF Request, IInv, TypeOK
  <2> QED
    BY <1>2, <2>2
       DEF ClientStep, CancelCheck, RetryCheck, CancelWrite, CancelReadJobs, CancelSaveDraft,
           RetryWrite, RetryEnqueue, RetryEnqueueSkipped
<1>4. QueueQuiet'
  BY <1>1, <1>2, <1>3 DEF QueueQuiet, Busy, RemoteState
<1>5. ASSUME NEW j \in Jobs PROVE JobQuiet(j)'
  <2>1. CASE job'[j] = job[j]
    BY <1>1, <1>2, <1>3, <2>1, JobFrame DEF SameJob, OnJob, Busy, JobOf, DispatchState, RemoteState
  <2>2. CASE job'[j] # job[j]
    <3>1. job'[j].status = "CANCELLED" /\ job'[j].attemptCount = job[j].attemptCount
      BY <1>3, <2>2 DEF CancelWrite, StoreJob, IInv, TypeOK, JobRow, ClientInv
    <3>2. \A v \in Workers : /\ OnJob(v, j)' <=> OnJob(v, j)
                             /\ Dispatches(v, j)' <=> Dispatches(v, j)
                             /\ Polls(v, j)' <=> Polls(v, j)
      BY <1>1 DEF OnJob, Dispatches, Polls, Busy, JobOf
    <3>3. HandOver(j)'
      BY <1>1, <1>2, <1>3, <3>1, <3>2 DEF JobQuiet, HandOver, DispatchState, RemoteState
    <3>4. Once(j)'
      BY <1>1, <1>2, <1>3, <3>2 DEF JobQuiet, Once, DispatchState
    <3>5. RowsAgree(j)'
      BY <1>1, <1>2, <3>1, <3>2 DEF JobQuiet, RowsAgree, InTry
    <3> QED BY <3>3, <3>4, <3>5 DEF JobQuiet
  <2> QED BY <2>1, <2>2
<1> QED BY <1>4, <1>5 DEF QInv

(* The platform settles posts it has; no lock runs out. *)
LEMMA EnvironmentQuiet ==
  ASSUME IInv, QInv, Quiet, Environment
  PROVE  QInv'
<1>1. ASSUME NEW e \in EntryIds, StallEntry(e) PROVE FALSE
  BY <1>1 DEF StallEntry, QInv, QueueQuiet
<1>2. PICK i \in Jobs, n \in Attempts : FinishProcessing(i, n) \/ Settle(i, n)
  BY <1>1, QuietFaults DEF Environment
<1>3. UNCHANGED <<job, attempt, entry, worker, client, sweep>>
  BY <1>2 DEF FinishProcessing, Settle
<1>4. \A j \in Jobs, m \in Attempts : post'[j][m] = "none" <=> post[j][m] = "none"
  <2>1. PICK s : post' = [post EXCEPT ![i][n] = s] /\ s # "none" /\ post[i][n] # "none"
    BY <1>2 DEF FinishProcessing, Settle, Outcomes
  <2> QED BY <2>1 DEF IInv, TypeOK
<1>5. ASSUME NEW j \in Jobs PROVE JobQuiet(j)'
  <2>1. \A v \in Workers : /\ OnJob(v, j)' <=> OnJob(v, j)
                           /\ Dispatches(v, j)' <=> Dispatches(v, j)
                           /\ Polls(v, j)' <=> Polls(v, j)
    BY <1>3 DEF OnJob, Dispatches, Polls, Busy, JobOf
  <2>2. HandOver(j)'
    BY <1>3, <2>1 DEF QInv, JobQuiet, HandOver, DispatchState, RemoteState
  <2>3. Once(j)'
    BY <1>3, <1>4, <2>1 DEF QInv, JobQuiet, Once, DispatchState
  <2>4. RowsAgree(j)'
    BY <1>3, <2>1 DEF QInv, JobQuiet, RowsAgree, InTry
  <2> QED BY <2>2, <2>3, <2>4 DEF JobQuiet
<1>6. QueueQuiet'
  BY <1>3 DEF QInv, QueueQuiet, Busy, RemoteState
<1> QED BY <1>5, <1>6 DEF QInv

(* Nothing has been taken yet. *)
LEMMA InitQuiet ==
  ASSUME Init, Quiet
  PROVE  QInv
<1>1. \A w \in Workers : ~Busy(w) /\ worker[w].entry = None
  BY DEF Init, Busy, IdleWorker
<1>2. \A e \in EntryIds : entry[e].state \in {"absent", "waiting"} /\ (e.kind = "remote" => entry[e].state = "absent")
  BY DEF Init, Fresh, Absent
<1>3. QueueQuiet
  BY <1>1, <1>2 DEF Init, IdleClient, IdleSweep, QueueQuiet
<1>4. ASSUME NEW j \in Jobs PROVE JobQuiet(j)
  <2>1. RemoteState(j) = "absent"
    BY <1>2, TwoEntries DEF RemoteState
  <2>2. HandOver(j)
    BY <1>1, <2>1 DEF Init, HandOver, OnJob, Dispatches, Polls
  <2>3. Once(j)
    BY <1>1 DEF Init, Once, OnJob, Dispatches, Polls
  <2>4. RowsAgree(j)
    BY <1>1 DEF Init, RowsAgree, OnJob
  <2> QED BY <2>2, <2>3, <2>4 DEF JobQuiet
<1> QED BY <1>3, <1>4 DEF QInv

(* Nobody moves. *)
LEMMA StutterQuiet ==
  ASSUME IInv, QInv, UNCHANGED vars
  PROVE  QInv'
<1>1. \A j \in Jobs : SameJob(j)
  BY DEF vars, SameJob, OnJob, Busy, JobOf, DispatchState, RemoteState
<1>2. QueueQuiet'
  BY DEF vars, QInv, QueueQuiet, Busy, RemoteState
<1> QED BY <1>1, <1>2, JobFrame DEF QInv

LEMMA QuietStays ==
  ASSUME IInv, QInv, Quiet, [Next]_vars
  PROVE  QInv'
BY WorkerQuiet, SweepQuiet, ClientQuiet, EnvironmentQuiet, StutterQuiet, QuietFaults DEF Next

(* How the two queues hand a job over. *)
THEOREM QuietOperation == Quiet => (Spec => []QInv)
<1> SUFFICES ASSUME Quiet PROVE Spec => []QInv
  OBVIOUS
<1>1. Init => QInv
  BY InitQuiet
<1>2. IInv /\ QInv /\ [Next]_vars => QInv'
  BY QuietStays
<1> QED BY <1>1, <1>2, Invariance, PTL DEF Spec

(* Quiet operation submits a job to its platform once, however many worker *)
(* processes, sweeps, polls and cancellations overlap, and however many    *)
(* tries BullMQ gives an entry.                                            *)
THEOREM QuietAtMostOnce == Quiet => (Spec => []AtMostOnce)
<1>1. ASSUME QInv PROVE AtMostOnce
  <2> SUFFICES ASSUME NEW j \in Jobs
               PROVE  Cardinality({n \in Attempts : post[j][n] \in {"processing", "processed", "live"}}) <= 1
    BY DEF AtMostOnce
  <2> DEFINE Live == {n \in Attempts : post[j][n] \in {"processing", "processed", "live"}}
  <2>1. \A m, n \in Live : m = n
    BY <1>1 DEF QInv, JobQuiet, Once
  <2>2. Live = {} \/ \E n \in Live : Live = {n}
    BY <2>1
  <2> HIDE DEF Live
  <2>3. Live = {} => Cardinality(Live) = 0
    BY FS_EmptySet
  <2>4. \A n : Live = {n} => Cardinality(Live) = 1
    BY FS_Singleton
  <2>5. Cardinality(Live) = 0 \/ Cardinality(Live) = 1
    BY <2>2, <2>3, <2>4
  <2>6. Cardinality(Live) <= 1
    BY <2>5
  <2> QED BY <2>6 DEF Live
<1> QED BY <1>1, QuietOperation, PTL

(* In quiet operation the row of a job no run holds and nobody cancelled   *)
(* is what the last of its attempts says.                                  *)
THEOREM QuietRowsMatch == Quiet => (Spec => []JobMatchesLastAttempt)
<1>1. ASSUME QInv PROVE JobMatchesLastAttempt
  BY <1>1 DEF QInv, JobQuiet, RowsAgree, JobMatchesLastAttempt, Unattended, OnJob
<1> QED BY <1>1, QuietOperation, PTL
=============================================================================

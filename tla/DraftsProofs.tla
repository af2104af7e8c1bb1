---------------------------- MODULE DraftsProofs ----------------------------
(***************************************************************************)
(* Proofs about Drafts, for any number of drafts, requests and jobs, any   *)
(* platforms and any choice of operations.                                 *)
(*                                                                         *)
(* The invariant follows a job from its creation: Jobs of nobody are not   *)
(* queued, asked never exceeds the instant in the row or in the entry, and *)
(* Knows says what a request in the middle of its loop has made sure of.   *)
(***************************************************************************)
EXTENDS Drafts, JobQueueProofs

(* Between the search for open jobs and the report of success. *)
Cancelling == {"cancelCheck", "cancelWrite", "readJobs", "sync", "cancelled"}

(* Where a request holds neither a job nor a set of jobs. *)
Plain == RequestPC \ (Cancelling \cup {"idle", "enqueue", "moveJob"})

Knows(q) ==
  /\ q.pc # "idle" => q.draft # 0
  /\ q.pc \notin Cancelling => q.found = {}
  /\ q.pc \notin Cancelling \cup {"moveJob"} => q.jobs = {}
  /\ q.pc \in Cancelling => q.jobs \subseteq q.found
  /\ q.pc = "cancelled" => q.jobs = {}
  /\ q.pc \in {"enqueue", "cancelWrite"} => q.job # 0
  /\ q.pc = "enqueue" => job[q.job].draft # 0 /\ job[q.job].asked <= q.at
  /\ q.pc \in {"cancelWrite", "readJobs", "sync"} /\ q.job # 0 => q.job \in q.found
  /\ q.pc \in {"readJobs", "sync"} /\ q.job # 0 => job[q.job].status # "QUEUED"
  /\ \A j \in q.found : job[j].draft # 0
  /\ \A j \in q.found \ q.jobs : job[j].status # "QUEUED"

(* A row that is still free is not queued. *)
FreeRows ==
  \A j \in Jobs : job[j].draft = 0 => job[j].status # "QUEUED" /\ entry[j].state = "absent"

(* Nothing fires before the earliest instant asked for. *)
NotEarly ==
  /\ \A j \in Jobs : job[j].asked <= job[j].runAt
  /\ \A j \in Jobs : entry[j].state = "waiting" => job[j].asked <= due[j]

WorkerHasJob == worker.pc # "idle" => worker.job # 0 /\ job[worker.job].draft # 0

IInv ==
  /\ TypeOK
  /\ \A r \in Requests : Knows(request[r])
  /\ FreeRows
  /\ NotEarly
  /\ WorkerHasJob
  /\ OneJobPerReading

-----------------------------------------------------------------------------
(* Types. *)

LEMMA Types ==
  ASSUME TypeOK
  PROVE  /\ draft \in [DraftIds -> DraftRow] /\ schedule \in [Schedules -> ScheduleRow]
         /\ job \in [Jobs -> JobRow] /\ entry \in [Jobs -> Entry]
         /\ due \in [Jobs -> Instants \cup {0}] /\ request \in [Requests -> Request]
         /\ made \in 0 .. MaxRequests /\ MaxRequests \in Nat
         /\ now \in Instants /\ now \in Nat /\ MaxTime \in Nat
         /\ Instants \subseteq Nat /\ 0 \notin Jobs /\ 0 \notin DraftIds /\ Jobs \subseteq Nat
BY DraftsAssumption DEF TypeOK, Instants, Jobs, DraftIds

LEMMA IdleFacts ==
  /\ IdleRequest \in Request /\ IdleRequest.pc = "idle" /\ IdleRequest.found = {}
  /\ IdleRequest.jobs = {} /\ IdleRequest.job = 0
BY DEF IdleRequest, Request, RequestPC, DraftStatus

LEMMA DerivedType == \A d : DerivedStatus(d) \in DraftStatus
BY DEF DerivedStatus, ResolveDraftStatus, DraftStatus

LEMMA GoFacts ==
  ASSUME TypeOK, NEW r \in Requests, NEW new \in Request, Go(r, new)
  PROVE  /\ request' \in [Requests -> Request] /\ request'[r] = new
         /\ \A b \in Requests \ {r} : request'[b] = request[b]
BY DEF TypeOK, Go

(* A row of a draft that exists is written. *)
LEMMA WriteType ==
  ASSUME TypeOK, NEW d \in DraftIds, NEW row \in DraftRow, WriteDraft(d, row)
  PROVE  draft' \in [DraftIds -> DraftRow]
<1> DEFINE version == draft[d].version + 1
           new == [row EXCEPT !.version = version]
<1>1. draft \in [DraftIds -> DraftRow] /\ draft' = [draft EXCEPT ![d] = new]
  BY Types DEF WriteDraft
<1>2. version \in Nat
  BY <1>1 DEF DraftRow
<1>3. new \in DraftRow
  <2> HIDE DEF version
  <2> QED BY <1>2 DEF DraftRow
<1> HIDE DEF new
<1> QED BY <1>1, <1>3

LEMMA StatusType ==
  ASSUME TypeOK, NEW d \in DraftIds, NEW status \in DraftStatus, SetDraftStatus(d, status)
  PROVE  draft' \in [DraftIds -> DraftRow]
<1> DEFINE row == [draft[d] EXCEPT !.status = status]
<1>1. row \in DraftRow
  BY Types DEF DraftRow
<1>2. WriteDraft(d, row)
  BY DEF SetDraftStatus
<1> HIDE DEF row
<1> QED BY <1>1, <1>2, WriteType

-----------------------------------------------------------------------------
(* Steps of a request that leave the jobs alone. *)

LEMMA RequestInv ==
  ASSUME IInv, NEW r \in Requests, NEW new \in Request, Go(r, new), Knows(new),
         UNCHANGED <<now, job, entry, due, worker>>,
         (draft \in [DraftIds -> DraftRow])', (schedule \in [Schedules -> ScheduleRow])',
         (made \in 0 .. MaxRequests)'
  PROVE  IInv'
<1>1. /\ request' \in [Requests -> Request] /\ request'[r] = new
      /\ \A b \in Requests \ {r} : request'[b] = request[b]
  BY GoFacts DEF IInv
<1>2. TypeOK'
  BY <1>1 DEF IInv, TypeOK
<1>3. \A b \in Requests : Knows(request[b])'
  BY <1>1 DEF IInv, Knows
<1>4. FreeRows' /\ NotEarly' /\ WorkerHasJob' /\ OneJobPerReading'
  BY DEF IInv, FreeRows, NotEarly, WorkerHasJob, OneJobPerReading
<1> QED BY <1>2, <1>3, <1>4 DEF IInv

(* The request ends, or fails. *)
LEMMA FinishInv ==
  ASSUME IInv, NEW r \in Requests, Finish(r), UNCHANGED <<now, job, entry, due, worker, made>>,
         (draft \in [DraftIds -> DraftRow])', (schedule \in [Schedules -> ScheduleRow])'
  PROVE  IInv'
<1>1. Knows(IdleRequest)
  BY IdleFacts DEF Knows, Cancelling
<1>2. (made \in 0 .. MaxRequests)'
  BY DEF IInv, TypeOK
<1> QED BY <1>1, <1>2, IdleFacts, RequestInv DEF Finish

(* The request goes from one plain step to the next. *)
LEMMA PlainInv ==
  ASSUME IInv, NEW r \in Requests, request[r].pc \in Plain,
         NEW new \in Request, Go(r, new),
         new.pc \in Plain \/ (new.pc = "readJobs" /\ new.job = 0),
         new.draft = request[r].draft, new.found = request[r].found, new.jobs = request[r].jobs,
         UNCHANGED <<now, job, entry, due, worker, made>>,
         (draft \in [DraftIds -> DraftRow])', (schedule \in [Schedules -> ScheduleRow])'
  PROVE  IInv'
<1>1. new.draft # 0 /\ new.found = {} /\ new.jobs = {}
  BY DEF IInv, Knows, Plain, Cancelling
<1>2. Knows(new)
  BY <1>1 DEF Knows, Plain, Cancelling
<1>3. (made \in 0 .. MaxRequests)'
  BY DEF IInv, TypeOK
<1> QED BY <1>2, <1>3, RequestInv

LEMMA BeginInv ==
  ASSUME IInv, NEW r \in Requests, NEW op, NEW base \in Request, Begin(r, op, base),
         base.pc \in Plain, base.draft # 0, base.found = {}, base.jobs = {},
         UNCHANGED <<now, job, entry, due, worker>>,
         (draft \in [DraftIds -> DraftRow])', (schedule \in [Schedules -> ScheduleRow])'
  PROVE  IInv'
<1> DEFINE new == [base EXCEPT !.op = op]
<1>1. Go(r, new) /\ op \in AllOperations /\ made' = r /\ r \in 0 .. MaxRequests
  BY DraftsAssumption DEF Begin, Requests
<1>2. /\ new \in Request /\ new.pc = base.pc /\ new.draft = base.draft
      /\ new.found = base.found /\ new.jobs = base.jobs
  BY <1>1 DEF Request
<1> HIDE DEF new
<1>3. Knows(new)
  BY <1>2 DEF Knows, Plain, Cancelling
<1> QED BY <1>1, <1>2, <1>3, RequestInv

(* The locals of a request at a plain step. *)
LEMMA AtPlain ==
  ASSUME IInv, NEW r \in Requests, request[r].pc \in Plain
  PROVE  /\ request[r] \in Request /\ request[r].draft \in DraftIds
         /\ request[r].at \in Instants \cup {0} /\ request[r].todo \subseteq Platforms
         /\ request[r].hint \subseteq Platforms /\ request[r].platform \in Platforms \cup {None}
         /\ request[r].version \in Nat /\ request[r].sched \in Schedules \cup {0}
         /\ request[r].job \in Jobs \cup {0}
<1>1. request[r] \in Request /\ request[r].pc # "idle"
  BY DEF IInv, TypeOK, Plain
<1>2. request[r].draft # 0
  BY <1>1 DEF IInv, Knows
<1> QED BY <1>1, <1>2 DEF Request

-----------------------------------------------------------------------------
(* What users call. *)

LEMMA CreateInv ==
  ASSUME IInv, NEW r \in Requests, NEW d \in DraftIds, NEW platforms \in SUBSET Platforms,
         NEW at \in Instants \cup {0}, Create(r, d, platforms, at)
  PROVE  IInv'
<1> DEFINE row == [status |-> "DRAFT", version |-> 0, scheduledAt |-> at, targets |-> {},
                   hint |-> platforms]
           base == [IdleRequest EXCEPT !.pc = "addTarget", !.draft = d, !.todo = platforms, !.at = at]
<1>1. /\ draft' = [draft EXCEPT ![d] = row] /\ Begin(r, "create", base)
      /\ UNCHANGED <<now, schedule, job, entry, due, worker>>
  BY DEF Create
<1>2. row \in DraftRow
  BY DEF DraftRow, DraftStatus
<1>3. base \in Request /\ base.pc = "addTarget" /\ base.draft = d /\ base.found = {} /\ base.jobs = {}
  <2>1. "addTarget" \in RequestPC
    BY DEF RequestPC
  <2> HIDE DEF IdleRequest
  <2> QED BY <2>1, IdleFacts DEF Request
<1>4. "addTarget" \in Plain /\ d # 0
  BY DEF Plain, RequestPC, Cancelling, DraftIds
<1> HIDE DEF row, base
<1>5. (draft \in [DraftIds -> DraftRow])' /\ (schedule \in [Schedules -> ScheduleRow])'
  BY <1>1, <1>2, Types DEF IInv
<1> QED BY <1>1, <1>3, <1>4, <1>5, BeginInv

LEMMA UpdatePlatformsInv ==
  ASSUME IInv, NEW r \in Requests, NEW d \in DraftIds, NEW platforms \in SUBSET Platforms,
         UpdatePlatforms(r, d, platforms)
  PROVE  IInv'
<1> DEFINE base == [IdleRequest EXCEPT !.pc = "targets", !.draft = d, !.todo = platforms,
                                       !.hint = platforms]
<1>1. Begin(r, "update", base) /\ UNCHANGED <<now, draft, schedule, job, entry, due, worker>>
  BY DEF UpdatePlatforms
<1>2. base \in Request /\ base.pc = "targets" /\ base.draft = d /\ base.found = {} /\ base.jobs = {}
  <2>1. "targets" \in RequestPC
    BY DEF RequestPC
  <2> HIDE DEF IdleRequest
  <2> QED BY <2>1, IdleFacts DEF Request
<1>3. "targets" \in Plain /\ d # 0
  BY DEF Plain, RequestPC, Cancelling, DraftIds
<1> HIDE DEF base
<1> QED BY <1>1, <1>2, <1>3, BeginInv, Types DEF IInv

LEMMA UpdateRowInv ==
  ASSUME IInv, NEW r \in Requests, NEW d \in DraftIds, NEW at \in Instants \cup {0},
         UpdateRow(r, d, at)
  PROVE  IInv'
<1> DEFINE hint == PlatformsOf(draft[d])
           base == [IdleRequest EXCEPT !.pc = "row", !.draft = d, !.at = at, !.hint = hint]
<1>1. Begin(r, "update", base) /\ UNCHANGED <<now, draft, schedule, job, entry, due, worker>>
  BY DEF UpdateRow
<1>2. hint \subseteq Platforms
  BY Types DEF IInv, PlatformsOf, DraftRow
<1>3. base \in Request /\ base.pc = "row" /\ base.draft = d /\ base.found = {} /\ base.jobs = {}
  <2>1. "row" \in RequestPC
    BY DEF RequestPC
  <2> HIDE DEF IdleRequest, hint
  <2> QED BY <1>2, <2>1, IdleFacts DEF Request
<1>4. "row" \in Plain /\ d # 0
  BY DEF Plain, RequestPC, Cancelling, DraftIds
<1> HIDE DEF base
<1> QED BY <1>1, <1>3, <1>4, BeginInv, Types DEF IInv

LEMMA DuplicateInv ==
  ASSUME IInv, NEW r \in Requests, NEW d \in DraftIds, NEW copy \in DraftIds,
         Duplicate(r, d, copy)
  PROVE  IInv'
<1> DEFINE hint == draft[d].hint
           todo == draft[d].targets
           row == [status |-> "DRAFT", version |-> 0, scheduledAt |-> 0, targets |-> {}, hint |-> hint]
           pc == IF todo = {} THEN "readiness" ELSE "addTarget"
           base == [IdleRequest EXCEPT !.draft = copy, !.todo = todo, !.pc = pc]
<1>1. /\ draft' = [draft EXCEPT ![copy] = row] /\ Begin(r, "duplicate", base)
      /\ UNCHANGED <<now, schedule, job, entry, due, worker>>
  BY DEF Duplicate
<1>2. hint \subseteq Platforms /\ todo \subseteq Platforms
  BY Types DEF IInv, DraftRow
<1>3. row \in DraftRow
  <2> HIDE DEF hint
  <2> QED BY <1>2 DEF DraftRow, DraftStatus
<1>4. base \in Request /\ base.pc = pc /\ base.draft = copy /\ base.found = {} /\ base.jobs = {}
  <2>1. pc \in RequestPC
    BY DEF RequestPC
  <2> HIDE DEF IdleRequest, pc, todo
  <2> QED BY <1>2, <2>1, IdleFacts DEF Request
<1>5. pc \in Plain /\ copy # 0
  BY DEF Plain, RequestPC, Cancelling, DraftIds
<1> HIDE DEF row, base, pc
<1>6. (draft \in [DraftIds -> DraftRow])' /\ (schedule \in [Schedules -> ScheduleRow])'
  BY <1>1, <1>3, Types DEF IInv
<1> QED BY <1>1, <1>4, <1>5, <1>6, BeginInv

LEMMA PublishNowInv ==
  ASSUME IInv, NEW r \in Requests, NEW d \in DraftIds, PublishNow(r, d)
  PROVE  IInv'
<1> DEFINE base == [IdleRequest EXCEPT !.pc = "ready", !.draft = d]
<1>1. Begin(r, "publishNow", base) /\ UNCHANGED <<now, draft, schedule, job, entry, due, worker>>
  BY DEF PublishNow
<1>2. base \in Request /\ base.pc = "ready" /\ base.draft = d /\ base.found = {} /\ base.jobs = {}
  <2>1. "ready" \in RequestPC
    BY DEF RequestPC
  <2> HIDE DEF IdleRequest
  <2> QED BY <2>1, IdleFacts DEF Request
<1>3. "ready" \in Plain /\ d # 0
  BY DEF Plain, RequestPC, Cancelling, DraftIds
<1> HIDE DEF base
<1> QED BY <1>1, <1>2, <1>3, BeginInv, Types DEF IInv

LEMMA ScheduleDraftInv ==
  ASSUME IInv, NEW r \in Requests, NEW d \in DraftIds, NEW at \in Instants, ScheduleDraft(r, d, at)
  PROVE  IInv'
<1> DEFINE base == [IdleRequest EXCEPT !.pc = "addSchedule", !.draft = d, !.at = at]
<1>1. Begin(r, "schedule", base) /\ UNCHANGED <<now, draft, schedule, job, entry, due, worker>>
  BY DEF ScheduleDraft
<1>2. base \in Request /\ base.pc = "addSchedule" /\ base.draft = d /\ base.found = {} /\ base.jobs = {}
  <2>1. "addSchedule" \in RequestPC
    BY DEF RequestPC
  <2> HIDE DEF IdleRequest
  <2> QED BY <2>1, IdleFacts DEF Request
<1>3. "addSchedule" \in Plain /\ d # 0
  BY DEF Plain, RequestPC, Cancelling, DraftIds
<1> HIDE DEF base
<1> QED BY <1>1, <1>2, <1>3, BeginInv, Types DEF IInv

LEMMA CancelInv ==
  ASSUME IInv, NEW r \in Requests, NEW d \in DraftIds, Cancel(r, d)
  PROVE  IInv'
<1> DEFINE base == [IdleRequest EXCEPT !.pc = "findOpen", !.draft = d]
<1>1. /\ Begin(r, "cancel", base) /\ UNCHANGED <<now, draft, job, entry, due, worker>>
      /\ schedule' = [s \in Schedules |->
           IF schedule[s].draft = d THEN [schedule[s] EXCEPT !.cancelled = TRUE] ELSE schedule[s]]
  BY DEF Cancel
<1>2. base \in Request /\ base.pc = "findOpen" /\ base.draft = d /\ base.found = {} /\ base.jobs = {}
  <2>1. "findOpen" \in RequestPC
    BY DEF RequestPC
  <2> HIDE DEF IdleRequest
  <2> QED BY <2>1, IdleFacts DEF Request
<1>3. "findOpen" \in Plain /\ d # 0
  BY DEF Plain, RequestPC, Cancelling, DraftIds
<1> HIDE DEF base
<1>4. schedule' \in [Schedules -> ScheduleRow]
  BY <1>1, Types DEF IInv, ScheduleRow
<1>5. draft' \in [DraftIds -> DraftRow]
  BY <1>1, Types DEF IInv
<1> QED BY <1>1, <1>2, <1>3, <1>4, <1>5, BeginInv

LEMMA RescheduleInv ==
  ASSUME IInv, NEW r \in Requests, NEW d \in DraftIds, NEW at \in Instants, Reschedule(r, d, at)
  PROVE  IInv'
<1>1. PICK s \in ActiveSchedules(d) :
        Begin(r, "reschedule", [IdleRequest EXCEPT !.pc = "move", !.draft = d, !.at = at, !.sched = s])
  BY DEF Reschedule
<1> DEFINE base == [IdleRequest EXCEPT !.pc = "move", !.draft = d, !.at = at, !.sched = s]
<1>2. Begin(r, "reschedule", base) /\ UNCHANGED <<now, draft, schedule, job, entry, due, worker>>
  BY <1>1 DEF Reschedule
<1>3. base \in Request /\ base.pc = "move" /\ base.draft = d /\ base.found = {} /\ base.jobs = {}
  <2>1. "move" \in RequestPC /\ s \in Schedules
    BY DEF RequestPC, ActiveSchedules
  <2> HIDE DEF IdleRequest
  <2> QED BY <2>1, IdleFacts DEF Request
<1>4. "move" \in Plain /\ d # 0
  BY DEF Plain, RequestPC, Cancelling, DraftIds
<1> HIDE DEF base
<1> QED BY <1>2, <1>3, <1>4, BeginInv, Types DEF IInv

LEMMA ArchiveInv ==
  ASSUME IInv, NEW r \in Requests, NEW d \in DraftIds, Archive(r, d)
  PROVE  IInv'
<1>1. draft' \in [DraftIds -> DraftRow]
  BY StatusType DEF IInv, Archive, DraftStatus
<1>2. UNCHANGED <<now, schedule, job, entry, due, worker, request>> /\ made' \in 0 .. MaxRequests
  BY Types DEF IInv, Archive, Requests
<1>3. TypeOK'
  BY <1>1, <1>2 DEF IInv, TypeOK
<1> QED BY <1>2, <1>3
       DEF IInv, Knows, FreeRows, NotEarly, WorkerHasJob, OneJobPerReading

LEMMA CallInv ==
  ASSUME IInv, NEW r \in Requests, Call(r)
  PROVE  IInv'
BY CreateInv, UpdatePlatformsInv, UpdateRowInv, DuplicateInv, PublishNowInv, ScheduleDraftInv,
   CancelInv, RescheduleInv, ArchiveInv DEF Call

-----------------------------------------------------------------------------
(* Requests that go on without touching a job. *)

LEMMA PlainSteps ==
  /\ {"targets", "addTarget", "row", "readiness", "validate", "ready", "addSchedule", "readDraft",
      "find", "create", "scheduled", "findOpen", "move", "findQueued", "moved"} \subseteq Plain
  /\ Plain \subseteq RequestPC /\ Cancelling \subseteq RequestPC
  /\ "enqueue" \in RequestPC /\ "moveJob" \in RequestPC
BY DEF Plain, RequestPC, Cancelling

LEMMA TargetsInv ==
  ASSUME IInv, NEW r \in Requests, ClearTargets(r) \/ \E p \in Platforms : AddTarget(r, p)
  PROVE  IInv'
<1> DEFINE d == request[r].draft
<1>1. CASE ClearTargets(r)
  <2> DEFINE pc == IF request[r].todo = {} THEN "row" ELSE "addTarget"
             new == [request[r] EXCEPT !.pc = pc]
  <2>1. /\ request[r].pc \in Plain /\ Go(r, new) /\ draft' = [draft EXCEPT ![d].targets = {}]
        /\ UNCHANGED <<now, schedule, job, entry, due, worker, made>>
    BY <1>1, PlainSteps DEF ClearTargets, ReqAt
  <2>2. request[r] \in Request /\ d \in DraftIds /\ pc \in Plain /\ pc \in RequestPC
    BY <2>1, AtPlain, PlainSteps
  <2>3. /\ new \in Request /\ new.pc = pc /\ new.draft = d /\ new.found = request[r].found
        /\ new.jobs = request[r].jobs
    <3> HIDE DEF pc
    <3> QED BY <2>2 DEF Request
  <2> HIDE DEF new, pc
  <2>4. draft' \in [DraftIds -> DraftRow] /\ schedule' \in [Schedules -> ScheduleRow]
    BY <2>1, <2>2, Types DEF IInv, DraftRow
  <2> QED BY <2>1, <2>2, <2>3, <2>4, PlainInv
<1>2. ASSUME NEW p \in Platforms, AddTarget(r, p) PROVE IInv'
  <2> DEFINE todo == request[r].todo \ {p}
             pc == IF request[r].todo # {p} THEN "addTarget"
                   ELSE IF request[r].op = "update" THEN "row" ELSE "readiness"
             new == [request[r] EXCEPT !.todo = todo, !.pc = pc]
  <2>1. /\ request[r].pc \in Plain /\ Go(r, new)
        /\ draft' = draft \/ draft' = [draft EXCEPT ![d].targets = @ \cup {p}]
        /\ UNCHANGED <<now, schedule, job, entry, due, worker, made>>
    BY <1>2, PlainSteps DEF AddTarget, AfterTarget, ReqAt
  <2>2. request[r] \in Request /\ d \in DraftIds /\ pc \in Plain /\ pc \in RequestPC /\ todo \subseteq Platforms
    BY <2>1, AtPlain, PlainSteps
  <2>3. /\ new \in Request /\ new.pc = pc /\ new.draft = d /\ new.found = request[r].found
        /\ new.jobs = request[r].jobs
    <3> HIDE DEF pc, todo
    <3> QED BY <2>2 DEF Request
  <2> HIDE DEF new, pc
  <2>4. draft' \in [DraftIds -> DraftRow] /\ schedule' \in [Schedules -> ScheduleRow]
    BY <2>1, <2>2, Types DEF IInv, DraftRow
  <2> QED BY <2>1, <2>2, <2>3, <2>4, PlainInv
<1> QED BY <1>1, <1>2

(* Only the step changes, and what a step writes into the row is typed. *)
LEMMA RowStepsInv ==
  ASSUME IInv, NEW r \in Requests, SaveRow(r) \/ SaveReadiness(r) \/ MarkReady(r) \/ ScheduleCreated(r)
  PROVE  IInv'
<1> DEFINE d == request[r].draft
<1>1. /\ request[r].pc \in Plain /\ UNCHANGED <<now, schedule, job, entry, due, worker, made>>
      /\ request[r] \in Request /\ d \in DraftIds
      /\ schedule' \in [Schedules -> ScheduleRow] /\ draft[d] \in DraftRow
  <2>1. request[r].pc \in Plain /\ UNCHANGED <<now, schedule, job, entry, due, worker, made>>
    BY PlainSteps DEF SaveRow, SaveReadiness, MarkReady, ScheduleCreated, ReqAt
  <2> QED BY <2>1, AtPlain, Types DEF IInv
<1>2. CASE SaveRow(r)
  <2> DEFINE new == [request[r] EXCEPT !.pc = "readiness"]
             hint == request[r].hint
             at == request[r].at
             row == [draft[d] EXCEPT !.hint = hint, !.scheduledAt = IF at = 0 THEN @ ELSE at]
  <2>1. Go(r, new) /\ WriteDraft(d, row)
    BY <1>2 DEF SaveRow
  <2>2. row \in DraftRow
    <3>1. hint \subseteq Platforms /\ at \in Instants \cup {0}
      BY <1>1, AtPlain
    <3> HIDE DEF hint, at
    <3> QED BY <1>1, <3>1 DEF DraftRow
  <2>3. /\ new \in Request /\ new.pc = "readiness" /\ new.draft = d /\ new.found = request[r].found
        /\ new.jobs = request[r].jobs
    BY <1>1, PlainSteps DEF Request
  <2> HIDE DEF new, row
  <2>4. draft' \in [DraftIds -> DraftRow]
    BY <1>1, <2>1, <2>2, WriteType DEF IInv
  <2> QED BY <1>1, <2>1, <2>3, <2>4, PlainSteps, PlainInv
<1>3. CASE SaveReadiness(r)
  <2>1. draft' \in [DraftIds -> DraftRow]
    BY <1>1, <1>3, StatusType DEF IInv, SaveReadiness, DraftStatus
  <2>2. CASE Finish(r)
    BY <1>1, <2>1, <2>2, FinishInv
  <2>3. CASE Go(r, [request[r] EXCEPT !.pc = "validate"])
    <3> DEFINE new == [request[r] EXCEPT !.pc = "validate"]
    <3>1. /\ new \in Request /\ new.pc = "validate" /\ new.draft = d /\ new.found = request[r].found
          /\ new.jobs = request[r].jobs
      BY <1>1, PlainSteps DEF Request
    <3>2. Go(r, new)
      BY <2>3
    <3> HIDE DEF new
    <3> QED BY <1>1, <2>1, <3>1, <3>2, PlainSteps, PlainInv
  <2> QED BY <1>3, <2>2, <2>3 DEF SaveReadiness
<1>4. CASE MarkReady(r)
  <2> DEFINE new == [request[r] EXCEPT !.pc = "readDraft", !.at = now]
  <2>1. Go(r, new) /\ draft' \in [DraftIds -> DraftRow]
    BY <1>1, <1>4, StatusType DEF IInv, MarkReady, DraftStatus
  <2>2. /\ new \in Request /\ new.pc = "readDraft" /\ new.draft = d /\ new.found = request[r].found
        /\ new.jobs = request[r].jobs
    BY <1>1, PlainSteps, Types DEF IInv, Request
  <2> HIDE DEF new
  <2> QED BY <1>1, <2>1, <2>2, PlainSteps, PlainInv
<1>5. CASE ScheduleCreated(r)
  <2> DEFINE new == [request[r] EXCEPT !.pc = "addSchedule"]
  <2>1. Go(r, new) /\ draft' \in [DraftIds -> DraftRow]
    BY <1>5, Types DEF IInv, ScheduleCreated
  <2>2. /\ new \in Request /\ new.pc = "addSchedule" /\ new.draft = d /\ new.found = request[r].found
        /\ new.jobs = request[r].jobs
    BY <1>1, PlainSteps DEF Request
  <2> HIDE DEF new
  <2> QED BY <1>1, <2>1, <2>2, PlainSteps, PlainInv
<1> QED BY <1>2, <1>3, <1>4, <1>5

LEMMA AddScheduleInv ==
  ASSUME IInv, NEW r \in Requests, AddSchedule(r)
  PROVE  IInv'
<1> DEFINE d == request[r].draft
           at == request[r].at
           row == [draft |-> d, at |-> at, cancelled |-> FALSE]
<1>1. PICK s \in FreeSchedules :
        /\ schedule' = [schedule EXCEPT ![s] = row]
        /\ Go(r, [request[r] EXCEPT !.pc = "readDraft", !.sched = s])
  BY DEF AddSchedule
<1>2. request[r].pc \in Plain /\ UNCHANGED <<now, draft, job, entry, due, worker, made>>
  BY PlainSteps DEF AddSchedule, ReqAt
<1>3. request[r] \in Request /\ d \in DraftIds /\ at \in Instants \cup {0} /\ s \in Schedules
  BY <1>2, AtPlain DEF FreeSchedules
<1> DEFINE new == [request[r] EXCEPT !.pc = "readDraft", !.sched = s]
<1>4. /\ new \in Request /\ new.pc = "readDraft" /\ new.draft = d /\ new.found = request[r].found
      /\ new.jobs = request[r].jobs
  BY <1>3, PlainSteps DEF Request
<1>5. row \in ScheduleRow
  <2> HIDE DEF d, at
  <2> QED BY <1>3 DEF ScheduleRow
<1>6. Go(r, new)
  BY <1>1
<1> HIDE DEF new, row
<1>7. schedule' \in [Schedules -> ScheduleRow] /\ draft' \in [DraftIds -> DraftRow]
  BY <1>1, <1>2, <1>5, Types DEF IInv
<1> QED BY <1>2, <1>4, <1>6, <1>7, PlainSteps, PlainInv

LEMMA ReadDraftInv ==
  ASSUME IInv, NEW r \in Requests, ReadDraft(r)
  PROVE  IInv'
<1> DEFINE d == request[r].draft
           platforms == ResolvePlatforms(draft[d])
           version == draft[d].version
           new == [request[r] EXCEPT !.pc = "find", !.todo = platforms, !.version = version]
<1>1. /\ request[r].pc \in Plain /\ UNCHANGED <<now, draft, schedule, job, entry, due, worker, made>>
      /\ Go(r, new)
  BY PlainSteps DEF ReadDraft, ReqAt
<1>2. request[r] \in Request /\ d \in DraftIds /\ platforms \subseteq Platforms /\ version \in Nat
  BY <1>1, AtPlain, Types DEF IInv, ResolvePlatforms, DraftRow
<1>3. /\ new \in Request /\ new.pc = "find" /\ new.draft = d /\ new.found = request[r].found
      /\ new.jobs = request[r].jobs
  <2> HIDE DEF platforms, version
  <2> QED BY <1>2, PlainSteps DEF Request
<1> HIDE DEF new
<1>4. schedule' \in [Schedules -> ScheduleRow] /\ draft' \in [DraftIds -> DraftRow]
  BY <1>1, Types DEF IInv
<1> QED BY <1>1, <1>3, <1>4, PlainSteps, PlainInv

(* Where the loop over the platforms goes on. *)
LEMMA NextPlatformFacts ==
  ASSUME TypeOK, NEW r \in Requests, NEW p
  PROVE  LET new == NextPlatform(r, p)
         IN  /\ new \in Request /\ (new.pc \in Plain \/ new.pc = "readJobs")
             /\ new.job = 0 /\ new.draft = request[r].draft
             /\ new.found = request[r].found /\ new.jobs = request[r].jobs
<1> DEFINE todo == request[r].todo \ {p}
           pc == IF request[r].todo # {p} THEN "find"
                 ELSE IF request[r].op = "publishNow" THEN "readJobs" ELSE "scheduled"
           new == [request[r] EXCEPT !.todo = todo, !.platform = None, !.job = 0, !.pc = pc]
<1>1. request[r] \in Request
  BY DEF TypeOK
<1>2. pc \in Plain \/ pc = "readJobs"
  BY PlainSteps
<1>3. pc \in RequestPC /\ todo \subseteq Platforms /\ None \in Platforms \cup {None}
  BY <1>1, PlainSteps DEF Request, Cancelling
<1>4. NextPlatform(r, p) = new
  BY DEF NextPlatform
<1> HIDE DEF todo, pc
<1>5. /\ new \in Request /\ new.pc = pc /\ new.job = 0 /\ new.draft = request[r].draft
      /\ new.found = request[r].found /\ new.jobs = request[r].jobs
  BY <1>1, <1>3 DEF Request
<1> HIDE DEF new
<1> QED BY <1>2, <1>4, <1>5

LEMMA NextPlatformInv ==
  ASSUME IInv, NEW r \in Requests, NEW p, Go(r, NextPlatform(r, p)), request[r].pc \in Plain,
         UNCHANGED <<now, draft, schedule, job, entry, due, worker, made>>
  PROVE  IInv'
<1> DEFINE new == NextPlatform(r, p)
<1>1. /\ new \in Request /\ (new.pc \in Plain \/ (new.pc = "readJobs" /\ new.job = 0))
      /\ new.draft = request[r].draft
      /\ new.found = request[r].found /\ new.jobs = request[r].jobs
  BY NextPlatformFacts DEF IInv
<1> HIDE DEF new
<1>2. draft' \in [DraftIds -> DraftRow] /\ schedule' \in [Schedules -> ScheduleRow] /\ Go(r, new)
  BY Types DEF IInv, new
<1> QED BY <1>1, <1>2, PlainInv

LEMMA FindJobInv ==
  ASSUME IInv, NEW r \in Requests, NEW p \in Platforms, FindJob(r, p)
  PROVE  IInv'
<1>1. /\ request[r].pc \in Plain /\ UNCHANGED <<now, draft, schedule, job, entry, due, worker, made>>
  BY PlainSteps DEF FindJob, ReqAt
<1>2. CASE Go(r, NextPlatform(r, p))
  BY <1>1, <1>2, NextPlatformInv
<1>3. CASE Go(r, [request[r] EXCEPT !.pc = "create", !.platform = p])
  <2> DEFINE new == [request[r] EXCEPT !.pc = "create", !.platform = p]
  <2>1. request[r] \in Request /\ Go(r, new)
    BY <1>1, <1>3, AtPlain
  <2>2. /\ new \in Request /\ new.pc = "create" /\ new.draft = request[r].draft
        /\ new.found = request[r].found /\ new.jobs = request[r].jobs
    BY <2>1, PlainSteps DEF Request
  <2> HIDE DEF new
  <2>3. draft' \in [DraftIds -> DraftRow] /\ schedule' \in [Schedules -> ScheduleRow]
    BY <1>1, Types DEF IInv
  <2> QED BY <1>1, <2>1, <2>2, <2>3, PlainSteps, PlainInv
<1> QED BY <1>2, <1>3 DEF FindJob

LEMMA MoveScheduleInv ==
  ASSUME IInv, NEW r \in Requests, MoveSchedule(r)
  PROVE  IInv'
<1> DEFINE at == request[r].at
           s == request[r].sched
           new == [request[r] EXCEPT !.pc = "findQueued"]
<1>1. /\ request[r].pc \in Plain /\ UNCHANGED <<now, draft, job, entry, due, worker, made>>
      /\ Go(r, new) /\ schedule' = [schedule EXCEPT ![s].at = at]
  BY PlainSteps DEF MoveSchedule, ReqAt
<1>2. request[r] \in Request /\ at \in Instants \cup {0}
  BY <1>1, AtPlain
<1>3. /\ new \in Request /\ new.pc = "findQueued" /\ new.draft = request[r].draft
      /\ new.found = request[r].found /\ new.jobs = request[r].jobs
  BY <1>2, PlainSteps DEF Request
<1> HIDE DEF new, at, s
<1>4. schedule' \in [Schedules -> ScheduleRow] /\ draft' \in [DraftIds -> DraftRow]
  BY <1>1, <1>2, Types DEF IInv, ScheduleRow
<1> QED BY <1>1, <1>3, <1>4, PlainSteps, PlainInv

(* The last write of schedule, cancel and reschedule. *)
LEMMA LastWriteInv ==
  ASSUME IInv, NEW r \in Requests, MarkScheduled(r) \/ MarkCancelled(r) \/ MarkMoved(r)
  PROVE  IInv'
<1> DEFINE d == request[r].draft
           at == request[r].at
           row == [draft[d] EXCEPT !.status = "SCHEDULED", !.scheduledAt = at]
<1>1. /\ Finish(r) /\ UNCHANGED <<now, schedule, job, entry, due, worker, made>>
      /\ request[r].pc \in {"scheduled", "cancelled", "moved"}
  BY DEF MarkScheduled, MarkCancelled, MarkMoved, ReqAt
<1>2. request[r] \in Request /\ d \in DraftIds /\ at \in Instants \cup {0} /\ draft[d] \in DraftRow
      /\ schedule' \in [Schedules -> ScheduleRow]
  BY <1>1, Types DEF IInv, Knows, Request
<1>3. row \in DraftRow
  <2> HIDE DEF at, d
  <2> QED BY <1>2 DEF DraftRow, DraftStatus
<1>4. WriteDraft(d, row) \/ SetDraftStatus(d, "READY")
  BY DEF MarkScheduled, MarkCancelled, MarkMoved
<1> HIDE DEF row, d
<1>5. draft' \in [DraftIds -> DraftRow]
  BY <1>2, <1>3, <1>4, WriteType, StatusType DEF IInv, DraftStatus
<1> QED BY <1>1, <1>2, <1>5, FinishInv

-----------------------------------------------------------------------------
(* Cancelling and moving: steps that read jobs. *)

LEMMA FindOpenInv ==
  ASSUME IInv, NEW r \in Requests, FindOpen(r)
  PROVE  IInv'
<1> DEFINE open == {j \in JobsOf(request[r].draft) : job[j].status \in Open}
           pc == IF open = {} THEN "cancelled" ELSE "cancelCheck"
           new == [request[r] EXCEPT !.jobs = open, !.found = open, !.pc = pc]
<1>1. /\ request[r].pc \in Plain /\ Go(r, new)
      /\ UNCHANGED <<now, draft, schedule, job, entry, due, worker, made>>
  BY PlainSteps DEF FindOpen, ReqAt
<1>2. request[r] \in Request /\ request[r].draft \in DraftIds /\ pc \in RequestPC /\ pc \in Cancelling
  BY <1>1, AtPlain DEF RequestPC, Cancelling
<1>3. open \subseteq Jobs /\ \A j \in open : job[j].draft # 0
  BY <1>2, Types DEF IInv, JobsOf
<1>4. pc = "cancelled" => open = {}
  OBVIOUS
<1>5. pc \in {"cancelled", "cancelCheck"}
  OBVIOUS
<1> HIDE DEF pc, open
<1>6. /\ new \in Request /\ new.pc = pc /\ new.draft = request[r].draft /\ new.found = open
      /\ new.jobs = open
  BY <1>2, <1>3 DEF Request
<1> HIDE DEF new
<1>7. Knows(new)
  BY <1>2, <1>3, <1>4, <1>5, <1>6, Types DEF IInv, Knows, Cancelling
<1>8. draft' \in [DraftIds -> DraftRow] /\ schedule' \in [Schedules -> ScheduleRow] /\ made' \in 0 .. MaxRequests
  BY <1>1, Types DEF IInv
<1> QED BY <1>1, <1>6, <1>7, <1>8, RequestInv

LEMMA CancelCheckInv ==
  ASSUME IInv, NEW r \in Requests, NEW j \in Jobs, CancelCheck(r, j)
  PROVE  IInv'
<1>1. /\ request[r].pc = "cancelCheck" /\ j \in request[r].jobs
      /\ UNCHANGED <<now, draft, schedule, job, entry, due, worker, made>>
      /\ draft' \in [DraftIds -> DraftRow] /\ schedule' \in [Schedules -> ScheduleRow]
      /\ made' \in 0 .. MaxRequests /\ request[r] \in Request /\ Knows(request[r]) /\ j # 0
  BY Types DEF IInv, CancelCheck, ReqAt
<1>2. CASE Finish(r)
  BY <1>1, <1>2, FinishInv
<1>3. CASE Go(r, [request[r] EXCEPT !.pc = "cancelWrite", !.job = j])
  <2> DEFINE new == [request[r] EXCEPT !.pc = "cancelWrite", !.job = j]
  <2>1. /\ new \in Request /\ new.pc = "cancelWrite" /\ new.draft = request[r].draft
        /\ new.found = request[r].found /\ new.jobs = request[r].jobs /\ new.job = j
    BY <1>1 DEF Request, RequestPC
  <2>2. Go(r, new)
    BY <1>3
  <2> HIDE DEF new
  <2>3. Knows(new)
    BY <1>1, <2>1 DEF Knows, Cancelling
  <2> QED BY <1>1, <2>1, <2>2, <2>3, RequestInv
<1> QED BY <1>2, <1>3 DEF CancelCheck

LEMMA ReadJobsInv ==
  ASSUME IInv, NEW r \in Requests, ReadJobs(r)
  PROVE  IInv'
<1> DEFINE next == DerivedStatus(request[r].draft)
           new == [request[r] EXCEPT !.pc = "sync", !.next = next]
<1>1. /\ request[r].pc = "readJobs" /\ Go(r, new)
      /\ UNCHANGED <<now, draft, schedule, job, entry, due, worker, made>>
      /\ draft' \in [DraftIds -> DraftRow] /\ schedule' \in [Schedules -> ScheduleRow]
      /\ made' \in 0 .. MaxRequests /\ request[r] \in Request /\ Knows(request[r])
  BY Types DEF IInv, ReadJobs, ReqAt
<1>2. /\ new \in Request /\ new.pc = "sync" /\ new.draft = request[r].draft
      /\ new.found = request[r].found /\ new.jobs = request[r].jobs /\ new.job = request[r].job
  <2>1. next \in DraftStatus
    BY DerivedType
  <2> HIDE DEF next
  <2> QED BY <1>1, <2>1 DEF Request, RequestPC
<1> HIDE DEF new
<1>3. Knows(new)
  BY <1>1, <1>2 DEF Knows, Cancelling
<1> QED BY <1>1, <1>2, <1>3, RequestInv

LEMMA SyncInv ==
  ASSUME IInv, NEW r \in Requests, Sync(r)
  PROVE  IInv'
<1> DEFINE d == request[r].draft
           rest == request[r].jobs \ {request[r].job}
           pc == IF request[r].jobs = {request[r].job} THEN "cancelled" ELSE "cancelCheck"
           new == [request[r] EXCEPT !.job = 0, !.jobs = rest, !.pc = pc]
<1>1. /\ request[r].pc = "sync" /\ UNCHANGED <<now, schedule, job, entry, due, worker, made>>
      /\ SetDraftStatus(d, request[r].next) /\ (Finish(r) \/ Go(r, new))
      /\ schedule' \in [Schedules -> ScheduleRow]
      /\ made' \in 0 .. MaxRequests /\ request[r] \in Request /\ Knows(request[r])
  BY Types DEF IInv, Sync, ReqAt
<1>2. d \in DraftIds /\ request[r].next \in DraftStatus
  BY <1>1 DEF Knows, Request
<1>3. draft' \in [DraftIds -> DraftRow]
  BY <1>1, <1>2, StatusType DEF IInv
<1>4. CASE Finish(r)
  BY <1>1, <1>3, <1>4, FinishInv
<1>5. CASE Go(r, new)
  <2>1. /\ pc \in RequestPC /\ pc \in {"cancelled", "cancelCheck"} /\ rest \subseteq Jobs
        /\ pc = "cancelled" => rest = {}
    BY <1>1 DEF Request, RequestPC
  <2>2. \A j \in request[r].found \ rest : job[j].status # "QUEUED"
    <3>1. request[r].found \subseteq Jobs
      BY <1>1 DEF Request
    <3> QED BY <1>1, <3>1, Types DEF IInv, Knows
  <2>3. /\ rest \subseteq request[r].found /\ d # 0
        /\ \A j \in request[r].found : job[j].draft # 0
    BY <1>1 DEF Knows, Cancelling
  <2> HIDE DEF pc, rest
  <2>4. /\ new \in Request /\ new.pc = pc /\ new.draft = d /\ new.found = request[r].found
        /\ new.jobs = rest /\ new.job = 0
    BY <1>1, <2>1 DEF Request
  <2> HIDE DEF new
  <2>5. Knows(new)
    BY <2>1, <2>2, <2>3, <2>4 DEF Knows, Cancelling
  <2> QED BY <1>1, <1>3, <1>5, <2>4, <2>5, RequestInv
<1> QED BY <1>1, <1>4, <1>5

LEMMA FindQueuedInv ==
  ASSUME IInv, NEW r \in Requests, FindQueued(r)
  PROVE  IInv'
<1> DEFINE queued == {j \in JobsOf(request[r].draft) :
                        job[j].sched = request[r].sched /\ job[j].status = "QUEUED"}
           pc == IF queued = {} THEN "moved" ELSE "moveJob"
           new == [request[r] EXCEPT !.jobs = queued, !.pc = pc]
<1>1. /\ request[r].pc \in Plain /\ request[r].pc = "findQueued" /\ Go(r, new)
      /\ UNCHANGED <<now, draft, schedule, job, entry, due, worker, made>>
      /\ draft' \in [DraftIds -> DraftRow] /\ schedule' \in [Schedules -> ScheduleRow]
      /\ made' \in 0 .. MaxRequests /\ Knows(request[r])
  BY PlainSteps, Types DEF IInv, FindQueued, ReqAt
<1>2. request[r] \in Request /\ request[r].draft \in DraftIds /\ request[r].found = {}
  BY <1>1, AtPlain DEF Knows, Cancelling
<1>3. queued \subseteq Jobs /\ pc \in {"moved", "moveJob"} /\ pc \in RequestPC
      /\ (pc = "moved" => queued = {})
  BY DEF JobsOf, RequestPC
<1> HIDE DEF pc, queued
<1>4. /\ new \in Request /\ new.pc = pc /\ new.draft = request[r].draft /\ new.found = {}
      /\ new.jobs = queued
  BY <1>2, <1>3 DEF Request
<1> HIDE DEF new
<1>5. Knows(new)
  BY <1>2, <1>3, <1>4, Types DEF IInv, Knows, Cancelling
<1> QED BY <1>1, <1>4, <1>5, RequestInv

-----------------------------------------------------------------------------
(* Steps that write jobs. *)

(* What a request has made sure of survives every write of a job: a row    *)
(* once taken is never free again, asked never grows, and nothing but the  *)
(* creation of a job makes it QUEUED.                                      *)
JobsKept ==
  \A j \in Jobs : job[j].draft # 0 =>
    /\ job'[j].draft # 0 /\ job'[j].asked <= job[j].asked
    /\ job'[j].status = "QUEUED" => job[j].status = "QUEUED"

LEMMA KnowsKept ==
  ASSUME IInv, NEW b \in Requests, request'[b] = request[b], JobsKept, job' \in [Jobs -> JobRow]
  PROVE  Knows(request[b])'
<1>1. Knows(request[b]) /\ request[b] \in Request /\ 0 \notin Jobs
  BY Types DEF IInv
<1>2. request[b].job \in Jobs \cup {0} /\ request[b].found \subseteq Jobs /\ request[b].at \in Nat
  BY <1>1, Types DEF IInv, Request
<1>3. request[b].pc = "enqueue" => job'[request[b].job].draft # 0 /\ job'[request[b].job].asked <= request[b].at
  <2>1. \A j \in Jobs : job[j].asked \in Nat /\ job'[j].asked \in Nat
    BY Types DEF IInv, JobRow
  <2> QED BY <1>1, <1>2, <2>1 DEF Knows, JobsKept
<1>4. /\ \A j \in request[b].found : job'[j].draft # 0
      /\ \A j \in request[b].found \ request[b].jobs : job'[j].status # "QUEUED"
  BY <1>1, <1>2 DEF Knows, JobsKept
<1>5. request[b].pc \in {"readJobs", "sync"} /\ request[b].job # 0 => job'[request[b].job].status # "QUEUED"
  BY <1>1, <1>2 DEF Knows, JobsKept
<1> QED BY <1>1, <1>3, <1>4, <1>5 DEF Knows

(* The keys of a job are written once. *)
LEMMA StatusFacts ==
  ASSUME IInv, NEW k \in Jobs, NEW s \in PublishJobStatus \ {"QUEUED"},
         job' = [job EXCEPT ![k].status = s]
  PROVE  /\ job' \in [Jobs -> JobRow] /\ JobsKept /\ OneJobPerReading'
         /\ job'[k].status = s
         /\ \A j \in Jobs : /\ job'[j].draft = job[j].draft /\ job'[j].asked = job[j].asked
                            /\ job'[j].runAt = job[j].runAt
                            /\ job'[j].status = job[j].status \/ job'[j].status = s
<1>1. /\ job' \in [Jobs -> JobRow] /\ job'[k].status = s
      /\ \A j \in Jobs : /\ job'[j].draft = job[j].draft /\ job'[j].asked = job[j].asked
                         /\ job'[j].runAt = job[j].runAt /\ job'[j].platform = job[j].platform
                         /\ job'[j].keyAt = job[j].keyAt /\ job'[j].version = job[j].version
                         /\ (job'[j].status = job[j].status \/ job'[j].status = s)
  BY Types DEF IInv, JobRow
<1>2. \A j \in Jobs : job[j].asked \in Nat
  BY Types DEF IInv, JobRow
<1>3. JobsKept
  BY <1>1, <1>2 DEF JobsKept
<1>4. OneJobPerReading'
  BY <1>1 DEF IInv, OneJobPerReading
<1> QED BY <1>1, <1>3, <1>4

(* A status other than QUEUED is written, by a request or by the worker. *)
LEMMA StatusInv ==
  ASSUME IInv, NEW k \in Jobs, NEW s \in PublishJobStatus \ {"QUEUED"},
         job' = [job EXCEPT ![k].status = s],
         UNCHANGED <<now, draft, schedule, due, made>>,
         request' \in [Requests -> Request],
         \A b \in Requests : request'[b] = request[b] \/ Knows(request[b])',
         entry' \in [Jobs -> Entry],
         \A j \in Jobs : \/ entry'[j] = entry[j]
                         \/ job[j].draft # 0 /\ entry'[j].state # "waiting",
         worker' \in [job : Jobs \cup {0}, pc : {"idle", "run", "readJobs", "sync"}, next : DraftStatus],
         worker' = worker \/ (worker'.job = k /\ job[k].draft # 0)
  PROVE  IInv'
<1>1. /\ job' \in [Jobs -> JobRow] /\ JobsKept /\ OneJobPerReading' /\ 0 \notin Jobs
      /\ \A j \in Jobs : /\ job'[j].draft = job[j].draft /\ job'[j].asked = job[j].asked
                         /\ job'[j].runAt = job[j].runAt
                         /\ job'[j].status = job[j].status \/ job'[j].status = s
  BY StatusFacts, Types DEF IInv
<1>2. TypeOK'
  BY <1>1 DEF IInv, TypeOK
<1>3. \A b \in Requests : Knows(request[b])'
  BY <1>1, KnowsKept
<1>4. FreeRows' /\ NotEarly'
  BY <1>1 DEF IInv, FreeRows, NotEarly
<1>5. WorkerHasJob'
  <2>1. worker \in [job : Jobs \cup {0}, pc : {"idle", "run", "readJobs", "sync"}, next : DraftStatus]
    BY DEF IInv, TypeOK
  <2> QED BY <1>1, <2>1 DEF IInv, WorkerHasJob
<1> QED BY <1>1, <1>2, <1>3, <1>4, <1>5 DEF IInv

LEMMA CancelWriteInv ==
  ASSUME IInv, NEW r \in Requests, CancelWrite(r)
  PROVE  IInv'
<1> DEFINE k == request[r].job
           new == [request[r] EXCEPT !.pc = "readJobs"]
<1>1. /\ request[r].pc = "cancelWrite" /\ job' = [job EXCEPT ![k].status = "CANCELLED"] /\ Go(r, new)
      /\ UNCHANGED <<now, draft, schedule, entry, due, worker, made>>
      /\ request[r] \in Request /\ Knows(request[r])
  BY Types DEF IInv, CancelWrite, ReqAt
<1>2. /\ k \in Jobs /\ k \in request[r].found /\ request[r].found \subseteq Jobs
      /\ entry' \in [Jobs -> Entry] /\ request[r].draft # 0
  BY <1>1, Types DEF IInv, Knows, Request
<1>3. "CANCELLED" \in PublishJobStatus \ {"QUEUED"}
  BY DEF PublishJobStatus
<1>4. /\ new \in Request /\ new.pc = "readJobs" /\ new.draft = request[r].draft
      /\ new.found = request[r].found /\ new.jobs = request[r].jobs /\ new.job = k
  BY <1>1 DEF Request, RequestPC
<1> HIDE DEF new, k
<1>5. /\ request' \in [Requests -> Request] /\ request'[r] = new
      /\ \A b \in Requests \ {r} : request'[b] = request[b]
  BY <1>1, <1>4, GoFacts DEF IInv
<1>6. /\ \A j \in Jobs : /\ job'[j].draft = job[j].draft
                         /\ job'[j].status = job[j].status \/ job'[j].status = "CANCELLED"
      /\ job'[k].status = "CANCELLED"
  BY <1>1, <1>2, <1>3, StatusFacts
<1>7. Knows(request[r])'
  BY <1>1, <1>2, <1>4, <1>5, <1>6 DEF Knows, Cancelling
<1>8. worker' \in [job : Jobs \cup {0}, pc : {"idle", "run", "readJobs", "sync"}, next : DraftStatus]
  BY <1>1 DEF IInv, TypeOK
<1>9. \A j \in Jobs : entry'[j] = entry[j]
  BY <1>1
<1> QED BY <1>1, <1>2, <1>3, <1>5, <1>7, <1>8, <1>9, StatusInv

LEMMA StartJobInv ==
  ASSUME IInv, NEW j \in Jobs, StartJob(j)
  PROVE  IInv'
<1> DEFINE new == [worker EXCEPT !.pc = "run", !.job = j]
<1>1. /\ entry[j].state = "waiting" /\ entry' = Take(entry, j)
      /\ job' = [job EXCEPT ![j].status = "RUNNING"] /\ worker' = new
      /\ UNCHANGED <<now, draft, schedule, due, request, made>>
      /\ worker \in [job : Jobs \cup {0}, pc : {"idle", "run", "readJobs", "sync"}, next : DraftStatus]
  BY DEF StartJob, IInv, TypeOK
<1>2. "RUNNING" \in PublishJobStatus \ {"QUEUED"}
  BY DEF PublishJobStatus
<1>3. /\ new \in [job : Jobs \cup {0}, pc : {"idle", "run", "readJobs", "sync"}, next : DraftStatus]
      /\ new.job = j
  BY <1>1
<1>4. job[j].draft # 0
  BY <1>1 DEF IInv, FreeRows
<1>5. /\ entry' \in [Jobs -> Entry] /\ entry'[j].state = "active"
      /\ \A x \in Jobs \ {j} : entry'[x] = entry[x]
  BY <1>1, Types DEF IInv, Take, Entry, EntryState
<1>6. request' \in [Requests -> Request]
  BY <1>1, Types DEF IInv
<1> HIDE DEF new
<1> QED BY <1>1, <1>2, <1>3, <1>4, <1>5, <1>6, StatusInv

LEMMA FinishJobInv ==
  ASSUME IInv, FinishJob
  PROVE  IInv'
<1> DEFINE k == worker.job
           new == [worker EXCEPT !.pc = "readJobs"]
<1>1. /\ worker.pc = "run" /\ worker' = new
      /\ UNCHANGED <<now, draft, schedule, entry, due, request, made>>
      /\ worker \in [job : Jobs \cup {0}, pc : {"idle", "run", "readJobs", "sync"}, next : DraftStatus]
  BY DEF FinishJob, IInv, TypeOK
<1>2. PICK s \in {"SUCCEEDED", "FAILED"} : job' = [job EXCEPT ![k].status = s]
  BY DEF FinishJob
<1>3. s \in PublishJobStatus \ {"QUEUED"}
  BY DEF PublishJobStatus
<1>4. k \in Jobs /\ job[k].draft # 0
  BY <1>1 DEF IInv, WorkerHasJob
<1>5. /\ new \in [job : Jobs \cup {0}, pc : {"idle", "run", "readJobs", "sync"}, next : DraftStatus]
      /\ new.job = k
  BY <1>1
<1>6. request' \in [Requests -> Request] /\ entry' \in [Jobs -> Entry]
  BY <1>1, Types DEF IInv
<1> HIDE DEF new, k
<1> QED BY <1>1, <1>2, <1>3, <1>4, <1>5, <1>6, StatusInv

(* Only entries, their delays, the worker's locals or the clock change. *)
LEMMA EntryInv ==
  ASSUME IInv, UNCHANGED <<job, request, schedule, made>>,
         draft' \in [DraftIds -> DraftRow], now' \in Instants,
         entry' \in [Jobs -> Entry], due' \in [Jobs -> Instants \cup {0}],
         worker' \in [job : Jobs \cup {0}, pc : {"idle", "run", "readJobs", "sync"}, next : DraftStatus],
         worker'.pc = "idle" \/ (worker.pc # "idle" /\ worker'.job = worker.job),
         \A j \in Jobs :
           \/ entry'[j] = entry[j] /\ due'[j] = due[j]
           \/ job[j].draft # 0 /\ (entry'[j].state = "waiting" => job[j].asked <= due'[j])
  PROVE  IInv'
<1>1. TypeOK'
  BY DEF IInv, TypeOK
<1>2. \A b \in Requests : Knows(request[b])'
  BY DEF IInv, Knows
<1>3. FreeRows' /\ NotEarly' /\ WorkerHasJob' /\ OneJobPerReading'
  BY DEF IInv, FreeRows, NotEarly, WorkerHasJob, OneJobPerReading
<1> QED BY <1>1, <1>2, <1>3 DEF IInv

LEMMA SkipJobInv ==
  ASSUME IInv, NEW j \in Jobs, SkipJob(j)
  PROVE  IInv'
<1>1. /\ entry[j].state = "waiting" /\ entry' = Complete(entry, j) /\ worker.pc = "idle"
      /\ UNCHANGED <<now, draft, schedule, job, due, request, worker, made>>
  BY DEF SkipJob
<1>2. /\ entry' \in [Jobs -> Entry] /\ entry'[j].state = "completed"
      /\ \A x \in Jobs \ {j} : entry'[x] = entry[x]
  BY <1>1, Types DEF IInv, Complete, Done, Entry, EntryState
<1>3. job[j].draft # 0
  BY <1>1 DEF IInv, FreeRows
<1> QED BY <1>1, <1>2, <1>3, EntryInv DEF IInv, TypeOK

LEMMA WorkerReadJobsInv ==
  ASSUME IInv, WorkerReadJobs
  PROVE  IInv'
<1> DEFINE next == DerivedStatus(job[worker.job].draft)
           new == [worker EXCEPT !.pc = "sync", !.next = next]
<1>1. /\ worker.pc = "readJobs" /\ worker' = new
      /\ UNCHANGED <<now, draft, schedule, job, entry, due, request, made>>
      /\ worker \in [job : Jobs \cup {0}, pc : {"idle", "run", "readJobs", "sync"}, next : DraftStatus]
  BY DEF IInv, TypeOK, WorkerReadJobs
<1>2. next \in DraftStatus
  BY DerivedType
<1> HIDE DEF next
<1>3. /\ new \in [job : Jobs \cup {0}, pc : {"idle", "run", "readJobs", "sync"}, next : DraftStatus]
      /\ new.job = worker.job
  BY <1>1, <1>2
<1> HIDE DEF new
<1> QED BY <1>1, <1>3, EntryInv DEF IInv, TypeOK

LEMMA WorkerSyncInv ==
  ASSUME IInv, WorkerSync
  PROVE  IInv'
<1> DEFINE k == worker.job
<1>1. /\ worker.pc = "sync" /\ worker' = IdleWorker /\ entry' = Complete(entry, k)
      /\ SetDraftStatus(job[k].draft, worker.next)
      /\ UNCHANGED <<now, schedule, job, due, request, made>>
      /\ worker \in [job : Jobs \cup {0}, pc : {"idle", "run", "readJobs", "sync"}, next : DraftStatus]
  BY DEF IInv, TypeOK, WorkerSync
<1>2. k \in Jobs /\ job[k].draft # 0
  BY <1>1 DEF IInv, WorkerHasJob
<1>3. job[k].draft \in DraftIds /\ worker.next \in DraftStatus
  BY <1>1, <1>2, Types DEF IInv, JobRow
<1>4. draft' \in [DraftIds -> DraftRow]
  BY <1>1, <1>3, StatusType DEF IInv
<1>5. /\ entry' \in [Jobs -> Entry] /\ entry'[k].state = "completed"
      /\ \A x \in Jobs \ {k} : entry'[x] = entry[x]
  BY <1>1, <1>2, Types DEF IInv, Complete, Done, Entry, EntryState
<1>6. /\ IdleWorker \in [job : Jobs \cup {0}, pc : {"idle", "run", "readJobs", "sync"}, next : DraftStatus]
      /\ IdleWorker.pc = "idle"
  BY DEF IdleWorker, DraftStatus
<1> HIDE DEF k, IdleWorker
<1> QED BY <1>1, <1>2, <1>4, <1>5, <1>6, EntryInv, Types DEF IInv

LEMMA RecoverInv ==
  ASSUME IInv, NEW j \in Jobs, Recover(j)
  PROVE  IInv'
<1>1. /\ job[j].status = "QUEUED" /\ job[j].runAt <= now /\ entry' = Add(entry, j)
      /\ due' = [due EXCEPT ![j] = now]
      /\ UNCHANGED <<now, draft, schedule, job, request, worker, made>>
  BY DEF Recover
<1>2. /\ entry' \in [Jobs -> Entry] /\ \A x \in Jobs \ {j} : entry'[x] = entry[x]
  BY <1>1, Types DEF IInv, Add, Fresh, Entry, EntryState
<1>3. due' \in [Jobs -> Instants \cup {0}] /\ due'[j] = now /\ \A x \in Jobs \ {j} : due'[x] = due[x]
  BY <1>1, Types DEF IInv
<1>4. job[j].draft # 0
  BY <1>1 DEF IInv, FreeRows
<1>5. job[j].asked <= now
  <2>1. job[j].asked \in Nat /\ job[j].runAt \in Nat /\ now \in Nat
    BY Types DEF IInv, JobRow
  <2> QED BY <1>1, <2>1 DEF IInv, NotEarly
<1> QED BY <1>1, <1>2, <1>3, <1>4, <1>5, EntryInv DEF IInv, TypeOK, WorkerHasJob

LEMMA TickInv ==
  ASSUME IInv, Tick
  PROVE  IInv'
<1>1. now' \in Instants
  BY DraftsAssumption DEF IInv, TypeOK, Tick, Instants
<1> QED BY <1>1, EntryInv DEF Tick, IInv, TypeOK, WorkerHasJob

(* A job is created only if no job has its keys. *)
LEMMA InsertJobInv ==
  ASSUME IInv, NEW r \in Requests, ReqAt(r, "create"), InsertJob(r),
         ~\E j \in Jobs : SameIdempotencyKey(j, r, request[r].platform),
         UNCHANGED <<now, draft, schedule, entry, due, worker, made>>
  PROVE  IInv'
<1> DEFINE q == request[r]
           d == q.draft
           at == q.at
           p == q.platform
           row == [draft |-> d, platform |-> p, status |-> "QUEUED", runAt |-> at, keyAt |-> at,
                   version |-> q.version, sched |-> q.sched, asked |-> at]
<1>1. PICK k \in FreeJobs : job' = [job EXCEPT ![k] = row]
                            /\ Go(r, [request[r] EXCEPT !.pc = "enqueue", !.job = k])
  BY DEF InsertJob
<1> DEFINE new == [request[r] EXCEPT !.pc = "enqueue", !.job = k]
<1>2. /\ q.pc = "create" /\ q \in Request /\ d \in DraftIds /\ at \in Instants \cup {0} /\ at \in Nat
      /\ p \in Platforms \cup {None} /\ q.version \in Nat /\ q.sched \in Schedules \cup {0}
      /\ Knows(q) /\ d # 0 /\ k \in Jobs /\ job[k].draft = 0 /\ k # 0
  BY PlainSteps, AtPlain, Types DEF IInv, ReqAt, FreeJobs
<1>3. /\ new \in Request /\ new.pc = "enqueue" /\ new.draft = d /\ new.found = q.found
      /\ new.jobs = q.jobs /\ new.job = k /\ new.at = at
  <2>1. request[r] \in Request /\ "enqueue" \in RequestPC /\ k \in Jobs \cup {0}
    BY <1>2, PlainSteps
  <2> QED BY <2>1 DEF Request
<1>4. row \in JobRow
  <2> DEFINE version == q.version
             sched == q.sched
  <2>1. "QUEUED" \in PublishJobStatus \cup {"NONE"}
    BY DEF PublishJobStatus
  <2> HIDE DEF d, at, p, version, sched
  <2> QED BY <1>2, <2>1 DEF JobRow, version, sched
<1>5. /\ row.draft = d /\ row.platform = p /\ row.status = "QUEUED" /\ row.runAt = at
      /\ row.keyAt = at /\ row.version = q.version /\ row.asked = at
  OBVIOUS
<1>6. Go(r, new)
  BY <1>1
<1> HIDE DEF new, row
<1>7. /\ request' \in [Requests -> Request] /\ request'[r] = new
      /\ \A b \in Requests \ {r} : request'[b] = request[b]
  BY <1>3, <1>6, GoFacts DEF IInv
<1>8. /\ job' \in [Jobs -> JobRow] /\ job'[k] = row /\ \A j \in Jobs \ {k} : job'[j] = job[j]
  BY <1>1, <1>2, <1>4, Types DEF IInv
<1>9. TypeOK'
  BY <1>7, <1>8 DEF IInv, TypeOK
<1>10. JobsKept
  <2>1. \A j \in Jobs : job[j].asked \in Nat
    BY Types DEF IInv, JobRow
  <2> QED BY <1>2, <1>8, <2>1 DEF JobsKept
<1>11. Knows(request[r])'
  BY <1>2, <1>3, <1>5, <1>7, <1>8 DEF Knows, Cancelling
<1>12. \A b \in Requests : Knows(request[b])'
  BY <1>7, <1>8, <1>10, <1>11, KnowsKept
<1>13. entry[k].state = "absent"
  BY <1>2 DEF IInv, FreeRows
<1>14. FreeRows' /\ NotEarly'
  BY <1>2, <1>5, <1>8, <1>13 DEF IInv, FreeRows, NotEarly
<1>15. WorkerHasJob'
  <2>1. worker.pc # "idle" => worker.job \in Jobs \ {k}
    BY <1>2 DEF IInv, TypeOK, WorkerHasJob
  <2> QED BY <1>8, <2>1 DEF IInv, WorkerHasJob
<1>16. OneJobPerReading'
  <2>1. \A j \in Jobs : job[j].draft = d /\ job[j].platform = p /\ job[j].keyAt = at => job[j].version # q.version
    BY DEF SameIdempotencyKey, SameDedupeKey
  <2>2. \A i, j \in Jobs \ {k} : job'[i] = job[i] /\ job'[j] = job[j]
    BY <1>8
  <2> SUFFICES ASSUME NEW i \in Jobs, NEW j \in Jobs, i # j, job'[i].draft # 0,
                      job'[i].draft = job'[j].draft, job'[i].platform = job'[j].platform,
                      job'[i].keyAt = job'[j].keyAt
               PROVE  job'[i].version # job'[j].version
    BY DEF OneJobPerReading
  <2>3. CASE i = k
    BY <1>5, <1>8, <2>1, <2>3
  <2>4. CASE j = k
    BY <1>5, <1>8, <2>1, <2>4
  <2>5. CASE i # k /\ j # k
    BY <2>2, <2>5 DEF IInv, OneJobPerReading
  <2> QED BY <2>3, <2>4, <2>5
<1> QED BY <1>9, <1>12, <1>14, <1>15, <1>16 DEF IInv

LEMMA CreateJobInv ==
  ASSUME IInv, NEW r \in Requests, CreateJob(r)
  PROVE  IInv'
<1>1. /\ ReqAt(r, "create") /\ UNCHANGED <<now, draft, schedule, entry, due, worker, made>>
      /\ request[r].pc \in Plain
  BY PlainSteps DEF CreateJob, ReqAt
<1>2. CASE \E j \in Jobs : SameIdempotencyKey(j, r, request[r].platform)
  BY <1>1, <1>2, NextPlatformInv DEF CreateJob
<1>3. CASE ~\E j \in Jobs : SameIdempotencyKey(j, r, request[r].platform)
  BY <1>1, <1>3, InsertJobInv DEF CreateJob
<1> QED BY <1>2, <1>3

LEMMA EnqueueInv ==
  ASSUME IInv, NEW r \in Requests, Enqueue(r)
  PROVE  IInv'
<1> DEFINE q == request[r]
           k == q.job
           at == q.at
           new == NextPlatform(r, q.platform)
<1>1. /\ q.pc = "enqueue" /\ Go(r, new) /\ UNCHANGED <<now, draft, schedule, job, worker, made>>
      /\ \/ entry' = Add(entry, k) /\ due' = [due EXCEPT ![k] = Later(at, now)]
         \/ UNCHANGED <<entry, due>>
      /\ q \in Request /\ Knows(q)
  BY Types DEF IInv, Enqueue, ReqAt
<1>2. /\ k \in Jobs /\ at \in Instants \cup {0} /\ job[k].draft # 0 /\ job[k].asked <= at
      /\ q.draft # 0 /\ q.found = {} /\ q.jobs = {}
  BY <1>1 DEF Knows, Request, Cancelling
<1>3. /\ new \in Request /\ (new.pc \in Plain \/ new.pc = "readJobs") /\ new.job = 0
      /\ new.draft = q.draft /\ new.found = {} /\ new.jobs = {}
  BY <1>2, NextPlatformFacts DEF IInv
<1>4. Later(at, now) \in Instants \cup {0} /\ job[k].asked <= Later(at, now)
  <2>1. job[k].asked \in Nat /\ at \in Nat /\ now \in Nat /\ now \in Instants
    BY <1>2, Types DEF IInv, JobRow
  <2> QED BY <1>2, <2>1 DEF Later
<1> HIDE DEF new, k, at
<1>5. Knows(new)
  BY <1>2, <1>3 DEF Knows, Plain, Cancelling
<1>6. /\ request' \in [Requests -> Request] /\ request'[r] = new
      /\ \A b \in Requests \ {r} : request'[b] = request[b]
  BY <1>1, <1>3, GoFacts DEF IInv
<1>7. /\ entry' \in [Jobs -> Entry] /\ due' \in [Jobs -> Instants \cup {0}]
      /\ \A j \in Jobs \ {k} : entry'[j] = entry[j] /\ due'[j] = due[j]
      /\ (entry'[k] = entry[k] /\ due'[k] = due[k]) \/ due'[k] = Later(at, now)
  BY <1>1, <1>2, <1>4, Types DEF IInv, Add, Fresh, Entry, EntryState
<1>8. TypeOK'
  BY <1>1, <1>6, <1>7 DEF IInv, TypeOK
<1>9. \A b \in Requests : Knows(request[b])'
  BY <1>1, <1>5, <1>6 DEF IInv, Knows
<1>10. FreeRows' /\ NotEarly'
  BY <1>1, <1>2, <1>4, <1>7 DEF IInv, FreeRows, NotEarly
<1>11. WorkerHasJob' /\ OneJobPerReading'
  BY <1>1 DEF IInv, WorkerHasJob, OneJobPerReading
<1> QED BY <1>8, <1>9, <1>10, <1>11 DEF IInv

LEMMA MoveJobInv ==
  ASSUME IInv, NEW r \in Requests, NEW k \in Jobs, MoveJob(r, k)
  PROVE  IInv'
<1> DEFINE q == request[r]
           at == q.at
           rest == q.jobs \ {k}
           pc == IF q.jobs = {k} THEN "moved" ELSE "moveJob"
           asked == IF at < job[k].asked THEN at ELSE job[k].asked
           new == [request[r] EXCEPT !.jobs = rest, !.pc = pc]
<1>1. /\ q.pc = "moveJob" /\ Go(r, new) /\ UNCHANGED <<now, draft, schedule, entry, due, worker, made>>
      /\ q \in Request /\ Knows(q)
      /\ job' = [job EXCEPT ![k].runAt = at, ![k].asked = IF at < @ THEN at ELSE @]
  BY Types DEF IInv, MoveJob, ReqAt
<1>2. /\ at \in Instants \cup {0} /\ at \in Nat /\ job[k].asked \in Instants \cup {0} /\ job[k].asked \in Nat
      /\ rest \subseteq Jobs /\ q.found = {} /\ q.draft # 0
      /\ pc \in {"moved", "moveJob"} /\ pc \in RequestPC /\ (pc = "moved" => rest = {})
  BY <1>1, Types DEF IInv, Knows, Cancelling, Request, JobRow, RequestPC
<1>3. asked \in Instants \cup {0} /\ asked \in Nat /\ asked <= job[k].asked /\ asked <= at
  BY <1>2
<1> HIDE DEF asked, pc, rest, at
<1>4. /\ new \in Request /\ new.pc = pc /\ new.draft = q.draft /\ new.found = {} /\ new.jobs = rest
  BY <1>1, <1>2 DEF Request
<1> HIDE DEF new
<1>5. Knows(new)
  BY <1>2, <1>4 DEF Knows, Cancelling
<1>6. /\ request' \in [Requests -> Request] /\ request'[r] = new
      /\ \A b \in Requests \ {r} : request'[b] = request[b]
  BY <1>1, <1>4, GoFacts DEF IInv
<1>7. /\ job' \in [Jobs -> JobRow] /\ \A j \in Jobs \ {k} : job'[j] = job[j]
      /\ job'[k].runAt = at /\ job'[k].asked = asked
      /\ \A j \in Jobs : /\ job'[j].draft = job[j].draft /\ job'[j].platform = job[j].platform
                         /\ job'[j].keyAt = job[j].keyAt /\ job'[j].version = job[j].version
                         /\ job'[j].status = job[j].status
  <2>1. job' = [job EXCEPT ![k] = [job[k] EXCEPT !.runAt = at, !.asked = asked]]
    BY <1>1 DEF asked
  <2> DEFINE row == [job[k] EXCEPT !.runAt = at, !.asked = asked]
  <2>2. /\ row \in JobRow /\ row.runAt = at /\ row.asked = asked /\ row.draft = job[k].draft
        /\ row.platform = job[k].platform /\ row.keyAt = job[k].keyAt
        /\ row.version = job[k].version /\ row.status = job[k].status
    <3>1. job[k] \in JobRow /\ at \in Instants \cup {0} /\ asked \in Instants \cup {0}
      BY <1>2, <1>3, Types DEF IInv
    <3> QED BY <3>1 DEF JobRow
  <2>3. job' = [job EXCEPT ![k] = row]
    BY <2>1
  <2> HIDE DEF row
  <2>4. /\ job' \in [Jobs -> JobRow] /\ job'[k] = row /\ \A j \in Jobs \ {k} : job'[j] = job[j]
    BY <2>2, <2>3, Types DEF IInv
  <2> QED BY <2>2, <2>4
<1>8. JobsKept
  <2>1. \A j \in Jobs : job[j].asked \in Nat
    BY Types DEF IInv, JobRow
  <2> QED BY <1>3, <1>7, <2>1 DEF JobsKept
<1>9. TypeOK'
  BY <1>1, <1>6, <1>7 DEF IInv, TypeOK
<1>10. Knows(request[r])'
  BY <1>2, <1>4, <1>6 DEF Knows, Cancelling
<1>11. \A b \in Requests : Knows(request[b])'
  BY <1>6, <1>7, <1>8, <1>10, KnowsKept
<1>12. NotEarly'
  <2>1. due[k] \in Nat
    BY Types DEF IInv
  <2> QED BY <1>1, <1>2, <1>3, <1>7, <2>1 DEF IInv, NotEarly
<1>13. FreeRows' /\ OneJobPerReading'
  BY <1>1, <1>7 DEF IInv, FreeRows, OneJobPerReading
<1>14. WorkerHasJob'
  <2>1. worker.pc # "idle" => worker.job \in Jobs
    BY DEF IInv, TypeOK, WorkerHasJob
  <2> QED BY <1>1, <1>7, <2>1 DEF IInv, WorkerHasJob
<1> QED BY <1>9, <1>11, <1>12, <1>13, <1>14 DEF IInv

-----------------------------------------------------------------------------
LEMMA RequestFailsInv ==
  ASSUME IInv, NEW r \in Requests, RequestFails(r)
  PROVE  IInv'
BY FinishInv, Types DEF IInv, RequestFails

LEMMA StutterInv ==
  ASSUME IInv, UNCHANGED vars
  PROVE  IInv'
BY EntryInv, Types DEF vars, IInv, TypeOK, WorkerHasJob

LEMMA NextInv ==
  ASSUME IInv, [Next]_vars
  PROVE  IInv'
<1>1. ASSUME NEW r \in Requests, Continue(r)
      PROVE  IInv'
  BY <1>1, TargetsInv, RowStepsInv, AddScheduleInv, LastWriteInv, ReadDraftInv, CreateJobInv, EnqueueInv,
     ReadJobsInv, SyncInv, FindJobInv, FindOpenInv, CancelWriteInv, MoveScheduleInv, FindQueuedInv,
     CancelCheckInv, MoveJobInv DEF Continue
<1>2. CASE WorkerStep
  BY <1>2, StartJobInv, SkipJobInv, FinishJobInv, WorkerReadJobsInv, WorkerSyncInv DEF WorkerStep
<1> QED BY <1>1, <1>2, CallInv, RequestFailsInv, RecoverInv, TickInv, StutterInv DEF Next

LEMMA InitInv ==
  ASSUME Init
  PROVE  IInv
<1>1. PICK first \in FirstDrafts, n \in Earlier, p \in Platforms : Composed(first, n, p)
  BY DEF Init
<1>2. /\ first \in DraftIds \cup {0} /\ n \in Nat
      /\ n # 0 => first # 0
      /\ 1 \in Instants /\ Jobs \subseteq Nat /\ 0 \notin Jobs
  BY <1>1, DraftsAssumption DEF Composed, DraftIds, Instants, Jobs
<1>3. /\ \A j \in Jobs : job[j] = (IF j <= n THEN EarlierJob(first, j, p) ELSE NoJob)
      /\ \A j \in Jobs : entry[j] = (IF j <= n THEN Fresh ELSE Absent)
      /\ \A j \in Jobs : due[j] = (IF j <= n THEN 1 ELSE 0)
      /\ \A r \in Requests : request[r] = IdleRequest
      /\ worker.pc = "idle"
  BY <1>1 DEF Init, Composed, IdleWorker
<1>4. TypeOK
  <2>1. now \in Instants /\ made \in 0 .. MaxRequests
    BY <1>1, DraftsAssumption DEF Init, Composed, Instants
  <2>2. draft \in [DraftIds -> DraftRow]
    <3>1. NoDraft \in DraftRow
      BY DEF NoDraft, DraftRow, DraftStatus
    <3> DEFINE row == [NoDraft EXCEPT !.status = IF n = 0 THEN "READY" ELSE "SCHEDULED",
                         !.version = 2 * n, !.targets = Platforms, !.hint = Platforms]
    <3>2. row \in DraftRow
      <4>1. 2 * n \in Nat
        BY <1>2
      <4> HIDE DEF NoDraft
      <4> QED BY <3>1, <4>1 DEF DraftRow, DraftStatus
    <3>3. draft = [d \in DraftIds |-> IF d # first THEN NoDraft ELSE row]
      BY <1>1 DEF Composed
    <3> HIDE DEF row, NoDraft
    <3> QED BY <3>1, <3>2, <3>3
  <2>3. schedule \in [Schedules -> ScheduleRow]
    BY DEF Init, ScheduleRow
  <2>4. job \in [Jobs -> JobRow]
    <3>1. NoJob \in JobRow
      BY DEF NoJob, JobRow
    <3>2. \A j \in Jobs : j <= n => EarlierJob(first, j, p) \in JobRow
      BY <1>1, <1>2 DEF EarlierJob, JobRow, PublishJobStatus
    <3>3. job = [j \in Jobs |-> IF j <= n THEN EarlierJob(first, j, p) ELSE NoJob]
      BY <1>1 DEF Composed
    <3> HIDE DEF NoJob, EarlierJob
    <3> QED BY <3>1, <3>2, <3>3
  <2>5. entry \in [Jobs -> Entry]
    <3>1. Absent \in Entry /\ Fresh \in Entry
      BY DEF Absent, Fresh, Entry, EntryState
    <3>2. entry = [j \in Jobs |-> IF j <= n THEN Fresh ELSE Absent]
      BY <1>1 DEF Composed
    <3> HIDE DEF Fresh, Absent
    <3> QED BY <3>1, <3>2
  <2>6. due \in [Jobs -> Instants \cup {0}] /\ request \in [Requests -> Request]
    <3>1. due = [j \in Jobs |-> IF j <= n THEN 1 ELSE 0]
      BY <1>1 DEF Composed
    <3> HIDE DEF IdleRequest
    <3> QED BY <1>2, <3>1, IdleFacts DEF Init
  <2>7. worker \in [job : Jobs \cup {0}, pc : {"idle", "run", "readJobs", "sync"}, next : DraftStatus]
    BY DEF Init, IdleWorker, DraftStatus
  <2> QED BY <2>1, <2>2, <2>3, <2>4, <2>5, <2>6, <2>7 DEF TypeOK
<1>5. Knows(IdleRequest)
  BY IdleFacts DEF Knows, Cancelling
<1>6. \A j \in Jobs :
        LET row == EarlierJob(first, j, p)
        IN  row.draft = first /\ row.asked = 1 /\ row.runAt = 1 /\ row.version = j
  BY DEF EarlierJob
<1>7. FreeRows /\ NotEarly /\ WorkerHasJob
  <2>1. \A j \in Jobs : j <= n => job[j].draft # 0 /\ job[j].asked = 1 /\ job[j].runAt = 1 /\ due[j] = 1
    <3>1. \A j \in Jobs : j <= n => first # 0
      BY <1>2
    <3>2. \A j \in Jobs : j <= n => job[j] = EarlierJob(first, j, p) /\ due[j] = 1
      BY <1>3
    <3> QED BY <1>6, <3>1, <3>2
  <2>2. \A j \in Jobs : ~(j <= n) => /\ job[j].status # "QUEUED" /\ entry[j].state = "absent"
                                     /\ job[j].asked = 0 /\ job[j].runAt = 0
    BY <1>3 DEF NoJob, Absent
  <2> QED BY <1>3, <2>1, <2>2 DEF FreeRows, NotEarly, WorkerHasJob
<1>8. OneJobPerReading
  <2>1. \A j \in Jobs : job[j].draft # 0 => j <= n /\ job[j].version = j
    <3>1. NoJob.draft = 0
      BY DEF NoJob
    <3> QED BY <1>3, <1>6, <3>1
  <2> QED BY <2>1 DEF OneJobPerReading
<1> QED BY <1>3, <1>4, <1>5, <1>7, <1>8 DEF IInv

-----------------------------------------------------------------------------
(* The invariant holds of every behaviour. *)
THEOREM Invariance == Spec => []IInv
<1>1. Init => IInv
  BY InitInv
<1>2. IInv /\ [Next]_vars => IInv'
  BY NextInv
<1> QED BY <1>1, <1>2, PTL DEF Spec

(* Rows, entries and locals always have their types. *)
THEOREM TypeCorrect == Spec => []TypeOK
<1>1. IInv => TypeOK
  BY DEF IInv
<1> QED BY <1>1, Invariance, PTL

(* Requests that read the same version of a draft create at most one job   *)
(* for a platform and an instant, however many of them overlap.            *)
THEOREM UniqueJob == Spec => []OneJobPerReading
<1>1. IInv => OneJobPerReading
  BY DEF IInv
<1> QED BY <1>1, Invariance, PTL

(* A cancel that reports success has left none of the jobs it found        *)
(* queued, for any number of jobs and of concurrent requests.              *)
THEOREM CancelIsComplete == Spec => []CancelLeavesNoneQueued
<1>1. IInv => CancelLeavesNoneQueued
  BY DEF IInv, Knows, CancelLeavesNoneQueued, ReqAt
<1> QED BY <1>1, Invariance, PTL

(* No job starts before the earliest instant asked for. *)
THEOREM Punctual == Spec => NeverBeforeAsked
<1>1. IInv /\ [Next]_vars => [\A j \in Jobs : job[j].status = "QUEUED" /\ job'[j].status = "RUNNING"
                                => job[j].asked <= now]_vars
  <2> SUFFICES ASSUME IInv, Next, NEW j \in Jobs, job[j].status = "QUEUED", job'[j].status = "RUNNING"
               PROVE  job[j].asked <= now
    OBVIOUS
  <2>1. job \in [Jobs -> JobRow] /\ job[j].asked \in Nat /\ due[j] \in Nat /\ now \in Nat
    BY Types DEF IInv, JobRow
  <2>2. CASE \E k \in Jobs : StartJob(k)
    <3>1. PICK k \in Jobs : StartJob(k)
      BY <2>2
    <3>2. k = j
      BY <2>1, <3>1 DEF StartJob, JobRow
    <3> QED BY <2>1, <3>1, <3>2 DEF StartJob, IInv, NotEarly
  <2>3. CASE ~\E k \in Jobs : StartJob(k)
    <3>1. job' # job
      OBVIOUS
    <3>2. \/ FinishJob
          \/ \E r \in Requests : CreateJob(r) \/ CancelWrite(r) \/ \E k \in Jobs : MoveJob(r, k)
      <4>1. \A r \in Requests : Call(r) \/ RequestFails(r) => job' = job
        <5> SUFFICES ASSUME NEW r \in Requests, Call(r) \/ RequestFails(r) PROVE job' = job
          OBVIOUS
        <5>1. ASSUME NEW d \in DraftIds, NEW at, NEW platforms, NEW copy,
                     Create(r, d, platforms, at) \/ UpdatePlatforms(r, d, platforms)
                       \/ UpdateRow(r, d, at) \/ Duplicate(r, d, copy)
              PROVE  job' = job
          BY <5>1 DEF Create, UpdatePlatforms, UpdateRow, Duplicate
        <5>2. ASSUME NEW d \in DraftIds, NEW at,
                     Archive(r, d) \/ PublishNow(r, d) \/ Cancel(r, d)
                       \/ ScheduleDraft(r, d, at) \/ Reschedule(r, d, at)
              PROVE  job' = job
          BY <5>2 DEF Archive, PublishNow, Cancel, ScheduleDraft, Reschedule
        <5>3. RequestFails(r) => job' = job
          BY DEF RequestFails
        <5> QED BY <5>1, <5>2, <5>3 DEF Call
      <4>2. \A r \in Requests : Continue(r) =>
              job' = job \/ CreateJob(r) \/ CancelWrite(r) \/ \E k \in Jobs : MoveJob(r, k)
        <5> SUFFICES ASSUME NEW r \in Requests, Continue(r)
                     PROVE  job' = job \/ CreateJob(r) \/ CancelWrite(r) \/ \E k \in Jobs : MoveJob(r, k)
          OBVIOUS
        <5>1. ClearTargets(r) \/ SaveRow(r) \/ SaveReadiness(r) \/ MarkReady(r) \/ ScheduleCreated(r)
                \/ AddSchedule(r) \/ MarkScheduled(r) \/ ReadDraft(r) => job' = job
          BY DEF ClearTargets, SaveRow, SaveReadiness, MarkReady, ScheduleCreated, AddSchedule,
             MarkScheduled, ReadDraft
        <5>2. Enqueue(r) \/ ReadJobs(r) \/ Sync(r) \/ FindOpen(r) \/ MarkCancelled(r)
                \/ MoveSchedule(r) \/ FindQueued(r) \/ MarkMoved(r) => job' = job
          BY DEF Enqueue, ReadJobs, Sync, FindOpen, MarkCancelled, MoveSchedule, FindQueued, MarkMoved
        <5>3. (\E p \in Platforms : AddTarget(r, p) \/ FindJob(r, p)) => job' = job
          BY DEF AddTarget, FindJob
        <5>4. (\E k \in Jobs : CancelCheck(r, k)) => job' = job
          BY DEF CancelCheck
        <5> QED BY <5>1, <5>2, <5>3, <5>4 DEF Continue
      <4>3. WorkerStep => job' = job \/ FinishJob
        BY <2>3 DEF WorkerStep, SkipJob, WorkerReadJobs, WorkerSync
      <4>4. Tick \/ (\E k \in Jobs : Recover(k)) => job' = job
        BY DEF Recover, Tick
      <4> QED BY <3>1, <4>1, <4>2, <4>3, <4>4 DEF Next
    <3>3. ~FinishJob
      BY <2>1 DEF FinishJob, JobRow
    <3>4. ASSUME NEW r \in Requests, CancelWrite(r) PROVE FALSE
      BY <2>1, <3>4 DEF CancelWrite, JobRow
    <3>5. ASSUME NEW r \in Requests, NEW k \in Jobs, MoveJob(r, k) PROVE FALSE
      BY <2>1, <3>5 DEF MoveJob, JobRow
    <3>6. ASSUME NEW r \in Requests, CreateJob(r) PROVE FALSE
      <4>1. InsertJob(r)
        BY <3>1, <3>6 DEF CreateJob
      <4> QED BY <2>1, <4>1 DEF InsertJob, FreeJobs, JobRow
    <3> QED BY <3>2, <3>3, <3>4, <3>5, <3>6
  <2> QED BY <2>2, <2>3
<1> QED BY <1>1, Invariance, PTL DEF Spec, NeverBeforeAsked
=============================================================================

# PostPort in TLA+

PostPort publishes one draft (text and media) to Instagram, Facebook and TikTok. A NestJS API
writes rows in Postgres and adds entries to BullMQ queues in Redis; a worker process runs the
entries, calls ffmpeg, S3 and the platforms, and sweeps the tables for what got lost. This
directory models that system in TLA+, checks it with TLC and proves part of it with TLAPS.

Everything that makes the system hard to test is in how these parts share state: every handler is
a sequence of awaited calls with nothing around it (there is no transaction and no row lock in the
code), so any other handler, the same handler in another process, a crash or a retry can come
between two calls. All modules therefore advance each actor **one awaited call at a time**, with
what it has read so far in its local variables.

## Inventory

| Component | State | Operations | Talks to | Modelled in |
| --- | --- | --- | --- | --- |
| Publish processor (`apps/worker/src/jobs/process-publish-job.ts`) | `PublishJob`, `PublishAttempt`, `Draft.status` | run an entry: snapshot, attempt row, submit or resume, poll, requeue, outcome or catch block, draft sync | BullMQ, the adapters | `PublishPipeline` |
| Platform adapters (`apps/worker/src/platforms/*`) | none of their own; containers and posts at the platforms | validate, submit, poll | Meta and TikTok, token store, media resolver | `PlatformAdapters`; reduced to `PlatformContract`, `PlatformCalls` |
| Recovery sweep (`recover-publish-jobs.ts`) | reads `PublishJob` | every minute: re-add due QUEUED and stale WAITING_REMOTE jobs | BullMQ | `PublishPipeline`, `Drafts` |
| Publish API (`modules/publish`) | `PublishJob`, `PublishAttempt`, `Draft.status` | createJobs, retryJob, cancelJob | QueueService | `PublishPipeline`, `Drafts` |
| QueueService, BullMQ (`modules/queue`, `apps/worker/src/index.ts`) | entries by job id; `queueUnavailable` | enqueue, run, retry, stall, evict | Redis | `JobQueue` |
| Status vocabulary (`platform-sdk/rules/publish-status.ts`) | none | derive a draft status from job statuses | | `PublishStatus` |
| Drafts API (`modules/drafts`) | `Draft`, targets, media selections, `PublishSchedule` | create, update, archive, duplicate, validate, publishNow, schedule, cancel, reschedule | createJobs, cancelJob | `Drafts`, `MediaLibrary`, `PlatformRules` |
| Platform rules (`platform-sdk/rules/platform-rules.ts`) and composer (`drafts/new/page.tsx`) | none | capability and limit checks; preflight and submission | drafts.validate | `PlatformRules` |
| Media library (`modules/media`, `modules/storage`) | `MediaAsset`, multipart uploads in S3 | init, complete, abort, delete, reprocess | S3, `media_ingest` | `MediaLibrary` |
| Media ingest (`process-media-ingest.ts`) | `MediaAsset`, `MediaVariant`, `MediaThumbnail` | download, convert, thumbnail, mark READY or FAILED | S3, ffmpeg, sharp | `MediaLibrary` |
| Connections (`modules/connections`) | `ConnectedAccount`, profiles, `OAuthCredential`, `TokenSecret` | start, callback, reconnect, disconnect, refresh, health | Meta, TikTok | `Accounts`, `PlatformRules` |
| Token refresh (`token-refresh-service.ts`) | the same rows | sweep every 30 minutes, exchange or rotate, mark EXPIRED | Meta, TikTok, BullMQ | `Accounts` |
| Token store, media resolver (`platforms/token-store.ts`, `media-resolver.ts`) | none | pick token, profile, variant | Postgres, S3 | `Accounts`, `MediaLibrary` |
| Auth, workspaces, settings, health, mock adapters, utilities, rest of the web application | single rows, form state | CRUD, probes, rendering | | not modelled |

What makes each correct, and what is hard about it:

* **Publishing**: a job is published at most once, whatever overlaps; rows never claim a
  publication that did not happen; a job reaches an end the user can see; a cancellation is
  respected. Hard because one job can be on two queues, each with its own worker, because ids of
  finished BullMQ entries swallow later adds, because an error after a submission looks like one
  before it, and because API and worker write the same rows.
* **Adapters**: one logical submission is up to a dozen remote calls, each of which may fail, never
  finish or lose its answer; the post must be complete, the attempt must end, and the processor must
  see one submission. What validation accepts the adapter should not refuse.
* **Drafts**: a reading of a draft is published once, no job starts before anybody asked for it, a
  due job runs even if the request died, cancel leaves nothing queued. Hard because entries keep the
  old delay and keys the old instant, and because requests overlap each other and the worker.
* **Media**: READY media can be published, used media are not deleted, processing ends. Hard because
  worker runs, reprocessing and deletion overlap and each writes the status unconditionally, and
  because half a dozen requests and the publish jobs write the draft status a deletion looks at.
* **Accounts**: one default target, targets with tokens, stored refresh tokens that are still good,
  a lost rotation that is noticed, due refreshes that end. Hard because find-then-write
  sequences overlap, TikTok rotates the token it is shown, and job ids are fixed.

`PROJECT.json` lists these components with their status, and every hazard at the line where it
bites together with the properties that cover it, or why none does.

## Modules

| Module | Models | Uses |
| --- | --- | --- |
| `PublishStatus` | the status enums and `resolveDraftStatusFromPublishStatuses` | |
| `JobQueue` | BullMQ as the code uses it: operators on a function from job ids to entries (external code) | |
| `PlatformContract` | what processor and platform tell each other: answers, outcomes, error classes | |
| `PublishPipeline` | processPublishJob, recoverPublishJobs, cancelJob, retryJob, the platforms | `JobQueue`, `PublishStatus`, `PlatformContract` |
| `PlatformCalls` | abstract specification: an attempt's calls as one submission and rounds of polling | `PlatformContract` |
| `PlatformRules` | pure operators: evaluateDraftPlatformRules, what composer and API feed it, the adapters' checks, flag health checks | |
| `PlatformAdapters` | the three publishers call by call, with validate before them; implements `PlatformCalls` | `PlatformRules`, `PlatformContract`, `INSTANCE PlatformCalls` |
| `Drafts` | DraftsService, createJobs, schedule times, worker and sweep as the API sees them | `JobQueue`, `PublishStatus` |
| `MediaLibrary` | MediaService, processMediaIngest, the media side of DraftsService | `JobQueue` |
| `Accounts` | ConnectionsService and the token refresh worker on one account | `JobQueue` |
| `MCPublishPipeline`, `MCPlatformAdapters`, `MCAccounts` | instances for TLC | |
| `JobQueueProofs`, `PublishPipelineProofs`, `MediaLibraryProofs`, `DraftsProofs`, `AccountsProofs`, `PlatformAdaptersProofs` | theorems about the module named | |
| `QuietPipelineProofs` | theorems about PublishPipeline when part of the faults is absent | `PublishPipelineProofs` |
| `PlatformRulesProofs` | theorems about what the stages of validation promise each other | `PlatformAdaptersProofs` |

### PublishPipeline

State: `job`, `attempt` and `draft` are the Postgres rows; `entry` the BullMQ entries by job id;
`post` what the platform really did with the submission made by each attempt (ghost knowledge the
code does not have); `worker`, `client` and `sweep` the local variables of processPublishJob,
of an API request, and of the sweep; `crashes` counts dead processes. Each process has one worker
per queue (`publish_dispatch`, `publish_retry`) and one sweep timer.

| Actions | Code |
| --- | --- |
| `Fetch`, `SkipFinalized` | the snapshot of the job with its latest attempt, lines 19-56 |
| `MarkRunning`, `CreateAttempt`, `DuplicateAttempt` | 58-82; the unique index `(publishJobId, attemptNumber)` makes the second of two equal numbers throw outside the try block |
| `Refuse`, `ResumePoll`, `Submit`, `SubmitUnanswered` | 84-142: an adapter refuses before submitting; resume when the snapshot is WAITING_REMOTE; submit; the platform accepted but the call failed |
| `Poll`, `PollFails`, `Requeue` | 143-155 and scheduleRemotePollRetry |
| `SaveAttempt`, `SaveJob` | 157-191 |
| `FailAttempt`, `FailJob` | the catch block, 192-238, with its rethrow for transient errors |
| `ReadJobs`, `SaveDraft` | syncDraftStatus, 354-375 |
| `SweepQueued`, `AddDispatch`, `SweepWaiting`, `AddRemote` | recoverPublishJobs |
| `Cancel*`, `Retry*` | PublishService.cancelJob, retryJob, syncDraftStatus |
| `StoreError*`, `EventWriteFails`, `Crash`, `ClientDies`, `StallEntry`, `EvictEntry` | failures |

`attemptNumber` indexes both the attempt row and the post it makes, so "the run submitted twice" is
two posts of one job. The adapters are reduced to what they may answer (`PlatformContract`):
Instagram waits for the post, Facebook photos too, Facebook videos and TikTok answer while
processing; Facebook's `pollStatus` is content with any finished phase, so `processed` (not yet
published) already counts. The retry of retryJob appears as a `retry` entry with the time of the
click as its number.

### PlatformAdapters, PlatformCalls, PlatformRules

`PlatformAdapters` follows one job of one draft to its platform, attempt after attempt. `draft`,
`platform`, the stored capability `flags` and the privacy `levels` TikTok offers are the input;
`run` is the current attempt with its call (`pc`), the container it waits for and its poll counter;
`post`, `content` and `shown` say what the platform made of each attempt's submission. `Validate` is
DraftsService.validate on a draft the composer's preflight passed (`Init`); then come
`ValidateConnection` and `ValidateMedia`, and the calls of submitPublish: `Photos`, `Videos`,
`ReelStart`, `ReelUpload`, `ReelFinish` (Facebook), `CreateContainer`, `WaitForContainer`,
`MediaPublish`, `FetchPermalink` (Instagram, containers of a carousel one by one),
`QueryCreatorInfo`, `PhotoInit`, `VideoInit`, `VideoUpload` (TikTok), and `Poll` with each platform's
reading of the remote status. `CallFails` ends the attempt at any call, `AnswerLost` at a call the
platform acted on; `TargetChanges` takes a page task away or changes the levels at any moment.

`Validate` makes every check of the code and records in `errors` what it says against the draft and
the target that is followed: about the draft itself (`DraftIssues`: no media, media not READY, no
platform, an instant in the past), about the target (`ValidateIssues`: missing, account not ACTIVE,
not eligible) and the rules. Whether media, account and instant pass is open, but while nothing
`changed` media are READY and the account ACTIVE, because the composer lists READY media and offers
active accounts only. The other targets of the draft may pass or not (`OthersMay`). Two checks of
the composer that the API has no counterpart of are left out: a schedule without an instant, and an
account without a target to choose.

`PlatformCalls` is what `PublishPipeline` takes all this for: one submission, accepted or refused,
answered or not, and polls that tell the state of the post. Under the refinement mapping every call
before the post is a stutter inside `submit`, and a post whose permalink is still being asked for is
not yet reported. `ImplementsCalls` is checked by TLC and proved.

`PlatformRules` holds the validation as pure operators: the rules themselves (`RuleIssues`), the two
different posts that composer (`PreflightPost`) and API (`CanonicalPost`) evaluate them on, and the
checks the adapters make later. Rules are not compared with a reference definition but with each
other: what one stage accepts, the next should not refuse.

### Drafts

`draft` rows carry their targets, the platforms in `canonicalPostJson` (`hint`) and a `version` that
stands for `updatedAt`, which is part of the idempotency key; `schedule` and `job` rows are in the
order of their creation; `entry` and `due` are the delayed entry of each job; `now` is the clock.
`request` holds the locals of each API request. `Init` starts with no draft, with a draft that was
composed before, or with one that overlapping publish-now requests have given several jobs
(`EarlierJob`). Every operation of DraftsService that changes state
starts with an action of its name (`Create`, `UpdatePlatforms` and `UpdateRow`, `Archive`,
`Duplicate`, `PublishNow`, `ScheduleDraft`, `Cancel`, `Reschedule`) and goes on call by call;
createJobs is `ReadDraft`, `FindJob`, `CreateJob`, `Enqueue`, cancelJob is `CancelCheck`,
`CancelWrite`, `ReadJobs`, `Sync`. A request may fail at any call. The worker is reduced to the row
updates the API can see (`StartJob`, `SkipJob`, `FinishJob`, `WorkerReadJobs`, `WorkerSync`) and
the sweep to `Recover`.

### MediaLibrary

`asset` holds MediaAsset rows with their variants and the number of thumbnails, `object` and
`upload` what S3 knows, `draft` status, media selections, and whether a draft has an uncancelled
schedule and jobs, `entry` and `task` the `media_ingest` entries. `UploadSingleFile` and
`UploadMultipartFile` are the two upload functions of the web application's media page, with the API
handler behind each of their calls: the file (`PutObject`) or its parts (`UploadParts`) go to S3 past
the API, and the browser may be closed after any call. Uploads, deletion, reprocessing and the
operations on drafts are requests that advance call by call, and `RequestFails` ends any of them
between two calls. On the side of drafts that is update with `UpdateMedia`, `SelectMedia` and
updateDraftReadiness (`ReadSelections`, `CountReady`, `SaveReadiness`), publishNow (`PublishCheck`,
`PublishWrite`), schedule (`ScheduleCheck`, `CreateJobs`, `ScheduleWrite`), `Reschedule`, `Cancel` with
`CancelWrite`, and `Archive`; `SyncDraftStatus` is whatever the jobs of a draft make of its status.
The media side only asks whether a draft is READY or SCHEDULED, so the other statuses are one.
processMediaIngest is a worker; processing may fail at any call, the catch block may fail, a process
may die, and the enqueue may be skipped. A job id contains the time of the call, so every add makes a
new entry.

### Accounts

One account with its `profile` rows and the `secret` rows of its credentials; actor 0 is the refresh
worker, the others are API requests. TikTok's refresh tokens are numbered by grant: `usable` are
those TikTok accepts, `Rotate` replaces the one it was shown, `AnswerLost` does so without the worker
learning of it. Logins (`StartConnection`, `Callback`, `SaveAccount`, `SaveTikTokAccount`,
`SaveProfile`, `SaveOwnProfile`), the storing of tokens (`StoreToken`, `FindSecret`, `WriteSecret`)
and ensureDefaultProfile (`FindDefault`, `FindFirst`, `MarkDefault`) advance one row at a time;
`Reconnect`, `Disconnect`, `ConnectMock` and `Refresh` with `ReadToken` and `Activate` are the rest
of ConnectionsService. `SweepFind` and `SweepAdd` are enqueueDueTokenRefreshJobs, `TakeEntry` to
`Refreshed` and `MarkExpired` are processTokenRefresh. Meta's tokens stay good when exchanged and
are not told apart.

## Runs

| Run | Instance | Question |
| --- | --- | --- |
| `faults` | 1 TikTok job, all faults, 1 crash, 2 attempts | do rows and posts agree whatever goes wrong? |
| `users` | 1 job, 1 client, 1 user retry, Redis down, dying requests | can anything rewrite an ended attempt? |
| `quiet` | 1 job, 1 client that may cancel, skipped enqueue, fair | in quiet operation: published once, rows agree, cancellations stick, nothing hangs? |
| `two_jobs` | 2 jobs on Facebook and Instagram, both workers | does the draft status only claim what happened? |
| `adapters` | every draft the composer passes on three platforms, 2 attempts, every call failing or losing its answer, fair | do the publishers implement `PlatformCalls`, are posts complete, do attempts end, do validation stages agree? |
| `drafts` | 2 drafts, 1 platform, all operations, 2 overlapping requests or 1 beside 2 jobs in the queue, 2 instants, fair | is a reading of a draft published once, on time, and really cancelled? |
| `media_ingest` | 1 converted video, 1 draft with every operation, 1 request that may be cut off, 2 entries, 1 mishap, fair | is READY publishable, is one thumbnail left, does processing end? |
| `accounts` | 1 account on each platform, 2 targets, all operations, 2 overlapping requests, sweep, worker, faults, fair | are defaults unique, tokens there and good, lost rotations noticed, refreshes ended? |
| `v_late_error` | violation of `AtMostOnce` | finding 1 |
| `v_waiting` | violation of `WaitingEnds` | finding 2 |
| `media_safe_delete` | violation of `SafeDelete` | finding 3 |
| `accounts_v_second_refresh` | violation of `DueIsRefreshed` | finding 4 |

Each property of a passing run has a mutant: a plausible slip in one definition (kept beside the
definition as *Seeded slip*) that makes the property fail under the run's own configuration.

### Findings

1. An error after a submission was accepted (a poll, or the validation before a resumed poll, fails)
   makes the job FAILED. The next BullMQ attempt resumes only WAITING_REMOTE rows, so it submits a
   second post.
2. A publish_remote run that still sees WAITING_REMOTE adds its own job id again while it is
   active. BullMQ ignores the add, the id stays taken after the run, and the sweep's add is ignored
   too: nobody polls again.
3. deleteMedia's count of the drafts that use the asset races drafts that take the asset up or become
   READY or SCHEDULED. `SafeDelete` is about the moment of the deletion. Its check is also the only one,
   and a READY or SCHEDULED draft can come to have deleted media with no race at all: nobody looks at
   the media again when `cancel` makes a PUBLISHED, FAILED or DRAFT draft READY (lines 557-562), when
   `reschedule` makes it SCHEDULED (616-622), when the jobs of such a draft go on (syncDraftStatus), or
   when an update of a READY draft, which may select deleted media, is cut off before
   updateDraftReadiness (between 235 and 265). The model has all of these behaviours; no document
   denies them.
4. The sweep refreshes an account once: `token_refresh_<account>` stays taken by the finished entry,
   so later adds are dropped until 200 other refreshes have completed, or for good if it failed.

Behaviour met while modelling that no run is spent on:

* cancelJob checks the status and updates the row in two calls; a job that completes in between
  ends CANCELLED although it is published.
* A user retry whose enqueue is skipped stays QUEUED: the sweep re-adds `publish_dispatch_<job>`, an
  id the finished first entry still holds. `QueuedIsPickedUp` is checked without user retries.
* A job rescheduled to a later instant still starts at the old one, because the worker does not ask
  for `runAt`; `NeverBeforeAsked` therefore speaks of the earliest instant anybody asked for.
* Two overlapping publish-now requests read different versions of the draft and may create two jobs
  for one platform; `OneJobPerReading` speaks of one version.
* A refresh that ends after a disconnection writes ACTIVE over REVOKED.
* A rotation that is cut off leaves a retired TikTok token stored (`LostIsNoticed` says that the
  account does not pass for refreshed); reconnect moves `tokenExpiresAt`
  on without refreshing anything; an account whose platform names no expiry is never swept.
* The event of a submission the platform rejected is logged as `JOB_WAITING_REMOTE`.

### Bounds, and why they are enough

* `MaxAttempts`: a run stops at the bound. Two attempts suffice for overlapping runs, a retry after
  a failure and a duplicate number; four in `quiet` let every BullMQ try of both entries run to its
  end, so that liveness is not an artefact of the bound (dispatch and remote entry, two tries each).
  In `adapters` two attempts are an attempt and what it leaves to the next.
* `DispatchTries`, `RemoteTries`, `RetryTries`, `IngestTries`, `ReprocessTries`: BullMQ's attempts
  (5, 5, 3, 5, 4 in the code) cut to 1 or 2. What matters is that a failing try is followed by
  another, and that there is a last one.
* `MaxRetries`, `MaxCrashes`, `MaxMishaps` bound user retries, dead processes and failing catch
  blocks to 0 or 1 each; `MaxEntries` = 2 lets an upload and a reprocessing be queued together.
* One process already has two workers that overlap on a job, because one job can be on both
  queues. A second process adds a second sweep; the theorems cover any number.
* One job, except in `two_jobs` and `drafts`: jobs meet only in the draft status and in createJobs'
  keys. One request at a time in the runs of `PublishPipeline` and in `media_ingest`, whose
  properties relate requests to workers; two in `media_safe_delete`, `drafts` and `accounts`, where
  requests race each other. The theorems cover any number.
* `drafts`: two instants make a job that is due later and one that is due now, and let a reschedule
  move a job both ways; two jobs are what two overlapping requests need to violate
  `OneJobPerReading`; the second draft is what create and duplicate make. A draft may also begin with
  two jobs that wait in the queue, made by two overlapping requests which count as one of the two; the
  request that is left, a cancel among others, works through both beside worker and sweep. With two
  requests under way a cancel finds one job at most; more of each at once is left to the theorem
  (`CancelIsComplete`). One platform: the loop over platforms repeats the same steps, and the proofs are
  for any set.
* `accounts`: one unit of time is both the life of a token and the look-ahead of the sweep, so a
  fresh token is due at once and has expired one tick later; Meta answers with no page or with both;
  three grants are a stored token, a rotation and a login.
* `adapters`: limits of 24 container polls, 7 remote polls and 10 items are cut to 2, which still
  tells the last poll from the others and a whole carousel from a part. The media lists are a photo, a
  video, a carousel and a mixed one; TikTok offers nothing, `SELF_ONLY`, or a public level first.

Deadlock is checked in the publish runs (the sweep always goes on) and in `media_safe_delete`. The
other models may stop: when every asset is settled and both entries are used up, when requests and
time are used up, or when the job has succeeded or used up its attempts.

### Fairness, and why the code justifies it

`FairSpec` of PublishPipeline: BullMQ workers run what is queued and the processor always goes on to
its next call (`WorkerStep`); the sweep timer fires (`SweepStep`); BullMQ finds stalled entries
(`StallEntry`); a platform settles what it accepted (`Settle`); a request that has begun is served.
Nothing is assumed of users, failures, evictions or of the number of polls, and only weak fairness
is used. MediaLibrary assumes the same of its workers and of stalled entries, and nothing of
requests or uploads. Drafts assumes it of the clock, the worker and the sweep (`Recover`), and
nothing of users, requests or Redis. Accounts assumes it of the clock, the sweep, the worker and
stalled entries; requests may die. PlatformAdapters assumes only that an attempt that was begun goes
on to its next call: containers may never finish and posts never settle, which is why `AttemptsEnd`
depends on the poll limits. A worker that is always free to proceed proceeds because every call it
awaits has a timeout or fails, which are the fault actions.

### Simplifications

* In PublishPipeline every job is due and all due jobs fit one batch of the sweep, so the order by
  `runAt`, the staleness limit on `updatedAt` and the batch limit are left out. The sweeps of one
  process do not overlap. Times are Drafts'.
* The event log, priorities and backoff are left out; in PublishPipeline a delayed entry is a waiting
  one, except that a run saves its outcome before an entry it requeued itself falls due, unless the
  fault `slow_save` is on.
* A re-add while an entry of the same id exists in any state is ignored, as BullMQ does; ids are
  freed only by eviction (`removeOnComplete: 200`).
* In MediaLibrary a draft's platforms are always there, files on disk are not modelled, the schedule
  row and the jobs of a draft are written in one step (Drafts has them one by one), and which status
  the jobs give it is open (PublishPipeline knows).
* In Drafts the sweep reads and adds in one step and the readiness of a draft is read and written in
  one step (MediaLibrary separates them); user retries are left out (`CancelLeavesNoneQueued` is
  about drafts nobody retries); FAILED stands for NEEDS_REAUTH too; a job is not polled.
* In Accounts calls that only ask the platform are one step with what follows from their answers;
  Meta's tokens are alike, and a secret row overwritten and one more row are the same to a reader of
  the newest; every default profile counts as eligible.
* PlatformRules leaves out flags that no connection ever sets to a refusing value, and warnings.
  In PlatformAdapters errors are the three classes the processor tells apart, and the chunks of an
  upload are one call.

## Theorems

For every set of jobs, processes, requests, assets, drafts and targets, every choice of the bounds
and every subset of the faults, from the named assumptions on the constants, and from the hypothesis
in brackets where a theorem has one:

| Module | Theorem | States |
| --- | --- | --- |
| PublishPipelineProofs | `TypeCorrect` | `TypeOK` |
| | `AttemptsAreExclusive` | two runs of one job never own the same attempt row |
| | `PostsHaveRows` | each accepted submission has a row in the attempt log |
| | `SuccessHasPost` | SUCCEEDED names a submission that its platform confirmed |
| | `WaitingHasPost` | WAITING_REMOTE names a submission that can be polled |
| | `DraftClaimsHold` | the draft never claims a publication that did not happen |
| QuietPipelineProofs | `EndedAttemptsAreFinal` | an attempt that ended stays as it ended [no call to the store fails] |
| | `QuietCancellation` | a cancellation no run overlaps is final [no user retries] |
| | `QuietOperation` | the invariant of quiet operation [quiet: no fault but Redis outages, no user retries] |
| | `QuietAtMostOnce` | a job is submitted at most once [quiet] |
| | `QuietRowsMatch` | a job at rest is what its last attempt says [quiet] |
| MediaLibraryProofs | `MediaTypeCorrect` | `TypeOK` |
| | `ReadyMediaIsPublishable` | READY media have their file and the variants that publishing needs |
| | `OneThumbnailSurvives` | an asset whose runs are over has one thumbnail, and never two [one process] |
| PlatformAdaptersProofs | `TypeCorrect` | `TypeOK` |
| | `Completeness` | a post has all media of its draft in order |
| | `NoDuplicateWithoutError` | a second submission follows a rejection or an error |
| | `Implementation` | `PlatformAdapters` implements `PlatformCalls` |
| PlatformRulesProofs | `LooksAgree` | the invariant of the validation stages |
| | `PreflightAgreement` | against an unchanged target the composer passed, the API holds only Instagram's limit, an instant in the past, or another target's TikTok options |
| | `NamedLevelStaysPrivate` | a named TikTok level is private when it is posted |
| | `RefusalsForeseen` | no adapter refuses what validate passed for an unchanged target [TikTok offers the private level] |
| DraftsProofs | `TypeCorrect` | `TypeOK` |
| | `UniqueJob` | requests that read one version create one job for a platform and an instant |
| | `CancelIsComplete` | a cancel that reports success has left none of its jobs queued |
| | `Punctual` | no job starts before the earliest instant asked for |
| AccountsProofs | `TypeCorrect` | `TypeOK` |
| | `SingleDefault` | at most one default profile |
| | `TargetsResolve` | a stored Meta target has a token |
| | `HealthIsTrue` | a healthy Meta account has a default target with a token |
| | `StoredTokenGood` | the newest stored TikTok token is good unless a rotation was cut off |

**PublishPipelineProofs.** None of these is inductive. `IInv` adds what the rows alone do not tell:
`RunInv`, what a run knows between its calls (the attempt row it created exists and still carries
no other post; the submission it resumes or made is with the platform; an outcome SUCCEEDED it is
about to save was confirmed), `ClientInv` (a request under way works on a job), `PostsFit` (which
platform can have which post state) and `Claims` (every draft status some actor has computed and
not yet written is a true claim: without it the late write of a stale read could not be handled).
Knowledge of one actor survives the steps of all others because of `Grows`: no step removes an
attempt row or takes back an accepted or confirmed post. The lemmas follow this split: types
(`*Type`), growth (`*Grows`), a run's own steps and the frame (`*Run*`), then one lemma per
property. The unique index is what makes `AttemptsExclusive` hold: `CreateExclusive` uses that a
new row has a number no run owns yet.

**QuietPipelineProofs.** These properties are false under all faults (findings 1 and 2 are two ways),
so each theorem names the faults it excludes, and no more: `EndedAttemptsAreFinal` allows crashes, two
queues, retries and outages, because a run whose attempt has not ended finds it RUNNING (`OwnRow`),
which only a failed write between the attempt and the job row breaks. `QuietCancellation` allows every
fault: `CancelledUnattended` holds for ever once it holds, since each run reads the row first and only
retryJob writes over a cancellation. `QuietAtMostOnce` and `QuietRowsMatch` need an invariant of the
whole hand-over, `QInv`: `QueueQuiet` (an entry is active exactly while one worker has it), `HandOver`
(the remote-status entry exists before the row says WAITING_REMOTE, and is not taken before the
dispatch run has written its last), `Once` (only the dispatch run submits, and is not run again after
it did) and `RowsAgree` (what runs have numbered and written). It fits the code's reason for publishing
once: not a lock, but that exactly one entry at a time is allowed to act on a row. TLC checked `QInv`
on the instance of `quiet` with one process and with two before it was proved.

**MediaLibraryProofs.** `WorkerKnows` is what a run has made sure of when it is at a given call
(file downloaded, normalized variant saved if needed, original variant saved). `Grows` says nobody
removes a file or a variant or renames the asset of a running entry; `ReadyByRun` that READY is
written at one place only. `Fits`, `EntryFits` and `WorkerFits` say that requests, entries and
workers point to what exists. `OneThumbnailSurvives` needs `TInv`: a READY asset without a thumbnail has
an entry that has not completed and will add it (`ThumbnailDue`), and a run has cleared before it adds
(`RunCounts`). Its hypothesis is one process of `apps/worker`, which has one worker on this queue; two
processes may both clear and then both add.

**PlatformAdaptersProofs.** `Memory` says what an attempt remembers of the submissions, `PostsMade`
which posts exist. `Tracked` is the heart: a post that is not settled is the one the job polls, the
one whose permalink it asks for, or one that an error made it forget. `ItemsGiven` counts containers,
from which `PostsAreComplete` follows at the one step that publishes. The refinement proof maps the
initial state, then each action to the action of `PlatformCalls` it is or to a stutter; it needs
`IInv` because a poll means the same on both sides only while the polled post exists.

**PlatformRulesProofs.** `Looked` says that the flags, the composer's verdict and the API's verdict
stay true of the draft until the target changes, `LevelKept` that a TikTok call carries the level the
draft names. On top of it the theorems are case analyses over the rules, for drafts with any media:
what the composer passes, `Validate` passes but for the exceptions that `PreflightAgrees` lists, and
what `ValidateIssues` passes neither `Unhealthy` nor `MediaRefused` nor `LevelRefused` refuses. The
last depends on what nothing in the code checks: that a creator who is offered any level is offered `SELF_ONLY` (`PrivateIsOffered`), since
validation passes no named level that is sent as another.

**DraftsProofs.** `Knows` says what a request has made sure of in the middle of its loop (jobs of
`found` that are not in `jobs` any more are not queued), `FreeRows` that a job row nobody created is
not queued, `NotEarly` that neither row nor entry fires before `asked`, `WorkerHasJob` that a run
belongs to a draft. `JobsKept` is the frame: what the steps of one actor leave of the knowledge of
another. That `CancelLeavesNoneQueued` survives the steps of other requests rests on no action of
the module making an existing job QUEUED again.

**AccountsProofs.** `OneDefault` is not protected by any index: it holds because all overlapping
ensureDefaultProfile runs mark the same row, the first one created (`Profiles`). `Secrets` says that
a Meta account has its user's token before its first page. `Tokens` is about hands: each of TikTok's
refresh tokens is held by at most one actor, what a request holds is usable and not stored yet, and
only the worker shows a token to TikTok, so a rotation retires nothing that somebody else is about to
store.

**JobQueueProofs** holds what the others use of the BullMQ operators.

Only model-checked: liveness (`QueuedIsPickedUp`, `RunningEnds`, `QueuedIngestSettles`, `DueJobRuns`,
`LostIsNoticed`, `DueRefreshEnds`, `AttemptsEnd`; fairness and ENABLED are out of the prover's
reach), and the four properties that the runs refute. Every safety invariant and every action property of a passing run is
stated by a theorem. There are no recursive definitions, so nothing needs induction over data.

## Not modelled, and why

* Auth and sessions, workspaces and settings: each call works on rows of its own user or workspace
  and races with nothing else here; health probes and listings only read.
* Folders, tags, the duplicate hint, bulk delete and signed URLs of the media library; caption
  variants of drafts; the event and audit logs: payload that no other state depends on.
* `queueUnavailable` as a flag (adds that may be skipped at any time cover what it does), the batch
  limit and the staleness limit of the recovery sweep, the unhandled rejection of a sweep (a crash).
* Several accounts of one platform and the choice among them, and the Meta and TikTok payloads.
* Mock adapters, cryptographic helpers, configuration, the UI kit, and the rendering and form state
  of the web application.

What would come next: the recovery sweep with its batch limit and staleness over more jobs, and
sessions.

## Running

    tlc -config Pipeline_faults.cfg MCPublishPipeline
    tlc -config Adapters_all.cfg MCPlatformAdapters
    tlc -config Drafts_all.cfg Drafts
    tlc -config Accounts_all.cfg MCAccounts
    tlc -config Media_ingest.cfg MediaLibrary
    tlapm PublishPipelineProofs.tla

Each run takes from seconds to a few minutes with two TLC workers, each proof module a few minutes
from nothing.

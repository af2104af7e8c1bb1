-------------------------- MODULE PlatformAdapters --------------------------
(***************************************************************************)
(* The publishers of Instagram, Facebook and TikTok: the calls that one    *)
(* publish job of a draft makes to its platform, attempt after attempt,    *)
(* and what the platform does with them.                                   *)
(*                                                                         *)
(*   API       DraftsService.validate, on what the composer has let pass;  *)
(*   worker    validateConnection, validateMedia, submitPublish and        *)
(*             pollUntilRemoteSettles, one remote call at a time;          *)
(*   platform  works on containers and posts, and may change the target.   *)
(*                                                                         *)
(* An attempt ends with an answer or an error; the next one is BullMQ's or *)
(* the user's.                                                             *)
(***************************************************************************)
EXTENDS PlatformRules, PlatformContract, FiniteSets

CONSTANTS
  DraftChoices,    \* the drafts that may be published
  PrivacyLevels,   \* the privacy levels of TikTok
  LevelLists,      \* the lists of them that it may offer a creator
  MaxCarousel,     \* items of an Instagram carousel (10)
  ContainerPolls,  \* CONTAINER_POLL_ATTEMPTS (24)
  RemotePolls,     \* polls of a round: REMOTE_STATUS_POLL_ATTEMPTS and a last one (7)
  MaxAttempts      \* bound: attempts of the job

ASSUME AdaptersAssumption ==
  /\ MaxCarousel \in Nat \ {0} /\ ContainerPolls \in Nat \ {0}
  /\ RemotePolls \in Nat \ {0} /\ MaxAttempts \in Nat \ {0}
  /\ \A d \in DraftChoices :
       /\ d.platforms \subseteq Platforms
       /\ d.media \in Seq({"IMAGE", "VIDEO"}) /\ d.media # <<>>
       /\ d.reel \in BOOLEAN /\ d.privacyLevel \in PrivacyLevels \cup {NoLevel, "PRIVATE"}
  /\ "SELF_ONLY" \in PrivacyLevels /\ LevelLists \subseteq Seq(PrivacyLevels)

Attempts == 1 .. MaxAttempts

VARIABLES
  draft,      \* the draft
  platform,   \* the platform of the job
  flags,      \* the stored capability flags of the target
  levels,     \* the privacy levels TikTok offers the creator now
  errors,     \* what validate said against the draft and this target
  changed,    \* history: target, account or media are not what they were
  run,        \* the locals of the current attempt
  post,       \* what the platform did with the submission of each attempt
  content,    \* the media of each post
  shown,      \* the privacy level of each post
  abandoned   \* history: attempts that ended with an error after their
              \* submission was accepted

vars == <<draft, platform, flags, levels, errors, changed, run, post, content, shown, abandoned>>

target == <<draft, platform, flags, levels, errors, changed>>
posts == <<post, content, shown>>

-----------------------------------------------------------------------------
(* Types and initial states. *)

PC == {"composed", "refused", "idle", "connection", "media", "photos", "permalink", "reelStart", "reelUpload",
       "reelFinish", "videos", "container", "wait", "publish", "creatorInfo", "photoInit",
       "videoInit", "videoUpload", "poll"}

(* rid is the submission to poll, level the one TikTok is sent; made       *)
(* containers were created, the last of which is in state container.       *)
Run == [num : 0 .. MaxAttempts, pc : PC, rid : 0 .. MaxAttempts,
        result : {"none", "SUCCEEDED", "FAILED", "WAITING_REMOTE"} \cup ErrorKinds,
        polls : Nat, made : Nat, container : {"none", "IN_PROGRESS", "FINISHED", "ERROR"},
        level : PrivacyLevels \cup {NoLevel}]

TypeOK ==
  /\ draft \in DraftChoices
  /\ platform \in draft.platforms /\ levels \in LevelLists
  /\ errors \subseteq Messages
  /\ changed \in BOOLEAN
  /\ run \in Run
  /\ post \in [Attempts -> Accepted \cup {"none"}]
  /\ content \in [Attempts -> Seq({"IMAGE", "VIDEO"})]
  /\ shown \in [Attempts -> PrivacyLevels \cup {NoLevel}]
  /\ abandoned \subseteq Attempts

(* The flags that a connection to p may have stored, if TikTok offered     *)
(* these levels then.  The callback turns an empty list into SELF_ONLY,    *)
(* the worker's refresh stores it; both store SELF_ONLY if TikTok did not  *)
(* answer.                                                                 *)
FlagsOf(p, offered) ==
  CASE p = "INSTAGRAM" -> {InstagramFlags}
    [] p = "FACEBOOK"  -> {FacebookFlags(task) : task \in BOOLEAN}
    [] p = "TIKTOK"    -> {[TikTokFlags(direct, upload, offered) EXCEPT !.supportedPrivacyLevels = known] :
                             direct, upload \in BOOLEAN, known \in {offered, <<"SELF_ONLY">>}}

NotRun == {"composed", "refused", "idle"}

Fresh == [num |-> 0, pc |-> "composed", rid |-> 0, result |-> "none", polls |-> 0, made |-> 0,
          container |-> "none", level |-> NoLevel]

(* The composer submits a draft only if it finds nothing against it and    *)
(* each of its targets, which are those of active accounts.                *)
Init ==
  /\ draft \in DraftChoices /\ platform \in draft.platforms
  /\ levels \in LevelLists /\ flags \in FlagsOf(platform, levels)
  /\ PreflightIssues(draft, platform, "ACTIVE", flags) = {}
  /\ \A p \in draft.platforms \ {platform} :
       \E f \in FlagsOf(p, levels) : PreflightIssues(draft, p, "ACTIVE", f) = {}
  /\ errors = {} /\ changed = FALSE
  /\ run = Fresh
  /\ post = [n \in Attempts |-> "none"] /\ content = [n \in Attempts |-> <<>>]
  /\ shown = [n \in Attempts |-> NoLevel] /\ abandoned = {}

-----------------------------------------------------------------------------
(* Helpers. *)

At(pc) == run.pc = pc
Goto(pc) == run' = [run EXCEPT !.pc = pc]
media == draft.media
request == JobPost(draft, platform)

(* The attempt ends with an error. *)
Fail(kind) ==
  /\ run' = [run EXCEPT !.pc = "idle", !.rid = 0, !.result = kind]
  /\ abandoned' = abandoned \cup ({run.rid} \ {0})
                    \cup {n \in {run.num} : At("permalink")}

(* The platform takes on the submission, with these items. *)
AcceptPost(answer, items) ==
  /\ post' = [post EXCEPT ![run.num] = PostOf(answer)]
  /\ content' = [content EXCEPT ![run.num] = items]
  /\ shown' = [shown EXCEPT ![run.num] = run.level]

(* Accepted as still processing: it is polled next. *)
Submitted ==
  run' = [run EXCEPT !.pc = "poll", !.rid = run.num, !.result = "WAITING_REMOTE", !.polls = 0]

-----------------------------------------------------------------------------
(* The common part *)

(* The other targets of the draft: each of them may have been refused      *)
(* meanwhile, and each pass if the composer's look at it still holds.      *)
OthersMay(pass) ==
  IF pass
  THEN \A p \in draft.platforms \ {platform} :
         \E f \in FlagsOf(p, levels) : ValidateIssues(draft, p, "ACTIVE", f, FALSE) = {}
  ELSE draft.platforms # {platform}

(* EXPIRED stands for every status but ACTIVE, NONE for a target row that   *)
(* is missing.                                                             *)
AccountStatus == {"ACTIVE", "EXPIRED", "NONE"}

(* A job is created only if validate has nothing against the draft and     *)
(* each of its targets.                                                    *)
Validate ==
  /\ At("composed")
  /\ \E account \in AccountStatus, ready, late, limitReached, pass \in BOOLEAN :
       /\ ~changed => account = "ACTIVE" /\ ready
       /\ OthersMay(pass)
       /\ errors' = DraftIssues(draft, ready, late)
                      \cup ValidateIssues(draft, platform, account, flags, limitReached)
       /\ Goto(IF errors' = {} /\ pass THEN "idle" ELSE "refused")
  /\ UNCHANGED <<draft, platform, flags, levels, changed, posts, abandoned>>

(* Seeded slip: a submission is never resumed. *)
StartAnew ==
  /\ At("idle") /\ run.num < MaxAttempts /\ run.result # "SUCCEEDED"
  /\ run' = [Fresh EXCEPT !.num = run.num + 1, !.pc = "connection"]
  /\ UNCHANGED <<target, posts, abandoned>>

(* The next attempt resumes what still waits for the platform. *)
Start ==
  /\ At("idle") /\ run.num < MaxAttempts /\ run.result # "SUCCEEDED"
  /\ run' = [Fresh EXCEPT !.num = run.num + 1, !.pc = "connection",
                          !.rid = IF run.result = "WAITING_REMOTE" THEN run.rid ELSE 0]
  /\ UNCHANGED <<target, posts, abandoned>>

ValidateConnection ==
  /\ At("connection")
  /\ IF Unhealthy(platform, flags) THEN Fail("auth") ELSE Goto("media") /\ UNCHANGED abandoned
  /\ UNCHANGED <<target, posts>>

(* The first call of submitPublish. *)
FirstCall ==
  CASE platform = "INSTAGRAM" -> "container"
    [] platform = "TIKTOK"    -> "creatorInfo"
    [] platform = "FACEBOOK"  ->
         IF media[1] = "IMAGE" THEN "photos" ELSE IF draft.reel THEN "reelStart" ELSE "videos"

ValidateMedia ==
  /\ At("media")
  /\ IF MediaRefused(platform, media, MaxCarousel)
     THEN Fail("validation")
     ELSE Goto(IF run.rid # 0 THEN "poll" ELSE FirstCall) /\ UNCHANGED abandoned
  /\ UNCHANGED <<target, posts>>

-----------------------------------------------------------------------------
(* FacebookPublisher *)

(* The photo is live when the call answers; its permalink is asked for. *)
Photos ==
  /\ At("photos")
  /\ AcceptPost("SUCCEEDED", <<media[1]>>)
  /\ Goto("permalink")
  /\ UNCHANGED <<target, abandoned>>

Videos ==
  /\ At("videos")
  /\ AcceptPost("WAITING_REMOTE", <<media[1]>>)
  /\ Submitted
  /\ UNCHANGED <<target, abandoned>>

(* publishReel: only the last of its three calls publishes. *)
ReelStart == At("reelStart") /\ Goto("reelUpload") /\ UNCHANGED <<target, posts, abandoned>>

ReelUpload == At("reelUpload") /\ Goto("reelFinish") /\ UNCHANGED <<target, posts, abandoned>>

ReelFinish ==
  /\ At("reelFinish")
  /\ AcceptPost("WAITING_REMOTE", <<media[1]>>)
  /\ Submitted
  /\ UNCHANGED <<target, abandoned>>

-----------------------------------------------------------------------------
(* InstagramPublisher *)

(* A carousel needs one container for each item and one for the whole. *)
Containers == IF Len(media) > 1 THEN Len(media) + 1 ELSE 1

CreateContainer ==
  /\ At("container")
  /\ run' = [run EXCEPT !.pc = "wait", !.made = @ + 1, !.container = "IN_PROGRESS", !.polls = 0]
  /\ UNCHANGED <<target, posts, abandoned>>

(* Seeded slip: the polls are not counted. *)
WaitForEver ==
  /\ At("wait")
  /\ CASE run.container = "FINISHED" ->
            Goto(IF run.made < Containers THEN "container" ELSE "publish") /\ UNCHANGED abandoned
       [] run.container = "ERROR" -> Fail("validation")
       [] OTHER -> UNCHANGED <<run, abandoned>>
  /\ UNCHANGED <<target, posts>>

(* Seeded slip: the last item is left out. *)
WaitShort ==
  /\ At("wait")
  /\ CASE run.container = "FINISHED" ->
            Goto(IF run.made < Containers - 1 THEN "container" ELSE "publish")
              /\ UNCHANGED abandoned
       [] run.container = "ERROR" -> Fail("validation")
       [] run.container = "IN_PROGRESS" /\ run.polls + 1 = ContainerPolls -> Fail("transient")
       [] OTHER -> run' = [run EXCEPT !.polls = @ + 1] /\ UNCHANGED abandoned
  /\ UNCHANGED <<target, posts>>

(* waitForContainer: one poll, five seconds after the last. *)
WaitForContainer ==
  /\ At("wait")
  /\ CASE run.container = "FINISHED" ->
            Goto(IF run.made < Containers THEN "container" ELSE "publish") /\ UNCHANGED abandoned
       [] run.container = "ERROR" -> Fail("validation")
       [] run.container = "IN_PROGRESS" /\ run.polls + 1 = ContainerPolls -> Fail("transient")
       [] OTHER -> run' = [run EXCEPT !.polls = @ + 1] /\ UNCHANGED abandoned
  /\ UNCHANGED <<target, posts>>

(* The items whose containers the published one was made of. *)
Published == IF Len(media) > 1 THEN SubSeq(media, 1, run.made - 1) ELSE media

MediaPublish ==
  /\ At("publish")
  /\ AcceptPost("SUCCEEDED", Published)
  /\ Goto("permalink")
  /\ UNCHANGED <<target, abandoned>>

(* Of Instagram and of Facebook photos; the run ends. *)
FetchPermalink ==
  /\ At("permalink")
  /\ run' = [run EXCEPT !.pc = "idle", !.rid = run.num, !.result = "SUCCEEDED"]
  /\ UNCHANGED <<target, posts, abandoned>>

-----------------------------------------------------------------------------
(* TikTokPublisher *)

QueryCreatorInfo ==
  /\ At("creatorInfo")
  /\ LET level == request.privacyLevel
     IN  IF LevelRefused(platform, level, levels)
         THEN Fail("validation")
         ELSE /\ run' = [run EXCEPT !.pc = IF media[1] = "IMAGE" THEN "photoInit" ELSE "videoInit",
                                    !.level = LevelSent(level, levels)]
              /\ UNCHANGED abandoned
  /\ UNCHANGED <<target, posts>>

(* TikTok fetches the photos itself. *)
PhotoInit ==
  /\ At("photoInit")
  /\ AcceptPost("WAITING_REMOTE", media)
  /\ Submitted
  /\ UNCHANGED <<target, abandoned>>

(* A video is uploaded to the place the first call names; a draft upload   *)
(* goes to the inbox of the creator without a level.                       *)
VideoInit ==
  /\ At("videoInit")
  /\ run' = [run EXCEPT !.pc = "videoUpload",
                        !.level = IF request.mode = "DIRECT" THEN @ ELSE NoLevel]
  /\ UNCHANGED <<target, posts, abandoned>>

VideoUpload ==
  /\ At("videoUpload")
  /\ AcceptPost("WAITING_REMOTE", <<media[1]>>)
  /\ Submitted
  /\ UNCHANGED <<target, abandoned>>

-----------------------------------------------------------------------------
(* Polling *)

(* What Facebook says of a video: its status and those of two phases. *)
Phases(s) ==
  CASE s = "processing" -> {"processing", "in_progress", "not_started"}
    [] s = "processed"  -> {"processing", "complete", "not_started"}
    [] s = "live"       -> {"ready", "complete"}
    [] s = "failed"     -> {"error", "not_started"}
    [] s = "withdrawn"  -> {"error", "complete"}

(* Seeded slip: success is looked for before failure. *)
FacebookStatusHasty(phases) ==
  IF phases \cap {"complete", "completed", "published", "ready"} # {} THEN "SUCCEEDED"
  ELSE IF "error" \in phases THEN "FAILED"
  ELSE "WAITING_REMOTE"

(* pollStatus of FacebookPublisher: some() phase decides. *)
FacebookStatus(phases) ==
  IF "error" \in phases THEN "FAILED"
  ELSE IF phases \cap {"complete", "completed", "published", "ready"} # {} THEN "SUCCEEDED"
  ELSE "WAITING_REMOTE"

(* Seeded slip: TikTok's word is taken as it is. *)
TikTokStatusRaw(s) == s

(* readTikTokStatus *)
TikTokStatus(s) ==
  CASE s = "failed" -> "FAILED" [] s = "live" -> "SUCCEEDED" [] OTHER -> "WAITING_REMOTE"

PollStatus(s) == IF platform = "FACEBOOK" THEN FacebookStatus(Phases(s)) ELSE TikTokStatus(s)

(* pollUntilRemoteSettles: one poll, ten seconds after the last. *)
Poll ==
  /\ At("poll")
  /\ LET status == PollStatus(post[run.rid])
     IN  run' = IF status = "WAITING_REMOTE" /\ run.polls + 1 < RemotePolls
                THEN [run EXCEPT !.polls = @ + 1]
                ELSE [run EXCEPT !.pc = "idle", !.result = status]
  /\ UNCHANGED <<target, posts, abandoned>>

-----------------------------------------------------------------------------
(* Failures, and the platform *)

(* A call of the attempt is refused, fails, or finds no token or no media. *)
CallFails(kind) ==
  /\ run.pc \notin NotRun
  /\ Fail(kind)
  /\ UNCHANGED <<target, posts>>

(* The platform publishes, but its answer is lost or cannot be read. *)
AnswerLost(kind) ==
  /\ \/ At("photos") /\ AcceptPost("SUCCEEDED", <<media[1]>>)
     \/ At("publish") /\ AcceptPost("SUCCEEDED", Published)
     \/ At("photoInit") /\ AcceptPost("WAITING_REMOTE", media)
     \/ /\ At("videos") \/ At("reelFinish") \/ At("videoUpload")
        /\ AcceptPost("WAITING_REMOTE", <<media[1]>>)
  /\ run' = [run EXCEPT !.pc = "idle", !.rid = 0, !.result = kind]
  /\ abandoned' = abandoned \cup {run.num}
  /\ UNCHANGED target

ContainerEnds ==
  /\ run.container = "IN_PROGRESS"
  /\ \E s \in {"FINISHED", "ERROR"} : run' = [run EXCEPT !.container = s]
  /\ UNCHANGED <<target, posts, abandoned>>

FinishProcessing(n) ==
  /\ platform = "FACEBOOK" /\ post[n] = "processing"
  /\ post' = [post EXCEPT ![n] = "processed"]
  /\ UNCHANGED <<target, run, content, shown, abandoned>>

Settle(n) ==
  /\ \E s \in Outcomes(post[n]) : post' = [post EXCEPT ![n] = s]
  /\ UNCHANGED <<target, run, content, shown, abandoned>>

(* The user loses a task of the page, TikTok offers other levels, or, which *)
(* only validate asks for, the account is disconnected, or the target row  *)
(* or media are taken away.                                                *)
TargetChanges ==
  /\ ~changed /\ changed' = TRUE
  /\ levels' \in LevelLists /\ flags' \in FlagsOf(platform, levels')
  /\ UNCHANGED <<draft, platform, errors, run, posts, abandoned>>

-----------------------------------------------------------------------------
Continue ==
  \/ ValidateConnection \/ ValidateMedia
  \/ Photos \/ Videos \/ ReelStart \/ ReelUpload \/ ReelFinish
  \/ CreateContainer \/ WaitForContainer \/ MediaPublish \/ FetchPermalink
  \/ QueryCreatorInfo \/ PhotoInit \/ VideoInit \/ VideoUpload
  \/ Poll

Next ==
  \/ Validate \/ Start \/ Continue
  \/ \E kind \in ErrorKinds : CallFails(kind) \/ AnswerLost(kind)
  \/ ContainerEnds \/ TargetChanges
  \/ \E n \in Attempts : FinishProcessing(n) \/ Settle(n)

(* A run that was begun goes on; nothing is assumed of the platform, of    *)
(* retries and of the user.                                                *)
Spec == Init /\ [][Next]_vars /\ WF_vars(Continue)

-----------------------------------------------------------------------------
(* Refinement. *)

(* A post whose permalink is still asked for is not yet reported. *)
Reported == IF At("permalink") THEN [post EXCEPT ![run.num] = "none"] ELSE post

Calls == INSTANCE PlatformCalls WITH
  post <- Reported, num <- run.num, rid <- run.rid, result <- run.result,
  pc <- IF run.pc \in NotRun THEN "idle" ELSE IF At("poll") THEN "poll" ELSE "submit"

(* However many calls a publisher makes, and wherever one fails, the rest  *)
(* of the pipeline sees one submission, accepted or refused, answered or   *)
(* not, and polls that tell the state of the post.                         *)
ImplementsCalls == Calls!Spec

-----------------------------------------------------------------------------
(* Properties. *)

(* What validate has passed, the adapters do not refuse on their own, nor  *)
(* does the connection page report a failed check of the target, as long   *)
(* as the target is what it was and a carousel is not too long.            *)
RulesForeseeRefusals ==
  ~changed /\ run.pc \notin {"composed", "refused"} /\ Len(media) <= MaxCarousel =>
    /\ ~Unhealthy(platform, flags)
    /\ ~MediaRefused(platform, media, MaxCarousel)
    /\ ~LevelRefused(platform, request.privacyLevel, levels)
    /\ FailedFlagChecks(platform, flags, FALSE) = {}

(* While target, account and media are what the composer saw, validate     *)
(* says against a target that the composer let pass only what the composer *)
(* never asks for, the limit of Instagram and an instant in the past, and  *)
(* if TikTok is another target of the draft, that this one does not take   *)
(* its options: the API shows them to every target, the composer does not. *)
PreflightAgrees ==
  ~changed => errors \subseteq
    {"publish_limit_reached", "scheduled_in_past"} \cup
    (IF "TIKTOK" \in draft.platforms \ {platform}
     THEN {"disable_comments_unsupported", "privacy_level_unsupported"} ELSE {})

(* A post has all the media of the draft in their order: no item of a      *)
(* carousel is lost between the containers, and Facebook and TikTok, which *)
(* send the first item, are never given more.                              *)
PostsAreComplete == \A n \in Attempts : post[n] # "none" => content[n] = media

(* A second submission is made only if the one before was rejected, or     *)
(* accepted in an attempt that yet ended with an error: polls that time    *)
(* out are resumed.                                                        *)
DuplicatesOnlyAfterError ==
  \A m, n \in Attempts :
    /\ m < n /\ post[n] # "none" /\ post[m] \in {"processing", "processed", "live"}
    => m \in abandoned

(* Every attempt ends although Instagram may never finish a container and  *)
(* no post may ever settle.                                                *)
AttemptsEnd == run.pc \notin NotRun ~> run.pc \in NotRun

(* A level that a TikTok draft names is private by the time it is posted   *)
(* directly, because no client is audited: composer, API and adapter each  *)
(* look at it, with levels read at three different times.                  *)
NamedLevelIsPrivate ==
  platform = "TIKTOK" /\ request.mode = "DIRECT" /\ request.privacyLevel # NoLevel =>
    \A n \in Attempts : post[n] # "none" => shown[n] = "SELF_ONLY"
=============================================================================

------------------------ MODULE PlatformRulesProofs ------------------------
(***************************************************************************)
(* Proofs about the three looks that are taken at a draft before a         *)
(* platform sees it: the composer's preflight, DraftsService.validate and  *)
(* the adapter's own checks.                                               *)
(*                                                                         *)
(* The lemmas about the rules hold for every draft and every target that   *)
(* a connection may have stored.  The theorems follow with two short       *)
(* invariants on top of the one of PlatformAdaptersProofs.                 *)
(***************************************************************************)
EXTENDS PlatformAdaptersProofs

-----------------------------------------------------------------------------
(* What the rules report. *)

(* A draft that passes the rules for a target: what each of them says. *)
LEMMA PassedRules ==
  ASSUME NEW p \in Platforms, NEW list, NEW mode, NEW p1, NEW fl, NEW limitReached \in BOOLEAN,
         RuleIssues(p, list, mode, p1, fl, limitReached) = {}
  PROVE  /\ MediaType(list) = "CAROUSEL" => fl.supportsCarousel
         /\ p1.privacyLevel # NoLevel /\ fl.supportedPrivacyLevels # <<>> =>
              p1.privacyLevel \in ToSet(fl.supportedPrivacyLevels)
         /\ p = "FACEBOOK" => fl.hasCreateContentTask
         /\ p = "TIKTOK" /\ mode = "DIRECT" => NormalizePrivacy(p1.privacyLevel) \in {NoLevel, "SELF_ONLY"}
BY DEF RuleIssues, SharedIssues, TikTokIssues, Issue, Platforms

(* What the composer passes: of the draft, and of the target.              *)
LEMMA PassedPreflight ==
  ASSUME NEW d, NEW p \in Platforms, NEW fl, PreflightIssues(d, p, "ACTIVE", fl) = {}
  PROVE  /\ Incomplete(d) = {}
         /\ Eligible(p, fl)
         /\ RuleIssues(p, d.media, ModeFor(d, p), PreflightPost(d, p), fl, FALSE) = {}
<1>1. Incomplete(d) \cup Issue("target_not_eligible", ~Eligible(p, fl))
        \cup RuleIssues(p, d.media, ModeFor(d, p), PreflightPost(d, p), fl, FALSE) = {}
  BY DEF PreflightIssues
<1>2. Issue("target_not_eligible", ~Eligible(p, fl)) = {} => Eligible(p, fl)
  BY DEF Issue
<1> QED BY <1>1, <1>2

(* What validate passes satisfies the rules. *)
LEMMA PassedValidate ==
  ASSUME NEW d, NEW p \in Platforms, NEW account, NEW fl, NEW limitReached,
         ValidateIssues(d, p, account, fl, limitReached) = {}
  PROVE  RuleIssues(p, d.media, ModeFor(d, p), CanonicalPost(d), fl, limitReached) = {}
BY DEF ValidateIssues

(* The composer and the API make the same post of a draft for TikTok, and  *)
(* of a draft that has nothing to do with TikTok.                          *)
LEMMA SamePost ==
  ASSUME NEW d, NEW p \in Platforms, p \in d.platforms, p = "TIKTOK" \/ "TIKTOK" \notin d.platforms
  PROVE  PreflightPost(d, p) = CanonicalPost(d)
BY DEF PreflightPost, CanonicalPost, Platforms

(* What a stored target looks like.                                        *)
LEMMA StoredFlags ==
  ASSUME NEW p \in Platforms, NEW offered, NEW f \in FlagsOf(p, offered)
  PROVE  /\ p # "INSTAGRAM" => f.supportsCarousel = FALSE
         /\ p = "TIKTOK" => f.supportedPrivacyLevels \in {offered, <<"SELF_ONLY">>}
         /\ p # "TIKTOK" => f.supportedPrivacyLevels = <<>>
<1>1. CASE p = "INSTAGRAM"
  BY <1>1 DEF FlagsOf, InstagramFlags, Flags
<1>2. CASE p = "FACEBOOK"
  BY <1>2 DEF FlagsOf, FacebookFlags, Flags
<1>3. CASE p = "TIKTOK"
  <2>1. PICK direct \in BOOLEAN, upload \in BOOLEAN, known \in {offered, <<"SELF_ONLY">>} :
          f = [TikTokFlags(direct, upload, offered) EXCEPT !.supportedPrivacyLevels = known]
    BY <1>3 DEF FlagsOf
  <2> QED BY <1>3, <2>1 DEF TikTokFlags, Flags
<1> QED BY <1>1, <1>2, <1>3 DEF Platforms

(* What the rules say of a stored target that they passed for the          *)
(* composer, when they are shown the post of the API.                      *)
LEMMA RulesAgree ==
  ASSUME NEW d, NEW p \in Platforms, p \in d.platforms, NEW offered, NEW f \in FlagsOf(p, offered),
         NEW mode, NEW limitReached,
         RuleIssues(p, d.media, mode, PreflightPost(d, p), f, FALSE) = {}
  PROVE  RuleIssues(p, d.media, mode, CanonicalPost(d), f, limitReached) \subseteq
           {"publish_limit_reached"} \cup
           (IF "TIKTOK" \in d.platforms \ {p}
            THEN {"disable_comments_unsupported", "privacy_level_unsupported"} ELSE {})
<1>1. CASE p = "TIKTOK" \/ "TIKTOK" \notin d.platforms
  <2>1. PreflightPost(d, p) = CanonicalPost(d)
    BY <1>1, SamePost
  <2> DEFINE p1 == CanonicalPost(d)
  <2>2. RuleIssues(p, d.media, mode, p1, f, FALSE) = {}
    BY <2>1
  <2> HIDE DEF p1
  <2>3. RuleIssues(p, d.media, mode, p1, f, limitReached) \subseteq {"publish_limit_reached"}
    BY <2>2 DEF RuleIssues, Issue, Platforms
  <2> QED BY <2>3 DEF p1
<1>2. CASE p # "TIKTOK" /\ "TIKTOK" \in d.platforms
  <2> DEFINE p1 == PreflightPost(d, p)
             p2 == CanonicalPost(d)
  <2>1. f.supportedPrivacyLevels = <<>>
    BY <1>2, StoredFlags
  <2> HIDE DEF p1, p2
  <2>2. SharedIssues(d.media, p1, f) = {} /\ RuleIssues(p, d.media, mode, p1, f, FALSE) = {}
    BY DEF RuleIssues, p1
  <2>3. ~(MediaType(d.media) = "CAROUSEL" /\ ~f.supportsCarousel)
    BY <2>2 DEF SharedIssues, Issue
  <2>4. SharedIssues(d.media, p2, f) \subseteq {"disable_comments_unsupported", "privacy_level_unsupported"}
    BY <2>1, <2>3 DEF SharedIssues, Issue
  <2>5. CASE p = "INSTAGRAM"
    BY <1>2, <2>2, <2>4, <2>5 DEF RuleIssues, Issue, p2
  <2>6. CASE p = "FACEBOOK"
    BY <1>2, <2>2, <2>4, <2>6 DEF RuleIssues, Issue, p2
  <2> QED BY <1>2, <2>5, <2>6 DEF Platforms
<1> QED BY <1>1, <1>2

-----------------------------------------------------------------------------
(* Invariants. *)

(* The draft names a level for a direct post on TikTok. *)
NamesLevel == platform = "TIKTOK" /\ request.mode = "DIRECT" /\ request.privacyLevel # NoLevel

(* What the composer let pass, and what validate did. *)
Looked ==
  /\ flags \in FlagsOf(platform, levels)
  /\ ~changed => PreflightIssues(draft, platform, "ACTIVE", flags) = {}
  /\ ~changed /\ run.pc \notin {"composed", "refused"} =>
       \E limitReached \in BOOLEAN :
         RuleIssues(platform, media, ModeFor(draft, platform), CanonicalPost(draft), flags, limitReached) = {}
  /\ NamesLevel => NormalizePrivacy(request.privacyLevel) = "SELF_ONLY"

(* The level that TikTok is asked for, and those of its posts. *)
LevelKept ==
  NamesLevel =>
    /\ run.pc \in {"photoInit", "videoInit", "videoUpload"} => run.level = "SELF_ONLY"
    /\ \A n \in Attempts : post[n] # "none" => shown[n] = "SELF_ONLY"

LInv == Looked /\ PreflightAgrees /\ LevelKept

-----------------------------------------------------------------------------
(* The steps. *)

LEMMA InitLooked == Init => LInv
<1> SUFFICES ASSUME Init PROVE LInv
  OBVIOUS
<1>1. platform \in Platforms
  BY AdaptersAssumption DEF Init
<1>2. PreflightIssues(draft, platform, "ACTIVE", flags) = {} /\ flags \in FlagsOf(platform, levels)
  BY DEF Init
<1>3. run.pc = "composed" /\ errors = {} /\ \A n \in Attempts : post[n] = "none"
  BY DEF Init, Fresh
<1>4. ASSUME NamesLevel PROVE NormalizePrivacy(request.privacyLevel) = "SELF_ONLY"
  <2>1. /\ platform = "TIKTOK" /\ draft.mode = "DIRECT" /\ "TIKTOK" \in draft.platforms
        /\ request.privacyLevel = draft.privacyLevel /\ draft.privacyLevel # NoLevel
    BY <1>4 DEF NamesLevel, request, JobPost, ModeFor, CanonicalPost, Init
  <2>2. NormalizePrivacy(PreflightPost(draft, platform).privacyLevel) \in {NoLevel, "SELF_ONLY"}
    BY <1>1, <1>2, <2>1, PassedPreflight, PassedRules DEF ModeFor
  <2>3. NormalizePrivacy(draft.privacyLevel) \in {NoLevel, "SELF_ONLY"}
    BY <2>1, <2>2 DEF PreflightPost
  <2> QED BY <2>1, <2>3 DEF NormalizePrivacy
<1> QED BY <1>2, <1>3, <1>4 DEF LInv, Looked, PreflightAgrees, LevelKept

(* Calls of TikTok between the choice of a level and the post. *)
Chosen == {"photoInit", "videoInit", "videoUpload"}

(* A level is chosen by asking TikTok, and kept until the post is made. *)
LevelStep ==
  run'.pc \in Chosen =>
    \/ run.pc \in Chosen /\ (run'.level = run.level \/ request.mode # "DIRECT")
    \/ run.pc = "creatorInfo" /\ run'.level = LevelSent(request.privacyLevel, levels)

(* A new post has the level of the attempt. *)
ShownStep ==
  \A n \in Attempts : post'[n] # "none" =>
    \/ post[n] # "none" /\ shown'[n] = shown[n]
    \/ shown'[n] = run.level /\ (platform = "TIKTOK" => run.pc \in Chosen)

(* Only Validate leaves the composed draft, and only it refuses it. *)
LookedStep == run.pc \in {"composed", "refused"} \/ run'.pc \in {"composed", "refused"} => run.pc = run'.pc

LEMMA SamePosts ==
  ASSUME UNCHANGED posts
  PROVE  ShownStep
BY DEF posts, ShownStep

LEMMA Posted ==
  ASSUME IInv, NEW answer \in {"SUCCEEDED", "WAITING_REMOTE"}, NEW items,
         AcceptPost(answer, items), run.pc \in {"photos", "videos", "reelFinish", "publish", "photoInit", "videoUpload"}
  PROVE  ShownStep
<1>1. platform = "TIKTOK" => run.pc \in Chosen
  BY DEF IInv, CallsOfPlatform, Chosen, OfFacebook, OfInstagram
<1>2. run.num \in Attempts
  BY DEF IInv, Memory, NotRun
<1>3. /\ post \in [Attempts -> Accepted \cup {"none"}] /\ shown \in [Attempts -> PrivacyLevels \cup {NoLevel}]
      /\ post' = [post EXCEPT ![run.num] = PostOf(answer)] /\ shown' = [shown EXCEPT ![run.num] = run.level]
  BY DEF IInv, TypeOK, AcceptPost
<1> QED BY <1>1, <1>2, <1>3 DEF ShownStep

LEMMA EndedStep ==
  ASSUME run.pc \notin {"composed", "refused"},
         run'.pc \in {"idle", "connection", "media", "poll", "permalink"}
  PROVE  LevelStep /\ LookedStep
BY DEF LevelStep, LookedStep, Chosen

LEMMA FailEnds ==
  ASSUME IInv, NEW kind \in ErrorKinds, Fail(kind)
  PROVE  run'.pc = "idle"
BY RunFields DEF IInv, Fail, Run

LEMMA GotoEnds ==
  ASSUME IInv, NEW pc, Goto(pc)
  PROVE  run'.pc = pc /\ run'.level = run.level
BY RunFields DEF IInv, Goto, Run

LEMMA CallStep ==
  ASSUME IInv, Continue
  PROVE  LevelStep /\ ShownStep /\ LookedStep
<1>0. run.pc \notin {"composed", "refused"}
  BY DEF Continue, ValidateConnection, ValidateMedia, Photos, Videos, ReelStart, ReelUpload, ReelFinish,
     CreateContainer, WaitForContainer, MediaPublish, FetchPermalink, QueryCreatorInfo, PhotoInit,
     VideoInit, VideoUpload, Poll, At
<1>1. CASE ValidateConnection \/ ValidateMedia
  <2>1. UNCHANGED posts
    BY <1>1 DEF ValidateConnection, ValidateMedia
  <2>2. CASE \E kind \in ErrorKinds : Fail(kind)
    BY <1>0, <2>1, <2>2, FailEnds, EndedStep, SamePosts
  <2>3. CASE Goto("media") \/ Goto("poll")
    BY <1>0, <2>1, <2>3, GotoEnds, EndedStep, SamePosts
  <2>4. CASE Goto(FirstCall)
    <3>1. FirstCall \in {"container", "creatorInfo", "photos", "reelStart", "videos"}
      BY AdaptersAssumption DEF IInv, TypeOK, Platforms, FirstCall
    <3> HIDE DEF FirstCall
    <3>2. run'.pc = FirstCall
      BY <2>4, GotoEnds
    <3> QED BY <1>0, <2>1, <3>1, <3>2, SamePosts DEF LevelStep, LookedStep, Chosen
  <2> QED
    BY <1>1, <2>2, <2>3, <2>4 DEF ValidateConnection, ValidateMedia, ErrorKinds
<1>2. CASE Photos \/ MediaPublish
  <2>1. run'.pc = "permalink"
    BY <1>2, GotoEnds DEF Photos, MediaPublish
  <2> QED BY <1>0, <1>2, <2>1, EndedStep, Posted DEF Photos, MediaPublish, At
<1>3. CASE Videos \/ ReelFinish \/ PhotoInit \/ VideoUpload
  <2>1. run'.pc = "poll"
    BY <1>3, RunFields DEF Videos, ReelFinish, PhotoInit, VideoUpload, Submitted, IInv, Run
  <2> QED BY <1>0, <1>3, <2>1, EndedStep, Posted DEF Videos, ReelFinish, PhotoInit, VideoUpload, At
<1>4. CASE ReelStart \/ ReelUpload \/ CreateContainer
  <2>1. run'.pc \in {"reelUpload", "reelFinish", "wait"} /\ UNCHANGED posts
    BY <1>4, GotoEnds, RunFields DEF ReelStart, ReelUpload, CreateContainer, IInv, Run
  <2> QED BY <1>0, <2>1, SamePosts DEF LevelStep, LookedStep, Chosen
<1>5. CASE WaitForContainer
  <2>1. UNCHANGED posts /\ run.pc = "wait"
    BY <1>5 DEF WaitForContainer, At
  <2>2. CASE \E kind \in ErrorKinds : Fail(kind)
    BY <1>0, <2>1, <2>2, FailEnds, EndedStep, SamePosts
  <2>3. CASE Goto("container") \/ Goto("publish")
    BY <1>0, <2>1, <2>3, GotoEnds, SamePosts DEF LevelStep, LookedStep, Chosen
  <2>4. CASE run' = [run EXCEPT !.polls = @ + 1]
    BY <1>0, <2>1, <2>4, SamePosts, RunFields DEF LevelStep, LookedStep, Chosen, IInv, Run
  <2> QED
    BY <1>5, <2>2, <2>3, <2>4 DEF WaitForContainer, ErrorKinds
<1>6. CASE FetchPermalink \/ Poll
  <2>1. UNCHANGED posts /\ run'.pc \in {"idle", "poll"}
    BY <1>6, RunFields DEF FetchPermalink, Poll, At, IInv, Run
  <2> QED BY <1>0, <2>1, EndedStep, SamePosts
<1>7. CASE QueryCreatorInfo
  <2>1. UNCHANGED posts /\ run.pc = "creatorInfo"
    BY <1>7 DEF QueryCreatorInfo, At
  <2>2. CASE Fail("validation")
    BY <1>0, <2>1, <2>2, FailEnds, EndedStep, SamePosts DEF ErrorKinds
  <2>3. CASE ~Fail("validation")
    <3> DEFINE pc == IF media[1] = "IMAGE" THEN "photoInit" ELSE "videoInit"
               level == LevelSent(request.privacyLevel, levels)
    <3>1. run' = [run EXCEPT !.pc = pc, !.level = level] /\ pc \in {"photoInit", "videoInit"}
      BY <1>7, <2>3 DEF QueryCreatorInfo
    <3> HIDE DEF pc, level
    <3>2. run'.pc = pc /\ run'.level = level
      BY <3>1, RunFields DEF IInv, Run
    <3> QED BY <1>0, <2>1, <3>1, <3>2, SamePosts DEF LevelStep, LookedStep, level
  <2> QED BY <2>2, <2>3
<1>8. CASE VideoInit
  <2> DEFINE level == IF request.mode = "DIRECT" THEN run.level ELSE NoLevel
  <2>1. /\ UNCHANGED posts /\ run.pc = "videoInit"
        /\ run' = [run EXCEPT !.pc = "videoUpload", !.level = level]
    BY <1>8 DEF VideoInit, At
  <2> HIDE DEF level
  <2>2. run'.pc = "videoUpload" /\ run'.level = level
    BY <2>1, RunFields DEF IInv, Run
  <2> QED BY <1>0, <2>1, <2>2, SamePosts DEF LevelStep, LookedStep, Chosen, level
<1> QED BY <1>1, <1>2, <1>3, <1>4, <1>5, <1>6, <1>7, <1>8 DEF Continue

LEMMA OtherStep ==
  ASSUME IInv, [Next]_vars, ~Validate, ~Continue
  PROVE  LevelStep /\ ShownStep /\ LookedStep
<1>1. CASE Start
  <2>1. UNCHANGED posts /\ run'.pc = "connection" /\ run.pc = "idle"
    BY <1>1 DEF Start, Fresh, At
  <2> QED BY <2>1, EndedStep, SamePosts
<1>2. ASSUME NEW kind \in ErrorKinds, CallFails(kind) PROVE LevelStep /\ ShownStep /\ LookedStep
  BY <1>2, FailEnds, EndedStep, SamePosts DEF CallFails, NotRun
<1>3. ASSUME NEW kind \in ErrorKinds, AnswerLost(kind) PROVE LevelStep /\ ShownStep /\ LookedStep
  <2>1. run'.pc = "idle" /\ run.pc \notin {"composed", "refused"}
    BY <1>3, RunFields DEF AnswerLost, IInv, Run, At
  <2>2. ShownStep
    BY <1>3, Posted DEF AnswerLost, At
  <2> QED BY <2>1, <2>2, EndedStep
<1>4. CASE ContainerEnds
  <2>1. UNCHANGED posts /\ run'.pc = run.pc /\ run'.level = run.level
    BY <1>4, RunFields DEF ContainerEnds, IInv, Run
  <2> QED BY <2>1, SamePosts DEF LevelStep, LookedStep
<1>5. CASE TargetChanges \/ UNCHANGED vars
  <2>1. UNCHANGED posts /\ run' = run
    BY <1>5 DEF TargetChanges, vars, posts
  <2> QED BY <2>1, SamePosts DEF LevelStep, LookedStep
<1>6. ASSUME NEW n \in Attempts, FinishProcessing(n) \/ Settle(n)
      PROVE  LevelStep /\ ShownStep /\ LookedStep
  <2>1. run' = run /\ shown' = shown
    BY <1>6 DEF FinishProcessing, Settle
  <2>2. post[n] # "none" /\ \E s : post' = [post EXCEPT ![n] = s]
    BY <1>6 DEF FinishProcessing, Settle, Outcomes
  <2>3. \A m \in Attempts : post'[m] # "none" => post[m] # "none"
    BY <2>2 DEF IInv, TypeOK
  <2> QED BY <2>1, <2>3 DEF LevelStep, ShownStep, LookedStep
<1> QED BY <1>1, <1>2, <1>3, <1>4, <1>5, <1>6 DEF Next

(* Validate finds of an unchanged target what the composer found, but for  *)
(* what PreflightAgrees lists.                                             *)
LEMMA ValidateStep ==
  ASSUME IInv, LInv, Validate
  PROVE  LInv'
<1>1. PICK account \in AccountStatus, ready \in BOOLEAN, late \in BOOLEAN,
           limitReached \in BOOLEAN, pass \in BOOLEAN :
        /\ ~changed => account = "ACTIVE" /\ ready
        /\ errors' = DraftIssues(draft, ready, late)
                       \cup ValidateIssues(draft, platform, account, flags, limitReached)
        /\ Goto(IF errors' = {} /\ pass THEN "idle" ELSE "refused")
  BY DEF Validate
<1>2. run.pc = "composed" /\ UNCHANGED <<draft, platform, flags, levels, changed, posts, abandoned>>
  BY DEF Validate, At
<1>3. /\ draft' = draft /\ platform' = platform /\ flags' = flags /\ levels' = levels /\ changed' = changed
      /\ post' = post /\ shown' = shown /\ request' = request /\ media' = media
  BY <1>2 DEF posts, request, media
<1>4. run'.pc \in {"idle", "refused"} /\ platform \in Platforms /\ platform \in draft.platforms
  BY <1>1, GotoEnds, AdaptersAssumption DEF IInv, TypeOK
<1> DEFINE issues == RuleIssues(platform, draft.media, ModeFor(draft, platform), CanonicalPost(draft),
                                flags, limitReached)
<1>5. ASSUME run'.pc = "idle" PROVE issues = {}
  <2>1. ~Goto("refused")
    BY <1>5, GotoEnds
  <2>2. errors' = {}
    BY <1>1, <2>1, Zenon
  <2>3. ValidateIssues(draft, platform, account, flags, limitReached) = {}
    BY <1>1, <2>2
  <2> QED BY <1>4, <2>3, PassedValidate
<1> HIDE DEF issues
<1>6. ASSUME ~changed
      PROVE  errors' \subseteq {"scheduled_in_past"} \cup issues
  <2>1. PreflightIssues(draft, platform, "ACTIVE", flags) = {} /\ account = "ACTIVE" /\ ready
    BY <1>1, <1>6 DEF LInv, Looked
  <2>2. Incomplete(draft) = {} /\ Eligible(platform, flags)
    BY <1>4, <2>1, PassedPreflight
  <2>3. DraftIssues(draft, ready, late) \subseteq {"scheduled_in_past"}
    BY <2>1, <2>2 DEF DraftIssues, Issue
  <2>4. ValidateIssues(draft, platform, account, flags, limitReached) \subseteq issues
    BY <2>1, <2>2 DEF ValidateIssues, Issue, issues
  <2> QED BY <1>1, <2>3, <2>4
<1>7. ASSUME ~changed
      PROVE  issues \subseteq {"publish_limit_reached"} \cup
               (IF "TIKTOK" \in draft.platforms \ {platform}
                THEN {"disable_comments_unsupported", "privacy_level_unsupported"} ELSE {})
  <2>1. PreflightIssues(draft, platform, "ACTIVE", flags) = {} /\ flags \in FlagsOf(platform, levels)
    BY <1>7 DEF LInv, Looked
  <2>2. RuleIssues(platform, draft.media, ModeFor(draft, platform), PreflightPost(draft, platform), flags, FALSE) = {}
    BY <1>4, <2>1, PassedPreflight
  <2> QED BY <1>4, <2>1, <2>2, RulesAgree DEF issues
<1>8. Looked'
  BY <1>3, <1>4, <1>5 DEF LInv, Looked, NamesLevel, issues, media
<1>9. PreflightAgrees'
  BY <1>3, <1>6, <1>7 DEF PreflightAgrees
<1>10. LevelKept'
  BY <1>3, <1>4 DEF LInv, LevelKept, NamesLevel
<1> QED BY <1>8, <1>9, <1>10 DEF LInv

(* The other steps keep the draft and the platform; the target changes     *)
(* only as a connection may.                                               *)
LEMMA TargetStep ==
  ASSUME [Next]_vars, ~Validate
  PROVE  /\ draft' = draft /\ platform' = platform /\ request' = request /\ errors' = errors
         /\ \/ flags' = flags /\ levels' = levels /\ changed' = changed
            \/ changed' = TRUE /\ flags' \in FlagsOf(platform, levels')
<1>1. CASE UNCHANGED target
  BY <1>1 DEF target, request
<1>2. CASE TargetChanges
  BY <1>2 DEF TargetChanges, request
<1>3. CASE UNCHANGED vars
  BY <1>1, <1>3 DEF vars, target
<1>4. CASE Continue
  <2>1. UNCHANGED target
    BY <1>4 DEF Continue, ValidateConnection, ValidateMedia, Photos, Videos, ReelStart, ReelUpload, ReelFinish,
       CreateContainer, WaitForContainer, MediaPublish, FetchPermalink, QueryCreatorInfo, PhotoInit,
       VideoInit, VideoUpload, Poll
  <2> QED BY <1>1, <2>1
<1>5. CASE Next /\ ~Continue /\ ~TargetChanges
  <2>1. UNCHANGED target
    BY <1>5 DEF Next, Start, CallFails, AnswerLost, ContainerEnds, FinishProcessing, Settle
  <2> QED BY <1>1, <2>1
<1> QED BY <1>2, <1>3, <1>4, <1>5

LEMMA NextLooked == IInv /\ LInv /\ [Next]_vars => LInv'
<1> SUFFICES ASSUME IInv, LInv, [Next]_vars, ~Validate PROVE LInv'
  BY ValidateStep
<1>1. LevelStep /\ ShownStep /\ LookedStep
  BY CallStep, OtherStep
<1>2. /\ draft' = draft /\ platform' = platform /\ request' = request /\ errors' = errors
      /\ \/ flags' = flags /\ levels' = levels /\ changed' = changed
         \/ changed' = TRUE /\ flags' \in FlagsOf(platform, levels')
  BY TargetStep
<1>3. Looked'
  BY <1>1, <1>2 DEF LInv, Looked, LookedStep, NamesLevel, media
<1>4. PreflightAgrees'
  BY <1>2 DEF LInv, PreflightAgrees
<1>5. LevelKept'
  <2> SUFFICES ASSUME NamesLevel PROVE LevelKept'
    BY <1>2 DEF LevelKept, NamesLevel
  <2>1. LevelSent(request.privacyLevel, levels) = "SELF_ONLY"
    BY DEF LInv, Looked, NamesLevel, LevelSent
  <2>2. run'.pc \in Chosen => run'.level = "SELF_ONLY"
    BY <1>1, <2>1 DEF LInv, LevelKept, LevelStep, Chosen, NamesLevel
  <2>3. \A n \in Attempts : post'[n] # "none" => shown'[n] = "SELF_ONLY"
    BY <1>1 DEF LInv, LevelKept, ShownStep, Chosen, NamesLevel
  <2> QED BY <2>2, <2>3 DEF LevelKept, Chosen
<1> QED BY <1>3, <1>4, <1>5 DEF LInv

-----------------------------------------------------------------------------
(* Theorems. *)

(* What the composer let pass stays passed until the target changes, and   *)
(* the level of a direct post on TikTok is the one its draft names.        *)
THEOREM LooksAgree == Spec => [](IInv /\ LInv)
<1>1. Init => LInv
  BY InitLooked
<1>2. IInv /\ LInv /\ [Next]_vars => LInv'
  BY NextLooked
<1> QED BY <1>1, <1>2, Invariance, PTL DEF Spec

(* While target, account and media stay as the composer saw them, the API  *)
(* says no more against a target that the composer let pass than that the  *)
(* limit of Instagram is reached, that the instant named is in the past,   *)
(* and, beside TikTok, that the target does not take TikTok's options.     *)
THEOREM PreflightAgreement == Spec => []PreflightAgrees
<1>1. LInv => PreflightAgrees
  BY DEF LInv
<1> QED BY <1>1, LooksAgree, PTL

(* A level that a draft names for a direct post on TikTok is private when  *)
(* it is posted, whatever levels TikTok offers at any time.                *)
THEOREM NamedLevelStaysPrivate == Spec => []NamedLevelIsPrivate
<1>1. LInv => NamedLevelIsPrivate
  BY DEF LInv, LevelKept, NamesLevel, NamedLevelIsPrivate
<1> QED BY <1>1, LooksAgree, PTL

(* TikTok offers a creator the private level, whatever else it offers.     *)
PrivateIsOffered == \A l \in LevelLists : l # <<>> => "SELF_ONLY" \in ToSet(l)

LEMMA LevelForeseen ==
  ASSUME IInv, LInv, PrivateIsOffered, ~changed, run.pc \notin {"composed", "refused"}
  PROVE  ~LevelRefused(platform, request.privacyLevel, levels)
<1> SUFFICES ASSUME platform = "TIKTOK", request.privacyLevel # NoLevel, levels # <<>>
             PROVE  NormalizePrivacy(request.privacyLevel) \in ToSet(levels)
  BY DEF LevelRefused
<1>1. "SELF_ONLY" \in ToSet(levels)
  BY DEF IInv, TypeOK, PrivateIsOffered
<1>2. PICK limitReached \in BOOLEAN :
        RuleIssues(platform, media, ModeFor(draft, platform), CanonicalPost(draft), flags, limitReached) = {}
  BY DEF LInv, Looked
<1>3. flags.supportedPrivacyLevels \in {levels, <<"SELF_ONLY">>}
  BY StoredFlags DEF LInv, Looked, Platforms
<1>4. CanonicalPost(draft).privacyLevel = request.privacyLevel
  BY DEF request, JobPost
<1>5. request.privacyLevel \in ToSet(flags.supportedPrivacyLevels)
  BY <1>2, <1>3, <1>4, PassedRules DEF Platforms
<1>6. ToSet(<<"SELF_ONLY">>) = {"SELF_ONLY"}
  BY DEF ToSet
<1> QED BY <1>1, <1>3, <1>5, <1>6 DEF NormalizePrivacy

(* No adapter refuses on its own what validate passed, if the target is as *)
(* it was, a carousel is not too long and TikTok offers the private level: *)
(* the last is TikTok's promise, which nothing in the code checks.         *)
THEOREM RefusalsForeseen == PrivateIsOffered => (Spec => []RulesForeseeRefusals)
<1> SUFFICES ASSUME PrivateIsOffered PROVE Spec => []RulesForeseeRefusals
  OBVIOUS
<1>1. IInv /\ LInv => RulesForeseeRefusals
  <2> SUFFICES ASSUME IInv, LInv, ~changed, run.pc \notin {"composed", "refused"}, Len(media) <= MaxCarousel
               PROVE  /\ ~Unhealthy(platform, flags)
                      /\ ~MediaRefused(platform, media, MaxCarousel)
                      /\ ~LevelRefused(platform, request.privacyLevel, levels)
                      /\ FailedFlagChecks(platform, flags, FALSE) = {}
    BY DEF RulesForeseeRefusals
  <2>1. platform \in Platforms
    BY AdaptersAssumption DEF IInv, TypeOK
  <2>2. PICK limitReached \in BOOLEAN :
          RuleIssues(platform, media, ModeFor(draft, platform), CanonicalPost(draft), flags, limitReached) = {}
    BY DEF LInv, Looked
  <2>3. platform = "FACEBOOK" => flags.hasCreateContentTask
    BY <2>1, <2>2, PassedRules
  <2>4. ~MediaRefused(platform, media, MaxCarousel)
    <3>1. CASE platform = "INSTAGRAM"
      <4>1. Len(media) \in Nat /\ MaxCarousel \in Nat
        BY MediaFacts, AdaptersAssumption DEF IInv
      <4> QED BY <3>1, <4>1 DEF MediaRefused, InstagramRefuses
    <3>2. CASE platform # "INSTAGRAM"
      <4>1. Len(media) = 1
        BY <3>2 DEF IInv, ItemsGiven
      <4>2. ~(Len(media) > 1) /\ platform \in {"FACEBOOK", "TIKTOK"}
        BY <2>1, <3>2, <4>1 DEF Platforms
      <4> QED BY <4>1, <4>2 DEF MediaRefused, FacebookRefuses, TikTokRefuses
    <3> QED BY <3>1, <3>2
  <2> QED BY <2>1, <2>3, <2>4, LevelForeseen DEF Unhealthy, FailedFlagChecks, Issue
<1> QED BY <1>1, LooksAgree, PTL
=============================================================================

----------------------- MODULE PlatformAdaptersProofs -----------------------
(***************************************************************************)
(* Proofs about PlatformAdapters, for every set of drafts and of level     *)
(* lists and every choice of bounds, and the proof that it implements      *)
(* PlatformCalls.                                                          *)
(*                                                                         *)
(* The heart of the inductive invariant is Tracked: a post that is not     *)
(* settled is either the one the job polls, the one whose permalink it     *)
(* asks for, or one that an error made it forget.                          *)
(***************************************************************************)
EXTENDS PlatformAdapters, SequenceTheorems, TLAPS

OfFacebook == {"photos", "reelStart", "reelUpload", "reelFinish", "videos"}
OfInstagram == {"container", "wait", "publish"}
OfTikTok == {"creatorInfo", "photoInit", "videoInit", "videoUpload"}

(* Only the calls of the job's platform are made. *)
CallsOfPlatform ==
  /\ run.pc \in OfFacebook => platform = "FACEBOOK"
  /\ run.pc \in OfInstagram => platform = "INSTAGRAM"
  /\ run.pc \in OfTikTok => platform = "TIKTOK"
  /\ At("permalink") => platform \in {"INSTAGRAM", "FACEBOOK"}

Submits == OfFacebook \cup OfInstagram \cup OfTikTok

(* What an attempt remembers of the submissions. *)
Memory ==
  /\ run.pc \notin NotRun => run.num \in Attempts
  /\ run.pc \in Submits \cup {"permalink", "composed", "refused"} => run.rid = 0
  /\ run.pc \in {"composed", "refused"} => run.num = 0 /\ run.result = "none"
  /\ run.pc \in Submits \cup {"connection", "media", "permalink"} => run.result = "none"
  /\ At("poll") => run.rid # 0
  /\ At("idle") /\ run.result = "WAITING_REMOTE" => run.rid # 0
  /\ run.rid # 0 => run.rid <= run.num /\ post[run.rid] \in Accepted

(* Posts are of attempts that were made; only Facebook ends processing     *)
(* before it publishes.                                                    *)
PostsMade ==
  /\ \A n \in Attempts : run.num < n => post[n] = "none"
  /\ run.pc \in Submits \cup {"connection", "media"} => post[run.num] = "none"
  /\ At("permalink") => post[run.num] = "live"
  /\ \A n \in Attempts : post[n] \in {"processed", "withdrawn"} => platform = "FACEBOOK"

Unsettled == {"processing", "processed", "live"}

Tracked ==
  /\ \A n \in Attempts :
       post[n] \in Unsettled /\ n \notin abandoned =>
         run.rid = n \/ (At("permalink") /\ run.num = n)
  /\ run.rid # 0 => \A n \in Attempts : run.rid < n => post[n] = "none"
  /\ At("idle") /\ run.result \in ErrorKinds \cup {"none"} => run.rid = 0
  /\ At("idle") /\ run.result = "FAILED" /\ run.rid # 0 => post[run.rid] \in {"failed", "withdrawn"}

(* Facebook and TikTok are given one item; a carousel has all its          *)
(* containers when it is published.                                        *)
ItemsGiven ==
  /\ platform # "INSTAGRAM" => Len(media) = 1
  /\ run.pc \in {"connection", "media"} => run.made = 0
  /\ At("container") => run.made < Containers
  /\ At("wait") => run.made <= Containers
  /\ At("publish") => run.made = Containers

IInv == TypeOK /\ CallsOfPlatform /\ Memory /\ PostsMade /\ Tracked /\ ItemsGiven /\ PostsAreComplete

-----------------------------------------------------------------------------
(* Types. *)

LEMMA MediaFacts ==
  ASSUME TypeOK
  PROVE  /\ media \in Seq({"IMAGE", "VIDEO"}) /\ Len(media) \in Nat \ {0}
         /\ media[1] \in {"IMAGE", "VIDEO"}
         /\ Len(media) = 1 => <<media[1]>> = media
         /\ SubSeq(media, 1, Len(media)) = media
<1>1. media \in Seq({"IMAGE", "VIDEO"}) /\ media # <<>>
  BY AdaptersAssumption DEF TypeOK, media
<1> HIDE DEF media
<1>2. Len(media) \in Nat \ {0} /\ media[1] \in {"IMAGE", "VIDEO"}
  BY <1>1
<1>3. ASSUME Len(media) = 1 PROVE <<media[1]>> = media
  BY <1>1, <1>3
<1>4. SubSeq(media, 1, Len(media)) = media
  BY <1>1, SubSeqFull
<1> QED BY <1>1, <1>2, <1>3, <1>4

LEMMA InitInv == Init => IInv
<1> SUFFICES ASSUME Init PROVE IInv
  OBVIOUS
<1>1. TypeOK
  <2>1. /\ run = Fresh /\ post = [n \in Attempts |-> "none"] /\ abandoned = {}
        /\ content = [n \in Attempts |-> <<>>] /\ shown = [n \in Attempts |-> NoLevel]
        /\ draft \in DraftChoices /\ platform \in draft.platforms /\ levels \in LevelLists
        /\ errors = {} /\ changed = FALSE
    BY Zenon DEF Init
  <2>2. Fresh \in Run
    BY AdaptersAssumption DEF Run, PC, Fresh
  <2>3. <<>> \in Seq({"IMAGE", "VIDEO"})
    BY EmptySeq
  <2> QED BY <2>1, <2>2, <2>3 DEF TypeOK
<1>2. ASSUME platform # "INSTAGRAM" PROVE Len(media) = 1
  <2>1. flags.supportsCarousel = FALSE
    <3>1. flags \in FlagsOf(platform, levels) /\ platform \in {"FACEBOOK", "TIKTOK"}
      BY <1>1, <1>2, AdaptersAssumption DEF Init, TypeOK, Platforms
    <3>2. CASE platform = "FACEBOOK"
      BY <3>1, <3>2 DEF FlagsOf, FacebookFlags, Flags
    <3>3. CASE platform = "TIKTOK"
      <4>1. PICK direct \in BOOLEAN, upload \in BOOLEAN, known \in {levels, <<"SELF_ONLY">>} :
              flags = [TikTokFlags(direct, upload, levels) EXCEPT !.supportedPrivacyLevels = known]
        BY <3>1, <3>3 DEF FlagsOf
      <4> QED BY <4>1 DEF TikTokFlags, Flags
    <3> QED BY <3>1, <3>2, <3>3
  <2>2. "carousel_not_supported" \notin PreflightIssues(draft, platform, "ACTIVE", flags)
    BY DEF Init
  <2>3. ~(MediaType(media) = "CAROUSEL" /\ ~flags.supportsCarousel)
    BY <2>2 DEF PreflightIssues, RuleIssues, SharedIssues, Issue, media
  <2> QED BY <1>1, <2>1, <2>3, MediaFacts DEF MediaType
<1> QED
  BY <1>1, <1>2 DEF Init, IInv, CallsOfPlatform, Memory, PostsMade, Tracked, ItemsGiven,
     PostsAreComplete, Fresh, At, OfFacebook, OfInstagram, OfTikTok, Submits, NotRun, Unsettled

-----------------------------------------------------------------------------
(* What the parts of the actions do. *)

LEMMA RunFields ==
  ASSUME TypeOK
  PROVE  /\ run.num \in 0 .. MaxAttempts /\ run.rid \in 0 .. MaxAttempts /\ run.pc \in PC
         /\ run.made \in Nat /\ run.polls \in Nat /\ MaxAttempts \in Nat \ {0}
         /\ run \in [num : 0 .. MaxAttempts, pc : PC, rid : 0 .. MaxAttempts,
                     result : {"none", "SUCCEEDED", "FAILED", "WAITING_REMOTE"} \cup ErrorKinds,
                     polls : Nat, made : Nat,
                     container : {"none", "IN_PROGRESS", "FINISHED", "ERROR"},
                     level : PrivacyLevels \cup {NoLevel}]
BY AdaptersAssumption DEF TypeOK, Run

LEMMA GotoFacts ==
  ASSUME TypeOK, NEW pc \in PC, Goto(pc)
  PROVE  /\ run' \in Run /\ run'.pc = pc /\ run'.num = run.num /\ run'.rid = run.rid
         /\ run'.result = run.result /\ run'.made = run.made
BY RunFields DEF Goto, Run

LEMMA FailFacts ==
  ASSUME TypeOK, Memory, NEW kind \in ErrorKinds, Fail(kind), run.pc \notin NotRun
  PROVE  /\ run' \in Run /\ run'.pc = "idle" /\ run'.num = run.num /\ run'.rid = 0
         /\ run'.result = kind
         /\ abandoned' \subseteq Attempts /\ abandoned \subseteq abandoned'
         /\ run.rid # 0 => run.rid \in abandoned'
         /\ At("permalink") => run.num \in abandoned'
<1>1. /\ run' \in Run /\ run'.pc = "idle" /\ run'.num = run.num /\ run'.rid = 0
      /\ run'.result = kind
  <2>1. run' = [run EXCEPT !.pc = "idle", !.rid = 0, !.result = kind]
    BY DEF Fail
  <2>2. "idle" \in PC /\ 0 \in 0 .. MaxAttempts
    BY RunFields DEF PC
  <2> QED BY <2>1, <2>2, RunFields DEF Run
<1>2. run.num \in Attempts /\ (run.rid # 0 => run.rid \in Attempts) /\ abandoned \subseteq Attempts
  BY RunFields DEF Memory, TypeOK, Attempts
<1>3. abandoned' = abandoned \cup ({run.rid} \ {0}) \cup {n \in {run.num} : At("permalink")}
  BY DEF Fail
<1>4. /\ abandoned' \subseteq Attempts /\ abandoned \subseteq abandoned'
      /\ run.rid # 0 => run.rid \in abandoned'
      /\ At("permalink") => run.num \in abandoned'
  <2> HIDE DEF Memory, TypeOK
  <2>1. \A n : n \in abandoned' <=>
           n \in abandoned \/ (n = run.rid /\ n # 0) \/ (n = run.num /\ At("permalink"))
    BY <1>3
  <2> QED BY <1>2, <2>1
<1> QED BY <1>1, <1>4

LEMMA SubmittedFacts ==
  ASSUME TypeOK, run.num \in Attempts, Submitted
  PROVE  /\ run' \in Run /\ run'.pc = "poll" /\ run'.num = run.num /\ run'.rid = run.num
         /\ run'.result = "WAITING_REMOTE" /\ run'.made = run.made
BY RunFields DEF Submitted, Run, PC

LEMMA AcceptFacts ==
  ASSUME TypeOK, run.num \in Attempts, NEW answer \in {"SUCCEEDED", "WAITING_REMOTE"},
         NEW items \in Seq({"IMAGE", "VIDEO"}), AcceptPost(answer, items)
  PROVE  /\ post' \in [Attempts -> Accepted \cup {"none"}]
         /\ content' \in [Attempts -> Seq({"IMAGE", "VIDEO"})]
         /\ shown' \in [Attempts -> PrivacyLevels \cup {NoLevel}]
         /\ post'[run.num] = IF answer = "SUCCEEDED" THEN "live" ELSE "processing"
         /\ content'[run.num] = items
         /\ \A n \in Attempts \ {run.num} : post'[n] = post[n] /\ content'[n] = content[n]
<1> DEFINE s == IF answer = "SUCCEEDED" THEN "live" ELSE "processing"
<1>1. s \in Accepted
  BY DEF Accepted
<1>2. /\ post \in [Attempts -> Accepted \cup {"none"}]
      /\ content \in [Attempts -> Seq({"IMAGE", "VIDEO"})]
      /\ shown \in [Attempts -> PrivacyLevels \cup {NoLevel}]
      /\ run.level \in PrivacyLevels \cup {NoLevel}
  BY RunFields DEF TypeOK
<1>3. /\ post' = [post EXCEPT ![run.num] = s] /\ content' = [content EXCEPT ![run.num] = items]
      /\ shown' = [shown EXCEPT ![run.num] = run.level]
  BY DEF AcceptPost, PostOf
<1> HIDE DEF s
<1>4. /\ post' \in [Attempts -> Accepted \cup {"none"}] /\ post'[run.num] = s
      /\ \A n \in Attempts \ {run.num} : post'[n] = post[n]
  BY <1>1, <1>2, <1>3
<1>5. /\ content' \in [Attempts -> Seq({"IMAGE", "VIDEO"})] /\ content'[run.num] = items
      /\ \A n \in Attempts \ {run.num} : content'[n] = content[n]
  BY <1>2, <1>3
<1>6. shown' \in [Attempts -> PrivacyLevels \cup {NoLevel}]
  BY <1>2, <1>3
<1> QED BY <1>4, <1>5, <1>6 DEF s

-----------------------------------------------------------------------------
(* Every step keeps the inductive invariant. *)

(* The target of the job stays as it is. *)
LEMMA TargetKept ==
  ASSUME TypeOK, UNCHANGED target
  PROVE  /\ platform' = platform /\ media' = media /\ Containers' = Containers
         /\ (draft \in DraftChoices)' /\ (platform \in draft.platforms)'
         /\ (levels \in LevelLists)' /\ (errors \subseteq Messages)' /\ (changed \in BOOLEAN)'
BY DEF TypeOK, target, media, Containers

(* An attempt that ends with an error. *)
LEMMA FailInv ==
  ASSUME IInv, run.pc \notin NotRun, NEW kind \in ErrorKinds, Fail(kind), UNCHANGED <<target, posts>>
  PROVE  IInv'
<1> USE DEF IInv
<1>1. UNCHANGED <<post, content, shown>> /\ UNCHANGED target
  BY DEF posts
<1>2. /\ run' \in Run /\ run'.pc = "idle" /\ run'.num = run.num /\ run'.rid = 0
      /\ run'.result = kind
      /\ abandoned' \subseteq Attempts /\ abandoned \subseteq abandoned'
      /\ run.rid # 0 => run.rid \in abandoned'
      /\ At("permalink") => run.num \in abandoned'
  BY FailFacts
<1>3. TypeOK'
  BY <1>1, <1>2, TargetKept DEF TypeOK
<1>4. kind \notin {"none", "SUCCEEDED", "FAILED", "WAITING_REMOTE"}
  BY DEF ErrorKinds
<1>5. platform' = platform /\ media' = media
  BY <1>1, TargetKept
<1>6. (CallsOfPlatform /\ Memory /\ PostsMade /\ ItemsGiven /\ PostsAreComplete)'
  BY <1>1, <1>2, <1>4, <1>5, RunFields DEF CallsOfPlatform, Memory, PostsMade, ItemsGiven, PostsAreComplete,
     At, OfFacebook, OfInstagram, OfTikTok, Submits, NotRun
<1>7. Tracked'
  <2>1. ASSUME NEW n \in Attempts, post'[n] \in Unsettled, n \notin abandoned' PROVE FALSE
    <3>1. run.rid = n \/ (At("permalink") /\ run.num = n)
      BY <1>1, <1>2, <2>1 DEF Tracked
    <3> QED BY <1>2, <2>1, <3>1 DEF Attempts
  <2> QED BY <1>2, <1>4, <2>1 DEF Tracked, At
<1> QED BY <1>3, <1>6, <1>7

(* A submission that is accepted as still processing. *)
LEMMA SubmitInv ==
  ASSUME IInv, run.pc \in Submits, Submitted, AcceptPost("WAITING_REMOTE", media),
         UNCHANGED <<target, abandoned>>
  PROVE  IInv'
<1> USE DEF IInv
<1>1. UNCHANGED target /\ abandoned' = abandoned
  OBVIOUS
<1>2. run.num \in Attempts /\ run.rid = 0 /\ ~At("permalink") /\ post[run.num] = "none"
  BY DEF Memory, PostsMade, Submits, NotRun, OfFacebook, OfInstagram, OfTikTok, At
<1>3. /\ run' \in Run /\ run'.pc = "poll" /\ run'.num = run.num /\ run'.rid = run.num
      /\ run'.result = "WAITING_REMOTE" /\ run'.made = run.made
  BY <1>2, SubmittedFacts
<1>4. /\ post' \in [Attempts -> Accepted \cup {"none"}]
      /\ content' \in [Attempts -> Seq({"IMAGE", "VIDEO"})]
      /\ shown' \in [Attempts -> PrivacyLevels \cup {NoLevel}]
      /\ post'[run.num] = "processing" /\ content'[run.num] = media
      /\ \A n \in Attempts \ {run.num} : post'[n] = post[n] /\ content'[n] = content[n]
  BY <1>2, AcceptFacts, MediaFacts
<1>5. TypeOK'
  BY <1>1, <1>3, <1>4, TargetKept DEF TypeOK
<1>6. platform' = platform /\ media' = media
  BY <1>1, TargetKept
<1>7. (CallsOfPlatform /\ Memory /\ ItemsGiven)'
  BY <1>2, <1>3, <1>4, <1>6, RunFields DEF CallsOfPlatform, Memory, ItemsGiven, Attempts, Accepted,
     At, OfFacebook, OfInstagram, OfTikTok, Submits, NotRun
<1>8. PostsMade' /\ PostsAreComplete'
  <2>1. ASSUME NEW n \in Attempts
        PROVE  /\ run'.num < n => post'[n] = "none"
               /\ post'[n] \in {"processed", "withdrawn"} => platform' = "FACEBOOK"
               /\ post'[n] # "none" => content'[n] = media'
    <3>1. CASE n = run.num
      BY <1>2, <1>3, <1>4, <1>6, <3>1 DEF Attempts
    <3>2. CASE n # run.num
      BY <1>3, <1>4, <1>6, <3>2 DEF PostsMade, PostsAreComplete
    <3> QED BY <3>1, <3>2
  <2>2. run'.pc \notin Submits \cup {"connection", "media"}
    BY <1>3 DEF Submits, OfFacebook, OfInstagram, OfTikTok
  <2>3. run'.pc = "permalink" => post'[run'.num] = "live"
    BY <1>3, <1>4
  <2> HIDE DEF IInv
  <2> QED BY ONLY <2>1, <2>2, <2>3 DEF PostsMade, PostsAreComplete, At
<1>9. Tracked'
  <2>1. ASSUME NEW n \in Attempts, post'[n] \in Unsettled, n \notin abandoned' PROVE n = run.num
    BY <1>1, <1>2, <1>4, <2>1 DEF Tracked, Attempts
  <2>2. ASSUME NEW n \in Attempts, run.num < n PROVE post'[n] = "none"
    BY <1>4, <2>2, RunFields DEF PostsMade, Attempts
  <2> QED BY <1>3, <2>1, <2>2 DEF Tracked, At
<1> QED BY <1>5, <1>7, <1>8, <1>9

(* A submission that is live when the call answers. *)
LEMMA PublishInv ==
  ASSUME IInv, At("photos") \/ At("publish"), Goto("permalink"), AcceptPost("SUCCEEDED", media),
         UNCHANGED <<target, abandoned>>
  PROVE  IInv'
<1> USE DEF IInv
<1>1. UNCHANGED target /\ abandoned' = abandoned
  OBVIOUS
<1>2. /\ run.num \in Attempts /\ run.rid = 0 /\ ~At("permalink") /\ post[run.num] = "none"
      /\ platform \in {"INSTAGRAM", "FACEBOOK"} /\ run.result = "none"
  BY DEF Memory, PostsMade, Submits, NotRun, OfFacebook, OfInstagram, OfTikTok, At, CallsOfPlatform
<1>3. /\ run' \in Run /\ run'.pc = "permalink" /\ run'.num = run.num /\ run'.rid = 0
      /\ run'.result = "none" /\ run'.made = run.made
  <2>1. "permalink" \in PC
    BY DEF PC
  <2> QED BY <1>2, <2>1, GotoFacts
<1>4. /\ post' \in [Attempts -> Accepted \cup {"none"}]
      /\ content' \in [Attempts -> Seq({"IMAGE", "VIDEO"})]
      /\ shown' \in [Attempts -> PrivacyLevels \cup {NoLevel}]
      /\ post'[run.num] = "live" /\ content'[run.num] = media
      /\ \A n \in Attempts \ {run.num} : post'[n] = post[n] /\ content'[n] = content[n]
  BY <1>2, AcceptFacts, MediaFacts
<1>5. TypeOK'
  BY <1>1, <1>3, <1>4, TargetKept DEF TypeOK
<1>6. platform' = platform /\ media' = media
  BY <1>1, TargetKept
<1>7. (CallsOfPlatform /\ Memory /\ ItemsGiven)'
  BY <1>2, <1>3, <1>4, <1>6, RunFields DEF CallsOfPlatform, Memory, ItemsGiven, Attempts, Accepted,
     At, OfFacebook, OfInstagram, OfTikTok, Submits, NotRun
<1>8. PostsMade' /\ PostsAreComplete'
  <2>1. ASSUME NEW n \in Attempts
        PROVE  /\ run'.num < n => post'[n] = "none"
               /\ post'[n] \in {"processed", "withdrawn"} => platform' = "FACEBOOK"
               /\ post'[n] # "none" => content'[n] = media'
    <3>1. CASE n = run.num
      BY <1>2, <1>3, <1>4, <1>6, <3>1 DEF Attempts
    <3>2. CASE n # run.num
      BY <1>3, <1>4, <1>6, <3>2 DEF PostsMade, PostsAreComplete
    <3> QED BY <3>1, <3>2
  <2>2. run'.pc \notin Submits \cup {"connection", "media"}
    BY <1>3 DEF Submits, OfFacebook, OfInstagram, OfTikTok
  <2>3. run'.pc = "permalink" => post'[run'.num] = "live"
    BY <1>3, <1>4
  <2> HIDE DEF IInv
  <2> QED BY ONLY <2>1, <2>2, <2>3 DEF PostsMade, PostsAreComplete, At
<1>9. Tracked'
  BY <1>1, <1>2, <1>3, <1>4, RunFields DEF Tracked, PostsMade, Attempts, At
<1> QED BY <1>5, <1>7, <1>8, <1>9

(* A submission that is accepted in a call that then fails. *)
LEMMA LostInv ==
  ASSUME IInv, run.pc \in Submits, NEW answer \in {"SUCCEEDED", "WAITING_REMOTE"},
         AcceptPost(answer, media), NEW kind \in ErrorKinds,
         run' = [run EXCEPT !.pc = "idle", !.rid = 0, !.result = kind],
         abandoned' = abandoned \cup {run.num}, UNCHANGED target
  PROVE  IInv'
<1> USE DEF IInv
<1>2. run.num \in Attempts /\ run.rid = 0 /\ ~At("permalink") /\ post[run.num] = "none"
  BY DEF Memory, PostsMade, Submits, NotRun, OfFacebook, OfInstagram, OfTikTok, At
<1>3. /\ run' \in Run /\ run'.pc = "idle" /\ run'.num = run.num /\ run'.rid = 0
      /\ run'.result = kind
  <2>1. "idle" \in PC /\ 0 \in 0 .. MaxAttempts
    BY RunFields DEF PC
  <2> QED BY <2>1, RunFields DEF Run
<1>4. /\ post' \in [Attempts -> Accepted \cup {"none"}]
      /\ content' \in [Attempts -> Seq({"IMAGE", "VIDEO"})]
      /\ shown' \in [Attempts -> PrivacyLevels \cup {NoLevel}]
      /\ post'[run.num] \in {"live", "processing"} /\ content'[run.num] = media
      /\ \A n \in Attempts \ {run.num} : post'[n] = post[n] /\ content'[n] = content[n]
  BY <1>2, AcceptFacts, MediaFacts
<1>5. TypeOK'
  BY <1>2, <1>3, <1>4, TargetKept DEF TypeOK
<1>6. platform' = platform /\ media' = media
  BY TargetKept
<1>7. kind \notin {"none", "SUCCEEDED", "FAILED", "WAITING_REMOTE"}
  BY DEF ErrorKinds
<1>8. (CallsOfPlatform /\ Memory /\ ItemsGiven)'
  BY <1>2, <1>3, <1>4, <1>6, <1>7 DEF CallsOfPlatform, Memory, ItemsGiven, Attempts, Accepted,
     At, OfFacebook, OfInstagram, OfTikTok, Submits, NotRun
<1>9. PostsMade' /\ PostsAreComplete'
  <2>1. ASSUME NEW n \in Attempts
        PROVE  /\ run'.num < n => post'[n] = "none"
               /\ post'[n] \in {"processed", "withdrawn"} => platform' = "FACEBOOK"
               /\ post'[n] # "none" => content'[n] = media'
    <3>1. CASE n = run.num
      BY <1>2, <1>3, <1>4, <1>6, <3>1 DEF Attempts
    <3>2. CASE n # run.num
      BY <1>3, <1>4, <1>6, <3>2 DEF PostsMade, PostsAreComplete
    <3> QED BY <3>1, <3>2
  <2>2. run'.pc \notin Submits \cup {"connection", "media"}
    BY <1>3 DEF Submits, OfFacebook, OfInstagram, OfTikTok
  <2>3. run'.pc = "permalink" => post'[run'.num] = "live"
    BY <1>3, <1>4
  <2> HIDE DEF IInv
  <2> QED BY ONLY <2>1, <2>2, <2>3 DEF PostsMade, PostsAreComplete, At
<1>10. Tracked'
  BY <1>2, <1>3, <1>4, <1>7, RunFields DEF Tracked, PostsMade, Attempts, At
<1> QED BY <1>5, <1>8, <1>9, <1>10

(* Steps of an attempt that leave the posts alone. *)
LEMMA KeptInv ==
  ASSUME IInv, UNCHANGED <<target, posts, abandoned>>, run' \in Run
  PROVE  /\ TypeOK' /\ PostsAreComplete'
         /\ platform' = platform /\ media' = media /\ Containers' = Containers
         /\ post' = post /\ abandoned' = abandoned
<1>1. UNCHANGED <<post, content, shown>> /\ UNCHANGED target /\ abandoned' = abandoned
  BY DEF posts
<1>2. TypeOK
  BY DEF IInv
<1> QED BY <1>1, <1>2, TargetKept DEF IInv, TypeOK, PostsAreComplete

(* From one call to the next, before anything is submitted. *)
LEMMA CallInv ==
  ASSUME IInv, UNCHANGED <<target, posts, abandoned>>, run' \in Run,
         run'.num = run.num, run'.rid = run.rid, run'.result = run.result,
         run.pc \in Submits \cup {"connection", "media"},
         run'.pc \in Submits \cup {"media"},
         run'.pc \in Submits => run.rid = 0,
         run'.pc \in OfFacebook => platform = "FACEBOOK",
         run'.pc \in OfInstagram => platform = "INSTAGRAM",
         run'.pc \in OfTikTok => platform = "TIKTOK",
         run'.pc = "media" => run'.made = 0,
         run'.pc = "container" => run'.made < Containers,
         run'.pc = "wait" => run'.made <= Containers,
         run'.pc = "publish" => run'.made = Containers
  PROVE  IInv'
<1>1. /\ TypeOK' /\ PostsAreComplete'
      /\ platform' = platform /\ media' = media /\ Containers' = Containers
      /\ post' = post /\ abandoned' = abandoned
  BY KeptInv
<1>2. run.num \in Attempts /\ run.result = "none" /\ post[run.num] = "none" /\ run.pc # "permalink"
  BY DEF IInv, Memory, PostsMade, NotRun, Submits, OfFacebook, OfInstagram, OfTikTok
<1>3. /\ run'.pc \notin {"permalink", "poll", "idle", "composed", "refused", "connection"}
  BY DEF Submits, OfFacebook, OfInstagram, OfTikTok
<1>4. CallsOfPlatform'
  BY <1>1, <1>3 DEF CallsOfPlatform, At
<1>5. Memory'
  BY <1>1, <1>2, <1>3 DEF IInv, Memory, At, NotRun
<1>6. PostsMade'
  BY <1>1, <1>2, <1>3 DEF IInv, PostsMade, At
<1>7. Tracked'
  BY <1>1, <1>2, <1>3 DEF IInv, Tracked, At
<1>8. ItemsGiven'
  BY <1>1, <1>3 DEF IInv, ItemsGiven, At
<1> QED BY <1>1, <1>4, <1>5, <1>6, <1>7, <1>8 DEF IInv

LEMMA ContainersNat ==
  ASSUME TypeOK
  PROVE  Containers \in Nat \ {0} /\ (Len(media) > 1 => Containers = Len(media) + 1)
BY MediaFacts DEF Containers

(* What validate may say. *)
LEMMA SaysMessages ==
  ASSUME NEW d, NEW p \in Platforms, NEW account, NEW fl, NEW limitReached, NEW ready, NEW late
  PROVE  DraftIssues(d, ready, late) \cup ValidateIssues(d, p, account, fl, limitReached) \subseteq Messages
<1>1. DraftIssues(d, ready, late) \subseteq Messages
  BY DEF DraftIssues, Incomplete, Issue, Messages
<1>2. ASSUME NEW p1, NEW mode
      PROVE  SharedIssues(d.media, p1, fl) \subseteq Messages /\ TikTokIssues(mode, p1, fl) \subseteq Messages
  BY DEF SharedIssues, TikTokIssues, Issue, Messages
<1>3. ASSUME NEW p1, NEW mode
      PROVE  RuleIssues(p, d.media, mode, p1, fl, limitReached) \subseteq Messages
  <2>1. CASE p = "INSTAGRAM"
    BY <1>2, <2>1 DEF RuleIssues, Issue, Messages
  <2>2. CASE p = "FACEBOOK"
    BY <1>2, <2>2 DEF RuleIssues, Issue, Messages
  <2>3. CASE p = "TIKTOK"
    BY <1>2, <2>3 DEF RuleIssues
  <2> QED BY <2>1, <2>2, <2>3 DEF Platforms
<1>4. ValidateIssues(d, p, account, fl, limitReached) \subseteq Messages
  BY <1>3 DEF ValidateIssues, Issue, Messages
<1> QED BY <1>1, <1>4

LEMMA ValidateInv ==
  ASSUME IInv, Validate
  PROVE  IInv'
<1>1. PICK account \in AccountStatus, ready \in BOOLEAN, late \in BOOLEAN,
           limitReached \in BOOLEAN, pass \in BOOLEAN :
        /\ errors' = DraftIssues(draft, ready, late)
                       \cup ValidateIssues(draft, platform, account, flags, limitReached)
        /\ Goto(IF errors' = {} /\ pass THEN "idle" ELSE "refused")
  BY DEF Validate
<1> DEFINE pc == IF errors' = {} /\ pass THEN "idle" ELSE "refused"
<1>2. /\ run.pc = "composed" /\ Goto(pc) /\ pc \in {"idle", "refused"}
      /\ UNCHANGED <<draft, platform, flags, levels, changed, posts, abandoned>>
  BY <1>1 DEF Validate, At
<1> HIDE DEF pc
<1>3. /\ run' \in Run /\ run'.pc = pc /\ run'.num = run.num /\ run'.rid = run.rid
      /\ run'.result = run.result /\ run'.made = run.made
  BY <1>2, GotoFacts DEF IInv, PC
<1>4. /\ TypeOK' /\ PostsAreComplete'
      /\ platform' = platform /\ media' = media /\ Containers' = Containers
      /\ post' = post /\ abandoned' = abandoned
  <2>1. errors' \subseteq Messages
    BY <1>1, SaysMessages, AdaptersAssumption DEF IInv, TypeOK
  <2> QED BY <1>2, <1>3, <2>1 DEF IInv, TypeOK, PostsAreComplete, media, Containers, posts
<1>5. run.num = 0 /\ run.rid = 0 /\ run.result = "none"
  BY <1>2 DEF IInv, Memory
<1> QED
  BY <1>2, <1>3, <1>4, <1>5 DEF IInv, CallsOfPlatform, Memory, PostsMade, Tracked, ItemsGiven, At,
     NotRun, Submits, OfFacebook, OfInstagram, OfTikTok

LEMMA StartInv ==
  ASSUME IInv, Start
  PROVE  IInv'
<1>1. /\ run.pc = "idle" /\ run.num < MaxAttempts /\ run.result # "SUCCEEDED"
      /\ UNCHANGED <<target, posts, abandoned>>
      /\ run' = [Fresh EXCEPT !.num = run.num + 1, !.pc = "connection",
                              !.rid = IF run.result = "WAITING_REMOTE" THEN run.rid ELSE 0]
  BY DEF Start, At
<1>2. /\ run' \in Run /\ run'.pc = "connection" /\ run'.num = run.num + 1 /\ run'.made = 0
      /\ run'.result = "none" /\ run'.num \in Attempts
      /\ run'.rid = IF run.result = "WAITING_REMOTE" THEN run.rid ELSE 0
  <2>1. run.num + 1 \in Attempts /\ run.num + 1 \in 0 .. MaxAttempts
    BY <1>1, RunFields DEF IInv, Attempts
  <2> DEFINE rid == IF run.result = "WAITING_REMOTE" THEN run.rid ELSE 0
  <2>2. rid \in 0 .. MaxAttempts
    BY RunFields DEF IInv
  <2>3. run' = [num |-> run.num + 1, pc |-> "connection", rid |-> rid, result |-> "none", polls |-> 0,
                made |-> 0, container |-> "none", level |-> NoLevel]
    BY <1>1 DEF Fresh
  <2> HIDE DEF rid
  <2>4. "connection" \in PC
    BY DEF PC
  <2>5. run' \in Run
    BY <2>1, <2>2, <2>3, <2>4 DEF Run
  <2> QED BY <2>1, <2>3, <2>5 DEF rid
<1>3. /\ TypeOK' /\ PostsAreComplete'
      /\ platform' = platform /\ media' = media /\ Containers' = Containers
      /\ post' = post /\ abandoned' = abandoned
  BY <1>1, <1>2, KeptInv
<1>4. run.num \in 0 .. MaxAttempts /\ run.rid \in 0 .. MaxAttempts /\ run.result \in
        {"none", "SUCCEEDED", "FAILED", "WAITING_REMOTE"} \cup ErrorKinds
  BY RunFields DEF IInv
<1>5. CallsOfPlatform' /\ ItemsGiven'
  BY <1>2, <1>3 DEF IInv, CallsOfPlatform, ItemsGiven, At, OfFacebook, OfInstagram, OfTikTok
<1>6. Memory'
  BY <1>1, <1>2, <1>3, <1>4 DEF IInv, Memory, At, NotRun, Submits, OfFacebook, OfInstagram, OfTikTok
<1>7. PostsMade'
  BY <1>2, <1>3, <1>4 DEF IInv, PostsMade, At, Attempts
<1>8. Tracked'
  <2>1. ASSUME NEW n \in Attempts, post[n] \in Unsettled, n \notin abandoned PROVE run'.rid = n
    <3>1. run.rid = n /\ run.rid # 0
      BY <1>1, <2>1 DEF IInv, Tracked, At, Attempts
    <3>2. run.result \notin ErrorKinds \cup {"none"}
      BY <1>1, <3>1 DEF IInv, Tracked, At
    <3>3. run.result # "FAILED"
      BY <1>1, <2>1, <3>1 DEF IInv, Tracked, At, Unsettled
    <3> QED BY <1>1, <1>2, <1>4, <3>1, <3>2, <3>3
  <2>2. run'.rid # 0 => run'.rid = run.rid
    BY <1>2
  <2> QED BY <1>2, <1>3, <2>1, <2>2 DEF IInv, Tracked, At
<1> QED BY <1>3, <1>5, <1>6, <1>7, <1>8 DEF IInv

LEMMA ValidateConnectionInv ==
  ASSUME IInv, ValidateConnection
  PROVE  IInv'
<1>1. run.pc = "connection" /\ UNCHANGED <<target, posts>>
  BY DEF ValidateConnection, At
<1>2. CASE Fail("auth")
  BY <1>1, <1>2, FailInv DEF NotRun, ErrorKinds
<1>3. CASE Goto("media") /\ UNCHANGED abandoned
  <2>1. /\ run' \in Run /\ run'.pc = "media" /\ run'.num = run.num /\ run'.rid = run.rid
        /\ run'.result = run.result /\ run'.made = run.made
    BY <1>3, GotoFacts DEF IInv, PC
  <2>2. run.made = 0
    BY <1>1 DEF IInv, ItemsGiven
  <2> QED
    BY <1>1, <1>3, <2>1, <2>2, CallInv DEF Submits, OfFacebook, OfInstagram, OfTikTok
<1> QED BY <1>2, <1>3 DEF ValidateConnection

LEMMA FirstCallOfPlatform ==
  ASSUME TypeOK
  PROVE  /\ FirstCall \in {"container", "creatorInfo", "photos", "reelStart", "videos"}
         /\ FirstCall \in OfFacebook => platform = "FACEBOOK"
         /\ FirstCall \in OfInstagram => platform = "INSTAGRAM"
         /\ FirstCall \in OfTikTok => platform = "TIKTOK"
<1>1. platform \in {"INSTAGRAM", "FACEBOOK", "TIKTOK"}
  BY AdaptersAssumption DEF TypeOK, Platforms
<1>2. CASE platform = "INSTAGRAM"
  BY <1>2 DEF FirstCall, OfFacebook, OfInstagram, OfTikTok
<1>3. CASE platform = "TIKTOK"
  BY <1>3 DEF FirstCall, OfFacebook, OfInstagram, OfTikTok
<1>4. CASE platform = "FACEBOOK"
  BY <1>4 DEF FirstCall, OfFacebook, OfInstagram, OfTikTok
<1> QED BY <1>1, <1>2, <1>3, <1>4

LEMMA ValidateMediaInv ==
  ASSUME IInv, ValidateMedia
  PROVE  IInv'
<1>1. run.pc = "media" /\ UNCHANGED <<target, posts>>
  BY DEF ValidateMedia, At
<1>2. CASE Fail("validation")
  BY <1>1, <1>2, FailInv DEF NotRun, ErrorKinds
<1>3. CASE run.rid = 0 /\ Goto(FirstCall) /\ UNCHANGED abandoned
  <2>1. /\ FirstCall \in {"container", "creatorInfo", "photos", "reelStart", "videos"}
        /\ FirstCall \in OfFacebook => platform = "FACEBOOK"
        /\ FirstCall \in OfInstagram => platform = "INSTAGRAM"
        /\ FirstCall \in OfTikTok => platform = "TIKTOK"
    BY FirstCallOfPlatform DEF IInv
  <2> HIDE DEF FirstCall
  <2>2. FirstCall \in PC
    BY <2>1 DEF PC
  <2>3. /\ run' \in Run /\ run'.pc = FirstCall /\ run'.num = run.num /\ run'.rid = run.rid
        /\ run'.result = run.result /\ run'.made = run.made
    BY <1>3, <2>2, GotoFacts DEF IInv
  <2>4. run.made = 0 /\ Containers \in Nat \ {0}
    BY <1>1, ContainersNat DEF IInv, ItemsGiven, At
  <2>5. FirstCall \in Submits \cup {"media"} /\ FirstCall \notin {"media", "wait", "publish"}
    BY <2>1 DEF Submits, OfFacebook, OfInstagram, OfTikTok
  <2>6. run'.made < Containers
    BY <2>3, <2>4
  <2> QED BY <1>1, <1>3, <2>1, <2>3, <2>5, <2>6, CallInv
<1>4. CASE run.rid # 0 /\ Goto("poll") /\ UNCHANGED abandoned
  <2>1. /\ run' \in Run /\ run'.pc = "poll" /\ run'.num = run.num /\ run'.rid = run.rid
        /\ run'.result = run.result /\ run'.made = run.made
    BY <1>4, GotoFacts DEF IInv, PC
  <2>2. /\ TypeOK' /\ PostsAreComplete'
        /\ platform' = platform /\ media' = media /\ Containers' = Containers
        /\ post' = post /\ abandoned' = abandoned
    BY <1>1, <1>4, <2>1, KeptInv
  <2> QED
    BY <1>1, <1>4, <2>1, <2>2 DEF IInv, CallsOfPlatform, Memory, PostsMade, Tracked, ItemsGiven, At,
       NotRun, Submits, OfFacebook, OfInstagram, OfTikTok
<1> QED BY <1>2, <1>3, <1>4 DEF ValidateMedia

LEMMA ReelStartInv ==
  ASSUME IInv, ReelStart
  PROVE  IInv'
<1>1. run.pc = "reelStart" /\ UNCHANGED <<target, posts, abandoned>> /\ Goto("reelUpload")
  BY DEF ReelStart, At
<1>2. /\ run' \in Run /\ run'.pc = "reelUpload" /\ run'.num = run.num /\ run'.rid = run.rid
      /\ run'.result = run.result
  BY <1>1, GotoFacts DEF IInv, PC
<1> QED
  BY <1>1, <1>2, CallInv DEF IInv, Memory, CallsOfPlatform, Submits, OfFacebook, OfInstagram, OfTikTok

LEMMA ReelUploadInv ==
  ASSUME IInv, ReelUpload
  PROVE  IInv'
<1>1. run.pc = "reelUpload" /\ UNCHANGED <<target, posts, abandoned>> /\ Goto("reelFinish")
  BY DEF ReelUpload, At
<1>2. /\ run' \in Run /\ run'.pc = "reelFinish" /\ run'.num = run.num /\ run'.rid = run.rid
      /\ run'.result = run.result
  BY <1>1, GotoFacts DEF IInv, PC
<1> QED
  BY <1>1, <1>2, CallInv DEF IInv, Memory, CallsOfPlatform, Submits, OfFacebook, OfInstagram, OfTikTok

LEMMA CreateContainerInv ==
  ASSUME IInv, CreateContainer
  PROVE  IInv'
<1>1. /\ run.pc = "container" /\ UNCHANGED <<target, posts, abandoned>>
      /\ run' = [run EXCEPT !.pc = "wait", !.made = @ + 1, !.container = "IN_PROGRESS", !.polls = 0]
  BY DEF CreateContainer, At
<1>2. /\ run' \in Run /\ run'.pc = "wait" /\ run'.num = run.num /\ run'.rid = run.rid
      /\ run'.result = run.result /\ run'.made = run.made + 1
  <2>1. "wait" \in PC /\ run.made + 1 \in Nat
    BY RunFields DEF IInv, PC
  <2> QED BY <1>1, <2>1, RunFields DEF IInv, Run
<1>3. run.made < Containers /\ run.made \in Nat /\ Containers \in Nat
  BY <1>1, ContainersNat, RunFields DEF IInv, ItemsGiven, At
<1> QED
  BY <1>1, <1>2, <1>3, CallInv DEF IInv, Memory, CallsOfPlatform, Submits, OfFacebook, OfInstagram, OfTikTok

LEMMA WaitForContainerInv ==
  ASSUME IInv, WaitForContainer
  PROVE  IInv'
<1>1. run.pc = "wait" /\ UNCHANGED <<target, posts>>
  BY DEF WaitForContainer, At
<1>2. CASE Fail("validation") \/ Fail("transient")
  BY <1>1, <1>2, FailInv DEF NotRun, ErrorKinds
<1>3. /\ run.made <= Containers /\ run.made \in Nat /\ Containers \in Nat
      /\ run.rid = 0 /\ platform = "INSTAGRAM"
  BY <1>1, ContainersNat, RunFields
     DEF IInv, ItemsGiven, At, Memory, CallsOfPlatform, Submits, OfInstagram
<1>4. CASE Goto(IF run.made < Containers THEN "container" ELSE "publish") /\ UNCHANGED abandoned
  <2> DEFINE pc == IF run.made < Containers THEN "container" ELSE "publish"
  <2>1. pc \in {"container", "publish"}
    OBVIOUS
  <2>2. pc \in PC
    BY <2>1 DEF PC
  <2>3. Goto(pc)
    BY <1>4
  <2>4. (pc = "container" => run.made < Containers) /\ (pc = "publish" => run.made = Containers)
    BY <1>3
  <2> HIDE DEF pc
  <2>5. /\ run' \in Run /\ run'.pc = pc /\ run'.num = run.num /\ run'.rid = run.rid
        /\ run'.result = run.result /\ run'.made = run.made
    BY <2>2, <2>3, GotoFacts DEF IInv
  <2> QED
    BY <1>1, <1>3, <1>4, <2>1, <2>4, <2>5, CallInv DEF Submits, OfFacebook, OfInstagram, OfTikTok
<1>5. CASE run' = [run EXCEPT !.polls = @ + 1] /\ UNCHANGED abandoned
  <2>1. /\ run' \in Run /\ run'.pc = "wait" /\ run'.num = run.num /\ run'.rid = run.rid
        /\ run'.result = run.result /\ run'.made = run.made
    <3>1. run.polls + 1 \in Nat
      BY RunFields DEF IInv
    <3> QED BY <1>1, <1>5, <3>1, RunFields DEF IInv, Run
  <2> QED
    BY <1>1, <1>3, <1>5, <2>1, CallInv DEF Submits, OfFacebook, OfInstagram, OfTikTok
<1> QED BY <1>2, <1>4, <1>5 DEF WaitForContainer

LEMMA QueryCreatorInfoInv ==
  ASSUME IInv, QueryCreatorInfo
  PROVE  IInv'
<1>1. run.pc = "creatorInfo" /\ UNCHANGED <<target, posts>>
  BY DEF QueryCreatorInfo, At
<1>2. CASE Fail("validation")
  BY <1>1, <1>2, FailInv DEF NotRun, ErrorKinds
<1>3. ASSUME ~Fail("validation") PROVE IInv'
  <2> DEFINE pc == IF media[1] = "IMAGE" THEN "photoInit" ELSE "videoInit"
             level == LevelSent(request.privacyLevel, levels)
  <2>1. run' = [run EXCEPT !.pc = pc, !.level = level] /\ UNCHANGED abandoned
    BY <1>3 DEF QueryCreatorInfo
  <2>2. pc \in {"photoInit", "videoInit"}
    OBVIOUS
  <2>3. level \in PrivacyLevels \cup {NoLevel}
    <3>1. request.privacyLevel \in PrivacyLevels \cup {NoLevel, "PRIVATE"}
      BY AdaptersAssumption DEF IInv, TypeOK, request, JobPost, CanonicalPost
    <3>2. levels # <<>> => levels[1] \in PrivacyLevels
      BY AdaptersAssumption DEF IInv, TypeOK
    <3>3. "SELF_ONLY" \in PrivacyLevels
      BY AdaptersAssumption
    <3> HIDE DEF request
    <3> QED BY <3>1, <3>2, <3>3 DEF LevelSent, NormalizePrivacy
  <2> HIDE DEF pc, level
  <2>4. /\ run' \in Run /\ run'.pc = pc /\ run'.num = run.num /\ run'.rid = run.rid
        /\ run'.result = run.result
    <3>1. pc \in PC
      BY <2>2 DEF PC
    <3> QED BY <2>1, <2>3, <3>1, RunFields DEF IInv, Run
  <2> QED
    BY <1>1, <2>1, <2>2, <2>4, CallInv
    DEF IInv, Memory, CallsOfPlatform, Submits, OfFacebook, OfInstagram, OfTikTok
<1> QED BY <1>2, <1>3

LEMMA VideoInitInv ==
  ASSUME IInv, VideoInit
  PROVE  IInv'
<1> DEFINE level == IF request.mode = "DIRECT" THEN run.level ELSE NoLevel
<1>1. /\ run.pc = "videoInit" /\ UNCHANGED <<target, posts, abandoned>>
      /\ run' = [run EXCEPT !.pc = "videoUpload", !.level = level]
  BY DEF VideoInit, At
<1>2. level \in PrivacyLevels \cup {NoLevel} /\ "videoUpload" \in PC
  BY RunFields DEF IInv, PC
<1> HIDE DEF level
<1>3. /\ run' \in Run /\ run'.pc = "videoUpload" /\ run'.num = run.num /\ run'.rid = run.rid
      /\ run'.result = run.result
  BY <1>1, <1>2, RunFields DEF IInv, Run
<1> QED
  BY <1>1, <1>3, CallInv DEF IInv, Memory, CallsOfPlatform, Submits, OfFacebook, OfInstagram, OfTikTok

(* The items that the submitting calls are given. *)
LEMMA ItemsAreMedia ==
  ASSUME IInv
  PROVE  /\ run.pc \in OfFacebook \cup OfTikTok => <<media[1]>> = media
         /\ At("publish") => Published = media
<1>1. ASSUME run.pc \in OfFacebook \cup OfTikTok PROVE Len(media) = 1
  BY <1>1 DEF IInv, CallsOfPlatform, ItemsGiven
<1>2. ASSUME At("publish"), Len(media) > 1 PROVE run.made - 1 = Len(media)
  BY <1>2, ContainersNat, MediaFacts DEF IInv, ItemsGiven
<1> QED BY <1>1, <1>2, MediaFacts DEF IInv, Published

LEMMA SubmissionsInv ==
  ASSUME IInv, Photos \/ Videos \/ ReelFinish \/ MediaPublish \/ PhotoInit \/ VideoUpload
  PROVE  IInv'
<1>1. CASE Photos \/ MediaPublish
  <2>1. At("photos") \/ At("publish")
    BY <1>1 DEF Photos, MediaPublish
  <2>2. AcceptPost("SUCCEEDED", media)
    BY <1>1, ItemsAreMedia DEF Photos, MediaPublish, At, OfFacebook
  <2>3. Goto("permalink") /\ UNCHANGED <<target, abandoned>>
    BY <1>1 DEF Photos, MediaPublish
  <2> QED BY <2>1, <2>2, <2>3, PublishInv
<1>2. CASE Videos \/ ReelFinish \/ PhotoInit \/ VideoUpload
  <2>1. run.pc \in Submits
    BY <1>2 DEF Videos, ReelFinish, PhotoInit, VideoUpload, At, Submits, OfFacebook, OfTikTok
  <2>2. AcceptPost("WAITING_REMOTE", media)
    BY <1>2, ItemsAreMedia DEF Videos, ReelFinish, PhotoInit, VideoUpload, At, OfFacebook, OfTikTok
  <2>3. Submitted /\ UNCHANGED <<target, abandoned>>
    BY <1>2 DEF Videos, ReelFinish, PhotoInit, VideoUpload
  <2> QED BY <2>1, <2>2, <2>3, SubmitInv
<1> QED BY <1>1, <1>2

LEMMA AnswerLostInv ==
  ASSUME IInv, NEW kind \in ErrorKinds, AnswerLost(kind)
  PROVE  IInv'
<1>1. run.pc \in Submits
  BY DEF AnswerLost, At, Submits, OfFacebook, OfInstagram, OfTikTok
<1>2. PICK answer \in {"SUCCEEDED", "WAITING_REMOTE"} : AcceptPost(answer, media)
  BY ItemsAreMedia DEF AnswerLost, At, OfFacebook, OfTikTok
<1> QED BY <1>1, <1>2, LostInv DEF AnswerLost

LEMMA FetchPermalinkInv ==
  ASSUME IInv, FetchPermalink
  PROVE  IInv'
<1>1. /\ run.pc = "permalink" /\ UNCHANGED <<target, posts, abandoned>>
      /\ run' = [run EXCEPT !.pc = "idle", !.rid = run.num, !.result = "SUCCEEDED"]
  BY DEF FetchPermalink, At
<1>2. run.num \in Attempts /\ run.rid = 0 /\ post[run.num] = "live"
  BY <1>1 DEF IInv, Memory, PostsMade, NotRun, At
<1>3. /\ run' \in Run /\ run'.pc = "idle" /\ run'.num = run.num /\ run'.rid = run.num
      /\ run'.result = "SUCCEEDED"
  BY <1>1, RunFields DEF IInv, Run, PC
<1>4. /\ TypeOK' /\ PostsAreComplete'
      /\ platform' = platform /\ media' = media /\ Containers' = Containers
      /\ post' = post /\ abandoned' = abandoned
  BY <1>1, <1>3, KeptInv
<1>5. "SUCCEEDED" \notin ErrorKinds \cup {"none"}
  BY DEF ErrorKinds
<1>6. (CallsOfPlatform /\ Memory /\ PostsMade /\ ItemsGiven)'
  BY <1>2, <1>3, <1>4 DEF IInv, CallsOfPlatform, Memory, PostsMade, ItemsGiven, At, Attempts, Accepted,
     NotRun, Submits, OfFacebook, OfInstagram, OfTikTok
<1>7. Tracked'
  <2>1. ASSUME NEW n \in Attempts, post[n] \in Unsettled, n \notin abandoned PROVE n = run.num
    BY <1>2, <2>1 DEF IInv, Tracked, Attempts
  <2>2. ASSUME NEW n \in Attempts, run.num < n PROVE post[n] = "none"
    BY <2>2 DEF IInv, PostsMade
  <2> QED BY <1>3, <1>4, <1>5, <2>1, <2>2 DEF Tracked, At
<1> QED BY <1>4, <1>6, <1>7 DEF IInv

(* A poll tells failure only of a post that failed. *)
LEMMA PollTells ==
  ASSUME IInv, At("poll")
  PROVE  /\ PollStatus(post[run.rid]) = PollAnswer(platform, post[run.rid])
         /\ PollStatus(post[run.rid]) \in {"SUCCEEDED", "FAILED", "WAITING_REMOTE"}
         /\ PollStatus(post[run.rid]) = "FAILED" => post[run.rid] \in {"failed", "withdrawn"}
<1>1. run.rid \in Attempts /\ post[run.rid] \in Accepted
  BY RunFields DEF IInv, Memory, Attempts
<1>2. post[run.rid] \in {"processed", "withdrawn"} => platform = "FACEBOOK"
  BY <1>1 DEF IInv, PostsMade
<1>3. \A s \in Accepted :
        FacebookStatus(Phases(s)) =
          CASE s \in {"failed", "withdrawn"} -> "FAILED"
            [] s \in {"live", "processed"} -> "SUCCEEDED"
            [] s = "processing" -> "WAITING_REMOTE"
  BY DEF Accepted, FacebookStatus, Phases
<1> QED BY <1>1, <1>2, <1>3 DEF PollStatus, TikTokStatus, PollAnswer, Accepted

LEMMA PollInv ==
  ASSUME IInv, Poll
  PROVE  IInv'
<1>1. run.pc = "poll" /\ UNCHANGED <<target, posts, abandoned>>
  BY DEF Poll, At
<1>2. run.num \in Attempts /\ run.rid # 0
  BY <1>1 DEF IInv, Memory, NotRun, At
<1> DEFINE status == PollStatus(post[run.rid])
<1>3. /\ status \in {"SUCCEEDED", "FAILED", "WAITING_REMOTE"}
      /\ status = "FAILED" => post[run.rid] \in {"failed", "withdrawn"}
  BY <1>1, PollTells DEF At
<1>4. \/ run' = [run EXCEPT !.polls = @ + 1]
      \/ run' = [run EXCEPT !.pc = "idle", !.result = status]
  BY DEF Poll
<1> HIDE DEF status
<1>5. /\ run' \in Run /\ run'.num = run.num /\ run'.rid = run.rid
      /\ \/ run'.pc = "poll"
         \/ run'.pc = "idle" /\ run'.result = status
  <2>1. "idle" \in PC /\ run.polls + 1 \in Nat
    BY RunFields DEF IInv, PC
  <2> QED BY <1>1, <1>3, <1>4, <2>1, RunFields DEF IInv, Run
<1>6. /\ TypeOK' /\ PostsAreComplete'
      /\ platform' = platform /\ media' = media /\ Containers' = Containers
      /\ post' = post /\ abandoned' = abandoned
  BY <1>1, <1>5, KeptInv
<1>7. status \notin ErrorKinds \cup {"none"}
  BY <1>3 DEF ErrorKinds
<1>8. (CallsOfPlatform /\ Memory /\ PostsMade /\ ItemsGiven)'
  BY <1>2, <1>5, <1>6 DEF IInv, CallsOfPlatform, Memory, PostsMade, ItemsGiven, At,
     NotRun, Submits, OfFacebook, OfInstagram, OfTikTok
<1>9. Tracked'
  BY <1>1, <1>2, <1>3, <1>5, <1>6, <1>7 DEF IInv, Tracked, At
<1> QED BY <1>6, <1>8, <1>9 DEF IInv

(* The platform moves a post on. *)
LEMMA MoveInv ==
  ASSUME IInv, NEW n \in Attempts, post[n] \in {"processing", "processed"},
         NEW s \in {"processed", "live", "failed", "withdrawn"},
         s \in {"processed", "withdrawn"} => platform = "FACEBOOK",
         post' = [post EXCEPT ![n] = s], UNCHANGED <<target, run, content, shown, abandoned>>
  PROVE  IInv'
<1>1. s \in Accepted
  BY DEF Accepted
<1>2. /\ post' \in [Attempts -> Accepted \cup {"none"}] /\ post'[n] = s
      /\ \A m \in Attempts \ {n} : post'[m] = post[m]
  BY <1>1 DEF IInv, TypeOK
<1>3. /\ run' = run /\ content' = content /\ shown' = shown /\ abandoned' = abandoned
      /\ UNCHANGED target
  OBVIOUS
<1>4. TypeOK' /\ platform' = platform /\ media' = media /\ Containers' = Containers
  BY <1>2, <1>3, TargetKept DEF IInv, TypeOK
<1>5. \A m \in Attempts : (post'[m] = "none" <=> post[m] = "none") /\ (post[m] \in Accepted => post'[m] \in Accepted)
  BY <1>1, <1>2
<1>6. run.num \in Nat /\ (run.rid # 0 => run.rid \in Attempts) /\ (run.pc \notin NotRun => run.num \in Attempts)
  BY RunFields DEF IInv, Attempts, Memory
<1>7. CallsOfPlatform' /\ ItemsGiven' /\ PostsAreComplete'
  BY <1>3, <1>4, <1>5 DEF IInv, CallsOfPlatform, ItemsGiven, PostsAreComplete, At
<1>8. Memory'
  BY <1>3, <1>5, <1>6 DEF IInv, Memory, At
<1>9. PostsMade'
  <2>1. run.pc \in Submits \cup {"connection", "media", "permalink"} => run.num \in Attempts
    BY <1>6 DEF NotRun, Submits, OfFacebook, OfInstagram, OfTikTok
  <2>2. At("permalink") => n # run.num
    BY DEF IInv, PostsMade
  <2>3. \A m \in Attempts : post'[m] \in {"processed", "withdrawn"} => platform = "FACEBOOK"
    BY <1>2 DEF IInv, PostsMade
  <2> QED BY <1>2, <1>3, <1>4, <1>5, <2>1, <2>2, <2>3 DEF IInv, PostsMade, At
<1>10. Tracked'
  <2>1. \A m \in Attempts : post'[m] \in Unsettled => post[m] \in Unsettled
    BY <1>2 DEF Unsettled
  <2>2. At("idle") /\ run.result = "FAILED" /\ run.rid # 0 => run.rid # n /\ post'[run.rid] = post[run.rid]
    BY <1>2, <1>6 DEF IInv, Tracked
  <2> QED BY <1>3, <1>5, <2>1, <2>2 DEF IInv, Tracked, At
<1> QED BY <1>4, <1>7, <1>8, <1>9, <1>10 DEF IInv

LEMMA PlatformInv ==
  ASSUME IInv, NEW n \in Attempts, FinishProcessing(n) \/ Settle(n)
  PROVE  IInv'
<1>1. CASE FinishProcessing(n)
  BY <1>1, MoveInv DEF FinishProcessing
<1>2. CASE Settle(n)
  <2>1. PICK s \in Outcomes(post[n]) : post' = [post EXCEPT ![n] = s]
    BY <1>2 DEF Settle
  <2>2. post[n] \in {"processing", "processed"}
    BY <2>1 DEF Outcomes
  <2>3. s \in {"live", "failed", "withdrawn"} /\ (s = "withdrawn" => post[n] = "processed")
    BY <2>1, <2>2 DEF Outcomes
  <2>4. s \in {"processed", "withdrawn"} => platform = "FACEBOOK"
    BY <2>3 DEF IInv, PostsMade
  <2>5. UNCHANGED <<target, run, content, shown, abandoned>>
    BY <1>2 DEF Settle
  <2> QED BY <2>1, <2>2, <2>3, <2>4, <2>5, MoveInv
<1> QED BY <1>1, <1>2

LEMMA OthersInv ==
  ASSUME IInv, ContainerEnds \/ TargetChanges \/ UNCHANGED vars
  PROVE  IInv'
<1>1. CASE ContainerEnds
  <2>1. PICK c \in {"FINISHED", "ERROR"} : run' = [run EXCEPT !.container = c]
    BY <1>1 DEF ContainerEnds
  <2>2. /\ run' \in Run /\ run'.num = run.num /\ run'.rid = run.rid /\ run'.pc = run.pc
        /\ run'.result = run.result /\ run'.made = run.made
    BY <2>1, RunFields DEF IInv, Run
  <2>3. /\ TypeOK' /\ PostsAreComplete'
        /\ platform' = platform /\ media' = media /\ Containers' = Containers
        /\ post' = post /\ abandoned' = abandoned
    BY <1>1, <2>2, KeptInv DEF ContainerEnds
  <2> QED
    BY <2>2, <2>3 DEF IInv, CallsOfPlatform, Memory, PostsMade, Tracked, ItemsGiven, At
<1>2. CASE TargetChanges
  <2>1. /\ draft' = draft /\ platform' = platform /\ run' = run /\ UNCHANGED posts /\ abandoned' = abandoned
        /\ errors' = errors /\ changed' = TRUE /\ levels' \in LevelLists
    BY <1>2 DEF TargetChanges
  <2>2. media' = media /\ Containers' = Containers /\ UNCHANGED <<post, content, shown>>
    BY <2>1 DEF media, Containers, posts
  <2>3. TypeOK'
    BY <2>1, <2>2 DEF IInv, TypeOK
  <2> QED
    BY <2>1, <2>2, <2>3 DEF IInv, CallsOfPlatform, Memory, PostsMade, Tracked, ItemsGiven, PostsAreComplete, At
<1>3. CASE UNCHANGED vars
  <2>1. run' = run /\ UNCHANGED <<target, posts, abandoned>>
    BY <1>3 DEF vars, target, posts
  <2>2. /\ TypeOK' /\ PostsAreComplete'
        /\ platform' = platform /\ media' = media /\ Containers' = Containers
        /\ post' = post /\ abandoned' = abandoned
    BY <2>1, KeptInv DEF IInv, TypeOK
  <2> QED
    BY <2>1, <2>2 DEF IInv, CallsOfPlatform, Memory, PostsMade, Tracked, ItemsGiven, At
<1> QED BY <1>1, <1>2, <1>3

LEMMA NextInv == IInv /\ [Next]_vars => IInv'
<1> SUFFICES ASSUME IInv, [Next]_vars PROVE IInv'
  OBVIOUS
<1>1. CASE Validate \/ Start
  BY <1>1, ValidateInv, StartInv
<1>2. CASE Continue
  BY <1>2, ValidateConnectionInv, ValidateMediaInv, SubmissionsInv, ReelStartInv, ReelUploadInv,
     CreateContainerInv, WaitForContainerInv, FetchPermalinkInv, QueryCreatorInfoInv, VideoInitInv,
     PollInv DEF Continue
<1>3. ASSUME NEW kind \in ErrorKinds, CallFails(kind) PROVE IInv'
  BY <1>3, FailInv DEF CallFails
<1>4. ASSUME NEW kind \in ErrorKinds, AnswerLost(kind) PROVE IInv'
  BY <1>4, AnswerLostInv
<1>5. ASSUME NEW n \in Attempts, FinishProcessing(n) \/ Settle(n) PROVE IInv'
  BY <1>5, PlatformInv
<1>6. CASE ContainerEnds \/ TargetChanges \/ UNCHANGED vars
  BY <1>6, OthersInv
<1> QED BY <1>1, <1>2, <1>3, <1>4, <1>5, <1>6 DEF Next

-----------------------------------------------------------------------------
(* Theorems. *)

(* The inductive invariant. *)
THEOREM Invariance == Spec => []IInv
<1>1. Init => IInv
  BY InitInv
<1>2. IInv /\ [Next]_vars => IInv'
  BY NextInv
<1> QED BY <1>1, <1>2, PTL DEF Spec

(* Every variable of a job's calls has its type: an attempt's locals, the  *)
(* posts and what is remembered of them.                                   *)
THEOREM TypeCorrect == Spec => []TypeOK
<1>1. IInv => TypeOK
  BY DEF IInv
<1> QED BY <1>1, Invariance, PTL

(* No publisher posts a part of a draft, or its items in another order.    *)
THEOREM Completeness == Spec => []PostsAreComplete
<1>1. IInv => PostsAreComplete
  BY DEF IInv
<1> QED BY <1>1, Invariance, PTL

(* Whatever fails and whenever the platform settles, an attempt submits    *)
(* again only what was rejected or what an error made it forget.           *)
THEOREM NoDuplicateWithoutError == Spec => []DuplicatesOnlyAfterError
<1>1. IInv => DuplicatesOnlyAfterError
  <2> SUFFICES ASSUME IInv, NEW m \in Attempts, NEW n \in Attempts, m < n, post[n] # "none",
                      post[m] \in Unsettled, m \notin abandoned
               PROVE  FALSE
    BY DEF DuplicatesOnlyAfterError, Unsettled
  <2>1. run.rid = m \/ (At("permalink") /\ run.num = m)
    BY DEF IInv, Tracked
  <2>2. CASE run.rid = m
    BY <2>2 DEF IInv, Tracked, Attempts
  <2>3. CASE run.num = m
    BY <2>3 DEF IInv, PostsMade
  <2> QED BY <2>1, <2>2, <2>3
<1> QED BY <1>1, Invariance, PTL

-----------------------------------------------------------------------------
(* The adapters implement PlatformCalls. *)

(* The control state that the abstract specification sees. *)
Seen == IF run.pc \in NotRun THEN "idle" ELSE IF At("poll") THEN "poll" ELSE "submit"

LEMMA SeenFacts ==
  /\ run.pc \in Submits \cup {"connection", "media", "permalink"} => Seen = "submit"
  /\ At("poll") => Seen = "poll"
  /\ run.pc \in NotRun => Seen = "idle"
BY DEF Seen, At, NotRun, Submits, OfFacebook, OfInstagram, OfTikTok

(* Both modules share the contract. *)
LEMMA SameContract ==
  /\ Calls!ErrorKinds = ErrorKinds /\ Calls!Attempts = Attempts
  /\ \A p : Calls!SubmitAnswers(p) = SubmitAnswers(p)
  /\ \A a : Calls!PostOf(a) = PostOf(a)
  /\ \A s : Calls!Outcomes(s) = Outcomes(s)
  /\ \A p, s : Calls!PollAnswer(p, s) = PollAnswer(p, s)
BY DEF Calls!ErrorKinds, ErrorKinds, Calls!Attempts, Attempts, Calls!SubmitAnswers, SubmitAnswers,
   Calls!PostOf, PostOf, Calls!Outcomes, Outcomes, Calls!PollAnswer, PollAnswer

LEMMA InitImplements == Init => Calls!Init
<1> SUFFICES ASSUME Init PROVE Calls!Init
  OBVIOUS
<1>1. TypeOK
  BY InitInv DEF IInv
<1>2. platform \in {"INSTAGRAM", "FACEBOOK", "TIKTOK"}
  BY <1>1, AdaptersAssumption DEF TypeOK, Platforms
<1> QED BY <1>2 DEF Init, Calls!Init, Fresh, Reported, At, NotRun, Attempts, Calls!Attempts

(* A step from call to call is none of the abstract specification. *)
LEMMA CallStutters ==
  ASSUME IInv, UNCHANGED <<platform, post>>, run'.num = run.num, run'.rid = run.rid,
         run'.result = run.result,
         \/ run'.pc = run.pc
         \/ /\ run.pc \in Submits \cup {"connection", "media"}
            /\ run'.pc \in Submits \cup {"media"}
         \/ run.pc \in NotRun /\ run'.pc \in NotRun
  PROVE  UNCHANGED Calls!vars
<1>1. Seen' = Seen
  BY DEF Seen, At, NotRun, Submits, OfFacebook, OfInstagram, OfTikTok
<1>2. Reported' = Reported
  BY DEF Reported, At, NotRun, Submits, OfFacebook, OfInstagram, OfTikTok
<1> QED BY <1>1, <1>2 DEF Calls!vars, Seen

LEMMA FailImplements ==
  ASSUME IInv, run.pc \notin NotRun, NEW kind \in ErrorKinds, Fail(kind), UNCHANGED <<target, posts>>
  PROVE  Calls!Next
<1>1. /\ run'.pc = "idle" /\ run'.num = run.num /\ run'.rid = 0 /\ run'.result = kind
      /\ post' = post /\ platform' = platform
  BY FailFacts, TargetKept DEF IInv, posts
<1>2. Seen' = "idle" /\ Reported' = post
  BY <1>1 DEF Seen, Reported, At, NotRun
<1>3. CASE At("poll")
  <2>1. Seen = "poll" /\ Reported = post
    BY <1>3, SeenFacts DEF Reported, At
  <2>2. Calls!PollFails(kind)
    BY <1>1, <1>2, <2>1 DEF Calls!PollFails, Calls!Ends, Seen
  <2> QED BY <2>2, SameContract DEF Calls!Next
<1>4. CASE At("permalink")
  <2>1. /\ Seen = "submit" /\ Reported = [post EXCEPT ![run.num] = "none"] /\ run.rid = 0
        /\ platform \in {"INSTAGRAM", "FACEBOOK"} /\ run.num \in Attempts /\ post[run.num] = "live"
    BY <1>4, SeenFacts DEF IInv, Reported, At, Memory, CallsOfPlatform, PostsMade, NotRun
  <2>2. post = [Reported EXCEPT ![run.num] = "live"]
    BY <2>1 DEF IInv, TypeOK
  <2>3. Calls!AcceptPost("SUCCEEDED")
    BY <1>2, <2>1, <2>2, SameContract DEF Calls!AcceptPost, SubmitAnswers, PostOf, Seen
  <2>4. Calls!SubmitUnanswered("SUCCEEDED", kind)
    BY <1>1, <1>2, <2>3 DEF Calls!SubmitUnanswered, Calls!Ends, Seen
  <2> QED BY <2>4, SameContract DEF Calls!Next
<1>5. CASE ~At("poll") /\ ~At("permalink")
  <2>1. Seen = "submit" /\ Reported = post
    BY <1>5 DEF Seen, Reported
  <2>2. Calls!Refuse(kind)
    BY <1>1, <1>2, <2>1 DEF Calls!Refuse, Calls!Ends, Seen
  <2> QED BY <2>2, SameContract DEF Calls!Next
<1> QED BY <1>3, <1>4, <1>5

(* A submission that the platform takes on in the last call of a publisher. *)
LEMMA AcceptImplements ==
  ASSUME IInv, run.pc \in Submits, NEW answer \in SubmitAnswers(platform),
         AcceptPost(answer, media), Reported' = post', UNCHANGED target
  PROVE  Calls!AcceptPost(answer) /\ platform' = platform
<1>1. /\ run.rid = 0 /\ ~At("permalink")
  BY DEF IInv, Memory, At, Submits, OfFacebook, OfInstagram, OfTikTok
<1>2. Seen = "submit" /\ Reported = post /\ platform' = platform
  BY <1>1, SeenFacts, TargetKept DEF IInv, Reported
<1>3. post' = [post EXCEPT ![run.num] = PostOf(answer)]
  BY DEF AcceptPost
<1> QED BY <1>1, <1>2, <1>3, SameContract DEF Calls!AcceptPost, Seen

(* Which call answers what. *)
LEMMA Answers ==
  ASSUME IInv
  PROVE  /\ At("photos") \/ At("publish") => "SUCCEEDED" \in SubmitAnswers(platform)
         /\ run.pc \in {"videos", "reelFinish", "photoInit", "videoUpload"} =>
              "WAITING_REMOTE" \in SubmitAnswers(platform)
BY DEF IInv, CallsOfPlatform, At, OfFacebook, OfInstagram, OfTikTok, SubmitAnswers

LEMMA LostImplements ==
  ASSUME IInv, NEW kind \in ErrorKinds, AnswerLost(kind)
  PROVE  Calls!Next
<1>1. run.pc \in Submits
  BY DEF AnswerLost, At, Submits, OfFacebook, OfInstagram, OfTikTok
<1>2. PICK answer \in SubmitAnswers(platform) : AcceptPost(answer, media)
  BY ItemsAreMedia, Answers DEF AnswerLost, At, OfFacebook, OfTikTok
<1>3. /\ run'.pc = "idle" /\ run'.num = run.num /\ run'.rid = 0 /\ run'.result = kind
      /\ UNCHANGED target
  BY RunFields DEF AnswerLost, IInv
<1>4. Seen' = "idle" /\ Reported' = post'
  BY <1>3 DEF Seen, Reported, At, NotRun
<1>5. Calls!AcceptPost(answer) /\ platform' = platform
  BY <1>1, <1>2, <1>3, <1>4, AcceptImplements
<1>6. Calls!SubmitUnanswered(answer, kind)
  BY <1>3, <1>4, <1>5 DEF Calls!SubmitUnanswered, Calls!Ends, Seen
<1>7. answer \in {"SUCCEEDED", "WAITING_REMOTE"}
  BY AdaptersAssumption DEF IInv, TypeOK, Platforms, SubmitAnswers
<1> QED BY <1>6, <1>7, SameContract DEF Calls!Next

(* The answer "still processing" is reported at once. *)
LEMMA SubmitImplements ==
  ASSUME IInv, Videos \/ ReelFinish \/ PhotoInit \/ VideoUpload
  PROVE  Calls!Next
<1>1. run.pc \in {"videos", "reelFinish", "photoInit", "videoUpload"}
  BY DEF Videos, ReelFinish, PhotoInit, VideoUpload, At
<1>2. run.pc \in Submits /\ run.num \in Attempts
  BY <1>1 DEF IInv, Memory, NotRun, Submits, OfFacebook, OfTikTok
<1>3. AcceptPost("WAITING_REMOTE", media)
  BY ItemsAreMedia DEF Videos, ReelFinish, PhotoInit, VideoUpload, At, OfFacebook, OfTikTok
<1>4. Submitted /\ UNCHANGED target
  BY DEF Videos, ReelFinish, PhotoInit, VideoUpload
<1>5. /\ run'.pc = "poll" /\ run'.num = run.num /\ run'.rid = run.num
      /\ run'.result = "WAITING_REMOTE"
  BY <1>2, <1>4, SubmittedFacts DEF IInv
<1>6. Seen' = "poll" /\ Reported' = post'
  BY <1>5 DEF Seen, Reported, At, NotRun
<1>7. Calls!AcceptPost("WAITING_REMOTE") /\ platform' = platform
  BY <1>1, <1>2, <1>3, <1>4, <1>6, Answers, AcceptImplements
<1>8. Calls!Submit("WAITING_REMOTE")
  BY <1>5, <1>6, <1>7 DEF Calls!Submit, Seen
<1> QED BY <1>8 DEF Calls!Next

(* A live post is not reported before its permalink is known. *)
LEMMA PublishStutters ==
  ASSUME IInv, Photos \/ MediaPublish
  PROVE  UNCHANGED Calls!vars
<1>1. At("photos") \/ At("publish")
  BY DEF Photos, MediaPublish
<1>2. /\ run.num \in Attempts /\ ~At("permalink") /\ post[run.num] = "none" /\ Seen = "submit"
  BY <1>1, SeenFacts DEF IInv, Memory, PostsMade, NotRun, Submits, At, OfFacebook, OfInstagram
<1>3. Goto("permalink") /\ UNCHANGED target
  BY DEF Photos, MediaPublish
<1>4. /\ run'.pc = "permalink" /\ run'.num = run.num /\ run'.rid = run.rid
      /\ run'.result = run.result
  BY <1>3, GotoFacts DEF IInv, PC
<1>5. post' = [post EXCEPT ![run.num] = "live"]
  BY DEF Photos, MediaPublish, AcceptPost, PostOf
<1>6. Reported' = [post' EXCEPT ![run.num] = "none"] /\ Reported = post
  BY <1>2, <1>4 DEF Reported, At
<1>7. Reported' = Reported
  BY <1>2, <1>5, <1>6 DEF IInv, TypeOK
<1>8. Seen' = "submit" /\ platform' = platform
  BY <1>3, <1>4, TargetKept DEF IInv, Seen, At, NotRun
<1> QED BY <1>2, <1>4, <1>7, <1>8 DEF Calls!vars, Seen

LEMMA FetchPermalinkImplements ==
  ASSUME IInv, FetchPermalink
  PROVE  Calls!Next
<1>1. /\ At("permalink") /\ UNCHANGED <<target, posts>>
      /\ run' = [run EXCEPT !.pc = "idle", !.rid = run.num, !.result = "SUCCEEDED"]
  BY DEF FetchPermalink
<1>2. /\ run'.pc = "idle" /\ run'.num = run.num /\ run'.rid = run.num /\ run'.result = "SUCCEEDED"
  BY <1>1, RunFields DEF IInv
<1>3. /\ Seen = "submit" /\ Reported = [post EXCEPT ![run.num] = "none"] /\ run.rid = 0
      /\ platform \in {"INSTAGRAM", "FACEBOOK"} /\ run.num \in Attempts /\ post[run.num] = "live"
  BY <1>1, SeenFacts DEF IInv, Reported, At, Memory, CallsOfPlatform, PostsMade, NotRun
<1>4. /\ Seen' = "idle" /\ Reported' = post /\ platform' = platform
  BY <1>1, <1>2, TargetKept DEF IInv, Seen, Reported, At, NotRun, posts
<1>5. post = [Reported EXCEPT ![run.num] = "live"]
  BY <1>3 DEF IInv, TypeOK
<1>6. Calls!AcceptPost("SUCCEEDED")
  BY <1>3, <1>4, <1>5, SameContract DEF Calls!AcceptPost, SubmitAnswers, PostOf, Seen
<1>7. Calls!Submit("SUCCEEDED")
  BY <1>2, <1>4, <1>6 DEF Calls!Submit, Seen
<1> QED BY <1>7 DEF Calls!Next

LEMMA StartImplements ==
  ASSUME IInv, Start
  PROVE  Calls!Next
<1>1. /\ run.pc = "idle" /\ run.num < MaxAttempts /\ run.result # "SUCCEEDED"
      /\ UNCHANGED <<target, posts>>
  BY DEF Start, At
<1>2. /\ run'.pc = "connection" /\ run'.num = run.num + 1 /\ run'.result = "none"
      /\ run'.rid = IF run.result = "WAITING_REMOTE" THEN run.rid ELSE 0
  BY DEF Start, Fresh
<1>3. Seen = "idle" /\ Seen' = "submit" /\ Reported = post /\ Reported' = post /\ platform' = platform
  BY <1>1, <1>2, TargetKept DEF IInv, Seen, Reported, At, NotRun, posts
<1>4. Calls!Start
  BY <1>1, <1>2, <1>3 DEF Calls!Start, Seen
<1> QED BY <1>4 DEF Calls!Next

(* A submission to be resumed passes the checks once more. *)
LEMMA ChecksImplement ==
  ASSUME IInv, ValidateConnection \/ ValidateMedia
  PROVE  Calls!Next \/ UNCHANGED Calls!vars
<1>1. run.pc \in {"connection", "media"} /\ UNCHANGED <<target, posts>>
  BY DEF ValidateConnection, ValidateMedia, At
<1>2. platform' = platform /\ post' = post
  BY <1>1, TargetKept DEF IInv, posts
<1>3. CASE Fail("auth") \/ Fail("validation")
  BY <1>1, <1>3, FailImplements DEF NotRun, ErrorKinds
<1>4. ASSUME NEW pc \in {"media", FirstCall}, Goto(pc) PROVE UNCHANGED Calls!vars
  <2>1. FirstCall \in {"container", "creatorInfo", "photos", "reelStart", "videos"}
    BY FirstCallOfPlatform DEF IInv
  <2>2. pc \in PC /\ pc \in Submits \cup {"media"}
    BY <2>1 DEF PC, Submits, OfFacebook, OfInstagram, OfTikTok
  <2>3. /\ run'.pc = pc /\ run'.num = run.num /\ run'.rid = run.rid /\ run'.result = run.result
    BY <1>4, <2>2, GotoFacts DEF IInv
  <2> QED BY <1>1, <1>2, <2>2, <2>3, CallStutters
<1>5. CASE run.rid # 0 /\ Goto("poll")
  <2>1. /\ run'.pc = "poll" /\ run'.num = run.num /\ run'.rid = run.rid /\ run'.result = run.result
    BY <1>5, GotoFacts DEF IInv, PC
  <2>2. Seen = "submit" /\ Seen' = "poll" /\ Reported' = Reported
    BY <1>1, <1>2, <2>1, SeenFacts DEF Seen, Reported, At, NotRun
  <2>3. Calls!Resume
    BY <1>2, <1>5, <2>1, <2>2 DEF Calls!Resume, Seen
  <2> QED BY <2>3 DEF Calls!Next
<1> QED BY <1>3, <1>4, <1>5 DEF ValidateConnection, ValidateMedia

LEMMA PollImplements ==
  ASSUME IInv, Poll
  PROVE  Calls!Next \/ UNCHANGED Calls!vars
<1> DEFINE status == PollStatus(post[run.rid])
<1>1. /\ run.pc = "poll" /\ UNCHANGED <<target, posts>>
      /\ run' = IF status = "WAITING_REMOTE" /\ run.polls + 1 < RemotePolls
                THEN [run EXCEPT !.polls = @ + 1]
                ELSE [run EXCEPT !.pc = "idle", !.result = status]
  BY DEF Poll, At
<1>2. platform' = platform /\ post' = post /\ status = PollAnswer(platform, post[run.rid])
  BY <1>1, TargetKept, PollTells DEF IInv, posts, At
<1> HIDE DEF status
<1>3. CASE run' = [run EXCEPT !.polls = @ + 1]
  <2>1. run'.pc = run.pc /\ run'.num = run.num /\ run'.rid = run.rid /\ run'.result = run.result
    BY <1>3, RunFields DEF IInv
  <2> QED BY <1>2, <2>1, CallStutters
<1>4. CASE run' = [run EXCEPT !.pc = "idle", !.result = status]
  <2>1. run'.pc = "idle" /\ run'.num = run.num /\ run'.rid = run.rid /\ run'.result = status
    BY <1>4, RunFields DEF IInv
  <2>2. Seen = "poll" /\ Seen' = "idle" /\ Reported = post /\ Reported' = post
    BY <1>1, <1>2, <2>1 DEF Seen, Reported, At, NotRun
  <2>3. Calls!Poll
    BY <1>2, <2>1, <2>2, SameContract DEF Calls!Poll, Seen
  <2> QED BY <2>3 DEF Calls!Next
<1> QED BY <1>1, <1>3, <1>4

LEMMA PlatformImplements ==
  ASSUME IInv, NEW n \in Attempts, FinishProcessing(n) \/ Settle(n)
  PROVE  Calls!Next
<1>1. platform' = platform /\ run' = run
  BY TargetKept DEF IInv, FinishProcessing, Settle
<1>2. Seen' = Seen
  BY <1>1 DEF Seen, At
<1>3. post[n] \in {"processing", "processed"}
  BY DEF FinishProcessing, Settle, Outcomes
<1>4. At("permalink") => run.num \in Attempts /\ run.num # n
  BY <1>3 DEF IInv, Memory, PostsMade, NotRun, At
<1>5. Reported[n] = post[n]
  BY <1>4 DEF IInv, TypeOK, Reported
<1>6. ASSUME NEW s, post' = [post EXCEPT ![n] = s] PROVE Reported' = [Reported EXCEPT ![n] = s]
  <2>1. CASE At("permalink")
    <3>1. Reported = [post EXCEPT ![run.num] = "none"] /\ Reported' = [post' EXCEPT ![run.num] = "none"]
      BY <1>1, <2>1 DEF Reported, At
    <3> QED BY <1>4, <1>6, <2>1, <3>1 DEF IInv, TypeOK
  <2>2. CASE ~At("permalink")
    BY <1>1, <1>6, <2>2 DEF Reported, At
  <2> QED BY <2>1, <2>2
<1>7. CASE FinishProcessing(n)
  <2>1. Calls!FinishProcessing(n)
    BY <1>1, <1>2, <1>5, <1>6, <1>7 DEF FinishProcessing, Calls!FinishProcessing, Seen
  <2> QED BY <2>1, SameContract DEF Calls!Next
<1>8. CASE Settle(n)
  <2>1. Calls!Settle(n)
    <3>1. PICK s \in Outcomes(post[n]) : post' = [post EXCEPT ![n] = s]
      BY <1>8 DEF Settle
    <3>2. s \in Calls!Outcomes(Reported[n])
      BY <1>5, <3>1, SameContract
    <3> QED BY <1>1, <1>2, <1>6, <3>1, <3>2 DEF Calls!Settle, Seen
  <2> QED BY <2>1, SameContract DEF Calls!Next
<1> QED BY <1>7, <1>8

(* The other steps, inside a submission or beside it. *)
LEMMA OthersStutter ==
  ASSUME IInv,
         \/ Validate \/ ReelStart \/ ReelUpload \/ CreateContainer
         \/ VideoInit \/ ContainerEnds \/ TargetChanges \/ UNCHANGED vars
         \/ /\ WaitForContainer \/ QueryCreatorInfo
            /\ \A kind \in ErrorKinds : ~Fail(kind)
  PROVE  UNCHANGED Calls!vars
<1>1. UNCHANGED <<platform, post>>
  BY DEF Validate, ReelStart, ReelUpload, CreateContainer, WaitForContainer, QueryCreatorInfo,
     VideoInit, ContainerEnds, TargetChanges, vars, target, posts
<1>2. /\ run'.num = run.num /\ run'.rid = run.rid /\ run'.result = run.result
      /\ \/ run'.pc = run.pc
         \/ /\ run.pc \in Submits \cup {"connection", "media"}
            /\ run'.pc \in Submits \cup {"media"}
         \/ run.pc \in NotRun /\ run'.pc \in NotRun
  <2> USE RunFields DEF IInv, At, Goto, Submits, OfFacebook, OfInstagram, OfTikTok, NotRun
  <2>1. CASE Validate
    BY <2>1 DEF Validate
  <2>2. CASE ReelStart \/ ReelUpload \/ CreateContainer \/ VideoInit
    BY <2>2 DEF ReelStart, ReelUpload, CreateContainer, VideoInit
  <2>3. CASE WaitForContainer /\ \A kind \in ErrorKinds : ~Fail(kind)
    BY <2>3 DEF WaitForContainer, ErrorKinds
  <2>4. CASE QueryCreatorInfo /\ \A kind \in ErrorKinds : ~Fail(kind)
    BY <2>4 DEF QueryCreatorInfo, ErrorKinds
  <2>5. CASE ContainerEnds \/ TargetChanges \/ UNCHANGED vars
    BY <2>5 DEF ContainerEnds, TargetChanges, vars
  <2> QED BY <2>1, <2>2, <2>3, <2>4, <2>5
<1> QED BY <1>1, <1>2, CallStutters

LEMMA NextImplements == IInv /\ [Next]_vars => [Calls!Next]_(Calls!vars)
<1> SUFFICES ASSUME IInv, [Next]_vars PROVE Calls!Next \/ UNCHANGED Calls!vars
  OBVIOUS
<1>1. ASSUME NEW kind \in ErrorKinds, Fail(kind),
             \/ WaitForContainer \/ QueryCreatorInfo \/ CallFails(kind)
      PROVE  Calls!Next
  <2>1. run.pc \notin NotRun /\ UNCHANGED <<target, posts>>
    BY <1>1 DEF WaitForContainer, QueryCreatorInfo, CallFails, At, NotRun
  <2> QED BY <1>1, <2>1, FailImplements
<1>2. CASE WaitForContainer \/ QueryCreatorInfo
  BY <1>1, <1>2, OthersStutter
<1>3. CASE \/ Validate \/ ReelStart \/ ReelUpload \/ CreateContainer \/ VideoInit
           \/ ContainerEnds \/ TargetChanges \/ UNCHANGED vars
  BY <1>3, OthersStutter
<1>4. CASE Photos \/ MediaPublish
  BY <1>4, PublishStutters
<1>5. CASE Videos \/ ReelFinish \/ PhotoInit \/ VideoUpload
  BY <1>5, SubmitImplements
<1>6. CASE Start \/ FetchPermalink
  BY <1>6, StartImplements, FetchPermalinkImplements
<1>7. CASE ValidateConnection \/ ValidateMedia \/ Poll
  BY <1>7, ChecksImplement, PollImplements
<1>8. ASSUME NEW kind \in ErrorKinds, CallFails(kind) \/ AnswerLost(kind) PROVE Calls!Next
  BY <1>1, <1>8, LostImplements DEF CallFails
<1>9. ASSUME NEW n \in Attempts, FinishProcessing(n) \/ Settle(n) PROVE Calls!Next
  BY <1>9, PlatformImplements
<1> QED BY <1>2, <1>3, <1>4, <1>5, <1>6, <1>7, <1>8, <1>9 DEF Next, Continue

(* The publishers implement the one submission and the polls that the      *)
(* publish processor takes them for: whichever call fails, and whenever    *)
(* the platform settles a post.                                            *)
THEOREM Implementation == Spec => ImplementsCalls
<1>1. Init => Calls!Init
  BY InitImplements
<1>2. IInv /\ [Next]_vars => [Calls!Next]_(Calls!vars)
  BY NextImplements
<1>3. Spec => []IInv
  BY Invariance
<1> QED BY <1>1, <1>2, <1>3, PTL DEF Spec, ImplementsCalls, Calls!Spec
=============================================================================

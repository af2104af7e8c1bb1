---------------------------- MODULE PlatformRules ----------------------------
(***************************************************************************)
(* What may be published where: the rules that the composer's preflight    *)
(* and DraftsService.validate share (evaluateDraftPlatformRules), what the *)
(* two make of a draft to feed them and check besides, and the adapters'   *)
(* own checks.                                                             *)
(*                                                                         *)
(* A draft is [platforms, media, privacyLevel, disableComments, mode,      *)
(* reel]: media is the sequence of the media types, mode TikTok's publish  *)
(* mode, reel the post format of the Meta targets.  The flags that no      *)
(* connection builder ever sets to a refusing value (supportsImage,        *)
(* isProfessionalAccount, isPageTarget, ...) are left out, and so is       *)
(* mediaSource, which nothing sets.                                        *)
(***************************************************************************)
EXTENDS Naturals, Sequences, SequencesExt

Platforms == {"INSTAGRAM", "FACEBOOK", "TIKTOK"}

NoLevel == "null"   \* no privacy level

-----------------------------------------------------------------------------
(* Capability flags, as the connection callbacks store them. *)

Flags(carousel, privacy, comments, direct, upload, task, levels) ==
  [supportsCarousel |-> carousel, supportsPrivacyLevel |-> privacy,
   supportsDisableComments |-> comments, supportsDirectPost |-> direct,
   supportsDraftUpload |-> upload, hasCreateContentTask |-> task,
   supportedPrivacyLevels |-> levels]

InstagramFlags == Flags(TRUE, FALSE, FALSE, TRUE, FALSE, TRUE, <<>>)

(* task: the user may create content on the page. *)
FacebookFlags(task) == Flags(FALSE, FALSE, FALSE, TRUE, FALSE, task, <<>>)

(* Always UNAUDITED; direct and upload are scopes the user granted. *)
TikTokFlags(direct, upload, levels) ==
  Flags(FALSE, TRUE, TRUE, direct, upload, TRUE,
        IF levels = <<>> THEN <<"SELF_ONLY">> ELSE levels)

-----------------------------------------------------------------------------
(* evaluateDraftPlatformRules: the codes of the errors it reports. *)

(* Seeded slip: two items are no carousel yet. *)
MediaTypeOfMany(media) == IF Len(media) > 2 THEN "CAROUSEL" ELSE media[1]

MediaType(media) == IF Len(media) > 1 THEN "CAROUSEL" ELSE media[1]

Issue(code, holds) == {c \in {code} : holds}

NormalizePrivacy(level) == IF level = "PRIVATE" THEN "SELF_ONLY" ELSE level

(* What both sides feed the rules: the post's privacy level and whether it *)
(* disables comments.                                                      *)
SharedIssues(media, post, flags) ==
  Issue("carousel_not_supported", MediaType(media) = "CAROUSEL" /\ ~flags.supportsCarousel)
    \cup Issue("disable_comments_unsupported",
               post.disableComments /\ ~flags.supportsDisableComments)
    \cup Issue("privacy_level_unsupported",
               post.privacyLevel # NoLevel /\ ~flags.supportsPrivacyLevel)
    \cup Issue("privacy_level_invalid",
               /\ post.privacyLevel # NoLevel /\ flags.supportedPrivacyLevels # <<>>
               /\ post.privacyLevel \notin ToSet(flags.supportedPrivacyLevels))

(* Seeded slip: an unaudited client may post at any level. *)
TikTokIssuesAnyLevel(mode, post, flags) ==
  Issue("direct_post_unavailable", mode = "DIRECT" /\ ~flags.supportsDirectPost)
    \cup Issue("draft_upload_unavailable", mode = "DRAFT_UPLOAD" /\ ~flags.supportsDraftUpload)

TikTokIssues(mode, post, flags) ==
  Issue("direct_post_unavailable", mode = "DIRECT" /\ ~flags.supportsDirectPost)
    \cup Issue("draft_upload_unavailable", mode = "DRAFT_UPLOAD" /\ ~flags.supportsDraftUpload)
    \cup Issue("unaudited_private_only",
               mode = "DIRECT" /\ NormalizePrivacy(post.privacyLevel) \notin {NoLevel, "SELF_ONLY"})

RuleIssues(p, media, mode, post, flags, limitReached) ==
  SharedIssues(media, post, flags) \cup
    CASE p = "INSTAGRAM" -> Issue("draft_upload_unsupported", mode # "DIRECT")
                              \cup Issue("publish_limit_reached", limitReached)
      [] p = "FACEBOOK"  -> Issue("draft_upload_unsupported", mode # "DIRECT")
                              \cup Issue("create_content_task_missing", ~flags.hasCreateContentTask)
      [] p = "TIKTOK"    -> TikTokIssues(mode, post, flags)

-----------------------------------------------------------------------------
(* The composer and the API *)

(* Meta targets are always published directly. *)
ModeFor(d, p) == IF p = "TIKTOK" THEN d.mode ELSE "DIRECT"

(* Both want media and a platform. *)
Incomplete(d) == Issue("no_media", d.media = <<>>) \cup Issue("no_platform", d.platforms = {})

(* isEligible, as the connection callbacks store it beside the flags. *)
Eligible(p, flags) == p = "FACEBOOK" => flags.hasCreateContentTask

(* The preflight of the composer shows Meta targets a post without the     *)
(* options of TikTok, and takes nothing to be published yet.  It lists     *)
(* READY media only and offers only active accounts.                       *)
PreflightPost(d, p) ==
  [privacyLevel |-> IF p = "TIKTOK" THEN d.privacyLevel ELSE NoLevel,
   disableComments |-> p = "TIKTOK" /\ d.disableComments]

PreflightIssues(d, p, account, flags) ==
  Incomplete(d) \cup
    IF account # "ACTIVE" THEN {"no_active_account"}
    ELSE Issue("target_not_eligible", ~Eligible(p, flags))
           \cup RuleIssues(p, d.media, ModeFor(d, p), PreflightPost(d, p), flags, FALSE)

(* Seeded slip: the options are stored whether or not TikTok is selected. *)
CanonicalPostWhole(d) ==
  [privacyLevel |-> d.privacyLevel, disableComments |-> d.disableComments]

(* onSubmit and buildCanonicalPost: the options are those of the draft. *)
CanonicalPost(d) ==
  [privacyLevel |-> IF "TIKTOK" \in d.platforms THEN d.privacyLevel ELSE NoLevel,
   disableComments |-> "TIKTOK" \in d.platforms /\ d.disableComments]

(* DraftsService.validate: what it says of the draft itself; ready: all    *)
(* its media are READY, late: its scheduledAt is in the past.              *)
DraftIssues(d, ready, late) ==
  Incomplete(d) \cup Issue("media_not_ready", ~ready) \cup Issue("scheduled_in_past", late)

(* And of one of its targets; account is the status of the account it      *)
(* belongs to, "NONE" if the draft has no target row for p.                *)
ValidateIssues(d, p, account, flags, limitReached) ==
  IF account = "NONE" THEN {"target_missing"}
  ELSE Issue("account_not_active", account # "ACTIVE")
         \cup Issue("target_not_eligible", ~Eligible(p, flags))
         \cup RuleIssues(p, d.media, ModeFor(d, p), CanonicalPost(d), flags, limitReached)

Messages ==
  {"no_media", "no_platform", "media_not_ready", "scheduled_in_past", "target_missing",
   "account_not_active", "target_not_eligible", "carousel_not_supported",
   "disable_comments_unsupported", "privacy_level_unsupported", "privacy_level_invalid",
   "draft_upload_unsupported", "publish_limit_reached", "create_content_task_missing",
   "direct_post_unavailable", "draft_upload_unavailable", "unaudited_private_only"}

(* buildHealthChecks of the connection page: the checks on flags that fail. *)
FailedFlagChecks(p, flags, limitReached) ==
  Issue("publish_limit", p = "INSTAGRAM" /\ limitReached)
    \cup Issue("create_content", p = "FACEBOOK" /\ ~flags.hasCreateContentTask)

-----------------------------------------------------------------------------
(* The worker and its adapters. *)

(* buildCanonicalPost: what the adapter is given of the draft; the publish *)
(* mode is that of the target.                                             *)
JobPost(d, p) ==
  [privacyLevel |-> CanonicalPost(d).privacyLevel, mode |-> ModeFor(d, p)]

(* validateConnection *)
Unhealthy(p, flags) == p = "FACEBOOK" /\ ~flags.hasCreateContentTask

(* validateMedia of each; Instagram takes carousels of at most limit items, *)
(* and no draft is without media.                                          *)
FacebookRefuses(media) == Len(media) # 1

InstagramRefuses(media, limit) == Len(media) > limit

TikTokRefuses(media) == "VIDEO" \in ToSet(media) /\ Len(media) > 1

MediaRefused(p, media, limit) ==
  CASE p = "FACEBOOK"  -> FacebookRefuses(media)
    [] p = "INSTAGRAM" -> InstagramRefuses(media, limit)
    [] p = "TIKTOK"    -> TikTokRefuses(media)

(* submitPublish of TikTok asks again which levels the creator may use. *)
LevelRefused(p, level, levels) ==
  /\ p = "TIKTOK" /\ level # NoLevel /\ levels # <<>>
  /\ NormalizePrivacy(level) \notin ToSet(levels)

(* The level that is sent: the first one the creator may use if the draft  *)
(* names none.                                                             *)
LevelSent(level, levels) ==
  IF level # NoLevel THEN NormalizePrivacy(level)
  ELSE IF levels # <<>> THEN levels[1] ELSE "SELF_ONLY"
=============================================================================

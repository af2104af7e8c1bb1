-------------------------- MODULE PlatformContract --------------------------
(***************************************************************************)
(* What the publish job processor and the platforms tell each other: the   *)
(* answers of submitPublish and pollStatus, and what may become of a post. *)
(***************************************************************************)

(* The posts a platform has taken on.  "processed" is a Facebook video     *)
(* whose processing phase is complete and whose publishing phase is not;   *)
(* "withdrawn" is one that failed after that.                              *)
Accepted == {"processing", "processed", "live", "failed", "withdrawn"}

(* What may become of a post that has not settled. *)
Outcomes(s) == CASE s = "processing" -> {"live", "failed"}
                 [] s = "processed"  -> {"live", "withdrawn"}
                 [] OTHER            -> {}

(* submitPublish: Instagram and Facebook photos answer when the post is    *)
(* live, Facebook videos and TikTok while it is still processing.          *)
SubmitAnswers(p) ==
  CASE p = "INSTAGRAM" -> {"SUCCEEDED"}
    [] p = "FACEBOOK"  -> {"SUCCEEDED", "WAITING_REMOTE"}
    [] p = "TIKTOK"    -> {"WAITING_REMOTE"}

(* The post of a submission that was answered so. *)
PostOf(answer) == IF answer = "SUCCEEDED" THEN "live" ELSE "processing"

(* Seeded slip: Facebook's "still processing" read as an answer. *)
PollAnswerHasty(p, s) ==
  CASE s \in {"failed", "withdrawn"} -> "FAILED"
    [] s \in {"live", "processed"} -> "SUCCEEDED"
    [] s = "processing" -> IF p = "TIKTOK" THEN "SUCCEEDED" ELSE "WAITING_REMOTE"

(* pollStatus: Facebook reports success as soon as any phase is complete,  *)
(* so already when processing ended and publishing did not.                *)
PollAnswer(p, s) ==
  CASE s \in {"failed", "withdrawn"} -> "FAILED"
    [] s \in {"live", "processed"} -> "SUCCEEDED"
    [] s = "processing" -> "WAITING_REMOTE"

(* The classes of normalized errors that processPublishJob tells apart:    *)
(* auth/permissions, transient, and all others.                            *)
ErrorKinds == {"auth", "validation", "transient"}
=============================================================================

--------------------------- MODULE PublishStatus ---------------------------
(***************************************************************************)
(* The status vocabularies shared by the API and the worker, and the rule  *)
(* that derives the status of a draft from the statuses of its publish     *)
(* jobs (packages/platform-sdk/src/rules/publish-status.ts).               *)
(***************************************************************************)

PublishJobStatus ==
  {"QUEUED", "RUNNING", "WAITING_REMOTE", "SUCCEEDED", "FAILED", "CANCELLED",
   "NEEDS_REAUTH"}

DraftStatus ==
  {"DRAFT", "READY", "SCHEDULED", "PARTIALLY_PUBLISHED", "PUBLISHED", "FAILED",
   "ARCHIVED"}

(* Statuses of a job somebody still has to work on. *)
Open == {"QUEUED", "RUNNING", "WAITING_REMOTE"}

(* Statuses of a job that needs the user before it can go on. *)
Unsuccessful == {"FAILED", "NEEDS_REAUTH"}

(***************************************************************************)
(* every() and some() over the array of statuses depend only on the set of *)
(* its elements, so the rule is a function of that set.                    *)
(***************************************************************************)
(* Seeded slip: some() where the code has every(). *)
SomeSucceeded(S) == \E s \in S : s = "SUCCEEDED"

AllSucceeded(S) == \A s \in S : s = "SUCCEEDED"

ResolveDraftStatus(S) ==
  IF AllSucceeded(S) THEN "PUBLISHED"
  ELSE IF S \cap Unsuccessful # {}
       THEN IF "SUCCEEDED" \in S THEN "PARTIALLY_PUBLISHED" ELSE "FAILED"
       ELSE IF S \cap Open # {} THEN "SCHEDULED" ELSE "READY"
=============================================================================

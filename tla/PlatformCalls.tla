---------------------------- MODULE PlatformCalls ----------------------------
(***************************************************************************)
(* The calls a publish job makes to its platform, as PublishPipeline takes *)
(* them: a submission is one step, accepted or refused, and so is a round  *)
(* of polling.  PlatformAdapters implements this module.                   *)
(***************************************************************************)
EXTENDS Naturals, PlatformContract

CONSTANT MaxAttempts  \* bound: attempts of the job

VARIABLES
  platform,  \* the platform of the job
  post,      \* what the platform did with the submission of each attempt
  num,       \* the number of the last attempt
  pc,        \* where that attempt is: idle, submit or poll
  rid,       \* the submission to poll, 0 for none
  result     \* the answer or the error the attempt ended with

vars == <<platform, post, num, pc, rid, result>>

Attempts == 1 .. MaxAttempts

Init ==
  /\ platform \in {"INSTAGRAM", "FACEBOOK", "TIKTOK"}
  /\ post = [n \in Attempts |-> "none"]
  /\ num = 0 /\ pc = "idle" /\ rid = 0 /\ result = "none"

(* An attempt resumes the submission that still waits for the platform. *)
Start ==
  /\ pc = "idle" /\ num < MaxAttempts /\ result # "SUCCEEDED"
  /\ num' = num + 1 /\ pc' = "submit" /\ result' = "none"
  /\ rid' = IF result = "WAITING_REMOTE" THEN rid ELSE 0
  /\ UNCHANGED <<platform, post>>

Resume ==
  /\ pc = "submit" /\ rid # 0
  /\ pc' = "poll"
  /\ UNCHANGED <<platform, post, num, rid, result>>

Ends(kind) == pc' = "idle" /\ rid' = 0 /\ result' = kind

Refuse(kind) ==
  /\ pc = "submit"
  /\ Ends(kind)
  /\ UNCHANGED <<platform, post, num>>

AcceptPost(answer) ==
  /\ pc = "submit" /\ rid = 0
  /\ answer \in SubmitAnswers(platform)
  /\ post' = [post EXCEPT ![num] = PostOf(answer)]

Submit(answer) ==
  /\ AcceptPost(answer)
  /\ rid' = num /\ result' = answer
  /\ pc' = IF answer = "SUCCEEDED" THEN "idle" ELSE "poll"
  /\ UNCHANGED <<platform, num>>

SubmitUnanswered(answer, kind) ==
  /\ AcceptPost(answer)
  /\ Ends(kind)
  /\ UNCHANGED <<platform, num>>

Poll ==
  /\ pc = "poll"
  /\ result' = PollAnswer(platform, post[rid]) /\ pc' = "idle"
  /\ UNCHANGED <<platform, post, num, rid>>

PollFails(kind) ==
  /\ pc = "poll"
  /\ Ends(kind)
  /\ UNCHANGED <<platform, post, num>>

FinishProcessing(n) ==
  /\ platform = "FACEBOOK" /\ post[n] = "processing"
  /\ post' = [post EXCEPT ![n] = "processed"]
  /\ UNCHANGED <<platform, num, pc, rid, result>>

Settle(n) ==
  /\ \E s \in Outcomes(post[n]) : post' = [post EXCEPT ![n] = s]
  /\ UNCHANGED <<platform, num, pc, rid, result>>

Next ==
  \/ Start \/ Resume \/ Poll
  \/ \E kind \in ErrorKinds : Refuse(kind) \/ PollFails(kind)
  \/ \E answer \in {"SUCCEEDED", "WAITING_REMOTE"} :
       Submit(answer) \/ \E kind \in ErrorKinds : SubmitUnanswered(answer, kind)
  \/ \E n \in Attempts : FinishProcessing(n) \/ Settle(n)

Spec == Init /\ [][Next]_vars
=============================================================================

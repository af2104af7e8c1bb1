------------------------------ MODULE JobQueue ------------------------------
(***************************************************************************)
(* The part of BullMQ that the application relies on, as operators on a    *)
(* function from job ids to entries.  An entry is                          *)
(*   state   where BullMQ keeps the id: "absent" (not in Redis),           *)
(*           "waiting" (waiting, prioritized or delayed), "active",        *)
(*           "completed" or "failed";                                      *)
(*   made    how many of its attempts have ended in an error;              *)
(*   stalls  how often its lock ran out because its worker died.           *)
(* The application sets removeOnFail: false, so a failed id is kept for    *)
(* ever, and removeOnComplete: 200, so a completed id is kept until 200    *)
(* later ids of its queue have completed.                                  *)
(***************************************************************************)
EXTENDS Naturals

EntryState == {"absent", "waiting", "active", "completed", "failed"}

Entry == [state : EntryState, made : Nat, stalls : Nat]

(* BullMQ's default maxStalledCount: the worker options do not set it. *)
MaxStalledCount == 1

Absent == [state |-> "absent", made |-> 0, stalls |-> 0]
Fresh  == [state |-> "waiting", made |-> 0, stalls |-> 0]

(* Queue.add with a custom jobId: ignored while that id exists in any state. *)
Add(q, e) == IF q[e].state = "absent" THEN [q EXCEPT ![e] = Fresh] ELSE q

(* A worker takes a waiting entry. *)
Take(q, e) == [q EXCEPT ![e].state = "active"]

(* The counters of an entry that is done are of no further use. *)
Done(state) == [state |-> state, made |-> 0, stalls |-> 0]

(* The processor returned. *)
Complete(q, e) == [q EXCEPT ![e] = Done("completed")]

(* The processor threw: back to waiting until the attempts are used up. *)
Throw(q, e, attempts) ==
  [q EXCEPT ![e] =
     IF q[e].made + 1 < attempts
     THEN [state |-> "waiting", made |-> q[e].made + 1, stalls |-> q[e].stalls]
     ELSE Done("failed")]

(* The lock of an active entry ran out with nobody to renew it. *)
Stall(q, e) ==
  [q EXCEPT ![e] =
     IF q[e].stalls + 1 > MaxStalledCount
     THEN Done("failed")
     ELSE [state |-> "waiting", made |-> q[e].made, stalls |-> q[e].stalls + 1]]

(* A completed entry beyond the newest 200 is dropped. *)
Evict(q, e) == [q EXCEPT ![e] = Absent]
=============================================================================

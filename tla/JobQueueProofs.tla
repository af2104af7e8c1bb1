--------------------------- MODULE JobQueueProofs ---------------------------
(***************************************************************************)
(* Facts about the BullMQ operations of JobQueue, for any set of job ids.  *)
(***************************************************************************)
EXTENDS JobQueue, TLAPS

(* BullMQ operations keep the entries well formed. *)
LEMMA QueueType ==
  ASSUME NEW S, NEW q \in [S -> Entry], NEW e \in S, NEW n \in Nat
  PROVE  /\ Add(q, e) \in [S -> Entry]
         /\ Take(q, e) \in [S -> Entry]
         /\ Complete(q, e) \in [S -> Entry]
         /\ Throw(q, e, n) \in [S -> Entry]
         /\ Stall(q, e) \in [S -> Entry]
         /\ Evict(q, e) \in [S -> Entry]
<1>1. Add(q, e) \in [S -> Entry]
  BY DEF Add, Fresh, Entry, EntryState
<1>2. Take(q, e) \in [S -> Entry]
  BY DEF Take, Entry, EntryState
<1>3. Complete(q, e) \in [S -> Entry]
  BY DEF Complete, Done, Entry, EntryState
<1>4. Throw(q, e, n) \in [S -> Entry]
  BY DEF Throw, Done, Entry, EntryState
<1>5. Stall(q, e) \in [S -> Entry]
  BY DEF Stall, Done, MaxStalledCount, Entry, EntryState
<1>6. Evict(q, e) \in [S -> Entry]
  BY DEF Evict, Absent, Entry, EntryState
<1> QED BY <1>1, <1>2, <1>3, <1>4, <1>5, <1>6

(* An operation touches one entry; taking, ending and stalling one never   *)
(* makes an id appear that BullMQ did not hold.                            *)
LEMMA QueueFrame ==
  ASSUME NEW S, NEW q \in [S -> Entry], NEW e \in S, NEW n \in Nat
  PROVE  /\ \A x \in S \ {e} : /\ Add(q, e)[x] = q[x]
                               /\ Take(q, e)[x] = q[x]
                               /\ Complete(q, e)[x] = q[x]
                               /\ Throw(q, e, n)[x] = q[x]
                               /\ Stall(q, e)[x] = q[x]
         /\ Take(q, e)[e].state = "active"
         /\ Complete(q, e)[e].state = "completed"
         /\ Throw(q, e, n)[e].state # "absent"
         /\ Stall(q, e)[e].state # "absent"
<1>1. /\ \A x \in S \ {e} : Add(q, e)[x] = q[x] /\ Take(q, e)[x] = q[x]
      /\ Take(q, e)[e].state = "active"
  BY DEF Add, Take, Entry
<1>2. /\ \A x \in S \ {e} : Complete(q, e)[x] = q[x] /\ Throw(q, e, n)[x] = q[x]
      /\ Complete(q, e)[e].state = "completed"
      /\ Throw(q, e, n)[e].state # "absent"
  BY DEF Complete, Throw, Done, Entry
<1>3. /\ \A x \in S \ {e} : Stall(q, e)[x] = q[x]
      /\ Stall(q, e)[e].state # "absent"
  BY DEF Stall, Done, Entry
<1> QED BY <1>1, <1>2, <1>3
=============================================================================

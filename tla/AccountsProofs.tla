--------------------------- MODULE AccountsProofs ---------------------------
(***************************************************************************)
(* Proofs about Accounts, for any finite set of targets, any number of     *)
(* requests, any lists of pages and every choice of bounds.                *)
(*                                                                         *)
(* The invariant has a part for each table: Profiles, why no two pages     *)
(* become the default; Secrets, why a target of Meta never lacks a token;  *)
(* and Tokens, who holds which of TikTok's refresh tokens.                 *)
(***************************************************************************)
EXTENDS Accounts, JobQueueProofs, SequenceTheorems, FiniteSetTheorems

OfMeta == {"storeToken", "readToken", "findDefault", "findFirst", "markDefault", "pages"}
OfTikTok == {"findSecret", "writeSecret"}

(* What actor a has made sure of when it is about to take its next step. *)
Knows(a) ==
  /\ local[a].pc \in {"account", "profile", "storeToken", "pages", "findSecret", "writeSecret"} =>
       local[a].token \in Grants
  /\ local[a].pc \in OfMeta => Meta
  /\ local[a].pc \in OfTikTok => ~Meta
  /\ At(a, "writeSecret") => local[a].row \in 0 .. Len(secret[User])
  /\ At(a, "markDefault") => profile[local[a].first].born = 1
  /\ At(a, "profile") /\ Meta => local[a].todo # <<>>
  /\ At(a, "profile") /\ Meta => secret[User] # <<>>
  /\ At(a, "exchange") \/ At(a, "pages") => secret[User] # <<>>
  /\ At(a, "storeToken") /\ local[a].cred # User => secret[User] # <<>>
  /\ account.mock => local[a].pc \in {"idle", "readToken", "activate", "expire"}

(* The default profile is the first one that got a row. *)
Profiles ==
  /\ \A t, u \in Targets : profile[t].born = 1 /\ profile[u].born = 1 => t = u
  /\ \A t \in Targets : profile[t].isDefault => profile[t].born = 1
  /\ ~Meta => \A t \in Targets \ {Own} : profile[t].born = 0
  /\ account.mock /\ ~Exists => \A t \in Targets : profile[t].born = 0

(* The user's token is stored before the first page. *)
Secrets ==
  /\ account.mock => \A c \in Credentials : secret[c] = <<>>
  /\ Meta /\ ~account.mock /\ (\E t \in Targets : profile[t].born # 0) => secret[User] # <<>>

(* Actor a holds a refresh token of TikTok. *)
Held(a) ==
  \/ local[a].pc \in {"account", "profile", "findSecret", "writeSecret"}
  \/ a = Worker /\ At(a, "exchange")

Rows == 1 .. Len(secret[User])

(* A rotated token is lost, or the worker is about to write it where the   *)
(* newest one is.                                                          *)
Excused ==
  \/ lost
  \/ At(Worker, "findSecret")
  \/ At(Worker, "writeSecret") /\ local[Worker].row = Len(secret[User])

(* A token is in one hand; only the worker may hold one that is stored,    *)
(* and only the worker shows one to TikTok.                                *)
Tokens ==
  /\ \A i \in Rows : secret[User][i] <= granted
  /\ \A a \in Actors : Held(a) => local[a].token <= granted
  /\ \A a, b \in Actors : a # b /\ Held(a) /\ Held(b) => local[a].token # local[b].token
  /\ \A r \in Requests : Held(r) =>
       local[r].token \in usable /\ \A i \in Rows : secret[User][i] # local[r].token
  /\ At(Worker, "findSecret") \/ At(Worker, "writeSecret") => local[Worker].token \in usable
  /\ Newest(User) # 0 /\ ~Excused => Newest(User) \in usable

IInv ==
  /\ TypeOK
  /\ \A a \in Actors : Knows(a)
  /\ Profiles
  /\ Secrets
  /\ ~Meta => Tokens

-----------------------------------------------------------------------------
(* Types. *)

LEMMA Types ==
  ASSUME TypeOK
  PROVE  /\ now \in Nat /\ granted \in 0 .. MaxGrants /\ usable \subseteq Grants
         /\ account \in AccountRow /\ account.mock \in BOOLEAN /\ account.expiresAt \in Nat
         /\ profile \in [Targets -> ProfileRow] /\ secret \in [Credentials -> Seq(Grants)]
         /\ local \in [Actors -> Local] /\ entry \in [{Id} -> Entry]
         /\ made \in 0 .. MaxRequests /\ MaxRequests \in Nat /\ MaxGrants \in Nat \ {0}
         /\ Own \in Targets /\ User \in Credentials /\ Targets \subseteq Credentials
         /\ Worker \in Actors /\ Requests \subseteq Actors /\ Worker \notin Requests
BY AccountsAssumption DEF TypeOK, AccountRow, Credentials, Worker, Actors, Requests

LEMMA LocalFields ==
  ASSUME TypeOK, NEW a \in Actors
  PROVE  /\ local[a] \in [op : AllOperations \cup {"none", "sweep"}, pc : PC, token : 0 .. MaxGrants,
                          until : Nat, todo : Seq(Targets), cred : Credentials, row : Nat, first : Targets]
BY DEF TypeOK, Local

LEMMA GoFacts ==
  ASSUME TypeOK, NEW a \in Actors, NEW new \in Local, Go(a, new)
  PROVE  /\ local' \in [Actors -> Local] /\ local'[a] = new
         /\ \A b \in Actors \ {a} : local'[b] = local[b]
BY DEF TypeOK, Go

LEMMA IdleLocal ==
  /\ Idle \in Local /\ Idle.pc = "idle" /\ Idle.token = 0 /\ Idle.todo = <<>>
  /\ Idle.cred = User /\ Idle.row = 0 /\ Idle.first = Own
<1>1. User \in Credentials /\ Own \in Targets /\ 0 \in 0 .. MaxGrants
  BY AccountsAssumption DEF Credentials
<1>2. <<>> \in Seq(Targets)
  BY EmptySeq
<1>3. "idle" \in PC /\ "none" \in AllOperations \cup {"none", "sweep"} /\ 0 \in Nat
  BY DEF PC
<1> QED BY <1>1, <1>2, <1>3 DEF Idle, Local

LEMMA OnlyLocal ==
  ASSUME TypeOK, NEW a \in Actors, NEW pc \in PC
  PROVE  /\ Only(a, pc) \in Local /\ Only(a, pc).pc = pc /\ Only(a, pc).token = 0
         /\ Only(a, pc).todo = <<>> /\ Only(a, pc).cred = User /\ Only(a, pc).row = 0
         /\ Only(a, pc).first = Own
<1>1. local[a].op \in AllOperations \cup {"none", "sweep"}
  BY LocalFields
<1>2. Only(a, pc) = [Idle EXCEPT !.op = local[a].op, !.pc = pc]
  BY DEF Only
<1> HIDE DEF Only, Idle
<1> QED BY <1>1, <1>2, IdleLocal DEF Local

LEMMA NewestFacts ==
  ASSUME TypeOK, NEW c \in Credentials
  PROVE  /\ Len(secret[c]) \in Nat /\ Newest(c) \in 0 .. MaxGrants
         /\ Newest(c) # 0 <=> secret[c] # <<>>
         /\ secret[c] # <<>> => Newest(c) \in Grants /\ Newest(c) = secret[c][Len(secret[c])]
                                  /\ Len(secret[c]) \in 1 .. Len(secret[c])
<1>1. secret[c] \in Seq(Grants) /\ MaxGrants \in Nat \ {0}
  BY Types
<1>2. ASSUME secret[c] # <<>>
      PROVE  Len(secret[c]) \in 1 .. Len(secret[c]) /\ secret[c][Len(secret[c])] \in Grants
  BY <1>1, <1>2
<1> QED BY <1>1, <1>2 DEF Newest, Grants

-----------------------------------------------------------------------------
(* Steps of one actor that leave the rows alone. *)

(* What an actor knows is not taken away by the steps of others. *)
LEMMA KnowsKept ==
  ASSUME IInv, NEW b \in Actors, local'[b] = local[b], platform' = platform,
         account'.mock = account.mock,
         secret[User] # <<>> => secret'[User] # <<>>,
         Meta \/ (Len(secret'[User]) \in Nat /\ Len(secret[User]) <= Len(secret'[User])),
         \A t \in Targets : profile[t].born = 1 => profile'[t].born = 1
  PROVE  Knows(b)'
<1>1. Knows(b) /\ local[b].first \in Targets /\ Len(secret[User]) \in Nat
  BY LocalFields, NewestFacts, Types DEF IInv
<1>2. Meta' = Meta
  BY DEF Meta
<1>3. At(b, "writeSecret") => ~Meta
  BY <1>1 DEF Knows, OfTikTok, At
<1>4. At(b, "writeSecret") => local[b].row \in 0 .. Len(secret'[User])
  BY <1>1, <1>3 DEF Knows
<1>5. At(b, "markDefault") => profile'[local[b].first].born = 1
  BY <1>1 DEF Knows
<1> QED BY <1>1, <1>2, <1>4, <1>5 DEF Knows, At

LEMMA TokensKept ==
  ASSUME IInv, ~Meta, NEW a \in Actors, NEW new \in Local, Go(a, new), UNCHANGED <<secret, remote>>,
         new.pc \in {"account", "profile", "findSecret", "writeSecret"} \/ (a = Worker /\ new.pc = "exchange")
           => Held(a) /\ new.token = local[a].token,
         a = Worker /\ new.pc \in OfTikTok => new.token \in usable,
         lost => lost',
         a = Worker /\ Excused => lost' \/ new.pc = "findSecret"
                                        \/ (new.pc = "writeSecret" /\ new.row = Len(secret[User]))
  PROVE  Tokens'
<1>1. Tokens /\ TypeOK
  BY DEF IInv
<1>2. /\ local'[a] = new /\ \A b \in Actors \ {a} : local'[b] = local[b]
      /\ Worker \in Actors /\ Requests \subseteq Actors /\ Worker \notin Requests
  BY <1>1, GoFacts, Types
<1>3. /\ secret' = secret /\ granted' = granted /\ usable' = usable
      /\ Rows' = Rows /\ Newest(User)' = Newest(User)
  BY DEF remote, Rows, Newest
<1>4. \A b \in Actors : Held(b)' => Held(b) /\ local'[b].token = local[b].token
  BY <1>2 DEF Held, At
<1>5. Excused => Excused'
  BY <1>2, <1>3 DEF Excused, At
<1>6. At(Worker, "findSecret")' \/ At(Worker, "writeSecret")' => local'[Worker].token \in usable
  BY <1>1, <1>2 DEF Tokens, At, OfTikTok
<1>7. \A i \in Rows : secret[User][i] <= granted
  BY <1>1 DEF Tokens
<1>8. \A b \in Actors : Held(b)' => local'[b].token <= granted
  BY <1>1, <1>4 DEF Tokens
<1>9. \A b, c \in Actors : b # c /\ Held(b)' /\ Held(c)' => local'[b].token # local'[c].token
  BY <1>1, <1>4 DEF Tokens
<1>10. \A r \in Requests : Held(r)' =>
         local'[r].token \in usable /\ \A i \in Rows : secret[User][i] # local'[r].token
  BY <1>1, <1>2, <1>4 DEF Tokens
<1>11. Newest(User) # 0 /\ ~Excused' => Newest(User) \in usable
  BY <1>1, <1>5 DEF Tokens
<1> QED BY <1>3, <1>6, <1>7, <1>8, <1>9, <1>10, <1>11 DEF Tokens, Held, Excused, At

LEMMA LocalInv ==
  ASSUME IInv, NEW a \in Actors, NEW new \in Local, Go(a, new), UNCHANGED <<platform, profile, secret>>,
         account' \in AccountRow, account'.mock = account.mock,
         account' = account \/ account'.status # "NONE",
         (now \in 1 .. MaxTime)', (granted \in 0 .. MaxGrants)', (usable \subseteq Grants)',
         (entry \in [{Id} -> Entry])', (swept \in BOOLEAN)', (lost \in BOOLEAN)',
         (made \in 0 .. MaxRequests)',
         Knows(a)', ~Meta => Tokens'
  PROVE  IInv'
<1>1. /\ local' \in [Actors -> Local] /\ \A b \in Actors \ {a} : local'[b] = local[b]
  BY GoFacts DEF IInv
<1>2. /\ profile' = profile /\ secret' = secret /\ platform' = platform /\ Meta' = Meta
  BY DEF Meta
<1>3. TypeOK'
  BY <1>1, <1>2 DEF IInv, TypeOK
<1>4. \A b \in Actors \ {a} : Knows(b)'
  <2> TAKE b \in Actors \ {a}
  <2>1. Len(secret[User]) \in Nat
    BY NewestFacts, Types DEF IInv
  <2> QED BY <1>1, <1>2, <2>1, KnowsKept
<1>5. \A b \in Actors : Knows(b)'
  BY <1>4
<1>6. Profiles' /\ Secrets'
  BY <1>2 DEF IInv, Profiles, Secrets, Exists
<1>7. (~Meta => Tokens)'
  BY <1>2
<1> QED BY <1>3, <1>5, <1>6, <1>7 DEF IInv

(* Only the account's row changes, and the actor ends. *)
LEMMA EndInv ==
  ASSUME IInv, NEW a \in Actors, NEW pc \in {"expire", "idle"},
         NEW new \in {Idle, Only(a, pc)}, Go(a, new), new.pc = pc,
         UNCHANGED <<now, platform, profile, secret, remote>>,
         account' \in AccountRow, account'.mock = account.mock,
         account' = account \/ account'.status # "NONE",
         (entry \in [{Id} -> Entry])', (swept \in BOOLEAN)', (made \in 0 .. MaxRequests)',
         lost' \in BOOLEAN, lost => lost', a = Worker /\ Unsaved => lost'
  PROVE  IInv'
<1>1. new \in Local
  BY IdleLocal, OnlyLocal DEF IInv, PC
<1>2. local'[a] = new
  BY <1>1, GoFacts DEF IInv
<1>3. Knows(a)'
  BY <1>2 DEF Knows, At, OfMeta, OfTikTok
<1>4. ~Meta => Tokens'
  BY <1>1, TokensKept DEF Excused, OfTikTok, Unsaved
<1>5. (now \in 1 .. MaxTime)' /\ (granted \in 0 .. MaxGrants)' /\ (usable \subseteq Grants)'
  BY DEF IInv, TypeOK, remote
<1> QED BY <1>1, <1>3, <1>4, <1>5, LocalInv

(* An actor that goes on, or ends, without a token of TikTok, or with the  *)
(* one it held.                                                            *)
LEMMA MoveInv ==
  ASSUME IInv, NEW a \in Actors, NEW new \in Local, Go(a, new),
         UNCHANGED <<now, platform, rows, remote, lost, queue, made>>,
         Knows(a)',
         ~Meta =>
           /\ new.pc \in {"account", "profile", "findSecret", "writeSecret"}
                \/ (a = Worker /\ new.pc = "exchange")
                => Held(a) /\ new.token = local[a].token
           /\ a = Worker /\ new.pc \in OfTikTok => new.token \in usable
           /\ a = Worker /\ Excused => \/ lost \/ new.pc = "findSecret"
                                       \/ (new.pc = "writeSecret" /\ new.row = Len(secret[User]))
  PROVE  IInv'
<1>1. (~Meta => Tokens')
  BY TokensKept DEF rows
<1>2. /\ (now \in 1 .. MaxTime)' /\ (granted \in 0 .. MaxGrants)' /\ (usable \subseteq Grants)'
      /\ (entry \in [{Id} -> Entry])' /\ (swept \in BOOLEAN)' /\ (lost \in BOOLEAN)'
      /\ (made \in 0 .. MaxRequests)'
  BY DEF IInv, TypeOK, remote, queue
<1>3. UNCHANGED <<platform, profile, secret>> /\ account' = account /\ account \in AccountRow
  BY DEF rows, IInv, TypeOK
<1> QED BY <1>1, <1>2, <1>3, LocalInv

LEMMA FindSecretInv ==
  ASSUME IInv, NEW a \in Actors, FindSecret(a)
  PROVE  IInv'
<1> DEFINE new == [local[a] EXCEPT !.pc = "writeSecret", !.row = Len(secret[User])]
<1>1. /\ At(a, "findSecret") /\ Go(a, new) /\ UNCHANGED <<now, platform, rows, remote, lost, queue, made>>
  BY DEF FindSecret
<1>2. Len(secret[User]) \in Nat
  BY NewestFacts, Types DEF IInv
<1>3. local[a] \in Local /\ "writeSecret" \in PC
  BY DEF IInv, TypeOK, PC
<1>4. /\ new \in Local /\ new.pc = "writeSecret" /\ new.row = Len(secret[User])
      /\ new.token = local[a].token
  BY <1>2, <1>3 DEF Local
<1> HIDE DEF new
<1>5. local'[a] = new
  BY <1>1, <1>4, GoFacts DEF IInv
<1>6. /\ local[a].token \in Grants /\ ~Meta /\ ~account.mock
  BY <1>1 DEF IInv, Knows, At, OfTikTok
<1>7. Knows(a)'
  BY <1>1, <1>2, <1>4, <1>5, <1>6 DEF Knows, At, Meta, rows, OfMeta, OfTikTok
<1>8. Held(a) /\ (a = Worker => new.token \in usable)
  BY <1>1, <1>4, <1>6 DEF IInv, Tokens, Held, At
<1> QED BY <1>1, <1>4, <1>7, <1>8, MoveInv

(* An actor that holds no token any more. *)
LEMMA QuietInv ==
  ASSUME IInv, NEW a \in Actors, NEW new \in Local, Go(a, new),
         UNCHANGED <<now, platform, rows, remote, lost, queue, made>>,
         Knows(a)',
         new.pc \notin {"account", "profile", "findSecret", "writeSecret", "exchange"} \/ Meta,
         a = Worker => Meta
  PROVE  IInv'
BY MoveInv DEF OfTikTok

(* The operation goes on at pc, or ends, without any locals. *)
LEMMA PlainInv ==
  ASSUME IInv, NEW a \in Actors, a = Worker => Meta,
         NEW pc \in {"findDefault", "activate", "expire", "idle"}, pc = "findDefault" => Meta,
         account.mock => pc # "findDefault",
         NEW new \in {Idle, Only(a, pc)}, Go(a, new), new.pc = pc,
         UNCHANGED <<now, platform, rows, remote, lost, queue, made>>
  PROVE  IInv'
<1>1. new \in Local
  BY IdleLocal, OnlyLocal DEF IInv, PC
<1>2. local'[a] = new
  BY <1>1, GoFacts DEF IInv
<1>3. account' = account /\ platform' = platform
  BY DEF rows
<1>4. Knows(a)'
  BY <1>2, <1>3 DEF Knows, At, Meta, OfMeta, OfTikTok
<1> QED BY <1>1, <1>4, QuietInv

LEMMA AfterDefaultInv ==
  ASSUME IInv, NEW r \in Requests, Meta, Go(r, AfterDefault(r)),
         UNCHANGED <<now, platform, rows, remote, lost, queue, made>>
  PROVE  IInv'
<1>1. r \in Actors /\ r # Worker
  BY Types DEF IInv
<1>2. Idle.pc = "idle" /\ Only(r, "activate").pc = "activate"
  BY <1>1, IdleLocal, OnlyLocal DEF IInv, PC
<1>3. CASE AfterDefault(r) = Idle
  BY <1>1, <1>2, <1>3, PlainInv
<1>4. CASE AfterDefault(r) = Only(r, "activate")
  BY <1>1, <1>2, <1>4, PlainInv
<1> QED BY <1>3, <1>4 DEF AfterDefault

LEMMA FindDefaultInv ==
  ASSUME IInv, NEW r \in Requests, FindDefault(r)
  PROVE  IInv'
<1>1. r \in Actors /\ r # Worker
  BY Types DEF IInv
<1>2. At(r, "findDefault") /\ UNCHANGED <<now, platform, rows, remote, lost, queue, made>>
  BY DEF FindDefault
<1>3. Meta /\ ~account.mock
  BY <1>1, <1>2 DEF IInv, Knows, OfMeta, At
<1>4. CASE Go(r, AfterDefault(r))
  BY <1>2, <1>3, <1>4, AfterDefaultInv
<1>5. CASE Go(r, [local[r] EXCEPT !.pc = "findFirst"])
  <2> DEFINE new == [local[r] EXCEPT !.pc = "findFirst"]
  <2>1. local[r] \in Local /\ "findFirst" \in PC
    BY <1>1 DEF IInv, TypeOK, PC
  <2>2. new \in Local /\ new.pc = "findFirst"
    BY <2>1 DEF Local
  <2> HIDE DEF new
  <2>3. Go(r, new) /\ local'[r] = new
    BY <1>1, <1>5, <2>2, GoFacts DEF IInv, new
  <2>4. Knows(r)'
    BY <1>2, <1>3, <2>2, <2>3 DEF Knows, At, Meta, rows, OfTikTok
  <2> QED BY <1>1, <1>2, <2>2, <2>3, <2>4, QuietInv
<1> QED BY <1>4, <1>5 DEF FindDefault

LEMMA FindFirstInv ==
  ASSUME IInv, NEW r \in Requests, FindFirst(r)
  PROVE  IInv'
<1>1. r \in Actors /\ r # Worker
  BY Types DEF IInv
<1>2. At(r, "findFirst") /\ UNCHANGED <<now, platform, rows, remote, lost, queue, made>>
  BY DEF FindFirst
<1>3. Meta /\ ~account.mock
  BY <1>1, <1>2 DEF IInv, Knows, OfMeta, At
<1>4. CASE Go(r, AfterDefault(r))
  BY <1>2, <1>3, <1>4, AfterDefaultInv
<1>5. ASSUME NEW t \in Targets, profile[t].born = 1,
             Go(r, [local[r] EXCEPT !.pc = "markDefault", !.first = t])
      PROVE  IInv'
  <2> DEFINE new == [local[r] EXCEPT !.pc = "markDefault", !.first = t]
  <2>1. local[r] \in Local /\ "markDefault" \in PC
    BY <1>1 DEF IInv, TypeOK, PC
  <2>2. new \in Local /\ new.pc = "markDefault" /\ new.first = t
    BY <2>1 DEF Local
  <2> HIDE DEF new
  <2>3. Go(r, new) /\ local'[r] = new
    BY <1>1, <1>5, <2>2, GoFacts DEF IInv, new
  <2>4. Knows(r)'
    BY <1>2, <1>3, <1>5, <2>2, <2>3 DEF Knows, At, Meta, rows, OfTikTok
  <2> QED BY <1>1, <1>2, <2>2, <2>3, <2>4, QuietInv
<1> QED BY <1>4, <1>5 DEF FindFirst

LEMMA ReadTokenInv ==
  ASSUME IInv, NEW r \in Requests, ReadToken(r)
  PROVE  IInv'
<1>1. r \in Actors /\ r # Worker
  BY Types DEF IInv
<1>2. /\ At(r, "readToken") /\ UNCHANGED <<now, platform, rows, remote, lost, queue, made>>
      /\ Newest(User) # 0
  BY DEF ReadToken
<1>3. Newest(User) \in Grants /\ Newest(User) \in 0 .. MaxGrants /\ secret[User] # <<>>
  BY <1>2, NewestFacts, Types DEF IInv
<1>4. Meta /\ ~account.mock
  BY <1>1, <1>2, <1>3, Types DEF IInv, Knows, Secrets, OfMeta, At
<1>5. CASE Go(r, Only(r, "findDefault"))
  <2>1. Only(r, "findDefault").pc = "findDefault"
    BY <1>1, OnlyLocal DEF IInv, PC
  <2> QED BY <1>1, <1>2, <1>4, <1>5, <2>1, PlainInv
<1>6. ASSUME NEW pages \in PageLists, pages # <<>>,
             Go(r, [local[r] EXCEPT !.token = Newest(User), !.todo = pages, !.pc = "profile"])
      PROVE  IInv'
  <2> DEFINE new == [local[r] EXCEPT !.token = Newest(User), !.todo = pages, !.pc = "profile"]
  <2>1. local[r] \in Local /\ "profile" \in PC /\ pages \in Seq(Targets)
    BY <1>1, AccountsAssumption DEF IInv, TypeOK, PC
  <2>2. new \in Local /\ new.pc = "profile" /\ new.todo = pages /\ new.token = Newest(User)
    BY <1>3, <2>1 DEF Local
  <2> HIDE DEF new
  <2>3. Go(r, new) /\ local'[r] = new
    BY <1>1, <1>6, <2>2, GoFacts DEF IInv, new
  <2>4. Knows(r)'
    BY <1>2, <1>3, <1>4, <1>6, <2>2, <2>3 DEF Knows, At, Meta, rows, OfTikTok
  <2> QED BY <1>1, <1>2, <1>4, <2>2, <2>3, <2>4, QuietInv
<1> QED BY <1>5, <1>6 DEF ReadToken

LEMMA RequestFailsInv ==
  ASSUME IInv, NEW r \in Requests, RequestFails(r)
  PROVE  IInv'
<1>1. r \in Actors /\ r # Worker /\ Idle.pc = "idle"
  BY Types, IdleLocal DEF IInv
<1> QED BY <1>1, PlainInv DEF RequestFails, Finish

-----------------------------------------------------------------------------
(* The sweep and the steps of the worker that leave secrets alone. *)

LEMMA EntryFacts ==
  ASSUME TypeOK
  PROVE  /\ Add(entry, Id) \in [{Id} -> Entry] /\ Take(entry, Id) \in [{Id} -> Entry]
         /\ Complete(entry, Id) \in [{Id} -> Entry] /\ Throw(entry, Id, 1) \in [{Id} -> Entry]
         /\ Stall(entry, Id) \in [{Id} -> Entry] /\ Evict(entry, Id) \in [{Id} -> Entry]
BY QueueType DEF TypeOK

(* Nobody's locals change. *)
LEMMA QueueInv ==
  ASSUME IInv, UNCHANGED <<platform, rows, remote, lost, local, made>>,
         (now \in 1 .. MaxTime)', (entry \in [{Id} -> Entry])', (swept \in BOOLEAN)'
  PROVE  IInv'
<1>1. /\ account' = account /\ profile' = profile /\ secret' = secret /\ platform' = platform
      /\ granted' = granted /\ usable' = usable /\ lost' = lost /\ local' = local /\ made' = made
  BY DEF rows, remote
<1>2. TypeOK'
  BY <1>1 DEF IInv, TypeOK
<1>3. Profiles' /\ Secrets' /\ \A a \in Actors : Knows(a)'
  BY <1>1 DEF IInv, Profiles, Secrets, Knows, At, Meta, Exists
<1>4. (~Meta => Tokens)'
  BY <1>1 DEF IInv, Tokens, Excused, Held, At, Meta, Newest, Rows
<1> QED BY <1>2, <1>3, <1>4 DEF IInv

LEMMA QueueStepsInv ==
  ASSUME IInv, SweepFind \/ SweepAdd \/ StallEntry \/ EvictEntry \/ Tick \/ UNCHANGED vars
  PROVE  IInv'
<1>1. now \in 1 .. MaxTime /\ swept \in BOOLEAN /\ entry \in [{Id} -> Entry] /\ MaxTime \in Nat
  BY AccountsAssumption DEF IInv, TypeOK
<1>2. UNCHANGED <<platform, rows, remote, lost, local, made>>
  BY DEF SweepFind, SweepAdd, StallEntry, EvictEntry, Tick, vars, rows, remote, queue
<1>3. (now \in 1 .. MaxTime)'
  BY <1>1 DEF SweepFind, SweepAdd, StallEntry, EvictEntry, Tick, vars
<1>4. (swept \in BOOLEAN)'
  BY <1>1 DEF SweepFind, SweepAdd, StallEntry, EvictEntry, Tick, vars, queue
<1>5. (entry \in [{Id} -> Entry])'
  BY <1>1, EntryFacts DEF IInv, SweepFind, SweepAdd, StallEntry, EvictEntry, Tick, vars, queue
<1> QED BY <1>2, <1>3, <1>4, <1>5, QueueInv

LEMMA TakeEntryInv ==
  ASSUME IInv, TakeEntry
  PROVE  IInv'
<1> DEFINE pc == IF Newest(User) = 0 THEN "expire" ELSE "exchange"
           new == [Idle EXCEPT !.op = "sweep", !.token = Newest(User), !.pc = pc]
<1>1. /\ At(Worker, "idle") /\ Go(Worker, new) /\ entry' = Take(entry, Id)
      /\ UNCHANGED <<now, platform, rows, remote, lost, swept, made>>
  BY DEF TakeEntry
<1>2. /\ Newest(User) \in 0 .. MaxGrants /\ (Newest(User) # 0 <=> secret[User] # <<>>)
      /\ Worker \in Actors /\ User \in Credentials
      /\ secret[User] # <<>> => Newest(User) \in Grants /\ Newest(User) = secret[User][Len(secret[User])]
                                  /\ Len(secret[User]) \in Rows
  BY NewestFacts, Types DEF IInv, Rows
<1>3. new \in Local /\ new.pc = pc /\ new.token = Newest(User)
  <2>1. "sweep" \in AllOperations \cup {"none", "sweep"} /\ pc \in PC
    BY DEF PC
  <2> HIDE DEF pc, Idle
  <2> QED BY <1>2, <2>1, IdleLocal DEF Local
<1> HIDE DEF new
<1>4. /\ local'[Worker] = new /\ \A b \in Actors \ {Worker} : local'[b] = local[b]
  BY <1>1, <1>2, <1>3, GoFacts DEF IInv
<1>5. /\ account' = account /\ profile' = profile /\ secret' = secret /\ platform' = platform
      /\ granted' = granted /\ usable' = usable /\ lost' = lost /\ made' = made /\ now' = now
      /\ swept' = swept
  BY <1>1 DEF rows, remote
<1>6. account.mock => Newest(User) = 0
  BY <1>2 DEF IInv, Secrets
<1>7. Knows(Worker)'
  BY <1>2, <1>3, <1>4, <1>5, <1>6 DEF Knows, At, OfMeta, OfTikTok
<1>8. ASSUME ~Meta PROVE Tokens'
  <2>1. Tokens
    BY <1>8 DEF IInv
  <2>2. \A r \in Requests : (Held(r)' <=> Held(r)) /\ local'[r] = local[r]
    BY <1>4, Types DEF IInv, Held, At
  <2>3. Held(Worker)' => new.token = Newest(User) /\ secret[User] # <<>>
    BY <1>2, <1>3, <1>4 DEF Held, At
  <2>4. Actors = {Worker} \cup Requests /\ Worker \notin Requests
    BY Types DEF IInv, Actors
  <2>5. \A r \in Requests : Held(r) => Newest(User) # local[r].token \/ secret[User] = <<>>
    BY <1>2, <2>1 DEF Tokens
  <2>6. Excused' <=> lost
    BY <1>3, <1>4, <1>5 DEF Excused, At
  <2>7. Excused => lost
    BY <1>1 DEF Excused, At
  <2>8. Held(Worker)' => new.token <= granted
    BY <1>2, <2>1, <2>3 DEF Tokens
  <2>9. /\ Rows' = Rows /\ Newest(User)' = Newest(User)
        /\ ~At(Worker, "findSecret")' /\ ~At(Worker, "writeSecret")'
    BY <1>3, <1>4, <1>5 DEF Rows, Newest, At
  <2>10. \A a \in Actors : Held(a)' => local'[a].token <= granted
    BY <1>4, <2>1, <2>2, <2>4, <2>8 DEF Tokens
  <2>11. \A a, b \in Actors : a # b /\ Held(a)' /\ Held(b)' => local'[a].token # local'[b].token
    BY <1>4, <2>1, <2>2, <2>3, <2>4, <2>5 DEF Tokens
  <2> QED BY <1>5, <2>1, <2>2, <2>6, <2>7, <2>9, <2>10, <2>11 DEF Tokens
<1>9. /\ (now \in 1 .. MaxTime)' /\ (granted \in 0 .. MaxGrants)' /\ (usable \subseteq Grants)'
      /\ (entry \in [{Id} -> Entry])' /\ (swept \in BOOLEAN)' /\ (lost \in BOOLEAN)'
      /\ (made \in 0 .. MaxRequests)' /\ account' \in AccountRow
  BY <1>1, <1>5, EntryFacts DEF IInv, TypeOK
<1> QED BY <1>1, <1>2, <1>3, <1>5, <1>7, <1>8, <1>9, LocalInv

(* Ends of the worker's run and of requests. *)
LEMMA EndsInv ==
  ASSUME IInv,
         \/ RunFails \/ Crash \/ MarkExpired \/ MarkExpiredFails \/ Refreshed
         \/ \E r \in Requests : Activate(r)
  PROVE  IInv'
<1> USE DEF IInv
<1>1. /\ Worker \in Actors /\ Idle.pc = "idle" /\ account \in AccountRow /\ lost \in BOOLEAN
      /\ Only(Worker, "expire").pc = "expire" /\ made \in 0 .. MaxRequests
      /\ entry \in [{Id} -> Entry] /\ swept \in BOOLEAN /\ Unsaved \in BOOLEAN
  BY Types, IdleLocal, OnlyLocal DEF PC, TypeOK, Unsaved
<1>2. CASE RunFails
  <2>1. Go(Worker, Only(Worker, "expire")) /\ lost' = (lost \/ Unsaved) /\ UNCHANGED <<rows, queue>>
    BY <1>2 DEF RunFails
  <2>2. UNCHANGED <<now, platform, profile, secret, remote, account, entry, swept, made>>
    BY <1>2 DEF RunFails, rows, queue
  <2> QED BY <1>1, <2>1, <2>2, EndInv
<1>3. CASE Crash
  <2>1. Go(Worker, Idle) /\ lost' = (lost \/ Unsaved)
    BY <1>3 DEF Crash, Finish
  <2>2. UNCHANGED <<now, platform, profile, secret, remote, account, entry, swept, made>>
    BY <1>3 DEF Crash, rows, queue
  <2> QED BY <1>1, <2>1, <2>2, EndInv
<1>4. CASE MarkExpired
  <2> DEFINE row == [account EXCEPT !.status = "EXPIRED"]
  <2>1. /\ Go(Worker, Idle) /\ account' = row /\ entry' = Throw(entry, Id, 1)
        /\ UNCHANGED <<now, platform, profile, secret, remote, lost, swept, made>>
        /\ At(Worker, "expire")
    BY <1>4 DEF MarkExpired, Finish
  <2>2. row \in AccountRow /\ row.mock = account.mock /\ row.status = "EXPIRED"
    BY <1>1 DEF AccountRow
  <2>3. ~Unsaved /\ Throw(entry, Id, 1) \in [{Id} -> Entry]
    BY <2>1, EntryFacts DEF Unsaved, At
  <2> HIDE DEF row
  <2> QED BY <1>1, <2>1, <2>2, <2>3, EndInv
<1>5. CASE MarkExpiredFails
  <2>1. /\ Go(Worker, Idle) /\ entry' = Throw(entry, Id, 1)
        /\ UNCHANGED <<now, platform, profile, secret, remote, account, lost, swept, made>>
        /\ At(Worker, "expire")
    BY <1>5 DEF MarkExpiredFails, Finish, rows
  <2>2. ~Unsaved /\ Throw(entry, Id, 1) \in [{Id} -> Entry]
    BY <2>1, EntryFacts DEF Unsaved, At
  <2> QED BY <1>1, <2>1, <2>2, EndInv
<1>6. CASE Refreshed
  <2>1. PICK expiry \in Expiries : account' = [account EXCEPT !.status = "ACTIVE", !.expiresAt = expiry]
    BY <1>6 DEF Refreshed
  <2> DEFINE row == [account EXCEPT !.status = "ACTIVE", !.expiresAt = expiry]
  <2>2. /\ Go(Worker, Idle) /\ account' = row /\ entry' = Complete(entry, Id)
        /\ UNCHANGED <<now, platform, profile, secret, remote, lost, swept, made>>
        /\ At(Worker, "activate")
    BY <1>6, <2>1 DEF Refreshed, Finish
  <2>3. expiry \in Nat
    BY AccountsAssumption, Types DEF Expiries
  <2>4. row \in AccountRow /\ row.mock = account.mock /\ row.status = "ACTIVE"
    BY <1>1, <2>3 DEF AccountRow
  <2>5. ~Unsaved /\ Complete(entry, Id) \in [{Id} -> Entry]
    BY <2>2, EntryFacts DEF Unsaved, At
  <2> HIDE DEF row
  <2> QED BY <1>1, <2>2, <2>4, <2>5, EndInv
<1>7. ASSUME NEW r \in Requests, Activate(r) PROVE IInv'
  <2> DEFINE row == [account EXCEPT !.status = "ACTIVE"]
  <2>1. /\ Go(r, Idle) /\ account' = row /\ r # Worker /\ r \in Actors
        /\ UNCHANGED <<now, platform, profile, secret, remote, lost, entry, swept, made>>
    BY <1>7, Types DEF Activate, Finish, queue
  <2>2. row \in AccountRow /\ row.mock = account.mock /\ row.status = "ACTIVE"
    BY <1>1 DEF AccountRow
  <2> HIDE DEF row
  <2> QED BY <1>1, <2>1, <2>2, EndInv
<1> QED BY <1>2, <1>3, <1>4, <1>5, <1>6, <1>7

LEMMA ExchangeMetaInv ==
  ASSUME IInv, ExchangeMeta
  PROVE  IInv'
<1> DEFINE new == [local[Worker] EXCEPT !.pc = "storeToken", !.token = 1]
<1>1. /\ At(Worker, "exchange") /\ Meta /\ Go(Worker, new)
      /\ UNCHANGED <<now, platform, rows, remote, lost, queue, made>>
  BY DEF ExchangeMeta, Hold
<1>2. local[Worker] \in Local /\ "storeToken" \in PC /\ Worker \in Actors /\ 1 \in Grants /\ 1 \in 0 .. MaxGrants
  BY Types DEF IInv, TypeOK, PC, Grants
<1>3. new \in Local /\ new.pc = "storeToken" /\ new.token = 1
  BY <1>2 DEF Local
<1> HIDE DEF new
<1>4. local'[Worker] = new
  BY <1>1, <1>2, <1>3, GoFacts DEF IInv
<1>5. Knows(Worker)'
  BY <1>1, <1>2, <1>3, <1>4 DEF IInv, Knows, At, rows, Meta, OfTikTok
<1> QED BY <1>1, <1>2, <1>3, <1>5, QuietInv

LEMMA RefreshAccessInv ==
  ASSUME IInv, RefreshAccess
  PROVE  IInv'
<1> DEFINE new == [local[Worker] EXCEPT !.pc = "findSecret", !.token = local[Worker].token]
<1>1. /\ At(Worker, "exchange") /\ ~Meta /\ Go(Worker, new) /\ local[Worker].token \in usable
      /\ UNCHANGED <<now, platform, rows, remote, lost, queue, made>>
  BY DEF RefreshAccess, Hold, Meta
<1>2. /\ local[Worker] \in Local /\ "findSecret" \in PC /\ Worker \in Actors
      /\ local[Worker].token \in Grants
  BY <1>1, Types DEF IInv, TypeOK, PC
<1>3. new \in Local /\ new.pc = "findSecret" /\ new.token = local[Worker].token
  BY <1>2 DEF Local
<1> HIDE DEF new
<1>4. local'[Worker] = new
  BY <1>1, <1>2, <1>3, GoFacts DEF IInv
<1>5. Knows(Worker)'
  BY <1>1, <1>2, <1>3, <1>4 DEF IInv, Knows, At, rows, Meta, OfMeta
<1>6. Held(Worker)
  BY <1>1 DEF Held
<1> QED BY <1>1, <1>2, <1>3, <1>5, <1>6, MoveInv

LEMMA FetchPagesInv ==
  ASSUME IInv, FetchPages
  PROVE  IInv'
<1>1. /\ At(Worker, "pages") /\ UNCHANGED <<now, platform, rows, remote, lost, queue, made>>
      /\ Worker \in Actors
  BY Types DEF FetchPages, IInv
<1>2. Meta /\ local[Worker].token \in Grants /\ ~account.mock /\ secret[User] # <<>>
  BY <1>1 DEF IInv, Knows, At, OfMeta
<1>3. PICK pages \in PageLists :
        Go(Worker, IF pages = <<>> THEN Only(Worker, "activate")
                   ELSE [local[Worker] EXCEPT !.cred = Head(pages), !.todo = Tail(pages),
                                              !.pc = "storeToken"])
  BY DEF FetchPages
<1>4. CASE pages = <<>>
  <2>1. Only(Worker, "activate").pc = "activate"
    BY <1>1, OnlyLocal DEF IInv, PC
  <2> QED BY <1>1, <1>2, <1>3, <1>4, <2>1, PlainInv
<1>5. CASE pages # <<>>
  <2> DEFINE new == [local[Worker] EXCEPT !.cred = Head(pages), !.todo = Tail(pages), !.pc = "storeToken"]
  <2>1. /\ local[Worker] \in Local /\ "storeToken" \in PC /\ pages \in Seq(Targets)
    BY <1>1, AccountsAssumption DEF IInv, TypeOK, PC
  <2>2. Tail(pages) \in Seq(Targets) /\ Head(pages) \in Credentials
    BY <1>5, <2>1 DEF Credentials
  <2>3. new \in Local /\ new.pc = "storeToken" /\ new.token = local[Worker].token
    BY <2>1, <2>2 DEF Local
  <2>4. Go(Worker, new)
    BY <1>3, <1>5
  <2> HIDE DEF new
  <2>5. local'[Worker] = new
    BY <1>1, <2>3, <2>4, GoFacts DEF IInv
  <2>6. Knows(Worker)'
    BY <1>1, <1>2, <2>3, <2>5 DEF Knows, At, rows, Meta, OfTikTok
  <2> QED BY <1>1, <1>2, <2>3, <2>4, <2>6, QuietInv
<1> QED BY <1>4, <1>5

-----------------------------------------------------------------------------
(* What users call. *)

LEMMA BeginInv ==
  ASSUME IInv, NEW r \in Requests, NEW op, NEW base \in Local, Begin(r, op, base),
         base.pc \in {"idle", "consent", "readToken", "activate"},
         base.pc = "readToken" => Meta, base.pc = "consent" => ~account.mock,
         account' \in AccountRow, account'.mock = account.mock,
         account' = account \/ account'.status # "NONE",
         UNCHANGED <<now, platform, profile, secret, remote, lost, queue>>
  PROVE  IInv'
<1>1. r \in Actors /\ r # Worker /\ made' = r /\ Go(r, base)
  BY Types DEF IInv, Begin
<1>2. local'[r] = base
  BY <1>1, GoFacts DEF IInv
<1>3. Knows(r)'
  BY <1>1, <1>2 DEF Knows, At, Meta, OfMeta, OfTikTok
<1>4. ~Meta => Tokens'
  BY <1>1, TokensKept
<1>5. /\ (now \in 1 .. MaxTime)' /\ (granted \in 0 .. MaxGrants)' /\ (usable \subseteq Grants)'
      /\ (entry \in [{Id} -> Entry])' /\ (swept \in BOOLEAN)' /\ (lost \in BOOLEAN)'
      /\ (made \in 0 .. MaxRequests)'
  BY <1>1 DEF IInv, TypeOK, remote, queue, Requests
<1> QED BY <1>1, <1>3, <1>4, <1>5, LocalInv

LEMMA CallsInv ==
  ASSUME IInv, NEW r \in Requests,
         StartConnection(r) \/ Reconnect(r) \/ Disconnect(r) \/ Refresh(r)
  PROVE  IInv'
<1>1. account \in AccountRow /\ now \in Nat /\ Life \in Nat
  BY Types, AccountsAssumption DEF IInv
<1>2. CASE StartConnection(r)
  <2> DEFINE until == now + 1
             base == [Idle EXCEPT !.op = "connect", !.pc = "consent", !.until = until]
  <2>1. base \in Local /\ base.pc = "consent"
    <3>1. "consent" \in PC /\ until \in Nat /\ "connect" \in AllOperations \cup {"none", "sweep"}
      BY <1>1 DEF PC, AllOperations
    <3> HIDE DEF Idle, until
    <3> QED BY <1>1, <3>1, IdleLocal DEF Local
  <2>2. Begin(r, "connect", base) /\ ~account.mock /\ UNCHANGED <<now, platform, rows, remote, lost, queue>>
    BY <1>2 DEF StartConnection
  <2>3. UNCHANGED <<account, profile, secret>>
    BY <2>2 DEF rows
  <2> HIDE DEF base
  <2> QED BY <1>1, <2>1, <2>2, <2>3, BeginInv
<1>3. CASE Reconnect(r)
  <2> DEFINE expiry == now + Life
             row == [account EXCEPT !.status = "ACTIVE", !.expiresAt = expiry]
  <2>1. row \in AccountRow /\ row.mock = account.mock /\ row.status = "ACTIVE"
    <3>1. expiry \in Nat
      BY <1>1
    <3> HIDE DEF expiry
    <3> QED BY <1>1, <3>1 DEF AccountRow
  <2>2. /\ Begin(r, "reconnect", Idle) /\ account' = row
        /\ UNCHANGED <<now, platform, profile, secret, remote, lost, queue>>
    BY <1>3 DEF Reconnect
  <2> HIDE DEF row
  <2> QED BY <2>1, <2>2, IdleLocal, BeginInv
<1>4. CASE Disconnect(r)
  <2> DEFINE row == [account EXCEPT !.status = "REVOKED"]
  <2>1. row \in AccountRow /\ row.mock = account.mock /\ row.status = "REVOKED"
    BY <1>1 DEF AccountRow
  <2>2. /\ Begin(r, "disconnect", Idle) /\ account' = row
        /\ UNCHANGED <<now, platform, profile, secret, remote, lost, queue>>
    BY <1>4 DEF Disconnect
  <2> HIDE DEF row
  <2> QED BY <2>1, <2>2, IdleLocal, BeginInv
<1>5. CASE Refresh(r)
  <2> DEFINE pc == IF Meta THEN "readToken" ELSE "activate"
             base == [Idle EXCEPT !.op = "refresh", !.pc = pc]
  <2>1. base \in Local /\ base.pc = pc
    <3>1. pc \in PC /\ "refresh" \in AllOperations \cup {"none", "sweep"}
      BY DEF PC, AllOperations
    <3> HIDE DEF Idle, pc
    <3> QED BY <3>1, IdleLocal DEF Local
  <2>2. Begin(r, "refresh", base) /\ UNCHANGED <<now, platform, rows, remote, lost, queue>>
    BY <1>5 DEF Refresh
  <2>3. UNCHANGED <<account, profile, secret>>
    BY <2>2 DEF rows
  <2> HIDE DEF base
  <2> QED BY <1>1, <2>1, <2>2, <2>3, BeginInv
<1> QED BY <1>2, <1>3, <1>4, <1>5

(* The mock account gets its row and its profile at once. *)
LEMMA ConnectMockInv ==
  ASSUME IInv, NEW r \in Requests, ConnectMock(r)
  PROVE  IInv'
<1> DEFINE new == Idle
           row == [status |-> "ACTIVE", expiresAt |-> now + Life, mock |-> TRUE]
<1>1. /\ r \in Actors /\ r # Worker /\ Go(r, new) /\ made' = r /\ account.mock /\ ~Exists
      /\ account' = row /\ profile' = [profile EXCEPT ![Own] = [born |-> 1, isDefault |-> TRUE]]
      /\ UNCHANGED <<now, platform, secret, remote, lost, queue>>
  BY Types DEF IInv, ConnectMock, Begin
<1>2. new \in Local /\ new.pc = "idle"
  BY IdleLocal
<1>3. /\ local' \in [Actors -> Local] /\ local'[r] = new /\ \A b \in Actors \ {r} : local'[b] = local[b]
  BY <1>1, <1>2, GoFacts DEF IInv
<1>4. row \in AccountRow /\ row.mock
  BY Types, AccountsAssumption DEF IInv, AccountRow
<1>5. \A t \in Targets : profile[t].born = 0 /\ ~profile[t].isDefault
  BY <1>1 DEF IInv, Profiles
<1>6. /\ profile' \in [Targets -> ProfileRow] /\ profile'[Own].born = 1
      /\ \A t \in Targets \ {Own} : profile'[t] = profile[t]
  <2> DEFINE p == [born |-> 1, isDefault |-> TRUE]
  <2>1. p \in ProfileRow /\ p.born = 1
    BY DEF ProfileRow
  <2>2. profile' = [profile EXCEPT ![Own] = p]
    BY <1>1
  <2> HIDE DEF p
  <2> QED BY <2>1, <2>2, Types DEF IInv
<1> HIDE DEF new, row
<1>7. TypeOK'
  BY <1>1, <1>3, <1>4, <1>6 DEF IInv, TypeOK, remote, queue, Requests
<1>8. \A b \in Actors \ {r} : Knows(b)'
  <2> TAKE b \in Actors \ {r}
  <2>1. Len(secret[User]) \in Nat
    BY NewestFacts, Types DEF IInv
  <2> QED BY <1>1, <1>3, <1>4, <1>5, <2>1, KnowsKept
<1>9. Knows(r)'
  BY <1>1, <1>2, <1>3 DEF Knows, At, OfMeta, OfTikTok
<1>10. Profiles'
  BY <1>1, <1>4, <1>5, <1>6, Types DEF IInv, Profiles, Meta, Exists, row
<1>11. Secrets'
  BY <1>1, <1>4 DEF IInv, Secrets
<1>12. (~Meta => Tokens)'
  BY <1>1, <1>2, TokensKept DEF Meta
<1> QED BY <1>7, <1>8, <1>9, <1>10, <1>11, <1>12 DEF IInv

-----------------------------------------------------------------------------
(* Steps that grant a token. *)

LEMMA GrantFacts ==
  ASSUME TypeOK, NEW accepted \in SUBSET usable, Grant(accepted)
  PROVE  /\ granted' = granted + 1 /\ granted + 1 \in Grants /\ granted' \in 0 .. MaxGrants
         /\ granted \in Nat /\ usable' = accepted \cup {granted + 1} /\ usable' \subseteq Grants
BY Types DEF Grant, Grants

LEMMA TokensGranted ==
  ASSUME IInv, ~Meta, NEW a \in Actors, NEW new \in Local, Go(a, new), secret' = secret,
         NEW accepted \in SUBSET usable, Grant(accepted),
         new.pc \in {"account", "profile", "findSecret", "writeSecret"} => new.token = granted + 1,
         \/ a \in Requests /\ accepted = usable /\ lost' = lost
         \/ /\ a = Worker /\ At(Worker, "exchange")
            /\ accepted = usable \ {local[Worker].token}
            /\ new.pc = "findSecret" \/ (new.pc = "expire" /\ lost')
  PROVE  Tokens'
<1>1. Tokens /\ TypeOK
  BY DEF IInv
<1>2. /\ local'[a] = new /\ \A b \in Actors \ {a} : local'[b] = local[b]
      /\ Actors = {Worker} \cup Requests /\ Worker \notin Requests
  BY <1>1, GoFacts, Types DEF Actors
<1>3. /\ granted' = granted + 1 /\ granted \in Nat /\ usable' = accepted \cup {granted + 1}
  BY <1>1, GrantFacts
<1>4. Rows' = Rows /\ Newest(User)' = Newest(User)
  BY DEF Rows, Newest
<1>5. \A b \in Actors \ {a} : (Held(b)' <=> Held(b)) /\ local'[b].token = local[b].token
  BY <1>2 DEF Held, At
<1>6. Held(a)' => local'[a].token = granted + 1
  BY <1>2 DEF Held, At
<1>7. secret[User] \in Seq(Grants) /\ \A b \in Actors : local[b].token \in Nat
  BY <1>1, Types, LocalFields
<1>8. \A i \in Rows : secret[User][i] \in Nat /\ secret[User][i] <= granted
  BY <1>1, <1>7, Types DEF Tokens, Rows, Grants
<1>9. \A i \in Rows : secret'[User][i] <= granted' /\ secret'[User][i] # granted + 1
  BY <1>3, <1>8
<1>10. \A b \in Actors \ {a} : Held(b) => local[b].token <= granted
  BY <1>1 DEF Tokens
<1>11. \A b \in Actors : Held(b)' => local'[b].token <= granted'
  BY <1>3, <1>5, <1>6, <1>7, <1>10
<1>12. \A b \in Actors \ {a} : Held(b)' => local'[b].token # granted + 1
  BY <1>3, <1>5, <1>7, <1>10
<1>13. \A b, c \in Actors : b # c /\ Held(b)' /\ Held(c)' => local'[b].token # local'[c].token
  <2> SUFFICES ASSUME NEW b \in Actors, NEW c \in Actors, b # c, Held(b)', Held(c)'
               PROVE  local'[b].token # local'[c].token
    OBVIOUS
  <2>1. CASE b # a /\ c # a
    BY <1>1, <1>5, <2>1 DEF Tokens
  <2>2. CASE b = a \/ c = a
    BY <1>6, <1>12, <2>2
  <2> QED BY <2>1, <2>2
<1>14. \A r \in Requests \ {a} : Held(r)' => local'[r].token \in usable'
  <2> SUFFICES ASSUME NEW r \in Requests \ {a}, Held(r)' PROVE local[r].token \in accepted
    BY <1>2, <1>3, <1>5
  <2>1. Held(r) /\ local[r].token \in usable
    BY <1>1, <1>2, <1>5 DEF Tokens
  <2>2. a = Worker /\ At(Worker, "exchange") => local[r].token # local[Worker].token
    BY <1>1, <1>2, <2>1 DEF Tokens, Held
  <2> QED BY <2>1, <2>2
<1>15. \A r \in Requests : Held(r)' =>
         local'[r].token \in usable' /\ \A i \in Rows : secret'[User][i] # local'[r].token
  <2> SUFFICES ASSUME NEW r \in Requests, Held(r)'
               PROVE  local'[r].token \in usable' /\ \A i \in Rows : secret[User][i] # local'[r].token
    OBVIOUS
  <2>1. CASE r = a
    BY <1>3, <1>6, <1>9, <2>1
  <2>2. CASE r # a
    BY <1>1, <1>2, <1>5, <1>14, <2>2 DEF Tokens
  <2> QED BY <2>1, <2>2
<1>16. At(Worker, "findSecret")' \/ At(Worker, "writeSecret")' => local'[Worker].token \in usable'
  BY <1>1, <1>2, <1>3 DEF Tokens, At
<1>17. Newest(User) # 0 /\ ~Excused' => Newest(User) \in usable'
  <2>1. CASE a \in Requests
    BY <1>1, <1>2, <1>3, <2>1 DEF Tokens, Excused, At
  <2>2. CASE a = Worker
    BY <1>2, <2>2 DEF Excused, At
  <2> QED BY <1>2, <2>1, <2>2
<1> QED BY <1>4, <1>9, <1>11, <1>13, <1>15, <1>16, <1>17 DEF Tokens

LEMMA RotateInv ==
  ASSUME IInv, Rotate \/ AnswerLost
  PROVE  IInv'
<1> DEFINE rest == usable \ {local[Worker].token}
<1>1. /\ At(Worker, "exchange") /\ ~Meta /\ local[Worker].token \in usable /\ Grant(rest)
      /\ UNCHANGED <<now, platform, rows, queue, made>> /\ Worker \in Actors
  BY Types DEF Rotate, AnswerLost, IInv, Meta
<1>2. /\ granted' = granted + 1 /\ granted + 1 \in Grants /\ granted' \in 0 .. MaxGrants
      /\ usable' \subseteq Grants
  BY <1>1, GrantFacts DEF IInv
<1>3. PICK new \in Local :
        /\ Go(Worker, new)
        /\ \/ new.pc = "findSecret" /\ new.token = granted + 1 /\ lost' = lost
           \/ new.pc = "expire" /\ lost'= TRUE
  <2>1. CASE Rotate
    <3> DEFINE new == [local[Worker] EXCEPT !.pc = "findSecret", !.token = granted + 1]
    <3>1. Go(Worker, new) /\ lost' = lost
      BY <2>1 DEF Rotate, Hold
    <3>2. local[Worker] \in Local /\ "findSecret" \in PC /\ granted + 1 \in 0 .. MaxGrants
      BY <1>1, <1>2 DEF IInv, TypeOK, PC
    <3>3. new \in Local /\ new.pc = "findSecret" /\ new.token = granted + 1
      BY <3>2 DEF Local
    <3> HIDE DEF new
    <3> QED BY <3>1, <3>3
  <2>2. CASE AnswerLost
    <3>1. Only(Worker, "expire") \in Local /\ Only(Worker, "expire").pc = "expire"
      BY <1>1, OnlyLocal DEF IInv, PC
    <3> QED BY <2>2, <3>1 DEF AnswerLost
  <2> QED BY <2>1, <2>2
<1>4. local'[Worker] = new
  BY <1>1, <1>3, GoFacts DEF IInv
<1>5. ~account.mock /\ account' = account /\ profile' = profile /\ secret' = secret
  BY <1>1 DEF IInv, Knows, At, rows
<1>6. Knows(Worker)'
  BY <1>1, <1>2, <1>3, <1>4, <1>5 DEF Knows, At, Meta, OfMeta, OfTikTok
<1>7. Tokens'
  BY <1>1, <1>3, <1>5, TokensGranted
<1>8. /\ (now \in 1 .. MaxTime)' /\ (entry \in [{Id} -> Entry])' /\ (swept \in BOOLEAN)'
      /\ (lost \in BOOLEAN)' /\ (made \in 0 .. MaxRequests)' /\ account' \in AccountRow
  BY <1>1, <1>3, <1>5 DEF IInv, TypeOK, queue
<1> QED BY <1>1, <1>2, <1>3, <1>5, <1>6, <1>7, <1>8, LocalInv

LEMMA CallbackInv ==
  ASSUME IInv, NEW r \in Requests, Callback(r)
  PROVE  IInv'
<1>1. /\ r \in Actors /\ r # Worker /\ At(r, "consent") /\ UNCHANGED <<now, platform, rows, lost, queue, made>>
  BY Types DEF IInv, Callback, Consented
<1>2. PICK token \in Grants, pages \in (IF Meta THEN PageLists ELSE {<<Own>>}) :
        /\ Login(token)
        /\ Go(r, [Only(r, "account") EXCEPT !.token = token, !.todo = pages])
  BY DEF Callback
<1> DEFINE new == [Only(r, "account") EXCEPT !.token = token, !.todo = pages]
<1>3. new \in Local /\ new.pc = "account" /\ new.token = token
  <2>1. Only(r, "account") \in Local /\ Only(r, "account").pc = "account"
    BY <1>1, OnlyLocal DEF IInv, PC
  <2>2. token \in 0 .. MaxGrants
    BY DEF Grants
  <2>3. <<Own>> \in Seq(Targets)
    BY AccountsAssumption
  <2>4. pages \in Seq(Targets)
    BY <2>3, AccountsAssumption
  <2> QED BY <2>1, <2>2, <2>4 DEF Local
<1>4. Go(r, new)
  BY <1>2
<1> HIDE DEF new
<1>5. local'[r] = new /\ ~account.mock /\ account' = account /\ profile' = profile /\ secret' = secret
  BY <1>1, <1>3, <1>4, GoFacts DEF IInv, Knows, At, rows
<1>6. Knows(r)'
  BY <1>1, <1>3, <1>5 DEF Knows, At, Meta, OfMeta, OfTikTok
<1>7. /\ granted' \in 0 .. MaxGrants /\ usable' \subseteq Grants
      /\ ~Meta => Grant(usable) /\ token = granted + 1
  <2>1. CASE Meta
    BY <1>2, <2>1, Types DEF IInv, Login, remote
  <2>2. CASE ~Meta
    BY <1>2, <2>2, GrantFacts DEF IInv, Login
  <2> QED BY <2>1, <2>2
<1>8. ~Meta => Tokens'
  BY <1>1, <1>3, <1>4, <1>5, <1>7, TokensGranted
<1>9. /\ (now \in 1 .. MaxTime)' /\ (entry \in [{Id} -> Entry])' /\ (swept \in BOOLEAN)'
      /\ (lost \in BOOLEAN)' /\ (made \in 0 .. MaxRequests)' /\ account' \in AccountRow
  BY <1>1, <1>5 DEF IInv, TypeOK, queue
<1> QED BY <1>1, <1>3, <1>4, <1>5, <1>6, <1>7, <1>8, <1>9, LocalInv

-----------------------------------------------------------------------------
(* Steps of a request that write rows. *)

LEMMA SaveAccountInv ==
  ASSUME IInv, NEW r \in Requests, SaveAccount(r) \/ SaveTikTokAccount(r)
  PROVE  IInv'
<1> DEFINE pc == IF Meta THEN "storeToken" ELSE "profile"
           new == [local[r] EXCEPT !.pc = pc, !.cred = User]
<1>1. /\ r \in Actors /\ r # Worker /\ At(r, "account") /\ Go(r, new)
      /\ UNCHANGED <<now, platform, profile, secret, remote, lost, queue, made>>
      /\ local[r] \in Local /\ User \in Credentials /\ pc \in PC
  BY Types DEF IInv, TypeOK, PC, SaveAccount, SaveTikTokAccount, SaveRow
<1>2. PICK expiry \in Expiries :
        account' = [status |-> "ACTIVE", expiresAt |-> expiry, mock |-> FALSE]
  BY DEF SaveAccount, SaveTikTokAccount, SaveRow
<1>3. expiry \in Nat
  BY AccountsAssumption, Types DEF IInv, Expiries
<1>4. account' \in AccountRow /\ account'.mock = FALSE /\ account'.status = "ACTIVE"
  BY <1>2, <1>3 DEF AccountRow
<1>5. ~account.mock /\ account.mock \in BOOLEAN /\ local[r].token \in Grants
  BY <1>1, Types DEF IInv, Knows, At
<1>6. new \in Local /\ new.pc = pc /\ new.token = local[r].token /\ new.cred = User
  <2> HIDE DEF pc
  <2> QED BY <1>1 DEF Local
<1> HIDE DEF new
<1>7. local'[r] = new
  BY <1>1, <1>6, GoFacts DEF IInv
<1>8. Knows(r)'
  BY <1>1, <1>4, <1>5, <1>6, <1>7 DEF Knows, At, Meta, OfMeta, OfTikTok
<1>9. Held(r)
  BY <1>1 DEF Held, At
<1>10. ~Meta => Tokens'
  BY <1>1, <1>6, <1>9, TokensKept
<1>11. /\ (now \in 1 .. MaxTime)' /\ (granted \in 0 .. MaxGrants)' /\ (usable \subseteq Grants)'
       /\ (entry \in [{Id} -> Entry])' /\ (swept \in BOOLEAN)' /\ (lost \in BOOLEAN)'
       /\ (made \in 0 .. MaxRequests)'
  BY <1>1 DEF IInv, TypeOK, remote, queue
<1> QED BY <1>1, <1>4, <1>5, <1>6, <1>8, <1>10, <1>11, LocalInv

LEMMA BornFacts ==
  ASSUME TypeOK
  PROVE  Born \in Nat /\ (Born = 0 <=> \A t \in Targets : profile[t].born = 0)
<1> DEFINE S == {t \in Targets : profile[t].born # 0}
<1>1. IsFiniteSet(S)
  BY AccountsAssumption, FS_Subset
<1>2. Cardinality(S) \in Nat /\ (Cardinality(S) = 0 <=> S = {})
  BY <1>1, FS_CardinalityType, FS_EmptySet
<1> QED BY <1>2 DEF Born

(* A profile is written by a request of an account that exists. *)
LEMMA ProfileInv ==
  ASSUME IInv, NEW r \in Requests, NEW new \in Local, Go(r, new),
         UNCHANGED <<now, platform, account, secret, remote, lost, queue, made>>,
         profile' \in [Targets -> ProfileRow], Profiles',
         \A t \in Targets : profile[t].born = 1 => profile'[t].born = 1,
         ~account.mock, Meta => secret[User] # <<>>,
         Knows(r)',
         new.pc \in {"account", "profile", "findSecret", "writeSecret"} =>
           Meta \/ (Held(r) /\ new.token = local[r].token)
  PROVE  IInv'
<1>1. /\ local' \in [Actors -> Local] /\ \A b \in Actors \ {r} : local'[b] = local[b]
      /\ r \in Actors /\ r # Worker
  BY GoFacts, Types DEF IInv
<1>2. TypeOK'
  BY <1>1 DEF IInv, TypeOK, remote, queue
<1>3. \A b \in Actors \ {r} : Knows(b)'
  <2> TAKE b \in Actors \ {r}
  <2>1. Len(secret[User]) \in Nat
    BY NewestFacts, Types DEF IInv
  <2> QED BY <1>1, <2>1, KnowsKept
<1>4. Secrets'
  BY DEF Secrets, Meta
<1>5. (~Meta => Tokens)'
  BY <1>1, TokensKept DEF Meta
<1> QED BY <1>2, <1>3, <1>4, <1>5 DEF IInv

(* A new row is the first one, or another row is. *)
LEMMA UpsertFacts ==
  ASSUME IInv, NEW t \in Targets, NEW isDefault \in BOOLEAN, Upsert(t, isDefault),
         UNCHANGED <<platform, account>>, ~account.mock,
         Meta => ~isDefault, ~Meta => t = Own
  PROVE  /\ profile' \in [Targets -> ProfileRow] /\ Profiles'
         /\ \A u \in Targets : profile[u].born = 1 => profile'[u].born = 1
<1> USE DEF IInv
<1>1. profile \in [Targets -> ProfileRow] /\ Born \in Nat
      /\ (Born = 0 <=> \A u \in Targets : profile[u].born = 0)
  BY Types, BornFacts
<1>2. CASE profile[t].born # 0
  BY <1>1, <1>2 DEF Upsert, Profiles, Meta, Exists
<1>3. CASE profile[t].born = 0
  <2> DEFINE rank == Born + 1
             row == [born |-> rank, isDefault |-> isDefault]
  <2>1. row \in ProfileRow /\ row.born = rank /\ row.isDefault = isDefault
    <3>1. rank \in Nat
      BY <1>1
    <3> HIDE DEF rank
    <3> QED BY <3>1 DEF ProfileRow
  <2>2. profile' = [profile EXCEPT ![t] = row]
    BY <1>3 DEF Upsert
  <2> HIDE DEF row
  <2>3. /\ profile' \in [Targets -> ProfileRow] /\ profile'[t] = row
        /\ \A u \in Targets \ {t} : profile'[u] = profile[u]
    BY <1>1, <2>1, <2>2
  <2>4. \A u \in Targets : profile[u].born = 1 => u # t /\ profile'[u].born = 1
    BY <1>3, <2>3
  <2>5. rank = 1 => \A u \in Targets : profile[u].born = 0
    BY <1>1
  <2>6. isDefault => rank = 1
    <3>1. ASSUME isDefault PROVE Born = 0
      BY <1>1, <1>3, <3>1 DEF Profiles
    <3> QED BY <1>1, <3>1
  <2>7. \A u, v \in Targets : profile'[u].born = 1 /\ profile'[v].born = 1 => u = v
    <3> HIDE DEF rank
    <3> QED BY <2>1, <2>3, <2>5 DEF Profiles
  <2>8. \A u \in Targets : profile'[u].isDefault => profile'[u].born = 1
    <3> HIDE DEF rank
    <3> QED BY <2>1, <2>3, <2>6 DEF Profiles
  <2>9. ~Meta => \A u \in Targets \ {Own} : profile'[u].born = 0
    BY <2>3 DEF Profiles
  <2> QED BY <2>3, <2>4, <2>7, <2>8, <2>9 DEF Profiles, Meta, Exists
<1> QED BY <1>2, <1>3

LEMMA SaveProfileInv ==
  ASSUME IInv, NEW r \in Requests, NEW t \in Targets, SaveProfile(r, t)
  PROVE  IInv'
<1> DEFINE rest == Tail(local[r].todo)
           new == [local[r] EXCEPT !.todo = rest, !.pc = "storeToken", !.cred = t]
<1>1. /\ At(r, "profile") /\ Meta /\ Upsert(t, FALSE) /\ r \in Actors
      /\ Go(r, new) /\ UNCHANGED <<now, platform, account, secret, remote, lost, queue, made>>
  BY Types DEF IInv, SaveProfile
<1>2. /\ ~account.mock /\ secret[User] # <<>> /\ local[r].token \in Grants
      /\ local[r].todo # <<>> /\ local[r].todo \in Seq(Targets)
  BY <1>1, LocalFields DEF IInv, Knows, At
<1>3. new \in Local /\ new.pc = "storeToken" /\ new.token = local[r].token
  <2>1. rest \in Seq(Targets) /\ t \in Credentials /\ "storeToken" \in PC /\ local[r] \in Local
    BY <1>1, <1>2 DEF IInv, TypeOK, Credentials, PC
  <2> HIDE DEF rest
  <2> QED BY <2>1 DEF Local
<1> HIDE DEF new
<1>4. local'[r] = new
  BY <1>1, <1>3, GoFacts DEF IInv
<1>5. Knows(r)'
  BY <1>1, <1>2, <1>3, <1>4 DEF Knows, At, Meta, OfTikTok
<1>6. /\ profile' \in [Targets -> ProfileRow] /\ Profiles'
      /\ \A u \in Targets : profile[u].born = 1 => profile'[u].born = 1
  BY <1>1, <1>2, UpsertFacts
<1> QED BY <1>1, <1>2, <1>3, <1>5, <1>6, ProfileInv

LEMMA SaveOwnProfileInv ==
  ASSUME IInv, NEW r \in Requests, SaveOwnProfile(r)
  PROVE  IInv'
<1> DEFINE new == [local[r] EXCEPT !.todo = <<>>, !.pc = "findSecret"]
<1>1. /\ At(r, "profile") /\ ~Meta /\ Upsert(Own, TRUE) /\ r \in Actors
      /\ Go(r, new) /\ UNCHANGED <<now, platform, account, secret, remote, lost, queue, made>>
      /\ Own \in Targets
  BY Types DEF IInv, SaveOwnProfile
<1>2. ~account.mock /\ local[r].token \in Grants
  BY <1>1 DEF IInv, Knows, At
<1>3. new \in Local /\ new.pc = "findSecret" /\ new.token = local[r].token
  <2>1. "findSecret" \in PC /\ local[r] \in Local /\ <<>> \in Seq(Targets)
    BY <1>1, EmptySeq DEF IInv, TypeOK, PC
  <2> QED BY <2>1 DEF Local
<1> HIDE DEF new
<1>4. local'[r] = new
  BY <1>1, <1>3, GoFacts DEF IInv
<1>5. Knows(r)' /\ Held(r)
  BY <1>1, <1>2, <1>3, <1>4 DEF Knows, At, Meta, OfMeta, Held
<1>6. /\ profile' \in [Targets -> ProfileRow] /\ Profiles'
      /\ \A u \in Targets : profile[u].born = 1 => profile'[u].born = 1
  BY <1>1, <1>2, UpsertFacts
<1> QED BY <1>1, <1>2, <1>3, <1>5, <1>6, ProfileInv

LEMMA MarkDefaultInv ==
  ASSUME IInv, NEW r \in Requests, MarkDefault(r)
  PROVE  IInv'
<1> DEFINE t == local[r].first
           new == AfterDefault(r)
<1>1. /\ At(r, "markDefault") /\ r \in Actors /\ r # Worker /\ Go(r, new)
      /\ profile' = [profile EXCEPT ![t].isDefault = TRUE]
      /\ UNCHANGED <<now, platform, account, secret, remote, lost, queue, made>>
  BY Types DEF IInv, MarkDefault
<1>2. Meta /\ ~account.mock /\ profile[t].born = 1 /\ t \in Targets
  BY <1>1, LocalFields DEF IInv, Knows, At, OfMeta
<1>3. secret[User] # <<>>
  BY <1>2 DEF IInv, Secrets
<1>4. new \in Local /\ new.pc \in {"idle", "activate"}
  BY <1>1, IdleLocal, OnlyLocal DEF IInv, PC, AfterDefault
<1>5. /\ profile' \in [Targets -> ProfileRow] /\ profile'[t].born = 1
      /\ \A u \in Targets \ {t} : profile'[u] = profile[u]
  BY <1>1, <1>2, Types DEF IInv, ProfileRow
<1> HIDE DEF new, t
<1>6. Profiles' /\ \A u \in Targets : profile[u].born = 1 => profile'[u].born = 1
  BY <1>1, <1>2, <1>5 DEF IInv, Profiles, Meta, Exists
<1>7. local'[r] = new
  BY <1>1, <1>4, GoFacts DEF IInv
<1>8. Knows(r)'
  BY <1>4, <1>7 DEF Knows, At, OfMeta, OfTikTok
<1> QED BY <1>1, <1>2, <1>3, <1>4, <1>5, <1>6, <1>8, ProfileInv

-----------------------------------------------------------------------------
(* Steps that store a token. *)

LEMMA SecretInv ==
  ASSUME IInv, NEW a \in Actors, NEW new \in Local, Go(a, new),
         UNCHANGED <<now, platform, account, profile, remote, queue, made>>,
         secret' \in [Credentials -> Seq(Grants)], lost' \in BOOLEAN, ~account.mock,
         Meta => secret'[User] # <<>>,
         ~Meta => Len(secret'[User]) \in Nat /\ Len(secret[User]) <= Len(secret'[User]),
         secret[User] # <<>> => secret'[User] # <<>>,
         Knows(a)', ~Meta => Tokens'
  PROVE  IInv'
<1>1. /\ local' \in [Actors -> Local] /\ \A b \in Actors \ {a} : local'[b] = local[b]
  BY GoFacts DEF IInv
<1>2. TypeOK'
  BY <1>1 DEF IInv, TypeOK, remote, queue
<1>3. \A b \in Actors \ {a} : Knows(b)'
  BY <1>1, KnowsKept
<1>4. Profiles' /\ Secrets'
  BY DEF IInv, Profiles, Secrets, Meta, Exists
<1>5. (~Meta => Tokens)'
  BY DEF Meta
<1> QED BY <1>2, <1>3, <1>4, <1>5 DEF IInv

LEMMA StoreTokenInv ==
  ASSUME IInv, NEW a \in Actors, StoreToken(a)
  PROVE  IInv'
<1> DEFINE l == local[a]
           new == AfterMetaSecret(a)
<1>1. /\ At(a, "storeToken") /\ Go(a, new) /\ secret' = [secret EXCEPT ![l.cred] = <<l.token>>]
      /\ UNCHANGED <<now, platform, account, profile, remote, lost, queue, made>>
  BY DEF StoreToken
<1>2. /\ Meta /\ ~account.mock /\ l.token \in Grants /\ l.cred \in Credentials /\ l.todo \in Seq(Targets)
      /\ l.cred # User => secret[User] # <<>>
      /\ l \in Local /\ lost \in BOOLEAN /\ User \in Credentials
  BY <1>1, LocalFields, Types DEF IInv, TypeOK, Knows, At, OfMeta
<1>3. /\ secret' \in [Credentials -> Seq(Grants)] /\ secret'[User] # <<>>
  <2>1. <<l.token>> \in Seq(Grants) /\ <<l.token>> # <<>>
    BY <1>2
  <2>2. secret \in [Credentials -> Seq(Grants)]
    BY Types DEF IInv
  <2> QED BY <1>1, <1>2, <2>1, <2>2
<1>4. /\ new \in Local
      /\ \/ a = Worker /\ new.pc = "pages" /\ new.token = l.token
         \/ new.pc = "storeToken" /\ new.token = l.token
         \/ new.pc = "profile" /\ new.token = l.token /\ new.todo # <<>>
         \/ new.pc \in {"idle", "activate", "findDefault"}
  <2>1. CASE a = Worker /\ l.cred = User
    <3> DEFINE n == [l EXCEPT !.pc = "pages"]
    <3>1. "pages" \in PC
      BY DEF PC
    <3>2. n \in Local /\ n.pc = "pages" /\ n.token = l.token
      BY <1>2, <3>1 DEF Local
    <3> QED BY <2>1, <3>2 DEF AfterMetaSecret
  <2>2. CASE a = Worker /\ l.cred # User /\ l.todo # <<>>
    <3> DEFINE n == [l EXCEPT !.cred = Head(l.todo), !.todo = Tail(l.todo)]
    <3>1. Head(l.todo) \in Credentials /\ Tail(l.todo) \in Seq(Targets)
      BY <1>2, <2>2 DEF Credentials
    <3>2. n \in Local /\ n.pc = "storeToken" /\ n.token = l.token
      BY <1>1, <1>2, <3>1 DEF Local, At
    <3> QED BY <2>2, <3>2 DEF AfterMetaSecret
  <2>3. CASE a # Worker /\ l.todo # <<>>
    <3> DEFINE n == [l EXCEPT !.pc = "profile", !.cred = User]
    <3>1. "profile" \in PC
      BY DEF PC
    <3>2. n \in Local /\ n.pc = "profile" /\ n.token = l.token /\ n.todo = l.todo
      BY <1>2, <3>1 DEF Local
    <3>3. new = n
      BY <2>3 DEF AfterMetaSecret
    <3> QED BY <2>3, <3>2, <3>3
  <2>4. CASE a # Worker /\ l.cred = User /\ l.todo = <<>> /\ platform = "INSTAGRAM"
    BY <2>4, IdleLocal DEF AfterMetaSecret
  <2>5. CASE ~(\/ a = Worker /\ (l.cred = User \/ l.todo # <<>>)
               \/ a # Worker /\ (l.todo # <<>> \/ (l.cred = User /\ platform = "INSTAGRAM")))
    <3>1. new = Only(a, IF a = Worker THEN "activate" ELSE "findDefault")
      BY <2>5 DEF AfterMetaSecret
    <3>2. "activate" \in PC /\ "findDefault" \in PC
      BY DEF PC
    <3> QED BY <3>1, <3>2, OnlyLocal DEF IInv
  <2> QED BY <2>1, <2>2, <2>3, <2>4, <2>5
<1> HIDE DEF new, l
<1>5. local'[a] = new
  BY <1>1, <1>4, GoFacts DEF IInv
<1>6. Knows(a)'
  BY <1>1, <1>2, <1>3, <1>4, <1>5 DEF Knows, At, Meta, OfTikTok
<1> QED BY <1>1, <1>2, <1>3, <1>4, <1>6, SecretInv

(* What the write leaves in the user's rows. *)
LEMMA WriteFacts ==
  ASSUME TypeOK, NEW token \in Grants, NEW row \in 0 .. Len(secret[User]),
         secret' = [secret EXCEPT ![User] =
           IF row = 0 THEN Append(@, token) ELSE [@ EXCEPT ![row] = token]]
  PROVE  /\ secret' \in [Credentials -> Seq(Grants)]
         /\ Len(secret[User]) \in Nat /\ Len(secret'[User]) \in Nat /\ secret'[User] # <<>>
         /\ Len(secret[User]) <= Len(secret'[User])
         /\ \A i \in Rows' : secret'[User][i] = token \/ (i \in Rows /\ secret'[User][i] = secret[User][i])
         /\ row \in {0, Len(secret[User])} => Newest(User)' = token
         /\ row \notin {0, Len(secret[User])} =>
              Newest(User)' = Newest(User) /\ Len(secret'[User]) = Len(secret[User])
<1> DEFINE old == secret[User]
           new == secret'[User]
<1>1. secret \in [Credentials -> Seq(Grants)] /\ User \in Credentials /\ old \in Seq(Grants)
  BY Types
<1>2. new = IF row = 0 THEN Append(old, token) ELSE [old EXCEPT ![row] = token]
  BY <1>1
<1>3. CASE row = 0
  <2>1. /\ new \in Seq(Grants) /\ Len(new) = Len(old) + 1 /\ new[Len(old) + 1] = token
        /\ \A i \in 1 .. Len(old) : new[i] = old[i]
    BY <1>1, <1>2, <1>3, AppendProperties
  <2>2. new # <<>> /\ Len(old) \in Nat
    BY <1>1, <2>1
  <2> HIDE DEF new, old
  <2>3. Newest(User)' = token
    BY <2>1, <2>2 DEF Newest, new
  <2>4. \A i \in 1 .. Len(new) : new[i] = token \/ (i \in 1 .. Len(old) /\ new[i] = old[i])
    BY <2>1, <2>2
  <2> QED BY <1>1, <1>3, <2>1, <2>2, <2>3, <2>4 DEF Rows, new, old
<1>4. CASE row # 0
  <2>1. row \in 1 .. Len(old)
    BY <1>1, <1>4
  <2>2. /\ new \in Seq(Grants) /\ Len(new) = Len(old)
        /\ \A i \in 1 .. Len(new) : new[i] = IF i = row THEN token ELSE old[i]
    BY <1>1, <1>2, <1>4, <2>1, ExceptSeq
  <2>3. new # <<>> /\ old # <<>> /\ Len(old) \in 1 .. Len(old)
    BY <1>1, <2>1, <2>2
  <2> HIDE DEF new, old
  <2>4. Newest(User)' = new[Len(new)] /\ Newest(User) = old[Len(old)]
    BY <2>3 DEF Newest, new, old
  <2> QED BY <1>1, <1>4, <2>1, <2>2, <2>3, <2>4 DEF Rows, new, old
<1> QED BY <1>3, <1>4

LEMMA WriteSecretInv ==
  ASSUME IInv, NEW a \in Actors, WriteSecret(a)
  PROVE  IInv'
<1> DEFINE row == local[a].row
           token == local[a].token
           new == IF a = Worker THEN Only(a, "activate") ELSE Idle
<1>1. /\ At(a, "writeSecret") /\ Go(a, new)
      /\ secret' = [secret EXCEPT ![User] =
           IF row = 0 THEN Append(@, token) ELSE [@ EXCEPT ![row] = token]]
      /\ lost' = (lost /\ row \notin {0, Len(secret[User])})
      /\ UNCHANGED <<now, platform, account, profile, remote, queue, made>>
  BY DEF WriteSecret
<1>2. /\ ~Meta /\ ~account.mock /\ token \in Grants /\ row \in 0 .. Len(secret[User]) /\ TypeOK
      /\ Held(a) /\ lost \in BOOLEAN /\ Tokens
  BY <1>1, Types DEF IInv, TypeOK, Knows, At, OfTikTok, Held
<1>3. new \in Local /\ new.pc \in {"idle", "activate"}
  BY IdleLocal, OnlyLocal DEF IInv, PC
<1> HIDE DEF new, token, row
<1>4. /\ local'[a] = new /\ \A b \in Actors \ {a} : local'[b] = local[b]
  BY <1>1, <1>3, GoFacts DEF IInv
<1>5. Knows(a)'
  BY <1>1, <1>3, <1>4 DEF Knows, At, OfMeta, OfTikTok
<1>6. /\ secret' \in [Credentials -> Seq(Grants)]
      /\ Len(secret[User]) \in Nat /\ Len(secret'[User]) \in Nat /\ secret'[User] # <<>>
      /\ Len(secret[User]) <= Len(secret'[User])
      /\ \A i \in Rows' : secret'[User][i] = token \/ (i \in Rows /\ secret'[User][i] = secret[User][i])
      /\ row \in {0, Len(secret[User])} => Newest(User)' = token
      /\ row \notin {0, Len(secret[User])} =>
           Newest(User)' = Newest(User) /\ Len(secret'[User]) = Len(secret[User])
  BY <1>1, <1>2, WriteFacts
<1>7. /\ granted' = granted /\ usable' = usable
      /\ Actors = {Worker} \cup Requests /\ Worker \notin Requests
  BY <1>1, Types DEF IInv, remote, Actors
<1>8. \A b \in Actors : Held(b)' => b # a /\ Held(b) /\ local'[b] = local[b]
  BY <1>3, <1>4 DEF Held, At
<1>9. token <= granted /\ token \in usable
  BY <1>1, <1>2, <1>7 DEF Tokens, token
<1>10. \A i \in Rows' : secret'[User][i] <= granted'
  BY <1>2, <1>6, <1>7, <1>9 DEF Tokens
<1>11. /\ \A b \in Actors : Held(b)' => local'[b].token <= granted'
       /\ \A b, c \in Actors : b # c /\ Held(b)' /\ Held(c)' => local'[b].token # local'[c].token
  BY <1>2, <1>7, <1>8 DEF Tokens
<1>12. \A r \in Requests : Held(r)' =>
         local'[r].token \in usable' /\ \A i \in Rows' : secret'[User][i] # local'[r].token
  <2> SUFFICES ASSUME NEW r \in Requests, Held(r)'
               PROVE  local[r].token \in usable /\ \A i \in Rows' : secret'[User][i] # local[r].token
    BY <1>7, <1>8
  <2>1. Held(r) /\ r # a /\ r \in Actors
    BY <1>7, <1>8
  <2>2. token # local[r].token
    BY <1>2, <2>1 DEF Tokens, token
  <2> QED BY <1>2, <1>6, <2>1, <2>2 DEF Tokens
<1>13. At(Worker, "findSecret")' \/ At(Worker, "writeSecret")' => local'[Worker].token \in usable'
  BY <1>2, <1>3, <1>4, <1>7 DEF Tokens, At
<1>14. Newest(User)' # 0 /\ ~Excused' => Newest(User)' \in usable'
  <2>1. CASE row \in {0, Len(secret[User])}
    BY <1>6, <1>7, <1>9, <2>1
  <2>2. CASE row \notin {0, Len(secret[User])}
    <3>1. Excused => Excused'
      <4>1. lost' = lost /\ Len(secret'[User]) = Len(secret[User])
        BY <1>1, <1>2, <1>6, <2>2
      <4>2. CASE a = Worker
        BY <1>1, <2>2, <4>1, <4>2 DEF Excused, At, row
      <4>3. CASE a # Worker
        BY <1>4, <1>7, <4>1, <4>3 DEF Excused, At
      <4> QED BY <4>2, <4>3
    <3> QED BY <1>2, <1>6, <1>7, <2>2, <3>1 DEF Tokens
  <2> QED BY <2>1, <2>2
<1>15. Tokens'
  BY <1>10, <1>11, <1>12, <1>13, <1>14 DEF Tokens
<1> QED BY <1>1, <1>2, <1>3, <1>5, <1>6, <1>15, SecretInv

-----------------------------------------------------------------------------
LEMMA NextInv ==
  ASSUME IInv, [Next]_vars
  PROVE  IInv'
<1>1. ASSUME NEW r \in Requests, Call(r) \/ Continue(r) \/ RequestFails(r)
      PROVE  IInv'
  <2>1. r \in Actors
    BY Types DEF IInv
  <2>2. CASE Call(r)
    BY <2>2, CallsInv, ConnectMockInv DEF Call
  <2>3. CASE Continue(r)
    BY <2>1, <2>3, CallbackInv, SaveAccountInv, SaveOwnProfileInv, SaveProfileInv, StoreTokenInv,
       FindSecretInv, WriteSecretInv, FindDefaultInv, FindFirstInv, MarkDefaultInv, ReadTokenInv,
       EndsInv DEF Continue
  <2>4. CASE RequestFails(r)
    BY <2>4, RequestFailsInv
  <2> QED BY <1>1, <2>2, <2>3, <2>4
<1>2. CASE WorkerStep
  <2>1. Worker \in Actors
    BY Types DEF IInv
  <2> QED BY <1>2, <2>1, TakeEntryInv, ExchangeMetaInv, RotateInv, RefreshAccessInv, StoreTokenInv,
             FindSecretInv, WriteSecretInv, FetchPagesInv, EndsInv DEF WorkerStep
<1> QED BY <1>1, <1>2, QueueStepsInv, EndsInv DEF Next

LEMMA InitInv ==
  ASSUME Init
  PROVE  IInv
<1>1. /\ Own \in Targets /\ User \in Credentials /\ Targets \subseteq Credentials /\ 1 \in Grants
      /\ MaxTime \in Nat \ {0} /\ Life \in Nat /\ MaxRequests \in Nat /\ MaxGrants \in Nat \ {0}
  BY AccountsAssumption DEF Credentials, Grants
<1>2. entry \in [{Id} -> Entry]
  <2>1. Absent \in Entry
    BY DEF Absent, Entry, EntryState
  <2> QED BY <2>1 DEF Init
<1>3. local = [a \in Actors |-> Idle] /\ local \in [Actors -> Local]
  BY IdleLocal DEF Init
<1>4. \A a \in Actors : local[a].pc = "idle"
  BY <1>3, IdleLocal
<1>5. account \in AccountRow
  <2>1. CASE Connected
    <3> DEFINE expiry == 1 + Life
    <3>1. expiry \in Nat
      BY <1>1
    <3>2. account = [status |-> "ACTIVE", expiresAt |-> expiry, mock |-> FALSE]
      BY <2>1 DEF Connected
    <3> HIDE DEF expiry
    <3> QED BY <3>1, <3>2 DEF AccountRow
  <2>2. CASE NotConnected
    BY <2>2 DEF NotConnected, AccountRow
  <2> QED BY <2>1, <2>2 DEF Init
<1>6. profile \in [Targets -> ProfileRow] /\ Profiles
  <2>1. CASE Connected
    <3>1. account.mock = FALSE
      BY <2>1 DEF Connected
    <3> QED BY <2>1, <3>1 DEF Connected, Profiles, ProfileRow, NoProfile
  <2>2. CASE NotConnected
    BY <2>2 DEF NotConnected, Profiles, ProfileRow, NoProfile
  <2> QED BY <2>1, <2>2 DEF Init
<1>7. secret \in [Credentials -> Seq(Grants)] /\ granted \in 0 .. MaxGrants /\ usable \subseteq Grants
  <2>1. <<>> \in Seq(Grants) /\ <<1>> \in Seq(Grants)
    BY <1>1
  <2>2. CASE Connected
    <3> DEFINE some == <<1>>
               none == <<>>
    <3>1. secret = [c \in Credentials |->
            IF c = User \/ (c = Own /\ platform # "TIKTOK") THEN some ELSE none]
      BY <2>2 DEF Connected
    <3>2. some \in Seq(Grants) /\ none \in Seq(Grants)
      BY <2>1
    <3>3. secret \in [Credentials -> Seq(Grants)]
      <4> HIDE DEF some, none
      <4> QED BY <3>1, <3>2
    <3> QED BY <1>1, <2>2, <3>3 DEF Connected
  <2>3. CASE NotConnected
    BY <1>1, <2>1, <2>3 DEF NotConnected
  <2> QED BY <2>2, <2>3 DEF Init
<1>8. Secrets
  <2>1. CASE Connected
    <3>1. account.mock = FALSE /\ secret[User] = <<1>>
      BY <1>1, <2>1 DEF Connected
    <3> QED BY <3>1 DEF Secrets
  <2>2. CASE NotConnected
    <3>1. (\A c \in Credentials : secret[c] = <<>>) /\ \A t \in Targets : profile[t].born = 0
      BY <2>2 DEF NotConnected, NoProfile
    <3> QED BY <3>1 DEF Secrets
  <2> QED BY <2>1, <2>2 DEF Init
<1>9. TypeOK
  <2>1. now = 1 /\ platform \in Kinds /\ lost = FALSE /\ swept = FALSE /\ made = 0
    BY DEF Init
  <2>2. now \in 1 .. MaxTime /\ made \in 0 .. MaxRequests
    BY <1>1, <2>1
  <2>3. lost \in BOOLEAN /\ swept \in BOOLEAN
    BY <2>1
  <2> QED BY <1>2, <1>3, <1>5, <1>6, <1>7, <2>1, <2>2, <2>3 DEF TypeOK
<1>10. \A a \in Actors : Knows(a)
  BY <1>4 DEF Knows, At, OfMeta, OfTikTok
<1>11. ~Meta => Tokens
  <2>1. \A a \in Actors : ~Held(a)
    BY <1>4 DEF Held, At
  <2>2. Worker \in Actors /\ Requests \subseteq Actors
    BY <1>9, Types
  <2>3. (\A i \in Rows : secret[User][i] <= granted) /\ (Newest(User) # 0 => Newest(User) \in usable)
    BY <1>1 DEF Init, Connected, NotConnected, Rows, Newest
  <2> QED BY <1>4, <2>1, <2>2, <2>3 DEF Tokens, At
<1> QED BY <1>6, <1>8, <1>9, <1>10, <1>11 DEF IInv

-----------------------------------------------------------------------------
(* The invariant holds of every behaviour. *)
THEOREM Invariance == Spec => []IInv
<1>1. Init => IInv
  BY InitInv
<1>2. IInv /\ [Next]_vars => IInv'
  BY NextInv
<1> QED BY <1>1, <1>2, PTL DEF Spec

(* Rows, queue entry and locals always have their types. *)
THEOREM TypeCorrect == Spec => []TypeOK
<1>1. IInv => TypeOK
  BY DEF IInv
<1> QED BY <1>1, Invariance, PTL

(* Overlapping callbacks and refreshes never make two profiles the         *)
(* default: the only candidate is the one whose row is the oldest.         *)
THEOREM SingleDefault == Spec => []OneDefault
<1>1. IInv => OneDefault
  <2> SUFFICES ASSUME IInv PROVE Cardinality(DefaultProfiles) <= 1
    BY DEF OneDefault
  <2>1. CASE DefaultProfiles = {}
    BY <2>1, FS_EmptySet
  <2>2. CASE DefaultProfiles # {}
    <3>1. PICK t \in DefaultProfiles : TRUE
      BY <2>2
    <3>2. DefaultProfiles = {t}
      <4>1. \A u \in DefaultProfiles : u \in Targets /\ profile[u].born = 1
        BY DEF IInv, Profiles, DefaultProfiles
      <4>2. \A u \in DefaultProfiles : u = t
        BY <3>1, <4>1 DEF IInv, Profiles
      <4> QED BY <3>1, <4>2
    <3>3. Cardinality({t}) = 1
      BY FS_Singleton
    <3> QED BY <3>2, <3>3
  <2> QED BY <2>1, <2>2
<1> QED BY <1>1, Invariance, PTL

(* A page or Instagram target always has a token to publish with, wherever *)
(* the callback that stored it stops.                                      *)
THEOREM TargetsResolve == Spec => []TargetsHaveToken
<1>1. IInv => TargetsHaveToken
  BY NewestFacts, Types DEF IInv, Secrets, TargetsHaveToken, ResolveToken
<1> QED BY <1>1, Invariance, PTL

(* A Meta account that shows no failed check can publish. *)
THEOREM HealthIsTrue == Spec => []HealthyCanPublish
<1>1. IInv => HealthyCanPublish
  <2> SUFFICES ASSUME IInv, Meta, ~account.mock, Health = {}
               PROVE  \E t \in DefaultProfiles : ResolveToken(t) # 0
    BY DEF HealthyCanPublish
  <2>1. DefaultProfiles # {}
    BY DEF Health, FailedChecks
  <2>2. PICK t \in Targets : profile[t].isDefault /\ t \in DefaultProfiles
    BY <2>1 DEF DefaultProfiles
  <2>3. profile[t].born # 0
    BY <2>2 DEF IInv, Profiles
  <2>4. Newest(User) # 0
    BY <2>2, <2>3, NewestFacts, Types DEF IInv, Secrets
  <2> QED BY <2>2, <2>4 DEF ResolveToken
<1> QED BY <1>1, Invariance, PTL

(* The stored refresh token of a TikTok account is good unless a rotation  *)
(* was cut off.                                                            *)
THEOREM StoredTokenGood == Spec => []StoredTokenUsable
<1>1. IInv => StoredTokenUsable
  BY DEF IInv, StoredTokenUsable, Tokens, Excused, Unsaved
<1> QED BY <1>1, Invariance, PTL
=============================================================================

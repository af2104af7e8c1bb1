------------------------------ MODULE Accounts ------------------------------
(***************************************************************************)
(* A connected account, its targets (pages or profiles) and its tokens.    *)
(*                                                                         *)
(*   requests  ConnectionsService: startConnection and callback (Meta,     *)
(*             TikTok and mock), reconnect, disconnect, refresh;           *)
(*   sweep     enqueueDueTokenRefreshJobs;                                 *)
(*   worker    processTokenRefresh, on the queue entry of the account;     *)
(*   platform  grants tokens; TikTok may rotate the refresh token it is    *)
(*             shown.                                                      *)
(* Actor 0 is the worker, the others are API requests.  Calls that only    *)
(* ask the platform are one step with what follows from their answers; a   *)
(* call that reads or writes a row is a step of its own.                   *)
(***************************************************************************)
EXTENDS JobQueue, Sequences, FiniteSets

CONSTANTS
  Targets,      \* the pages of the user, or what stands for the profile
  Own,          \* the target that is the TikTok user itself
  User,         \* names the user's own credential
  PageLists,    \* what Meta may answer when asked for the user's pages, in its order
  Kinds,        \* the platforms the account may be on
  Operations,   \* what users call, a subset of AllOperations
  Faults,       \* the worker process may die, Postgres be away, old ids be dropped
  Lives,        \* how long a granted token may be said to be good, 0 if not said
  Life,         \* the 60 days that reconnect and the mock account give
  Lookahead,    \* REFRESH_LOOKAHEAD_MS
  MaxTime,      \* bound: the last instant
  MaxRequests,  \* bound: requests ever made
  MaxGrants     \* bound: tokens ever granted

AllOperations == {"connect", "mock", "reconnect", "disconnect", "refresh"}

ASSUME AccountsAssumption ==
  /\ IsFiniteSet(Targets) /\ Own \in Targets /\ User \notin Targets
  /\ PageLists \subseteq Seq(Targets)
  /\ Operations \subseteq AllOperations
  /\ Kinds \subseteq {"FACEBOOK", "INSTAGRAM", "TIKTOK"} /\ Faults \in BOOLEAN
  /\ Lives \subseteq Nat /\ Life \in Nat \ {0} /\ Lookahead \in Nat
  /\ MaxTime \in Nat \ {0} /\ MaxRequests \in Nat /\ MaxGrants \in Nat \ {0}

Credentials == Targets \cup {User}
Grants == 1 .. MaxGrants
Worker == 0
Requests == 1 .. MaxRequests   \* in the order in which they are made
Actors == {Worker} \cup Requests
Id == "token_refresh"          \* token_refresh_<account>

VARIABLES
  now,       \* the current instant
  platform,  \* the platform of the account
  account,   \* the ConnectedAccount row
  profile,   \* its ConnectedPageOrProfile rows
  secret,    \* the TokenSecret rows of its credentials, oldest first
  granted,   \* tokens TikTok has granted so far; token n is the nth
  usable,    \* refresh tokens that the platform accepts
  lost,      \* history: a rotated refresh token was never stored
  entry,     \* the entry of the account in the token refresh queue
  swept,     \* the sweep has found the account due and is about to add
  local,     \* the locals of the actors
  made       \* requests made so far

vars == <<now, platform, account, profile, secret, granted, usable, lost, entry,
          swept, local, made>>

rows == <<account, profile, secret>>
remote == <<granted, usable>>
queue == <<entry, swept>>

-----------------------------------------------------------------------------
(* Types and initial states. *)

(* expiresAt is tokenExpiresAt, 0 if the platform named none.  A mock      *)
(* account has a random remote id, so that no login leads to it.           *)
AccountRow == [status : {"NONE", "ACTIVE", "EXPIRED", "REVOKED"}, expiresAt : Nat,
               mock : BOOLEAN]

(* born is the rank of createdAt, 0 while there is no row. *)
ProfileRow == [born : Nat, isDefault : BOOLEAN]

PC == {"idle", "consent", "account", "profile", "storeToken", "findSecret",
       "writeSecret", "findDefault", "findFirst", "markDefault", "readToken",
       "activate", "exchange", "pages", "expire"}

(* token is the grant in hand; until the exp of the signed state; todo the *)
(* pages still to store; cred the credential in hand, row the index of its *)
(* newest secret; first the profile to become the default.                 *)
Local == [op : AllOperations \cup {"none", "sweep"}, pc : PC, token : 0 .. MaxGrants,
          until : Nat, todo : Seq(Targets), cred : Credentials, row : Nat, first : Targets]

TypeOK ==
  /\ now \in 1 .. MaxTime
  /\ platform \in Kinds
  /\ account \in AccountRow
  /\ profile \in [Targets -> ProfileRow]
  /\ secret \in [Credentials -> Seq(Grants)]
  /\ granted \in 0 .. MaxGrants
  /\ usable \subseteq Grants
  /\ lost \in BOOLEAN
  /\ entry \in [{Id} -> Entry]
  /\ swept \in BOOLEAN
  /\ local \in [Actors -> Local]
  /\ made \in 0 .. MaxRequests

NoProfile == [born |-> 0, isDefault |-> FALSE]

Idle == [op |-> "none", pc |-> "idle", token |-> 0, until |-> 0, todo |-> <<>>,
         cred |-> User, row |-> 0, first |-> Own]

(* The account may have been connected before, with one target. *)
Connected ==
  /\ account = [status |-> "ACTIVE", expiresAt |-> 1 + Life, mock |-> FALSE]
  /\ profile = [t \in Targets |-> IF t = Own
                  THEN [born |-> 1, isDefault |-> TRUE] ELSE NoProfile]
  /\ secret = [c \in Credentials |->
       IF c = User \/ (c = Own /\ platform # "TIKTOK") THEN <<1>> ELSE <<>>]
  /\ granted = 1
  /\ usable = {1}

NotConnected ==
  /\ \E mock \in BOOLEAN : account = [status |-> "NONE", expiresAt |-> 0, mock |-> mock]
  /\ profile = [t \in Targets |-> NoProfile]
  /\ secret = [c \in Credentials |-> <<>>]
  /\ granted = 0
  /\ usable = {}

Init ==
  /\ now = 1 /\ platform \in Kinds
  /\ Connected \/ NotConnected
  /\ lost = FALSE
  /\ entry = [e \in {Id} |-> Absent] /\ swept = FALSE
  /\ local = [a \in Actors |-> Idle] /\ made = 0

-----------------------------------------------------------------------------
(* Helpers. *)

At(a, pc) == local[a].pc = pc
Go(a, new) == local' = [local EXCEPT ![a] = new]
Finish(a) == Go(a, Idle)

(* The operation of a goes on at pc and needs none of its locals any more. *)
Only(a, pc) == [Idle EXCEPT !.op = local[a].op, !.pc = pc]

(* A user calls op, which goes on with new. *)
Begin(r, op, new) ==
  /\ op \in Operations
  /\ r = made + 1 /\ made' = r
  /\ Go(r, new)

Exists == account.status # "NONE"
Meta == platform # "TIKTOK"

(* tokenSecrets ordered by createdAt, newest first, take 1; 0 if none. *)
Newest(c) == IF secret[c] = <<>> THEN 0 ELSE secret[c][Len(secret[c])]

(* The platform says how long a token is good; counted from here on. *)
Expiries == {IF life = 0 THEN 0 ELSE now + life : life \in Lives}

(* TikTok grants one more token, and accepts the refresh tokens of some    *)
(* older ones.                                                             *)
Grant(accepted) ==
  /\ granted < MaxGrants
  /\ granted' = granted + 1
  /\ usable' = accepted \cup {granted + 1}

(* The token of a login.  Those of Meta stay good until they expire and    *)
(* need not be told apart.                                                 *)
Login(token) ==
  \/ Meta /\ token = 1 /\ UNCHANGED remote
  \/ ~Meta /\ token = granted + 1 /\ Grant(usable)

(* The user token of a TikTok account was rotated and is not yet stored. *)
Unsaved ==
  ~Meta /\ (At(Worker, "findSecret") \/ At(Worker, "writeSecret"))

-----------------------------------------------------------------------------
(* Connecting *)

(* startConnection signs a state that is good for ten minutes. *)
StartConnection(r) ==
  /\ ~account.mock
  /\ Begin(r, "connect", [Idle EXCEPT !.op = "connect", !.pc = "consent", !.until = now + 1])
  /\ UNCHANGED <<now, platform, rows, remote, lost, queue>>

(* verifyConnectionState: it is the state of this login, and in time. *)
StateAccepted(r) == now <= local[r].until

(* callback, before it hands over to the platform's part: no error, a state *)
(* that holds, and a code.                                                 *)
Consented(r) == At(r, "consent") /\ StateAccepted(r)

(* The code is exchanged, and the account and its pages are read. *)
Callback(r) ==
  /\ Consented(r)
  /\ \E token \in Grants, pages \in IF Meta THEN PageLists ELSE {<<Own>>} :
       /\ Login(token)
       /\ Go(r, [Only(r, "account") EXCEPT !.token = token, !.todo = pages])
  /\ UNCHANGED <<now, platform, rows, lost, queue, made>>

SaveRow(r, new) ==
  /\ At(r, "account")
  /\ \E expiry \in Expiries :
       account' = [status |-> "ACTIVE", expiresAt |-> expiry, mock |-> FALSE]
  /\ Go(r, new)
  /\ UNCHANGED <<now, platform, profile, secret, remote, lost, queue, made>>

(* Seeded slip: the user's own token is not stored. *)
SaveAccountOnly(r) ==
  /\ Meta
  /\ SaveRow(r, [local[r] EXCEPT !.pc = IF local[r].todo = <<>> THEN "findDefault" ELSE "profile"])

(* The account is ACTIVE from here on; the user's token is stored next.    *)
SaveAccount(r) ==
  /\ Meta
  /\ SaveRow(r, [local[r] EXCEPT !.pc = "storeToken", !.cred = User])

(* TikTok: the profile comes before the token. *)
SaveTikTokAccount(r) ==
  /\ ~Meta
  /\ SaveRow(r, [local[r] EXCEPT !.pc = "profile", !.cred = User])

Born == Cardinality({t \in Targets : profile[t].born # 0})

(* connectedPageOrProfile.upsert: only a new row gets isDefault. *)
Upsert(t, isDefault) ==
  IF profile[t].born # 0 THEN UNCHANGED profile
  ELSE profile' = [profile EXCEPT ![t] = [born |-> Born + 1, isDefault |-> isDefault]]

(* syncMetaTargets: a page; its token is stored next. *)
SaveProfile(r, t) ==
  /\ At(r, "profile") /\ Meta /\ t = Head(local[r].todo)
  /\ Upsert(t, FALSE)
  /\ Go(r, [local[r] EXCEPT !.todo = Tail(@), !.pc = "storeToken", !.cred = t])
  /\ UNCHANGED <<now, platform, account, secret, remote, lost, queue, made>>

(* TikTok: the only profile is the default. *)
SaveOwnProfile(r) ==
  /\ At(r, "profile") /\ ~Meta
  /\ Upsert(Own, TRUE)
  /\ Go(r, [local[r] EXCEPT !.todo = <<>>, !.pc = "findSecret"])
  /\ UNCHANGED <<now, platform, account, secret, remote, lost, queue, made>>

(* A mock account gets its row and its default profile in one create, and  *)
(* no token.                                                               *)
ConnectMock(r) ==
  /\ account.mock /\ ~Exists
  /\ Begin(r, "mock", Idle)
  /\ account' = [status |-> "ACTIVE", expiresAt |-> now + Life, mock |-> TRUE]
  /\ profile' = [profile EXCEPT ![Own] = [born |-> 1, isDefault |-> TRUE]]
  /\ UNCHANGED <<now, platform, secret, remote, lost, queue>>

-----------------------------------------------------------------------------
(* Storing a token: upsertCredentialSecret, and the worker's               *)
(* upsertEncryptedSecret, which does the same.                             *)

(* Meta: from the user's token to the pages, from page to page, and to     *)
(* what follows.  syncMetaTargets throws if no page has an Instagram       *)
(* account; the worker goes from page to page without a profile to store.  *)
AfterMetaSecret(a) ==
  LET l == local[a]
  IN  CASE a = Worker /\ l.cred = User -> [l EXCEPT !.pc = "pages"]
        [] a = Worker /\ l.cred # User /\ l.todo # <<>> ->
             [l EXCEPT !.cred = Head(l.todo), !.todo = Tail(l.todo)]
        [] a # Worker /\ l.todo # <<>> -> [l EXCEPT !.pc = "profile", !.cred = User]
        [] a # Worker /\ l.cred = User /\ l.todo = <<>> /\ platform = "INSTAGRAM" -> Idle
        [] OTHER -> Only(a, IF a = Worker THEN "activate" ELSE "findDefault")

(* The tokens of Meta are all alike, and so are a row overwritten and one  *)
(* more row.                                                               *)
StoreToken(a) ==
  /\ At(a, "storeToken")
  /\ secret' = [secret EXCEPT ![local[a].cred] = <<local[a].token>>]
  /\ Go(a, AfterMetaSecret(a))
  /\ UNCHANGED <<now, platform, account, profile, remote, lost, queue, made>>

(* TikTok: tokenSecret.findFirst, after the upsert of the credential. *)
FindSecret(a) ==
  /\ At(a, "findSecret")
  /\ Go(a, [local[a] EXCEPT !.pc = "writeSecret", !.row = Len(secret[User])])
  /\ UNCHANGED <<now, platform, rows, remote, lost, queue, made>>

(* The row that was found is overwritten, or a new one is created. *)
WriteSecret(a) ==
  /\ At(a, "writeSecret")
  /\ LET row == local[a].row
     IN  /\ secret' = [secret EXCEPT ![User] =
              IF row = 0 THEN Append(@, local[a].token) ELSE [@ EXCEPT ![row] = local[a].token]]
         /\ lost' = (lost /\ row \notin {0, Len(secret[User])})
  /\ Go(a, IF a = Worker THEN Only(a, "activate") ELSE Idle)
  /\ UNCHANGED <<now, platform, account, profile, remote, queue, made>>

-----------------------------------------------------------------------------
(* ensureDefaultProfile *)

(* connect ends here, but for the audit log; refresh goes on. *)
AfterDefault(r) ==
  IF local[r].op = "connect" THEN Idle ELSE Only(r, "activate")

FindDefault(r) ==
  /\ At(r, "findDefault")
  /\ Go(r, IF \E t \in Targets : profile[t].isDefault THEN AfterDefault(r)
           ELSE [local[r] EXCEPT !.pc = "findFirst"])
  /\ UNCHANGED <<now, platform, rows, remote, lost, queue, made>>

(* Seeded slip: any profile will do. *)
FindAny(r) ==
  /\ At(r, "findFirst")
  /\ \/ /\ Born = 0
        /\ Go(r, AfterDefault(r))
     \/ \E t \in Targets :
          /\ profile[t].born # 0
          /\ Go(r, [local[r] EXCEPT !.pc = "markDefault", !.first = t])
  /\ UNCHANGED <<now, platform, rows, remote, lost, queue, made>>

(* orderBy createdAt asc *)
FindFirst(r) ==
  /\ At(r, "findFirst")
  /\ \/ /\ Born = 0
        /\ Go(r, AfterDefault(r))
     \/ \E t \in Targets :
          /\ profile[t].born = 1
          /\ Go(r, [local[r] EXCEPT !.pc = "markDefault", !.first = t])
  /\ UNCHANGED <<now, platform, rows, remote, lost, queue, made>>

MarkDefault(r) ==
  /\ At(r, "markDefault")
  /\ profile' = [profile EXCEPT ![local[r].first].isDefault = TRUE]
  /\ Go(r, AfterDefault(r))
  /\ UNCHANGED <<now, platform, account, secret, remote, lost, queue, made>>

-----------------------------------------------------------------------------
(* reconnect, disconnect and refresh *)

(* Seeded slip: the days are taken off instead of added. *)
ReconnectBackwards(r) ==
  /\ Exists
  /\ Begin(r, "reconnect", Idle)
  /\ account' = [account EXCEPT !.status = "ACTIVE", !.expiresAt = now - 2 * Life]
  /\ UNCHANGED <<now, platform, profile, secret, remote, lost, queue>>

(* No token is refreshed: the row alone says so. *)
Reconnect(r) ==
  /\ Exists
  /\ Begin(r, "reconnect", Idle)
  /\ account' = [account EXCEPT !.status = "ACTIVE", !.expiresAt = now + Life]
  /\ UNCHANGED <<now, platform, profile, secret, remote, lost, queue>>

Disconnect(r) ==
  /\ Exists
  /\ Begin(r, "disconnect", Idle)
  /\ account' = [account EXCEPT !.status = "REVOKED"]
  /\ UNCHANGED <<now, platform, profile, secret, remote, lost, queue>>

(* For TikTok only lastMetadataSyncAt is written before the account. *)
Refresh(r) ==
  /\ Exists
  /\ Begin(r, "refresh", [Idle EXCEPT !.op = "refresh",
                                      !.pc = IF Meta THEN "readToken" ELSE "activate"])
  /\ UNCHANGED <<now, platform, rows, remote, lost, queue>>

(* The newest user token is read and the pages are fetched with it. *)
ReadToken(r) ==
  /\ At(r, "readToken") /\ Newest(User) # 0
  /\ \E pages \in PageLists :
       /\ platform = "INSTAGRAM" => pages # <<>>
       /\ Go(r, IF pages = <<>> THEN Only(r, "findDefault")
                ELSE [local[r] EXCEPT !.token = Newest(User), !.todo = pages, !.pc = "profile"])
  /\ UNCHANGED <<now, platform, rows, remote, lost, queue, made>>

(* ACTIVE, whatever the status has become meanwhile. *)
Activate(r) ==
  /\ r # Worker /\ At(r, "activate")
  /\ account' = [account EXCEPT !.status = "ACTIVE"]
  /\ Finish(r)
  /\ UNCHANGED <<now, platform, profile, secret, remote, lost, queue, made>>

(* The user refuses, a call fails, a check throws, or the API process dies. *)
RequestFails(r) ==
  /\ ~At(r, "idle")
  /\ Finish(r)
  /\ UNCHANGED <<now, platform, rows, remote, lost, queue, made>>

-----------------------------------------------------------------------------
(* The sweep *)

Due ==
  /\ account.status = "ACTIVE"
  /\ account.expiresAt # 0 /\ account.expiresAt <= now + Lookahead

(* Seeded slip: only tokens that are still good are looked for. *)
SweepFindGood ==
  /\ ~swept /\ Due /\ account.expiresAt > now
  /\ swept' = TRUE
  /\ UNCHANGED <<now, platform, rows, remote, lost, entry, local, made>>

SweepFind ==
  /\ ~swept /\ Due
  /\ swept' = TRUE
  /\ UNCHANGED <<now, platform, rows, remote, lost, entry, local, made>>

SweepAdd ==
  /\ swept
  /\ entry' = Add(entry, Id) /\ swept' = FALSE
  /\ UNCHANGED <<now, platform, rows, remote, lost, local, made>>

-----------------------------------------------------------------------------
(* The worker *)

(* The account is read with the newest secret of each credential; a run    *)
(* without a user token fails.                                             *)
TakeEntry ==
  /\ entry[Id].state = "waiting" /\ At(Worker, "idle")
  /\ entry' = Take(entry, Id)
  /\ Go(Worker, [Idle EXCEPT !.op = "sweep", !.token = Newest(User),
                             !.pc = IF Newest(User) = 0 THEN "expire" ELSE "exchange"])
  /\ UNCHANGED <<now, platform, rows, remote, lost, swept, made>>

Hold(token, pc) == Go(Worker, [local[Worker] EXCEPT !.pc = pc, !.token = token])

(* fb_exchange_token: the old token stays good. *)
ExchangeMeta ==
  /\ At(Worker, "exchange") /\ Meta
  /\ Hold(1, "storeToken")
  /\ UNCHANGED <<now, platform, rows, remote, lost, queue, made>>

(* Seeded slip: the old refresh token is stored again. *)
RotateAndKeep ==
  /\ At(Worker, "exchange") /\ ~Meta /\ local[Worker].token \in usable
  /\ Grant(usable \ {local[Worker].token}) /\ Hold(local[Worker].token, "findSecret")
  /\ UNCHANGED <<now, platform, rows, lost, queue, made>>

(* A new refresh token takes the place of the one shown. *)
Rotate ==
  /\ At(Worker, "exchange") /\ ~Meta /\ local[Worker].token \in usable
  /\ Grant(usable \ {local[Worker].token}) /\ Hold(granted + 1, "findSecret")
  /\ UNCHANGED <<now, platform, rows, lost, queue, made>>

(* refresh_token is left out of the answer: the one shown stays good. *)
RefreshAccess ==
  /\ At(Worker, "exchange") /\ ~Meta /\ local[Worker].token \in usable
  /\ Hold(local[Worker].token, "findSecret")
  /\ UNCHANGED <<now, platform, rows, remote, lost, queue, made>>

(* The platform rotates, but its answer is lost. *)
AnswerLost ==
  /\ At(Worker, "exchange") /\ ~Meta /\ local[Worker].token \in usable
  /\ Grant(usable \ {local[Worker].token})
  /\ Go(Worker, Only(Worker, "expire"))
  /\ lost' = TRUE
  /\ UNCHANGED <<now, platform, rows, queue, made>>

(* me/accounts; only pages that come with a token are stored. *)
FetchPages ==
  /\ At(Worker, "pages")
  /\ \E pages \in PageLists :
       Go(Worker, IF pages = <<>> THEN Only(Worker, "activate")
                  ELSE [local[Worker] EXCEPT !.cred = Head(pages), !.todo = Tail(pages),
                                             !.pc = "storeToken"])
  /\ UNCHANGED <<now, platform, rows, remote, lost, queue, made>>

(* ACTIVE, whatever the status has become meanwhile. *)
Refreshed ==
  /\ At(Worker, "activate")
  /\ \E expiry \in Expiries :
       account' = [account EXCEPT !.status = "ACTIVE", !.expiresAt = expiry]
  /\ entry' = Complete(entry, Id)
  /\ Finish(Worker)
  /\ UNCHANGED <<now, platform, profile, secret, remote, lost, swept, made>>

(* A call of the try block throws. *)
RunFails ==
  /\ ~At(Worker, "idle") /\ ~At(Worker, "expire")
  /\ Go(Worker, Only(Worker, "expire"))
  /\ lost' = (lost \/ Unsaved)
  /\ UNCHANGED <<now, platform, rows, remote, queue, made>>

(* Seeded slip: the catch block notes the status but does not throw on,    *)
(* and leaves an account whose token has not expired yet alone.            *)
ExpireWhenOver ==
  /\ At(Worker, "expire")
  /\ account' = [account EXCEPT !.status = IF account.expiresAt <= now THEN "EXPIRED" ELSE @]
  /\ entry' = Complete(entry, Id)
  /\ Finish(Worker)
  /\ UNCHANGED <<now, platform, profile, secret, remote, lost, swept, made>>

(* The queue is given no attempts: the entry has failed for good. *)
MarkExpired ==
  /\ At(Worker, "expire")
  /\ account' = [account EXCEPT !.status = "EXPIRED"]
  /\ entry' = Throw(entry, Id, 1)
  /\ Finish(Worker)
  /\ UNCHANGED <<now, platform, profile, secret, remote, lost, swept, made>>

(* The update of the catch block throws as well. *)
MarkExpiredFails ==
  /\ Faults /\ At(Worker, "expire")
  /\ entry' = Throw(entry, Id, 1)
  /\ Finish(Worker)
  /\ UNCHANGED <<now, platform, rows, remote, lost, swept, made>>

(* The worker process dies in the middle of a run. *)
Crash ==
  /\ Faults /\ ~At(Worker, "idle")
  /\ Finish(Worker)
  /\ lost' = (lost \/ Unsaved)
  /\ UNCHANGED <<now, platform, rows, remote, queue, made>>

StallEntry ==
  /\ entry[Id].state = "active" /\ At(Worker, "idle")
  /\ entry' = Stall(entry, Id)
  /\ UNCHANGED <<now, platform, rows, remote, lost, swept, local, made>>

(* 200 refreshes of other accounts have completed since. *)
EvictEntry ==
  /\ Faults /\ entry[Id].state = "completed"
  /\ entry' = Evict(entry, Id)
  /\ UNCHANGED <<now, platform, rows, remote, lost, swept, local, made>>

Tick ==
  /\ now < MaxTime /\ now' = now + 1
  /\ UNCHANGED <<platform, rows, remote, lost, queue, local, made>>

-----------------------------------------------------------------------------
Call(r) ==
  \/ StartConnection(r) \/ ConnectMock(r) \/ Reconnect(r) \/ Disconnect(r) \/ Refresh(r)

Continue(r) ==
  \/ Callback(r) \/ SaveAccount(r) \/ SaveTikTokAccount(r)
  \/ SaveOwnProfile(r) \/ \E t \in Targets : SaveProfile(r, t)
  \/ StoreToken(r) \/ FindSecret(r) \/ WriteSecret(r)
  \/ FindDefault(r) \/ FindFirst(r) \/ MarkDefault(r) \/ ReadToken(r) \/ Activate(r)

WorkerStep ==
  \/ TakeEntry \/ ExchangeMeta \/ Rotate \/ RefreshAccess \/ AnswerLost
  \/ StoreToken(Worker) \/ FindSecret(Worker) \/ WriteSecret(Worker) \/ FetchPages
  \/ Refreshed \/ RunFails \/ MarkExpired \/ MarkExpiredFails

Next ==
  \/ \E r \in Requests : Call(r) \/ Continue(r) \/ RequestFails(r)
  \/ SweepFind \/ SweepAdd
  \/ WorkerStep \/ Crash \/ StallEntry \/ EvictEntry
  \/ Tick

(* The sweep is on a timer, BullMQ hands entries out and looks for stalled *)
(* ones, and time goes on; users may stop, and requests may die.           *)
Spec ==
  /\ Init /\ [][Next]_vars
  /\ WF_vars(SweepFind) /\ WF_vars(SweepAdd) /\ WF_vars(WorkerStep)
  /\ WF_vars(StallEntry) /\ WF_vars(Tick)

-----------------------------------------------------------------------------
(* What the publishers read of an account. *)

(* TokenStore.resolveConnectionContext: the page's token, else the user's. *)
ResolveToken(t) == IF Meta /\ Newest(t) # 0 THEN Newest(t) ELSE Newest(User)

(* buildHealthChecks: the checks on the rows that fail (PlatformRules has  *)
(* those on capability flags).                                             *)
FailedChecks(tokenValid, status, eligible) ==
  {key \in {"token", "account_status", "target_eligibility"} :
     CASE key = "token"              -> ~tokenValid
       [] key = "account_status"     -> status # "ACTIVE"
       [] key = "target_eligibility" -> ~eligible}

DefaultProfiles == {t \in Targets : profile[t].isDefault}

(* Seeded slip: an account without a default target is taken for eligible. *)
HealthNoTarget == FailedChecks(account.expiresAt > now, account.status, TRUE)

(* health: a token whose expiry is not known is not valid. *)
Health == FailedChecks(account.expiresAt > now, account.status, DefaultProfiles # {})

-----------------------------------------------------------------------------
(* Properties. *)

(* However callbacks and refreshes overlap, each of which looks for a      *)
(* default profile and makes one in three calls, there is never a second.  *)
OneDefault == Cardinality(DefaultProfiles) <= 1

(* At whichever step a Meta callback or refresh stops, a target that can   *)
(* be chosen for a draft has a token to publish with.                      *)
TargetsHaveToken ==
  Meta /\ ~account.mock => \A t \in Targets : profile[t].born # 0 => ResolveToken(t) # 0

(* When the connection page reports no failed check of a Meta account, its *)
(* default target has a token to publish with, whatever stopped half-way   *)
(* before.                                                                 *)
HealthyCanPublish ==
  Meta /\ Exists /\ ~account.mock /\ Health = {} =>
    \E t \in DefaultProfiles : ResolveToken(t) # 0

(* The refresh token that is stored for a TikTok account is one TikTok     *)
(* still accepts, although refreshes rotate it while callbacks store       *)
(* others, unless a run was cut off between the rotation and the save.     *)
StoredTokenUsable ==
  ~Meta /\ Newest(User) # 0 /\ ~lost /\ ~Unsaved => Newest(User) \in usable

(* A rotated refresh token that was never stored is not taken for a        *)
(* refreshed account, whatever ran before or beside it: a login stores     *)
(* another token, the account leaves ACTIVE, or BullMQ keeps the entry as  *)
(* failed.                                                                 *)
LostIsNoticed ==
  lost ~> ~lost \/ account.status # "ACTIVE" \/ entry[Id].state = "failed"

(* An account that falls due while its id is free is refreshed, marked     *)
(* EXPIRED, given up by BullMQ, or changed by a user: it is not forgotten  *)
(* in the queue, whatever fails or crashes.                                *)
DueRefreshEnds ==
  Due /\ entry[Id].state = "absent"
    ~> ~Due \/ entry[Id].state \in {"completed", "failed"}

(* platform-adapters.md: "Worker-side token refresh now sweeps expiring    *)
(* Meta/TikTok credentials and refreshes stored encrypted secrets          *)
(* automatically".  An account that is due does not stay due.              *)
DueIsRefreshed == Due ~> ~Due
=============================================================================

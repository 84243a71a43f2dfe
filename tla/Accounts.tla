--------------------------------- MODULE Accounts ---------------------------------
(***************************************************************************)
(* The rows of `users` of one tenant, their sessions and API keys, and the *)
(* deletion a user may ask for: requests that load rows, check them and    *)
(* commit later, and the hourly task that anonymises the users whose       *)
(* deletion is due, a batch at a time in one transaction.                  *)
(*                                                                         *)
(* A request locks nothing when it loads.  Its commit writes the columns   *)
(* that differ from what it loaded, so it can meet a row that has been     *)
(* deactivated, changed or anonymised in the meantime.  A column that      *)
(* holds personal data is modelled by the request that wrote it.           *)
(***************************************************************************)
EXTENDS Integers, FiniteSets

CONSTANTS
  Users,      \* rows of `users`
  Requests,   \* HTTP requests, each made once; a row it inserts has its name
  Purges,     \* messages gdpr.process_due_deletions, sent every hour
  Operations, \* the operations each request may make
  First,      \* the user who registered the tenant, an administrator
  MaxFaults,  \* bound: crashes of a worker, failed transactions
  None

Personal == {"email", "full_name", "preferences", "password_hash",
             "totp_secret", "backup_codes"}
Roles    == {"admin", "viewer"}
Author   == Requests \cup {"initial", "cleared"}
Account  == [role: Roles, is_active: BOOLEAN, totp_enabled: BOOLEAN,
             email: Author, full_name: Author, preferences: Author, password_hash: Author,
             totp_secret: Author, backup_codes: Author]

AdminOps == {"create", "rename", "promote", "demote", "activate", "deactivate"}
TotpOps  == {"totp_setup", "totp_enable", "totp_disable"}
SelfOps  == {"profile", "preferences", "password", "api_key", "erase"} \cup TotpOps
GuestOps == {"login", "backup_login", "reset"}
AllOps   == AdminOps \cup SelfOps \cup GuestOps \cup {"revoke"}

ASSUME ConstantsAssumption ==
  /\ IsFiniteSet(Requests) /\ Requests \cap Purges = {} /\ Users \cap (Requests \cup Purges) = {}
  /\ First \in Users /\ None \notin Users \cup Requests \cup Account
  /\ (Requests \cup Purges) \cap {"initial", "cleared", "admin", "viewer"} = {}
  /\ Operations \in [Requests -> SUBSET AllOps]
  /\ MaxFaults \in Nat

VARIABLES
  members,   \* the users that have a row
  account,   \* the committed row of each
  sessions,  \* rows of user_sessions, named by the login that inserted them
             \* or, when it was before the behaviour, by the user
  api_keys,  \* rows of api_keys, named by the request that inserted them
  revoked,   \* those of them with a revoked_at
  deletions, \* the status of the gdpr_deletion_requests a request inserted
  due,       \* the deletions whose scheduled_for has come
  pc,        \* the step of each request and purge
  op,        \* what a request does
  actor,     \* the user who makes it
  target,    \* the user, or for revoke the owner, it is about
  seen,      \* the target's row as the request loaded it
  key,       \* the session or key it revokes
  batch,     \* the due deletions a purge has listed and not handled
  held,      \* the rows of `users` a purge has loaded
  doomed,    \* the sessions and keys it has deleted, not yet committed
  settled,   \* the deletions it has set to completed, not yet committed
  overlaps,  \* <<x, y>>: x committed to a user while y worked on a loaded copy
  faults     \* faults so far

tables   == <<members, account, sessions, api_keys, revoked, deletions>>
request  == <<op, actor, target, seen, key>>
purging  == <<batch, held, doomed, settled>>
vars     == <<tables, due, pc, request, purging, overlaps, faults>>

Nobody == [u \in Users |-> None]

Overlay(row, columns) ==
  [c \in DOMAIN row |-> IF c \in DOMAIN columns THEN columns[c] ELSE row[c]]

\* mutant: every column is written
FlushAll(current, loaded, changed) == changed
\* The unit of work: an UPDATE of the columns that differ from the loaded ones
Flush(current, loaded, changed) ==
  [c \in DOMAIN current |-> IF changed[c] # loaded[c] THEN changed[c] ELSE current[c]]

Totp   == {"off", "set_up"}

\* A row as register and create_tenant_user insert it, or with a second factor
\* set up and not enabled
NewAccount(role, totp) ==
  [c \in Personal \cup {"role", "is_active", "totp_enabled"} |->
     CASE c = "role" -> role
       [] c = "is_active" -> TRUE
       [] c = "totp_enabled" -> FALSE
       [] c \in {"totp_secret", "backup_codes"} -> IF totp = "off" THEN "cleared" ELSE "initial"
       [] OTHER -> "initial"]

\* _anonymize_user
Anonymised(row) ==
  [c \in DOMAIN row |-> IF c \in Personal THEN "cleared"
                        ELSE IF c \in {"is_active", "totp_enabled"} THEN FALSE
                        ELSE row[c]]

\* The columns an operation sets
Changes(x) ==
  CASE op[x] = "profile"      -> [full_name |-> x]
    [] op[x] = "preferences"  -> [preferences |-> x]
    [] op[x] \in {"password", "reset"} -> [password_hash |-> x]
    [] op[x] = "totp_setup"   -> [totp_secret |-> x, backup_codes |-> x, totp_enabled |-> FALSE]
    [] op[x] = "totp_enable"  -> [totp_enabled |-> TRUE]
    [] op[x] = "totp_disable" -> [totp_secret |-> "cleared", backup_codes |-> "cleared",
                                  totp_enabled |-> FALSE]
    [] op[x] = "backup_login" -> [backup_codes |-> x]
    [] op[x] = "rename"       -> [full_name |-> x]
    [] op[x] = "promote"      -> [role |-> "admin"]
    [] op[x] = "demote"       -> [role |-> "viewer"]
    [] op[x] = "activate"     -> [is_active |-> TRUE]
    [] op[x] = "deactivate"   -> [is_active |-> FALSE]

Owner(y) == IF y \in Users THEN y ELSE target[y]
Rows(u)  == {y \in sessions \cup api_keys : Owner(y) = u}

\* The transactions that work on a loaded copy of a row of users
Holders(users) ==
  {x \in Requests : pc[x] \notin {"new", "done"} /\ (actor[x] \in users \/ target[x] \in users)}
    \cup {g \in Purges : \E u \in users : held[g][u] # None}

Record(x, users) == overlaps' = overlaps \cup ({x} \X (Holders(users) \ {x}))

--------------------------------------------------------------------------------

Init ==
  /\ members \in {S \in SUBSET Users : First \in S}
  /\ \E role \in [Users -> Roles], totp \in [Users -> Totp] :
       /\ role[First] = "admin" /\ \A u \in Users \ members : totp[u] = "off"
       /\ account = [u \in Users |-> NewAccount(role[u], totp[u])]
  /\ sessions = members /\ api_keys = {} /\ revoked = {}
  /\ deletions = [x \in Requests |-> "none"] /\ due = {}
  /\ pc = [x \in Requests \cup Purges |-> IF x \in Requests THEN "new" ELSE "idle"]
  /\ op = [x \in Requests |-> "none"]
  /\ actor = [x \in Requests |-> None] /\ target = [x \in Requests |-> None]
  /\ seen = [x \in Requests |-> None] /\ key = [x \in Requests |-> None]
  /\ batch = [g \in Purges |-> {}] /\ held = [g \in Purges |-> Nobody]
  /\ doomed = [g \in Purges |-> {}] /\ settled = [g \in Purges |-> {}]
  /\ overlaps = {} /\ faults = 0

\* Thirty days after the request
FallDue(x) ==
  /\ deletions[x] = "pending" /\ x \notin due /\ due' = due \cup {x}
  /\ UNCHANGED <<tables, pc, request, purging, overlaps, faults>>

--------------------------------------------------------------------------------
(* Requests *)

\* mutant: an administrator may deactivate the own account
AnyTarget(o, a, u) == TRUE
\* update_tenant_user: cannot_deactivate_self
Acceptable(o, a, u) == o = "deactivate" => a # u

\* mutant: enable_totp needs no setup
NoSecretNeeded(o, u) == TRUE
\* enable_totp, authenticate: a secret is needed to verify a code
SecretAtHand(o, u) ==
  o = "totp_enable" \/ (o = "login" /\ account[u].totp_enabled)
    => account[u].totp_secret # "cleared"

\* What the handlers check of the rows they have loaded.  A reset link holds a
\* fingerprint of the hash, and one can be had for any hash the user has had.
Allowed(o, a, u) ==
  /\ Acceptable(o, a, u) /\ SecretAtHand(o, u)
  /\ o = "backup_login" => account[u].totp_enabled /\ account[u].backup_codes # "cleared"
  /\ o \in {"login", "backup_login", "password"} => account[u].password_hash # "cleared"

\* create_tenant_user: the search by address sees committed rows
Invitable(u) == u \notin members

Begin(x, o, a, u) ==
  /\ pc[x] = "new" /\ o \in Operations[x] \ {"revoke"}
  /\ a \in members /\ account[a].is_active
  /\ IF o \in AdminOps THEN account[a].role = "admin" ELSE a = u
  /\ IF o = "create" THEN Invitable(u) ELSE u \in members /\ Allowed(o, a, u)
  /\ op' = [op EXCEPT ![x] = o]
  /\ actor' = [actor EXCEPT ![x] = a] /\ target' = [target EXCEPT ![x] = u]
  /\ seen' = [seen EXCEPT ![x] = account[u]]
  /\ IF o = "erase" /\ \E y \in Requests : target[y] = u /\ deletions[y] = "pending"
     THEN pc' = [pc EXCEPT ![x] = "done"]  \* the pending request is returned
     ELSE pc' = [pc EXCEPT ![x] = IF o \in {"login", "api_key", "erase"} THEN "insert" ELSE "write"]
  /\ UNCHANGED <<tables, due, key, purging, overlaps, faults>>

\* revoke_key, revoke_session: the row is found by its owner
BeginRevoke(x, y) ==
  /\ pc[x] = "new" /\ "revoke" \in Operations[x]
  /\ y \in sessions \cup api_keys /\ account[Owner(y)].is_active
  /\ pc' = [pc EXCEPT ![x] = "revoke"]
  /\ op' = [op EXCEPT ![x] = "revoke"]
  /\ actor' = [actor EXCEPT ![x] = Owner(y)] /\ target' = [target EXCEPT ![x] = Owner(y)]
  /\ key' = [key EXCEPT ![x] = y]
  /\ UNCHANGED <<tables, due, seen, purging, overlaps, faults>>

\* After the commit of its columns a login inserts its session; the profile is
\* read again and its locale committed apart
Then(x) == CASE op[x] = "backup_login" -> "insert"
             [] op[x] = "profile"      -> "locale"
             [] OTHER                  -> "done"

\* session.commit of changed columns
Write(x) ==
  LET u == target[x] IN
  /\ pc[x] = "write" /\ op[x] # "create"
  /\ account' = [account EXCEPT ![u] = Flush(@, seen[x], Overlay(seen[x], Changes(x)))]
  /\ seen' = [seen EXCEPT ![x] = account'[u]]
  /\ pc' = [pc EXCEPT ![x] = Then(x)]
  /\ Record(x, {u})
  /\ UNCHANGED <<members, sessions, api_keys, revoked, deletions, due, op, actor,
                 target, key, purging, faults>>

\* patch_profile: the second commit, of the locale
WriteLocale(x) ==
  LET u == target[x] IN
  /\ pc[x] = "locale"
  /\ account' = [account EXCEPT ![u] = Overlay(@, [preferences |-> x])]
  /\ pc' = [pc EXCEPT ![x] = "done"]
  /\ Record(x, {u})
  /\ UNCHANGED <<members, sessions, api_keys, revoked, deletions, due, request,
                 purging, faults>>

\* The INSERT of a user, which the unique constraint refuses when another
\* invitation of the address was first
Create(x) ==
  LET u == target[x] IN
  /\ pc[x] = "write" /\ op[x] = "create"
  /\ members' = members \cup {u}
  /\ pc' = [pc EXCEPT ![x] = "done"]
  /\ Record(x, {u})
  /\ UNCHANGED <<account, sessions, api_keys, revoked, deletions, due, request, purging,
                 faults>>

\* record_session, create_api_key, request_gdpr_deletion
Insert(x) ==
  /\ pc[x] = "insert"
  /\ sessions' = IF op[x] \in {"login", "backup_login"} THEN sessions \cup {x} ELSE sessions
  /\ api_keys' = IF op[x] = "api_key" THEN api_keys \cup {x} ELSE api_keys
  /\ deletions' = IF op[x] = "erase" THEN [deletions EXCEPT ![x] = "pending"] ELSE deletions
  /\ pc' = [pc EXCEPT ![x] = "done"]
  /\ Record(x, {target[x]})
  /\ UNCHANGED <<members, account, revoked, due, request, purging, faults>>

\* mutant: the row is written whether it is still there or not
RevokeGone(x) ==
  /\ pc[x] = "revoke"
  /\ revoked' = revoked \cup {key[x]}
  /\ pc' = [pc EXCEPT ![x] = "done"]
  /\ UNCHANGED <<members, account, sessions, api_keys, deletions, due, request,
                 purging, overlaps, faults>>
\* The UPDATE waits for a purge that has deleted the row, and fails if it commits
Revoke(x) ==
  /\ pc[x] = "revoke" /\ \A g \in Purges : key[x] \notin doomed[g]
  /\ revoked' = IF key[x] \in sessions \cup api_keys THEN revoked \cup {key[x]} ELSE revoked
  /\ pc' = [pc EXCEPT ![x] = "done"]
  /\ UNCHANGED <<members, account, sessions, api_keys, deletions, due, request,
                 purging, overlaps, faults>>

--------------------------------------------------------------------------------
(* gdpr.process_due_deletions *)

\* The hourly message is taken: find_due_requests.  A run that finds none does
\* nothing.
FindDue(g) ==
  /\ pc[g] = "idle" /\ pc' = [pc EXCEPT ![g] = "purging"]
  /\ batch' = [batch EXCEPT ![g] = {x \in due : deletions[x] = "pending"}]
  /\ batch'[g] # {}
  /\ UNCHANGED <<tables, due, request, held, doomed, settled, overlaps, faults>>

\* purge_user_data: the rows are deleted, the user is changed in memory.  A
\* user the session holds already is not read again.
PurgeUser(g, r) ==
  LET u == target[r] IN
  /\ pc[g] = "purging" /\ r \in batch[g]
  /\ \A f \in Purges \ {g} : doomed[f] \cap Rows(u) = {}
  /\ batch' = [batch EXCEPT ![g] = @ \ {r}]
  /\ held' = [held EXCEPT ![g][u] = IF @ = None THEN account[u] ELSE @]
  /\ doomed' = [doomed EXCEPT ![g] = @ \cup Rows(u)]
  /\ settled' = [settled EXCEPT ![g] = @ \cup {r}]
  /\ UNCHANGED <<tables, due, pc, request, overlaps, faults>>

\* What the session of g has not committed is rolled back
Rollback(g) ==
  /\ held' = [held EXCEPT ![g] = Nobody] /\ doomed' = [doomed EXCEPT ![g] = {}]
  /\ settled' = [settled EXCEPT ![g] = {}]

\* mutant: the request is left pending
PurgeFailsAgain(g, r) ==
  /\ pc[g] = "purging" /\ r \in batch[g]
  /\ batch' = [batch EXCEPT ![g] = @ \ {r}]
  /\ Rollback(g)
  /\ UNCHANGED <<tables, due, pc, request, overlaps, faults>>
\* mutant: what was done before the exception is committed with the status
PurgeFailsHalfway(g, r) ==
  LET u == target[r] IN
  /\ pc[g] = "purging" /\ r \in batch[g]
  /\ batch' = [batch EXCEPT ![g] = @ \ {r}]
  /\ account' = [account EXCEPT ![u] = Anonymised(@)]
  /\ deletions' = [deletions EXCEPT ![r] = "failed"]
  /\ Rollback(g)
  /\ UNCHANGED <<members, sessions, api_keys, revoked, due, pc, request, overlaps, faults>>
\* An exception while one user is purged: the rollback takes the users purged
\* before it in this batch along, the request becomes failed for good
PurgeFails(g, r) ==
  /\ pc[g] = "purging" /\ r \in batch[g]
  /\ batch' = [batch EXCEPT ![g] = @ \ {r}]
  /\ deletions' = [deletions EXCEPT ![r] = "failed"]
  /\ Rollback(g)
  /\ UNCHANGED <<members, account, sessions, api_keys, revoked, due, pc, request,
                 overlaps, faults>>

\* The commit of session_scope at the end of the batch
PurgeCommit(g) ==
  LET users == {u \in Users : held[g][u] # None} IN
  /\ pc[g] = "purging" /\ batch[g] = {}
  /\ account' = [u \in Users |-> IF u \in users
                   THEN Flush(account[u], held[g][u], Anonymised(held[g][u])) ELSE account[u]]
  /\ sessions' = sessions \ doomed[g] /\ api_keys' = api_keys \ doomed[g]
  /\ revoked' = revoked \ doomed[g]
  /\ deletions' = [r \in Requests |-> IF r \in settled[g] THEN "completed" ELSE deletions[r]]
  /\ pc' = [pc EXCEPT ![g] = "idle"]
  /\ Record(g, users)
  /\ Rollback(g)
  /\ UNCHANGED <<members, due, request, batch, faults>>

--------------------------------------------------------------------------------
(* Faults *)

Fault == faults < MaxFaults /\ faults' = faults + 1

\* A request that dies or fails before its next commit
Abort(x) ==
  /\ Fault /\ pc[x] \notin {"new", "done"}
  /\ pc' = [pc EXCEPT ![x] = "done"]
  /\ UNCHANGED <<tables, due, request, purging, overlaps>>

\* The worker dies and the message is delivered again (acks_late), or the
\* transaction of the batch fails and the next beat sends a new one
Crash(g) ==
  /\ Fault /\ pc[g] = "purging"
  /\ pc' = [pc EXCEPT ![g] = "idle"]
  /\ batch' = [batch EXCEPT ![g] = {}]
  /\ Rollback(g)
  /\ UNCHANGED <<tables, due, request, overlaps>>

--------------------------------------------------------------------------------

RequestStep(x) ==
  \/ \E o \in Operations[x], a \in Users, u \in Users : Begin(x, o, a, u)
  \/ \E y \in Requests \cup Users : BeginRevoke(x, y)
  \/ Write(x) \/ WriteLocale(x) \/ Create(x) \/ Insert(x) \/ Revoke(x)

PurgeStep(g) ==
  \/ FindDue(g) \/ PurgeCommit(g)
  \/ \E r \in Requests : PurgeUser(g, r) \/ PurgeFails(g, r)

Next ==
  \/ \E x \in Requests : RequestStep(x) \/ FallDue(x) \/ Abort(x)
  \/ \E g \in Purges : PurgeStep(g) \/ Crash(g)

Spec == Init /\ [][Next]_vars

\* The beat sends the message every hour, a worker goes on with its batch
Fairness == \A g \in Purges : WF_vars(PurgeStep(g))

FairSpec == Spec /\ Fairness

--------------------------------------------------------------------------------
(* Properties *)

TypeOK ==
  /\ members \subseteq Users /\ account \in [Users -> Account]
  /\ sessions \subseteq Requests \cup Users /\ api_keys \subseteq Requests
  /\ revoked \subseteq sessions \cup api_keys
  /\ deletions \in [Requests -> {"none", "pending", "completed", "failed"}]
  /\ due \subseteq Requests
  /\ pc \in [Requests \cup Purges -> {"new", "insert", "write", "locale", "revoke", "done",
                                     "idle", "purging"}]
  /\ op \in [Requests -> AllOps \cup {"none"}]
  /\ actor \in [Requests -> Users \cup {None}] /\ target \in [Requests -> Users \cup {None}]
  /\ seen \in [Requests -> Account \cup {None}] /\ key \in [Requests -> Requests \cup Users \cup {None}]
  /\ batch \in [Purges -> SUBSET due] /\ held \in [Purges -> [Users -> Account \cup {None}]]
  /\ doomed \in [Purges -> SUBSET (Requests \cup Users)] /\ settled \in [Purges -> SUBSET due]
  /\ overlaps \subseteq (Requests \cup Purges) \X (Requests \cup Purges)
  /\ faults \in 0..MaxFaults

\* An anonymised user has a completed deletion: a batch that fails halfway, dies
\* or is rolled back leaves no user without data and without the record of it.
ErasureIsRecorded ==
  \A u \in Users : account[u].email = "cleared" =>
    \E r \in Requests : target[r] = u /\ deletions[r] = "completed"

\* x overlapped a purge
Overlapped(x) == \E g \in Purges : <<x, g>> \in overlaps \/ <<g, x>> \in overlaps

Reactivated(u) == \E x \in Requests : op[x] = "activate" /\ target[x] = u

\* What a user whose deletion is completed still has - a column, a session, a key -
\* was written by a request that overlapped the purge, or by an administrator's
\* patch: no request that starts after the purge adds any, and the purge misses
\* nothing that was there before it started.
ErasureIsComplete ==
  \A r \in Requests :
    LET u == target[r] IN
    deletions[r] = "completed" /\ ~Reactivated(u) =>
      /\ \A c \in Personal : LET x == account[u][c] IN
           x = "cleared" \/ (x \in Requests /\ (Overlapped(x) \/ op[x] = "rename"))
      /\ \A x \in Rows(u) : Overlapped(x)

\* A second factor that is on and has no secret, which locks its owner out, comes
\* from two of the owner's requests that overlapped, or from a purge: one after the
\* other, the three endpoints never leave it so.
SecondFactorHasSecret ==
  \A u \in Users : account[u].totp_enabled /\ account[u].totp_secret = "cleared" =>
    \E x \in Requests, y \in Requests \cup Purges :
      /\ <<x, y>> \in overlaps \/ <<y, x>> \in overlaps
      /\ op[x] \in TotpOps /\ target[x] = u

\* The tenant keeps an active administrator, unless one demoted the own account, a
\* deletion was completed, or two administrators changed each other at once: the
\* refusal to deactivate oneself is enough for requests made one after the other.
AdministratorLeft ==
  \/ \E u \in members : account[u].is_active /\ account[u].role = "admin"
  \/ \E x \in Requests : op[x] = "demote" /\ actor[x] = target[x]
  \/ \E x \in Requests : deletions[x] = "completed"
  \/ \E x, y \in Requests : <<x, y>> \in overlaps /\ {op[x], op[y]} \subseteq {"demote", "deactivate"}

\* A deletion that is due ends, through crashes of the worker and batches that are
\* rolled back because of another user's: it is completed or marked failed.
DueIsSettled ==
  \A x \in Requests : x \in due ~> deletions[x] \in {"completed", "failed"}
=============================================================================

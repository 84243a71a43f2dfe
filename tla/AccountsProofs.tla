------------------------------ MODULE AccountsProofs ------------------------------
(***************************************************************************)
(* Proofs about Accounts, for any number of users, requests and purges.    *)
(*                                                                         *)
(* No request holds a lock, so no invariant says that what a request has   *)
(* loaded is still so.  Each says instead who is to blame when it is not:  *)
(* a transaction that committed in between, and is in overlaps for good.   *)
(***************************************************************************)
EXTENDS Accounts, TLAPS

--------------------------------------------------------------------------------
(* Type correctness                                                            *)

Columns == Personal \cup {"role", "is_active", "totp_enabled"}

InsertOps == {"login", "backup_login", "api_key", "erase"}
WriteOps  == AllOps \ {"login", "api_key", "erase", "revoke"}

\* What a request knows at each of its steps
Knows(x) ==
  /\ pc[x] \in {"new", "insert", "write", "locale", "revoke", "done"}
  /\ pc[x] = "new" <=> op[x] = "none"
  /\ pc[x] # "new" => actor[x] \in Users /\ target[x] \in Users
  /\ op[x] \notin AdminOps => actor[x] = target[x]
  /\ pc[x] \in {"insert", "write", "locale"} => seen[x] \in Account
  /\ pc[x] = "insert" => op[x] \in InsertOps
  /\ pc[x] = "write"  => op[x] \in WriteOps
  /\ pc[x] = "locale" => op[x] = "profile"
  /\ pc[x] = "revoke" => op[x] = "revoke"
  /\ deletions[x] # "none" => pc[x] = "done" /\ op[x] = "erase"
  /\ x \in sessions \cup api_keys => pc[x] = "done"
  /\ x \in due => deletions[x] # "none"

\* A purge between two batches holds nothing, and what it holds it will settle
Purged(g) ==
  /\ pc[g] \in {"idle", "purging"}
  /\ pc[g] = "idle" => batch[g] = {} /\ held[g] = Nobody /\ doomed[g] = {} /\ settled[g] = {}
  /\ \A u \in Users : held[g][u] # None <=> \E r \in settled[g] : target[r] = u

TypeInv ==
  /\ TypeOK
  /\ \A x \in Requests : Knows(x)
  /\ \A g \in Purges : Purged(g)

(* A row is a record, and a function of its columns *)
LEMMA RowIsFunction ==
  ASSUME NEW r \in Account
  PROVE  /\ DOMAIN r = Columns
         /\ \A c \in Personal : r[c] \in Author
         /\ r.role \in Roles /\ r.is_active \in BOOLEAN /\ r.totp_enabled \in BOOLEAN
BY DEF Account, Columns, Personal

LEMMA FunctionIsRow ==
  ASSUME NEW r, r = [c \in Columns |-> r[c]], \A c \in Personal : r[c] \in Author,
         r.role \in Roles, r.is_active \in BOOLEAN, r.totp_enabled \in BOOLEAN
  PROVE  r \in Account
BY DEF Account, Columns, Personal

\* The row that results from a flush
LEMMA Flushed ==
  ASSUME NEW r \in Account, NEW s \in Account, NEW t \in Account
  PROVE  /\ Flush(r, s, t) \in Account
         /\ \A c \in Columns : Flush(r, s, t)[c] = IF t[c] # s[c] THEN t[c] ELSE r[c]
<1> DEFINE f == Flush(r, s, t)
<1>1. f = [c \in Columns |-> IF t[c] # s[c] THEN t[c] ELSE r[c]]
  BY RowIsFunction DEF Flush
<1>2. \A c \in Columns : f[c] = IF t[c] # s[c] THEN t[c] ELSE r[c]
  BY <1>1
<1>3. f = [c \in Columns |-> f[c]]
  BY <1>1, <1>2
<1>4. \A c \in Personal : f[c] \in Author
  BY <1>2, RowIsFunction DEF Columns
<1>5. /\ f.role = IF t.role # s.role THEN t.role ELSE r.role
      /\ f.is_active = IF t.is_active # s.is_active THEN t.is_active ELSE r.is_active
      /\ f.totp_enabled = IF t.totp_enabled # s.totp_enabled THEN t.totp_enabled ELSE r.totp_enabled
  BY <1>2 DEF Columns
<1>6. f.role \in Roles /\ f.is_active \in BOOLEAN /\ f.totp_enabled \in BOOLEAN
  BY <1>5, RowIsFunction
<1> HIDE DEF f
<1>7. f \in Account
  BY <1>3, <1>4, <1>6, FunctionIsRow
<1>8. QED
  BY <1>2, <1>7 DEF f

LEMMA AnonymisedRow ==
  ASSUME NEW r \in Account
  PROVE  /\ Anonymised(r) \in Account /\ Anonymised(r).role = r.role
         /\ ~Anonymised(r).is_active /\ ~Anonymised(r).totp_enabled
         /\ \A c \in Personal : Anonymised(r)[c] = "cleared"
<1> DEFINE f == Anonymised(r)
<1>1. f = [c \in Columns |-> IF c \in Personal THEN "cleared"
                             ELSE IF c \in {"is_active", "totp_enabled"} THEN FALSE ELSE r[c]]
  BY RowIsFunction DEF Anonymised
<1>2. /\ f.role = r.role /\ f.is_active = FALSE /\ f.totp_enabled = FALSE
      /\ \A c \in Personal : f[c] = "cleared"
  BY <1>1 DEF Columns, Personal
<1>3. f = [c \in Columns |-> f[c]]
  BY <1>1
<1>4. "cleared" \in Author
  BY DEF Author
<1> HIDE DEF f
<1>5. f \in Account
  BY <1>2, <1>3, <1>4, RowIsFunction, FunctionIsRow
<1>6. QED
  BY <1>2, <1>5 DEF f

\* The row an operation leaves, of the one it has loaded, column by column
After(x, s) == Overlay(s, Changes(x))

Sets(x, s, t) ==
  /\ t.role = s.role \/ op[x] \in {"promote", "demote"}
  /\ op[x] = "promote" => t.role = "admin"
  /\ op[x] = "demote" => t.role = "viewer"
  /\ t.is_active = s.is_active \/ op[x] \in {"activate", "deactivate"}
  /\ op[x] = "activate" => t.is_active = TRUE
  /\ op[x] = "deactivate" => t.is_active = FALSE
  /\ t.totp_enabled = s.totp_enabled \/ op[x] \in TotpOps
  /\ op[x] = "totp_enable" => t.totp_enabled = TRUE
  /\ op[x] \in {"totp_setup", "totp_disable"} => t.totp_enabled = FALSE
  /\ \A c \in Personal : t[c] \in {s[c], x} \/ (t[c] = "cleared" /\ op[x] = "totp_disable")
  /\ op[x] \in AdminOps => \A c \in Personal : t[c] = s[c] \/ op[x] = "rename"
  /\ t.email = s.email

LEMMA Changed ==
  ASSUME NEW x \in Requests, op[x] \in WriteOps \ {"create"}, NEW s \in Account
  PROVE  After(x, s) \in Account /\ Sets(x, s, After(x, s))
<1> DEFINE t == After(x, s)
<1> DEFINE ch == Changes(x)
<1>1. t = [c \in Columns |-> IF c \in DOMAIN ch THEN ch[c] ELSE s[c]]
  BY RowIsFunction DEF Overlay, After
<1>2. /\ t = [c \in Columns |-> t[c]]
      /\ \A c \in Columns : t[c] = IF c \in DOMAIN ch THEN ch[c] ELSE s[c]
  BY <1>1
<1>3. /\ \A c \in Personal : s[c] \in Author /\ x \in Author /\ "cleared" \in Author
      /\ s.role \in Roles /\ s.is_active \in BOOLEAN /\ s.totp_enabled \in BOOLEAN
  BY RowIsFunction DEF Author
<1> HIDE DEF t, ch
<1>4. Sets(x, s, t)
  <2> USE <1>2 DEF Sets, Columns, Personal, AdminOps, TotpOps
  <2>1. CASE op[x] = "profile"
    <3>1. ch = [full_name |-> x]
      BY <2>1 DEF ch, Changes
    <3>2. QED
      BY <2>1, <3>1
  <2>2. CASE op[x] = "preferences"
    <3>1. ch = [preferences |-> x]
      BY <2>2 DEF ch, Changes
    <3>2. QED
      BY <2>2, <3>1
  <2>3. CASE op[x] = "password"
    <3>1. ch = [password_hash |-> x]
      BY <2>3 DEF ch, Changes
    <3>2. QED
      BY <2>3, <3>1
  <2>4. CASE op[x] = "reset"
    <3>1. ch = [password_hash |-> x]
      BY <2>4 DEF ch, Changes
    <3>2. QED
      BY <2>4, <3>1
  <2>5. CASE op[x] = "totp_setup"
    <3>1. ch = [totp_secret |-> x, backup_codes |-> x, totp_enabled |-> FALSE]
      BY <2>5 DEF ch, Changes
    <3>2. QED
      BY <2>5, <3>1
  <2>6. CASE op[x] = "totp_enable"
    <3>1. ch = [totp_enabled |-> TRUE]
      BY <2>6 DEF ch, Changes
    <3>2. QED
      BY <2>6, <3>1
  <2>7. CASE op[x] = "totp_disable"
    <3>1. ch = [totp_secret |-> "cleared", backup_codes |-> "cleared",
                             totp_enabled |-> FALSE]
      BY <2>7 DEF ch, Changes
    <3>2. QED
      BY <2>7, <3>1
  <2>8. CASE op[x] = "backup_login"
    <3>1. ch = [backup_codes |-> x]
      BY <2>8 DEF ch, Changes
    <3>2. QED
      BY <2>8, <3>1
  <2>9. CASE op[x] = "rename"
    <3>1. ch = [full_name |-> x]
      BY <2>9 DEF ch, Changes
    <3>2. QED
      BY <2>9, <3>1
  <2>10. CASE op[x] = "promote"
    <3>1. ch = [role |-> "admin"]
      BY <2>10 DEF ch, Changes
    <3>2. QED
      BY <2>10, <3>1
  <2>11. CASE op[x] = "demote"
    <3>1. ch = [role |-> "viewer"]
      BY <2>11 DEF ch, Changes
    <3>2. QED
      BY <2>11, <3>1
  <2>12. CASE op[x] = "activate"
    <3>1. ch = [is_active |-> TRUE]
      BY <2>12 DEF ch, Changes
    <3>2. QED
      BY <2>12, <3>1
  <2>13. CASE op[x] = "deactivate"
    <3>1. ch = [is_active |-> FALSE]
      BY <2>13 DEF ch, Changes
    <3>2. QED
      BY <2>13, <3>1
  <2>14. QED
    BY <2>1, <2>2, <2>3, <2>4, <2>5, <2>6, <2>7, <2>8, <2>9, <2>10, <2>11, <2>12, <2>13 DEF WriteOps, AllOps, SelfOps, TotpOps, GuestOps
<1>5. t.role \in Roles /\ t.is_active \in BOOLEAN /\ t.totp_enabled \in BOOLEAN
  <2>1. t.role \in {s.role, "admin", "viewer"}
    BY <1>4 DEF Sets
  <2>2. t.is_active \in {s.is_active, TRUE, FALSE}
    BY <1>4 DEF Sets
  <2>3. t.totp_enabled \in {s.totp_enabled, TRUE, FALSE}
    BY <1>4 DEF Sets, TotpOps
  <2>4. QED
    BY <1>3, <2>1, <2>2, <2>3 DEF Roles
<1>6. \A c \in Personal : t[c] \in Author
  BY <1>3, <1>4 DEF Sets
<1>7. t \in Account
  BY <1>2, <1>5, <1>6, FunctionIsRow
<1>8. QED
  BY <1>4, <1>7 DEF t

--------------------------------------------------------------------------------
(* What a step leaves alone                                                    *)

RequestMove(x) == RequestStep(x) \/ Abort(x)
PurgeMove(g)   == PurgeStep(g) \/ Crash(g)

\* What Knows says of y is not about what has changed
Same(y) ==
  /\ pc'[y] = pc[y] /\ op'[y] = op[y] /\ actor'[y] = actor[y] /\ target'[y] = target[y]
  /\ seen'[y] = seen[y] /\ (deletions'[y] = "none" <=> deletions[y] = "none")
  /\ y \in sessions' \cup api_keys' => y \in sessions \cup api_keys
  /\ y \in due' => y \in due

\* What is written once
Fixed(y) == op'[y] = op[y] /\ actor'[y] = actor[y] /\ target'[y] = target[y]

SamePurge(g) ==
  /\ pc'[g] = pc[g] /\ batch'[g] = batch[g] /\ held'[g] = held[g]
  /\ doomed'[g] = doomed[g] /\ settled'[g] = settled[g]

LEMMA Constants ==
  /\ \A x \in Requests : x \notin Purges /\ x \notin Users /\ x # None /\ x # "cleared" /\ x \in Author
  /\ None \notin Users /\ None \notin Account /\ First \in Users /\ MaxFaults \in Nat
  /\ \A x \in Requests : Operations[x] \subseteq AllOps
BY ConstantsAssumption DEF Author

LEMMA RequestFrame ==
  ASSUME TypeInv, NEW x \in Requests, RequestMove(x)
  PROVE  /\ \A y \in Requests \ {x} : Same(y)
         /\ pc[x] # "new" => Fixed(x)
         /\ \A g \in Purges : SamePurge(g)
         /\ UNCHANGED <<purging, due>> /\ pc[x] # "done"
<1> USE Constants DEF TypeInv, TypeOK, Same, Fixed, SamePurge, purging, tables, request
<1>1. ASSUME NEW o \in Operations[x], NEW a \in Users, NEW u \in Users, Begin(x, o, a, u)
      PROVE  /\ \A y \in Requests \ {x} : Same(y)
             /\ pc[x] # "new" => Fixed(x)
             /\ \A g \in Purges : SamePurge(g)
             /\ UNCHANGED <<purging, due>> /\ pc[x] # "done"
  BY <1>1 DEF Begin
<1>2. ASSUME NEW z \in Requests \cup Users, BeginRevoke(x, z)
      PROVE  /\ \A y \in Requests \ {x} : Same(y)
             /\ pc[x] # "new" => Fixed(x)
             /\ \A g \in Purges : SamePurge(g)
             /\ UNCHANGED <<purging, due>> /\ pc[x] # "done"
  BY <1>2 DEF BeginRevoke
<1>3. CASE Write(x)
  BY <1>3 DEF Write
<1>4. CASE WriteLocale(x) \/ Create(x)
  BY <1>4 DEF WriteLocale, Create
<1>5. CASE Insert(x)
  BY <1>5 DEF Insert
<1>6. CASE Revoke(x) \/ Abort(x)
  BY <1>6 DEF Revoke, Abort
<1>7. QED
  BY <1>1, <1>2, <1>3, <1>4, <1>5, <1>6 DEF RequestMove, RequestStep

LEMMA PurgeFrame ==
  ASSUME TypeInv, NEW g \in Purges, PurgeMove(g)
  PROVE  /\ \A y \in Requests : Same(y) /\ Fixed(y)
         /\ \A f \in Purges \ {g} : SamePurge(f)
         /\ UNCHANGED <<request, due, members>>
<1> USE Constants DEF TypeInv, TypeOK, Knows, Same, Fixed, SamePurge, purging, tables, request, Rollback
<1>1. CASE FindDue(g) \/ Crash(g)
  BY <1>1 DEF FindDue, Crash
<1>2. CASE PurgeCommit(g)
  BY <1>2 DEF PurgeCommit
<1>3. ASSUME NEW r \in Requests, PurgeUser(g, r)
      PROVE  /\ \A y \in Requests : Same(y) /\ Fixed(y)
             /\ \A f \in Purges \ {g} : SamePurge(f)
             /\ UNCHANGED <<request, due, members>>
  BY <1>3 DEF PurgeUser
<1>4. ASSUME NEW r \in Requests, PurgeFails(g, r)
      PROVE  /\ \A y \in Requests : Same(y) /\ Fixed(y)
             /\ \A f \in Purges \ {g} : SamePurge(f)
             /\ UNCHANGED <<request, due, members>>
  BY <1>4 DEF PurgeFails
<1>5. QED
  BY <1>1, <1>2, <1>3, <1>4 DEF PurgeMove, PurgeStep

LEMMA KnowsSame ==
  ASSUME NEW x \in Requests, Knows(x), Same(x)
  PROVE  Knows(x)'
BY DEF Knows, Same

LEMMA PurgedSame ==
  ASSUME TypeInv, NEW g \in Purges, SamePurge(g), \A r \in settled[g] : target'[r] = target[r]
  PROVE  Purged(g)'
<1>1. Purged(g)
  BY DEF TypeInv
<1>2. QED
  BY <1>1 DEF Purged, SamePurge

\* A settled deletion was inserted, so its request is done
LEMMA SettledDone ==
  ASSUME TypeInv, NEW g \in Purges, NEW r \in settled[g]
  PROVE  r \in Requests /\ r \in due /\ pc[r] = "done" /\ deletions[r] # "none"
BY DEF TypeInv, TypeOK, Knows

LEMMA TypeInit == Init => TypeInv
<1> SUFFICES ASSUME Init PROVE TypeInv
  OBVIOUS
<1>1. ASSUME NEW role \in Roles, NEW totp \in Totp PROVE NewAccount(role, totp) \in Account
  <2> DEFINE r == NewAccount(role, totp)
  <2>1. r = [c \in Columns |-> r[c]]
    BY DEF NewAccount, Columns
  <2>2. /\ r.role = role /\ r.is_active = TRUE /\ r.totp_enabled = FALSE
        /\ \A c \in Personal : r[c] \in {"initial", "cleared"}
    BY DEF NewAccount, Personal
  <2> HIDE DEF r
  <2>3. r \in Account
    BY <2>1, <2>2, FunctionIsRow DEF Author
  <2>4. QED
    BY <2>3 DEF r
<1>2. account \in [Users -> Account]
  BY <1>1 DEF Init
<1>3. TypeOK
  BY <1>2, Constants DEF Init, TypeOK, Nobody
<1>4. \A x \in Requests : Knows(x)
  BY Constants DEF Init, Knows, AdminOps
<1>5. \A g \in Purges : Purged(g)
  BY Constants DEF Init, Purged, Nobody
<1>6. QED
  BY <1>3, <1>4, <1>5 DEF TypeInv

\* TypeOK in three parts
TablesOK ==
  /\ members \subseteq Users /\ account \in [Users -> Account]
  /\ sessions \subseteq Requests \cup Users /\ api_keys \subseteq Requests
  /\ revoked \subseteq sessions \cup api_keys
  /\ deletions \in [Requests -> {"none", "pending", "completed", "failed"}]
  /\ due \subseteq Requests

RequestsOK ==
  /\ op \in [Requests -> AllOps \cup {"none"}]
  /\ actor \in [Requests -> Users \cup {None}] /\ target \in [Requests -> Users \cup {None}]
  /\ seen \in [Requests -> Account \cup {None}] /\ key \in [Requests -> Requests \cup Users \cup {None}]

PurgesOK ==
  /\ batch \in [Purges -> SUBSET due] /\ held \in [Purges -> [Users -> Account \cup {None}]]
  /\ doomed \in [Purges -> SUBSET (Requests \cup Users)] /\ settled \in [Purges -> SUBSET due]

StepsOK ==
  /\ pc \in [Requests \cup Purges -> {"new", "insert", "write", "locale", "revoke", "done",
                                     "idle", "purging"}]
  /\ overlaps \subseteq (Requests \cup Purges) \X (Requests \cup Purges)
  /\ faults \in 0..MaxFaults

LEMMA TypeParts ==
  /\ TypeOK <=> TablesOK /\ RequestsOK /\ PurgesOK /\ StepsOK
  /\ TypeOK' <=> TablesOK' /\ RequestsOK' /\ PurgesOK' /\ StepsOK'
BY DEF TypeOK, TablesOK, RequestsOK, PurgesOK, StepsOK

LEMMA RecordOK ==
  ASSUME StepsOK, NEW x \in Requests \cup Purges, NEW users, Record(x, users)
  PROVE  overlaps' \subseteq (Requests \cup Purges) \X (Requests \cup Purges)
BY DEF StepsOK, Record, Holders

\* The commit of changed columns
LEMMA TypeWrite ==
  ASSUME TypeInv, NEW x \in Requests, Write(x)
  PROVE  TypeOK' /\ Knows(x)'
<1> DEFINE u == target[x]
           t == After(x, seen[x])
           f == Flush(account[u], seen[x], t)
<1>1. TablesOK /\ RequestsOK /\ PurgesOK /\ StepsOK /\ Knows(x)
  BY TypeParts DEF TypeInv
<1>2. /\ u \in Users /\ seen[x] \in Account /\ account[u] \in Account
      /\ op[x] \in WriteOps \ {"create"} /\ pc[x] = "write"
  BY <1>1 DEF Write, Knows, TablesOK
<1>3. t \in Account
  BY <1>2, Changed
<1> HIDE DEF t
<1>4. f \in Account
  BY <1>2, <1>3, Flushed
<1> HIDE DEF f
<1>5. /\ account' = [account EXCEPT ![u] = f] /\ account'[u] = f
      /\ seen' = [seen EXCEPT ![x] = f] /\ pc' = [pc EXCEPT ![x] = Then(x)] /\ Record(x, {u})
      /\ UNCHANGED <<members, sessions, api_keys, revoked, deletions, due, op, actor,
                     target, key, purging, faults>>
  BY <1>1, <1>2 DEF Write, f, t, After, TablesOK
<1>6. Then(x) \in {"insert", "locale", "done"}
      /\ (Then(x) = "insert" => op[x] = "backup_login") /\ (Then(x) = "locale" => op[x] = "profile")
  BY DEF Then
<1>7. TablesOK' /\ RequestsOK' /\ PurgesOK'
  BY <1>1, <1>4, <1>5 DEF TablesOK, RequestsOK, PurgesOK, purging
<1>8. StepsOK'
  BY <1>1, <1>5, <1>6, RecordOK DEF StepsOK
<1>9. /\ pc'[x] = Then(x) /\ seen'[x] = f
  BY <1>1, <1>5 DEF RequestsOK, StepsOK
<1>10. Knows(x)'
  BY <1>1, <1>2, <1>4, <1>5, <1>6, <1>9 DEF Knows, InsertOps
<1>11. QED
  BY <1>7, <1>8, <1>10, TypeParts

LEMMA TypeRequest ==
  ASSUME TypeInv, NEW x \in Requests, RequestMove(x)
  PROVE  TypeOK' /\ Knows(x)'
<1>1. TablesOK /\ RequestsOK /\ PurgesOK /\ StepsOK /\ Knows(x)
  BY TypeParts DEF TypeInv
<1> USE DEF tables, request, purging
<1>2. ASSUME NEW o \in Operations[x], NEW a \in Users, NEW u \in Users, Begin(x, o, a, u)
      PROVE  TypeOK' /\ Knows(x)'
  <2>1. o \in AllOps \ {"revoke"} /\ o # "none" /\ account[u] \in Account
    BY <1>1, <1>2, Constants
       DEF Begin, TablesOK, AllOps, AdminOps, SelfOps, TotpOps, GuestOps
  <2>2. /\ op'[x] = o /\ actor'[x] = a /\ target'[x] = u /\ seen'[x] = account[u] /\ pc[x] = "new"
        /\ pc'[x] \in {"done", "insert", "write"}
        /\ pc'[x] = "insert" => o \in {"login", "api_key", "erase"}
        /\ pc'[x] = "write" => o \notin {"login", "api_key", "erase"}
        /\ o \notin AdminOps => a = u
    BY <1>1, <1>2 DEF Begin, RequestsOK, StepsOK
  <2>3. TablesOK' /\ RequestsOK' /\ PurgesOK' /\ StepsOK'
    BY <1>1, <1>2, <2>1 DEF Begin, TablesOK, RequestsOK, PurgesOK, StepsOK
  <2>4. Knows(x)'
    BY <1>1, <1>2, <2>1, <2>2 DEF Begin, Knows, InsertOps, WriteOps
  <2>5. QED
    BY <2>3, <2>4, TypeParts
<1>3. ASSUME NEW y \in Requests \cup Users, BeginRevoke(x, y)
      PROVE  TypeOK' /\ Knows(x)'
  <2>1. Owner(y) \in Users
    <3>1. CASE y \in Users
      BY <3>1 DEF Owner
    <3>2. CASE y \notin Users
      BY <1>3, <3>2 DEF Owner, BeginRevoke, TypeInv, Knows
    <3>3. QED
      BY <3>1, <3>2
  <2>2. /\ op'[x] = "revoke" /\ actor'[x] = Owner(y) /\ target'[x] = Owner(y) /\ pc'[x] = "revoke"
        /\ pc[x] = "new"
    BY <1>1, <1>3 DEF BeginRevoke, RequestsOK, StepsOK
  <2>3. TablesOK' /\ RequestsOK' /\ PurgesOK' /\ StepsOK'
    BY <1>1, <1>3, <2>1 DEF BeginRevoke, TablesOK, RequestsOK, PurgesOK, StepsOK, AllOps
  <2>4. Knows(x)'
    BY <1>1, <1>3, <2>1, <2>2 DEF BeginRevoke, Knows
  <2>5. QED
    BY <2>3, <2>4, TypeParts
<1>4. CASE Write(x)
  BY <1>4, TypeWrite
<1>5. CASE WriteLocale(x)
  <2> DEFINE u == target[x]
             t == Overlay(account[u], [preferences |-> x])
  <2>1. u \in Users /\ account[u] \in Account
    BY <1>1, <1>5 DEF WriteLocale, Knows, TablesOK
  <2>2. t = [c \in Columns |-> IF c = "preferences" THEN x ELSE account[u][c]]
    BY <2>1, RowIsFunction DEF Overlay
  <2>3. t = [c \in Columns |-> t[c]] /\ \A c \in Columns : t[c] = IF c = "preferences" THEN x ELSE account[u][c]
    BY <2>2
  <2> HIDE DEF t
  <2>4. t \in Account
    <3>1. \A c \in Personal : t[c] \in Author
      BY <2>1, <2>3, RowIsFunction, Constants DEF Columns
    <3>2. t.role \in Roles /\ t.is_active \in BOOLEAN /\ t.totp_enabled \in BOOLEAN
      BY <2>1, <2>3, RowIsFunction DEF Columns
    <3>3. QED
      BY <2>3, <3>1, <3>2, FunctionIsRow
  <2>5. account' = [account EXCEPT ![u] = t]
    BY <1>5 DEF WriteLocale, t
  <2>6. TablesOK' /\ RequestsOK' /\ PurgesOK' /\ StepsOK'
    <3>1. /\ account' \in [Users -> Account]
          /\ UNCHANGED <<members, sessions, api_keys, revoked, deletions, due, request, purging>>
      BY <1>1, <1>5, <2>4, <2>5 DEF WriteLocale, TablesOK
    <3>2. TablesOK' /\ RequestsOK' /\ PurgesOK'
      BY <1>1, <3>1 DEF TablesOK, RequestsOK, PurgesOK
    <3>3. StepsOK'
      BY <1>1, <1>5, RecordOK DEF WriteLocale, StepsOK
    <3>4. QED
      BY <3>2, <3>3
  <2>7. pc'[x] = "done"
    BY <1>1, <1>5 DEF WriteLocale, StepsOK
  <2>8. Knows(x)'
    BY <1>1, <1>5, <2>7 DEF WriteLocale, Knows
  <2>9. QED
    BY <2>6, <2>8, TypeParts
<1>6. CASE Create(x) \/ Insert(x)
  <2>1. target[x] \in Users /\ pc[x] \in {"insert", "write"}
    BY <1>1, <1>6 DEF Create, Insert, Knows
  <2>2. TablesOK' /\ RequestsOK' /\ PurgesOK' /\ StepsOK'
    <3>1. UNCHANGED <<request, purging, due, faults>>
      BY <1>6 DEF Create, Insert
    <3>2. RequestsOK' /\ PurgesOK'
      BY <1>1, <3>1 DEF RequestsOK, PurgesOK
    <3>3. TablesOK'
      BY <1>1, <1>6, <2>1, <3>1 DEF Create, Insert, TablesOK
    <3>4. overlaps' \subseteq (Requests \cup Purges) \X (Requests \cup Purges)
      BY <1>1, <1>6, RecordOK DEF Create, Insert
    <3>5. StepsOK'
      BY <1>1, <1>6, <3>1, <3>4 DEF Create, Insert, StepsOK
    <3>6. QED
      BY <3>2, <3>3, <3>5
  <2>3. pc'[x] = "done"
    BY <1>1, <1>6 DEF Create, Insert, StepsOK
  <2>4. deletions'[x] # "none" => op[x] = "erase"
    BY <1>1, <1>6, <2>1 DEF Create, Insert, Knows
  <2>5. x \in due' => deletions'[x] # "none"
    BY <1>1, <1>6, <2>1 DEF Create, Insert, Knows, TablesOK
  <2>6. Knows(x)'
    BY <1>1, <1>6, <2>1, <2>3, <2>4, <2>5 DEF Create, Insert, Knows
  <2>7. QED
    BY <2>2, <2>6, TypeParts
<1>7. CASE Revoke(x)
  <2>1. TablesOK' /\ RequestsOK' /\ PurgesOK' /\ StepsOK' /\ pc'[x] = "done"
    BY <1>1, <1>7 DEF Revoke, TablesOK, RequestsOK, PurgesOK, StepsOK
  <2>2. Knows(x)'
    BY <1>1, <1>7, <2>1 DEF Revoke, Knows
  <2>3. QED
    BY <2>1, <2>2, TypeParts
<1>8. CASE Abort(x)
  <2>1. TablesOK' /\ RequestsOK' /\ PurgesOK' /\ StepsOK' /\ pc'[x] = "done"
    BY <1>1, <1>8, Constants DEF Abort, Fault, TablesOK, RequestsOK, PurgesOK, StepsOK
  <2>2. Knows(x)'
    BY <1>1, <1>8, <2>1 DEF Abort, Knows
  <2>3. QED
    BY <2>1, <2>2, TypeParts
<1>9. QED
  BY <1>2, <1>3, <1>4, <1>5, <1>6, <1>7, <1>8 DEF RequestMove, RequestStep

LEMMA TypePurge ==
  ASSUME TypeInv, NEW g \in Purges, PurgeMove(g)
  PROVE  TypeOK' /\ Purged(g)'
<1>1. TablesOK /\ RequestsOK /\ PurgesOK /\ StepsOK /\ Purged(g)
  BY TypeParts DEF TypeInv
<1> USE DEF tables, request
<1>2. ASSUME held' = [held EXCEPT ![g] = Nobody], doomed' = [doomed EXCEPT ![g] = {}],
             settled' = [settled EXCEPT ![g] = {}]
      PROVE  /\ held'[g] = Nobody /\ doomed'[g] = {} /\ settled'[g] = {}
             /\ \A u \in Users : held'[g][u] # None <=> \E r \in settled'[g] : target'[r] = u
             /\ batch' \in [Purges -> SUBSET due] /\ UNCHANGED due => PurgesOK'
  BY <1>1, <1>2 DEF PurgesOK, Nobody
<1>3. CASE FindDue(g)
  <2>1. TablesOK' /\ RequestsOK' /\ PurgesOK' /\ StepsOK'
    BY <1>1, <1>3 DEF FindDue, TablesOK, RequestsOK, PurgesOK, StepsOK
  <2>2. Purged(g)'
    BY <1>1, <1>3 DEF FindDue, Purged, StepsOK
  <2>3. QED
    BY <2>1, <2>2, TypeParts
<1>4. CASE Crash(g)
  <2>1. TablesOK' /\ RequestsOK' /\ StepsOK' /\ pc'[g] = "idle" /\ batch'[g] = {}
        /\ batch' \in [Purges -> SUBSET due] /\ UNCHANGED due
    BY <1>1, <1>4, Constants DEF Crash, Fault, TablesOK, RequestsOK, PurgesOK, StepsOK
  <2>2. PurgesOK' /\ Purged(g)'
    BY <1>2, <1>4, <2>1 DEF Crash, Rollback, Purged, Nobody
  <2>3. QED
    BY <2>1, <2>2, TypeParts
<1>5. ASSUME NEW r \in Requests, PurgeFails(g, r)
      PROVE  TypeOK' /\ Purged(g)'
  <2>1. TablesOK' /\ RequestsOK' /\ StepsOK' /\ pc'[g] = "purging"
        /\ batch' \in [Purges -> SUBSET due] /\ UNCHANGED due
    BY <1>1, <1>5 DEF PurgeFails, TablesOK, RequestsOK, PurgesOK, StepsOK
  <2>2. PurgesOK' /\ Purged(g)'
    BY <1>2, <1>5, <2>1 DEF PurgeFails, Rollback, Purged
  <2>3. QED
    BY <2>1, <2>2, TypeParts
<1>6. ASSUME NEW r \in Requests, PurgeUser(g, r)
      PROVE  TypeOK' /\ Purged(g)'
  <2> DEFINE u == target[r]
  <2>1. r \in due /\ u \in Users /\ u # None /\ account[u] \in Account
        /\ Rows(u) \subseteq Requests \cup Users
    <3>1. r \in due /\ Knows(r)
      BY <1>1, <1>6 DEF PurgeUser, TypeInv, PurgesOK
    <3>2. u \in Users
      BY <3>1 DEF Knows
    <3>3. QED
      BY <1>1, <3>1, <3>2, Constants DEF TablesOK, Rows
  <2>2. /\ held' = [held EXCEPT ![g] = [held[g] EXCEPT ![u] =
                      IF held[g][u] = None THEN account[u] ELSE held[g][u]]]
        /\ settled' = [settled EXCEPT ![g] = settled[g] \cup {r}]
        /\ doomed' = [doomed EXCEPT ![g] = doomed[g] \cup Rows(u)]
        /\ batch' = [batch EXCEPT ![g] = batch[g] \ {r}]
        /\ UNCHANGED <<tables, due, pc, request, overlaps, faults>>
    BY <1>6 DEF PurgeUser
  <2>3. held[g] \in [Users -> Account \cup {None}]
    BY <1>1 DEF PurgesOK
  <2>4. TablesOK' /\ RequestsOK' /\ PurgesOK' /\ StepsOK'
    BY <1>1, <2>1, <2>2, <2>3 DEF TablesOK, RequestsOK, PurgesOK, StepsOK
  <2>5. \A v \in Users : held'[g][v] # None <=> held[g][v] # None \/ v = u
    BY <1>1, <2>1, <2>2, <2>3, Constants DEF PurgesOK
  <2>6. settled'[g] = settled[g] \cup {r}
    BY <1>1, <2>2 DEF PurgesOK
  <2>7. pc'[g] = "purging"
    BY <1>6, <2>2 DEF PurgeUser
  <2>8. Purged(g)'
    BY <1>1, <2>2, <2>5, <2>6, <2>7 DEF Purged
  <2>9. QED
    BY <2>4, <2>8, TypeParts
<1>7. CASE PurgeCommit(g)
  <2>1. \A u \in Users : held[g][u] # None =>
          Flush(account[u], held[g][u], Anonymised(held[g][u])) \in Account
    BY <1>1, AnonymisedRow, Flushed DEF TablesOK, PurgesOK
  <2>2. account' \in [Users -> Account]
    BY <1>1, <1>7, <2>1 DEF PurgeCommit, TablesOK
  <2>3. deletions' \in [Requests -> {"none", "pending", "completed", "failed"}]
    BY <1>1, <1>7 DEF PurgeCommit, TablesOK
  <2>4. TablesOK'
    BY <1>1, <1>7, <2>2, <2>3 DEF PurgeCommit, TablesOK
  <2>5. StepsOK'
    BY <1>1, <1>7, RecordOK DEF PurgeCommit, StepsOK
  <2>6. pc'[g] = "idle" /\ batch'[g] = {} /\ batch' \in [Purges -> SUBSET due] /\ UNCHANGED due
    BY <1>1, <1>7 DEF PurgeCommit, StepsOK, PurgesOK
  <2>7. PurgesOK' /\ Purged(g)'
    BY <1>2, <1>7, <2>6 DEF PurgeCommit, Rollback, Purged
  <2>8. RequestsOK'
    BY <1>1, <1>7 DEF PurgeCommit, RequestsOK
  <2>9. QED
    BY <2>4, <2>5, <2>7, <2>8, TypeParts
<1>8. QED
  BY <1>3, <1>4, <1>5, <1>6, <1>7 DEF PurgeMove, PurgeStep

LEMMA TypeFallDue ==
  ASSUME TypeInv, NEW x \in Requests, FallDue(x)
  PROVE  TypeInv'
<1>1. TablesOK /\ RequestsOK /\ PurgesOK /\ StepsOK
  BY TypeParts DEF TypeInv
<1>2. TypeOK'
  BY <1>1, TypeParts DEF FallDue, TablesOK, RequestsOK, PurgesOK, StepsOK, tables, request, purging
<1>3. \A y \in Requests : Knows(y)'
  BY DEF FallDue, TypeInv, Knows, tables, request
<1>4. \A g \in Purges : Purged(g)'
  BY DEF FallDue, TypeInv, Purged, tables, request, purging
<1>5. QED
  BY <1>2, <1>3, <1>4 DEF TypeInv

LEMMA TypeStep == TypeInv /\ [Next]_vars => TypeInv'
<1> SUFFICES ASSUME TypeInv, [Next]_vars PROVE TypeInv'
  OBVIOUS
<1>1. CASE UNCHANGED vars
  BY <1>1 DEF vars, tables, request, purging, TypeInv, TypeOK, Knows, Purged
<1>2. ASSUME NEW x \in Requests, RequestMove(x) PROVE TypeInv'
  <2>1. TypeOK' /\ Knows(x)'
    BY <1>2, TypeRequest
  <2>2. \A y \in Requests \ {x} : Knows(y)'
    BY <1>2, RequestFrame, KnowsSame DEF TypeInv
  <2>3. ASSUME NEW g \in Purges PROVE Purged(g)'
    <3>1. \A r \in settled[g] : target'[r] = target[r]
      BY <1>2, SettledDone, RequestFrame DEF Same, Fixed
    <3>2. QED
      BY <1>2, <3>1, RequestFrame, PurgedSame
  <2>4. QED
    BY <2>1, <2>2, <2>3 DEF TypeInv
<1>3. ASSUME NEW g \in Purges, PurgeMove(g) PROVE TypeInv'
  <2>1. TypeOK' /\ Purged(g)'
    BY <1>3, TypePurge
  <2>2. \A y \in Requests : Knows(y)'
    BY <1>3, PurgeFrame, KnowsSame DEF TypeInv
  <2>3. \A f \in Purges \ {g} : Purged(f)'
    BY <1>3, PurgeFrame, PurgedSame, SettledDone DEF Fixed
  <2>4. QED
    BY <2>1, <2>2, <2>3 DEF TypeInv
<1>4. QED
  BY <1>1, <1>2, <1>3, TypeFallDue DEF Next, RequestMove, PurgeMove

\* Every variable keeps its type, and each step knows what it needs.
THEOREM TypeInvariant == Spec => []TypeInv
<1>1. QED
  BY TypeInit, TypeStep, PTL DEF Spec

\* At every state the variables have their types; a revoked_at belongs to a row.
THEOREM TypeCorrect == Spec => []TypeOK
<1>1. TypeInv => TypeOK
  BY DEF TypeInv
<1>2. QED
  BY <1>1, TypeInvariant, PTL

--------------------------------------------------------------------------------
(* What is written to the rows of users, and who is recorded                   *)

\* Evidence stays: overlaps are not forgotten, a request does not change its nature
LEMMA Stays ==
  ASSUME TypeInv, [Next]_vars
  PROVE  /\ overlaps \subseteq overlaps'
         /\ \A y \in Requests : op[y] # "none" => Fixed(y)
<1>1. CASE UNCHANGED vars
  BY <1>1 DEF vars, request, Fixed
<1>2. ASSUME NEW x \in Requests, RequestMove(x)
      PROVE  /\ overlaps \subseteq overlaps'
             /\ \A y \in Requests : op[y] # "none" => Fixed(y)
  <2>1. overlaps \subseteq overlaps'
    BY <1>2 DEF RequestMove, RequestStep, Begin, BeginRevoke, Write, WriteLocale, Create, Insert,
                Revoke, Abort, Record
  <2>2. \A y \in Requests : op[y] # "none" => Fixed(y)
    BY <1>2, RequestFrame DEF Same, Fixed, TypeInv, Knows
  <2>3. QED
    BY <2>1, <2>2
<1>3. ASSUME NEW g \in Purges, PurgeMove(g)
      PROVE  /\ overlaps \subseteq overlaps'
             /\ \A y \in Requests : op[y] # "none" => Fixed(y)
  <2>1. overlaps \subseteq overlaps'
    BY <1>3 DEF PurgeMove, PurgeStep, FindDue, PurgeUser, PurgeFails, PurgeCommit, Crash, Record
  <2>2. QED
    BY <1>3, <2>1, PurgeFrame
<1>4. ASSUME NEW x \in Requests, FallDue(x)
      PROVE  /\ overlaps \subseteq overlaps'
             /\ \A y \in Requests : op[y] # "none" => Fixed(y)
  BY <1>4 DEF FallDue, request, Fixed
<1>5. QED
  BY <1>1, <1>2, <1>3, <1>4 DEF Next, RequestMove, PurgeMove

\* A commit to u is recorded for all that work on a copy of u's row
LEMMA Recorded ==
  ASSUME NEW z, NEW users, Record(z, users), NEW u \in users
  PROVE  /\ \A y \in Requests \ {z} :
              pc[y] \notin {"new", "done"} /\ u \in {actor[y], target[y]} => <<z, y>> \in overlaps'
         /\ \A g \in Purges \ {z} : held[g][u] # None => <<z, g>> \in overlaps'
BY DEF Record, Holders

LEMMA RequestWrites ==
  ASSUME TypeInv, NEW x \in Requests, RequestMove(x), NEW u \in Users
  PROVE  account'[u] = account[u] \/ (u = target[x] /\ (Write(x) \/ WriteLocale(x)))
BY DEF TypeInv, TypeOK, RequestMove, RequestStep, Begin, BeginRevoke, Write, WriteLocale, Create,
       Insert, Revoke, Abort, tables

LEMMA PurgeWrites ==
  ASSUME TypeInv, NEW g \in Purges, PurgeMove(g), NEW u \in Users
  PROVE  account'[u] = account[u] \/ (held[g][u] # None /\ PurgeCommit(g))
BY DEF TypeInv, TypeOK, PurgeMove, PurgeStep, FindDue, PurgeUser, PurgeFails, PurgeCommit, Crash,
       tables

\* What the commit of request x does to the row of u
WroteRole(x, u) ==
  /\ account[u].role = "admin" => account'[u].role = "admin" \/ op[x] = "demote"
  /\ account'[u].is_active => account[u].is_active \/ op[x] = "activate"
  /\ account[u].is_active => account'[u].is_active \/ op[x] = "deactivate"

WroteFactor(x, u) ==
  /\ account'[u].totp_enabled => account[u].totp_enabled \/ op[x] = "totp_enable"
  /\ op[x] = "totp_disable" /\ account'[u].totp_enabled => account[u].totp_enabled /\ ~seen[x].totp_enabled
  /\ account'[u].totp_secret \in {account[u].totp_secret, x} \/ op[x] = "totp_disable"

WroteData(x, u) ==
  /\ \A c \in Personal : \/ account'[u][c] \in {account[u][c], x}
                         \/ account'[u][c] = "cleared" /\ op[x] = "totp_disable"
  /\ op[x] \in AdminOps => \A c \in Personal : account'[u][c] = account[u][c] \/ op[x] = "rename"
  /\ account'[u].email = account[u].email

Wrote(x, u) == WroteRole(x, u) /\ WroteFactor(x, u) /\ WroteData(x, u)

LEMMA WriteEffect ==
  ASSUME TypeInv, NEW x \in Requests, Write(x)
  PROVE  target[x] \in Users /\ Record(x, {target[x]}) /\ Wrote(x, target[x])
<1> DEFINE u == target[x]
           s == seen[x]
           t == After(x, s)
           f == Flush(account[u], s, t)
<1>1. /\ u \in Users /\ s \in Account /\ account[u] \in Account
      /\ op[x] \in WriteOps \ {"create"} /\ Record(x, {u})
  BY DEF Write, TypeInv, TypeOK, Knows
<1>2. account'[u] = f
  BY <1>1 DEF Write, TypeInv, TypeOK, After
<1> HIDE DEF u, s
<1>3. t \in Account /\ Sets(x, s, t)
  BY <1>1, Changed
<1> HIDE DEF t
<1>4. \A c \in Columns : f[c] = IF t[c] # s[c] THEN t[c] ELSE account[u][c]
  BY <1>1, <1>3, Flushed
<1>5. /\ f.role = IF t.role # s.role THEN t.role ELSE account[u].role
      /\ f.is_active = IF t.is_active # s.is_active THEN t.is_active ELSE account[u].is_active
      /\ f.totp_enabled = IF t.totp_enabled # s.totp_enabled THEN t.totp_enabled
                          ELSE account[u].totp_enabled
      /\ f.totp_secret = IF t.totp_secret # s.totp_secret THEN t.totp_secret
                         ELSE account[u].totp_secret
      /\ f.email = IF t.email # s.email THEN t.email ELSE account[u].email
      /\ \A c \in Personal : f[c] = IF t[c] # s[c] THEN t[c] ELSE account[u][c]
  <2> HIDE DEF f
  <2>1. QED
    BY <1>4 DEF Columns, Personal
<1>6. \A b \in {f, account[u], s, t} : b.totp_enabled \in BOOLEAN /\ b.is_active \in BOOLEAN
  <2>1. {f, account[u], s, t} \subseteq Account
    BY <1>1, <1>3, Flushed
  <2>2. QED
    BY <2>1, RowIsFunction
<1> HIDE DEF f
<1>7. WroteRole(x, u)
  <2>1. account[u].role = "admin" => f.role = "admin" \/ op[x] = "demote"
    BY <1>3, <1>5 DEF Sets
  <2>2. /\ f.is_active \in BOOLEAN /\ account[u].is_active \in BOOLEAN
        /\ s.is_active \in BOOLEAN /\ t.is_active \in BOOLEAN
    BY <1>6
  <2>3. /\ f.is_active => account[u].is_active \/ op[x] = "activate"
        /\ account[u].is_active => f.is_active \/ op[x] = "deactivate"
    <3>1. /\ t.is_active = s.is_active \/ op[x] \in {"activate", "deactivate"}
          /\ op[x] = "activate" => t.is_active = TRUE
          /\ op[x] = "deactivate" => t.is_active = FALSE
      BY <1>3 DEF Sets
    <3>2. QED
      BY <1>5, <2>2, <3>1
  <2>4. QED
    BY <1>2, <2>1, <2>3 DEF WroteRole
<1>8. WroteFactor(x, u)
  <2>1. /\ t.totp_enabled = s.totp_enabled \/ op[x] \in TotpOps
        /\ op[x] \in {"totp_setup", "totp_disable"} => t.totp_enabled = FALSE
        /\ t.totp_secret \in {s.totp_secret, x} \/ op[x] = "totp_disable"
    BY <1>3 DEF Sets, Personal
  <2>2. /\ f.totp_enabled \in BOOLEAN /\ account[u].totp_enabled \in BOOLEAN
        /\ s.totp_enabled \in BOOLEAN /\ t.totp_enabled \in BOOLEAN
    BY <1>6
  <2>3. f.totp_enabled => account[u].totp_enabled \/ op[x] = "totp_enable"
    BY <1>5, <2>1, <2>2 DEF TotpOps
  <2>4. op[x] = "totp_disable" /\ f.totp_enabled => account[u].totp_enabled /\ ~s.totp_enabled
    BY <1>5, <2>1, <2>2
  <2>5. f.totp_secret \in {account[u].totp_secret, x} \/ op[x] = "totp_disable"
    BY <1>5, <2>1
  <2>6. QED
    BY <1>2, <2>3, <2>4, <2>5 DEF WroteFactor, s
<1>9. WroteData(x, u)
  BY <1>2, <1>3, <1>5 DEF Sets, WroteData
<1>10. QED
  BY <1>1, <1>7, <1>8, <1>9 DEF Wrote, u

WroteLocale(x, u) == \A c \in Columns : account'[u][c] = IF c = "preferences" THEN x ELSE account[u][c]

LEMMA LocaleEffect ==
  ASSUME TypeInv, NEW x \in Requests, WriteLocale(x)
  PROVE  /\ target[x] \in Users /\ Record(x, {target[x]}) /\ op[x] = "profile"
         /\ WroteLocale(x, target[x])
<1> DEFINE u == target[x]
<1>1. u \in Users /\ account[u] \in Account /\ op[x] = "profile" /\ Record(x, {u})
  BY DEF WriteLocale, TypeInv, TypeOK, Knows
<1>2. account'[u] = Overlay(account[u], [preferences |-> x])
  BY <1>1 DEF WriteLocale, TypeInv, TypeOK
<1>3. QED
  BY <1>1, <1>2, RowIsFunction DEF Overlay, WroteLocale

\* The commit of a purge clears the columns that were not clear when it read them
WroteRow(g, u) ==
  /\ account'[u].role = account[u].role
  /\ account'[u].is_active => account[u].is_active /\ ~held[g][u].is_active
  /\ account'[u].totp_enabled => account[u].totp_enabled /\ ~held[g][u].totp_enabled
  /\ \A c \in Personal :
       account'[u][c] = IF held[g][u][c] # "cleared" THEN "cleared" ELSE account[u][c]

LEMMA CommitEffect ==
  ASSUME TypeInv, NEW g \in Purges, PurgeCommit(g), NEW u \in Users, held[g][u] # None
  PROVE  WroteRow(g, u)
<1> DEFINE h == held[g][u]
           t == Anonymised(h)
           f == Flush(account[u], h, t)
<1>1. h \in Account /\ account[u] \in Account
  BY DEF TypeInv, TypeOK
<1>2. account'[u] = f
  BY DEF PurgeCommit
<1> HIDE DEF h
<1>3. /\ t \in Account /\ t.role = h.role /\ ~t.is_active /\ ~t.totp_enabled
      /\ \A c \in Personal : t[c] = "cleared"
  BY <1>1, AnonymisedRow
<1> HIDE DEF t
<1>4. \A c \in Columns : f[c] = IF t[c] # h[c] THEN t[c] ELSE account[u][c]
  BY <1>1, <1>3, Flushed
<1> HIDE DEF f
<1>5. /\ f.role = IF t.role # h.role THEN t.role ELSE account[u].role
      /\ f.is_active = IF t.is_active # h.is_active THEN t.is_active ELSE account[u].is_active
      /\ f.totp_enabled = IF t.totp_enabled # h.totp_enabled THEN t.totp_enabled
                          ELSE account[u].totp_enabled
      /\ \A c \in Personal : f[c] = IF t[c] # h[c] THEN t[c] ELSE account[u][c]
  BY <1>4 DEF Columns
<1>6. \A b \in {h, t} : b.totp_enabled \in BOOLEAN /\ b.is_active \in BOOLEAN
  BY <1>1, <1>3, RowIsFunction
<1>7. QED
  BY <1>2, <1>3, <1>5, <1>6 DEF h, WroteRow

\* Whoever changes the row of u is recorded for all that work on a copy of it
Working(y, u) == pc[y] \notin {"new", "done"} /\ u \in {actor[y], target[y]}

Convicted(z, u) ==
  /\ \A y \in Requests \ {z} : Working(y, u) => <<z, y>> \in overlaps'
  /\ \A f \in Purges \ {z} : held[f][u] # None => <<z, f>> \in overlaps'

LEMMA RequestConvicted ==
  ASSUME TypeInv, NEW x \in Requests, RequestMove(x), NEW u \in Users, account'[u] # account[u]
  PROVE  /\ u = target[x] /\ Fixed(x) /\ pc[x] \in {"write", "locale"}
         /\ Wrote(x, u) \/ (WroteLocale(x, u) /\ op[x] = "profile")
         /\ Record(x, {u}) /\ Convicted(x, u)
<1>1. u = target[x] /\ (Write(x) \/ WriteLocale(x))
  BY RequestWrites
<1>2. Record(x, {u}) /\ (Wrote(x, u) \/ (WroteLocale(x, u) /\ op[x] = "profile"))
  BY <1>1, WriteEffect, LocaleEffect
<1>3. pc[x] \in {"write", "locale"}
  BY <1>1 DEF Write, WriteLocale
<1>4. Fixed(x)
  BY <1>3, RequestFrame
<1>5. Convicted(x, u)
  BY <1>2, Recorded DEF Convicted, Working
<1>6. QED
  BY <1>1, <1>2, <1>3, <1>4, <1>5

LEMMA CommitConvicted ==
  ASSUME TypeInv, NEW g \in Purges, PurgeCommit(g), NEW u \in Users, held[g][u] # None
  PROVE  WroteRow(g, u) /\ Convicted(g, u)
<1>1. Record(g, {v \in Users : held[g][v] # None}) /\ u \in {v \in Users : held[g][v] # None}
  BY DEF PurgeCommit
<1>2. QED
  BY <1>1, CommitEffect, Recorded DEF Convicted, Working

LEMMA PurgeConvicted ==
  ASSUME TypeInv, NEW g \in Purges, PurgeMove(g), NEW u \in Users, account'[u] # account[u]
  PROVE  held[g][u] # None /\ PurgeCommit(g) /\ WroteRow(g, u) /\ Convicted(g, u)
BY PurgeWrites, CommitConvicted

\* A request comes to its commit from its beginning
LEMMA WriteBegins ==
  ASSUME TypeInv, NEW x \in Requests, RequestMove(x), pc'[x] = "write"
  PROVE  \E o \in Operations[x], a \in Users, u \in Users : Begin(x, o, a, u)
<1> USE DEF TypeInv, TypeOK
<1>1. \A y \in Requests \cup Users : ~BeginRevoke(x, y)
  BY DEF BeginRevoke
<1>2. ~Write(x)
  BY DEF Write, Then
<1>3. ~WriteLocale(x) /\ ~Create(x) /\ ~Insert(x) /\ ~Revoke(x) /\ ~Abort(x)
  BY DEF WriteLocale, Create, Insert, Revoke, Abort
<1>4. QED
  BY <1>1, <1>2, <1>3 DEF RequestMove, RequestStep

--------------------------------------------------------------------------------
(* The second factor                                                           *)

Evidence(u) ==
  \E x \in Requests, y \in Requests \cup Purges :
    /\ <<x, y>> \in overlaps \/ <<y, x>> \in overlaps
    /\ op[x] \in TotpOps /\ target[x] = u

\* What a pending request or purge has read of the second factor is still so, or a
\* request about it has committed since
FactorKnown(x) ==
  pc[x] = "write" =>
    /\ op[x] = "totp_enable" /\ account[target[x]].totp_secret = "cleared" => Evidence(target[x])
    /\ op[x] = "totp_disable" /\ ~seen[x].totp_enabled /\ account[target[x]].totp_enabled
         => Evidence(target[x])

FactorHeld(g, u) ==
  held[g][u] # None /\ ~held[g][u].totp_enabled /\ account[u].totp_enabled => Evidence(u)

FactorSeen ==
  /\ \A x \in Requests : FactorKnown(x)
  /\ \A g \in Purges, u \in Users : FactorHeld(g, u)

Locked(u) == account[u].totp_enabled /\ account[u].totp_secret = "cleared"

FactorInv == TypeInv /\ FactorSeen /\ \A u \in Users : Locked(u) => Evidence(u)

LEMMA FactorInit == Init => FactorInv
<1> SUFFICES ASSUME Init PROVE FactorInv
  OBVIOUS
<1>1. TypeInv
  BY TypeInit
<1>2. \A u \in Users : ~account[u].totp_enabled
  BY DEF Init, NewAccount
<1>3. FactorSeen
  BY Constants DEF Init, FactorSeen, FactorKnown, FactorHeld, Nobody
<1>4. QED
  BY <1>1, <1>2, <1>3 DEF FactorInv, Locked

LEMMA EvidenceStays ==
  ASSUME TypeInv, [Next]_vars, NEW u, Evidence(u)
  PROVE  Evidence(u)'
<1>1. PICK x \in Requests, y \in Requests \cup Purges :
             /\ <<x, y>> \in overlaps \/ <<y, x>> \in overlaps
             /\ op[x] \in TotpOps /\ target[x] = u
  BY DEF Evidence
<1>2. op[x] # "none"
  BY <1>1 DEF TotpOps
<1>3. Fixed(x) /\ (<<x, y>> \in overlaps' \/ <<y, x>> \in overlaps')
  BY <1>1, <1>2, Stays
<1>4. QED
  BY <1>1, <1>3 DEF Evidence, Fixed

\* A step that leaves what y has loaded and knows
LEMMA FactorOther ==
  ASSUME TypeInv, [Next]_vars, NEW y \in Requests, NEW z \in Requests \cup Purges, FactorKnown(y), Same(y),
         z # y, \A u \in Users : account'[u] = account[u] \/ Convicted(z, u)
  PROVE  FactorKnown(y)'
<1> DEFINE u == target[y]
<1> SUFFICES ASSUME pc[y] = "write", op[y] \in {"totp_enable", "totp_disable"} PROVE FactorKnown(y)'
  BY DEF Same, FactorKnown
<1>1. u \in Users /\ Fixed(y)
  BY DEF TypeInv, Knows, Same, Fixed
<1>2. CASE account'[u] = account[u]
  BY <1>1, <1>2, EvidenceStays DEF Same, FactorKnown
<1>3. CASE Convicted(z, u)
  <2>1. <<z, y>> \in overlaps'
    BY <1>3 DEF Convicted, Working
  <2>2. Evidence(u)'
    BY <1>1, <2>1 DEF Evidence, Fixed, TotpOps
  <2>3. QED
    BY <2>2 DEF Same, FactorKnown
<1>4. QED
  BY <1>1, <1>2, <1>3

LEMMA FactorRequest ==
  ASSUME FactorInv, NEW x \in Requests, RequestMove(x)
  PROVE  FactorSeen' /\ \A u \in Users : Locked(u)' => Evidence(u)'
<1>1. TypeInv /\ TypeOK /\ [Next]_vars /\ Knows(x) /\ FactorSeen
  BY DEF FactorInv, TypeInv, Next, RequestMove
<1>2. \A u : Evidence(u) => Evidence(u)'
  BY <1>1, EvidenceStays
<1>3. /\ \A y \in Requests \ {x} : Same(y)
      /\ pc[x] # "new" => Fixed(x)
      /\ \A g \in Purges : SamePurge(g)
  BY <1>1, RequestFrame
<1>4. ASSUME NEW u \in Users, account'[u] # account[u], WroteLocale(x, u)
      PROVE  account'[u].totp_enabled = account[u].totp_enabled
             /\ account'[u].totp_secret = account[u].totp_secret
  BY <1>4 DEF WroteLocale, Columns, Personal
<1>5. ASSUME NEW u \in Users, Locked(u)'
      PROVE  Evidence(u)'
  <2>1. CASE account'[u] = account[u]
    BY <1>2, <1>5, <2>1 DEF FactorInv, Locked
  <2>2. CASE account'[u] # account[u]
    <3>1. u = target[x] /\ pc[x] \in {"write", "locale"}
          /\ (Wrote(x, u) \/ (WroteLocale(x, u) /\ op[x] = "profile"))
      BY <1>1, <2>2, RequestConvicted
    <3>2. CASE WroteLocale(x, u)
      BY <1>2, <1>4, <1>5, <2>2, <3>2 DEF FactorInv, Locked
    <3>3. CASE Wrote(x, u) /\ pc[x] = "write"
      <4>1. WroteFactor(x, u) /\ x # "cleared" /\ FactorKnown(x)
        BY <1>1, <3>3, Constants DEF Wrote, FactorSeen
      <4>2. Evidence(u)
        BY <1>5, <3>1, <3>3, <4>1 DEF WroteFactor, FactorKnown, Locked, FactorInv
      <4>3. QED
        BY <1>2, <4>2
    <3>4. CASE Wrote(x, u) /\ pc[x] = "locale"
      <4>1. op[x] = "profile" /\ WroteFactor(x, u) /\ x # "cleared"
        BY <1>1, <3>4, Constants DEF Knows, Wrote
      <4>2. Locked(u)
        BY <1>5, <4>1 DEF WroteFactor, Locked
      <4>3. QED
        BY <1>2, <4>2 DEF FactorInv
    <3>5. QED
      BY <3>1, <3>2, <3>3, <3>4
  <2>3. QED
    BY <2>1, <2>2
<1>6. ASSUME NEW y \in Requests \ {x} PROVE FactorKnown(y)'
  <2>1. \A u \in Users : account'[u] = account[u] \/ Convicted(x, u)
    BY <1>1, RequestConvicted
  <2>2. QED
    BY <1>1, <1>3, <2>1, FactorOther DEF FactorSeen
<1>7. FactorKnown(x)'
  <2> SUFFICES ASSUME pc'[x] = "write" PROVE FactorKnown(x)'
    BY DEF FactorKnown
  <2>1. \E o \in Operations[x], a \in Users, u \in Users : Begin(x, o, a, u)
    BY <1>1, WriteBegins
  <2>2. PICK o \in Operations[x], a \in Users, u \in Users : Begin(x, o, a, u)
    BY <2>1
  <2>3. op'[x] = o /\ target'[x] = u /\ seen'[x] = account[u] /\ account' = account
    BY <1>1, <2>2 DEF Begin, TypeOK, tables
  <2>4. o = "totp_enable" => account[u].totp_secret # "cleared"
    BY <2>2 DEF Begin, Allowed, SecretAtHand
  <2>5. QED
    BY <2>3, <2>4 DEF FactorKnown
<1>8. ASSUME NEW g \in Purges, NEW u \in Users PROVE FactorHeld(g, u)'
  <2> SUFFICES ASSUME held'[g][u] # None, ~held'[g][u].totp_enabled, account'[u].totp_enabled
               PROVE  Evidence(u)'
    BY DEF FactorHeld
  <2>1. held'[g] = held[g]
    BY <1>3 DEF SamePurge
  <2>2. CASE account[u].totp_enabled
    BY <1>1, <1>2, <2>1, <2>2 DEF FactorSeen, FactorHeld
  <2>3. CASE ~account[u].totp_enabled
    <3>1. u = target[x] /\ Fixed(x) /\ Convicted(x, u) /\ (Wrote(x, u) \/ WroteLocale(x, u))
      BY <1>1, <2>3, RequestConvicted
    <3>2. <<x, g>> \in overlaps'
      BY <2>1, <3>1, Constants DEF Convicted
    <3>3. op[x] = "totp_enable"
      BY <1>4, <2>3, <3>1 DEF Wrote, WroteFactor
    <3>4. QED
      BY <3>1, <3>2, <3>3 DEF Evidence, Fixed, TotpOps
  <2>4. QED
    BY <2>2, <2>3
<1>9. QED
  BY <1>5, <1>6, <1>7, <1>8 DEF FactorSeen

LEMMA FactorPurge ==
  ASSUME FactorInv, NEW g \in Purges, PurgeMove(g)
  PROVE  FactorSeen' /\ \A u \in Users : Locked(u)' => Evidence(u)'
<1>1. TypeInv /\ TypeOK /\ [Next]_vars /\ FactorSeen
  BY DEF FactorInv, TypeInv, Next, PurgeMove
<1>2. \A u : Evidence(u) => Evidence(u)'
  BY <1>1, EvidenceStays
<1>3. /\ \A y \in Requests : Same(y) /\ Fixed(y)
      /\ \A f \in Purges \ {g} : SamePurge(f)
      /\ UNCHANGED request
  BY <1>1, PurgeFrame
\* A purge never turns a second factor on
<1>4. ASSUME NEW u \in Users, account'[u].totp_enabled
      PROVE  account[u].totp_enabled /\ (account'[u] = account[u] \/ Evidence(u)')
  <2>1. CASE account'[u] = account[u]
    BY <1>4, <2>1
  <2>2. CASE account'[u] # account[u]
    <3>1. held[g][u] # None /\ WroteRow(g, u)
      BY <1>1, <2>2, PurgeConvicted
    <3>2. account[u].totp_enabled /\ ~held[g][u].totp_enabled
      BY <1>4, <3>1 DEF WroteRow
    <3>3. QED
      BY <1>1, <1>2, <3>1, <3>2 DEF FactorSeen, FactorHeld
  <2>3. QED
    BY <2>1, <2>2
<1>5. \A u \in Users : Locked(u)' => Evidence(u)'
  BY <1>2, <1>4 DEF FactorInv, Locked
<1>6. ASSUME NEW y \in Requests PROVE FactorKnown(y)'
  <2>1. \A u \in Users : account'[u] = account[u] \/ Convicted(g, u)
    BY <1>1, PurgeConvicted
  <2>2. QED
    BY <1>1, <1>3, <2>1, FactorOther, Constants DEF FactorSeen
<1>7. ASSUME NEW f \in Purges, NEW u \in Users PROVE FactorHeld(f, u)'
  <2> SUFFICES ASSUME held'[f][u] # None, ~held'[f][u].totp_enabled, account'[u].totp_enabled
               PROVE  Evidence(u)'
    BY DEF FactorHeld
  <2>1. CASE held'[f][u] = held[f][u]
    BY <1>1, <1>2, <1>4, <2>1 DEF FactorSeen, FactorHeld
  <2>2. CASE f = g /\ held'[f][u] # held[f][u]
    <3>1. held'[g][u] = account[u]
      BY <1>1, <2>2 DEF TypeOK, PurgeMove, PurgeStep, FindDue, PurgeUser, PurgeFails,
                              PurgeCommit, Crash, Rollback, Nobody, purging
    <3>2. QED
      BY <1>4, <2>2, <3>1
  <2>3. QED
    BY <1>3, <2>1, <2>2 DEF SamePurge
<1>8. QED
  BY <1>5, <1>6, <1>7 DEF FactorSeen

LEMMA FactorStep == FactorInv /\ [Next]_vars => FactorInv'
<1> SUFFICES ASSUME FactorInv, [Next]_vars PROVE FactorInv'
  OBVIOUS
<1>1. TypeInv'
  BY TypeStep DEF FactorInv
<1>2. ASSUME UNCHANGED <<tables, pc, request, purging, overlaps>> PROVE FactorInv'
  <2>1. UNCHANGED <<account, pc, op, target, seen, held, overlaps>>
    BY <1>2 DEF tables, request, purging
  <2>2. \A u : Evidence(u)' <=> Evidence(u)
    BY <2>1 DEF Evidence
  <2>3. \A x \in Requests : FactorKnown(x)'
    BY <2>1, <2>2 DEF FactorInv, FactorSeen, FactorKnown
  <2>4. \A g \in Purges, u \in Users : FactorHeld(g, u)'
    BY <2>1, <2>2 DEF FactorInv, FactorSeen, FactorHeld
  <2>5. \A u \in Users : Locked(u)' => Evidence(u)'
    BY <2>1, <2>2 DEF FactorInv, Locked
  <2>6. QED
    BY <1>1, <2>3, <2>4, <2>5 DEF FactorInv, FactorSeen
<1>3. CASE UNCHANGED vars
  BY <1>2, <1>3 DEF vars
<1>4. ASSUME NEW x \in Requests, FallDue(x) PROVE FactorInv'
  BY <1>2, <1>4 DEF FallDue
<1>5. ASSUME NEW x \in Requests, RequestMove(x) PROVE FactorInv'
  BY <1>1, <1>5, FactorRequest DEF FactorInv
<1>6. ASSUME NEW g \in Purges, PurgeMove(g) PROVE FactorInv'
  BY <1>1, <1>6, FactorPurge DEF FactorInv
<1>7. QED
  BY <1>3, <1>4, <1>5, <1>6 DEF Next, RequestMove, PurgeMove

\* A second factor that is on and has no secret comes from two transactions that
\* overlapped, one of them a request of the owner about the second factor.
THEOREM SecretsKept == Spec => []SecondFactorHasSecret
<1>1. FactorInv => SecondFactorHasSecret
  BY DEF FactorInv, SecondFactorHasSecret, Locked, Evidence
<1>2. QED
  BY <1>1, FactorInit, FactorStep, PTL DEF Spec
--------------------------------------------------------------------------------
(* What a deletion leaves                                                      *)

\* Who may have written a column the purge has not cleared
Blamed(x) == x \in Requests /\ (Overlapped(x) \/ op[x] = "rename")

\* While a purge holds the row of u: what is there now was read, or is to blame
HeldColumns(g, u) ==
  \A c \in Personal : account[u][c] \in {held[g][u][c], "cleared"} \/ Blamed(account[u][c])
HeldRows(g, u)   == \A x \in Rows(u) : x \in doomed[g] \/ Overlapped(x)
HeldActive(g, u) == account[u].is_active => held[g][u].is_active \/ Reactivated(u)

HeldKnown(g, u) == held[g][u] # None => HeldColumns(g, u) /\ HeldRows(g, u) /\ HeldActive(g, u)

\* Once a deletion of u is completed
Erased(u) == \E r \in Requests : target[r] = u /\ deletions[r] = "completed"

Active(x, u) == target[x] = u /\ pc[x] \notin {"new", "done"} /\ op[x] \notin AdminOps

Cleared(u) ==
  /\ ~account[u].is_active
  /\ \A c \in Personal : account[u][c] = "cleared" \/ Blamed(account[u][c])
  /\ \A x \in Rows(u) : Overlapped(x)
  /\ \A x \in Requests : Active(x, u) => Overlapped(x)

ErasedCleared(u) == Erased(u) /\ ~Reactivated(u) => Cleared(u)

ErasureInv ==
  /\ TypeInv
  /\ \A g \in Purges, u \in Users : HeldKnown(g, u)
  /\ \A u \in Users : ErasedCleared(u)

\* Blame stays
LEMMA BlameStays ==
  ASSUME TypeInv, [Next]_vars
  PROVE  /\ \A x : Overlapped(x) => Overlapped(x)'
         /\ \A x : Blamed(x) => Blamed(x)'
         /\ \A u : Reactivated(u) => Reactivated(u)'
<1>1. overlaps \subseteq overlaps' /\ \A y \in Requests : op[y] # "none" => Fixed(y)
  BY Stays
<1>2. \A x : Overlapped(x) => Overlapped(x)'
  BY <1>1 DEF Overlapped
<1>3. \A x : Blamed(x) => Blamed(x)'
  BY <1>1, <1>2 DEF Blamed, Fixed
<1>4. \A u : Reactivated(u) => Reactivated(u)'
  BY <1>1 DEF Reactivated, Fixed
<1>5. QED
  BY <1>2, <1>3, <1>4

\* The owner of a session or key is settled
LEMMA OwnerStays ==
  ASSUME TypeInv, [Next]_vars, NEW y \in sessions \cup api_keys
  PROVE  Owner(y)' = Owner(y)
<1>1. y \in Users \/ (y \in Requests /\ op[y] # "none")
  BY DEF TypeInv, TypeOK, Knows
<1>2. QED
  BY <1>1, Stays DEF Owner, Fixed

\* A request adds at most its own session or key, and a deletion it has requested
\* is not completed by it
LEMMA RequestAdds ==
  ASSUME TypeInv, NEW x \in Requests, RequestMove(x), NEW u \in Users
  PROVE  /\ \A y \in Rows(u)' :
              y \in Rows(u) \/ (y = x /\ pc[x] = "insert" /\ target[x] = u /\ Record(x, {u}))
         /\ Erased(u)' => Erased(u)
<1>1. TypeOK /\ Knows(x) /\ [Next]_vars
  BY DEF TypeInv, Next, RequestMove
<1>2. ASSUME NEW y \in sessions' \cup api_keys', y \notin sessions \cup api_keys
      PROVE  y = x /\ Insert(x)
  BY <1>2 DEF RequestMove, RequestStep, Begin, BeginRevoke, Write, WriteLocale, Create, Insert,
              Revoke, Abort, tables
<1>3. ASSUME NEW y \in Rows(u)', y \notin Rows(u)
      PROVE  y = x /\ pc[x] = "insert" /\ target[x] = u /\ Record(x, {u})
  <2>1. y \in sessions' \cup api_keys' /\ Owner(y)' = u
    BY <1>3 DEF Rows
  <2>2. y \notin sessions \cup api_keys
    BY <1>1, <1>3, <2>1, OwnerStays DEF Rows
  <2>3. y = x /\ Insert(x)
    BY <1>2, <2>1, <2>2
  <2>4. target'[x] = u /\ target' = target
    BY <2>1, <2>3, Constants DEF Owner, Insert, request
  <2>5. QED
    BY <2>3, <2>4 DEF Insert
<1>4. ASSUME NEW r \in Requests, deletions'[r] = "completed"
      PROVE  deletions[r] = "completed" /\ target'[r] = target[r]
  <2>1. deletions[r] = "completed"
    BY <1>1, <1>4 DEF TypeOK, RequestMove, RequestStep, Begin, BeginRevoke, Write, WriteLocale, Create,
                Insert, Revoke, Abort, tables
  <2>2. op[r] # "none"
    BY <2>1 DEF TypeInv, Knows
  <2>3. QED
    BY <1>1, <2>1, <2>2, Stays DEF Fixed
<1>5. QED
  BY <1>3, <1>4 DEF Erased

LEMMA ErasureRequest ==
  ASSUME ErasureInv, NEW x \in Requests, RequestMove(x), NEW u \in Users
  PROVE  (\A g \in Purges : HeldKnown(g, u)') /\ ErasedCleared(u)'
<1>1. TypeInv /\ TypeOK /\ [Next]_vars /\ Knows(x)
  BY DEF ErasureInv, TypeInv, Next, RequestMove
<1>2. /\ \A y : Overlapped(y) => Overlapped(y)'
      /\ \A y : Blamed(y) => Blamed(y)'
      /\ Reactivated(u) => Reactivated(u)'
  BY <1>1, BlameStays
<1>3. /\ \A y \in Requests \ {x} : Same(y)
      /\ pc[x] # "new" => Fixed(x)
      /\ held' = held /\ doomed' = doomed
  BY <1>1, RequestFrame DEF purging
<1>4. /\ \A y \in Rows(u)' :
            y \in Rows(u) \/ (y = x /\ pc[x] = "insert" /\ target[x] = u /\ Record(x, {u}))
      /\ Erased(u)' => Erased(u)
  BY <1>1, RequestAdds
\* The columns x has written
<1>5. ASSUME account'[u] # account[u]
      PROVE  /\ u = target[x] /\ Fixed(x) /\ pc[x] \in {"write", "locale"} /\ Convicted(x, u)
             /\ account'[u].is_active => account[u].is_active \/ op[x] = "activate"
             /\ \A c \in Personal : \/ account'[u][c] \in {account[u][c], "cleared"}
                                    \/ account'[u][c] = x /\ (op[x] \in AdminOps => op[x] = "rename")
  <2>1. /\ u = target[x] /\ Fixed(x) /\ pc[x] \in {"write", "locale"} /\ Convicted(x, u)
        /\ Wrote(x, u) \/ (WroteLocale(x, u) /\ op[x] = "profile")
    BY <1>1, <1>5, RequestConvicted
  <2>2. CASE Wrote(x, u)
    BY <2>1, <2>2 DEF Wrote, WroteRole, WroteData
  <2>3. CASE WroteLocale(x, u) /\ op[x] = "profile"
    BY <2>1, <2>3 DEF WroteLocale, Columns, AdminOps
  <2>4. QED
    BY <2>1, <2>2, <2>3
<1>6. account'[u].is_active => account[u].is_active \/ Reactivated(u)'
  BY <1>5 DEF Reactivated, Fixed
<1>7. ASSUME NEW g \in Purges PROVE HeldKnown(g, u)'
  <2> SUFFICES ASSUME held[g][u] # None
               PROVE  HeldColumns(g, u)' /\ HeldRows(g, u)' /\ HeldActive(g, u)'
    BY <1>3 DEF HeldKnown
  <2>1. HeldColumns(g, u) /\ HeldRows(g, u) /\ HeldActive(g, u) /\ x # g
    BY Constants DEF ErasureInv, HeldKnown
  <2>2. ASSUME Record(x, {u}) PROVE Overlapped(x)'
    BY <2>1, <2>2, Recorded DEF Overlapped
  <2>3. HeldColumns(g, u)'
    <3>1. account'[u] # account[u] => Blamed(x)'
      BY <1>5, <2>1 DEF Convicted, Overlapped, Blamed
    <3>2. QED
      BY <1>2, <1>3, <1>5, <2>1, <3>1 DEF HeldColumns
  <2>4. HeldRows(g, u)'
    BY <1>2, <1>3, <1>4, <2>1, <2>2 DEF HeldRows
  <2>5. HeldActive(g, u)'
    BY <1>2, <1>3, <1>6, <2>1 DEF HeldActive
  <2>6. QED
    BY <2>3, <2>4, <2>5
<1>8. ErasedCleared(u)'
  <2> SUFFICES ASSUME Erased(u)', ~Reactivated(u)' PROVE Cleared(u)'
    BY DEF ErasedCleared
  <2>1. Cleared(u)
    BY <1>2, <1>4 DEF ErasureInv, ErasedCleared
  <2>2. ~account'[u].is_active
    BY <1>6, <2>1 DEF Cleared
  <2>3. ASSUME NEW c \in Personal PROVE account'[u][c] = "cleared" \/ \E y \in Requests : account'[u][c] = y /\ Blamed(y)'
    <3>1. CASE account'[u][c] \in {account[u][c], "cleared"}
      BY <1>2, <2>1, <3>1 DEF Cleared, Blamed
    <3>2. CASE account'[u] # account[u] /\ account'[u][c] = x /\ (op[x] \in AdminOps => op[x] = "rename")
      <4>1. Overlapped(x) \/ op[x] = "rename"
        BY <1>5, <2>1, <3>2 DEF Cleared, Active
      <4>2. QED
        BY <1>2, <3>2, <4>1 DEF Blamed
    <3>3. QED
      BY <1>5, <3>1, <3>2
  <2>4. ASSUME NEW y \in Rows(u)' PROVE Overlapped(y)'
    <3>1. CASE y \in Rows(u)
      BY <1>2, <2>1, <3>1 DEF Cleared
    <3>2. CASE y = x /\ pc[x] = "insert" /\ target[x] = u
      <4>1. Active(x, u)
        BY <1>1, <3>2 DEF Knows, InsertOps, Active, AdminOps
      <4>2. QED
        BY <1>2, <2>1, <3>2, <4>1 DEF Cleared
    <3>3. QED
      BY <1>4, <2>4, <3>1, <3>2
  <2>5. ASSUME NEW y \in Requests, Active(y, u)' PROVE Overlapped(y)'
    <3>1. CASE y # x \/ pc[x] # "new"
      <4>1. Active(y, u)
        BY <1>1, <1>3, <2>5, <3>1, RequestFrame DEF Same, Fixed, Active
      <4>2. QED
        BY <1>2, <2>1, <4>1 DEF Cleared
    <3>2. CASE y = x /\ pc[x] = "new"
      <4>1. account[u].is_active
        <5>1. ASSUME NEW o \in Operations[x], NEW a \in Users, NEW v \in Users, Begin(x, o, a, v)
              PROVE  account[u].is_active
          BY <1>1, <2>5, <3>2, <5>1 DEF Begin, TypeOK, Active
        <5>2. ASSUME NEW z \in Requests \cup Users, BeginRevoke(x, z)
              PROVE  account[u].is_active
          BY <1>1, <2>5, <3>2, <5>2 DEF BeginRevoke, TypeOK, Active
        <5>3. CASE Abort(x)
          BY <3>2, <5>3 DEF Abort
        <5>4. QED
          BY <3>2, <5>1, <5>2, <5>3 DEF RequestMove, RequestStep, Write, WriteLocale, Create, Insert, Revoke
      <4>2. QED
        BY <2>1, <4>1 DEF Cleared
    <3>3. QED
      BY <3>1, <3>2
  <2>6. QED
    BY <2>2, <2>3, <2>4, <2>5 DEF Cleared, Blamed, Overlapped
<1>9. QED
  BY <1>7, <1>8

LEMMA ErasurePurge ==
  ASSUME ErasureInv, NEW g \in Purges, PurgeMove(g), NEW u \in Users
  PROVE  (\A f \in Purges : HeldKnown(f, u)') /\ ErasedCleared(u)'
<1>1. TypeInv /\ TypeOK /\ [Next]_vars
  BY DEF ErasureInv, TypeInv, Next, PurgeMove
<1>2. /\ \A y : Overlapped(y) => Overlapped(y)'
      /\ \A y : Blamed(y) => Blamed(y)'
      /\ Reactivated(u) => Reactivated(u)'
  BY <1>1, BlameStays
<1>3. /\ \A y \in Requests : Same(y) /\ Fixed(y)
      /\ \A f \in Purges \ {g} : SamePurge(f)
      /\ UNCHANGED request
  BY <1>1, PurgeFrame
<1>4. \A y \in Rows(u)' : y \in Rows(u)
  <2>1. sessions' \subseteq sessions /\ api_keys' \subseteq api_keys
    BY DEF PurgeMove, PurgeStep, FindDue, PurgeUser, PurgeFails, PurgeCommit, Crash, tables
  <2>2. QED
    BY <1>1, <2>1, OwnerStays DEF Rows
<1>5. ASSUME account'[u] # account[u]
      PROVE  held[g][u] # None /\ PurgeCommit(g) /\ WroteRow(g, u)
  BY <1>1, <1>5, PurgeConvicted
<1>6. /\ account'[u].is_active => account[u].is_active
      /\ \A c \in Personal : account'[u][c] \in {account[u][c], "cleared"}
  BY <1>5 DEF WroteRow
\* What g held before goes on to be known, whatever it loads now
<1>7. ASSUME NEW f \in Purges, held[f][u] # None, held'[f][u] = held[f][u], doomed[f] \subseteq doomed'[f]
      PROVE  HeldKnown(f, u)'
  <2>1. HeldColumns(f, u) /\ HeldRows(f, u) /\ HeldActive(f, u)
    BY <1>7 DEF ErasureInv, HeldKnown
  <2>2. HeldColumns(f, u)'
    BY <1>2, <1>6, <1>7, <2>1 DEF HeldColumns
  <2>3. HeldRows(f, u)'
    BY <1>2, <1>4, <1>7, <2>1 DEF HeldRows
  <2>4. HeldActive(f, u)'
    BY <1>2, <1>6, <1>7, <2>1 DEF HeldActive
  <2>5. QED
    BY <2>2, <2>3, <2>4 DEF HeldKnown
<1>8. ASSUME NEW f \in Purges PROVE HeldKnown(f, u)'
  <2>1. CASE f # g
    BY <1>3, <1>7, <2>1 DEF SamePurge, HeldKnown
  <2>2. CASE f = g /\ held'[g][u] = None
    BY <2>2 DEF HeldKnown
  <2>3. CASE f = g /\ held'[g][u] # None
    <3>1. FindDue(g) \/ \E r \in Requests : PurgeUser(g, r)
      BY <1>1, <2>3 DEF TypeOK, PurgeMove, PurgeStep, PurgeFails, PurgeCommit, Crash, Rollback, Nobody
    <3>2. CASE FindDue(g)
      BY <1>7, <2>3, <3>2 DEF FindDue, HeldKnown
    <3>3. ASSUME NEW r \in Requests, PurgeUser(g, r) PROVE HeldKnown(g, u)'
      <4>1. /\ doomed[g] \subseteq doomed'[g]
            /\ held[g][u] # None => held'[g][u] = held[g][u]
            /\ held[g][u] = None => u = target[r] /\ held'[g][u] = account[u] /\ Rows(u) \subseteq doomed'[g]
            /\ account' = account
        BY <1>1, <2>3, <3>3 DEF TypeOK, PurgeUser, tables
      <4>2. CASE held[g][u] # None
        BY <1>7, <4>1, <4>2
      <4>3. CASE held[g][u] = None
        BY <1>4, <4>1, <4>3 DEF HeldKnown, HeldColumns, HeldRows, HeldActive
      <4>4. QED
        BY <4>2, <4>3
    <3>4. QED
      BY <2>3, <3>1, <3>2, <3>3
  <2>4. QED
    BY <2>1, <2>2, <2>3
<1>9. ErasedCleared(u)'
  <2> SUFFICES ASSUME Erased(u)', ~Reactivated(u)' PROVE Cleared(u)'
    BY DEF ErasedCleared
  <2>1. \A y \in Requests : Active(y, u)' => Active(y, u)
    BY <1>3 DEF Same, Active
  <2>2. CASE PurgeCommit(g) /\ held[g][u] # None
    <3>1. HeldColumns(g, u) /\ HeldRows(g, u) /\ HeldActive(g, u)
      BY <2>2 DEF ErasureInv, HeldKnown
    <3>2. WroteRow(g, u) /\ Convicted(g, u)
      BY <1>1, <2>2, CommitConvicted
    <3>3. ~account'[u].is_active
      BY <1>2, <3>1, <3>2 DEF HeldActive, WroteRow
    <3>4. \A c \in Personal : \/ account'[u][c] = "cleared"
                             \/ \E y \in Requests : account'[u][c] = y /\ Blamed(y)'
      BY <1>2, <3>1, <3>2 DEF HeldColumns, WroteRow, Blamed
    <3>5. \A y \in Rows(u)' : Overlapped(y)'
      <4>1. \A y \in Rows(u)' : y \notin doomed[g]
        BY <2>2 DEF PurgeCommit, Rows
      <4>2. QED
        BY <1>2, <1>4, <3>1, <4>1 DEF HeldRows
    <3>6. \A y \in Requests : Active(y, u)' => Overlapped(y)'
      BY <2>1, <3>2, Constants DEF Convicted, Working, Active, Overlapped
    <3>7. QED
      BY <3>3, <3>4, <3>5, <3>6 DEF Cleared, Blamed, Overlapped
  <2>3. CASE ~(PurgeCommit(g) /\ held[g][u] # None)
    <3>1. account'[u] = account[u]
      BY <1>5, <2>3
    <3>2. Erased(u)
      <4>1. PICK r \in Requests : target'[r] = u /\ deletions'[r] = "completed"
        BY DEF Erased
      <4>2. target[r] = u
        BY <1>3, <4>1 DEF Fixed
      <4>3. CASE PurgeCommit(g)
        <5>1. r \notin settled[g]
          BY <1>1, <2>3, <4>2, <4>3 DEF TypeInv, Purged
        <5>2. QED
          BY <4>1, <4>2, <4>3, <5>1 DEF PurgeCommit, Erased
      <4>4. CASE ~PurgeCommit(g)
        <5>1. deletions[r] = "completed"
          BY <1>1, <4>1, <4>4 DEF TypeOK, PurgeMove, PurgeStep, FindDue, PurgeUser, PurgeFails, Crash, tables
        <5>2. QED
          BY <4>2, <5>1 DEF Erased
      <4>5. QED
        BY <4>3, <4>4
    <3>3. Cleared(u)
      BY <1>2, <3>2 DEF ErasureInv, ErasedCleared
    <3>4. QED
      BY <1>2, <1>4, <2>1, <3>1, <3>3 DEF Cleared
  <2>4. QED
    BY <2>2, <2>3
<1>10. QED
  BY <1>8, <1>9

LEMMA ErasureInit == Init => ErasureInv
<1> SUFFICES ASSUME Init PROVE ErasureInv
  OBVIOUS
<1>1. \A g \in Purges, u \in Users : HeldKnown(g, u)
  BY DEF Init, HeldKnown, Nobody
<1>2. \A u \in Users : ErasedCleared(u)
  BY DEF Init, ErasedCleared, Erased
<1>3. QED
  BY <1>1, <1>2, TypeInit DEF ErasureInv

LEMMA ErasureStep == ErasureInv /\ [Next]_vars => ErasureInv'
<1> SUFFICES ASSUME ErasureInv, [Next]_vars PROVE ErasureInv'
  OBVIOUS
<1>1. TypeInv'
  BY TypeStep DEF ErasureInv
<1>2. ASSUME UNCHANGED <<tables, pc, request, purging, overlaps>> PROVE ErasureInv'
  <2>1. UNCHANGED <<account, sessions, api_keys, deletions, pc, op, target, held, doomed, overlaps>>
    BY <1>2 DEF tables, request, purging
  <2>2. /\ \A x : (Overlapped(x)' <=> Overlapped(x)) /\ Owner(x)' = Owner(x)
        /\ \A u : (Reactivated(u)' <=> Reactivated(u)) /\ (Erased(u)' <=> Erased(u))
    BY <2>1 DEF Overlapped, Owner, Reactivated, Erased
  <2>3. \A u : Rows(u)' = Rows(u)
    BY <2>1, <2>2 DEF Rows
  <2>4. ASSUME NEW g \in Purges, NEW u \in Users PROVE HeldKnown(g, u)'
    <3>1. HeldColumns(g, u) => HeldColumns(g, u)'
      BY <2>1 DEF HeldColumns, Blamed, Overlapped
    <3>2. (HeldRows(g, u) => HeldRows(g, u)') /\ (HeldActive(g, u) => HeldActive(g, u)')
      BY <2>1, <2>2, <2>3 DEF HeldRows, HeldActive
    <3>3. QED
      BY <2>1, <3>1, <3>2 DEF ErasureInv, HeldKnown
  <2>5. ASSUME NEW u \in Users PROVE ErasedCleared(u)'
    <3>1. Cleared(u) => Cleared(u)'
      BY <2>1, <2>2, <2>3 DEF Cleared, Active, Blamed, Overlapped
    <3>2. QED
      BY <2>2, <3>1 DEF ErasureInv, ErasedCleared
  <2>6. QED
    BY <1>1, <2>4, <2>5 DEF ErasureInv
<1>3. CASE UNCHANGED vars
  BY <1>2, <1>3 DEF vars
<1>4. ASSUME NEW x \in Requests, FallDue(x) PROVE ErasureInv'
  BY <1>2, <1>4 DEF FallDue
<1>5. ASSUME NEW x \in Requests, RequestMove(x) PROVE ErasureInv'
  BY <1>1, <1>5, ErasureRequest DEF ErasureInv
<1>6. ASSUME NEW g \in Purges, PurgeMove(g) PROVE ErasureInv'
  BY <1>1, <1>6, ErasurePurge DEF ErasureInv
<1>7. QED
  BY <1>3, <1>4, <1>5, <1>6 DEF Next, RequestMove, PurgeMove

\* What a user whose deletion is completed still has was written by a request that
\* overlapped the purge, or by an administrator's patch: any number of purges may
\* run at once.
THEOREM ErasureComplete == Spec => []ErasureIsComplete
<1>1. ErasureInv => ErasureIsComplete
  <2> SUFFICES ASSUME ErasureInv, NEW r \in Requests, deletions[r] = "completed",
                      ~Reactivated(target[r])
               PROVE  /\ \A c \in Personal : LET x == account[target[r]][c] IN
                           x = "cleared" \/ (x \in Requests /\ (Overlapped(x) \/ op[x] = "rename"))
                      /\ \A x \in Rows(target[r]) : Overlapped(x)
    BY DEF ErasureIsComplete
  <2>1. target[r] \in Users /\ Erased(target[r])
    BY DEF ErasureInv, TypeInv, Knows, Erased
  <2>2. Cleared(target[r])
    BY <2>1 DEF ErasureInv, ErasedCleared
  <2>3. QED
    BY <2>2 DEF Cleared, Blamed
<1>2. QED
  BY <1>1, ErasureInit, ErasureStep, PTL DEF Spec
--------------------------------------------------------------------------------
(* What a deletion leaves no trace of, and who is left to administer           *)

\* No two messages of the hourly task are worked on at once.  With two, the one that
\* has listed a deletion the other completes may fail on it and mark it failed.
OnePurge == \A f, g \in Purges : f = g

\* What a purge has still to do is pending
BatchIsPending == \A g \in Purges : \A r \in batch[g] : deletions[r] = "pending"

Completed(u) == \E r \in Requests : target[r] = u /\ deletions[r] = "completed"

RecordInv ==
  /\ TypeInv /\ BatchIsPending
  /\ \A u \in Users : account[u].email = "cleared" => Completed(u)

\* A completed deletion stays so
LEMMA CompletedStays ==
  ASSUME TypeInv, BatchIsPending, [Next]_vars, NEW r \in Requests, deletions[r] = "completed"
  PROVE  deletions'[r] = "completed" /\ target'[r] = target[r]
<1>1. op[r] # "none" /\ pc[r] = "done" /\ TypeOK
  BY DEF TypeInv, Knows
<1>2. target'[r] = target[r]
  BY <1>1, Stays DEF Fixed
<1>3. CASE UNCHANGED vars
  BY <1>2, <1>3 DEF vars, tables
<1>4. ASSUME NEW x \in Requests, RequestMove(x) PROVE deletions'[r] = "completed"
  BY <1>1, <1>4 DEF TypeOK, RequestMove, RequestStep, Begin, BeginRevoke, Write, WriteLocale, Create,
                    Insert, Revoke, Abort, tables
<1>5. ASSUME NEW x \in Requests, FallDue(x) PROVE deletions'[r] = "completed"
  BY <1>5 DEF FallDue, tables
<1>6. ASSUME NEW g \in Purges, PurgeMove(g) PROVE deletions'[r] = "completed"
  <2>1. r \notin batch[g]
    BY DEF BatchIsPending
  <2>2. QED
    BY <1>1, <1>6, <2>1 DEF TypeOK, PurgeMove, PurgeStep, FindDue, PurgeUser, PurgeFails, PurgeCommit,
                            Crash, tables
<1>7. QED
  BY <1>2, <1>3, <1>4, <1>5, <1>6 DEF Next, RequestMove, PurgeMove

LEMMA PendingStep ==
  ASSUME OnePurge, TypeInv, BatchIsPending, [Next]_vars
  PROVE  BatchIsPending'
<1> USE DEF BatchIsPending, TypeInv, TypeOK
<1>1. CASE UNCHANGED vars
  BY <1>1 DEF vars, tables, purging
<1>2. ASSUME NEW x \in Requests, RequestMove(x) PROVE BatchIsPending'
  <2>1. batch' = batch /\ \A y \in Requests : deletions[y] = "pending" => deletions'[y] = "pending"
    BY <1>2 DEF RequestMove, RequestStep, Begin, BeginRevoke, Write, WriteLocale, Create,
                Insert, Revoke, Abort, tables, purging
  <2>2. QED
    BY <2>1
<1>3. ASSUME NEW x \in Requests, FallDue(x) PROVE BatchIsPending'
  BY <1>3 DEF FallDue, tables, purging
<1>4. ASSUME NEW g \in Purges, PurgeMove(g) PROVE BatchIsPending'
  <2>1. \A f \in Purges : f = g
    BY DEF OnePurge
  <2>2. CASE FindDue(g) \/ Crash(g)
    BY <2>1, <2>2 DEF FindDue, Crash, tables
  <2>3. CASE PurgeCommit(g)
    BY <2>1, <2>3 DEF PurgeCommit
  <2>4. ASSUME NEW r \in Requests, PurgeUser(g, r) \/ PurgeFails(g, r) PROVE BatchIsPending'
    BY <2>1, <2>4 DEF PurgeUser, PurgeFails, tables
  <2>5. QED
    BY <1>4, <2>2, <2>3, <2>4 DEF PurgeMove, PurgeStep
<1>5. QED
  BY <1>1, <1>2, <1>3, <1>4 DEF Next, RequestMove, PurgeMove

\* Only a commit of a purge changes the row of a user it holds, and it completes
LEMMA CommitCompletes ==
  ASSUME TypeInv, NEW g \in Purges, PurgeMove(g), NEW u \in Users, account'[u] # account[u]
  PROVE  Completed(u)'
<1>1. held[g][u] # None /\ PurgeCommit(g)
  BY PurgeConvicted
<1>2. PICK r \in settled[g] : target[r] = u
  BY <1>1 DEF TypeInv, Purged
<1>3. r \in Requests /\ deletions'[r] = "completed" /\ target'[r] = u
  BY <1>1, <1>2, SettledDone DEF PurgeCommit, request
<1>4. QED
  BY <1>3 DEF Completed

LEMMA RecordInit == Init => RecordInv
<1> SUFFICES ASSUME Init PROVE RecordInv
  OBVIOUS
<1>1. \A u \in Users : account[u].email # "cleared"
  BY DEF Init, NewAccount, Personal
<1>2. BatchIsPending
  BY DEF Init, BatchIsPending
<1>3. QED
  BY <1>1, <1>2, TypeInit DEF RecordInv

LEMMA RecordStep == OnePurge /\ RecordInv /\ [Next]_vars => RecordInv'
<1> SUFFICES ASSUME OnePurge, RecordInv, [Next]_vars PROVE RecordInv'
  OBVIOUS
<1>1. TypeInv /\ TypeInv' /\ BatchIsPending'
  BY TypeStep, PendingStep DEF RecordInv
<1>2. \A u : Completed(u) => Completed(u)'
  BY CompletedStays DEF RecordInv, Completed
<1>3. ASSUME NEW u \in Users, account'[u].email = "cleared" PROVE Completed(u)'
  <2>1. CASE account'[u].email = account[u].email
    BY <1>2, <1>3, <2>1 DEF RecordInv
  <2>2. CASE account'[u].email # account[u].email
    <3>1. account'[u] # account[u]
      BY <2>2
    <3>2. ~UNCHANGED vars /\ \A x \in Requests : ~FallDue(x)
      BY <3>1 DEF vars, FallDue, tables
    <3>3. ASSUME NEW x \in Requests, RequestMove(x) PROVE FALSE
      <4>1. Wrote(x, u) \/ WroteLocale(x, u)
        BY <1>1, <3>1, <3>3, RequestConvicted
      <4>2. QED
        BY <2>2, <4>1 DEF Wrote, WroteData, WroteLocale, Columns, Personal
    <3>4. QED
      BY <1>1, <3>1, <3>2, <3>3, CommitCompletes DEF Next, RequestMove, PurgeMove
  <2>3. QED
    BY <2>1, <2>2
<1>4. QED
  BY <1>1, <1>3 DEF RecordInv

\* An anonymised user has a completed deletion, through failures and rollbacks, when
\* one purge runs at a time.
THEOREM ErasureRecorded ==
  ASSUME OnePurge
  PROVE  Spec => []ErasureIsRecorded
<1>1. RecordInv => ErasureIsRecorded
  BY DEF RecordInv, ErasureIsRecorded, Completed
<1>2. RecordInv /\ [Next]_vars => RecordInv'
  BY RecordStep
<1>3. QED
  BY <1>1, <1>2, RecordInit, PTL DEF Spec

Administrator(u) == u \in members /\ account[u].is_active /\ account[u].role = "admin"
Removing(x)      == op[x] \in {"demote", "deactivate"}

Excepted ==
  \/ \E x \in Requests : op[x] = "demote" /\ actor[x] = target[x]
  \/ \E x \in Requests : deletions[x] = "completed"
  \/ \E x, y \in Requests : <<x, y>> \in overlaps /\ {op[x], op[y]} \subseteq {"demote", "deactivate"}

\* Who is about to remove an administrator is another one, still
RemoverStays(x) ==
  pc[x] = "write" /\ Removing(x) => Administrator(actor[x]) /\ actor[x] # target[x]

AdministratorInv ==
  /\ TypeInv /\ BatchIsPending
  /\ Excepted \/ \A x \in Requests : RemoverStays(x)
  /\ Excepted \/ \E u \in Users : Administrator(u)

LEMMA AdministratorInit == Init => AdministratorInv
<1> SUFFICES ASSUME Init PROVE AdministratorInv
  OBVIOUS
<1>1. BatchIsPending
  BY DEF Init, BatchIsPending
<1>2. Administrator(First)
  BY Constants DEF Init, Administrator, NewAccount, Personal
<1>3. \A x \in Requests : RemoverStays(x)
  BY Constants DEF Init, RemoverStays
<1>4. QED
  BY <1>1, <1>2, <1>3, TypeInit, Constants DEF AdministratorInv

LEMMA ExceptedStays ==
  ASSUME TypeInv, BatchIsPending, [Next]_vars, Excepted
  PROVE  Excepted'
<1>1. overlaps \subseteq overlaps' /\ \A y \in Requests : op[y] # "none" => Fixed(y)
  BY Stays
<1>2. CASE \E x \in Requests : op[x] = "demote" /\ actor[x] = target[x]
  BY <1>1, <1>2 DEF Excepted, Fixed
<1>3. CASE \E x \in Requests : deletions[x] = "completed"
  BY <1>3, CompletedStays DEF Excepted
<1>4. ASSUME NEW x \in Requests, NEW y \in Requests, <<x, y>> \in overlaps,
             {op[x], op[y]} \subseteq {"demote", "deactivate"}
      PROVE  Excepted'
  <2>1. Fixed(x) /\ Fixed(y)
    BY <1>1, <1>4
  <2>2. QED
    BY <1>1, <1>4, <2>1 DEF Excepted, Fixed
<1>5. QED
  BY <1>2, <1>3, <1>4 DEF Excepted

\* An administrator who is none any more was removed by a request that is not about
\* the one who made it, and all who work on that row are convicted
LEMMA Removed ==
  ASSUME TypeInv, NEW x \in Requests, RequestMove(x), NEW u \in Users, Administrator(u), ~Administrator(u)'
  PROVE  /\ u = target[x] /\ Fixed(x) /\ pc[x] = "write" /\ Removing(x) /\ Convicted(x, u)
         /\ \A v \in Users \ {u} : account'[v] = account[v]
<1>1. members \subseteq members'
  BY DEF RequestMove, RequestStep, Begin, BeginRevoke, Write, WriteLocale, Create, Insert, Revoke,
         Abort, tables
<1>2. account'[u] # account[u]
  BY <1>1 DEF Administrator
<1>3. /\ u = target[x] /\ Fixed(x) /\ pc[x] \in {"write", "locale"} /\ Convicted(x, u)
      /\ Wrote(x, u) \/ WroteLocale(x, u)
  BY <1>2, RequestConvicted
<1>4. Wrote(x, u) /\ Removing(x)
  BY <1>1, <1>3 DEF Administrator, Wrote, WroteRole, WroteLocale, Columns, Personal, Removing
<1>5. pc[x] = "write"
  BY <1>3, <1>4 DEF TypeInv, Knows, Removing
<1>6. \A v \in Users \ {u} : account'[v] = account[v]
  BY <1>3, RequestWrites
<1>7. QED
  BY <1>3, <1>4, <1>5, <1>6

LEMMA AdministratorRequest ==
  ASSUME AdministratorInv, NEW x \in Requests, RequestMove(x), ~Excepted'
  PROVE  (\A y \in Requests : RemoverStays(y)') /\ \E u \in Users : Administrator(u)'
<1>1. TypeInv /\ TypeOK /\ [Next]_vars
  BY DEF AdministratorInv, TypeInv, Next, RequestMove
<1>2. ~Excepted
  BY <1>1, ExceptedStays DEF AdministratorInv
<1>3. /\ \A y \in Requests \ {x} : Same(y)
      /\ pc[x] # "new" => Fixed(x)
  BY <1>1, RequestFrame
<1>4. members \subseteq members'
  BY DEF RequestMove, RequestStep, Begin, BeginRevoke, Write, WriteLocale, Create, Insert, Revoke,
         Abort, tables
<1>5. \E u \in Users : Administrator(u)'
  <2>1. PICK u \in Users : Administrator(u)
    BY <1>2 DEF AdministratorInv
  <2>2. CASE ~Administrator(u)'
    <3>1. u = target[x] /\ pc[x] = "write" /\ Removing(x) /\ \A v \in Users \ {u} : account'[v] = account[v]
      BY <1>1, <2>1, <2>2, Removed
    <3>2. Administrator(actor[x]) /\ actor[x] # u /\ actor[x] \in Users
      BY <1>1, <1>2, <3>1 DEF AdministratorInv, RemoverStays, TypeInv, Knows
    <3>3. \E v \in Users : v = actor[x] /\ Administrator(v)'
      BY <1>4, <3>1, <3>2 DEF Administrator
    <3>4. QED
      BY <3>3
  <2>3. QED
    BY <2>1, <2>2
<1>6. ASSUME NEW y \in Requests \ {x} PROVE RemoverStays(y)'
  <2> SUFFICES ASSUME pc[y] = "write", Removing(y) PROVE RemoverStays(y)'
    BY <1>3 DEF Same, RemoverStays, Removing
  <2>1. Administrator(actor[y]) /\ actor[y] # target[y] /\ actor[y] \in Users
    BY <1>1, <1>2 DEF AdministratorInv, RemoverStays, TypeInv, Knows
  <2>2. PICK a \in Users : a = actor[y]
    BY <2>1
  <2>3. Administrator(a)'
    <3> SUFFICES ASSUME ~Administrator(a)' PROVE FALSE
      OBVIOUS
    <3>1. Fixed(x) /\ Removing(x) /\ Convicted(x, a)
      BY <1>1, <2>1, <2>2, Removed
    <3>2. <<x, y>> \in overlaps'
      BY <2>2, <3>1 DEF Convicted, Working
    <3>3. QED
      BY <1>3, <3>1, <3>2 DEF Excepted, Removing, Fixed, Same
  <2>4. actor'[y] = a /\ target'[y] = target[y]
    BY <1>3, <2>2 DEF Same
  <2>5. QED
    BY <2>1, <2>2, <2>3, <2>4 DEF RemoverStays, Administrator
<1>7. RemoverStays(x)'
  <2> SUFFICES ASSUME pc'[x] = "write", op'[x] \in {"demote", "deactivate"} PROVE RemoverStays(x)'
    BY DEF RemoverStays, Removing
  <2>1. PICK o \in Operations[x], a \in Users, u \in Users : Begin(x, o, a, u)
    BY <1>1, WriteBegins
  <2>2. /\ op'[x] = o /\ actor'[x] = a /\ target'[x] = u /\ account' = account /\ members' = members
        /\ a \in members /\ account[a].is_active
    BY <1>1, <2>1 DEF Begin, TypeOK, tables
  <2>3. account[a].role = "admin" /\ (o = "deactivate" => a # u)
    BY <2>1, <2>2 DEF Begin, AdminOps, Allowed, Acceptable
  <2>4. o = "demote" => a # u
    BY <2>2 DEF Excepted
  <2>5. QED
    BY <2>2, <2>3, <2>4 DEF RemoverStays, Administrator
<1>8. QED
  BY <1>5, <1>6, <1>7

LEMMA AdministratorPurge ==
  ASSUME AdministratorInv, NEW g \in Purges, PurgeMove(g), ~Excepted'
  PROVE  (\A y \in Requests : RemoverStays(y)') /\ \E u \in Users : Administrator(u)'
<1>1. TypeInv /\ [Next]_vars
  BY DEF AdministratorInv, Next, PurgeMove
<1>2. ~Excepted
  BY <1>1, ExceptedStays DEF AdministratorInv
<1>3. \A u \in Users : account'[u] = account[u]
  BY <1>1, CommitCompletes DEF Completed, Excepted
<1>4. /\ \A y \in Requests : Same(y)
      /\ members' = members
  BY <1>1, PurgeFrame
<1>5. \A u \in Users : Administrator(u) => Administrator(u)'
  BY <1>3, <1>4 DEF Administrator
<1>6. ASSUME NEW y \in Requests PROVE RemoverStays(y)'
  <2> SUFFICES ASSUME pc[y] = "write", Removing(y) PROVE RemoverStays(y)'
    BY <1>4 DEF Same, RemoverStays, Removing
  <2>1. Administrator(actor[y]) /\ actor[y] # target[y] /\ actor[y] \in Users
    BY <1>1, <1>2 DEF AdministratorInv, RemoverStays, TypeInv, Knows
  <2>2. QED
    BY <1>3, <1>4, <2>1 DEF RemoverStays, Administrator, Same
<1>7. QED
  BY <1>2, <1>5, <1>6 DEF AdministratorInv

LEMMA AdministratorStep == OnePurge /\ AdministratorInv /\ [Next]_vars => AdministratorInv'
<1> SUFFICES ASSUME OnePurge, AdministratorInv, [Next]_vars PROVE AdministratorInv'
  OBVIOUS
<1>1. TypeInv /\ TypeInv' /\ BatchIsPending'
  BY TypeStep, PendingStep DEF AdministratorInv
<1>2. ASSUME UNCHANGED <<tables, pc, request, purging, overlaps>> PROVE AdministratorInv'
  BY <1>1, <1>2 DEF AdministratorInv, RemoverStays, Removing, Administrator, Excepted, tables, request
<1>3. CASE UNCHANGED vars
  BY <1>2, <1>3 DEF vars
<1>4. ASSUME NEW x \in Requests, FallDue(x) PROVE AdministratorInv'
  BY <1>2, <1>4 DEF FallDue
<1>5. ASSUME NEW x \in Requests, RequestMove(x) PROVE AdministratorInv'
  BY <1>1, <1>5, AdministratorRequest DEF AdministratorInv
<1>6. ASSUME NEW g \in Purges, PurgeMove(g) PROVE AdministratorInv'
  BY <1>1, <1>6, AdministratorPurge DEF AdministratorInv
<1>7. QED
  BY <1>3, <1>4, <1>5, <1>6 DEF Next, RequestMove, PurgeMove

\* The tenant keeps an active administrator, when one purge runs at a time, unless one
\* demoted the own account, a deletion was completed, or two administrators changed
\* each other at once.
THEOREM AdministratorKept ==
  ASSUME OnePurge
  PROVE  Spec => []AdministratorLeft
<1>1. AdministratorInv => AdministratorLeft
  BY DEF AdministratorInv, AdministratorLeft, Excepted, Administrator
<1>2. AdministratorInv /\ [Next]_vars => AdministratorInv'
  BY AdministratorStep
<1>3. QED
  BY <1>1, <1>2, AdministratorInit, PTL DEF Spec


================================================================================

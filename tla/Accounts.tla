------------------------------ MODULE Accounts ------------------------------
(***************************************************************************)
(* SystemService's user administration and self-registration: t_user,      *)
(* t_account and t_user_role, written in PostgreSQL transactions at READ   *)
(* COMMITTED.  A step is one statement: reads see what is committed, a     *)
(* statement that meets a row another transaction has written waits, and   *)
(* what a transaction wrote becomes visible when it commits.               *)
(*                                                                         *)
(* Columns nothing decides on (display name, department, status of the     *)
(* user, ...) are left out.  A process crash is a Fail of every request in *)
(* flight.                                                                 *)
(***************************************************************************)
EXTENDS Naturals, FiniteSets

CONSTANTS
    Reqs,       \* requests in flight at once
    Uids,       \* ids idgen.New() can hand out to users (bounds the creations)
    Names,      \* auth_account
    Secrets,    \* passwords; the bcrypt hash of one identifies it
    Roles,      \* t_role ids
    SeedUid, SeedName, SeedSecret, SeedRole, \* migration 00002: the first admin
    None

ASSUME AccountAssumption ==
    /\ SeedUid \in Uids /\ SeedName \in Names
    /\ SeedSecret \in Secrets /\ SeedRole \in Roles
    /\ None \notin Reqs \cup Uids \cup Names \cup Secrets

VARIABLES
    users,      \* t_user
    accts,      \* t_account: the PWD account of each user
    bindings,   \* t_user_role: rows of each user, marked with the slot that wrote them
    slot        \* the request each goroutine works on

vars == <<users, accts, bindings, slot>>

RowState == {"free", "live", "deleted"}

NoAccount == [st |-> "free", name |-> None, secret |-> None]

Account == {NoAccount} \cup [st : {"live", "deleted"}, name : Names, secret : Secrets]

Binding == Roles \X (Reqs \cup {None})

\* CreateUserInput, UpdateUserInput (set: resetRoles, or roleIds is not nil) and
\* one id of a deletion.
NewUser(op, n, s, R) == [op |-> op, u |-> None, name |-> n, pw |-> s, set |-> TRUE, rids |-> R]

EditUser(u, s, b, R) == [op |-> "update", u |-> u, name |-> None, pw |-> s, set |-> b, rids |-> R]

RemoveUser(u) == [op |-> "delete", u |-> u, name |-> None, pw |-> None, set |-> FALSE, rids |-> {}]

Requests ==
    {NewUser(op, n, s, R) : op \in {"register", "create"}, n \in Names, s \in Secrets,
                            R \in SUBSET Roles}
    \cup {EditUser(u, s, b, R) : u \in Uids, s \in Secrets \cup {None},
                                 b \in BOOLEAN, R \in SUBSET Roles}
    \cup {RemoveUser(u) : u \in Uids}

ASSUME RequestAssumption == None \notin Requests

Slot == [pc      : {"idle", "count", "load", "user", "acct", "roles", "commit", "next"},
         q       : Requests \cup {None},
         u       : Uids \cup {None},           \* the row worked on
         hits    : SUBSET {"user", "acct"},    \* rows the transaction wrote, hence locks
         cleared : SUBSET Binding,             \* t_user_role rows it deleted
         added   : SUBSET Binding,             \* t_user_role rows it inserted
         rest    : SUBSET Uids]                \* ids a deletion has still to visit

At(pc, q, u, rest) ==
    [pc |-> pc, q |-> q, u |-> u, hits |-> {}, cleared |-> {}, added |-> {}, rest |-> rest]

Idle == At("idle", None, None, {})

TypeOK ==
    /\ users \in [Uids -> RowState]
    /\ accts \in [Uids -> Account]
    /\ bindings \in [Uids -> SUBSET Binding]
    /\ slot \in [Reqs -> Slot]

Init ==
    /\ users = [u \in Uids |-> IF u = SeedUid THEN "live" ELSE "free"]
    /\ accts = [u \in Uids |->
           IF u = SeedUid THEN [st |-> "live", name |-> SeedName, secret |-> SeedSecret]
           ELSE NoAccount]
    /\ bindings = [u \in Uids |-> IF u = SeedUid THEN {<<SeedRole, None>>} ELSE {}]
    /\ slot = [r \in Reqs |-> Idle]

\* register and user/create both end in CreateUser.
IsNew(q) == q.op \in {"register", "create"}

Stay == UNCHANGED <<users, accts, bindings>>

\* Bound: there is an id left for every creation in flight.
Room ==
    Cardinality({r \in Reqs : slot[r].q # None /\ IsNew(slot[r].q)})
        < Cardinality({u \in Uids : users[u] = "free"})

-------------------------------------------------------------------------------
(***************************************************************************)
(* Requests arrive.                                                        *)
(***************************************************************************)

\* POST /api/public/register
handleSKRegister(r) ==
    /\ slot[r].pc = "idle" /\ Room
    /\ \E n \in Names, s \in Secrets :
           slot' = [slot EXCEPT ![r] = At("count", NewUser("register", n, s, {}), None, {})]
    /\ Stay

\* POST /api/system/user/create: the name is not looked up.
handleSKUserCreate(r) ==
    /\ slot[r].pc = "idle" /\ Room
    /\ \E n \in Names, s \in Secrets, R \in SUBSET Roles :
           slot' = [slot EXCEPT ![r] = At("user", NewUser("create", n, s, R), None, {})]
    /\ Stay

\* POST /api/system/user/update: without set the roles are left alone, so R is {}.
handleSKUserUpdate(r) ==
    /\ slot[r].pc = "idle"
    /\ \E u \in Uids, s \in Secrets \cup {None}, b \in BOOLEAN, R \in SUBSET Roles :
           /\ ~b => R = {}
           /\ slot' = [slot EXCEPT ![r] = At("load", EditUser(u, s, b, R), u, {})]
    /\ Stay

\* POST /api/system/user/delete: ids are visited one by one, in any order here.
handleSKUserDelete(r) ==
    /\ slot[r].pc = "idle"
    /\ \E U \in (SUBSET Uids) \ {{}} :
           slot' = [slot EXCEPT ![r] = At("next", None, None, U)]
    /\ Stay

NextId(r) ==
    /\ slot[r].pc = "next"
    /\ \/ slot[r].rest = {} /\ slot' = [slot EXCEPT ![r] = Idle]
       \/ \E u \in slot[r].rest :
              slot' = [slot EXCEPT ![r] = At("load", RemoveUser(u), u, slot[r].rest \ {u})]
    /\ Stay

\* Bug: a deletion marks the account before the user.
ThenSwapped(q, pc) ==
    IF q.op = "delete"
    THEN CASE pc = "load" -> "acct" [] pc = "acct" -> "user" [] OTHER -> "commit"
    ELSE CASE pc = "load" -> "user" [] pc = "user" -> "acct"
           [] pc = "acct" -> "roles" [] OTHER -> "commit"

\* The order of the statements of CreateUser, UpdateUser and DeleteUser.
Then(q, pc) ==
    CASE pc \in {"count", "load"}             -> "user"
      [] pc = "user"                          -> "acct"
      [] pc = "acct" /\ q.op # "delete"       -> "roles"
      [] OTHER                                -> "commit"

\* The request goes on to its next statement with these rows written.
Go(r, u, hits, cleared, added) ==
    slot' = [slot EXCEPT ![r] =
        [pc |-> Then(slot[r].q, slot[r].pc), q |-> slot[r].q, u |-> u, hits |-> hits,
         cleared |-> cleared, added |-> added, rest |-> slot[r].rest]]

\* Where a request goes once one id is done with.
AfterOne(s) == IF s.q.op = "delete" THEN At("next", None, None, s.rest) ELSE Idle

-------------------------------------------------------------------------------
(***************************************************************************)
(* Statements outside the transaction.                                     *)
(***************************************************************************)

NameTaken(n) == \E u \in Uids : accts[u].st = "live" /\ accts[u].name = n

\* CountAccountsByUsername: 409 when it finds one; goes on when it does not, and
\* also when the query fails.
CountAccounts(r) ==
    /\ slot[r].pc = "count"
    /\ \/ NameTaken(slot[r].q.name) /\ slot' = [slot EXCEPT ![r] = Idle]
       \/ Go(r, None, {}, {}, {})
    /\ Stay

\* GetUserByID: ErrNotFound ends an update; a deletion goes on to its next id.
GetUserByID(r) ==
    /\ slot[r].pc = "load"
    /\ IF users[slot[r].u] = "live"
       THEN Go(r, slot[r].u, {}, {}, {})
       ELSE slot' = [slot EXCEPT ![r] = AfterOne(slot[r])]
    /\ Stay

-------------------------------------------------------------------------------
(***************************************************************************)
(* Statements of the transaction.                                          *)
(***************************************************************************)

\* Another transaction has written the row and not ended yet.
Locked(r, table) ==
    \E o \in Reqs \ {r} : slot[o].u = slot[r].u /\ table \in slot[o].hits

Fresh(u) == users[u] = "free" /\ \A o \in Reqs : slot[o].u # u

InsertUser(r) ==
    /\ slot[r].pc = "user" /\ IsNew(slot[r].q)
    /\ \E u \in Uids : Fresh(u) /\ Go(r, u, {"user"}, {}, {})
    /\ Stay

\* Rows of t_user that UPDATE ... WHERE id = $2 AND is_deleted = 0 finds.
UserHit(u) == IF users[u] = "live" THEN {"user"} ELSE {}

\* UpdateUser and SoftDeleteUser.
WriteUser(r) ==
    /\ slot[r].pc = "user" /\ ~IsNew(slot[r].q)
    /\ ~Locked(r, "user")
    /\ Go(r, slot[r].u, slot[r].hits \cup UserHit(slot[r].u), {}, {})
    /\ Stay

InsertAccount(r) ==
    /\ slot[r].pc = "acct" /\ IsNew(slot[r].q)
    /\ Go(r, slot[r].u, slot[r].hits \cup {"acct"}, {}, {})
    /\ Stay

\* Bug: a deletion forgets the account.
WritesAccountNoCascade(q) == q.pw # None

\* Bug: an empty password is hashed and stored as well.
WritesAccountAlways(q) == TRUE

\* An update without a new password runs no statement on t_account.
WritesAccount(q) == q.op = "delete" \/ q.pw # None

AcctHit(r) ==
    IF WritesAccount(slot[r].q) /\ accts[slot[r].u].st = "live" THEN {"acct"} ELSE {}

\* UpdateAccountSecret and SoftDeleteAccountForUser.
WriteAccount(r) ==
    /\ slot[r].pc = "acct" /\ ~IsNew(slot[r].q)
    /\ WritesAccount(slot[r].q) => ~Locked(r, "acct")
    /\ Go(r, slot[r].u, slot[r].hits \cup AcctHit(r), {}, {})
    /\ Stay

\* Rows ReplaceUserRoles would have to wait for: only transactions that matched no
\* row of t_user meet here, on roles of a deleted user (that only a login
\* already under way still reads, see Sessions).
RowsLocked(r) ==
    \E o \in Reqs \ {r} :
        slot[o].u = slot[r].u /\ slot[o].cleared \cap bindings[slot[r].u] # {}

\* Bug: an update that names no roles is taken for one with an empty list.
WriteRolesNil(r) ==
    /\ slot[r].pc = "roles"
    /\ ~RowsLocked(r)
    /\ Go(r, slot[r].u, slot[r].hits, bindings[slot[r].u], slot[r].q.rids \X {r})
    /\ Stay

\* ReplaceUserRoles, then AddUserRole for every role id.
WriteRoles(r) ==
    /\ slot[r].pc = "roles"
    /\ IF slot[r].q.set
       THEN /\ ~RowsLocked(r)
            /\ Go(r, slot[r].u, slot[r].hits, bindings[slot[r].u], slot[r].q.rids \X {r})
       ELSE Go(r, slot[r].u, slot[r].hits, {}, {})
    /\ Stay

\* What the transaction wrote becomes visible, all of it at once.
Written(r) ==
    LET q == slot[r].q
        u == slot[r].u
        h == slot[r].hits
    IN
    /\ users' = [users EXCEPT ![u] =
           IF "user" \in h /\ IsNew(q) THEN "live"
           ELSE IF "user" \in h /\ q.op = "delete" THEN "deleted" ELSE @]
    /\ accts' = [accts EXCEPT ![u] =
           IF "acct" \notin h THEN @
           ELSE IF IsNew(q) THEN [st |-> "live", name |-> q.name, secret |-> q.pw]
           ELSE IF q.op = "delete" THEN [st |-> "deleted", name |-> accts[u].name,
                                         secret |-> accts[u].secret]
           ELSE [st |-> accts[u].st, name |-> accts[u].name, secret |-> q.pw]]
    /\ bindings' = [bindings EXCEPT ![u] = (@ \ slot[r].cleared) \cup slot[r].added]

Commit(r) ==
    /\ slot[r].pc = "commit"
    /\ Written(r)
    /\ slot' = [slot EXCEPT ![r] = AfterOne(slot[r])]

\* The commit took place and its answer was lost: the request reports an error.
CommitLost(r) ==
    /\ slot[r].pc = "commit"
    /\ Written(r)
    /\ slot' = [slot EXCEPT ![r] = Idle]

\* A statement fails or the client goes away: defer tx.Rollback().
Fail(r) ==
    /\ slot[r].pc \in {"count", "load", "user", "acct", "roles", "commit"}
    /\ slot' = [slot EXCEPT ![r] = Idle]
    /\ Stay

-------------------------------------------------------------------------------
Arrive(r) ==
    \/ handleSKRegister(r) \/ handleSKUserCreate(r)
    \/ handleSKUserUpdate(r) \/ handleSKUserDelete(r)

\* What the server does by itself once a request is there.
Serve(r) ==
    \/ NextId(r) \/ CountAccounts(r) \/ GetUserByID(r)
    \/ InsertUser(r) \/ WriteUser(r) \/ InsertAccount(r) \/ WriteAccount(r)
    \/ WriteRoles(r) \/ Commit(r)

Next == \E r \in Reqs : Arrive(r) \/ Serve(r) \/ CommitLost(r) \/ Fail(r)

Spec == Init /\ [][Next]_vars

(***************************************************************************)
(* Goroutines run, and PostgreSQL hands a row to the transactions waiting  *)
(* for it in turn: a statement that can run again and again does run.      *)
(***************************************************************************)
FairSpec == Spec /\ \A r \in Reqs : SF_vars(Serve(r))

-------------------------------------------------------------------------------
(***************************************************************************)
(* Properties                                                              *)
(***************************************************************************)

(***************************************************************************)
(* "we never end up with an account that can't log in or a user without an *)
(* account" (CreateUser): users and accounts come and go together, across  *)
(* failed statements, lost commits and racing edits and deletions.         *)
(***************************************************************************)
Paired == \A u \in Uids : users[u] = "live" <=> accts[u].st = "live"

(***************************************************************************)
(* UpdateUser loads the user before its transaction, two updates and a     *)
(* deletion may overlap: still every request changes user, account and     *)
(* roles of a live user in one step, and the roles a user ends up with are *)
(* those of one request, never a mixture.                                  *)
(***************************************************************************)
Entry(u) ==
    IF users[u] = "live"
    THEN [st |-> "live", name |-> accts[u].name, secret |-> accts[u].secret,
          roles |-> {b[1] : b \in bindings[u]}]
    ELSE [st |-> users[u], name |-> None, secret |-> None, roles |-> {}]

Pending(r) == IF slot[r].pc \in {"idle", "next"} THEN None ELSE slot[r].q

Book == INSTANCE AccountBook
            WITH book <- [u \in Uids |-> Entry(u)], todo <- [r \in Reqs |-> Pending(r)]

EditsAreAtomic == Book!BookSpec

(***************************************************************************)
(* Transactions lock t_user, t_account and t_user_role in this order, so   *)
(* no set of requests waits for each other: among any there is one whose   *)
(* next statement need not wait for another of them.                       *)
(***************************************************************************)
Waits(r, o) ==
    /\ o # r /\ slot[o].u = slot[r].u
    /\ \/ slot[r].pc = "user" /\ ~IsNew(slot[r].q) /\ "user" \in slot[o].hits
       \/ slot[r].pc = "acct" /\ ~IsNew(slot[r].q) /\ WritesAccount(slot[r].q)
          /\ "acct" \in slot[o].hits
       \/ slot[r].pc = "roles" /\ slot[r].q.set
          /\ slot[o].cleared \cap bindings[slot[r].u] # {}

NoLockCycle ==
    \A R \in (SUBSET Reqs) \ {{}} : \E r \in R : \A o \in R : ~Waits(r, o)

(***************************************************************************)
(* Every request gets its answer, those that wait for the rows of others   *)
(* too.                                                                    *)
(***************************************************************************)
RequestsEnd == \A r \in Reqs : slot[r].pc # "idle" ~> slot[r].pc = "idle"

(***************************************************************************)
(* "Existing username -> 409": a registration that goes through found no   *)
(* live account of its name.                                               *)
(***************************************************************************)
RegisteredNameWasFree ==
    [][\A r \in Reqs :
           /\ slot[r].pc = "commit" /\ slot[r].q.op = "register"
           /\ users[slot[r].u] = "free" /\ users'[slot[r].u] = "live"
           => ~NameTaken(slot[r].q.name)]_vars
=============================================================================

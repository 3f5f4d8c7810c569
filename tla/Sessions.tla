------------------------------ MODULE Sessions ------------------------------
(***************************************************************************)
(* Logins, tokens and roles.  A login reads account, user and role codes   *)
(* in three statements, then looks at the clock and signs them into a JWT; *)
(* from then on the middleware looks at the token only, so what it says    *)
(* about its holder ages, and did so already while the login was under     *)
(* way, as administrators edit roles and users.  Those edits are           *)
(* themselves requests that a token admitted.                              *)
(*                                                                         *)
(* The transactions of user administration are one step here (Accounts     *)
(* shows why).  Passwords are left out: whether one fits is a choice.  Of  *)
(* a role's code only "is it admin" matters.  A restart fails the requests *)
(* in flight and leaves the tokens valid: the secret is configured.        *)
(***************************************************************************)
EXTENDS Naturals

CONSTANTS
    Clients,    \* browsers and scripts, one request each at a time
    Uids,       \* user ids (bounds the registrations)
    Roles,      \* t_role ids; Catalog has the creation of roles
    TTL,        \* lifetime of a token (jwt.expires_in) in ticks
    SeedUid, SeedRole,  \* migration 00002
    None

ASSUME SessionAssumption ==
    /\ SeedUid \in Uids /\ SeedRole \in Roles
    /\ None \notin Uids \cup Roles
    /\ Uids \cap Roles = {}
    /\ TTL \in Nat \ {0}

VARIABLES
    users,  \* t_user with its account
    binds,  \* t_user_role; the rows of a deleted user stay
    roles,  \* t_role
    token,  \* the JWT each client keeps
    slot,   \* the request of each client
    seen,   \* history: what was so of a login's user at some time since GetUserByID
    ago     \* history: ticks, up to TTL, since a login that had seen it so signed
            \* the client's token

vars == <<users, binds, roles, token, slot, seen, ago>>

RowState == {"free", "live", "deleted"}

\* t_role: grants says that status is 1 and code is "admin", the two columns that
\* ListRoleCodesByUser goes by.
RoleRow == [st : {"live", "deleted"}, grants : BOOLEAN]

\* Principal with its ExpiresAt: left is the time to it.
NoToken == [uid |-> None, admin |-> FALSE, left |-> 0]

Token == {NoToken} \cup [uid : Uids, admin : BOOLEAN, left : 0..TTL]

\* UpdateUserInput's roleIds, or what UpdateRoleInput's status and code come to; of a
\* login that has read the role codes, whether admin is among them.
Job == [op     : {"none", "newUser", "user", "dropUser", "role", "dropRole"},
        rids   : SUBSET Roles,
        grants : BOOLEAN]

JobOf(op, rids, grants) == [op |-> op, rids |-> rids, grants |-> grants]

Plain(op) == JobOf(op, {}, FALSE)

Slot == [pc   : {"idle", "user", "codes", "sign", "load", "write"},
         job  : Job,
         row  : Uids \cup Roles \cup {None},   \* the row worked on
         rest : SUBSET (Uids \cup Roles)]      \* ids a deletion has still to visit

At(pc, job, row, rest) == [pc |-> pc, job |-> job, row |-> row, rest |-> rest]

Login(pc, u) == At(pc, Plain("none"), u, {})

Idle == Login("idle", None)

\* What an administrator's authority rests on: the user, and an enabled admin role.
Facts == {"user", "role"}

TypeOK ==
    /\ users \in [Uids -> RowState]
    /\ binds \in [Uids -> SUBSET Roles]
    /\ roles \in [Roles -> RoleRow]
    /\ token \in [Clients -> Token]
    /\ slot \in [Clients -> Slot]
    /\ seen \in [Clients -> SUBSET Facts]
    /\ ago \in [Clients -> [Facts -> 0..TTL]]

\* The seed of the migration; the other roles are as CreateRole left them.
Init ==
    /\ users = [u \in Uids |-> IF u = SeedUid THEN "live" ELSE "free"]
    /\ binds = [u \in Uids |-> IF u = SeedUid THEN {SeedRole} ELSE {}]
    /\ roles \in [Roles -> [st : {"live"}, grants : BOOLEAN]]
    /\ roles[SeedRole].grants
    /\ token = [c \in Clients |-> NoToken]
    /\ slot = [c \in Clients |-> Idle]
    /\ seen = [c \in Clients |-> {}]
    /\ ago = [c \in Clients |-> [f \in Facts |-> TTL]]

\* Rows of t_role that ListRoleCodesByUser joins, and whose code is admin.
Grants(r) == roles[r].st = "live" /\ roles[r].grants

Holds(u) == \E r \in binds[u] : Grants(r)

So(f, u) == IF f = "user" THEN users[u] = "live" ELSE Holds(u)

\* A login past GetUserByID, unless it has read that its user is no administrator.
Aspires(c) ==
    \/ slot[c].pc = "codes"
    \/ slot[c].pc = "sign" /\ slot[c].job.grants

Rows == <<users, binds, roles>>

Goto(c, s) == slot' = [slot EXCEPT ![c] = s]

-------------------------------------------------------------------------------
(***************************************************************************)
(* Login.                                                                  *)
(***************************************************************************)

\* GetAccountByLogin finds a live account of the name, one of them if there are
\* several (see Accounts), and its password fits; otherwise nothing happens.
handleSKLogin(c) ==
    /\ slot[c].pc = "idle"
    /\ \E u \in Uids : users[u] = "live" /\ Goto(c, Login("user", u))
    /\ UNCHANGED <<Rows, token>>

\* An id of idgen.New() that nobody has been given yet.
Fresh(u) ==
    /\ users[u] = "free"
    /\ \A o \in Clients : slot[o].job.op = "newUser" => slot[o].row # u

\* POST /api/public/register: CreateUser gives no roles; then Login with the name
\* and the password just stored.
handleSKRegister(c) ==
    /\ slot[c].pc = "idle"
    /\ \E u \in Uids :
           /\ Fresh(u)
           /\ users' = [users EXCEPT ![u] = "live"]
    /\ \E v \in Uids : users'[v] = "live" /\ Goto(c, Login("user", v))
    /\ UNCHANGED <<binds, roles, token>>

\* Bug: GetUserByID lacks AND is_deleted = 0.
GetAnyUserByID(c) ==
    /\ slot[c].pc = "user"
    /\ Goto(c, Login("codes", slot[c].row))
    /\ UNCHANGED <<Rows, token>>

\* "load user": a user deleted meanwhile makes it a 500.
GetUserByID(c) ==
    /\ slot[c].pc = "user"
    /\ Goto(c, IF users[slot[c].row] = "live" THEN Login("codes", slot[c].row) ELSE Idle)
    /\ UNCHANGED <<Rows, token>>

\* The role codes, which become the Principal; t_user is not looked at again.
ListRoleCodesByUser(c) ==
    /\ slot[c].pc = "codes"
    /\ Goto(c, At("sign", JobOf("none", {}, Holds(slot[c].row)), slot[c].row, {}))
    /\ UNCHANGED <<Rows, token>>

\* The claims: the Principal made before, and exp.
Minted(s, left) == [uid |-> s.row, admin |-> s.job.grants, left |-> left]

\* Bug: exp is set past the configured lifetime.
SignTooLong(c) ==
    /\ slot[c].pc = "sign"
    /\ token' = [token EXCEPT ![c] = Minted(slot[c], TTL + 1)]
    /\ Goto(c, Idle)
    /\ UNCHANGED Rows

\* time.Now() is read here: however old the Principal is, exp is TTL ahead.
Sign(c) ==
    /\ slot[c].pc = "sign"
    /\ token' = [token EXCEPT ![c] = Minted(slot[c], TTL)]
    /\ Goto(c, Idle)
    /\ UNCHANGED Rows

\* The client forgets its token; handleSKLogout itself does nothing.
handleSKLogout(c) ==
    /\ slot[c].pc = "idle" /\ token[c] # NoToken
    /\ token' = [token EXCEPT ![c] = NoToken]
    /\ UNCHANGED <<Rows, slot>>

-------------------------------------------------------------------------------
(***************************************************************************)
(* Requests behind the middleware.                                         *)
(***************************************************************************)

\* Bug: exp is not checked.
ParseForever(c) == token[c] # NoToken

\* skJWTMiddleware: the signature holds and exp lies ahead.
Parse(c) == token[c].left > 0

\* Bug: the route sits in the group of signed-in users.
requireLogin(c) == Parse(c)

requireAdmin(c) == Parse(c) /\ token[c].admin

Ask(c, pc, job, row, rest) ==
    /\ slot[c].pc = "idle" /\ requireAdmin(c)
    /\ Goto(c, At(pc, job, row, rest))
    /\ UNCHANGED <<Rows, token>>

handleSKUserCreate(c) ==
    \E u \in Uids, R \in SUBSET Roles :
        Fresh(u) /\ Ask(c, "write", JobOf("newUser", R, FALSE), u, {})

\* An update without roleIds changes nothing that is modelled here.
handleSKUserUpdate(c) ==
    \E u \in Uids, R \in SUBSET Roles : Ask(c, "load", JobOf("user", R, FALSE), u, {})

\* Deletions take several ids, visited one by one, in any order here.
handleSKUserDelete(c) ==
    \E U \in SUBSET Uids : \E u \in U : Ask(c, "load", Plain("dropUser"), u, U \ {u})

handleSKRoleUpdate(c) ==
    \E r \in Roles, b \in BOOLEAN : Ask(c, "load", JobOf("role", {}, b), r, {})

handleSKRoleDelete(c) ==
    \E R \in SUBSET Roles : \E r \in R : Ask(c, "load", Plain("dropRole"), r, R \ {r})

\* The next id of a deletion, which the admission of the first covers too.
GoOn(c) ==
    IF slot[c].rest = {} THEN Goto(c, Idle)
    ELSE \E x \in slot[c].rest : Goto(c, At("load", slot[c].job, x, slot[c].rest \ {x}))

\* GetRoleByID and GetUserByID: not found ends an edit, a deletion goes on.
Load(c) ==
    /\ slot[c].pc = "load"
    /\ LET x  == slot[c].row
           st == IF x \in Uids THEN users[x] ELSE roles[x].st
       IN  IF st = "live" THEN Goto(c, At("write", slot[c].job, x, slot[c].rest))
           ELSE GoOn(c)
    /\ UNCHANGED <<Rows, token>>

-------------------------------------------------------------------------------
(***************************************************************************)
(* Statements that write.                                                  *)
(***************************************************************************)

CreateUser(c) ==
    /\ slot[c].pc = "write" /\ slot[c].job.op = "newUser"
    /\ users' = [users EXCEPT ![slot[c].row] = "live"]
    /\ binds' = [binds EXCEPT ![slot[c].row] = slot[c].job.rids]
    /\ Goto(c, Idle)
    /\ UNCHANGED <<roles, token>>

\* UpdateUser replaces the roles also of a user deleted after the load: only the
\* statements on t_user and t_account ask for is_deleted = 0.
UpdateUser(c) ==
    /\ slot[c].pc = "write" /\ slot[c].job.op = "user"
    /\ binds' = [binds EXCEPT ![slot[c].row] = slot[c].job.rids]
    /\ Goto(c, Idle)
    /\ UNCHANGED <<users, roles, token>>

\* DeleteUser leaves t_user_role alone.
DeleteUser(c) ==
    /\ slot[c].pc = "write" /\ slot[c].job.op = "dropUser"
    /\ users' = [users EXCEPT ![slot[c].row] = "deleted"]
    /\ GoOn(c)
    /\ UNCHANGED <<binds, roles, token>>

\* Bug: the statement lacks AND is_deleted = 0.
PatchedAnyway(row, job) == [st |-> row.st, grants |-> job.grants]

\* UPDATE t_role SET ... COALESCE ... WHERE id = $2 AND is_deleted = 0
Patched(row, job) ==
    IF row.st = "live" THEN [st |-> "live", grants |-> job.grants] ELSE row

UpdateRole(c) ==
    /\ slot[c].pc = "write" /\ slot[c].job.op = "role"
    /\ roles' = [roles EXCEPT ![slot[c].row] = Patched(roles[slot[c].row], slot[c].job)]
    /\ Goto(c, Idle)
    /\ UNCHANGED <<users, binds, token>>

\* SoftDeleteRole leaves t_user_role alone.
DeleteRole(c) ==
    /\ slot[c].pc = "write" /\ slot[c].job.op = "dropRole"
    /\ roles' = [roles EXCEPT ![slot[c].row] = [st |-> "deleted", grants |-> @.grants]]
    /\ GoOn(c)
    /\ UNCHANGED <<users, binds, token>>

\* A statement fails, the client goes away or the process stops.
Fail(c) ==
    /\ slot[c].pc # "idle"
    /\ Goto(c, Idle)
    /\ UNCHANGED <<Rows, token>>

-------------------------------------------------------------------------------
Arrive(c) ==
    \/ handleSKLogin(c) \/ handleSKRegister(c) \/ handleSKLogout(c)
    \/ handleSKUserCreate(c) \/ handleSKUserUpdate(c) \/ handleSKUserDelete(c)
    \/ handleSKRoleUpdate(c) \/ handleSKRoleDelete(c)

Serve(c) ==
    \/ GetUserByID(c) \/ ListRoleCodesByUser(c) \/ Sign(c) \/ Load(c)
    \/ CreateUser(c) \/ UpdateUser(c) \/ DeleteUser(c)
    \/ UpdateRole(c) \/ DeleteRole(c)

Later(n) == IF n < TTL THEN n + 1 ELSE TTL

\* The history in a step of a request.
Age ==
    /\ seen' = [c \in Clients |->
           IF Aspires(c)' THEN seen[c] \cup {f \in Facts : So(f, slot[c].row)'} ELSE {}]
    /\ ago' = [c \in Clients |->
           IF token'[c] = token[c] THEN ago[c]
           ELSE [f \in Facts |-> IF f \in seen[c] THEN 0 ELSE TTL]]

\* Time passes for every token.
Tick ==
    /\ token' = [c \in Clients |->
           IF token[c].left > 0 THEN [token[c] EXCEPT !.left = @ - 1] ELSE token[c]]
    /\ ago' = [c \in Clients |-> [f \in Facts |-> Later(ago[c][f])]]
    /\ UNCHANGED <<Rows, slot, seen>>

Next == Tick \/ \E c \in Clients : (Arrive(c) \/ Serve(c) \/ Fail(c)) /\ Age

Spec == Init /\ [][Next]_vars

\* Time passes, and what the server has begun it goes on with.
FairSpec == Spec /\ WF_vars(Tick) /\ \A c \in Clients : WF_slot(Serve(c))

-------------------------------------------------------------------------------
(***************************************************************************)
(* Properties                                                              *)
(***************************************************************************)

(***************************************************************************)
(* Roles are baked into the token (Sign); neither they nor the user are    *)
(* looked up again.  Who gets past requireAdmin was signed in less than    *)
(* one token lifetime ago, by a login during which the user was there and  *)
(* during which it held an enabled admin role.  So a role that is taken    *)
(* away, disabled, recoded or deleted, and a user that is deleted, are out *)
(* of force one lifetime after the last login then under way has signed:   *)
(* the clock starts at Sign, not when the roles are read.                  *)
(***************************************************************************)
StaleAuthorityIsBounded ==
    \A c \in Clients : requireAdmin(c) => \A f \in Facts : ago[c][f] < TTL

(***************************************************************************)
(* Authority comes from authority.  When nobody can log in as an           *)
(* administrator, no token opens the admin routes and no request of them   *)
(* is on its way, then neither registration nor any other request brings   *)
(* an administrator back: the last one can lock everybody out.             *)
(***************************************************************************)
Acting(c) == slot[c].job.op # "none"

Power ==
    \/ \E u \in Uids : Holds(u) /\ (users[u] = "live"
                                    \/ \E c \in Clients : slot[c].pc = "codes" /\ slot[c].row = u)
    \/ \E c \in Clients : \/ Acting(c)
                          \/ slot[c].pc = "sign" /\ slot[c].job.grants 
                          \/ token[c].admin /\ token[c].left > 0

AuthorityNeedsAuthority == [][~Power => ~Power']_vars

(***************************************************************************)
(* UpdateRole loads the role and writes it in a second statement: a role   *)
(* deleted in between is not written, let alone brought back.              *)
(***************************************************************************)
DeletedRolesAreFrozen ==
    [][\A r \in Roles : roles[r].st = "deleted" => roles'[r] = roles[r]]_vars

(***************************************************************************)
(* Revocation bites: a user who from some time on is deleted or holds no   *)
(* enabled admin role ends up without any admin request running, whatever  *)
(* logins were under way and whatever the other administrators do.         *)
(***************************************************************************)
RevocationBites ==
    \A u \in Uids :
        <>[](users[u] = "deleted" \/ ~Holds(u))
            => <>[](\A c \in Clients : token[c].uid = u => ~Acting(c))
=============================================================================

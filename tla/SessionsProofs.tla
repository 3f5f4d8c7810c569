--------------------------- MODULE SessionsProofs ---------------------------
(***************************************************************************)
(* Proofs about Sessions for every set of clients, users and roles and for *)
(* every lifetime of tokens.  The inductive invariant says what a login    *)
(* has seen when it signs (Informed), ties the age of a token to the time  *)
(* since then (Bounded), and says what a request knows when it writes      *)
(* (Staged) and that an id nobody has been given has no roles waiting for  *)
(* it (Unborn).                                                            *)
(***************************************************************************)
EXTENDS Sessions, TLAPS

UserOps == {"newUser", "user", "dropUser"}

RoleOps == {"role", "dropRole"}

\* A request s, where us is t_user.
Stage(s, us) ==
    /\ s.pc \in {"load", "write"} <=> s.job.op # "none"
    /\ s.pc \in {"user", "codes", "sign"} => s.row \in Uids
    /\ s.job.op \in UserOps => s.row \in Uids /\ s.rest \subseteq Uids
    /\ s.job.op \in RoleOps => s.row \in Roles /\ s.rest \subseteq Roles
    /\ s.pc = "write" /\ s.job.op = "user" => us[s.row] # "free"

Staged == \A c \in Clients : Stage(slot[c], users)

Unborn == \A u \in Uids : users[u] = "free" => binds[u] = {}

\* What a login has seen: its user, and what is to go into the token.
Informed ==
    \A c \in Clients :
        /\ Aspires(c) => "user" \in seen[c]
        /\ Aspires(c) /\ slot[c].pc = "sign" => "role" \in seen[c]

Bounded ==
    \A c \in Clients :
        token[c].admin /\ token[c].left > 0
            => \A f \in Facts : ago[c][f] + token[c].left <= TTL

IInv ==
    /\ TypeOK
    /\ Staged
    /\ Unborn
    /\ Informed
    /\ Bounded

\* IInv without the history.
Core ==
    /\ users \in [Uids -> RowState]
    /\ binds \in [Uids -> SUBSET Roles]
    /\ roles \in [Roles -> RoleRow]
    /\ token \in [Clients -> Token]
    /\ slot \in [Clients -> Slot]
    /\ Staged
    /\ Unborn

\* What a request does to the token of a client: an admin's is made by a login that
\* read so.
Signed(o) ==
    \/ token'[o] = token[o]
    \/ token'[o].admin = FALSE
    \/ slot[o].pc = "sign" /\ slot[o].job.grants

\* What a login finds: its user, and then the role codes.
Found(o) ==
    \/ slot'[o] = slot[o]
    \/ slot'[o].pc \notin {"codes", "sign"}
    \/ slot'[o].pc = "codes" /\ So("user", slot[o].row)'
    \/ /\ slot'[o].pc = "sign" /\ slot[o].pc = "codes"
       /\ slot'[o].job.grants => So("role", slot[o].row)'

Honest == \A o \in Clients : Signed(o) /\ Found(o)

-------------------------------------------------------------------------------
(***************************************************************************)
(* The records.                                                            *)
(***************************************************************************)

\* An entry of slot made by At has the fields it was given.
LEMMA AtFields ==
    ASSUME NEW pc \in {"idle", "user", "codes", "sign", "load", "write"}, NEW job \in Job,
           NEW row \in Uids \cup Roles \cup {None}, NEW rest \in SUBSET (Uids \cup Roles)
    PROVE  /\ At(pc, job, row, rest) \in Slot
           /\ At(pc, job, row, rest).pc = pc
           /\ At(pc, job, row, rest).job = job
           /\ At(pc, job, row, rest).row = row
           /\ At(pc, job, row, rest).rest = rest
  BY DEF At, Slot

\* A job has the fields it was given.
LEMMA JobFields ==
    ASSUME NEW op \in {"none", "newUser", "user", "dropUser", "role", "dropRole"},
           NEW R \in SUBSET Roles, NEW b \in BOOLEAN
    PROVE  /\ Plain(op) \in Job /\ Plain(op).op = op
           /\ JobOf(op, R, FALSE) \in Job /\ JobOf(op, R, FALSE).op = op
           /\ JobOf(op, {}, b) \in Job /\ JobOf(op, {}, b).op = op
           /\ JobOf(op, {}, b).grants = b
  BY DEF Plain, JobOf, Job

\* An entry of slot has the types its fields are declared with.
LEMMA SlotFields ==
    ASSUME NEW s \in Slot
    PROVE  /\ s.pc \in {"idle", "user", "codes", "sign", "load", "write"}
           /\ s.job \in Job
           /\ s.row \in Uids \cup Roles \cup {None}
           /\ s.rest \in SUBSET (Uids \cup Roles)
           /\ s.job.op \in {"none"} \cup UserOps \cup RoleOps
           /\ s.job.rids \in SUBSET Roles
           /\ s.job.grants \in BOOLEAN
  BY DEF Slot, Job, UserOps, RoleOps

\* A login under way, and an idle client.
LEMMA LoginStage ==
    ASSUME NEW pc \in {"user", "codes"}, NEW u \in Uids, NEW us
    PROVE  /\ Login(pc, u) \in Slot /\ Stage(Login(pc, u), us)
           /\ Login(pc, u).pc = pc /\ Login(pc, u).row = u /\ Login(pc, u).job.op = "none"
           /\ Idle \in Slot /\ Stage(Idle, us)
           /\ Idle.pc = "idle" /\ Idle.job.op = "none"
  <1>1. Plain("none") \in Job /\ Plain("none").op = "none"
    <2>1. PICK R \in SUBSET Roles : R = {}
      OBVIOUS
    <2>2. PICK b \in BOOLEAN : b = TRUE
      OBVIOUS
    <2> QED
      BY JobFields
  <1>2. {} \in SUBSET (Uids \cup Roles)
    OBVIOUS
  <1>3. /\ Login(pc, u) \in Slot /\ Login(pc, u).pc = pc /\ Login(pc, u).row = u
        /\ Login(pc, u).job = Plain("none")
    BY <1>1, <1>2, AtFields DEF Login
  <1>4. /\ Idle \in Slot /\ Idle.pc = "idle" /\ Idle.job = Plain("none")
    BY <1>1, <1>2, AtFields DEF Idle, Login
  <1> QED
    BY <1>1, <1>3, <1>4 DEF Stage, UserOps, RoleOps

\* One client moves on, the others stay where they are.
LEMMA OneMoves ==
    ASSUME slot \in [Clients -> Slot], NEW c \in Clients, NEW s \in Slot, Goto(c, s)
    PROVE  /\ slot' \in [Clients -> Slot]
           /\ slot'[c] = s
           /\ \A o \in Clients \ {c} : slot'[o] = slot[o]
  BY DEF Goto

\* The stages after a step in which one client moves and no user becomes unborn.
LEMMA StagesStay ==
    ASSUME Core, NEW c \in Clients, NEW s \in Slot, Goto(c, s), Stage(s, users'),
           \A u \in Uids : users'[u] = "free" => users[u] = "free"
    PROVE  /\ slot' \in [Clients -> Slot] /\ Staged'
           /\ s.pc \notin {"codes", "sign"} => \A o \in Clients : Found(o)
  <1>1. /\ slot' \in [Clients -> Slot]
        /\ slot'[c] = s
        /\ \A o \in Clients \ {c} : slot'[o] = slot[o]
    BY OneMoves DEF Core
  <1>2. ASSUME NEW o \in Clients PROVE Stage(slot'[o], users')
    <2>1. CASE o = c
      BY <2>1, <1>1
    <2>2. CASE o # c
      <3>1. Stage(slot[o], users)
        BY DEF Core, Staged
      <3> QED
        BY <2>2, <3>1, <1>1 DEF Stage, UserOps
    <2> QED
      BY <2>1, <2>2
  <1>3. ASSUME s.pc \notin {"codes", "sign"}, NEW o \in Clients PROVE Found(o)
    <2>1. CASE o = c
      BY <2>1, <1>1, <1>3 DEF Found
    <2>2. CASE o # c
      BY <2>2, <1>1 DEF Found
    <2> QED
      BY <2>1, <2>2
  <1> QED
    BY <1>1, <1>2, <1>3 DEF Staged

\* A step that moves one client and leaves the tables and the tokens alone.
LEMMA QuietStep ==
    ASSUME Core, NEW c \in Clients, NEW s \in Slot, Goto(c, s), Stage(s, users),
           UNCHANGED <<Rows, token>>
    PROVE  /\ Core'
           /\ s.pc \notin {"codes", "sign"} => Honest
  <1>1. users' = users /\ binds' = binds /\ roles' = roles /\ token' = token
    BY DEF Rows
  <1>2. /\ slot' \in [Clients -> Slot] /\ Staged'
        /\ s.pc \notin {"codes", "sign"} => \A o \in Clients : Found(o)
    BY <1>1, StagesStay
  <1>3. \A o \in Clients : Signed(o)
    BY <1>1 DEF Signed
  <1> QED
    BY <1>1, <1>2, <1>3 DEF Core, Unborn, Honest

\* A login that has read its user or its role codes.
LEMMA ReadStep ==
    ASSUME Core, NEW c \in Clients, NEW s \in Slot, Goto(c, s), Stage(s, users),
           UNCHANGED <<Rows, token>>,
           \/ s.pc = "codes" /\ users[slot[c].row] = "live"
           \/ /\ s.pc = "sign" /\ slot[c].pc = "codes" /\ s.row = slot[c].row
              /\ s.job.grants => Holds(slot[c].row),
           s.row = slot[c].row
    PROVE  Core' /\ Honest
  <1>1. users' = users /\ binds' = binds /\ roles' = roles /\ token' = token
    BY DEF Rows
  <1>2. Core'
    BY QuietStep
  <1>3. /\ slot'[c] = s
        /\ \A o \in Clients \ {c} : slot'[o] = slot[o]
    BY OneMoves DEF Core
  <1>4. So("user", slot[c].row)' <=> users[slot[c].row] = "live"
    BY <1>1, <1>3 DEF So
  <1>5. So("role", slot[c].row)' <=> Holds(slot[c].row)
    BY <1>1, <1>3 DEF So, Holds, Grants
  <1>6. Found(c)
    BY <1>3, <1>4, <1>5 DEF Found
  <1>7. \A o \in Clients \ {c} : Found(o)
    BY <1>3 DEF Found
  <1>8. \A o \in Clients : Signed(o)
    BY <1>1 DEF Signed
  <1> QED
    BY <1>2, <1>6, <1>7, <1>8 DEF Honest

-------------------------------------------------------------------------------
(***************************************************************************)
(* Every step of a request keeps Core, and mints honest tokens only.       *)
(***************************************************************************)

\* A login picks a live user, loads it, and forgets it when it is gone.
LEMMA LoginSteps ==
    ASSUME Core, NEW c \in Clients, handleSKLogin(c) \/ GetUserByID(c) \/ Fail(c)
    PROVE  Core' /\ Honest
  <1>1. Idle \in Slot /\ Stage(Idle, users) /\ Idle.pc = "idle"
    BY SessionAssumption, LoginStage
  <1>2. CASE handleSKLogin(c)
    <2>1. PICK u \in Uids : Goto(c, Login("user", u))
      BY <1>2 DEF handleSKLogin
    <2>2. PICK s \in Slot : s = Login("user", u) /\ Stage(s, users) /\ s.pc = "user"
      BY LoginStage
    <2>3. UNCHANGED <<Rows, token>>
      BY <1>2 DEF handleSKLogin
    <2> QED
      BY <2>1, <2>2, <2>3, QuietStep
  <1>3. CASE GetUserByID(c)
    <2>1. slot[c] \in Slot /\ Stage(slot[c], users) /\ slot[c].pc = "user"
      BY <1>3 DEF GetUserByID, Core, Staged
    <2>2. PICK u \in Uids : u = slot[c].row
      BY <2>1 DEF Stage
    <2>3. PICK s \in Slot : /\ s = Login("codes", u) /\ Stage(s, users)
                            /\ s.pc = "codes" /\ s.row = u
      BY LoginStage
    <2>4. UNCHANGED <<Rows, token>>
      BY <1>3 DEF GetUserByID
    <2>5. CASE users[u] = "live"
      <3>1. Goto(c, s)
        BY <1>3, <2>2, <2>3, <2>5 DEF GetUserByID
      <3> QED
        BY <2>2, <2>3, <2>4, <2>5, <3>1, ReadStep
    <2>6. CASE users[u] # "live"
      <3>1. Goto(c, Idle)
        BY <1>3, <2>2, <2>6 DEF GetUserByID
      <3> QED
        BY <2>4, <3>1, <1>1, QuietStep
    <2> QED
      BY <2>5, <2>6
  <1>4. CASE Fail(c)
    <2>1. Goto(c, Idle) /\ UNCHANGED <<Rows, token>>
      BY <1>4 DEF Fail
    <2> QED
      BY <2>1, <1>1, QuietStep
  <1> QED
    BY <1>2, <1>3, <1>4

\* A registration turns a free id into a live user without roles.
LEMMA RegisterStep ==
    ASSUME Core, NEW c \in Clients, handleSKRegister(c)
    PROVE  Core' /\ Honest
  <1>1. PICK u \in Uids : Fresh(u) /\ users' = [users EXCEPT ![u] = "live"]
    BY DEF handleSKRegister
  <1>2. PICK v \in Uids : Goto(c, Login("user", v))
    BY DEF handleSKRegister
  <1>3. binds' = binds /\ roles' = roles /\ token' = token
    BY DEF handleSKRegister
  <1>4. /\ users' \in [Uids -> RowState]
        /\ \A w \in Uids : users'[w] = "free" => users[w] = "free"
    BY <1>1 DEF Core, RowState
  <1>5. PICK s \in Slot : s = Login("user", v) /\ Stage(s, users') /\ s.pc = "user"
    BY LoginStage
  <1>6. slot' \in [Clients -> Slot] /\ Staged' /\ \A o \in Clients : Found(o)
    BY <1>2, <1>4, <1>5, StagesStay
  <1>7. Honest
    BY <1>3, <1>6 DEF Honest, Signed
  <1> QED
    BY <1>3, <1>4, <1>6, <1>7 DEF Core, Unborn

\* The role codes are read for the user that GetUserByID found.
LEMMA CodesStep ==
    ASSUME Core, NEW c \in Clients, ListRoleCodesByUser(c)
    PROVE  Core' /\ Honest
  <1>1. slot[c] \in Slot /\ Stage(slot[c], users) /\ slot[c].pc = "codes"
    BY DEF ListRoleCodesByUser, Core, Staged
  <1>2. PICK u \in Uids : u = slot[c].row
    BY <1>1 DEF Stage
  <1>3. PICK b \in BOOLEAN : b = Holds(u)
    BY DEF Holds
  <1>4. PICK job \in Job : job = JobOf("none", {}, b) /\ job.op = "none" /\ job.grants = b
    <2>1. PICK R \in SUBSET Roles : R = {}
      OBVIOUS
    <2> QED
      BY JobFields
  <1>5. PICK s : s = At("sign", job, u, {})
    OBVIOUS
  <1>6. s \in Slot /\ s.pc = "sign" /\ s.job = job /\ s.row = u
    <2>1. {} \in SUBSET (Uids \cup Roles)
      OBVIOUS
    <2> QED
      BY <1>5, <2>1, AtFields
  <1>7. Stage(s, users)
    BY <1>4, <1>6 DEF Stage, UserOps, RoleOps
  <1>8. Goto(c, s) /\ UNCHANGED <<Rows, token>>
    <2>1. JobOf("none", {}, Holds(slot[c].row)) = job
      BY <1>2, <1>3, <1>4, Zenon
    <2> QED
      BY <1>2, <1>5, <2>1, Zenon DEF ListRoleCodesByUser
  <1> QED
    BY <1>1, <1>2, <1>3, <1>4, <1>6, <1>7, <1>8, ReadStep

\* Sign stores what the login has read, for TTL ticks; a logout stores nothing.
LEMMA TokenSteps ==
    ASSUME Core, NEW c \in Clients, Sign(c) \/ handleSKLogout(c)
    PROVE  Core' /\ Honest
  <1>1. CASE Sign(c)
    <2>1. slot[c] \in Slot /\ Stage(slot[c], users) /\ slot[c].pc = "sign"
      BY <1>1 DEF Sign, Core, Staged
    <2>2. slot[c].row \in Uids /\ slot[c].job.grants \in BOOLEAN /\ TTL \in 0..TTL
      BY <2>1, SlotFields, SessionAssumption DEF Stage
    <2>3. PICK t \in Token : t = Minted(slot[c], TTL) /\ t.admin = slot[c].job.grants
      <3>1. Minted(slot[c], TTL) \in Token
        BY <2>2 DEF Minted, Token
      <3>2. Minted(slot[c], TTL).admin = slot[c].job.grants
        BY DEF Minted
      <3> QED
        BY <3>1, <3>2
    <2>4. /\ token' = [token EXCEPT ![c] = t]
          /\ Goto(c, Idle)
          /\ users' = users /\ binds' = binds /\ roles' = roles
      BY <1>1, <2>3 DEF Sign, Rows
    <2>5. Idle \in Slot /\ Stage(Idle, users) /\ Idle.pc = "idle"
      BY SessionAssumption, LoginStage
    <2>6. slot' \in [Clients -> Slot] /\ Staged' /\ \A o \in Clients : Found(o)
      BY <2>4, <2>5, StagesStay
    <2>7. /\ token' \in [Clients -> Token]
          /\ token'[c] = t
          /\ \A o \in Clients \ {c} : token'[o] = token[o]
      BY <2>3, <2>4 DEF Core
    <2>8. ASSUME NEW o \in Clients PROVE Signed(o)
      <3>1. CASE o = c
        BY <2>1, <2>2, <2>3, <2>7, <3>1 DEF Signed
      <3>2. CASE o # c
        BY <2>7, <3>2 DEF Signed
      <3> QED
        BY <3>1, <3>2
    <2> QED
      BY <2>4, <2>6, <2>7, <2>8 DEF Core, Unborn, Honest
  <1>2. CASE handleSKLogout(c)
    <2>1. /\ token' = [token EXCEPT ![c] = NoToken]
          /\ users' = users /\ binds' = binds /\ roles' = roles /\ slot' = slot
      BY <1>2 DEF handleSKLogout, Rows
    <2>2. NoToken \in Token /\ NoToken.admin = FALSE
      BY DEF NoToken, Token
    <2>3. /\ token' \in [Clients -> Token]
          /\ token'[c] = NoToken
          /\ \A o \in Clients \ {c} : token'[o] = token[o]
      BY <2>1, <2>2 DEF Core
    <2>4. Honest
      BY <2>1, <2>2, <2>3 DEF Honest, Signed, Found
    <2> QED
      BY <2>1, <2>3, <2>4 DEF Core, Unborn, Staged
  <1> QED
    BY <1>1, <1>2

\* What Ask puts into the slot.
LEMMA AskStep ==
    ASSUME Core, NEW c \in Clients, NEW pc \in {"load", "write"}, NEW job \in Job,
           NEW row \in Uids \cup Roles, NEW rest \in SUBSET (Uids \cup Roles),
           Ask(c, pc, job, row, rest),
           job.op # "none",
           job.op \in UserOps => row \in Uids /\ rest \subseteq Uids,
           job.op \in RoleOps => row \in Roles /\ rest \subseteq Roles,
           pc = "write" => job.op # "user"
    PROVE  Core' /\ Honest
  <1>1. PICK s : s = At(pc, job, row, rest)
    OBVIOUS
  <1>2. /\ s \in Slot /\ s.pc = pc /\ s.job = job /\ s.row = row /\ s.rest = rest
    BY <1>1, AtFields
  <1>3. Stage(s, users)
    BY <1>2 DEF Stage
  <1>4. Goto(c, s) /\ UNCHANGED <<Rows, token>>
    BY <1>1 DEF Ask
  <1> QED
    BY <1>2, <1>3, <1>4, QuietStep

\* A request behind requireAdmin only fills its slot.
LEMMA AdminRequests ==
    ASSUME Core, NEW c \in Clients,
           \/ handleSKUserCreate(c) \/ handleSKUserUpdate(c) \/ handleSKUserDelete(c)
           \/ handleSKRoleUpdate(c) \/ handleSKRoleDelete(c)
    PROVE  Core' /\ Honest
  <1>1. {} \in SUBSET (Uids \cup Roles) /\ {} \in SUBSET Roles
    OBVIOUS
  <1>2. CASE handleSKUserCreate(c)
    <2>1. PICK u \in Uids, R \in SUBSET Roles : Ask(c, "write", JobOf("newUser", R, FALSE), u, {})
      BY <1>2 DEF handleSKUserCreate
    <2>2. PICK job \in Job : job = JobOf("newUser", R, FALSE) /\ job.op = "newUser"
      BY JobFields
    <2> QED
      BY <2>1, <2>2, <1>1, AskStep DEF UserOps, RoleOps
  <1>3. CASE handleSKUserUpdate(c)
    <2>1. PICK u \in Uids, R \in SUBSET Roles : Ask(c, "load", JobOf("user", R, FALSE), u, {})
      BY <1>3 DEF handleSKUserUpdate
    <2>2. PICK job \in Job : job = JobOf("user", R, FALSE) /\ job.op = "user"
      BY JobFields
    <2> QED
      BY <2>1, <2>2, <1>1, AskStep DEF UserOps, RoleOps
  <1>4. CASE handleSKUserDelete(c)
    <2>1. PICK U \in SUBSET Uids : \E u \in U : Ask(c, "load", Plain("dropUser"), u, U \ {u})
      BY <1>4 DEF handleSKUserDelete
    <2>2. PICK u \in U : Ask(c, "load", Plain("dropUser"), u, U \ {u})
      BY <2>1
    <2>3. PICK job \in Job : job = Plain("dropUser") /\ job.op = "dropUser"
      BY <1>1, JobFields
    <2>4. PICK rest \in SUBSET (Uids \cup Roles) : rest = U \ {u} /\ rest \subseteq Uids
      OBVIOUS
    <2> QED
      BY <2>2, <2>3, <2>4, AskStep DEF UserOps, RoleOps
  <1>5. CASE handleSKRoleUpdate(c)
    <2>1. PICK r \in Roles, b \in BOOLEAN : Ask(c, "load", JobOf("role", {}, b), r, {})
      BY <1>5 DEF handleSKRoleUpdate
    <2>2. PICK job \in Job : job = JobOf("role", {}, b) /\ job.op = "role"
      BY <1>1, JobFields
    <2> QED
      BY <2>1, <2>2, <1>1, AskStep DEF UserOps, RoleOps
  <1>6. CASE handleSKRoleDelete(c)
    <2>1. PICK R \in SUBSET Roles : \E r \in R : Ask(c, "load", Plain("dropRole"), r, R \ {r})
      BY <1>6 DEF handleSKRoleDelete
    <2>2. PICK r \in R : Ask(c, "load", Plain("dropRole"), r, R \ {r})
      BY <2>1
    <2>3. PICK job \in Job : job = Plain("dropRole") /\ job.op = "dropRole"
      BY <1>1, JobFields
    <2>4. PICK rest \in SUBSET (Uids \cup Roles) : rest = R \ {r} /\ rest \subseteq Roles
      OBVIOUS
    <2> QED
      BY <2>2, <2>3, <2>4, AskStep DEF UserOps, RoleOps
  <1> QED
    BY <1>2, <1>3, <1>4, <1>5, <1>6

\* Where GoOn leads: to the next id or back.
LEMMA GoOnStage ==
    ASSUME Core, NEW c \in Clients, slot[c].pc \in {"load", "write"}, GoOn(c), NEW us
    PROVE  \E s \in Slot : Goto(c, s) /\ Stage(s, us) /\ s.pc \in {"idle", "load"}
  <1>1. slot[c] \in Slot /\ Stage(slot[c], users)
    BY DEF Core, Staged
  <1>2. CASE slot[c].rest = {}
    <2>1. Idle \in Slot /\ Stage(Idle, us) /\ Idle.pc = "idle"
      BY SessionAssumption, LoginStage
    <2> QED
      BY <1>2, <2>1 DEF GoOn
  <1>3. CASE slot[c].rest # {}
    <2>1. PICK x \in slot[c].rest : Goto(c, At("load", slot[c].job, x, slot[c].rest \ {x}))
      BY <1>3 DEF GoOn
    <2>2. /\ slot[c].job \in Job /\ slot[c].job.op # "none"
          /\ slot[c].rest \in SUBSET (Uids \cup Roles)
      BY <1>1, SlotFields DEF Stage
    <2>3. /\ x \in Uids \cup Roles \cup {None}
          /\ slot[c].rest \ {x} \in SUBSET (Uids \cup Roles)
      BY <2>2
    <2>4. PICK s : s = At("load", slot[c].job, x, slot[c].rest \ {x})
      OBVIOUS
    <2>5. /\ s \in Slot /\ s.pc = "load" /\ s.job = slot[c].job
          /\ s.row = x /\ s.rest = slot[c].rest \ {x}
      BY <2>2, <2>3, <2>4, AtFields
    <2>6. Stage(s, us)
      BY <1>1, <2>2, <2>5 DEF Stage
    <2> QED
      BY <2>1, <2>4, <2>5, <2>6
  <1> QED
    BY <1>2, <1>3

\* Load goes on to the write of a row that is there, or to the next id.
LEMMA LoadStep ==
    ASSUME Core, NEW c \in Clients, Load(c)
    PROVE  Core' /\ Honest
  <1>1. slot[c] \in Slot /\ Stage(slot[c], users) /\ slot[c].pc = "load"
    BY DEF Core, Staged, Load
  <1>2. UNCHANGED <<Rows, token>>
    BY DEF Load
  <1>3. CASE GoOn(c)
    <2>1. PICK s \in Slot : Goto(c, s) /\ Stage(s, users) /\ s.pc \in {"idle", "load"}
      BY <1>1, <1>3, GoOnStage
    <2> QED
      BY <1>2, <2>1, QuietStep
  <1>4. CASE ~GoOn(c)
    <2>1. /\ Goto(c, At("write", slot[c].job, slot[c].row, slot[c].rest))
          /\ slot[c].row \in Uids => users[slot[c].row] = "live"
      BY <1>4 DEF Load
    <2>2. /\ slot[c].job \in Job /\ slot[c].row \in Uids \cup Roles \cup {None}
          /\ slot[c].rest \in SUBSET (Uids \cup Roles)
      BY <1>1, SlotFields
    <2>3. PICK s : s = At("write", slot[c].job, slot[c].row, slot[c].rest)
      OBVIOUS
    <2>4. /\ s \in Slot /\ s.pc = "write" /\ s.job = slot[c].job
          /\ s.row = slot[c].row /\ s.rest = slot[c].rest
      BY <2>2, <2>3, AtFields
    <2>5. Stage(s, users)
      BY <1>1, <2>1, <2>4 DEF Stage, UserOps
    <2> QED
      BY <1>2, <2>1, <2>3, <2>4, <2>5, QuietStep
  <1> QED
    BY <1>3, <1>4

\* The writes of user administration.
LEMMA UserWrites ==
    ASSUME Core, NEW c \in Clients, CreateUser(c) \/ UpdateUser(c) \/ DeleteUser(c)
    PROVE  Core' /\ Honest
  <1>1. slot[c] \in Slot /\ Stage(slot[c], users) /\ slot[c].pc = "write"
    BY DEF Core, Staged, CreateUser, UpdateUser, DeleteUser
  <1>2. PICK u \in Uids : u = slot[c].row
    BY <1>1 DEF Stage, UserOps, CreateUser, UpdateUser, DeleteUser
  <1>3. PICK R \in SUBSET Roles : R = slot[c].job.rids
    BY <1>1, SlotFields
  <1>4. roles' = roles /\ token' = token
    BY DEF CreateUser, UpdateUser, DeleteUser
  <1>5. \A o \in Clients : Signed(o)
    BY <1>4 DEF Signed
  <1>6. CASE CreateUser(c) \/ UpdateUser(c)
    <2>1. Goto(c, Idle) /\ Idle \in Slot /\ Stage(Idle, users') /\ Idle.pc = "idle"
      BY <1>6, SessionAssumption, LoginStage DEF CreateUser, UpdateUser
    <2>2. binds' = [binds EXCEPT ![u] = R]
      BY <1>2, <1>3, <1>6 DEF CreateUser, UpdateUser
    <2>3. /\ users' \in [Uids -> RowState] /\ users'[u] # "free"
          /\ \A w \in Uids : users'[w] = "free" => users[w] = "free"
      <3>1. CASE CreateUser(c)
        <4>1. users' = [users EXCEPT ![u] = "live"]
          BY <1>2, <3>1 DEF CreateUser
        <4> QED
          BY <4>1 DEF Core, RowState
      <3>2. CASE UpdateUser(c)
        <4>1. users' = users /\ slot[c].job.op = "user"
          BY <3>2 DEF UpdateUser
        <4> QED
          BY <1>1, <1>2, <4>1 DEF Core, Stage
      <3> QED
        BY <1>6, <3>1, <3>2
    <2>4. slot' \in [Clients -> Slot] /\ Staged' /\ \A o \in Clients : Found(o)
      BY <2>1, <2>3, StagesStay
    <2>5. binds' \in [Uids -> SUBSET Roles] /\ Unborn'
      BY <2>2, <2>3 DEF Core, Unborn
    <2> QED
      BY <1>4, <1>5, <2>3, <2>4, <2>5 DEF Core, Honest
  <1>7. CASE DeleteUser(c)
    <2>1. users' = [users EXCEPT ![u] = "deleted"] /\ binds' = binds
      BY <1>2, <1>7 DEF DeleteUser
    <2>2. /\ users' \in [Uids -> RowState]
          /\ \A w \in Uids : users'[w] = "free" => users[w] = "free"
      BY <2>1 DEF Core, RowState
    <2>3. PICK s \in Slot : Goto(c, s) /\ Stage(s, users') /\ s.pc \in {"idle", "load"}
      BY <1>1, <1>7, GoOnStage DEF DeleteUser
    <2>4. slot' \in [Clients -> Slot] /\ Staged' /\ \A o \in Clients : Found(o)
      BY <2>2, <2>3, StagesStay
    <2> QED
      BY <1>4, <1>5, <2>1, <2>2, <2>4 DEF Core, Unborn, Honest
  <1> QED
    BY <1>6, <1>7

\* The row that a step of role administration leaves behind.
LEMMA RoleWrites ==
    ASSUME Core, NEW c \in Clients, UpdateRole(c) \/ DeleteRole(c)
    PROVE  /\ Core' /\ Honest
           /\ \A r \in Roles : roles[r].st = "deleted" => roles'[r] = roles[r]
  <1>1. slot[c] \in Slot /\ Stage(slot[c], users) /\ slot[c].pc = "write"
    BY DEF Core, Staged, UpdateRole, DeleteRole
  <1>2. PICK x \in Roles : x = slot[c].row
    BY <1>1 DEF Stage, RoleOps, UpdateRole, DeleteRole
  <1>3. users' = users /\ binds' = binds /\ token' = token
    BY DEF UpdateRole, DeleteRole
  <1>4. roles[x] \in RoleRow /\ slot[c].job.grants \in BOOLEAN
    BY <1>1, SlotFields DEF Core
  <1>5. PICK s \in Slot : Goto(c, s) /\ Stage(s, users) /\ s.pc \in {"idle", "load"}
    <2>1. CASE UpdateRole(c)
      BY <2>1, SessionAssumption, LoginStage DEF UpdateRole
    <2>2. CASE DeleteRole(c)
      BY <1>1, <2>2, GoOnStage DEF DeleteRole
    <2> QED
      BY <2>1, <2>2
  <1>6. PICK row \in RoleRow :
            /\ roles' = [roles EXCEPT ![x] = row]
            /\ roles[x].st = "deleted" => row = roles[x]
    <2>1. CASE UpdateRole(c)
      <3>1. roles' = [roles EXCEPT ![x] = Patched(roles[x], slot[c].job)]
        BY <1>2, <2>1 DEF UpdateRole
      <3>2. Patched(roles[x], slot[c].job) \in RoleRow
        BY <1>4 DEF Patched, RoleRow
      <3>3. roles[x].st = "deleted" => Patched(roles[x], slot[c].job) = roles[x]
        BY DEF Patched
      <3> QED
        BY <3>1, <3>2, <3>3
    <2>2. CASE DeleteRole(c)
      <3>1. roles' = [roles EXCEPT ![x] = [st |-> "deleted", grants |-> roles[x].grants]]
        BY <1>2, <2>2 DEF DeleteRole, Core
      <3>2. [st |-> "deleted", grants |-> roles[x].grants] \in RoleRow
        BY <1>4 DEF RoleRow
      <3>3. roles[x].st = "deleted" => [st |-> "deleted", grants |-> roles[x].grants] = roles[x]
        BY <1>4 DEF RoleRow
      <3> QED
        BY <3>1, <3>2, <3>3
    <2> QED
      BY <2>1, <2>2
  <1>7. /\ roles' \in [Roles -> RoleRow]
        /\ \A r \in Roles : roles[r].st = "deleted" => roles'[r] = roles[r]
    BY <1>6 DEF Core
  <1>8. slot' \in [Clients -> Slot] /\ Staged' /\ \A o \in Clients : Found(o)
    BY <1>3, <1>5, StagesStay
  <1>9. Honest
    BY <1>3, <1>8 DEF Honest, Signed
  <1> QED
    BY <1>3, <1>7, <1>8, <1>9 DEF Core, Unborn

\* Every step of a request keeps Core.
LEMMA RequestStep ==
    ASSUME Core, NEW c \in Clients, Arrive(c) \/ Serve(c) \/ Fail(c)
    PROVE  /\ Core' /\ Honest
           /\ \A r \in Roles : roles[r].st = "deleted" => roles'[r] = roles[r]
  <1>1. CASE UpdateRole(c) \/ DeleteRole(c)
    BY <1>1, RoleWrites
  <1>2. CASE CreateUser(c) \/ UpdateUser(c) \/ DeleteUser(c)
    <2>1. roles' = roles
      BY <1>2 DEF CreateUser, UpdateUser, DeleteUser
    <2> QED
      BY <1>2, <2>1, UserWrites
  <1>3. CASE Load(c)
    <2>1. roles' = roles
      BY <1>3 DEF Load, Rows
    <2> QED
      BY <1>3, <2>1, LoadStep
  <1>4. CASE \/ handleSKUserCreate(c) \/ handleSKUserUpdate(c) \/ handleSKUserDelete(c)
             \/ handleSKRoleUpdate(c) \/ handleSKRoleDelete(c)
    <2>1. roles' = roles
      BY <1>4 DEF handleSKUserCreate, handleSKUserUpdate, handleSKUserDelete,
                  handleSKRoleUpdate, handleSKRoleDelete, Ask, Rows
    <2> QED
      BY <1>4, <2>1, AdminRequests
  <1>5. CASE Sign(c) \/ handleSKLogout(c)
    <2>1. roles' = roles
      BY <1>5 DEF Sign, handleSKLogout, Rows
    <2> QED
      BY <1>5, <2>1, TokenSteps
  <1>6. CASE handleSKRegister(c)
    <2>1. roles' = roles
      BY <1>6 DEF handleSKRegister
    <2> QED
      BY <1>6, <2>1, RegisterStep
  <1>7. CASE handleSKLogin(c) \/ GetUserByID(c) \/ Fail(c)
    <2>1. roles' = roles
      BY <1>7 DEF handleSKLogin, GetUserByID, Fail, Rows
    <2> QED
      BY <1>7, <2>1, LoginSteps
  <1>8. CASE ListRoleCodesByUser(c)
    <2>1. roles' = roles
      BY <1>8 DEF ListRoleCodesByUser, Rows
    <2> QED
      BY <1>8, <2>1, CodesStep
  <1> QED
    BY <1>1, <1>2, <1>3, <1>4, <1>5, <1>6, <1>7, <1>8 DEF Arrive, Serve

-------------------------------------------------------------------------------
(***************************************************************************)
(* The invariant.                                                          *)
(***************************************************************************)

\* The types of the history.
HistoryOK == seen \in [Clients -> SUBSET Facts] /\ ago \in [Clients -> [Facts -> 0..TTL]]

\* IInv is Core with the history and what it bounds.
LEMMA CoreOf == IInv <=> Core /\ HistoryOK /\ Informed /\ Bounded
  BY DEF IInv, Core, TypeOK, HistoryOK

\* A token that opens an admin route names a user.
LEMMA AdminUid ==
    ASSUME NEW t \in Token, t.admin
    PROVE  t.uid \in Uids /\ t.left \in 0..TTL
  BY DEF Token, NoToken

\* The seed satisfies IInv.
LEMMA InitHolds ==
    ASSUME Init
    PROVE  IInv
  <1>1. /\ users \in [Uids -> RowState] /\ binds \in [Uids -> SUBSET Roles]
        /\ roles \in [Roles -> RoleRow]
    BY SessionAssumption DEF Init, RowState, RoleRow
  <1>2. NoToken \in Token /\ NoToken.admin = FALSE
    BY DEF NoToken, Token
  <1>3. Idle \in Slot /\ Stage(Idle, users) /\ Idle.pc = "idle"
    BY SessionAssumption, LoginStage
  <1>4. token \in [Clients -> Token] /\ Bounded
    BY <1>2 DEF Init, Bounded
  <1>5. slot \in [Clients -> Slot] /\ Staged /\ Informed
    BY <1>3 DEF Init, Staged, Informed, Aspires
  <1>6. Unborn
    BY DEF Init, Unborn
  <1>7. HistoryOK
    BY SessionAssumption DEF Init, HistoryOK
  <1> QED
    BY <1>1, <1>4, <1>5, <1>6, <1>7, CoreOf DEF Core

\* The history after the step of a request.
LEMMA AgeFields ==
    ASSUME HistoryOK, Age
    PROVE  /\ HistoryOK'
           /\ \A o \in Clients : Aspires(o)' =>
                  /\ seen[o] \subseteq seen'[o]
                  /\ \A f \in Facts : So(f, slot[o].row)' => f \in seen'[o]
           /\ \A o \in Clients, f \in Facts :
                  ago'[o][f] = IF token'[o] = token[o] THEN ago[o][f]
                               ELSE IF f \in seen[o] THEN 0 ELSE TTL
  <1>1. ASSUME NEW o \in Clients
        PROVE  seen'[o] = IF Aspires(o)'
                          THEN seen[o] \cup {f \in Facts : So(f, slot[o].row)'} ELSE {}
    BY DEF Age
  <1>2. seen' \in [Clients -> SUBSET Facts]
    <2>1. \A o \in Clients : seen'[o] \in SUBSET Facts
      BY <1>1 DEF HistoryOK
    <2> QED
      BY <2>1 DEF Age
  <1>3. ago' \in [Clients -> [Facts -> 0..TTL]]
    BY SessionAssumption DEF Age, HistoryOK
  <1>4. ASSUME NEW o \in Clients, NEW f \in Facts
        PROVE  ago'[o][f] = IF token'[o] = token[o] THEN ago[o][f]
                            ELSE IF f \in seen[o] THEN 0 ELSE TTL
    BY DEF Age
  <1> QED
    BY <1>1, <1>2, <1>3, <1>4 DEF HistoryOK

\* A request keeps the history true.
LEMMA AgeKeeps ==
    ASSUME IInv, Age, Honest, token' \in [Clients -> Token]
    PROVE  HistoryOK' /\ Informed' /\ Bounded'
  <1>1. HistoryOK
    BY CoreOf
  <1>2. "user" \in Facts /\ "role" \in Facts
    BY DEF Facts
  <1>3. ASSUME NEW o \in Clients, Aspires(o)'
        PROVE  /\ "user" \in seen'[o]
               /\ slot'[o].pc = "sign" => "role" \in seen'[o]
    <2>1. /\ seen[o] \subseteq seen'[o]
          /\ So("user", slot[o].row)' => "user" \in seen'[o]
          /\ So("role", slot[o].row)' => "role" \in seen'[o]
      BY <1>1, <1>2, <1>3, AgeFields
    <2>2. /\ Aspires(o) => "user" \in seen[o]
          /\ Aspires(o) /\ slot[o].pc = "sign" => "role" \in seen[o]
      BY DEF IInv, Informed
    <2>3. Found(o)
      BY DEF Honest
    <2>4. CASE slot'[o] = slot[o]
      <3>1. Aspires(o)
        BY <1>3, <2>4 DEF Aspires
      <3> QED
        BY <2>1, <2>2, <2>4, <3>1
    <2>5. CASE slot'[o] # slot[o] /\ slot'[o].pc = "codes"
      BY <2>1, <2>3, <2>5 DEF Found
    <2>6. CASE slot'[o] # slot[o] /\ slot'[o].pc = "sign"
      <3>1. slot'[o].job.grants /\ slot[o].pc = "codes" /\ So("role", slot[o].row)'
        BY <1>3, <2>3, <2>6 DEF Found, Aspires
      <3>2. Aspires(o)
        BY <3>1 DEF Aspires
      <3> QED
        BY <2>1, <2>2, <3>1, <3>2
    <2> QED
      BY <1>3, <2>4, <2>5, <2>6 DEF Aspires
  <1>4. ASSUME NEW o \in Clients, token'[o].admin, token'[o].left > 0, NEW f \in Facts
        PROVE  ago'[o][f] + token'[o].left <= TTL
    <2>1. token'[o].left \in 0..TTL
      BY <1>4, AdminUid
    <2>2. ago'[o][f] = IF token'[o] = token[o] THEN ago[o][f]
                       ELSE IF f \in seen[o] THEN 0 ELSE TTL
      BY <1>1, AgeFields
    <2>3. CASE token'[o] = token[o]
      BY <1>4, <2>2, <2>3 DEF IInv, Bounded
    <2>4. CASE token'[o] # token[o]
      <3>1. slot[o].pc = "sign" /\ slot[o].job.grants
        BY <1>4, <2>4 DEF Honest, Signed
      <3>2. Aspires(o)
        BY <3>1 DEF Aspires
      <3>3. "user" \in seen[o] /\ "role" \in seen[o]
        BY <3>1, <3>2 DEF IInv, Informed
      <3>4. f \in seen[o]
        BY <3>3 DEF Facts
      <3>5. ago'[o][f] = 0
        BY <2>2, <2>4, <3>4
      <3> QED
        BY <2>1, <3>5, SessionAssumption
    <2> QED
      BY <2>3, <2>4
  <1>5. HistoryOK'
    BY <1>1, AgeFields
  <1>6. Informed'
    BY <1>3 DEF Informed
  <1>7. Bounded'
    BY <1>4 DEF Bounded
  <1> QED
    BY <1>5, <1>6, <1>7

\* A tick takes from a token what it adds to the time since its login.
LEMMA TickKeeps ==
    ASSUME IInv, Tick
    PROVE  IInv'
  <1>1. /\ users' = users /\ binds' = binds /\ roles' = roles
        /\ slot' = slot /\ seen' = seen
    BY DEF Tick, Rows
  <1>2. /\ ago' \in [Clients -> [Facts -> 0..TTL]]
        /\ \A c \in Clients, f \in Facts : ago'[c][f] <= ago[c][f] + 1
    BY SessionAssumption DEF Tick, Later, IInv, TypeOK
  <1>3. ASSUME NEW c \in Clients
        PROVE  /\ token'[c] \in Token
               /\ token'[c].admin = token[c].admin
               /\ token'[c].left = IF token[c].left > 0 THEN token[c].left - 1 ELSE token[c].left
    <2>1. PICK t \in Token : t = token[c]
      BY DEF IInv, TypeOK
    <2>2. token'[c] = IF t.left > 0 THEN [t EXCEPT !.left = t.left - 1] ELSE t
      BY <2>1 DEF Tick
    <2>3. CASE t.left > 0
      <3>1. t \in [uid : Uids, admin : BOOLEAN, left : 0..TTL]
        BY <2>3 DEF Token, NoToken
      <3>2. token'[c] = [uid |-> t.uid, admin |-> t.admin, left |-> t.left - 1]
        BY <2>2, <2>3, <3>1
      <3>3. t.left - 1 \in 0..TTL
        BY <2>3, <3>1, SessionAssumption
      <3> QED
        BY <2>1, <2>3, <3>1, <3>2, <3>3 DEF Token
    <2>4. CASE ~(t.left > 0)
      BY <2>1, <2>2, <2>4
    <2> QED
      BY <2>3, <2>4
  <1>4. token' \in [Clients -> Token]
    BY <1>3 DEF Tick
  <1>5. ASSUME NEW c \in Clients, token'[c].admin, token'[c].left > 0, NEW f \in Facts
        PROVE  ago'[c][f] + token'[c].left <= TTL
    <2>1. PICK t \in Token : t = token[c]
      BY DEF IInv, TypeOK
    <2>2. t.admin
      BY <1>3, <1>5, <2>1
    <2>3. t.left \in 0..TTL
      BY <2>2, AdminUid
    <2>4. t.left > 0 /\ token'[c].left = t.left - 1
      BY <1>3, <1>5, <2>1, <2>3
    <2>5. ago[c][f] + t.left <= TTL
      BY <2>1, <2>2, <2>4 DEF IInv, Bounded
    <2>6. ago'[c][f] <= ago[c][f] + 1 /\ ago[c][f] \in 0..TTL /\ ago'[c][f] \in 0..TTL
      BY <1>2 DEF IInv, TypeOK
    <2> QED
      BY <2>3, <2>4, <2>5, <2>6, SessionAssumption
  <1>6. Staged' /\ Unborn' /\ Informed'
    BY <1>1 DEF IInv, Staged, Unborn, Informed, Aspires
  <1>7. Bounded'
    BY <1>5 DEF Bounded
  <1> QED
    BY <1>1, <1>2, <1>4, <1>6, <1>7 DEF IInv, TypeOK

\* The three facts about IInv that the theorems rest on, and what a step does to roles.
LEMMA NextKeeps ==
    ASSUME IInv, [Next]_vars
    PROVE  IInv' /\ \A r \in Roles : roles[r].st = "deleted" => roles'[r] = roles[r]
  <1>1. CASE Tick
    <2>1. roles' = roles
      BY <1>1 DEF Tick, Rows
    <2> QED
      BY <1>1, <2>1, TickKeeps
  <1>2. CASE \E c \in Clients : (Arrive(c) \/ Serve(c) \/ Fail(c)) /\ Age
    <2>1. PICK c \in Clients : (Arrive(c) \/ Serve(c) \/ Fail(c)) /\ Age
      BY <1>2
    <2>2. Core
      BY CoreOf
    <2>3. /\ Core' /\ Honest
          /\ \A r \in Roles : roles[r].st = "deleted" => roles'[r] = roles[r]
      BY <2>1, <2>2, RequestStep
    <2>4. token' \in [Clients -> Token]
      BY <2>3 DEF Core
    <2>5. HistoryOK' /\ Informed' /\ Bounded'
      BY <2>1, <2>3, <2>4, AgeKeeps
    <2>6. TypeOK' /\ Staged' /\ Unborn'
      BY <2>3, <2>5 DEF Core, TypeOK, HistoryOK
    <2> QED
      BY <2>3, <2>5, <2>6 DEF IInv
  <1>3. CASE UNCHANGED vars
    BY <1>3 DEF vars, IInv, TypeOK, Staged, Unborn, Informed, Aspires, Bounded
  <1> QED
    BY <1>1, <1>2, <1>3 DEF Next

(***************************************************************************)
(* Whatever logins, edits and deletions run at the same time: a request    *)
(* has filled the variables its next statement uses, nobody works for a    *)
(* user that does not exist yet, a login signs an admin token only when it *)
(* has seen the user and its admin role, and a token's remaining life and  *)
(* the time since then stay within one lifetime.                           *)
(***************************************************************************)
THEOREM Invariant == Spec => []IInv
  <1>1. Init => IInv
    BY InitHolds
  <1>2. IInv /\ [Next]_vars => IInv'
    BY NextKeeps
  <1> QED
    BY <1>1, <1>2, PTL DEF Spec

(***************************************************************************)
(* Tables, tokens and requests keep their types; a token never lives       *)
(* longer than the configured time.                                        *)
(***************************************************************************)
THEOREM TypeCorrect == Spec => []TypeOK
  <1>1. IInv => TypeOK
    BY DEF IInv
  <1> QED
    BY <1>1, Invariant, PTL

(***************************************************************************)
(* Whoever gets past requireAdmin was signed in less than one token        *)
(* lifetime ago, by a login during which the user was there and during     *)
(* which it held an enabled admin role, whatever edits of users and roles  *)
(* came before, after or between the statements of that login.             *)
(***************************************************************************)
THEOREM StaleAuthority == Spec => []StaleAuthorityIsBounded
  <1>1. ASSUME IInv PROVE StaleAuthorityIsBounded
    <2>1. ASSUME NEW c \in Clients, requireAdmin(c), NEW f \in Facts PROVE ago[c][f] < TTL
      <3>1. PICK t \in Token : t = token[c]
        BY <1>1 DEF IInv, TypeOK
      <3>2. t.admin /\ t.left > 0
        BY <2>1, <3>1 DEF requireAdmin, Parse
      <3>3. t.left \in 0..TTL
        BY <3>2, AdminUid
      <3>4. ago[c][f] + t.left <= TTL /\ ago[c][f] \in 0..TTL
        BY <1>1, <3>1, <3>2 DEF IInv, Bounded, TypeOK
      <3> QED
        BY <3>2, <3>3, <3>4, SessionAssumption
    <2> QED
      BY <2>1 DEF StaleAuthorityIsBounded
  <1> QED
    BY <1>1, Invariant, PTL

(***************************************************************************)
(* No step writes a role that is deleted, also not one that had loaded it  *)
(* before (UpdateRole, DeleteRole).                                        *)
(***************************************************************************)
THEOREM RolesStayDeleted == Spec => DeletedRolesAreFrozen
  <1>1. IInv /\ [Next]_vars => [\A r \in Roles : roles[r].st = "deleted" => roles'[r] = roles[r]]_vars
    BY NextKeeps
  <1> QED
    BY <1>1, Invariant, PTL DEF Spec, DeletedRolesAreFrozen

-------------------------------------------------------------------------------
(***************************************************************************)
(* Authority.                                                              *)
(***************************************************************************)

\* Without power only logins and registrations are under way.
LEMMA PowerlessRequests ==
    ASSUME IInv, ~Power, NEW c \in Clients, Arrive(c) \/ Serve(c) \/ Fail(c)
    PROVE  \/ handleSKLogin(c) \/ handleSKRegister(c) \/ handleSKLogout(c)
           \/ GetUserByID(c) \/ ListRoleCodesByUser(c) \/ Sign(c) \/ Fail(c)
  <1>1. slot[c].job.op = "none" /\ ~(token[c].admin /\ token[c].left > 0)
    BY DEF Power, Acting
  <1>2. slot[c].pc \notin {"load", "write"}
    BY <1>1 DEF IInv, Staged, Stage
  <1>3. ~requireAdmin(c)
    BY <1>1 DEF requireAdmin, Parse
  <1>4. /\ ~handleSKUserCreate(c) /\ ~handleSKUserUpdate(c) /\ ~handleSKUserDelete(c)
        /\ ~handleSKRoleUpdate(c) /\ ~handleSKRoleDelete(c)
    BY <1>3 DEF Ask, handleSKUserCreate, handleSKUserUpdate, handleSKUserDelete,
                handleSKRoleUpdate, handleSKRoleDelete
  <1>5. /\ ~Load(c) /\ ~CreateUser(c) /\ ~UpdateUser(c) /\ ~DeleteUser(c)
        /\ ~UpdateRole(c) /\ ~DeleteRole(c)
    BY <1>2 DEF Load, CreateUser, UpdateUser, DeleteUser, UpdateRole, DeleteRole
  <1> QED
    BY <1>4, <1>5 DEF Arrive, Serve

\* What keeps the power away: roles stay, nobody who holds one can log in, and the
\* slot and the token that change give nothing.
LEMMA StillPowerless ==
    ASSUME ~Power, binds' = binds, roles' = roles,
           \A u \in Uids : Holds(u) => users'[u] # "live",
           \A c \in Clients : slot'[c] = slot[c]
                   \/ /\ slot'[c].job.op = "none"
                      /\ slot'[c].pc = "codes" => \A u \in Uids : Holds(u) => slot'[c].row # u
                      /\ slot'[c].pc = "sign" => slot'[c].job.grants = FALSE,
           \A c \in Clients : token'[c].admin /\ token'[c].left > 0
                   => token[c].admin /\ token[c].left > 0
    PROVE  ~Power'
  <1>1. \A u \in Uids : Holds(u)' <=> Holds(u)
    BY DEF Holds, Grants
  <1>2. \A c \in Clients : ~Acting(c)'
    BY DEF Power, Acting
  <1>3. \A c \in Clients : ~(token'[c].admin /\ token'[c].left > 0)
    BY DEF Power
  <1>4. \A u \in Uids, c \in Clients : Holds(u) => ~(slot'[c].pc = "codes" /\ slot'[c].row = u)
    BY DEF Power
  <1>5. \A c \in Clients : ~(slot'[c].pc = "sign" /\ slot'[c].job.grants)
    BY DEF Power
  <1> QED
    BY <1>1, <1>2, <1>3, <1>4, <1>5 DEF Power

\* Without power no step brings it back.
LEMMA PowerlessStep ==
    ASSUME IInv, ~Power, [Next]_vars
    PROVE  ~Power'
  <1>1. CASE UNCHANGED vars
    BY <1>1 DEF vars, Power, Holds, Grants, Acting
  <1>2. CASE Tick
    <2>1. users' = users /\ binds' = binds /\ roles' = roles /\ slot' = slot
      BY <1>2 DEF Tick, Rows
    <2>2. ASSUME NEW c \in Clients, token'[c].admin, token'[c].left > 0
          PROVE  token[c].admin /\ token[c].left > 0
      <3>1. PICK t \in Token : t = token[c]
        BY DEF IInv, TypeOK
      <3>2. token'[c] = IF t.left > 0 THEN [t EXCEPT !.left = t.left - 1] ELSE t
        BY <1>2, <3>1 DEF Tick
      <3>3. CASE t.left > 0
        <4>1. t \in [uid : Uids, admin : BOOLEAN, left : 0..TTL]
          BY <3>3 DEF Token, NoToken
        <4>2. token'[c].admin = t.admin
          BY <3>2, <3>3, <4>1
        <4> QED
          BY <2>2, <3>1, <3>3, <4>2
      <3>4. CASE ~(t.left > 0)
        BY <2>2, <3>1, <3>2, <3>4
      <3> QED
        BY <3>3, <3>4
    <2>3. \A u \in Uids : Holds(u) => users'[u] # "live"
      BY <2>1 DEF Power
    <2> QED
      BY <2>1, <2>2, <2>3, StillPowerless
  <1>3. CASE \E c \in Clients : (Arrive(c) \/ Serve(c) \/ Fail(c)) /\ Age
    <2>1. PICK c \in Clients : Arrive(c) \/ Serve(c) \/ Fail(c)
      BY <1>3
    <2>2. slot \in [Clients -> Slot] /\ token \in [Clients -> Token] /\ users \in [Uids -> RowState]
      BY DEF IInv, TypeOK
    <2>3. \A u \in Uids : Holds(u) => users[u] # "live"
      BY DEF Power
    <2>4. Idle \in Slot /\ Idle.pc = "idle" /\ Idle.job.op = "none"
      BY SessionAssumption, LoginStage
    <2>5. CASE handleSKLogin(c)
      <3>1. users' = users /\ binds' = binds /\ roles' = roles /\ token' = token
        BY <2>5 DEF handleSKLogin, Rows
      <3>2. PICK u \in Uids : Goto(c, Login("user", u))
        BY <2>5 DEF handleSKLogin
      <3>3. /\ Login("user", u) \in Slot /\ Login("user", u).pc = "user"
            /\ Login("user", u).job.op = "none"
        BY LoginStage
      <3>4. slot'[c] = Login("user", u) /\ \A o \in Clients \ {c} : slot'[o] = slot[o]
        BY <2>2, <3>2, <3>3, OneMoves
      <3> QED
        BY <2>3, <3>1, <3>3, <3>4, StillPowerless
    <2>6. CASE handleSKRegister(c)
      <3>1. binds' = binds /\ roles' = roles /\ token' = token
        BY <2>6 DEF handleSKRegister
      <3>2. PICK v \in Uids : Goto(c, Login("user", v))
        BY <2>6 DEF handleSKRegister
      <3>3. /\ Login("user", v) \in Slot /\ Login("user", v).pc = "user"
            /\ Login("user", v).job.op = "none"
        BY LoginStage
      <3>4. slot'[c] = Login("user", v) /\ \A o \in Clients \ {c} : slot'[o] = slot[o]
        BY <2>2, <3>2, <3>3, OneMoves
      <3>5. PICK u \in Uids : users[u] = "free" /\ users' = [users EXCEPT ![u] = "live"]
        BY <2>6 DEF handleSKRegister, Fresh
      <3>6. ~Holds(u)
        BY <3>5 DEF IInv, Unborn, Holds
      <3>7. \A w \in Uids : Holds(w) => users'[w] # "live"
        BY <2>2, <2>3, <3>5, <3>6
      <3> QED
        BY <3>1, <3>3, <3>4, <3>7, StillPowerless
    <2>7. CASE handleSKLogout(c)
      <3>1. users' = users /\ binds' = binds /\ roles' = roles /\ slot' = slot
        BY <2>7 DEF handleSKLogout, Rows
      <3>2. \A o \in Clients : token'[o] = token[o] \/ token'[o].admin = FALSE
        BY <2>2, <2>7 DEF handleSKLogout, NoToken
      <3> QED
        BY <2>3, <3>1, <3>2, StillPowerless
    <2>8. CASE GetUserByID(c)
      <3>1. users' = users /\ binds' = binds /\ roles' = roles /\ token' = token
        BY <2>8 DEF GetUserByID, Rows
      <3>2. slot[c].row \in Uids
        BY <2>8 DEF GetUserByID, IInv, Staged, Stage
      <3>3. PICK u \in Uids : u = slot[c].row
        BY <3>2
      <3>4. /\ Login("codes", u) \in Slot /\ Login("codes", u).row = u
            /\ Login("codes", u).pc = "codes" /\ Login("codes", u).job.op = "none"
        BY LoginStage
      <3>5. CASE users[u] = "live"
        <4>1. Goto(c, Login("codes", u))
          BY <2>8, <3>3, <3>5 DEF GetUserByID
        <4>2. slot'[c] = Login("codes", u) /\ \A o \in Clients \ {c} : slot'[o] = slot[o]
          BY <2>2, <3>4, <4>1, OneMoves
        <4>3. ~Holds(u)
          BY <2>3, <3>5
        <4> QED
          BY <2>3, <3>1, <3>4, <4>2, <4>3, StillPowerless
      <3>6. CASE users[u] # "live"
        <4>1. Goto(c, Idle)
          BY <2>8, <3>3, <3>6 DEF GetUserByID
        <4>2. slot'[c] = Idle /\ \A o \in Clients \ {c} : slot'[o] = slot[o]
          BY <2>2, <2>4, <4>1, OneMoves
        <4> QED
          BY <2>3, <2>4, <3>1, <4>2, StillPowerless
      <3> QED
        BY <3>5, <3>6
    <2>9. CASE Sign(c)
      <3>1. users' = users /\ binds' = binds /\ roles' = roles /\ Goto(c, Idle)
        BY <2>9 DEF Sign, Rows
      <3>2. slot'[c] = Idle /\ \A o \in Clients \ {c} : slot'[o] = slot[o]
        BY <2>2, <2>4, <3>1, OneMoves
      <3>3. slot[c] \in Slot /\ slot[c].job.grants = FALSE
        <4>1. slot[c] \in Slot /\ ~slot[c].job.grants
          BY <2>2, <2>9 DEF Sign, Power
        <4> QED
          BY <4>1, SlotFields
      <3>4. Minted(slot[c], TTL).admin = FALSE
        BY <3>3 DEF Minted
      <3>5. token'[c] = Minted(slot[c], TTL) /\ \A o \in Clients \ {c} : token'[o] = token[o]
        BY <2>2, <2>9 DEF Sign
      <3> QED
        BY <2>3, <2>4, <3>1, <3>2, <3>4, <3>5, StillPowerless
    <2>10. CASE Fail(c)
      <3>1. users' = users /\ binds' = binds /\ roles' = roles /\ token' = token /\ Goto(c, Idle)
        BY <2>10 DEF Fail, Rows
      <3>2. slot'[c] = Idle /\ \A o \in Clients \ {c} : slot'[o] = slot[o]
        BY <2>2, <2>4, <3>1, OneMoves
      <3> QED
        BY <2>3, <2>4, <3>1, <3>2, StillPowerless
    <2>11. CASE ListRoleCodesByUser(c)
      <3>1. users' = users /\ binds' = binds /\ roles' = roles /\ token' = token
        BY <2>11 DEF ListRoleCodesByUser, Rows
      <3>2. slot[c].row \in Uids
        BY <2>11 DEF ListRoleCodesByUser, IInv, Staged, Stage
      <3>3. Holds(slot[c].row) = FALSE
        BY <2>11, <3>2 DEF ListRoleCodesByUser, Power, Holds
      <3>4. PICK s : s = At("sign", JobOf("none", {}, FALSE), slot[c].row, {})
        OBVIOUS
      <3>5. /\ s \in Slot /\ s.pc = "sign"
            /\ s.job.op = "none" /\ s.job.grants = FALSE
        BY <3>2, <3>4 DEF At, JobOf, Slot, Job
      <3>6. Goto(c, s)
        <4>1. JobOf("none", {}, Holds(slot[c].row)) = JobOf("none", {}, FALSE)
          BY <3>3, Zenon
        <4> QED
          BY <2>11, <3>4, <4>1, Zenon DEF ListRoleCodesByUser
      <3>7. slot'[c] = s /\ \A o \in Clients \ {c} : slot'[o] = slot[o]
        BY <2>2, <3>5, <3>6, OneMoves
      <3> QED
        BY <2>3, <3>1, <3>5, <3>7, StillPowerless
    <2> QED
      BY <2>1, <2>5, <2>6, <2>7, <2>8, <2>9, <2>10, <2>11, PowerlessRequests
  <1> QED
    BY <1>1, <1>2, <1>3 DEF Next

(***************************************************************************)
(* Authority comes from authority: once nobody holds, exercises or can     *)
(* obtain an admin role, no request, registration included, makes one.     *)
(***************************************************************************)
THEOREM NoSpontaneousAuthority == Spec => AuthorityNeedsAuthority
  <1>1. IInv /\ [Next]_vars => [~Power => ~Power']_vars
    BY PowerlessStep
  <1> QED
    BY <1>1, Invariant, PTL DEF Spec, AuthorityNeedsAuthority
=============================================================================

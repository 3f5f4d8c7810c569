--------------------------- MODULE AccountsProofs ---------------------------
(***************************************************************************)
(* Proofs about Accounts for every set of requests, users, names and roles.*)
(* The inductive invariant says what a request knows at each of its        *)
(* statements: a transaction that holds its t_user row finds the user as   *)
(* it left it (absent for a creation, live for an edit), one that matched  *)
(* no row works for a user that is gone, and no two hold the same row.     *)
(***************************************************************************)
EXTENDS Accounts, TLAPS

Quiet == {"idle", "next"}

InTx == {"acct", "roles", "commit"}

\* A creation, where st and b are t_user and t_user_role of its id.
NewStage(r, s, st, b) ==
    /\ s.pc \in {"count", "user"} \cup InTx
    /\ s.pc \notin InTx => s.hits = {}
    /\ s.pc \in InTx => s.u \in Uids /\ st = "free" /\ "user" \in s.hits
    /\ s.pc \in {"roles", "commit"} => "acct" \in s.hits
    /\ s.pc = "commit" => s.cleared = b /\ s.added = s.q.rids \X {r}

\* An update or a deletion.
EditStage(r, s, st, b) ==
    /\ s.pc \in {"load", "user"} \cup InTx
    /\ s.u = s.q.u
    /\ s.pc \notin InTx => s.hits = {}
    /\ s.pc = "user" => st # "free"
    /\ s.pc \in InTx => st = IF "user" \in s.hits THEN "live" ELSE "deleted"
    /\ s.pc = "acct" => "acct" \notin s.hits
    /\ s.pc \in {"roles", "commit"} =>
           ("acct" \in s.hits <=> "user" \in s.hits /\ WritesAccount(s.q))
    /\ s.pc = "commit" /\ "user" \in s.hits =>
           IF s.q.set THEN s.cleared = b /\ s.added = s.q.rids \X {r}
           ELSE s.cleared = {} /\ s.added = {}

Stage(r, s, st, b) ==
    /\ s.pc \in Quiet => s.q = None /\ s.hits = {}
    /\ s.pc \notin Quiet => s.q \in Requests
    /\ s.pc # "commit" => s.cleared = {} /\ s.added = {}
    /\ s.pc \notin Quiet /\ IsNew(s.q) => NewStage(r, s, st, b)
    /\ s.pc \notin Quiet /\ ~IsNew(s.q) => EditStage(r, s, st, b)

StageAt(r, s) == Stage(r, s, users[s.u], bindings[s.u])

Staged == \A r \in Reqs : StageAt(r, slot[r])

Exclusive ==
    \A r, o \in Reqs :
        r # o /\ slot[r].u = slot[o].u /\ "user" \in slot[r].hits
        => "user" \notin slot[o].hits

IInv ==
    /\ TypeOK
    /\ Paired
    /\ Staged
    /\ Exclusive

-------------------------------------------------------------------------------
(***************************************************************************)
(* What a request holds, by its kind.                                      *)
(***************************************************************************)
LEMMA RequestFields ==
    ASSUME NEW q \in Requests
    PROVE  /\ q.op \in {"register", "create", "update", "delete"}
           /\ q.u \in Uids \cup {None} /\ q.set \in BOOLEAN /\ q.rids \in SUBSET Roles
           /\ q.pw \in Secrets \cup {None}
           /\ IsNew(q) => q.name \in Names /\ q.pw \in Secrets /\ q.set
           /\ ~IsNew(q) => q.u \in Uids
           /\ q.op = "delete" => ~q.set
  <1>1. CASE \E op \in {"register", "create"}, n \in Names, s \in Secrets, R \in SUBSET Roles :
                 q = NewUser(op, n, s, R)
    <2>1. PICK op \in {"register", "create"}, n \in Names, s \in Secrets, R \in SUBSET Roles :
                   q = NewUser(op, n, s, R)
      BY <1>1
    <2>2. /\ q.op = op /\ q.u = None /\ q.name = n /\ q.pw = s /\ q.set = TRUE /\ q.rids = R
      BY <2>1 DEF NewUser
    <2> QED
      BY <2>2 DEF IsNew
  <1>2. CASE \E u \in Uids, s \in Secrets \cup {None}, b \in BOOLEAN, R \in SUBSET Roles :
                 q = EditUser(u, s, b, R)
    <2>1. PICK u \in Uids, s \in Secrets \cup {None}, b \in BOOLEAN, R \in SUBSET Roles :
                   q = EditUser(u, s, b, R)
      BY <1>2
    <2>2. /\ q.op = "update" /\ q.u = u /\ q.pw = s /\ q.set = b /\ q.rids = R
      BY <2>1 DEF EditUser
    <2> QED
      BY <2>2 DEF IsNew
  <1>3. CASE \E u \in Uids : q = RemoveUser(u)
    <2>1. PICK u \in Uids : q = RemoveUser(u)
      BY <1>3
    <2>2. q.op = "delete" /\ q.u = u /\ q.pw = None /\ q.set = FALSE /\ q.rids = {}
      BY <2>1 DEF RemoveUser
    <2> QED
      BY <2>2 DEF IsNew
  <1> QED
    BY <1>1, <1>2, <1>3 DEF Requests

(***************************************************************************)
(* A step that writes no table: it is enough to look at the request.       *)
(***************************************************************************)
LEMMA LocalStep ==
    ASSUME IInv, NEW r \in Reqs, NEW new \in Slot, Stay,
           slot' = [slot EXCEPT ![r] = new],
           StageAt(r, new),
           \A o \in Reqs \ {r} :
               slot[o].u = new.u /\ "user" \in new.hits => "user" \notin slot[o].hits
    PROVE  IInv'
  <1>1. /\ users' = users /\ accts' = accts /\ bindings' = bindings
        /\ slot \in [Reqs -> Slot]
    BY DEF IInv, TypeOK, Stay
  <1>2. slot'[r] = new /\ \A o \in Reqs \ {r} : slot'[o] = slot[o]
    BY <1>1
  <1>3. TypeOK'
    BY <1>1 DEF IInv, TypeOK
  <1>4. Paired'
    BY <1>1 DEF IInv, Paired
  <1>5. Staged'
    BY <1>1, <1>2 DEF IInv, Staged, StageAt, Stage, NewStage, EditStage
  <1>6. Exclusive'
    BY <1>2 DEF IInv, Exclusive
  <1> QED
    BY <1>3, <1>4, <1>5, <1>6 DEF IInv

\* The request is done with, or turns to its next id.
LEMMA QuietStep ==
    ASSUME IInv, NEW r \in Reqs, NEW pc \in Quiet, NEW rest \in SUBSET Uids, Stay,
           slot' = [slot EXCEPT ![r] = At(pc, None, None, rest)]
    PROVE  IInv'
  <1> DEFINE new == At(pc, None, None, rest)
  <1>1. new \in Slot
    BY DEF At, Slot, Quiet
  <1>2. new.pc = pc /\ new.q = None /\ new.hits = {} /\ new.cleared = {} /\ new.added = {}
    BY DEF At
  <1> HIDE DEF new
  <1>3. StageAt(r, new)
    BY <1>2 DEF StageAt, Stage, Quiet
  <1> QED
    BY <1>1, <1>2, <1>3, LocalStep DEF new

LEMMA IdleStep ==
    ASSUME IInv, NEW r \in Reqs, Stay, slot' = [slot EXCEPT ![r] = Idle]
    PROVE  IInv'
  <1>1. "idle" \in Quiet /\ {} \in SUBSET Uids
    BY DEF Quiet
  <1>2. slot' = [slot EXCEPT ![r] = At("idle", None, None, {})]
    BY DEF Idle
  <1> QED
    BY <1>1, <1>2, QuietStep

\* A request takes its first statement.
LEMMA ArriveStep ==
    ASSUME IInv, NEW r \in Reqs, NEW q \in Requests, NEW pc \in {"count", "load", "user"},
           NEW rest \in SUBSET Uids, NEW u \in Uids \cup {None}, Stay,
           slot' = [slot EXCEPT ![r] = At(pc, q, u, rest)],
           IF IsNew(q) THEN pc \in {"count", "user"} ELSE pc = "load" /\ u = q.u
    PROVE  IInv'
  <1> DEFINE new == At(pc, q, u, rest)
  <1>1. new \in Slot
    BY DEF At, Slot
  <1>2. /\ new.pc = pc /\ new.q = q /\ new.u = u
        /\ new.hits = {} /\ new.cleared = {} /\ new.added = {}
    BY DEF At
  <1> HIDE DEF new
  <1>3. StageAt(r, new)
    BY <1>2 DEF StageAt, Stage, NewStage, EditStage, Quiet, InTx
  <1> QED
    BY <1>1, <1>2, <1>3, LocalStep DEF new

LEMMA NewRequest ==
    ASSUME NEW op \in {"register", "create"}, NEW n \in Names, NEW s \in Secrets,
           NEW R \in SUBSET Roles
    PROVE  NewUser(op, n, s, R) \in Requests
  BY DEF Requests

LEMMA ArriveInv ==
    ASSUME IInv, NEW r \in Reqs, Arrive(r)
    PROVE  IInv'
  <1>1. CASE handleSKRegister(r)
    <2>1. PICK n \in Names, s \in Secrets :
              slot' = [slot EXCEPT ![r] = At("count", NewUser("register", n, s, {}), None, {})]
      BY <1>1 DEF handleSKRegister
    <2>2. PICK q : q = NewUser("register", n, s, {})
      OBVIOUS
    <2>3. q \in Requests
      BY <2>2, NewRequest
    <2>4. IsNew(q)
      BY <2>2 DEF IsNew, NewUser
    <2> QED
      BY <1>1, <2>1, <2>2, <2>3, <2>4, ArriveStep DEF handleSKRegister
  <1>2. CASE handleSKUserCreate(r)
    <2>1. PICK n \in Names, s \in Secrets, R \in SUBSET Roles :
              slot' = [slot EXCEPT ![r] = At("user", NewUser("create", n, s, R), None, {})]
      BY <1>2 DEF handleSKUserCreate
    <2>2. PICK q : q = NewUser("create", n, s, R)
      OBVIOUS
    <2>3. q \in Requests
      BY <2>2, NewRequest
    <2>4. IsNew(q)
      BY <2>2 DEF IsNew, NewUser
    <2> QED
      BY <1>2, <2>1, <2>2, <2>3, <2>4, ArriveStep DEF handleSKUserCreate
  <1>3. CASE handleSKUserUpdate(r)
    <2>1. PICK u \in Uids, s \in Secrets \cup {None}, b \in BOOLEAN, R \in SUBSET Roles :
              slot' = [slot EXCEPT ![r] = At("load", EditUser(u, s, b, R), u, {})]
      BY <1>3 DEF handleSKUserUpdate
    <2>2. PICK q : q = EditUser(u, s, b, R)
      OBVIOUS
    <2>3. q \in Requests
      BY <2>2 DEF Requests
    <2>4. ~IsNew(q) /\ q.u = u
      BY <2>2 DEF IsNew, EditUser
    <2> QED
      BY <1>3, <2>1, <2>2, <2>3, <2>4, ArriveStep DEF handleSKUserUpdate
  <1>4. CASE handleSKUserDelete(r)
    <2>1. PICK U \in SUBSET Uids : slot' = [slot EXCEPT ![r] = At("next", None, None, U)]
      BY <1>4 DEF handleSKUserDelete
    <2> QED
      BY <1>4, <2>1, QuietStep DEF handleSKUserDelete, Quiet
  <1> QED
    BY <1>1, <1>2, <1>3, <1>4 DEF Arrive

LEMMA NextIdInv ==
    ASSUME IInv, NEW r \in Reqs, NextId(r)
    PROVE  IInv'
  <1>1. slot[r].rest \in SUBSET Uids
    BY DEF IInv, TypeOK, Slot
  <1>2. CASE slot' = [slot EXCEPT ![r] = Idle]
    BY <1>2, IdleStep DEF NextId
  <1>3. CASE \E u \in slot[r].rest :
                 slot' = [slot EXCEPT ![r] = At("load", RemoveUser(u), u, slot[r].rest \ {u})]
    <2>1. PICK u \in slot[r].rest :
              slot' = [slot EXCEPT ![r] = At("load", RemoveUser(u), u, slot[r].rest \ {u})]
      BY <1>3
    <2>2. PICK q : q = RemoveUser(u)
      OBVIOUS
    <2>3. q \in Requests
      BY <1>1, <2>2 DEF Requests
    <2>4. ~IsNew(q) /\ q.u = u
      BY <2>2 DEF IsNew, RemoveUser
    <2> QED
      BY <1>1, <2>1, <2>2, <2>3, <2>4, ArriveStep DEF NextId
  <1> QED
    BY <1>2, <1>3 DEF NextId

LEMMA FailInv ==
    ASSUME IInv, NEW r \in Reqs, Fail(r)
    PROVE  IInv'
  BY IdleStep DEF Fail

-------------------------------------------------------------------------------
(***************************************************************************)
(* A statement: what the request is afterwards.                            *)
(***************************************************************************)
LEMMA GoStep ==
    ASSUME IInv, NEW r \in Reqs, slot[r].pc \notin Quiet, Stay,
           NEW u \in Uids \cup {None}, NEW hits \in SUBSET {"user", "acct"},
           NEW cleared \in SUBSET Binding, NEW added \in SUBSET Binding,
           Go(r, u, hits, cleared, added),
           \A new \in Slot :
               /\ new.pc = Then(slot[r].q, slot[r].pc)
               /\ new.q = slot[r].q /\ new.u = u /\ new.hits = hits
               /\ new.cleared = cleared /\ new.added = added
               => StageAt(r, new),
           \A o \in Reqs \ {r} :
               slot[o].u = u /\ "user" \in hits => "user" \notin slot[o].hits
    PROVE  IInv'
  <1>1. PICK new : new = [pc |-> Then(slot[r].q, slot[r].pc), q |-> slot[r].q, u |-> u,
                          hits |-> hits, cleared |-> cleared, added |-> added,
                          rest |-> slot[r].rest]
    OBVIOUS
  <1>2. slot[r] \in Slot /\ Then(slot[r].q, slot[r].pc) \in {"user", "acct", "roles", "commit"}
    BY DEF IInv, TypeOK, Then
  <1>3. new \in Slot
    BY <1>1, <1>2 DEF Slot
  <1>4. /\ new.pc = Then(slot[r].q, slot[r].pc)
        /\ new.q = slot[r].q /\ new.u = u /\ new.hits = hits
        /\ new.cleared = cleared /\ new.added = added
    BY <1>1
  <1>5. slot' = [slot EXCEPT ![r] = new]
    BY <1>1 DEF Go
  <1> QED
    BY <1>3, <1>4, <1>5, LocalStep

\* What the invariant says about one request.
LEMMA SlotFacts ==
    ASSUME IInv, NEW r \in Reqs
    PROVE  /\ slot[r] \in Slot /\ StageAt(r, slot[r])
           /\ slot[r].pc \notin Quiet => slot[r].q \in Requests
           /\ slot[r].pc \notin Quiet /\ ~IsNew(slot[r].q) => slot[r].u \in Uids
  <1>1. slot[r] \in Slot /\ StageAt(r, slot[r])
    BY DEF IInv, TypeOK, Staged
  <1> QED
    BY <1>1, RequestFields DEF StageAt, Stage, EditStage

LEMMA CountInv ==
    ASSUME IInv, NEW r \in Reqs, CountAccounts(r)
    PROVE  IInv'
  <1>1. slot[r].pc = "count" /\ slot[r].pc \notin Quiet /\ Stay
    BY DEF CountAccounts, Quiet
  <1>2. slot[r].q \in Requests /\ IsNew(slot[r].q)
    BY <1>1, SlotFacts DEF StageAt, Stage, EditStage, InTx
  <1>3. CASE Go(r, None, {}, {}, {})
    <2>1. PICK h \in SUBSET {"user", "acct"} : h = {}
      OBVIOUS
    <2>2. "user" \notin h /\ Go(r, None, h, {}, {})
      BY <1>3, <2>1
    <2>3. ASSUME NEW new \in Slot, new.pc = Then(slot[r].q, slot[r].pc), new.q = slot[r].q,
                 new.u = None, new.hits = h, new.cleared = {}, new.added = {}
          PROVE  StageAt(r, new)
      <3>1. new.pc = "user"
        BY <1>1, <2>3 DEF Then
      <3> QED
        BY <1>2, <2>1, <2>3, <3>1 DEF StageAt, Stage, NewStage, Quiet, InTx
    <2>4. None \in Uids \cup {None} /\ {} \in SUBSET Binding
      OBVIOUS
    <2>5. \A o \in Reqs \ {r} : slot[o].u = None /\ "user" \in h => "user" \notin slot[o].hits
      BY <2>2
    <2>6. Go(r, None, h, {}, {})
      BY <2>2
    <2> QED
      BY <1>1, <2>3, <2>4, <2>5, <2>6, GoStep
  <1>4. CASE slot' = [slot EXCEPT ![r] = Idle]
    BY <1>1, <1>4, IdleStep
  <1> QED
    BY <1>3, <1>4 DEF CountAccounts

\* An edit that ends, or a deletion that turns to its next id.
LEMMA AfterOneIs ==
    ASSUME IInv, NEW r \in Reqs
    PROVE  \E pc \in Quiet, rest \in SUBSET Uids : AfterOne(slot[r]) = At(pc, None, None, rest)
  <1>1. slot[r].rest \in SUBSET Uids /\ {} \in SUBSET Uids
    BY DEF IInv, TypeOK, Slot
  <1>2. "idle" \in Quiet /\ "next" \in Quiet
    BY DEF Quiet
  <1>3. CASE slot[r].q.op = "delete"
    BY <1>1, <1>2, <1>3 DEF AfterOne
  <1>4. CASE slot[r].q.op # "delete"
    BY <1>1, <1>2, <1>4 DEF AfterOne, Idle
  <1> QED
    BY <1>3, <1>4

LEMMA LoadInv ==
    ASSUME IInv, NEW r \in Reqs, GetUserByID(r)
    PROVE  IInv'
  <1>1. slot[r].pc = "load" /\ slot[r].pc \notin Quiet /\ Stay
    BY DEF GetUserByID, Quiet
  <1>2. /\ slot[r].q \in Requests /\ ~IsNew(slot[r].q)
        /\ slot[r].u = slot[r].q.u /\ slot[r].u \in Uids
    BY <1>1, SlotFacts DEF StageAt, Stage, NewStage, EditStage, InTx
  <1>3. CASE users[slot[r].u] = "live"
    <2>1. PICK u \in Uids \cup {None} : u = slot[r].u
      BY <1>2
    <2>2. PICK h \in SUBSET {"user", "acct"} : h = {}
      OBVIOUS
    <2>3. Go(r, u, h, {}, {})
      BY <1>3, <2>1, <2>2 DEF GetUserByID
    <2>4. ASSUME NEW new \in Slot, new.pc = Then(slot[r].q, slot[r].pc), new.q = slot[r].q,
                 new.u = u, new.hits = h, new.cleared = {}, new.added = {}
          PROVE  StageAt(r, new)
      <3>1. new.pc = "user"
        BY <1>1, <2>4 DEF Then
      <3> QED
        BY <1>2, <1>3, <2>1, <2>2, <2>4, <3>1 DEF StageAt, Stage, EditStage, Quiet, InTx
    <2>5. \A o \in Reqs \ {r} :
              slot[o].u = u /\ "user" \in h => "user" \notin slot[o].hits
      BY <2>2
    <2>6. {} \in SUBSET Binding
      OBVIOUS
    <2> QED
      BY <1>1, <2>3, <2>4, <2>5, <2>6, GoStep
  <1>4. CASE users[slot[r].u] # "live"
    <2>1. slot' = [slot EXCEPT ![r] = AfterOne(slot[r])]
      BY <1>4 DEF GetUserByID
    <2>2. PICK pc \in Quiet, rest \in SUBSET Uids : AfterOne(slot[r]) = At(pc, None, None, rest)
      BY AfterOneIs
    <2> QED
      BY <1>1, <2>1, <2>2, QuietStep
  <1> QED
    BY <1>3, <1>4

LEMMA InsertUserInv ==
    ASSUME IInv, NEW r \in Reqs, InsertUser(r)
    PROVE  IInv'
  <1>1. slot[r].pc = "user" /\ slot[r].pc \notin Quiet /\ Stay /\ IsNew(slot[r].q)
    BY DEF InsertUser, Quiet
  <1>2. slot[r].q \in Requests
    BY <1>1, SlotFacts
  <1>3. PICK u \in Uids : Fresh(u) /\ Go(r, u, {"user"}, {}, {})
    BY DEF InsertUser
  <1>4. ASSUME NEW new \in Slot, new.pc = Then(slot[r].q, slot[r].pc), new.q = slot[r].q,
               new.u = u, new.hits = {"user"}, new.cleared = {}, new.added = {}
        PROVE  StageAt(r, new)
    <2>1. new.pc = "acct"
      BY <1>1, <1>4 DEF Then
    <2> QED
      BY <1>1, <1>2, <1>3, <1>4, <2>1 DEF StageAt, Stage, NewStage, Quiet, InTx, Fresh
  <1>5. \A o \in Reqs \ {r} :
            slot[o].u = u /\ "user" \in {"user"} => "user" \notin slot[o].hits
    BY <1>3 DEF Fresh
  <1>6. u \in Uids \cup {None} /\ {"user"} \in SUBSET {"user", "acct"} /\ {} \in SUBSET Binding
    OBVIOUS
  <1>7. Go(r, u, {"user"}, {}, {})
    BY <1>3
  <1> QED
    BY <1>1, <1>4, <1>5, <1>6, <1>7, GoStep

LEMMA WriteUserInv ==
    ASSUME IInv, NEW r \in Reqs, WriteUser(r)
    PROVE  IInv'
  <1>1. /\ slot[r].pc = "user" /\ slot[r].pc \notin Quiet /\ Stay
        /\ ~IsNew(slot[r].q) /\ ~Locked(r, "user")
    BY DEF WriteUser, Quiet
  <1>2. /\ slot[r].q \in Requests /\ slot[r].u \in Uids /\ slot[r].u = slot[r].q.u
        /\ slot[r].hits = {} /\ users[slot[r].u] # "free"
    BY <1>1, SlotFacts DEF StageAt, Stage, EditStage, InTx
  <1>3. users[slot[r].u] \in {"live", "deleted"}
    BY <1>2 DEF IInv, TypeOK, RowState
  <1>4. PICK h : h = UserHit(slot[r].u)
    OBVIOUS
  <1>5. /\ h \in SUBSET {"user", "acct"} /\ "acct" \notin h
        /\ "user" \in h <=> users[slot[r].u] = "live"
    BY <1>4 DEF UserHit
  <1>6. Go(r, slot[r].u, h, {}, {})
    BY <1>2, <1>4 DEF WriteUser
  <1>7. ASSUME NEW new \in Slot, new.pc = Then(slot[r].q, slot[r].pc), new.q = slot[r].q,
               new.u = slot[r].u, new.hits = h, new.cleared = {}, new.added = {}
        PROVE  StageAt(r, new)
    <2>1. new.pc = "acct"
      BY <1>1, <1>7 DEF Then
    <2> QED
      BY <1>1, <1>2, <1>3, <1>5, <1>7, <2>1 DEF StageAt, Stage, EditStage, Quiet, InTx
  <1>8. \A o \in Reqs \ {r} :
            slot[o].u = slot[r].u /\ "user" \in h => "user" \notin slot[o].hits
    BY <1>1 DEF Locked
  <1>9. /\ slot[r].u \in Uids \cup {None} /\ {} \in SUBSET Binding
        /\ h \in SUBSET {"user", "acct"}
    BY <1>2, <1>5
  <1> QED
    BY <1>1, <1>6, <1>7, <1>8, <1>9, GoStep

\* Later statements keep the row of t_user they hold.
LEMMA StillExclusive ==
    ASSUME IInv, NEW r \in Reqs, NEW h, "user" \in h => "user" \in slot[r].hits
    PROVE  \A o \in Reqs \ {r} :
               slot[o].u = slot[r].u /\ "user" \in h => "user" \notin slot[o].hits
  BY DEF IInv, Exclusive

LEMMA InsertAccountInv ==
    ASSUME IInv, NEW r \in Reqs, InsertAccount(r)
    PROVE  IInv'
  <1>1. slot[r].pc = "acct" /\ slot[r].pc \notin Quiet /\ Stay /\ IsNew(slot[r].q)
    BY DEF InsertAccount, Quiet
  <1>2. /\ slot[r].q \in Requests /\ slot[r].q.op # "delete" /\ slot[r].u \in Uids
        /\ users[slot[r].u] = "free" /\ "user" \in slot[r].hits
        /\ slot[r].hits \in SUBSET {"user", "acct"}
    BY <1>1, SlotFacts DEF StageAt, Stage, NewStage, InTx, IsNew, Slot
  <1>3. PICK h \in SUBSET {"user", "acct"} : h = slot[r].hits \cup {"acct"}
    BY <1>2
  <1>4. Go(r, slot[r].u, h, {}, {})
    BY <1>3 DEF InsertAccount
  <1>5. "user" \in h /\ "acct" \in h
    BY <1>2, <1>3
  <1>6. ASSUME NEW new \in Slot, new.pc = Then(slot[r].q, slot[r].pc), new.q = slot[r].q,
               new.u = slot[r].u, new.hits = h, new.cleared = {}, new.added = {}
        PROVE  StageAt(r, new)
    <2>1. new.pc = "roles"
      BY <1>1, <1>2, <1>6 DEF Then
    <2> QED
      BY <1>1, <1>2, <1>5, <1>6, <2>1 DEF StageAt, Stage, NewStage, Quiet, InTx
  <1>7. \A o \in Reqs \ {r} :
            slot[o].u = slot[r].u /\ "user" \in h => "user" \notin slot[o].hits
    BY <1>2, StillExclusive
  <1>8. slot[r].u \in Uids \cup {None} /\ {} \in SUBSET Binding
    BY <1>2
  <1> QED
    BY <1>1, <1>4, <1>6, <1>7, <1>8, GoStep

LEMMA WriteAccountInv ==
    ASSUME IInv, NEW r \in Reqs, WriteAccount(r)
    PROVE  IInv'
  <1>1. slot[r].pc = "acct" /\ slot[r].pc \notin Quiet /\ Stay /\ ~IsNew(slot[r].q)
    BY DEF WriteAccount, Quiet
  <1>2. /\ slot[r].q \in Requests /\ slot[r].u \in Uids /\ slot[r].u = slot[r].q.u
        /\ slot[r].hits \in SUBSET {"user", "acct"} /\ "acct" \notin slot[r].hits
        /\ users[slot[r].u] = IF "user" \in slot[r].hits THEN "live" ELSE "deleted"
    BY <1>1, SlotFacts DEF StageAt, Stage, EditStage, InTx, Slot
  <1>3. accts[slot[r].u].st = "live" <=> "user" \in slot[r].hits
    BY <1>2 DEF IInv, Paired
  <1>4. PICK h \in SUBSET {"user", "acct"} : h = slot[r].hits \cup AcctHit(r)
    BY <1>2 DEF AcctHit
  <1>5. /\ "user" \in h <=> "user" \in slot[r].hits
        /\ "acct" \in h <=> "user" \in slot[r].hits /\ WritesAccount(slot[r].q)
    BY <1>2, <1>3, <1>4 DEF AcctHit
  <1>6. Go(r, slot[r].u, h, {}, {})
    BY <1>4 DEF WriteAccount
  <1>7. ASSUME NEW new \in Slot, new.pc = Then(slot[r].q, slot[r].pc), new.q = slot[r].q,
               new.u = slot[r].u, new.hits = h, new.cleared = {}, new.added = {}
        PROVE  StageAt(r, new)
    <2>1. CASE slot[r].q.op = "delete"
      <3>1. new.pc = "commit"
        BY <1>1, <1>7, <2>1 DEF Then
      <3>2. ~slot[r].q.set
        BY <1>2, <2>1, RequestFields
      <3> QED
        BY <1>1, <1>2, <1>5, <1>7, <3>1, <3>2 DEF StageAt, Stage, EditStage, Quiet, InTx
    <2>2. CASE slot[r].q.op # "delete"
      <3>1. new.pc = "roles"
        BY <1>1, <1>7, <2>2 DEF Then
      <3> QED
        BY <1>1, <1>2, <1>5, <1>7, <3>1 DEF StageAt, Stage, EditStage, Quiet, InTx
    <2> QED
      BY <2>1, <2>2
  <1>8. \A o \in Reqs \ {r} :
            slot[o].u = slot[r].u /\ "user" \in h => "user" \notin slot[o].hits
    BY <1>5, StillExclusive
  <1>9. slot[r].u \in Uids \cup {None} /\ {} \in SUBSET Binding
    BY <1>2
  <1> QED
    BY <1>1, <1>6, <1>7, <1>8, <1>9, GoStep

LEMMA WriteRolesInv ==
    ASSUME IInv, NEW r \in Reqs, WriteRoles(r)
    PROVE  IInv'
  <1>1. slot[r].pc = "roles" /\ slot[r].pc \notin Quiet /\ Stay
    BY DEF WriteRoles, Quiet
  <1>2. /\ slot[r].q \in Requests /\ slot[r].u \in Uids
        /\ slot[r].hits \in SUBSET {"user", "acct"} /\ StageAt(r, slot[r])
    BY <1>1, SlotFacts DEF StageAt, Stage, NewStage, EditStage, InTx, Slot
  <1>3. PICK h \in SUBSET {"user", "acct"} : h = slot[r].hits
    BY <1>2
  <1>4. \A o \in Reqs \ {r} :
            slot[o].u = slot[r].u /\ "user" \in h => "user" \notin slot[o].hits
    BY <1>3, StillExclusive
  <1>5. PICK cleared \in SUBSET Binding, added \in SUBSET Binding :
            /\ Go(r, slot[r].u, h, cleared, added)
            /\ IF slot[r].q.set
               THEN cleared = bindings[slot[r].u] /\ added = slot[r].q.rids \X {r}
               ELSE cleared = {} /\ added = {}
    <2>1. CASE slot[r].q.set
      <3>1. bindings[slot[r].u] \in SUBSET Binding
        BY <1>2 DEF IInv, TypeOK
      <3>2. slot[r].q.rids \X {r} \in SUBSET Binding
        BY <1>2, RequestFields DEF Binding
      <3>3. Go(r, slot[r].u, h, bindings[slot[r].u], slot[r].q.rids \X {r})
        BY <1>3, <2>1 DEF WriteRoles
      <3> QED
        BY <2>1, <3>1, <3>2, <3>3
    <2>2. CASE ~slot[r].q.set
      <3>1. Go(r, slot[r].u, h, {}, {})
        BY <1>3, <2>2 DEF WriteRoles
      <3> QED
        BY <2>2, <3>1
    <2> QED
      BY <2>1, <2>2
  <1>6. ASSUME NEW new \in Slot, new.pc = Then(slot[r].q, slot[r].pc), new.q = slot[r].q,
               new.u = slot[r].u, new.hits = h, new.cleared = cleared, new.added = added
        PROVE  StageAt(r, new)
    <2>1. new.pc = "commit"
      BY <1>1, <1>6 DEF Then
    <2>2. CASE IsNew(slot[r].q)
      <3>1. slot[r].q.set
        BY <1>2, <2>2, RequestFields
      <3> QED
        BY <1>1, <1>2, <1>3, <1>5, <1>6, <2>1, <2>2, <3>1
           DEF StageAt, Stage, NewStage, Quiet, InTx
    <2>3. CASE ~IsNew(slot[r].q)
      BY <1>1, <1>2, <1>3, <1>5, <1>6, <2>1, <2>3 DEF StageAt, Stage, EditStage, Quiet, InTx
    <2> QED
      BY <2>2, <2>3
  <1>7. PICK u \in Uids \cup {None} : u = slot[r].u
    BY <1>2
  <1>8. Go(r, u, h, cleared, added)
    BY <1>5, <1>7
  <1>9. \A new \in Slot :
            /\ new.pc = Then(slot[r].q, slot[r].pc)
            /\ new.q = slot[r].q /\ new.u = u /\ new.hits = h
            /\ new.cleared = cleared /\ new.added = added
            => StageAt(r, new)
    BY <1>6, <1>7
  <1>10. \A o \in Reqs \ {r} :
             slot[o].u = u /\ "user" \in h => "user" \notin slot[o].hits
    BY <1>4, <1>7
  <1> QED
    BY <1>1, <1>8, <1>9, <1>10, GoStep

-------------------------------------------------------------------------------
(***************************************************************************)
(* A commit.                                                               *)
(***************************************************************************)

\* What a request about to commit holds.
LEMMA AtCommit ==
    ASSUME IInv, NEW r \in Reqs, slot[r].pc = "commit"
    PROVE  /\ slot[r].q \in Requests /\ slot[r].u \in Uids
           /\ IsNew(slot[r].q) => NewStage(r, slot[r], users[slot[r].u], bindings[slot[r].u])
           /\ ~IsNew(slot[r].q) => EditStage(r, slot[r], users[slot[r].u], bindings[slot[r].u])
  <1>1. slot[r].pc \notin Quiet
    BY DEF Quiet
  <1>2. StageAt(r, slot[r])
    BY SlotFacts
  <1> QED
    BY <1>1, <1>2, SlotFacts DEF StageAt, Stage, NewStage, InTx

\* The rows of the other users are left alone.
LEMMA WrittenElsewhere ==
    ASSUME IInv, NEW r \in Reqs, Written(r), NEW v \in Uids, v # slot[r].u
    PROVE  users'[v] = users[v] /\ accts'[v] = accts[v] /\ bindings'[v] = bindings[v]
  BY DEF Written, IInv, TypeOK

LEMMA WrittenUser ==
    ASSUME IInv, NEW r \in Reqs, Written(r), NEW u \in Uids, u = slot[r].u
    PROVE  users'[u] =
               IF "user" \in slot[r].hits /\ IsNew(slot[r].q) THEN "live"
               ELSE IF "user" \in slot[r].hits /\ slot[r].q.op = "delete" THEN "deleted"
               ELSE users[u]
  BY DEF Written, IInv, TypeOK

LEMMA WrittenAccount ==
    ASSUME IInv, NEW r \in Reqs, Written(r), NEW u \in Uids, u = slot[r].u
    PROVE  /\ "acct" \notin slot[r].hits => accts'[u] = accts[u]
           /\ "acct" \in slot[r].hits /\ IsNew(slot[r].q) =>
                  accts'[u] = [st |-> "live", name |-> slot[r].q.name, secret |-> slot[r].q.pw]
           /\ "acct" \in slot[r].hits /\ slot[r].q.op = "delete" =>
                  accts'[u] = [st |-> "deleted", name |-> accts[u].name,
                               secret |-> accts[u].secret]
           /\ "acct" \in slot[r].hits /\ ~IsNew(slot[r].q) /\ slot[r].q.op # "delete" =>
                  accts'[u] = [st |-> accts[u].st, name |-> accts[u].name,
                               secret |-> slot[r].q.pw]
  <1>1. accts \in [Uids -> Account]
    BY DEF IInv, TypeOK
  <1> DEFINE new == IF "acct" \notin slot[r].hits THEN accts[u]
           ELSE IF IsNew(slot[r].q)
           THEN [st |-> "live", name |-> slot[r].q.name, secret |-> slot[r].q.pw]
           ELSE IF slot[r].q.op = "delete"
           THEN [st |-> "deleted", name |-> accts[u].name, secret |-> accts[u].secret]
           ELSE [st |-> accts[u].st, name |-> accts[u].name, secret |-> slot[r].q.pw]
  <1>2. accts'[u] = new
    BY <1>1 DEF Written
  <1>3. slot[r].q.op = "delete" => ~IsNew(slot[r].q)
    BY DEF IsNew
  <1> QED
    BY <1>2, <1>3

LEMMA WrittenRoles ==
    ASSUME IInv, NEW r \in Reqs, Written(r), NEW u \in Uids, u = slot[r].u
    PROVE  bindings'[u] = (bindings[u] \ slot[r].cleared) \cup slot[r].added
  BY DEF Written, IInv, TypeOK

\* A user and its account are in the same state after the commit as well.
LEMMA CommitPaired ==
    ASSUME IInv, NEW r \in Reqs, slot[r].pc = "commit", Written(r)
    PROVE  Paired'
  <1>1. PICK u \in Uids : u = slot[r].u
    BY AtCommit
  <1>2. ASSUME NEW v \in Uids \ {u}
        PROVE  users'[v] = "live" <=> accts'[v].st = "live"
    BY <1>1, <1>2, WrittenElsewhere DEF IInv, Paired
  <1>3. users[u] = "live" <=> accts[u].st = "live"
    BY DEF IInv, Paired
  <1>4. users'[u] = "live" <=> accts'[u].st = "live"
    <2>1. CASE IsNew(slot[r].q)
      <3>1. "user" \in slot[r].hits /\ "acct" \in slot[r].hits
        BY <2>1, AtCommit DEF NewStage, InTx
      <3>2. users'[u] = "live"
        BY <1>1, <2>1, <3>1, WrittenUser
      <3>3. accts'[u] = [st |-> "live", name |-> slot[r].q.name, secret |-> slot[r].q.pw]
        BY <1>1, <2>1, <3>1, WrittenAccount
      <3> QED
        BY <3>2, <3>3
    <2>2. CASE ~IsNew(slot[r].q)
      <3>1. "acct" \in slot[r].hits <=> "user" \in slot[r].hits /\ WritesAccount(slot[r].q)
        BY <2>2, AtCommit DEF EditStage
      <3>2. CASE slot[r].q.op = "delete"
        <4>1. WritesAccount(slot[r].q)
          BY <3>2 DEF WritesAccount
        <4>2. CASE "user" \in slot[r].hits
          <5>1. users'[u] = "deleted"
            BY <1>1, <2>2, <3>2, <4>2, WrittenUser
          <5>2. accts'[u] = [st |-> "deleted", name |-> accts[u].name,
                             secret |-> accts[u].secret]
            BY <1>1, <3>1, <3>2, <4>1, <4>2, WrittenAccount
          <5> QED
            BY <5>1, <5>2
        <4>3. CASE "user" \notin slot[r].hits
          BY <1>1, <1>3, <3>1, <4>3, WrittenUser, WrittenAccount
        <4> QED
          BY <4>2, <4>3
      <3>3. CASE slot[r].q.op # "delete"
        <4>1. users'[u] = users[u]
          BY <1>1, <2>2, <3>3, WrittenUser
        <4>2. accts'[u].st = accts[u].st
          <5>1. CASE "acct" \in slot[r].hits
            <6>1. accts'[u] = [st |-> accts[u].st, name |-> accts[u].name,
                               secret |-> slot[r].q.pw]
              BY <1>1, <2>2, <3>3, <5>1, WrittenAccount
            <6> QED
              BY <6>1
          <5>2. CASE "acct" \notin slot[r].hits
            BY <1>1, <5>2, WrittenAccount
          <5> QED
            BY <5>1, <5>2
        <4> QED
          BY <1>3, <4>1, <4>2
      <3> QED
        BY <3>2, <3>3
    <2> QED
      BY <2>1, <2>2
  <1> QED
    BY <1>2, <1>4 DEF Paired

LEMMA CommitType ==
    ASSUME IInv, NEW r \in Reqs, slot[r].pc = "commit", Written(r),
           NEW new \in Slot, slot' = [slot EXCEPT ![r] = new]
    PROVE  TypeOK'
  <1>1. PICK u \in Uids : u = slot[r].u
    BY AtCommit
  <1>2. /\ users \in [Uids -> RowState] /\ accts \in [Uids -> Account]
        /\ bindings \in [Uids -> SUBSET Binding] /\ slot \in [Reqs -> Slot]
    BY DEF IInv, TypeOK
  <1>3. slot[r].q \in Requests /\ slot[r].added \in SUBSET Binding
    BY <1>2, AtCommit DEF Slot
  <1>4. users' \in [Uids -> RowState]
    BY <1>2 DEF Written, RowState
  <1>5. bindings' \in [Uids -> SUBSET Binding]
    BY <1>2, <1>3 DEF Written
  <1>6. slot' \in [Reqs -> Slot]
    BY <1>2
  <1>7. ASSUME "acct" \in slot[r].hits, ~IsNew(slot[r].q)
        PROVE  /\ accts[u].st = "live" /\ accts[u].name \in Names
               /\ accts[u].secret \in Secrets
               /\ slot[r].q.op # "delete" => slot[r].q.pw \in Secrets
    <2>1. "user" \in slot[r].hits /\ WritesAccount(slot[r].q) /\ users[u] = "live"
      BY <1>1, <1>7, AtCommit DEF EditStage, InTx
    <2>2. accts[u].st = "live"
      BY <2>1 DEF IInv, Paired
    <2>3. accts[u] \in [st : {"live", "deleted"}, name : Names, secret : Secrets]
      BY <1>2, <2>2 DEF Account, NoAccount
    <2>4. slot[r].q.op # "delete" => slot[r].q.pw \in Secrets
      BY <1>3, <2>1, RequestFields DEF WritesAccount
    <2> QED
      BY <2>2, <2>3, <2>4
  <1>8. accts'[u] \in Account
    <2>1. CASE "acct" \notin slot[r].hits
      BY <1>1, <1>2, <2>1, WrittenAccount
    <2>2. CASE "acct" \in slot[r].hits /\ IsNew(slot[r].q)
      <3>1. slot[r].q.name \in Names /\ slot[r].q.pw \in Secrets
        BY <1>3, <2>2, RequestFields
      <3>2. accts'[u] = [st |-> "live", name |-> slot[r].q.name, secret |-> slot[r].q.pw]
        BY <1>1, <2>2, WrittenAccount
      <3> QED
        BY <3>1, <3>2 DEF Account
    <2>3. CASE "acct" \in slot[r].hits /\ ~IsNew(slot[r].q)
      <3>1. CASE slot[r].q.op = "delete"
        <4>1. accts'[u] = [st |-> "deleted", name |-> accts[u].name, secret |-> accts[u].secret]
          BY <1>1, <2>3, <3>1, WrittenAccount
        <4> QED
          BY <1>7, <2>3, <4>1 DEF Account
      <3>2. CASE slot[r].q.op # "delete"
        <4>1. accts'[u] = [st |-> accts[u].st, name |-> accts[u].name, secret |-> slot[r].q.pw]
          BY <1>1, <2>3, <3>2, WrittenAccount
        <4>2. /\ accts[u].st = "live" /\ accts[u].name \in Names /\ slot[r].q.pw \in Secrets
          BY <1>7, <2>3, <3>2
        <4> QED
          BY <4>1, <4>2 DEF Account
      <3> QED
        BY <3>1, <3>2
    <2> QED
      BY <2>1, <2>2, <2>3
  <1>9. accts' \in [Uids -> Account]
    <2>1. accts' = [accts EXCEPT ![u] = accts'[u]]
      BY <1>1, <1>2 DEF Written
    <2> QED
      BY <1>2, <1>8, <2>1
  <1> QED
    BY <1>4, <1>5, <1>6, <1>9 DEF TypeOK

(***************************************************************************)
(* The others are where they were: one that shares the user with a commit  *)
(* that holds the row has not passed its own statement on t_user yet, and  *)
(* a commit that holds no row works for a user that is gone.               *)
(***************************************************************************)
LEMMA CommitOthers ==
    ASSUME IInv, NEW r \in Reqs, slot[r].pc = "commit", Written(r),
           NEW o \in Reqs \ {r}
    PROVE  Stage(o, slot[o], users'[slot[o].u], bindings'[slot[o].u])
  <1>1. PICK u \in Uids : u = slot[r].u
    BY AtCommit
  <1>2. Stage(o, slot[o], users[slot[o].u], bindings[slot[o].u])
    BY SlotFacts DEF StageAt
  <1>3. CASE slot[o].pc \in Quiet
    BY <1>2, <1>3 DEF Stage
  <1>4. CASE slot[o].pc \notin Quiet /\ slot[o].u # u
    <2>1. slot[o].u \in Uids => /\ users'[slot[o].u] = users[slot[o].u]
                                /\ bindings'[slot[o].u] = bindings[slot[o].u]
      BY <1>1, <1>4, WrittenElsewhere
    <2>2. CASE slot[o].u \in Uids
      BY <1>2, <2>1, <2>2
    <2>3. CASE slot[o].u \notin Uids
      <3>1. IsNew(slot[o].q) /\ slot[o].pc \notin InTx
        BY <1>2, <1>4, <2>3, SlotFacts DEF Stage, NewStage
      <3> QED
        BY <1>2, <3>1 DEF Stage, NewStage, InTx
    <2> QED
      BY <2>2, <2>3
  <1>5. CASE slot[o].pc \notin Quiet /\ slot[o].u = u
    <2>1. CASE "user" \in slot[r].hits
      <3>1. "user" \notin slot[o].hits
        BY <1>1, <1>5, <2>1 DEF IInv, Exclusive
      <3>2. CASE IsNew(slot[o].q)
        <4>1. slot[o].pc \notin InTx
          BY <1>2, <1>5, <3>1, <3>2 DEF Stage, NewStage
        <4> QED
          BY <1>2, <3>2, <4>1 DEF Stage, NewStage, InTx
      <3>3. CASE ~IsNew(slot[o].q)
        <4>1. EditStage(o, slot[o], users[u], bindings[u])
          BY <1>2, <1>5, <3>3 DEF Stage
        <4>2. users[u] \in {"free", "live"}
          BY <1>1, <2>1, AtCommit DEF NewStage, EditStage, InTx
        <4>3. slot[o].pc \notin InTx
          BY <3>1, <4>1, <4>2 DEF EditStage
        <4>4. slot[o].pc = "user" => users'[u] # "free"
          <5>1. ASSUME slot[o].pc = "user" PROVE users[u] # "free"
            BY <4>1, <5>1 DEF EditStage
          <5> QED
            BY <1>1, <5>1, WrittenUser
        <4> QED
          BY <1>2, <1>5, <3>3, <4>1, <4>3, <4>4 DEF Stage, EditStage, InTx
      <3> QED
        BY <3>2, <3>3
    <2>2. CASE "user" \notin slot[r].hits
      <3>1. users[u] = "deleted"
        BY <1>1, <2>2, AtCommit DEF NewStage, EditStage, InTx
      <3>2. users'[u] = "deleted"
        BY <1>1, <2>2, <3>1, WrittenUser
      <3>3. CASE IsNew(slot[o].q)
        <4>1. slot[o].pc \notin InTx
          BY <1>2, <1>5, <3>1, <3>3 DEF Stage, NewStage
        <4> QED
          BY <1>2, <3>3, <4>1 DEF Stage, NewStage, InTx
      <3>4. CASE ~IsNew(slot[o].q)
        BY <1>2, <1>5, <3>1, <3>2, <3>4 DEF Stage, EditStage, InTx
      <3> QED
        BY <3>3, <3>4
    <2> QED
      BY <2>1, <2>2
  <1> QED
    BY <1>3, <1>4, <1>5

LEMMA CommitStep ==
    ASSUME IInv, NEW r \in Reqs, slot[r].pc = "commit", Written(r),
           NEW pc \in Quiet, NEW rest \in SUBSET Uids,
           slot' = [slot EXCEPT ![r] = At(pc, None, None, rest)]
    PROVE  IInv'
  <1>1. PICK new : new = At(pc, None, None, rest)
    OBVIOUS
  <1>2. new \in Slot
    BY <1>1 DEF At, Slot, Quiet
  <1>3. /\ new.pc \in Quiet /\ new.q = None /\ new.hits = {}
        /\ new.cleared = {} /\ new.added = {}
    BY <1>1 DEF At
  <1>4. slot' = [slot EXCEPT ![r] = new]
    BY <1>1
  <1>5. slot'[r] = new /\ \A o \in Reqs \ {r} : slot'[o] = slot[o]
    BY <1>4 DEF IInv, TypeOK
  <1>6. TypeOK'
    BY <1>2, <1>4, CommitType
  <1>7. Paired'
    BY CommitPaired
  <1>8. Staged'
    <2>1. ASSUME NEW o \in Reqs \ {r}
          PROVE  StageAt(o, slot[o])'
      BY <1>5, CommitOthers DEF StageAt
    <2>2. StageAt(r, slot[r])'
      BY <1>3, <1>5 DEF StageAt, Stage, Quiet
    <2> QED
      BY <2>1, <2>2 DEF Staged
  <1>9. Exclusive'
    BY <1>3, <1>5 DEF IInv, Exclusive
  <1> QED
    BY <1>6, <1>7, <1>8, <1>9 DEF IInv

LEMMA CommitInv ==
    ASSUME IInv, NEW r \in Reqs, Commit(r) \/ CommitLost(r)
    PROVE  IInv'
  <1>1. slot[r].pc = "commit" /\ Written(r)
    BY DEF Commit, CommitLost
  <1>2. CASE Commit(r)
    <2>1. PICK pc \in Quiet, rest \in SUBSET Uids : AfterOne(slot[r]) = At(pc, None, None, rest)
      BY AfterOneIs
    <2> QED
      BY <1>1, <1>2, <2>1, CommitStep DEF Commit
  <1>3. CASE CommitLost(r)
    <2>1. "idle" \in Quiet /\ {} \in SUBSET Uids
      BY DEF Quiet
    <2> QED
      BY <1>1, <1>3, <2>1, CommitStep DEF CommitLost, Idle
  <1> QED
    BY <1>2, <1>3

-------------------------------------------------------------------------------
LEMMA InitInv ==
    ASSUME Init
    PROVE  IInv
  <1>1. Idle \in Slot /\ NoAccount \in Account
    BY DEF Idle, At, Slot, Account
  <1>2. TypeOK
    BY <1>1, AccountAssumption DEF Init, TypeOK, RowState, Account, Binding
  <1>3. Paired
    BY DEF Init, Paired, NoAccount
  <1>4. \A r \in Reqs : slot[r] = Idle
    BY DEF Init
  <1>5. /\ Idle.pc = "idle" /\ Idle.q = None /\ Idle.hits = {}
        /\ Idle.cleared = {} /\ Idle.added = {}
    BY DEF Idle, At
  <1>6. Staged
    BY <1>4, <1>5 DEF Staged, StageAt, Stage, Quiet
  <1>7. Exclusive
    BY <1>4, <1>5 DEF Exclusive
  <1> QED
    BY <1>2, <1>3, <1>6, <1>7 DEF IInv

LEMMA NextInv ==
    ASSUME IInv, [Next]_vars
    PROVE  IInv'
  <1>1. CASE UNCHANGED vars
    BY <1>1 DEF vars, IInv, TypeOK, Paired, Staged, StageAt, Exclusive
  <1>2. ASSUME NEW r \in Reqs, Arrive(r) \/ Serve(r) \/ CommitLost(r) \/ Fail(r)
        PROVE  IInv'
    BY <1>2, ArriveInv, NextIdInv, CountInv, LoadInv, InsertUserInv, WriteUserInv,
       InsertAccountInv, WriteAccountInv, WriteRolesInv, CommitInv, FailInv DEF Serve
  <1> QED
    BY <1>1, <1>2 DEF Next

(***************************************************************************)
(* IInv is an invariant of user administration.                            *)
(***************************************************************************)
THEOREM AccountsConsistent == Spec => []IInv
  <1>1. Init => IInv
    BY InitInv
  <1>2. IInv /\ [Next]_vars => IInv'
    BY NextInv
  <1> QED
    BY <1>1, <1>2, PTL DEF Spec

(***************************************************************************)
(* Tables and requests always hold values of their types.                  *)
(***************************************************************************)
THEOREM AccountTypeCorrect == Spec => []TypeOK
  <1>1. IInv => TypeOK
    BY DEF IInv
  <1> QED
    BY <1>1, AccountsConsistent, PTL

(***************************************************************************)
(* No failed statement, lost commit or race leaves a live user without a   *)
(* live account or a live account without its user (CreateUser,            *)
(* UpdateUser, DeleteUser).                                                *)
(***************************************************************************)
THEOREM PairedHolds == Spec => []Paired
  <1>1. IInv => Paired
    BY DEF IInv
  <1> QED
    BY <1>1, AccountsConsistent, PTL

-------------------------------------------------------------------------------
(***************************************************************************)
(* Whoever is furthest along the order of the statements waits for nobody. *)
(***************************************************************************)
LEMMA SomeoneRuns ==
    ASSUME IInv, NEW R \in SUBSET Reqs, R # {}
    PROVE  \E r \in R : \A o \in R : ~Waits(r, o)
  <1>1. \A r \in R : StageAt(r, slot[r])
    BY DEF IInv, Staged
  <1>2. CASE \E r \in R : slot[r].pc \notin {"user", "acct", "roles"}
    BY <1>2 DEF Waits
  <1>3. CASE /\ \A r \in R : slot[r].pc \in {"user", "acct", "roles"}
             /\ \E r \in R : slot[r].pc = "roles"
    <2>1. PICK r \in R : slot[r].pc = "roles"
      BY <1>3
    <2>2. ASSUME NEW o \in R PROVE slot[o].cleared = {}
      BY <1>1, <1>3, <2>2 DEF StageAt, Stage
    <2> QED
      BY <2>1, <2>2 DEF Waits
  <1>4. CASE /\ \A r \in R : slot[r].pc \in {"user", "acct"}
             /\ \E r \in R : slot[r].pc = "acct"
    <2>1. PICK r \in R : slot[r].pc = "acct"
      BY <1>4
    <2>2. ASSUME NEW o \in R, ~IsNew(slot[r].q), slot[o].u = slot[r].u
          PROVE  "acct" \notin slot[o].hits
      <3>1. users[slot[r].u] # "free"
        BY <1>1, <2>1, <2>2 DEF StageAt, Stage, EditStage, InTx, Quiet
      <3>2. slot[o].pc = "user" \/ slot[o].pc = "acct"
        BY <1>4, <2>2
      <3>3. CASE IsNew(slot[o].q)
        BY <1>1, <2>2, <3>1, <3>2, <3>3 DEF StageAt, Stage, NewStage, InTx, Quiet
      <3>4. CASE ~IsNew(slot[o].q)
        BY <1>1, <2>2, <3>2, <3>4 DEF StageAt, Stage, EditStage, InTx, Quiet
      <3> QED
        BY <3>3, <3>4
    <2> QED
      BY <2>1, <2>2 DEF Waits
  <1>5. CASE \A r \in R : slot[r].pc = "user"
    <2>1. ASSUME NEW o \in R PROVE slot[o].hits = {}
      BY <1>1, <1>5, <2>1 DEF StageAt, Stage, NewStage, EditStage, InTx, Quiet
    <2> QED
      BY <1>5, <2>1 DEF Waits
  <1> QED
    BY <1>2, <1>3, <1>4, <1>5

(***************************************************************************)
(* CreateUser, UpdateUser and DeleteUser lock t_user, t_account and        *)
(* t_user_role in one order, so however many requests edit the same users, *)
(* no set of them waits in a circle.                                       *)
(***************************************************************************)
THEOREM NoLockCycleHolds == Spec => []NoLockCycle
  <1>1. IInv => NoLockCycle
    <2> SUFFICES ASSUME IInv, NEW R \in (SUBSET Reqs) \ {{}}
                 PROVE  \E r \in R : \A o \in R : ~Waits(r, o)
      BY DEF NoLockCycle
    <2>1. R \in SUBSET Reqs /\ R # {}
      OBVIOUS
    <2> QED
      BY <2>1, SomeoneRuns
  <1> QED
    BY <1>1, AccountsConsistent, PTL

-------------------------------------------------------------------------------
(***************************************************************************)
(* Accounts implements AccountBook.                                        *)
(***************************************************************************)
Entries == [u \in Uids |-> Entry(u)]

Todo == [r \in Reqs |-> Pending(r)]

LEMMA PendingIs ==
    ASSUME IInv, NEW r \in Reqs
    PROVE  /\ slot[r].pc \in Quiet => Todo[r] = None
           /\ slot[r].pc \notin Quiet => Todo[r] = slot[r].q /\ Todo[r] \in Requests /\ Todo[r] # None
  <1>1. Todo[r] = Pending(r)
    BY DEF Todo
  <1>2. slot[r].pc \notin Quiet => slot[r].q \in Requests
    BY SlotFacts
  <1> QED
    BY <1>1, <1>2, RequestAssumption DEF Pending, Quiet

\* A step of one request changes no other entry of todo.
LEMMA TodoStep ==
    ASSUME IInv, NEW r \in Reqs, NEW new, slot' = [slot EXCEPT ![r] = new]
    PROVE  Todo' = [Todo EXCEPT ![r] = IF new.pc \in {"idle", "next"} THEN None ELSE new.q]
  <1>1. slot'[r] = new /\ \A o \in Reqs \ {r} : slot'[o] = slot[o]
    BY DEF IInv, TypeOK
  <1>2. Pending(r)' = IF new.pc \in {"idle", "next"} THEN None ELSE new.q
    BY <1>1 DEF Pending
  <1>3. \A o \in Reqs \ {r} : Pending(o)' = Pending(o)
    BY <1>1 DEF Pending
  <1>4. Todo' = [o \in Reqs |-> Pending(o)']
    BY DEF Todo
  <1> HIDE DEF Pending
  <1> QED
    BY <1>2, <1>3, <1>4 DEF Todo

LEMMA EntriesStay ==
    ASSUME Stay
    PROVE  Entries' = Entries
  BY DEF Stay, Entries, Entry

\* A request that ends without writing.
LEMMA QuietBook ==
    ASSUME IInv, NEW r \in Reqs, Entries' = Entries,
           NEW pc \in Quiet, NEW rest,
           slot' = [slot EXCEPT ![r] = At(pc, None, None, rest)]
    PROVE  Book!Drop(r) \/ UNCHANGED <<Entries, Todo>>
  <1>1. At(pc, None, None, rest).pc = pc
    BY DEF At
  <1>2. Todo' = [Todo EXCEPT ![r] = None]
    BY <1>1, TodoStep DEF Quiet
  <1>3. CASE slot[r].pc \in Quiet
    <2>1. Todo[r] = None
      BY <1>3, PendingIs
    <2>2. Todo' = Todo
      BY <1>2, <2>1 DEF Todo
    <2> QED
      BY <2>2
  <1>4. CASE slot[r].pc \notin Quiet
    <2>1. Todo[r] # None
      BY <1>4, PendingIs
    <2> QED
      BY <1>2, <2>1 DEF Book!Drop, Todo, Entries
  <1> QED
    BY <1>3, <1>4

LEMMA IdleBook ==
    ASSUME IInv, NEW r \in Reqs, Entries' = Entries, slot' = [slot EXCEPT ![r] = Idle]
    PROVE  Book!Drop(r) \/ UNCHANGED <<Entries, Todo>>
  <1>1. "idle" \in Quiet
    BY DEF Quiet
  <1> QED
    BY <1>1, QuietBook DEF Idle

\* A request that arrives.
LEMMA AskBook ==
    ASSUME IInv, NEW r \in Reqs, Stay, slot[r].pc \in Quiet,
           NEW q \in Requests, NEW pc \in {"count", "load", "user"}, NEW u, NEW rest,
           slot' = [slot EXCEPT ![r] = At(pc, q, u, rest)]
    PROVE  Book!Ask(r)
  <1>1. At(pc, q, u, rest).pc = pc /\ At(pc, q, u, rest).q = q
    BY DEF At
  <1>2. Todo' = [Todo EXCEPT ![r] = q]
    BY <1>1, TodoStep
  <1>3. Todo[r] = None /\ Entries' = Entries
    BY PendingIs, EntriesStay
  <1> QED
    BY <1>2, <1>3 DEF Book!Ask, Todo, Entries

\* A statement in the middle of a request shows nowhere.
LEMMA GoBook ==
    ASSUME IInv, NEW r \in Reqs, Stay, slot[r].pc \notin Quiet,
           NEW u, NEW hits, NEW cleared, NEW added, Go(r, u, hits, cleared, added)
    PROVE  UNCHANGED <<Entries, Todo>>
  <1>1. PICK new : new = [pc |-> Then(slot[r].q, slot[r].pc), q |-> slot[r].q, u |-> u,
                          hits |-> hits, cleared |-> cleared, added |-> added,
                          rest |-> slot[r].rest]
    OBVIOUS
  <1>2. new.pc \in {"user", "acct", "roles", "commit"} /\ new.q = slot[r].q
    BY <1>1 DEF Then
  <1>3. slot' = [slot EXCEPT ![r] = new]
    BY <1>1 DEF Go
  <1>4. Todo' = [Todo EXCEPT ![r] = IF new.pc \in {"idle", "next"} THEN None ELSE new.q]
    BY <1>3, TodoStep
  <1>5. Todo[r] = slot[r].q
    BY PendingIs
  <1>6. Todo' = Todo
    BY <1>2, <1>4, <1>5 DEF Todo
  <1> QED
    BY <1>6, EntriesStay

\* A commit changes one entry at most.
LEMMA CommitElsewhere ==
    ASSUME IInv, NEW r \in Reqs, Written(r), NEW u \in Uids, u = slot[r].u
    PROVE  Entries' = [Entries EXCEPT ![u] = Entry(u)']
  <1>1. ASSUME NEW v \in Uids \ {u} PROVE Entry(v)' = Entry(v)
    <2>1. users'[v] = users[v] /\ accts'[v] = accts[v] /\ bindings'[v] = bindings[v]
      BY WrittenElsewhere
    <2> QED
      BY <2>1 DEF Entry
  <1>2. Entries' = [v \in Uids |-> Entry(v)']
    BY DEF Entries
  <1> QED
    BY <1>1, <1>2 DEF Entries

\* The role ids of rows inserted for R.
LEMMA RoleIds ==
    ASSUME NEW R, NEW r
    PROVE  {b[1] : b \in R \X {r}} = R
  <1>1. ASSUME NEW x \in R PROVE x \in {b[1] : b \in R \X {r}}
    <2>1. <<x, r>> \in R \X {r} /\ <<x, r>>[1] = x
      OBVIOUS
    <2> QED
      BY <2>1
  <1>2. ASSUME NEW b \in R \X {r} PROVE b[1] \in R
    OBVIOUS
  <1> QED
    BY <1>1, <1>2

\* A creation adds the whole entry.
LEMMA CommitOpen ==
    ASSUME IInv, NEW r \in Reqs, slot[r].pc = "commit", Written(r),
           NEW u \in Uids, u = slot[r].u, IsNew(slot[r].q)
    PROVE  /\ Entry(u).st = "free"
           /\ Entry(u)' = [st |-> "live", name |-> slot[r].q.name,
                           secret |-> slot[r].q.pw, roles |-> slot[r].q.rids]
  <1>1. /\ users[u] = "free" /\ "user" \in slot[r].hits /\ "acct" \in slot[r].hits
        /\ slot[r].cleared = bindings[u] /\ slot[r].added = slot[r].q.rids \X {r}
    BY AtCommit DEF NewStage, InTx
  <1>2. users'[u] = "live"
    BY <1>1, WrittenUser
  <1>3. accts'[u] = [st |-> "live", name |-> slot[r].q.name, secret |-> slot[r].q.pw]
    BY <1>1, WrittenAccount
  <1>4. accts'[u].name = slot[r].q.name /\ accts'[u].secret = slot[r].q.pw
    BY <1>3
  <1>5. bindings'[u] = slot[r].q.rids \X {r}
    BY <1>1, WrittenRoles
  <1>6. {b[1] : b \in bindings'[u]} = slot[r].q.rids
    BY <1>5, RoleIds
  <1>7. Entry(u).st = "free"
    BY <1>1 DEF Entry
  <1> QED
    BY <1>2, <1>4, <1>6, <1>7 DEF Entry

\* An update changes the secret if it has one, and the roles if it sets them.
LEMMA CommitChange ==
    ASSUME IInv, NEW r \in Reqs, slot[r].pc = "commit", Written(r),
           NEW u \in Uids, u = slot[r].u,
           slot[r].q.op = "update", "user" \in slot[r].hits
    PROVE  /\ Entry(u).st = "live" /\ slot[r].q.u = u
           /\ Entry(u)' = [st     |-> "live",
                           name   |-> Entry(u).name,
                           secret |-> IF slot[r].q.pw = None THEN Entry(u).secret
                                      ELSE slot[r].q.pw,
                           roles  |-> IF slot[r].q.set THEN slot[r].q.rids
                                      ELSE Entry(u).roles]
  <1>1. ~IsNew(slot[r].q)
    BY DEF IsNew
  <1>2. EditStage(r, slot[r], users[u], bindings[u])
    BY <1>1, AtCommit
  <1>3. /\ users[u] = "live" /\ slot[r].q.u = u
        /\ "acct" \in slot[r].hits <=> slot[r].q.pw # None
        /\ IF slot[r].q.set THEN slot[r].cleared = bindings[u] /\ slot[r].added = slot[r].q.rids \X {r}
           ELSE slot[r].cleared = {} /\ slot[r].added = {}
    BY <1>2 DEF EditStage, InTx, WritesAccount
  <1>4. users'[u] = "live"
    BY <1>1, <1>3, WrittenUser
  <1>5. /\ accts'[u].name = accts[u].name
        /\ accts'[u].secret = IF slot[r].q.pw = None THEN accts[u].secret ELSE slot[r].q.pw
    <2>1. CASE slot[r].q.pw = None
      BY <1>3, <2>1, WrittenAccount
    <2>2. CASE slot[r].q.pw # None
      <3>1. accts'[u] = [st |-> accts[u].st, name |-> accts[u].name, secret |-> slot[r].q.pw]
        BY <1>1, <1>3, <2>2, WrittenAccount
      <3> QED
        BY <2>2, <3>1
    <2> QED
      BY <2>1, <2>2
  <1>6. {b[1] : b \in bindings'[u]} =
            IF slot[r].q.set THEN slot[r].q.rids ELSE {b[1] : b \in bindings[u]}
    <2>1. CASE slot[r].q.set
      <3>1. bindings'[u] = slot[r].q.rids \X {r}
        BY <1>3, <2>1, WrittenRoles
      <3>2. {b[1] : b \in slot[r].q.rids \X {r}} = slot[r].q.rids
        BY RoleIds
      <3>3. {b[1] : b \in bindings'[u]} = slot[r].q.rids
        BY <3>1, <3>2
      <3> QED
        BY <2>1, <3>3
    <2>2. CASE ~slot[r].q.set
      <3>1. bindings'[u] = bindings[u]
        BY <1>3, <2>2, WrittenRoles
      <3> QED
        BY <2>2, <3>1
    <2> QED
      BY <2>1, <2>2
  <1>7. /\ Entry(u).st = "live" /\ Entry(u).name = accts[u].name
        /\ Entry(u).secret = accts[u].secret /\ Entry(u).roles = {b[1] : b \in bindings[u]}
    BY <1>3 DEF Entry
  <1>8. Entry(u)' = [st |-> "live", name |-> accts'[u].name, secret |-> accts'[u].secret,
                     roles |-> {b[1] : b \in bindings'[u]}]
    BY <1>4 DEF Entry
  <1> QED
    BY <1>3, <1>5, <1>6, <1>7, <1>8

\* A deletion closes the entry.
LEMMA CommitClose ==
    ASSUME IInv, NEW r \in Reqs, slot[r].pc = "commit", Written(r),
           NEW u \in Uids, u = slot[r].u,
           slot[r].q.op = "delete", "user" \in slot[r].hits
    PROVE  /\ Entry(u).st = "live" /\ slot[r].q.u = u
           /\ Entry(u)' = [st |-> "deleted", name |-> None, secret |-> None, roles |-> {}]
  <1>1. ~IsNew(slot[r].q)
    BY DEF IsNew
  <1>2. users[u] = "live" /\ slot[r].q.u = u
    BY <1>1, AtCommit DEF EditStage, InTx
  <1>3. users'[u] = "deleted"
    BY <1>1, WrittenUser
  <1> QED
    BY <1>2, <1>3 DEF Entry

\* A transaction that matched no user leaves nothing to see.
LEMMA CommitNothing ==
    ASSUME IInv, NEW r \in Reqs, slot[r].pc = "commit", Written(r),
           NEW u \in Uids, u = slot[r].u, "user" \notin slot[r].hits
    PROVE  Entry(u)' = Entry(u)
  <1>1. users[u] = "deleted"
    BY AtCommit DEF NewStage, EditStage, InTx
  <1>2. users'[u] = "deleted"
    BY <1>1, WrittenUser
  <1> QED
    BY <1>1, <1>2 DEF Entry

LEMMA CommitBook ==
    ASSUME IInv, NEW r \in Reqs, slot[r].pc = "commit", Written(r),
           NEW pc \in Quiet, NEW rest,
           slot' = [slot EXCEPT ![r] = At(pc, None, None, rest)]
    PROVE  Book!Apply(r) \/ Book!Drop(r) \/ UNCHANGED <<Entries, Todo>>
  <1>1. PICK u \in Uids : u = slot[r].u
    BY AtCommit
  <1>2. Entries' = [Entries EXCEPT ![u] = Entry(u)']
    BY <1>1, CommitElsewhere
  <1>3. Entries[u] = Entry(u)
    BY DEF Entries
  <1>4. slot[r].pc \notin Quiet
    BY DEF Quiet
  <1>5. Todo[r] = slot[r].q /\ Todo[r] # None
    BY <1>4, PendingIs
  <1>6. At(pc, None, None, rest).pc = pc
    BY DEF At
  <1>7. Todo' = [Todo EXCEPT ![r] = None]
    BY <1>6, TodoStep DEF Quiet
  <1>8. CASE "user" \notin slot[r].hits
    <2>1. Entry(u)' = Entry(u)
      BY <1>1, <1>8, CommitNothing
    <2>2. Entries' = Entries
      BY <1>2, <1>3, <2>1 DEF Entries
    <2> QED
      BY <2>2, QuietBook
  <1>9. CASE "user" \in slot[r].hits
    <2>1. CASE IsNew(slot[r].q)
      <3>0. /\ Entries[u].st = "free"
            /\ Entries' = [Entries EXCEPT ![u] =
                   [st |-> "live", name |-> Todo[r].name, secret |-> Todo[r].pw,
                    roles |-> Todo[r].rids]]
        BY <1>1, <1>2, <1>3, <1>5, <2>1, CommitOpen
      <3>1. Book!Open(u, Todo[r])
        BY <1>5, <2>1, <3>0 DEF Book!Open, IsNew, Entries
      <3> QED
        BY <1>5, <1>7, <3>1 DEF Book!Apply, Todo
    <2>2. CASE slot[r].q.op = "update"
      <3>0. /\ Entries[u].st = "live" /\ Todo[r].u = u
            /\ Entries' = [Entries EXCEPT ![u] =
                   [st     |-> "live",
                    name   |-> Entries[u].name,
                    secret |-> IF Todo[r].pw = None THEN Entries[u].secret ELSE Todo[r].pw,
                    roles  |-> IF Todo[r].set THEN Todo[r].rids ELSE Entries[u].roles]]
        <4>1. /\ Entry(u).st = "live" /\ slot[r].q.u = u
              /\ Entry(u)' = [st     |-> "live",
                              name   |-> Entry(u).name,
                              secret |-> IF slot[r].q.pw = None THEN Entry(u).secret
                                         ELSE slot[r].q.pw,
                              roles  |-> IF slot[r].q.set THEN slot[r].q.rids
                                         ELSE Entry(u).roles]
          BY <1>1, <1>9, <2>2, CommitChange
        <4> HIDE DEF Entry
        <4> QED
          BY <1>2, <1>3, <1>5, <4>1
      <3>1. Book!Change(u, Todo[r])
        BY <1>5, <2>2, <3>0 DEF Book!Change, Entries
      <3> QED
        BY <1>5, <1>7, <3>1 DEF Book!Apply, Todo
    <2>3. CASE slot[r].q.op = "delete"
      <3>1. Book!Close(u, Todo[r])
        BY <1>1, <1>2, <1>3, <1>5, <1>9, <2>3, CommitClose DEF Book!Close, Book!Closed, Entries
      <3> QED
        BY <1>5, <1>7, <3>1 DEF Book!Apply, Todo
    <2>4. slot[r].q \in Requests
      BY <1>4, SlotFacts
    <2> QED
      BY <2>1, <2>2, <2>3, <2>4, RequestFields DEF IsNew
  <1> QED
    BY <1>8, <1>9

LEMMA NextBook ==
    ASSUME IInv, [Next]_vars
    PROVE  Book!BookNext \/ UNCHANGED <<Entries, Todo>>
  <1>1. CASE UNCHANGED vars
    BY <1>1 DEF vars, Entries, Entry, Todo, Pending
  <1>2. ASSUME NEW r \in Reqs, Arrive(r)
        PROVE  Book!Ask(r) \/ Book!Drop(r) \/ UNCHANGED <<Entries, Todo>>
    <2>1. slot[r].pc \in Quiet /\ Stay /\ Entries' = Entries
      BY <1>2, EntriesStay
         DEF Arrive, handleSKRegister, handleSKUserCreate, handleSKUserUpdate,
             handleSKUserDelete, Quiet
    <2>2. CASE handleSKRegister(r)
      <3>1. PICK n \in Names, s \in Secrets :
                slot' = [slot EXCEPT ![r] = At("count", NewUser("register", n, s, {}), None, {})]
        BY <2>2 DEF handleSKRegister
      <3>2. NewUser("register", n, s, {}) \in Requests
        BY NewRequest
      <3> QED
        BY <2>1, <3>1, <3>2, AskBook
    <2>3. CASE handleSKUserCreate(r)
      <3>1. PICK n \in Names, s \in Secrets, R \in SUBSET Roles :
                slot' = [slot EXCEPT ![r] = At("user", NewUser("create", n, s, R), None, {})]
        BY <2>3 DEF handleSKUserCreate
      <3>2. NewUser("create", n, s, R) \in Requests
        BY NewRequest
      <3> QED
        BY <2>1, <3>1, <3>2, AskBook
    <2>4. CASE handleSKUserUpdate(r)
      <3>1. PICK u \in Uids, s \in Secrets \cup {None}, b \in BOOLEAN, R \in SUBSET Roles :
                slot' = [slot EXCEPT ![r] = At("load", EditUser(u, s, b, R), u, {})]
        BY <2>4 DEF handleSKUserUpdate
      <3>2. EditUser(u, s, b, R) \in Requests
        BY DEF Requests
      <3> QED
        BY <2>1, <3>1, <3>2, AskBook
    <2>5. CASE handleSKUserDelete(r)
      <3>1. PICK U \in SUBSET Uids : slot' = [slot EXCEPT ![r] = At("next", None, None, U)]
        BY <2>5 DEF handleSKUserDelete
      <3>2. "next" \in Quiet
        BY DEF Quiet
      <3> QED
        BY <2>1, <3>1, <3>2, QuietBook
    <2> QED
      BY <1>2, <2>2, <2>3, <2>4, <2>5 DEF Arrive
  <1>3. ASSUME NEW r \in Reqs, NextId(r)
        PROVE  Book!Ask(r) \/ Book!Drop(r) \/ UNCHANGED <<Entries, Todo>>
    <2>1. slot[r].pc \in Quiet /\ Stay /\ Entries' = Entries
      BY <1>3, EntriesStay DEF NextId, Quiet
    <2>2. CASE slot' = [slot EXCEPT ![r] = Idle]
      BY <2>1, <2>2, IdleBook
    <2>3. CASE \E u \in slot[r].rest :
                   slot' = [slot EXCEPT ![r] = At("load", RemoveUser(u), u, slot[r].rest \ {u})]
      <3>1. PICK u \in slot[r].rest :
                slot' = [slot EXCEPT ![r] = At("load", RemoveUser(u), u, slot[r].rest \ {u})]
        BY <2>3
      <3>2. u \in Uids
        BY DEF IInv, TypeOK, Slot
      <3>3. RemoveUser(u) \in Requests
        BY <3>2 DEF Requests
      <3> QED
        BY <2>1, <3>1, <3>3, AskBook
    <2> QED
      BY <1>3, <2>2, <2>3 DEF NextId
  <1>4. ASSUME NEW r \in Reqs, CountAccounts(r) \/ GetUserByID(r)
        PROVE  Book!Drop(r) \/ UNCHANGED <<Entries, Todo>>
    <2>1. slot[r].pc \notin Quiet /\ Stay /\ Entries' = Entries
      BY <1>4, EntriesStay DEF CountAccounts, GetUserByID, Quiet
    <2>2. CASE slot' = [slot EXCEPT ![r] = Idle]
      BY <2>1, <2>2, IdleBook
    <2>3. CASE slot' = [slot EXCEPT ![r] = AfterOne(slot[r])]
      <3>1. PICK pc \in Quiet, rest \in SUBSET Uids :
                AfterOne(slot[r]) = At(pc, None, None, rest)
        BY AfterOneIs
      <3> QED
        BY <2>1, <2>3, <3>1, QuietBook
    <2>4. CASE \E u, h, c, a : Go(r, u, h, c, a)
      BY <2>1, <2>4, GoBook
    <2>5. \/ slot' = [slot EXCEPT ![r] = Idle]
          \/ slot' = [slot EXCEPT ![r] = AfterOne(slot[r])]
          \/ \E u, h, c, a : Go(r, u, h, c, a)
      BY <1>4 DEF CountAccounts, GetUserByID
    <2> QED
      BY <2>2, <2>3, <2>4, <2>5
  <1>5. ASSUME NEW r \in Reqs,
               \/ InsertUser(r) \/ WriteUser(r) \/ InsertAccount(r)
               \/ WriteAccount(r) \/ WriteRoles(r)
        PROVE  UNCHANGED <<Entries, Todo>>
    <2>1. slot[r].pc \notin Quiet /\ Stay
      BY <1>5 DEF InsertUser, WriteUser, InsertAccount, WriteAccount, WriteRoles, Quiet
    <2>2. \E u, h, c, a : Go(r, u, h, c, a)
      BY <1>5 DEF InsertUser, WriteUser, InsertAccount, WriteAccount, WriteRoles
    <2> QED
      BY <2>1, <2>2, GoBook
  <1>6. ASSUME NEW r \in Reqs, Commit(r) \/ CommitLost(r)
        PROVE  Book!Apply(r) \/ Book!Drop(r) \/ UNCHANGED <<Entries, Todo>>
    <2>1. slot[r].pc = "commit" /\ Written(r) /\ "idle" \in Quiet
      BY <1>6 DEF Commit, CommitLost, Quiet
    <2>2. PICK pc \in Quiet, rest \in SUBSET Uids : AfterOne(slot[r]) = At(pc, None, None, rest)
      BY AfterOneIs
    <2>3. CASE Commit(r)
      BY <2>1, <2>2, <2>3, CommitBook DEF Commit
    <2>4. CASE CommitLost(r)
      BY <2>1, <2>4, CommitBook DEF CommitLost, Idle
    <2> QED
      BY <1>6, <2>3, <2>4
  <1>7. ASSUME NEW r \in Reqs, Fail(r)
        PROVE  Book!Drop(r) \/ UNCHANGED <<Entries, Todo>>
    BY <1>7, EntriesStay, IdleBook DEF Fail
  <1> QED
    BY <1>1, <1>2, <1>3, <1>4, <1>5, <1>6, <1>7 DEF Next, Serve, Book!BookNext

LEMMA InitBook ==
    ASSUME Init
    PROVE  Book!BookInit
  <1>1. \A v \in Uids \ {SeedUid} : Entries[v] = Book!Closed("free")
    BY DEF Init, Entries, Entry, Book!Closed
  <1>2. Todo = [r \in Reqs |-> None]
    BY DEF Init, Todo, Pending, Idle, At
  <1> QED
    BY <1>1, <1>2, AccountAssumption DEF Book!BookInit, Entries, Todo

(***************************************************************************)
(* User administration implements AccountBook: although UpdateUser and     *)
(* DeleteUser load the user before their transactions and all write three  *)
(* tables statement by statement, each request changes one entry in one    *)
(* step, or none.                                                          *)
(***************************************************************************)
THEOREM EditsAreAtomicHolds == Spec => EditsAreAtomic
  <1>1. Init => Book!BookInit
    BY InitBook
  <1>2. IInv /\ [Next]_vars => [Book!BookNext]_<<Entries, Todo>>
    BY NextBook
  <1>3. IInv /\ [Next]_vars
        => [Book!BookNext]_<<[u \in Uids |-> Entry(u)], [r \in Reqs |-> Pending(r)]>>
    BY <1>2 DEF Entries, Todo
  <1> QED
    BY <1>1, <1>3, AccountsConsistent, PTL DEF Spec, EditsAreAtomic, Book!BookSpec
=============================================================================

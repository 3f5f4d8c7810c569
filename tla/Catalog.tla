------------------------------ MODULE Catalog -------------------------------
(***************************************************************************)
(* The administrators' tables: question banks (t_repo) and their templates *)
(* (t_template), departments, positions, roles, dictionaries and their     *)
(* items, books, bank partners and the system settings.  Every request is  *)
(* a list of tasks, one for each id or row it was given, and a task is a   *)
(* list of SQL statements: each statement commits by itself, except in     *)
(* DeleteDictWithItems, the only transaction here.                         *)
(*                                                                         *)
(* Of a row's columns two are kept: ref (repo_id, dict_code, code,         *)
(* parent_id) and val (any other).  Tables that no statement relates are   *)
(* not mixed: a behaviour is about the tables of one scope.                *)
(***************************************************************************)
EXTENDS Naturals, Sequences, FiniteSets, Functions

CONSTANTS
    Requests,   \* requests served at a time
    Ids,        \* row ids; bounds what can be created
    Refs, Vals, \* what the columns ref and val can hold
    MaxTasks,   \* [Requests -> Nat]: bound on the ids or rows in one request
    Empty,      \* the empty string, as a ref
    None        \* NULL, and "not sent" in an input

ASSUME CatalogAssumption ==
    /\ Empty \in Refs
    /\ None \notin Ids \cup Refs \cup Vals
    /\ MaxTasks \in [Requests -> Nat \ {0}]

VARIABLES
    scope,  \* the tables this behaviour is about; never changes
    rows,   \* [Ids -> Row]
    slot,   \* [Requests -> Slot]
    reply   \* the request answered in the last step, if one was

vars == <<scope, rows, slot, reply>>

Scopes == {{"template"}, {"repo"}, {"dept"}, {"position"}, {"role"}, {"dict", "item"},
           {"book"}, {"partner"}, {"sysinfo"}}

Tables == UNION Scopes

\* "deleted" is is_deleted = 1; "gone" a row of the tables without that column.
Row == [st  : {"free", "live", "deleted", "gone"},
        tab : Tables \cup {None},
        ref : Refs \cup {None},
        val : Vals \cup {None}]

NoRow == [st |-> "free", tab |-> None, ref |-> None, val |-> None]

Stored(tab, ref, val) == [st |-> "live", tab |-> tab, ref |-> ref, val |-> val]

\* One id, or one row to be created, with the statements still to run for it.
Statements == {"load", "write", "drop", "insert", "refuse", "copy",
               "dict", "items", "sweep", "delete", "commit"}

Task == [prog : Seq(Statements),
         tab  : Tables,
         id   : Ids \cup {None},   \* the row it is about
         new  : Ids \cup {None},   \* the id idgen.New() has given to a row to come
         ref  : Refs \cup {None},
         val  : Vals \cup {None}]

\* What the handler does with an id that is not there (miss) and with a failed
\* statement (fail): it ends the request with an error, goes on with the next task,
\* or goes on as if nothing had happened.
Policy == {"stop", "skip", "count"}

Slot == [miss  : Policy,
         fail  : Policy,
         todo  : Seq(Task),             \* none left: idle
         done  : Seq(Ids),              \* what the reply lists or counts as done
         error : BOOLEAN,
         want  : SUBSET Ids,            \* DELETE in the transaction: the rows of its snapshot
         held  : SUBSET Ids,            \* rows the transaction has deleted and locked
         total : Nat,                   \* history: tasks at the start
         made  : SUBSET Ids]            \* history: rows this request has inserted

Asked(miss, fail, todo) ==
    [miss |-> miss, fail |-> fail, todo |-> todo, done |-> <<>>, error |-> FALSE,
     want |-> {}, held |-> {}, total |-> Len(todo), made |-> {}]

Idle == Asked("stop", "stop", <<>>)

TypeOK ==
    /\ scope \in Scopes
    /\ rows \in [Ids -> Row]
    /\ \A r \in Requests :
           /\ slot[r] \in Slot
           /\ Len(slot[r].todo) <= MaxTasks[r]
           /\ \A n \in DOMAIN slot[r].todo : slot[r].todo[n].prog # <<>>
    /\ reply \in Slot /\ reply.todo = <<>>

\* Rows that earlier requests created.  A new row has no val: edits bring it.
Init ==
    /\ scope \in Scopes
    /\ rows \in [Ids -> {NoRow} \cup {Stored(t, v, None) : t \in scope, v \in Refs}]
    /\ slot = [r \in Requests |-> Idle]
    /\ reply = Idle

-------------------------------------------------------------------------------
(***************************************************************************)
(* How a request moves on.                                                 *)
(***************************************************************************)

Cur(r) == Head(slot[r].todo)

Busy(r) == slot[r].todo # <<>>

At(r, stmt) == Busy(r) /\ Head(Cur(r).prog) = stmt

\* The task is over; counted says whether the reply will list it.
Close(s, counted) ==
    LET t == Head(s.todo) IN
    [s EXCEPT !.todo = Tail(@),
              !.done = IF counted THEN Append(@, IF t.new = None THEN t.id ELSE t.new) ELSE @,
              !.want = {}, !.held = {}]

\* Bug: the id whose statement has failed is listed as deleted.
StopListed(s) ==
    [s EXCEPT !.todo = <<>>, !.error = TRUE, !.want = {}, !.held = {},
              !.done = IF Head(s.todo).new = None THEN Append(@, Head(s.todo).id) ELSE @]

\* skErr, or skList with the results so far; defer tx.Rollback() lets go of the rows.
Stop(s) == [s EXCEPT !.todo = <<>>, !.error = TRUE, !.want = {}, !.held = {}]

\* Bug: every error is logged and passed over.
ObeyOn(s, policy) == Close(s, policy = "count")

Obey(s, policy) == IF policy = "stop" THEN Stop(s) ELSE Close(s, policy = "count")

\* Bug: the last statement of a task is taken for the last but one.
StepPast(s, t) == [s EXCEPT !.todo = <<[t EXCEPT !.prog = Tail(@)]>> \o Tail(@)]

\* A statement has worked: the next one of the task t, or the next task.
Step(s, t) ==
    IF Len(t.prog) = 1 THEN Close(s, TRUE)
    ELSE [s EXCEPT !.todo = <<[t EXCEPT !.prog = Tail(@)]>> \o Tail(@)]

\* A request without further tasks is answered.
Goto(r, s) ==
    /\ slot' = [slot EXCEPT ![r] = IF s.todo = <<>> THEN Idle ELSE s]
    /\ reply' = IF s.todo = <<>> THEN s ELSE Idle
    /\ UNCHANGED scope

\* The statement's effect stands, but its answer may be lost with the connection.
Answer(r, s) == Goto(r, Step(s, Cur(r))) \/ Goto(r, Obey(s, s.fail))

\* The row that WHERE id = $1 (AND is_deleted = 0) finds.
Found(t) == rows[t.id].st = "live" /\ rows[t.id].tab = t.tab

\* Rows that a transaction has deleted keep other writers waiting.
Unlocked(r, I) == \A o \in Requests \ {r} : slot[o].held \cap I = {}

-------------------------------------------------------------------------------
(***************************************************************************)
(* Statements.                                                             *)
(***************************************************************************)

\* GetTemplateByID and its like.
Load(r) ==
    /\ At(r, "load")
    /\ Goto(r, IF Found(Cur(r)) THEN Step(slot[r], Cur(r)) ELSE Obey(slot[r], slot[r].miss))
    /\ UNCHANGED rows

\* TemplateService.Get in handleSKRepoPick: the row is copied as it is now.
Get(r) ==
    /\ At(r, "copy")
    /\ Goto(r, IF Found(Cur(r)) THEN Step(slot[r], [Cur(r) EXCEPT !.val = rows[Cur(r).id].val])
                                ELSE Obey(slot[r], slot[r].miss))
    /\ UNCHANGED rows

Coalesce(new, old) == IF new = None THEN old ELSE new

\* Bug: SET repo_id = $1 instead of COALESCE($1, repo_id).
Overwritten(row, t) == [row EXCEPT !.ref = t.ref, !.val = t.val]

\* SET c = COALESCE($n, c), ...
Updated(row, t) == [row EXCEPT !.ref = Coalesce(t.ref, @), !.val = Coalesce(t.val, @)]

\* No row to update is no error: these statements are :exec.
Write(r) ==
    /\ At(r, "write")
    /\ Unlocked(r, {Cur(r).id})
    /\ rows' = IF Found(Cur(r)) THEN [rows EXCEPT ![Cur(r).id] = Updated(@, Cur(r))] ELSE rows
    /\ Answer(r, slot[r])

\* The tables with a column is_deleted; rows of the others are deleted outright.
SoftTables == {"template", "dept", "position", "role"}

Dropped(row) == [row EXCEPT !.st = IF row.tab \in SoftTables THEN "deleted" ELSE "gone"]

Drop(r) ==
    /\ At(r, "drop")
    /\ Unlocked(r, {Cur(r).id})
    /\ rows' = IF Found(Cur(r)) THEN [rows EXCEPT ![Cur(r).id] = Dropped(@)] ELSE rows
    /\ Answer(r, slot[r])

\* Nothing in these tables is unique but the id.
Insert(r) ==
    /\ At(r, "insert")
    /\ rows' = [rows EXCEPT ![Cur(r).new] = Stored(Cur(r).tab, Cur(r).ref, Cur(r).val)]
    /\ Answer(r, [slot[r] EXCEPT !.made = @ \cup {Cur(r).new}])

\* ImportTemplatesXLSX meets a row without a name.
Refuse(r) ==
    /\ At(r, "refuse")
    /\ Goto(r, Stop(slot[r]))
    /\ UNCHANGED rows

\* A statement fails without effect.
Fail(r) ==
    /\ Busy(r)
    /\ Goto(r, Obey(slot[r], slot[r].fail))
    /\ UNCHANGED rows

-------------------------------------------------------------------------------
(***************************************************************************)
(* DeleteDictWithItems: one transaction, read committed.                   *)
(***************************************************************************)

\* GetDictByID: the code is kept in the task; a dictionary without one has no items.
GetDictByID(r) ==
    /\ At(r, "dict")
    /\ LET t == [Cur(r) EXCEPT !.ref = rows[Cur(r).id].ref]
       IN  Goto(r, IF ~Found(t) THEN Obey(slot[r], slot[r].miss)
                   ELSE Step(slot[r], IF t.ref # None THEN t
                                      ELSE [t EXCEPT !.prog = <<"dict", "delete", "commit">>]))
    /\ UNCHANGED rows

Coded(i, code) == rows[i].st = "live" /\ rows[i].tab = "item" /\ rows[i].ref = code

\* DELETE FROM t_comm_dict_item WHERE dict_code = $1 begins with a snapshot, ...
DeleteDictItemsByCode(r) ==
    /\ At(r, "items")
    /\ Goto(r, [Step(slot[r], Cur(r)) EXCEPT !.want = {i \in Ids : Coded(i, Cur(r).ref)}])
    /\ UNCHANGED rows

\* ... waits for the writers of its rows and takes those that still qualify.
SweepItems(r) ==
    /\ At(r, "sweep")
    /\ Unlocked(r, slot[r].want)
    /\ Goto(r, [Step(slot[r], Cur(r)) EXCEPT !.held = {i \in slot[r].want : Coded(i, Cur(r).ref)}])
    /\ UNCHANGED rows

DeleteDict(r) ==
    /\ At(r, "delete")
    /\ Unlocked(r, {Cur(r).id})
    /\ Goto(r, [Step(slot[r], Cur(r)) EXCEPT
                    !.held = IF Found(Cur(r)) THEN @ \cup {Cur(r).id} ELSE @])
    /\ UNCHANGED rows

Commit(r) ==
    /\ At(r, "commit")
    /\ rows' = [i \in Ids |-> IF i \in slot[r].held THEN Dropped(rows[i]) ELSE rows[i]]
    /\ Answer(r, slot[r])

-------------------------------------------------------------------------------
(***************************************************************************)
(* Requests.                                                               *)
(***************************************************************************)

\* A request about the table tab can come in.
Opens(r, tab) == ~Busy(r) /\ tab \in scope

Start(r, miss, fail, todo) ==
    /\ Goto(r, Asked(miss, fail, todo))
    /\ UNCHANGED rows

\* Ids nobody has been given.
Fresh ==
    {i \in Ids : /\ rows[i].st = "free"
                 /\ \A o \in Requests : \A n \in DOMAIN slot[o].todo : slot[o].todo[n].new # i}

\* What a list in the body can be; the same id may come twice (readIDOrIDs).
Lists(r, S) == UNION {[1..n -> S] : n \in 1..MaxTasks[r]}

TaskOf(prog, tab, id, ref, val) ==
    [prog |-> prog, tab |-> tab, id |-> id, new |-> None, ref |-> ref, val |-> val]

\* One task for each row to be created, each with a new id.
Create(r, fail, list) ==
    \E ids \in Injection(DOMAIN list, Fresh) :
        Start(r, "skip", fail, [n \in DOMAIN list |-> [list[n] EXCEPT !.new = ids[n]]])

Add(r, tab, refs) ==
    /\ Opens(r, tab)
    /\ \E ref \in refs : Create(r, "stop", <<TaskOf(<<"insert">>, tab, None, ref, None)>>)

\* prog is what the service or the handler runs for an update.
Edit(r, tab, prog) ==
    /\ Opens(r, tab)
    /\ \E i \in Ids, ref \in Refs \cup {None}, val \in Vals \cup {None} :
           /\ {ref, val} # {None}
           /\ Start(r, "stop", "stop", <<TaskOf(prog, tab, i, ref, val)>>)

Each(l, prog, tab, ref, val) == [n \in DOMAIN l |-> TaskOf(prog, tab, l[n], ref, val)]

Discard(r, tab, prog, fail) ==
    /\ Opens(r, tab)
    /\ \E l \in Lists(r, Ids) : Start(r, "skip", fail, Each(l, prog, tab, None, None))

\* The REST routes take one id, in the path, and answer 404 when it is not there.
DiscardOne(r, tab, prog) ==
    /\ Opens(r, tab)
    /\ \E i \in Ids : Start(r, "stop", "stop", Each(<<i>>, prog, tab, None, None))

\* Rows of a body or a sheet; rows that the decoding skips are not in the list.
Bulk(r, tab, progs) ==
    /\ Opens(r, tab)
    /\ \E l \in Lists(r, [prog : progs, tab : {tab}, id : {None}, new : {None},
                       ref : Refs, val : {None}]) : Create(r, "stop", l)

-------------------------------------------------------------------------------
(***************************************************************************)
(* Question banks and templates.                                           *)
(***************************************************************************)
TemplateUpdate == <<"load", "write">>

TemplateSoftDelete == <<"load", "drop">>

handleSKTemplateCreate(r) == Add(r, "template", Refs)

handleSKTemplateUpdate(r) == Edit(r, "template", TemplateUpdate)

handleSKTemplateDelete(r) == Discard(r, "template", TemplateSoftDelete, "stop")

TemplateRoutes(r) ==
    Add(r, "template", Refs) \/ Edit(r, "template", TemplateUpdate) \/ DiscardOne(r, "template", TemplateSoftDelete)

RepoUpdate == <<"load", "write">>

RepoDelete == <<"load", "drop">>

handleSKRepoCreate(r) == Add(r, "repo", Refs)

handleSKRepoUpdate(r) == Edit(r, "repo", RepoUpdate)

handleSKRepoDelete(r) == Discard(r, "repo", RepoDelete, "stop")

RepoRoutes(r) ==
    Add(r, "repo", Refs) \/ Edit(r, "repo", RepoUpdate) \/ DiscardOne(r, "repo", RepoDelete)

\* A row that is no object is skipped; a failed insert ends the request with a 500.
handleSKRepoBatchCreate(r) == Bulk(r, "template", {<<"insert">>})

\* Empty rows are skipped; a row without a name ends the import.
ImportTemplatesXLSX(r) == Bulk(r, "template", {<<"insert">>, <<"refuse">>})

\* Copies get a new id; a move loads twice, in Get and in Update.  What cannot be
\* read or written is left out of the count.
handleSKRepoPick(r) ==
    /\ Opens(r, "template")
    /\ \E l \in Lists(r, Ids), ref \in Refs :
           \/ Create(r, "skip", Each(l, <<"copy", "insert">>, "template", ref, None))
           \/ Start(r, "skip", "skip", Each(l, <<"load">> \o TemplateUpdate, "template", ref, None))

\* repo_id becomes the empty string; errors are ignored.
handleSKRepoUnbind(r) ==
    /\ Opens(r, "template")
    /\ \E l \in Lists(r, Ids) :
           Start(r, "count", "count", Each(l, TemplateUpdate, "template", Empty, None))

handleSKRepoPartnerCreate(r) == Add(r, "partner", Refs)

handleSKRepoPartnerDelete(r) == Discard(r, "partner", <<"drop">>, "count")

handleSKUserBookCreate(r) == Add(r, "book", Refs)

handleSKUserBookUpdate(r) == Edit(r, "book", <<"write">>)

handleSKUserBookDelete(r) == Discard(r, "book", <<"drop">>, "count")

-------------------------------------------------------------------------------
(***************************************************************************)
(* Departments, positions, roles and settings.                             *)
(***************************************************************************)
UpdateDept == <<"load", "write">>

DeleteDept == <<"load", "drop">>

handleSKDeptCreate(r) == Add(r, "dept", Refs)

handleSKDeptUpdate(r) == Edit(r, "dept", UpdateDept)

handleSKDeptDelete(r) == Discard(r, "dept", DeleteDept, "stop")

\* The statement alone, for each item of the list, its errors ignored.
handleSKDeptSort(r) ==
    /\ Opens(r, "dept")
    /\ \E l \in Lists(r, Ids), v \in Vals : Start(r, "stop", "count", Each(l, <<"write">>, "dept", None, v))

handleSKPositionCreate(r) == Add(r, "position", Refs)

handleSKPositionUpdate(r) == Edit(r, "position", <<"load", "write">>)

handleSKPositionDelete(r) == Discard(r, "position", <<"load", "drop">>, "stop")

\* Sessions has what else happens to roles.
handleSKRoleCreate(r) == Add(r, "role", Refs)

\* With an id, or with the one GetDefaultSysInfo finds.
handleSKSystemUpdate(r) == Edit(r, "sysinfo", <<"write">>) \/ Edit(r, "sysinfo", <<"load", "write">>)

-------------------------------------------------------------------------------
(***************************************************************************)
(* Dictionaries.                                                           *)
(***************************************************************************)
handleSKDictCreate(r) == Add(r, "dict", Refs \cup {None})

handleSKDictUpdate(r) == Edit(r, "dict", <<"write">>)

\* Bug: every statement commits by itself.
DeleteDictLoose == <<"dict", "items", "sweep", "commit", "delete", "commit">>

DeleteDictWithItems == <<"dict", "items", "sweep", "delete", "commit">>

handleSKDictDelete(r) == Discard(r, "dict", DeleteDictWithItems, "stop")

handleSKDictItemCreate(r) == Add(r, "item", Refs)

handleSKDictItemUpdate(r) == Edit(r, "item", <<"write">>)

handleSKDictItemDelete(r) == Discard(r, "item", <<"drop">>, "count")

\* Rows without itemValue are skipped; a failed insert ends the request with a 400.
handleSKDictItemImport(r) == Bulk(r, "item", {<<"insert">>})

-------------------------------------------------------------------------------
Arrive(r) ==
    \/ handleSKTemplateCreate(r) \/ handleSKTemplateUpdate(r) \/ handleSKTemplateDelete(r)
    \/ handleSKRepoCreate(r) \/ handleSKRepoUpdate(r) \/ handleSKRepoDelete(r)
    \/ TemplateRoutes(r) \/ RepoRoutes(r)
    \/ handleSKRepoBatchCreate(r) \/ ImportTemplatesXLSX(r)
    \/ handleSKRepoPick(r) \/ handleSKRepoUnbind(r)
    \/ handleSKRepoPartnerCreate(r) \/ handleSKRepoPartnerDelete(r)
    \/ handleSKUserBookCreate(r) \/ handleSKUserBookUpdate(r) \/ handleSKUserBookDelete(r)
    \/ handleSKDeptCreate(r) \/ handleSKDeptUpdate(r) \/ handleSKDeptDelete(r) \/ handleSKDeptSort(r)
    \/ handleSKPositionCreate(r) \/ handleSKPositionUpdate(r) \/ handleSKPositionDelete(r)
    \/ handleSKRoleCreate(r) \/ handleSKSystemUpdate(r)
    \/ handleSKDictCreate(r) \/ handleSKDictUpdate(r) \/ handleSKDictDelete(r)
    \/ handleSKDictItemCreate(r) \/ handleSKDictItemUpdate(r) \/ handleSKDictItemDelete(r)
    \/ handleSKDictItemImport(r)

Serve(r) ==
    \/ Load(r) \/ Get(r) \/ Write(r) \/ Drop(r) \/ Insert(r) \/ Refuse(r)
    \/ GetDictByID(r) \/ DeleteDictItemsByCode(r) \/ SweepItems(r) \/ DeleteDict(r) \/ Commit(r)

\* The process stops; the database rolls back what was open.
Restart ==
    /\ slot' = [r \in Requests |-> Idle] /\ reply' = Idle
    /\ UNCHANGED <<scope, rows>>

Next == Restart \/ \E r \in Requests : Arrive(r) \/ Serve(r) \/ Fail(r)

Spec == Init /\ [][Next]_vars

-------------------------------------------------------------------------------
(***************************************************************************)
(* Properties                                                              *)
(***************************************************************************)

(***************************************************************************)
(* Several administrators edit the same rows, most of them in two          *)
(* statements, a load and a write.  A row once deleted is not written      *)
(* again, whoever had loaded it before; a column of a live row changes to  *)
(* what some request has sent for it and not otherwise (COALESCE), so      *)
(* edits of different columns do not undo each other.                      *)
(***************************************************************************)
Sends(r, i) == At(r, "write") /\ Cur(r).id = i /\ slot'[r] # slot[r]

EditsMerge ==
    [][\A i \in Ids : rows'[i] # rows[i] /\ rows[i].st # "free" =>
          /\ rows[i].st = "live"
          /\ rows'[i].ref # rows[i].ref
                => /\ rows'[i].ref # None
                   /\ \E r \in Requests : Sends(r, i) /\ Cur(r).ref = rows'[i].ref
          /\ rows'[i].val # rows[i].val
                => /\ rows'[i].val # None
                   /\ \E r \in Requests : Sends(r, i) /\ Cur(r).val = rows'[i].val]_vars

(***************************************************************************)
(* What a reply lists as deleted is deleted, also when two requests delete *)
(* the same row at a time, an answer was lost or an id came twice.         *)
(* Routes that ignore errors (fail = "count") promise nothing.             *)
(***************************************************************************)
DeletedMeansDeleted ==
    \A s \in {slot[r] : r \in Requests} \cup {reply} :
        s.fail = "stop" /\ s.miss = "skip" /\ s.made = {}
            => \A n \in DOMAIN s.done : rows[s.done[n]].st # "live"

(***************************************************************************)
(* A bulk creation that fails leaves exactly its first rows behind: the    *)
(* reply of a successful one counts each row once and all of them; one     *)
(* that stops has stored the rows before the failed one and at most that.  *)
(* (Comments in sk_c5.go speak of a single transaction; there is none.)    *)
(***************************************************************************)
BulkIsAPrefix ==
    \A s \in {slot[r] : r \in Requests} \cup {reply} :
        LET listed == {s.done[n] : n \in DOMAIN s.done}
        IN  s.fail = "stop" /\ s.made # {} =>
                /\ \A i \in s.made : rows[i].st # "free"
                /\ listed \subseteq s.made /\ Cardinality(listed) = Len(s.done)
                /\ s.made # listed => s.error /\ Cardinality(s.made \ listed) = 1
                /\ ~s.error => Len(s.done) + Len(s.todo) = s.total

(***************************************************************************)
(* "removes a t_comm_dict row and its dependent t_comm_dict_item rows      *)
(* under a single tx so an interrupted delete can't leave orphan items     *)
(* behind": the step of a dictionary's deletion that removes anything      *)
(* removes the dictionary, every item its statement has taken, and nothing *)
(* that carries another code by now.                                       *)
(***************************************************************************)
CascadeIsWhole ==
    [][\A r \in Requests :
          LET t == Cur(r)
              lost == {i \in Ids : rows[i].st = "live" /\ rows'[i].st # "live"}
          IN  At(r, "commit") /\ slot'[r] # slot[r] /\ lost # {}
                  => /\ rows'[t.id].st = "gone"
                     /\ slot[r].held \subseteq lost
                     /\ \A i \in lost \ {t.id} : Coded(i, t.ref)]_vars

(***************************************************************************)
(* "The handler uses a single tx so a partial failure rolls everything     *)
(* back" (handleSKDictItemImport).  It does not: the rows before the       *)
(* failed one stay.                                                        *)
(***************************************************************************)
FailedImportAppliesNothing ==
    reply.error /\ reply.fail = "stop"
        => \A n \in DOMAIN reply.done : rows[reply.done[n]].tab # "item"
=============================================================================

------------------------------ MODULE AnswerFlow ------------------------------
(***************************************************************************)
(* The answer life cycle of Qoo.IM: participants save answers to published *)
(* surveys while operators edit, trash, restore, purge and import answers  *)
(* and publish, edit, trash and purge the projects.                        *)
(*                                                                         *)
(* Every HTTP request runs in a goroutine of its own and talks to          *)
(* PostgreSQL in single autocommitted statements, so requests interleave   *)
(* between any two statements.  `slot[s]` is the local state of the one    *)
(* request caller s has in flight: a participant's session (Clients) or an *)
(* operator's (Admins).  A statement may fail (lost connection, cancelled  *)
(* context), and a response may be lost after its statement committed.     *)
(***************************************************************************)
EXTENDS AnswerStore, FiniteSets

CONSTANTS
    Clients,    \* participants' sessions, each with one request at a time
    Browsers,   \* the sessions that follow the SPA: they resend the last answerId
    Uids,       \* partner uids, the ?token= / ?t= values
    Routes,     \* the operators' routes in use (a subset of OperatorRoutes)
    MaxBatch,   \* bound: ids in one delete/restore/destroy request
    MaxImport   \* bound: rows of one uploaded xlsx that get inserted

OperatorRoutes ==
    {"answer/create", "answer/update", "answer/delete", "answer/restore",
     "answer/destroy", "answer/upload",
     "project/create", "project/update", "project/delete", "project/restore",
     "project/destroy", "partner/create", "partner/delete"}

ASSUME FlowAssumption ==
    /\ Routes \subseteq OperatorRoutes
    /\ Browsers \subseteq Clients
    /\ Clients \cap Admins = {}
    /\ None \notin Clients \cup Uids
    /\ MaxBatch \in Nat /\ MaxImport \in Nat

Callers == Clients \cup Admins

VARIABLES
    partner,    \* t_project_partner
    slot,       \* the request each caller has in flight
    held,       \* held[c][p]: the answerId client c was last given for project p
    author,     \* history: the session whose request inserted the row
    issued,     \* history: <<project, identity>> some partner row was issued for
    everTrashed,\* history: rows that were soft-deleted or purged at some time
    excused     \* history: <<client, project>> whose insert went unnoticed, or
                \* whose identity changed between two saves

dbVars == <<project, published, answer, partner>>
histVars == <<author, issued, everTrashed, excused>>
vars == <<project, published, answer, partner, slot, held,
          author, issued, everTrashed, excused>>

PartnerRow == [state  : RowState,
               uid    : Uids \cup {None},
               project: Projects \cup {None},
               userId : Users \cup {None}]

BlankPartner(st) == [state |-> st, uid |-> None, project |-> None, userId |-> None]

(***************************************************************************)
(* Local variables of a request.  pc names the statement it issues next.   *)
(***************************************************************************)
Statement == {"idle",
              "partner", "survey", "resume", "insert",     \* saving an answer
              "edit", "editAcked",                         \* AdminUpdate
              "delete", "deleteWrite", "restore", "destroy", \* answer batches
              "import", "importRejected",                  \* answer upload
              "projectUpdate", "projectDelete"}

Slot == [pc    : Statement,
         route : {"sk", "rest"},
         token : Uids \cup {None},
         proj  : Projects \cup {None},
         id    : AnswerIds \cup {None},
         who   : Identities \cup {None},
         snap  : Surveys \cup {None},
         todo  : SUBSET AnswerIds,
         made  : 0 .. MaxImport]

Idle == [pc |-> "idle", route |-> "sk", token |-> None, proj |-> None, id |-> None,
         who |-> None, snap |-> None, todo |-> {}, made |-> 0]

TypeOK ==
    /\ ProjectTypeOK
    /\ answer \in [AnswerIds -> AnswerRow]
    /\ partner \in [Partners -> PartnerRow]
    /\ slot \in [Callers -> Slot]
    /\ held \in [Clients -> [Projects -> AnswerIds \cup {None}]]
    /\ author \in [AnswerIds -> Callers \cup {None}]
    /\ issued \subseteq Projects \X Identities
    /\ everTrashed \subseteq AnswerIds
    /\ excused \subseteq Clients \X Projects

Init ==
    /\ ProjectInit
    /\ answer = [i \in AnswerIds |-> BlankAnswer("unused")]
    /\ partner = [q \in Partners |-> BlankPartner("unused")]
    /\ slot = [s \in Callers |-> Idle]
    /\ held = [c \in Clients |-> [p \in Projects |-> None]]
    /\ author = [i \in AnswerIds |-> None]
    /\ issued = {}
    /\ everTrashed = {}
    /\ excused = {}

Goto(s, rec) == slot' = [slot EXCEPT ![s] = rec]
Finish(s) == slot' = [slot EXCEPT ![s] = Idle]

-------------------------------------------------------------------------------
(***************************************************************************)
(* Saving an answer: handleSKSaveAnswer, handleSubmitAnswer and            *)
(* handleSKAnswerCreate, all of which end in AnswerService.Submit.         *)
(***************************************************************************)

\* Bug: createBy has no default.
NoCreator == None

\* Submit's createBy when no partner is known.
DefaultCreator == Guest

\* Submit's request is parsed; with a token the partner lookup comes first.
StartSubmit(c, rt, t, p, i) ==
    /\ slot[c].pc = "idle"
    /\ Goto(c, [pc |-> IF t = None THEN "survey" ELSE "partner",
                route |-> rt, token |-> t, proj |-> p, id |-> i,
                who |-> DefaultCreator, snap |-> None, todo |-> {}, made |-> 0])
    /\ UNCHANGED <<dbVars, held, histVars>>

\* POST /api/public/saveAnswer?token=: an optional resume id comes along.
SKSaveAnswer(c) ==
    \E t \in Uids \cup {None}, p \in Projects, i \in AnswerIds \cup {None} :
        /\ c \in Browsers => i = held[c][p]
        /\ StartSubmit(c, "sk", t, p, i)

\* POST /api/survey/:projectId/answer?t=: ResumeID is not in the JSON body.
RestSubmitAnswer(c) ==
    /\ c \notin Browsers
    /\ \E t \in Uids \cup {None}, p \in Projects :
           StartSubmit(c, "rest", t, p, None)

\* POST /api/answer/create: an operator saves as "guest", never with a token.
SKAnswerCreate(a) ==
    \E p \in Projects, i \in AnswerIds \cup {None} : StartSubmit(a, "sk", None, p, i)

\* The identity a partner row stands for: its user if it has one.
PartnerIdentity(q) == IF partner[q].userId = None THEN q ELSE partner[q].userId

\* GetPartnerByUID ... LIMIT 1: uids are not unique, any match may come back.
PartnersWith(t) == {q \in Partners : partner[q].state = "live" /\ partner[q].uid = t}

\* Bug: the comparison left out.
TokenFitsAny(q, p) == TRUE

\* "partner token does not belong to this project" otherwise.
TokenFits(q, p) == partner[q].project = p

\* saveAnswer is strict: no partner is a 401, another project's partner a 403.
LookupPartnerStrict(c) ==
    LET r == slot[c] IN
    /\ r.pc = "partner" /\ r.route = "sk"
    /\ \/ /\ PartnersWith(r.token) = {}
          /\ Finish(c)
       \/ \E q \in PartnersWith(r.token) :
             \/ /\ ~TokenFits(q, r.proj)
                /\ Finish(c)
             \/ /\ TokenFits(q, r.proj)
                /\ Goto(c, [r EXCEPT !.pc = "survey", !.who = PartnerIdentity(q)])
    /\ UNCHANGED <<dbVars, held, histVars>>

\* The REST route is best effort: an unknown token or a failed lookup is a guest.
LookupPartnerLenient(c) ==
    LET r == slot[c] IN
    /\ r.pc = "partner" /\ r.route = "rest"
    /\ \/ Goto(c, [r EXCEPT !.pc = "survey"])
       \/ \E q \in PartnersWith(r.token) :
             Goto(c, [r EXCEPT !.pc = "survey", !.who = PartnerIdentity(q)])
    /\ UNCHANGED <<dbVars, held, histVars>>

\* Bug: any project that was not purged accepts answers.
NotPurged(p) == project[p].state \in {"live", "trashed"}

\* "survey not found or not published" otherwise.
AcceptsAnswers(p) == Open(p)

\* GetPublic: the survey of a published project becomes the answer's snapshot.
GetPublic(s) ==
    LET r == slot[s] IN
    /\ r.pc = "survey"
    /\ IF AcceptsAnswers(r.proj)
       THEN Goto(s, [r EXCEPT !.pc = IF r.id = None THEN "insert" ELSE "resume",
                              !.snap = project[r.proj].survey])
       ELSE Finish(s)
    /\ UNCHANGED <<dbVars, held, histVars>>

\* What the caller learns: the row's id, unless the response is lost.
Deliver(s, p, i) ==
    held' = IF s \in Clients THEN [held EXCEPT ![s][p] = i] ELSE held

\* Bug: no early return when the row count is positive.
ResumeThenInsert(s) ==
    LET r == slot[s] IN
    /\ r.pc = "resume"
    /\ \E x \in Contents :
          answer' = UpdateAnswerInPlace(answer, r.id, r.proj, r.who, r.snap, x, r.who)
    /\ Goto(s, [r EXCEPT !.pc = "insert"])
    /\ UNCHANGED <<project, published, partner, held, histVars>>

\* The resume path: update the caller's own row, or fall through to the insert.
ResumeAnswer(s) ==
    LET r == slot[s] IN
    /\ r.pc = "resume"
    /\ IF InPlaceMatches(answer, r.id, r.proj, r.who)
       THEN /\ \E x \in Contents :
                  answer' = UpdateAnswerInPlace(answer, r.id, r.proj, r.who,
                                                r.snap, x, r.who)
            /\ Finish(s)
            /\ Deliver(s, r.proj, r.id) \/ UNCHANGED held
       ELSE /\ Goto(s, [r EXCEPT !.pc = "insert"])
            /\ UNCHANGED <<answer, held>>
    /\ UNCHANGED <<project, published, partner, histVars>>

(***************************************************************************)
(* The row the client offered to resume belongs to another identity than   *)
(* the one its token resolves to now.                                      *)
(***************************************************************************)
IdentityChanged(r) ==
    /\ r.id # None
    /\ Stored(answer, r.id)
    /\ Creator(answer[r.id]) # r.who

\* Bug: a stale resume id is used again for the new row.
StaleId(i, r) == answer[i].state = IF i = r.id THEN "destroyed" ELSE "unused"

\* idgen.New(): a ULID no row ever had.
FreshId(i, r) == answer[i].state = "unused"

\* Bug: the survey is read again at the time of the insert.
LateSnapshot(r) == project[r.proj].survey

\* The survey GetPublic returned, whatever happened to the project since.
Snapshot(r) == r.snap

\* CreateAnswer under a fresh id, with the snapshot read before.
InsertAnswer(s) ==
    LET r == slot[s]
        here == {<<s, r.proj>>} \cap (Clients \X Projects)
    IN
    /\ r.pc = "insert"
    /\ \E i \in AnswerIds, x \in Contents :
          /\ FreshId(i, r)
          /\ answer' = CreateAnswer(answer, i, r.proj, Snapshot(r), x, r.who)
          /\ author' = [author EXCEPT ![i] = s]
          /\ \/ /\ Deliver(s, r.proj, i)
                /\ excused' = IF IdentityChanged(r) THEN excused \cup here ELSE excused
             \/ /\ UNCHANGED held
                /\ excused' = excused \cup here
    /\ Finish(s)
    /\ UNCHANGED <<project, published, partner, issued, everTrashed>>

-------------------------------------------------------------------------------
(***************************************************************************)
(* The operators' answer routes.                                           *)
(***************************************************************************)

\* AdminUpdate, first statement: load the row (else 404) and re-emit its scope.
SKAnswerUpdate(a) ==
    /\ slot[a].pc = "idle"
    /\ \E i \in AnswerIds :
          /\ answer[i].state = "live"
          /\ Goto(a, [Idle EXCEPT !.pc = "edit", !.id = i,
                                  !.proj = answer[i].project,
                                  !.who = Creator(answer[i])])
    /\ UNCHANGED <<dbVars, held, histVars>>

\* Second statement: the row count is ignored and the edit reported as done.
AdminUpdateWrite(a) ==
    LET r == slot[a] IN
    /\ r.pc = "edit"
    /\ \E x \in Contents :
          answer' = UpdateAnswerInPlace(answer, r.id, r.proj, r.who, None, x, a)
    /\ Goto(a, [r EXCEPT !.pc = "editAcked"])
    /\ UNCHANGED <<project, published, partner, held, histVars>>

\* POST /api/answer/{delete,restore,destroy}: a loop over the ids of the body.
StartAnswerBatch(a, op) ==
    /\ slot[a].pc = "idle"
    /\ \E ids \in SUBSET AnswerIds :
          /\ ids # {} /\ Cardinality(ids) <= MaxBatch
          /\ Goto(a, [Idle EXCEPT !.pc = op, !.todo = ids])
    /\ UNCHANGED <<dbVars, held, histVars>>

\* One id of the batch is done: go on with the loop or answer the request.
NextInBatch(a, op, i) ==
    LET rest == slot[a].todo \ {i} IN
    IF rest = {}
    THEN Finish(a)
    ELSE Goto(a, [Idle EXCEPT !.pc = op, !.todo = rest])

\* SoftDelete's load; an id that is gone is skipped ("not_found" in the results).
SoftDeleteLoad(a) ==
    /\ slot[a].pc = "delete"
    /\ \E i \in slot[a].todo :
          IF answer[i].state = "live"
          THEN Goto(a, [slot[a] EXCEPT !.pc = "deleteWrite", !.id = i])
          ELSE NextInBatch(a, "delete", i)
    /\ UNCHANGED <<dbVars, held, histVars>>

SoftDeleteWrite(a) ==
    LET i == slot[a].id IN
    /\ slot[a].pc = "deleteWrite"
    /\ answer' = SoftDeleteAnswer(answer, i, a)
    /\ everTrashed' = everTrashed \cup {i}
    /\ NextInBatch(a, "delete", i)
    /\ UNCHANGED <<project, published, partner, held, author, issued, excused>>

RestoreAnswerStep(a) ==
    /\ slot[a].pc = "restore"
    /\ \E i \in slot[a].todo :
          /\ answer' = RestoreAnswer(answer, i, a)
          /\ NextInBatch(a, "restore", i)
    /\ UNCHANGED <<project, published, partner, held, histVars>>

DestroyAnswerStep(a) ==
    /\ slot[a].pc = "destroy"
    /\ \E i \in slot[a].todo :
          /\ answer' = HardDeleteAnswer(answer, i)
          /\ everTrashed' = IF Stored(answer, i) THEN everTrashed \cup {i} ELSE everTrashed
          /\ NextInBatch(a, "destroy", i)
    /\ UNCHANGED <<project, published, partner, held, author, issued, excused>>

\* POST /api/answer/upload: ImportAnswersXLSX against any project id.
SKAnswerUpload(a) ==
    /\ slot[a].pc = "idle"
    /\ \E p \in Projects : Goto(a, [Idle EXCEPT !.pc = "import", !.proj = p])
    /\ UNCHANGED <<dbVars, held, histVars>>

\* One data row: its own insert, no survey snapshot, the operator as creator.
ImportRow(a) ==
    LET r == slot[a] IN
    /\ r.pc = "import" /\ r.made < MaxImport
    /\ \E i \in AnswerIds, x \in Contents :
          /\ FreshId(i, r)
          /\ answer' = CreateAnswer(answer, i, r.proj, None, x, a)
          /\ author' = [author EXCEPT ![i] = a]
    /\ Goto(a, [r EXCEPT !.made = @ + 1])
    /\ UNCHANGED <<project, published, partner, held, issued, everTrashed,
                   excused>>

\* The sheet ends: 200 with the number of rows created.
ImportDone(a) ==
    /\ slot[a].pc = "import"
    /\ Finish(a)
    /\ UNCHANGED <<dbVars, held, histVars>>

\* A row without an answer, or a failed insert: 400, the rows before it stay.
ImportAborts(a) ==
    /\ slot[a].pc = "import"
    /\ Goto(a, [slot[a] EXCEPT !.pc = "importRejected"])
    /\ UNCHANGED <<dbVars, held, histVars>>

\* The 200 of an edit or the 400 of an upload goes out.
Respond(a) ==
    /\ slot[a].pc \in {"editAcked", "importRejected"}
    /\ Finish(a)
    /\ UNCHANGED <<dbVars, held, histVars>>

-------------------------------------------------------------------------------
(***************************************************************************)
(* The operators' project and partner routes.                              *)
(***************************************************************************)

ProjectCreate(a) ==
    /\ slot[a].pc = "idle"
    /\ \E p \in Projects, st \in {0, 1}, sv \in Surveys \cup {None} :
          CreateProject(p, st, sv)
    /\ UNCHANGED <<answer, partner, slot, held, histVars>>

\* ProjectService.Update and SoftDelete load the row first, then write.
ProjectLoad(a, op) ==
    /\ slot[a].pc = "idle"
    /\ \E p \in Projects :
          /\ project[p].state = "live"
          /\ Goto(a, [Idle EXCEPT !.pc = op, !.proj = p])
    /\ UNCHANGED <<dbVars, held, histVars>>

ProjectUpdateWrite(a) ==
    /\ slot[a].pc = "projectUpdate"
    /\ \E st \in {0, 1}, sv \in Surveys \cup {None} :
          UpdateProject(slot[a].proj, st, sv)
    /\ Finish(a)
    /\ UNCHANGED <<answer, partner, held, histVars>>

ProjectDeleteWrite(a) ==
    /\ slot[a].pc = "projectDelete"
    /\ SoftDeleteProject(slot[a].proj)
    /\ Finish(a)
    /\ UNCHANGED <<answer, partner, held, histVars>>

(***************************************************************************)
(* Restore and destroy ignore every statement's error and answer ok, so an *)
(* id of the body is one statement that happens or not: no local state     *)
(* links the ids of one request.                                           *)
(***************************************************************************)
ProjectRestore(a) ==
    /\ slot[a].pc = "idle"
    /\ \E p \in Projects : RestoreProject(p)
    /\ UNCHANGED <<answer, partner, slot, held, histVars>>

ProjectDestroy(a) ==
    /\ slot[a].pc = "idle"
    /\ \E p \in Projects : HardDeleteProject(p)
    /\ UNCHANGED <<answer, partner, slot, held, histVars>>

\* A fresh partner id, a uid of the operator's choice, a project id as given.
PartnerCreate(a) ==
    /\ slot[a].pc = "idle"
    /\ \E q \in Partners, t \in Uids, p \in Projects, u \in Users \cup {None} :
          /\ partner[q].state = "unused"
          /\ partner' = [partner EXCEPT
                 ![q] = [state |-> "live", uid |-> t, project |-> p, userId |-> u]]
          /\ issued' = issued \cup {<<p, IF u = None THEN q ELSE u>>}
    /\ UNCHANGED <<project, published, answer, slot, held, author, everTrashed,
                   excused>>

PartnerDelete(a) ==
    /\ slot[a].pc = "idle"
    /\ \E q \in Partners :
          /\ partner[q].state = "live"
          /\ partner' = [partner EXCEPT ![q] = BlankPartner("destroyed")]
    /\ UNCHANGED <<project, published, answer, slot, held, histVars>>

-------------------------------------------------------------------------------

\* A statement fails without effect: the handler answers 500 and stops.
RequestFails(s) ==
    /\ slot[s].pc # "idle"
    /\ Finish(s)
    /\ UNCHANGED <<dbVars, held, histVars>>

\* A request arrives; one that is refused at once (404, 400) changes nothing.
Arrive(s) ==
    \/ s \in Clients /\ (SKSaveAnswer(s) \/ RestSubmitAnswer(s))
    \/ /\ s \in Admins
       /\ \/ "answer/create"   \in Routes /\ SKAnswerCreate(s)
          \/ "answer/update"   \in Routes /\ SKAnswerUpdate(s)
          \/ "answer/delete"   \in Routes /\ StartAnswerBatch(s, "delete")
          \/ "answer/restore"  \in Routes /\ StartAnswerBatch(s, "restore")
          \/ "answer/destroy"  \in Routes /\ StartAnswerBatch(s, "destroy")
          \/ "answer/upload"   \in Routes /\ SKAnswerUpload(s)
          \/ "project/create"  \in Routes /\ ProjectCreate(s)
          \/ "project/update"  \in Routes /\ ProjectLoad(s, "projectUpdate")
          \/ "project/delete"  \in Routes /\ ProjectLoad(s, "projectDelete")
          \/ "project/restore" \in Routes /\ ProjectRestore(s)
          \/ "project/destroy" \in Routes /\ ProjectDestroy(s)
          \/ "partner/create"  \in Routes /\ PartnerCreate(s)
          \/ "partner/delete"  \in Routes /\ PartnerDelete(s)

\* A request in flight issues its next statement.
Step(s) ==
    \/ LookupPartnerStrict(s)
    \/ LookupPartnerLenient(s)
    \/ GetPublic(s)
    \/ ResumeAnswer(s)
    \/ InsertAnswer(s)
    \/ RequestFails(s)
    \/ /\ s \in Admins
       /\ \/ AdminUpdateWrite(s)
          \/ SoftDeleteLoad(s)
          \/ SoftDeleteWrite(s)
          \/ RestoreAnswerStep(s)
          \/ DestroyAnswerStep(s)
          \/ ImportRow(s)
          \/ ImportDone(s)
          \/ ImportAborts(s)
          \/ Respond(s)
          \/ ProjectUpdateWrite(s)
          \/ ProjectDeleteWrite(s)

Next == \E s \in Callers : Arrive(s) \/ Step(s)

Spec == Init /\ [][Next]_vars

\* A goroutine that serves a request is scheduled until it has answered.
FairSpec == Spec /\ \A s \in Callers : WF_vars(Step(s))

-------------------------------------------------------------------------------
(***************************************************************************)
(* Properties                                                              *)
(***************************************************************************)

(***************************************************************************)
(* Every survey snapshot stored in t_answer is one its own project really  *)
(* had published at some time, whatever edits, trashings and publications  *)
(* of the project run between Submit's read of the survey and its write,   *)
(* and however often the row is resumed ("a dishonest client can't claim a *)
(* different survey shape than what was published").                       *)
(***************************************************************************)
SnapshotWasPublished ==
    \A i \in AnswerIds :
        Stored(answer, i) /\ answer[i].survey # None =>
            <<answer[i].project, answer[i].survey>> \in published

(***************************************************************************)
(* The last writer of an answer is its own creator or has an operator's    *)
(* id: no sequence of saves, with any answerId, token and project, lets    *)
(* one identity write into another identity's row.  (A partner row may     *)
(* carry an operator's id; of its saves EditorWasIssued says the same.)    *)
(***************************************************************************)
LastWriterOwnsRow ==
    \A i \in AnswerIds :
        Stored(answer, i) => answer[i].updateBy \in {None, Creator(answer[i])} \cup Admins

(***************************************************************************)
(* A participant rewrites an answer only as its creator, and that as a     *)
(* guest or under an identity that some partner row was issued for in that *)
(* answer's project, although uids are not unique, partners come and go,   *)
(* may carry any user id, an operator's too, and the REST route also       *)
(* creates rows for other projects' partners.                              *)
(***************************************************************************)
EditorWasIssued ==
    [][\A c \in Clients, i \in AnswerIds :
          slot'[c] # slot[c] /\ Stored(answer, i) /\ answer'[i] # answer[i] =>
              /\ slot[c].who = Creator(answer[i])
              /\ slot[c].who = Guest \/ <<answer[i].project, slot[c].who>> \in issued]_vars

(***************************************************************************)
(* The answerId a session was given for a project names a row of that      *)
(* project, as long as the row exists: the resume protocol never hands a   *)
(* client an id that points elsewhere or at nothing.                       *)
(***************************************************************************)
HeldIdNamesRow ==
    \A c \in Clients, p \in Projects :
        held[c][p] # None =>
            LET row == answer[held[c][p]] IN
            /\ row.state # "unused"
            /\ row.state # "destroyed" => row.project = p

(***************************************************************************)
(* Saves do not pile up: a session that resends the last answerId owns at  *)
(* most one never-trashed row per project, unless the response to an       *)
(* insert was lost or the identity behind its token changed.               *)
(***************************************************************************)
NoPileUp ==
    \A c \in Browsers, p \in Projects :
        <<c, p>> \notin excused =>
            \A i, j \in AnswerIds \ everTrashed :
                /\ author[i] = c /\ answer[i].project = p
                /\ author[j] = c /\ answer[j].project = p
                => i = j

(***************************************************************************)
(* What may happen to a row: ids are used once, a purged row never comes   *)
(* back, and project_id and create_by never change, so no statement can    *)
(* move an answer to another project or owner.                             *)
(***************************************************************************)
RowLife(old, new) ==
    \/ old.state = "unused" /\ new.state = "live"
    \/ Stored(<<old>>, 1) /\ new.state = "destroyed"
    \/ /\ Stored(<<old>>, 1) /\ Stored(<<new>>, 1)
       /\ new.project = old.project /\ new.createBy = old.createBy

RowsKeepIdentity ==
    [][\A i \in AnswerIds : answer'[i] # answer[i] => RowLife(answer[i], answer'[i])]_answer

(***************************************************************************)
(* A trashed answer is frozen: it can be restored as it was or purged, but *)
(* a save or an edit that read the row before it was trashed cannot change *)
(* it afterwards.                                                          *)
(***************************************************************************)
TrashIsFrozen ==
    [][\A i \in AnswerIds :
          answer[i].state = "trashed" /\ Stored(answer', i) =>
              /\ answer'[i].content = answer[i].content
              /\ answer'[i].survey = answer[i].survey]_answer

\* A participant's row appears in project p, or its content changes.
ParticipantWrites(p) ==
    \E i \in AnswerIds :
        /\ answer'[i].state = "live" /\ answer'[i].project = p
        /\ answer'[i].createBy \notin Admins
        /\ answer'[i].updateBy \notin Admins
        /\ answer'[i] # answer[i]

(***************************************************************************)
(* Closing a survey takes effect: once a project stays unpublished,        *)
(* trashed or purged, only the requests already past the check still       *)
(* write, and then participants' writes to it stop for good.               *)
(***************************************************************************)
ClosedSurveyDrains ==
    \A p \in Projects :
        <>[](~Open(p)) => <>[][~ParticipantWrites(p)]_answer

(***************************************************************************)
(* What AdminUpdate's comment says ("Returns ErrNotFound if the row is     *)
(* gone or already soft-deleted"): an edit that is acknowledged found its  *)
(* row.                                                                    *)
(***************************************************************************)
AckedEditFoundItsRow ==
    [][\A a \in Admins :
          slot[a].pc = "edit" /\ slot'[a].pc = "editAcked" =>
              answer[slot[a].id].state = "live"]_vars

(***************************************************************************)
(* What handleSKAnswerUpload's comment says ("Failures abort with a 400    *)
(* rather than partially apply"): a failed upload created nothing.         *)
(***************************************************************************)
FailedUploadAppliesNothing ==
    \A a \in Admins : slot[a].pc = "importRejected" => slot[a].made = 0
=============================================================================

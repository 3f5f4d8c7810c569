--------------------------- MODULE AnswerFlowProofs ---------------------------
(***************************************************************************)
(* Proofs about AnswerFlow, for every set of projects, answers, sessions,  *)
(* partners and operators.                                                 *)
(***************************************************************************)
EXTENDS AnswerFlow, TLAPS

-------------------------------------------------------------------------------
(***************************************************************************)
(* The statements of queries/project.sql and queries/answer.sql keep the   *)
(* tables well formed.                                                     *)
(***************************************************************************)

LEMMA WriteProjectType ==
    ASSUME NEW tbl \in [Projects -> ProjectRow], ProjectTypeOK, WriteProject(tbl)
    PROVE  ProjectTypeOK'
  <1>1. \A p \in Projects : tbl[p].survey # None => tbl[p].survey \in Surveys
    BY DEF ProjectRow
  <1>2. published' \subseteq Projects \X Surveys
    BY <1>1 DEF ProjectTypeOK, WriteProject
  <1> QED
    BY <1>2 DEF ProjectTypeOK, WriteProject

LEMMA ProjectStatementTypes ==
    ASSUME ProjectTypeOK, NEW p \in Projects, NEW st \in {0, 1},
           NEW sv \in Surveys \cup {None},
           \/ CreateProject(p, st, sv)
           \/ UpdateProject(p, st, sv)
           \/ SoftDeleteProject(p)
           \/ RestoreProject(p)
           \/ HardDeleteProject(p)
    PROVE  ProjectTypeOK'
  <1> PICK tbl \in [Projects -> ProjectRow] : WriteProject(tbl)
    BY DEF ProjectTypeOK, ProjectRow, RowState, CreateProject, UpdateProject,
           SoftDeleteProject, RestoreProject, HardDeleteProject, BlankProject
  <1> QED
    BY WriteProjectType

LEMMA CreateAnswerType ==
    ASSUME NEW tbl \in [AnswerIds -> AnswerRow], NEW i \in AnswerIds,
           NEW p \in Projects, NEW sv \in Surveys \cup {None}, NEW x \in Contents,
           NEW by \in Identities
    PROVE  CreateAnswer(tbl, i, p, sv, x, by) \in [AnswerIds -> AnswerRow]
  BY DEF CreateAnswer, AnswerRow, StoredRow

LEMMA StoredIsStoredRow ==
    ASSUME NEW tbl \in [AnswerIds -> AnswerRow], NEW i \in AnswerIds
    PROVE  Stored(tbl, i) <=> tbl[i] \in StoredRow
  BY DEF Stored, AnswerRow, StoredRow, BlankAnswer

\* A table stays well formed when one of its rows is replaced by a stored one.
LEMMA ReplaceRow ==
    ASSUME NEW tbl \in [AnswerIds -> AnswerRow], NEW i \in AnswerIds,
           NEW row \in StoredRow
    PROVE  [tbl EXCEPT ![i] = row] \in [AnswerIds -> AnswerRow]
  BY DEF AnswerRow

LEMMA UpdateInPlaceType ==
    ASSUME NEW tbl \in [AnswerIds -> AnswerRow], NEW i \in AnswerIds,
           NEW p, NEW by, NEW sv \in Surveys \cup {None}, NEW x \in Contents,
           NEW w \in Identities
    PROVE  UpdateAnswerInPlace(tbl, i, p, by, sv, x, w) \in [AnswerIds -> AnswerRow]
  <1> DEFINE row == [tbl[i] EXCEPT !.survey = IF sv = None THEN @ ELSE sv,
                                   !.content = x, !.updateBy = w]
  <1>1. CASE InPlaceMatches(tbl, i, p, by)
    <2>1. tbl[i] \in StoredRow
      BY <1>1, StoredIsStoredRow DEF InPlaceMatches, Stored
    <2>2. row \in StoredRow
      BY <2>1 DEF StoredRow
    <2>3. UpdateAnswerInPlace(tbl, i, p, by, sv, x, w) = [tbl EXCEPT ![i] = row]
      BY <1>1, <2>1 DEF UpdateAnswerInPlace, StoredRow
    <2> QED
      BY <2>2, <2>3, ReplaceRow
  <1>2. CASE ~InPlaceMatches(tbl, i, p, by)
    BY <1>2 DEF UpdateAnswerInPlace
  <1> QED
    BY <1>1, <1>2

LEMMA TrashTypes ==
    ASSUME NEW tbl \in [AnswerIds -> AnswerRow], NEW i \in AnswerIds,
           NEW w \in Identities
    PROVE  /\ SoftDeleteAnswer(tbl, i, w) \in [AnswerIds -> AnswerRow]
           /\ RestoreAnswer(tbl, i, w) \in [AnswerIds -> AnswerRow]
           /\ HardDeleteAnswer(tbl, i) \in [AnswerIds -> AnswerRow]
  <1> DEFINE row(st) == [tbl[i] EXCEPT !.state = st, !.updateBy = w]
  <1>1. CASE Stored(tbl, i)
    <2>1. tbl[i] \in StoredRow
      BY <1>1, StoredIsStoredRow
    <2>2. row("live") \in StoredRow /\ row("trashed") \in StoredRow
      BY <2>1 DEF StoredRow
    <2>3. SoftDeleteAnswer(tbl, i, w) \in {tbl, [tbl EXCEPT ![i] = row("trashed")]}
      BY <2>1 DEF SoftDeleteAnswer, StoredRow
    <2>4. RestoreAnswer(tbl, i, w) \in {tbl, [tbl EXCEPT ![i] = row("live")]}
      BY <2>1 DEF RestoreAnswer, StoredRow
    <2>5. HardDeleteAnswer(tbl, i) \in [AnswerIds -> AnswerRow]
      BY DEF HardDeleteAnswer, AnswerRow
    <2> QED
      BY <2>2, <2>3, <2>4, <2>5, ReplaceRow
  <1>2. CASE ~Stored(tbl, i)
    BY <1>2 DEF SoftDeleteAnswer, RestoreAnswer, HardDeleteAnswer, Stored
  <1> QED
    BY <1>1, <1>2

-------------------------------------------------------------------------------
(***************************************************************************)
(* Type correctness.  TypeOK alone is not inductive: a statement writes    *)
(* the project, id and identity its request carries, which are never NULL  *)
(* at the statements that use them.                                        *)
(***************************************************************************)

SlotOK(r) ==
    /\ r \in Slot
    /\ r.pc \in {"partner", "survey", "resume", "insert"} =>
           r.proj \in Projects /\ r.who \in Identities
    /\ r.pc \in {"import", "projectUpdate", "projectDelete"} => r.proj \in Projects
    /\ r.pc \in {"resume", "edit", "deleteWrite"} => r.id \in AnswerIds

Typed == TypeOK /\ \A s \in Callers : SlotOK(slot[s])

LEMMA IdleOK == SlotOK(Idle)
  BY FlowAssumption DEF SlotOK, Idle, Slot, Statement

\* A caller moves to a well-formed request and the others stay where they are.
LEMMA GotoOK ==
    ASSUME Typed, NEW s \in Callers, NEW r, SlotOK(r), Goto(s, r)
    PROVE  /\ slot' \in [Callers -> Slot]
           /\ \A q \in Callers : SlotOK(slot'[q])
  <1>1. slot \in [Callers -> Slot] /\ \A q \in Callers : SlotOK(slot[q])
    BY DEF Typed, TypeOK
  <1>2. r \in Slot
    BY DEF SlotOK
  <1>3. slot' = [slot EXCEPT ![s] = r]
    BY DEF Goto
  <1> QED
    BY <1>1, <1>2, <1>3

LEMMA FinishOK ==
    ASSUME Typed, NEW s \in Callers, Finish(s)
    PROVE  /\ slot' \in [Callers -> Slot]
           /\ \A q \in Callers : SlotOK(slot'[q])
  BY IdleOK, GotoOK DEF Finish, Goto

\* Steps that touch nothing but the caller's request.
LEMMA SlotStepTyped ==
    ASSUME Typed, slot' \in [Callers -> Slot],
           \A q \in Callers : SlotOK(slot'[q]),
           UNCHANGED <<dbVars, held, histVars>>
    PROVE  Typed'
  BY DEF Typed, TypeOK, ProjectTypeOK, dbVars, histVars

LEMMA SubmitStartsTyped ==
    ASSUME Typed, NEW c \in Callers, NEW rt \in {"sk", "rest"},
           NEW t \in Uids \cup {None}, NEW p \in Projects,
           NEW i \in AnswerIds \cup {None}, StartSubmit(c, rt, t, p, i)
    PROVE  Typed'
  <1> DEFINE r == [pc |-> IF t = None THEN "survey" ELSE "partner", route |-> rt,
                   token |-> t, proj |-> p, id |-> i, who |-> DefaultCreator,
                   snap |-> None, todo |-> {}, made |-> 0]
  <1>1. SlotOK(r)
    BY FlowAssumption DEF SlotOK, Slot, Statement, Identities, DefaultCreator
  <1>2. Goto(c, r) /\ UNCHANGED <<dbVars, held, histVars>>
    BY DEF StartSubmit
  <1> QED
    BY <1>1, <1>2, GotoOK, SlotStepTyped

LEMMA PartnerIdentityType ==
    ASSUME Typed, NEW q \in Partners
    PROVE  PartnerIdentity(q) \in Identities
  BY DEF Typed, TypeOK, PartnerRow, PartnerIdentity, Identities

LEMMA LookupTyped ==
    ASSUME Typed, NEW c \in Callers, LookupPartnerStrict(c) \/ LookupPartnerLenient(c)
    PROVE  Typed'
  <1> DEFINE r == slot[c]
  <1>1. SlotOK(r) /\ r.pc = "partner"
    BY DEF Typed, LookupPartnerStrict, LookupPartnerLenient
  <1>2. SlotOK([r EXCEPT !.pc = "survey"])
    BY <1>1 DEF SlotOK, Slot, Statement
  <1>3. ASSUME NEW w \in Identities
        PROVE  SlotOK([r EXCEPT !.pc = "survey", !.who = w])
    BY <1>1 DEF SlotOK, Slot, Statement
  <1>4. \/ Finish(c)
        \/ Goto(c, [r EXCEPT !.pc = "survey"])
        \/ \E w \in Identities : Goto(c, [r EXCEPT !.pc = "survey", !.who = w])
    BY PartnerIdentityType DEF LookupPartnerStrict, LookupPartnerLenient, PartnersWith
  <1>5. UNCHANGED <<dbVars, held, histVars>>
    BY DEF LookupPartnerStrict, LookupPartnerLenient
  <1> QED
    BY <1>2, <1>3, <1>4, <1>5, FinishOK, GotoOK, SlotStepTyped

LEMMA GetPublicTyped ==
    ASSUME Typed, NEW s \in Callers, GetPublic(s)
    PROVE  Typed'
  <1> DEFINE r == slot[s]
             n == [r EXCEPT !.pc = IF r.id = None THEN "insert" ELSE "resume",
                            !.snap = project[r.proj].survey]
  <1>1. SlotOK(r) /\ r.pc = "survey"
    BY DEF Typed, GetPublic
  <1>2. project[r.proj].survey \in Surveys \cup {None}
    BY <1>1 DEF Typed, TypeOK, ProjectTypeOK, ProjectRow, SlotOK
  <1>3. SlotOK(n)
    BY <1>1, <1>2 DEF SlotOK, Slot, Statement
  <1>4. /\ Finish(s) \/ Goto(s, n)
        /\ UNCHANGED <<dbVars, held, histVars>>
    BY DEF GetPublic
  <1> QED
    BY <1>3, <1>4, FinishOK, GotoOK, SlotStepTyped

\* Steps of one caller that change t_answer and its history.
LEMMA AnswerStepTyped ==
    ASSUME Typed, answer' \in [AnswerIds -> AnswerRow],
           slot' \in [Callers -> Slot], \A q \in Callers : SlotOK(slot'[q]),
           held' \in [Clients -> [Projects -> AnswerIds \cup {None}]],
           author' \in [AnswerIds -> Callers \cup {None}],
           everTrashed' \subseteq AnswerIds, excused' \subseteq Clients \X Projects,
           UNCHANGED <<project, published, partner, issued>>
    PROVE  Typed'
  BY DEF Typed, TypeOK, ProjectTypeOK

LEMMA DeliverTyped ==
    ASSUME Typed, NEW s \in Callers, NEW p \in Projects, NEW i \in AnswerIds,
           Deliver(s, p, i) \/ UNCHANGED held
    PROVE  held' \in [Clients -> [Projects -> AnswerIds \cup {None}]]
  <1>1. held \in [Clients -> [Projects -> AnswerIds \cup {None}]]
    BY DEF Typed, TypeOK
  <1>2. ASSUME s \in Clients
        PROVE  [held EXCEPT ![s][p] = i] \in [Clients -> [Projects -> AnswerIds \cup {None}]]
    BY <1>1, <1>2
  <1> QED
    BY <1>1, <1>2 DEF Deliver

LEMMA ResumeTyped ==
    ASSUME Typed, NEW s \in Callers, ResumeAnswer(s)
    PROVE  Typed'
  <1> DEFINE r == slot[s]
  <1>1. SlotOK(r) /\ r.pc = "resume"
    BY DEF Typed, ResumeAnswer
  <1>2. /\ r.proj \in Projects /\ r.id \in AnswerIds /\ r.who \in Identities
        /\ r.snap \in Surveys \cup {None}
    BY <1>1 DEF SlotOK, Slot
  <1>3. answer \in [AnswerIds -> AnswerRow]
    BY DEF Typed, TypeOK
  <1>4. SlotOK([r EXCEPT !.pc = "insert"])
    BY <1>1 DEF SlotOK, Slot, Statement
  <1>5. Finish(s) \/ Goto(s, [r EXCEPT !.pc = "insert"])
    BY DEF ResumeAnswer
  <1>6. answer' \in [AnswerIds -> AnswerRow]
    <2>1. \/ answer' = answer
          \/ \E x \in Contents :
                answer' = UpdateAnswerInPlace(answer, r.id, r.proj, r.who, r.snap, x, r.who)
      BY DEF ResumeAnswer
    <2>2. ASSUME NEW x \in Contents
          PROVE  UpdateAnswerInPlace(answer, r.id, r.proj, r.who, r.snap, x, r.who)
                     \in [AnswerIds -> AnswerRow]
      BY <1>2, <1>3, UpdateInPlaceType
    <2> QED
      BY <1>3, <2>1, <2>2
  <1>7. held' \in [Clients -> [Projects -> AnswerIds \cup {None}]]
    BY <1>2, DeliverTyped DEF ResumeAnswer
  <1>8. UNCHANGED <<project, published, partner, histVars>>
    BY DEF ResumeAnswer
  <1>9. /\ author' \in [AnswerIds -> Callers \cup {None}]
        /\ everTrashed' \subseteq AnswerIds /\ excused' \subseteq Clients \X Projects
    BY <1>8 DEF Typed, TypeOK, histVars
  <1>10. UNCHANGED <<project, published, partner, issued>>
    BY <1>8 DEF histVars
  <1> QED
    BY <1>4, <1>5, <1>6, <1>7, <1>9, <1>10, FinishOK, GotoOK, AnswerStepTyped

LEMMA InsertTyped ==
    ASSUME Typed, NEW s \in Callers, InsertAnswer(s)
    PROVE  Typed'
  <1> DEFINE r == slot[s]
  <1>1. SlotOK(r) /\ r.pc = "insert"
    BY DEF Typed, InsertAnswer
  <1>2. /\ r.proj \in Projects /\ r.who \in Identities
        /\ r.snap \in Surveys \cup {None}
    BY <1>1 DEF SlotOK, Slot
  <1>3. PICK i \in AnswerIds, x \in Contents :
           /\ answer' = CreateAnswer(answer, i, r.proj, r.snap, x, r.who)
           /\ author' = [author EXCEPT ![i] = s]
           /\ Deliver(s, r.proj, i) \/ UNCHANGED held
    BY DEF InsertAnswer, Snapshot
  <1>4. /\ answer \in [AnswerIds -> AnswerRow]
        /\ author \in [AnswerIds -> Callers \cup {None}]
        /\ everTrashed \subseteq AnswerIds /\ excused \subseteq Clients \X Projects
    BY DEF Typed, TypeOK
  <1>5. answer' \in [AnswerIds -> AnswerRow]
    BY <1>2, <1>3, <1>4, CreateAnswerType
  <1>6. author' \in [AnswerIds -> Callers \cup {None}]
    BY <1>3, <1>4
  <1>7. held' \in [Clients -> [Projects -> AnswerIds \cup {None}]]
    BY <1>2, <1>3, DeliverTyped
  <1>8. excused' \subseteq Clients \X Projects
    BY <1>4 DEF InsertAnswer
  <1>9. UNCHANGED <<project, published, partner, issued>> /\ everTrashed' = everTrashed
    BY DEF InsertAnswer
  <1>10. Finish(s)
    BY DEF InsertAnswer
  <1> QED
    BY <1>4, <1>5, <1>6, <1>7, <1>8, <1>9, <1>10, FinishOK, AnswerStepTyped

LEMMA AdminUpdateTyped ==
    ASSUME Typed, NEW a \in Admins, SKAnswerUpdate(a) \/ AdminUpdateWrite(a)
    PROVE  Typed'
  <1> DEFINE r == slot[a]
  <1>1. a \in Callers /\ a \in Identities
    BY DEF Callers, Identities
  <1>2. answer \in [AnswerIds -> AnswerRow]
    BY DEF Typed, TypeOK
  <1>3. ASSUME SKAnswerUpdate(a) PROVE Typed'
    <2>1. PICK i \in AnswerIds :
             /\ answer[i].state = "live"
             /\ Goto(a, [Idle EXCEPT !.pc = "edit", !.id = i,
                                     !.proj = answer[i].project,
                                     !.who = Creator(answer[i])])
      BY <1>3 DEF SKAnswerUpdate
    <2>2. answer[i] \in StoredRow
      BY <1>2, <2>1, StoredIsStoredRow DEF Stored
    <2>3. answer[i].project \in Projects /\ Creator(answer[i]) \in Identities
      BY <2>2 DEF StoredRow, Creator, Identities
    <2>4. ASSUME NEW p \in Projects, NEW w \in Identities
          PROVE  SlotOK([Idle EXCEPT !.pc = "edit", !.id = i, !.proj = p, !.who = w])
      BY IdleOK DEF SlotOK, Slot, Statement
    <2> QED
      BY <1>1, <1>3, <2>1, <2>3, <2>4, GotoOK, SlotStepTyped DEF SKAnswerUpdate
  <1>4. ASSUME AdminUpdateWrite(a) PROVE Typed'
    <2>1. SlotOK(r) /\ r.pc = "edit"
      BY <1>1, <1>4 DEF Typed, AdminUpdateWrite
    <2>2. SlotOK([r EXCEPT !.pc = "editAcked"])
      BY <2>1 DEF SlotOK, Slot, Statement
    <2>3. answer' \in [AnswerIds -> AnswerRow]
      BY <1>1, <1>2, <1>4, <2>1, UpdateInPlaceType DEF AdminUpdateWrite, SlotOK
    <2>4. UNCHANGED <<project, published, partner, held, histVars>>
      BY <1>4 DEF AdminUpdateWrite
    <2>5. /\ held' \in [Clients -> [Projects -> AnswerIds \cup {None}]]
          /\ author' \in [AnswerIds -> Callers \cup {None}]
          /\ everTrashed' \subseteq AnswerIds /\ excused' \subseteq Clients \X Projects
      BY <2>4 DEF Typed, TypeOK, histVars
    <2> QED
      BY <1>1, <1>4, <2>2, <2>3, <2>4, <2>5, GotoOK, AnswerStepTyped
         DEF AdminUpdateWrite, histVars
  <1> QED
    BY <1>3, <1>4

\* The batch loop keeps going with a part of the ids it started with.
LEMMA NextInBatchOK ==
    ASSUME Typed, NEW a \in Callers, NEW op \in {"delete", "restore", "destroy"},
           NEW i, NextInBatch(a, op, i)
    PROVE  /\ slot' \in [Callers -> Slot]
           /\ \A q \in Callers : SlotOK(slot'[q])
  <1> DEFINE rest == slot[a].todo \ {i}
  <1>1. rest \in SUBSET AnswerIds
    BY DEF Typed, SlotOK, Slot
  <1>2. SlotOK([Idle EXCEPT !.pc = op, !.todo = rest])
    BY <1>1, IdleOK DEF SlotOK, Slot, Statement
  <1>3. Finish(a) \/ Goto(a, [Idle EXCEPT !.pc = op, !.todo = rest])
    BY DEF NextInBatch
  <1> QED
    BY <1>2, <1>3, FinishOK, GotoOK

LEMMA BatchTyped ==
    ASSUME Typed, NEW a \in Admins,
           \/ \E op \in {"delete", "restore", "destroy"} : StartAnswerBatch(a, op)
           \/ SoftDeleteLoad(a)
           \/ SoftDeleteWrite(a)
           \/ RestoreAnswerStep(a)
           \/ DestroyAnswerStep(a)
    PROVE  Typed'
  <1>1. a \in Callers /\ a \in Identities
    BY DEF Callers, Identities
  <1>2. /\ answer \in [AnswerIds -> AnswerRow]
        /\ held \in [Clients -> [Projects -> AnswerIds \cup {None}]]
        /\ author \in [AnswerIds -> Callers \cup {None}]
        /\ everTrashed \subseteq AnswerIds /\ excused \subseteq Clients \X Projects
    BY DEF Typed, TypeOK
  <1>3. SlotOK(slot[a]) /\ slot[a].todo \subseteq AnswerIds
    BY <1>1 DEF Typed, SlotOK, Slot
  <1>4. ASSUME NEW op \in {"delete", "restore", "destroy"}, StartAnswerBatch(a, op)
        PROVE  Typed'
    <2>1. PICK ids \in SUBSET AnswerIds : Goto(a, [Idle EXCEPT !.pc = op, !.todo = ids])
      BY <1>4 DEF StartAnswerBatch
    <2>2. SlotOK([Idle EXCEPT !.pc = op, !.todo = ids])
      BY IdleOK DEF SlotOK, Slot, Statement
    <2> QED
      BY <1>1, <1>4, <2>1, <2>2, GotoOK, SlotStepTyped DEF StartAnswerBatch
  <1>5. ASSUME SoftDeleteLoad(a) PROVE Typed'
    <2>1. ASSUME NEW i \in AnswerIds
          PROVE  SlotOK([slot[a] EXCEPT !.pc = "deleteWrite", !.id = i])
      BY <1>3 DEF SlotOK, Slot, Statement
    <2>2. PICK i \in AnswerIds :
             \/ Goto(a, [slot[a] EXCEPT !.pc = "deleteWrite", !.id = i])
             \/ NextInBatch(a, "delete", i)
      BY <1>3, <1>5 DEF SoftDeleteLoad
    <2>3. UNCHANGED <<dbVars, held, histVars>>
      BY <1>5 DEF SoftDeleteLoad
    <2> QED
      BY <1>1, <2>1, <2>2, <2>3, GotoOK, NextInBatchOK, SlotStepTyped
  <1>6. ASSUME SoftDeleteWrite(a) PROVE Typed'
    <2> DEFINE i == slot[a].id
    <2>1. i \in AnswerIds
      BY <1>3, <1>6 DEF SoftDeleteWrite, SlotOK
    <2>2. /\ answer' = SoftDeleteAnswer(answer, i, a)
          /\ everTrashed' = everTrashed \cup {i}
          /\ NextInBatch(a, "delete", i)
          /\ UNCHANGED <<project, published, partner, held, author, issued, excused>>
      BY <1>6 DEF SoftDeleteWrite
    <2>3. answer' \in [AnswerIds -> AnswerRow]
      BY <1>1, <1>2, <2>1, <2>2, TrashTypes
    <2> QED
      BY <1>1, <1>2, <2>1, <2>2, <2>3, NextInBatchOK, AnswerStepTyped
  <1>7. ASSUME RestoreAnswerStep(a) PROVE Typed'
    <2>1. PICK i \in AnswerIds :
             answer' = RestoreAnswer(answer, i, a) /\ NextInBatch(a, "restore", i)
      BY <1>3, <1>7 DEF RestoreAnswerStep
    <2>2. UNCHANGED <<project, published, partner, held, author, issued, everTrashed, excused>>
      BY <1>7 DEF RestoreAnswerStep, histVars
    <2>3. answer' \in [AnswerIds -> AnswerRow]
      BY <1>1, <1>2, <2>1, TrashTypes
    <2> QED
      BY <1>1, <1>2, <2>1, <2>2, <2>3, NextInBatchOK, AnswerStepTyped
  <1>8. ASSUME DestroyAnswerStep(a) PROVE Typed'
    <2>1. PICK i \in AnswerIds :
             /\ answer' = HardDeleteAnswer(answer, i)
             /\ everTrashed' \subseteq everTrashed \cup {i}
             /\ NextInBatch(a, "destroy", i)
      BY <1>3, <1>8 DEF DestroyAnswerStep
    <2>2. UNCHANGED <<project, published, partner, held, author, issued, excused>>
      BY <1>8 DEF DestroyAnswerStep
    <2>3. answer' \in [AnswerIds -> AnswerRow]
      BY <1>1, <1>2, <2>1, TrashTypes
    <2> QED
      BY <1>1, <1>2, <2>1, <2>2, <2>3, NextInBatchOK, AnswerStepTyped
  <1> QED
    BY <1>4, <1>5, <1>6, <1>7, <1>8

LEMMA ImportTyped ==
    ASSUME Typed, NEW a \in Admins,
           SKAnswerUpload(a) \/ ImportRow(a) \/ ImportDone(a) \/ ImportAborts(a) \/ Respond(a)
    PROVE  Typed'
  <1> DEFINE r == slot[a]
  <1>1. a \in Callers /\ a \in Identities
    BY DEF Callers, Identities
  <1>2. SlotOK(r)
    BY <1>1 DEF Typed
  <1>3. ASSUME SKAnswerUpload(a) PROVE Typed'
    <2>1. ASSUME NEW p \in Projects
          PROVE  SlotOK([Idle EXCEPT !.pc = "import", !.proj = p])
      BY IdleOK DEF SlotOK, Slot, Statement
    <2> QED
      BY <1>1, <1>3, <2>1, GotoOK, SlotStepTyped DEF SKAnswerUpload
  <1>4. ASSUME ImportRow(a) PROVE Typed'
    <2>1. PICK i \in AnswerIds, x \in Contents :
             /\ answer' = CreateAnswer(answer, i, r.proj, None, x, a)
             /\ author' = [author EXCEPT ![i] = a]
      BY <1>4 DEF ImportRow
    <2>2. /\ r.pc = "import" /\ r.made < MaxImport
          /\ Goto(a, [r EXCEPT !.made = @ + 1])
          /\ UNCHANGED <<project, published, partner, held, issued, everTrashed, excused>>
      BY <1>4 DEF ImportRow
    <2>3. r.proj \in Projects
      BY <1>2, <2>2 DEF SlotOK
    <2>4. SlotOK([r EXCEPT !.made = @ + 1])
      BY <1>2, <2>2, FlowAssumption DEF SlotOK, Slot, Statement
    <2>5. /\ answer \in [AnswerIds -> AnswerRow]
          /\ held \in [Clients -> [Projects -> AnswerIds \cup {None}]]
          /\ author \in [AnswerIds -> Callers \cup {None}]
          /\ everTrashed \subseteq AnswerIds /\ excused \subseteq Clients \X Projects
      BY DEF Typed, TypeOK
    <2>6. answer' \in [AnswerIds -> AnswerRow]
      BY <1>1, <2>1, <2>3, <2>5, CreateAnswerType
    <2>7. author' \in [AnswerIds -> Callers \cup {None}]
      BY <1>1, <2>1, <2>5
    <2> QED
      BY <1>1, <2>2, <2>4, <2>5, <2>6, <2>7, GotoOK, AnswerStepTyped
  <1>5. ASSUME ImportDone(a) \/ Respond(a) PROVE Typed'
    BY <1>1, <1>5, FinishOK, SlotStepTyped DEF ImportDone, Respond
  <1>6. ASSUME ImportAborts(a) PROVE Typed'
    <2>1. SlotOK([r EXCEPT !.pc = "importRejected"])
      BY <1>2 DEF SlotOK, Slot, Statement
    <2> QED
      BY <1>1, <1>6, <2>1, GotoOK, SlotStepTyped DEF ImportAborts
  <1> QED
    BY <1>3, <1>4, <1>5, <1>6

LEMMA ProjectTyped ==
    ASSUME Typed, NEW a \in Admins,
           \/ ProjectCreate(a)
           \/ ProjectLoad(a, "projectUpdate") \/ ProjectLoad(a, "projectDelete")
           \/ ProjectUpdateWrite(a)
           \/ ProjectDeleteWrite(a)
           \/ ProjectRestore(a)
           \/ ProjectDestroy(a)
    PROVE  Typed'
  <1>1. a \in Callers /\ SlotOK(slot[a]) /\ ProjectTypeOK
    BY DEF Callers, Typed, TypeOK
  <1>2. ASSUME NEW op \in {"projectUpdate", "projectDelete"}, ProjectLoad(a, op)
        PROVE  Typed'
    <2>1. ASSUME NEW p \in Projects
          PROVE  SlotOK([Idle EXCEPT !.pc = op, !.proj = p])
      BY IdleOK DEF SlotOK, Slot, Statement
    <2> QED
      BY <1>1, <1>2, <2>1, GotoOK, SlotStepTyped DEF ProjectLoad
  <1>3. ASSUME ProjectTypeOK', slot' \in [Callers -> Slot],
               \A q \in Callers : SlotOK(slot'[q]),
               UNCHANGED <<answer, partner, held, histVars>>
        PROVE  Typed'
    BY <1>3 DEF Typed, TypeOK, histVars
  <1>4. ASSUME ProjectUpdateWrite(a) \/ ProjectDeleteWrite(a) PROVE Typed'
    <2>1. slot[a].proj \in Projects
      BY <1>1, <1>4 DEF SlotOK, ProjectUpdateWrite, ProjectDeleteWrite
    <2>2. /\ Finish(a) /\ UNCHANGED <<answer, partner, held, histVars>>
          /\ \E st \in {0, 1}, sv \in Surveys \cup {None} :
                \/ UpdateProject(slot[a].proj, st, sv)
                \/ SoftDeleteProject(slot[a].proj)
      BY <1>4 DEF ProjectUpdateWrite, ProjectDeleteWrite
    <2>3. ProjectTypeOK'
      BY <1>1, <2>1, <2>2, ProjectStatementTypes
    <2> QED
      BY <1>1, <1>3, <2>2, <2>3, FinishOK
  <1>5. ASSUME ProjectCreate(a) \/ ProjectRestore(a) \/ ProjectDestroy(a) PROVE Typed'
    <2>1. \E p \in Projects, st \in {0, 1}, sv \in Surveys \cup {None} :
              \/ CreateProject(p, st, sv)
              \/ RestoreProject(p)
              \/ HardDeleteProject(p)
      BY <1>5 DEF ProjectCreate, ProjectRestore, ProjectDestroy
    <2>2. UNCHANGED <<answer, partner, held, histVars>> /\ slot' = slot
      BY <1>5 DEF ProjectCreate, ProjectRestore, ProjectDestroy
    <2>3. ProjectTypeOK'
      BY <1>1, <2>1, ProjectStatementTypes
    <2> QED
      BY <1>3, <2>2, <2>3 DEF Typed, TypeOK
  <1> QED
    BY <1>2, <1>4, <1>5

LEMMA PartnerTyped ==
    ASSUME Typed, NEW a \in Admins, PartnerCreate(a) \/ PartnerDelete(a)
    PROVE  Typed'
  <1>1. partner' \in [Partners -> PartnerRow]
    BY DEF Typed, TypeOK, PartnerRow, RowState, BlankPartner, PartnerCreate, PartnerDelete
  <1>2. issued' \subseteq Projects \X Identities
    BY DEF Typed, TypeOK, Identities, PartnerCreate, PartnerDelete, histVars
  <1>3. UNCHANGED <<project, published, answer, slot, held, author, everTrashed, excused>>
    BY DEF PartnerCreate, PartnerDelete, histVars
  <1> QED
    BY <1>1, <1>2, <1>3 DEF Typed, TypeOK, ProjectTypeOK

(***************************************************************************)
(* One name per kind of step; every later proof splits on it.              *)
(***************************************************************************)
LEMMA NextCases ==
    ASSUME Typed, Next
    PROVE  \/ \E c \in Callers, rt \in {"sk", "rest"}, u \in Uids \cup {None},
                 p \in Projects, i \in AnswerIds \cup {None} :
                    /\ StartSubmit(c, rt, u, p, i)
                    /\ rt = "rest" => i = None
                    /\ c \in Browsers => rt = "sk" /\ i = held[c][p]
           \/ \E s \in Callers : \/ LookupPartnerStrict(s)
                                 \/ LookupPartnerLenient(s)
                                 \/ GetPublic(s)
                                 \/ ResumeAnswer(s)
                                 \/ InsertAnswer(s)
                                 \/ RequestFails(s)
           \/ \E a \in Admins : \/ SKAnswerUpdate(a)
                                \/ AdminUpdateWrite(a)
                                \/ \E op \in {"delete", "restore", "destroy"} :
                                      StartAnswerBatch(a, op)
                                \/ SoftDeleteLoad(a)
                                \/ SoftDeleteWrite(a)
                                \/ RestoreAnswerStep(a)
                                \/ DestroyAnswerStep(a)
                                \/ SKAnswerUpload(a)
                                \/ ImportRow(a)
                                \/ ImportDone(a)
                                \/ ImportAborts(a)
                                \/ Respond(a)
                                \/ ProjectCreate(a)
                                \/ ProjectLoad(a, "projectUpdate")
                                \/ ProjectLoad(a, "projectDelete")
                                \/ ProjectUpdateWrite(a)
                                \/ ProjectDeleteWrite(a)
                                \/ ProjectRestore(a)
                                \/ ProjectDestroy(a)
                                \/ PartnerCreate(a)
                                \/ PartnerDelete(a)
  <1>1. PICK s \in Callers : Arrive(s) \/ Step(s)
    BY DEF Next
  <1>2. CASE Step(s)
    BY <1>2 DEF Step
  <1>3. CASE s \in Clients /\ (SKSaveAnswer(s) \/ RestSubmitAnswer(s))
    BY <1>3 DEF SKSaveAnswer, RestSubmitAnswer
  <1>4. CASE s \in Admins /\ SKAnswerCreate(s)
    <2>1. s \notin Browsers
      BY <1>4, FlowAssumption
    <2> QED
      BY <1>4, <2>1 DEF SKAnswerCreate
  <1> QED
    BY <1>1, <1>2, <1>3, <1>4 DEF Arrive

(***************************************************************************)
(* The inductive form: no statement is ever issued with a NULL project, id *)
(* or identity where the handler has checked for one.                      *)
(***************************************************************************)
THEOREM AlwaysTyped == Spec => []Typed
  <1>1. Init => Typed
    <2> SUFFICES ASSUME Init PROVE Typed
      OBVIOUS
    <2>1. TypeOK
      BY IdleOK DEF Init, TypeOK, ProjectInit, ProjectTypeOK, ProjectRow, RowState,
         BlankProject, AnswerRow, PartnerRow, BlankPartner, SlotOK
    <2> QED
      BY <2>1, IdleOK DEF Init, Typed
  <1>2. Typed /\ [Next]_vars => Typed'
    <2> SUFFICES ASSUME Typed, [Next]_vars PROVE Typed'
      OBVIOUS
    <2>1. CASE Next
      <3>1. ASSUME NEW s \in Callers, RequestFails(s) PROVE Typed'
        BY <3>1, FinishOK, SlotStepTyped DEF RequestFails
      <3> QED
        BY <2>1, <3>1, NextCases, SubmitStartsTyped, LookupTyped, GetPublicTyped,
           ResumeTyped, InsertTyped, AdminUpdateTyped, BatchTyped, ImportTyped,
           ProjectTyped, PartnerTyped
    <2>2. CASE UNCHANGED vars
      BY <2>2 DEF vars, Typed, TypeOK, ProjectTypeOK
    <2> QED
      BY <2>1, <2>2
  <1> QED
    BY <1>1, <1>2, PTL DEF Spec

(***************************************************************************)
(* Every table, request and history variable keeps its type: in particular *)
(* a stored answer always has a project, a creator and contents, and a     *)
(* purged one leaves nothing behind.                                       *)
(***************************************************************************)
THEOREM TypeCorrect == Spec => []TypeOK
  <1>1. Typed => TypeOK
    BY DEF Typed
  <1> QED
    BY <1>1, AlwaysTyped, PTL
=============================================================================

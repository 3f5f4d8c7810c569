--------------------------- MODULE AnswerFlowSafety ---------------------------
(***************************************************************************)
(* The safety properties of AnswerFlow as theorems: inductive              *)
(* strengthenings and the proofs that every step of every request keeps    *)
(* them.                                                                   *)
(***************************************************************************)
EXTENDS AnswerFlowProofs

-------------------------------------------------------------------------------
(***************************************************************************)
(* The inductive strengthenings.                                           *)
(***************************************************************************)

Saving == {"partner", "survey", "resume", "insert"}

\* What GetPublic can return, and what a request holds of it, was published.
SnapshotInv ==
    /\ SnapshotWasPublished
    /\ \A p \in Projects :
           Open(p) /\ project[p].survey # None => <<p, project[p].survey>> \in published
    /\ \A s \in Callers :
           slot[s].pc \in {"resume", "insert"} /\ slot[s].snap # None =>
               <<slot[s].proj, slot[s].snap>> \in published

\* A partner identity reaches the resume path only through a token of the project.
IssuedInv ==
    /\ \A q \in Partners :
           partner[q].state = "live" => <<partner[q].project, PartnerIdentity(q)>> \in issued
    /\ \A s \in Callers :
           LET r == slot[s] IN
           /\ r.pc = "partner" => r.who = Guest
           /\ r.pc \in {"partner", "survey"} /\ r.route = "rest" => r.id = None
           /\ r.pc = "resume" => r.route = "sk"
           /\ /\ r.pc \in {"survey", "resume"} /\ r.route = "sk"
              /\ r.who # Guest
              => <<r.proj, r.who>> \in issued

\* A browser always offers the one row it made that was never trashed.
PileUpInv ==
    /\ \A i \in AnswerIds :
           /\ answer[i].state = "unused" => author[i] = None
           /\ answer[i].state \in {"trashed", "destroyed"} => i \in everTrashed
    /\ \A c \in Browsers, p \in Projects, i \in AnswerIds \ everTrashed :
           /\ author[i] = c /\ answer[i].project = p /\ <<c, p>> \notin excused
           => held[c][p] = i
    /\ \A c \in Browsers :
           LET r == slot[c] IN
           /\ r.pc \in Saving => r.id = held[c][r.proj]
           /\ r.pc = "insert" /\ r.id # None =>
                  r.id \in everTrashed \/ IdentityChanged(r)

-------------------------------------------------------------------------------
(***************************************************************************)
(* What one step can do to one row of t_answer.                            *)
(***************************************************************************)

SameOwner(i) ==
    answer'[i].project = answer[i].project /\ answer'[i].createBy = answer[i].createBy

\* Submit's insert.
Inserted(s, i) ==
    /\ InsertAnswer(s) /\ slot[s].pc = "insert"
    /\ answer[i].state = "unused"
    /\ answer'[i].state = "live"
    /\ answer'[i].project = slot[s].proj
    /\ answer'[i].survey = slot[s].snap
    /\ answer'[i].createBy = slot[s].who
    /\ answer'[i].updateBy = None

\* Submit's update of the caller's own row.
Resumed(s, i) ==
    /\ slot[s].pc = "resume" /\ slot[s].id = i
    /\ InPlaceMatches(answer, i, slot[s].proj, slot[s].who)
    /\ answer'[i].state = "live"
    /\ SameOwner(i)
    /\ answer'[i].survey = IF slot[s].snap = None THEN answer[i].survey ELSE slot[s].snap
    /\ answer'[i].updateBy = slot[s].who

\* One row of an upload.
Imported(a, i) ==
    /\ ImportRow(a)
    /\ answer[i].state = "unused"
    /\ answer'[i].state = "live"
    /\ answer'[i].survey = None
    /\ answer'[i].createBy = a
    /\ answer'[i].updateBy = None

\* AdminUpdate's write.
Edited(a, i) ==
    /\ answer[i].state = "live" /\ answer'[i].state = "live"
    /\ SameOwner(i)
    /\ answer'[i].survey = answer[i].survey
    /\ answer'[i].updateBy = a

\* Into the trash or out of it.
Moved(a, i) ==
    /\ Stored(answer, i) /\ Stored(answer', i)
    /\ answer'[i].state = "trashed" => i \in everTrashed'
    /\ SameOwner(i)
    /\ answer'[i].survey = answer[i].survey
    /\ answer'[i].content = answer[i].content
    /\ answer'[i].updateBy = a

Purged(i) ==
    /\ Stored(answer, i)
    /\ answer'[i] = BlankAnswer("destroyed")
    /\ i \in everTrashed'

LEMMA UpdateInPlaceRow ==
    ASSUME NEW tbl \in [AnswerIds -> AnswerRow], NEW j \in AnswerIds, NEW p, NEW by,
           NEW sv, NEW x, NEW w, NEW i \in AnswerIds
    PROVE  LET new == UpdateAnswerInPlace(tbl, j, p, by, sv, x, w)[i] IN
           \/ new = tbl[i]
           \/ /\ i = j /\ InPlaceMatches(tbl, i, p, by)
              /\ new.state = "live"
              /\ new.project = tbl[i].project
              /\ new.createBy = tbl[i].createBy
              /\ new.survey = (IF sv = None THEN tbl[i].survey ELSE sv)
              /\ new.updateBy = w
  <1>1. CASE i = j /\ InPlaceMatches(tbl, j, p, by)
    <2>1. tbl[i] \in StoredRow /\ tbl[i].state = "live"
      BY <1>1, StoredIsStoredRow DEF InPlaceMatches, Stored
    <2>2. UpdateAnswerInPlace(tbl, j, p, by, sv, x, w)[i]
              = [tbl[i] EXCEPT !.survey = IF sv = None THEN @ ELSE sv,
                               !.content = x, !.updateBy = w]
      BY <1>1 DEF UpdateAnswerInPlace
    <2> QED
      BY <1>1, <2>1, <2>2 DEF StoredRow
  <1>2. CASE ~(i = j /\ InPlaceMatches(tbl, j, p, by))
    BY <1>2 DEF UpdateAnswerInPlace
  <1> QED
    BY <1>1, <1>2

LEMMA SaveRow ==
    ASSUME Typed, NEW s \in Callers, ResumeAnswer(s) \/ InsertAnswer(s), NEW i \in AnswerIds
    PROVE  answer'[i] = answer[i] \/ Inserted(s, i) \/ Resumed(s, i)
  <1> DEFINE r == slot[s]
  <1>1. answer \in [AnswerIds -> AnswerRow]
    BY DEF Typed, TypeOK
  <1>2. CASE ResumeAnswer(s)
    <2>1. r.pc = "resume" /\ r.id \in AnswerIds
      BY <1>2 DEF ResumeAnswer, Typed, SlotOK
    <2>2. \/ answer' = answer
          \/ \E x \in Contents :
                answer' = UpdateAnswerInPlace(answer, r.id, r.proj, r.who, r.snap, x, r.who)
      BY <1>2 DEF ResumeAnswer
    <2>3. ASSUME NEW x,
                 answer' = UpdateAnswerInPlace(answer, r.id, r.proj, r.who, r.snap, x, r.who)
          PROVE  answer'[i] = answer[i] \/ Resumed(s, i)
      BY <1>1, <2>1, <2>3, UpdateInPlaceRow DEF Resumed, SameOwner
    <2> QED
      BY <2>2, <2>3
  <1>3. CASE InsertAnswer(s)
    <2>1. PICK j \in AnswerIds, x \in Contents :
             /\ answer[j].state = "unused"
             /\ answer' = CreateAnswer(answer, j, r.proj, r.snap, x, r.who)
      BY <1>3 DEF InsertAnswer, FreshId, Snapshot
    <2>2. r.pc = "insert"
      BY <1>3 DEF InsertAnswer
    <2> QED
      BY <1>1, <1>3, <2>1, <2>2 DEF CreateAnswer, Inserted
  <1> QED
    BY <1>2, <1>3

LEMMA OperatorRow ==
    ASSUME Typed, NEW a \in Admins, NEW i \in AnswerIds,
           \/ AdminUpdateWrite(a) \/ SoftDeleteWrite(a) \/ RestoreAnswerStep(a)
           \/ DestroyAnswerStep(a) \/ ImportRow(a)
    PROVE  \/ answer'[i] = answer[i]
           \/ Imported(a, i)
           \/ Edited(a, i)
           \/ Moved(a, i)
           \/ Purged(i)
  <1>1. answer \in [AnswerIds -> AnswerRow] /\ a \in Callers
    BY DEF Typed, TypeOK, Callers
  <1>2. SlotOK(slot[a]) /\ slot[a].todo \subseteq AnswerIds
    BY <1>1 DEF Typed, SlotOK, Slot
  <1>3. CASE AdminUpdateWrite(a)
    <2> DEFINE r == slot[a]
    <2>1. r.id \in AnswerIds
      BY <1>2, <1>3 DEF AdminUpdateWrite, SlotOK
    <2>2. PICK x \in Contents :
             answer' = UpdateAnswerInPlace(answer, r.id, r.proj, r.who, None, x, a)
      BY <1>3 DEF AdminUpdateWrite
    <2> QED
      BY <1>1, <2>1, <2>2, UpdateInPlaceRow DEF Edited, SameOwner, InPlaceMatches
  <1>4. CASE SoftDeleteWrite(a)
    <2>1. /\ answer' = SoftDeleteAnswer(answer, slot[a].id, a)
          /\ everTrashed' = everTrashed \cup {slot[a].id}
          /\ slot[a].id \in AnswerIds
      BY <1>2, <1>4 DEF SoftDeleteWrite, SlotOK
    <2>2. answer[i].state = "live" => answer[i] \in StoredRow
      BY <1>1, StoredIsStoredRow DEF Stored
    <2> QED
      BY <1>1, <2>1, <2>2 DEF SoftDeleteAnswer, StoredRow, Stored, Moved, SameOwner
  <1>5. CASE RestoreAnswerStep(a)
    <2>1. PICK j \in AnswerIds : answer' = RestoreAnswer(answer, j, a)
      BY <1>2, <1>5 DEF RestoreAnswerStep
    <2>2. answer[i].state = "trashed" => answer[i] \in StoredRow
      BY <1>1, StoredIsStoredRow DEF Stored
    <2> QED
      BY <1>1, <2>1, <2>2 DEF RestoreAnswer, StoredRow, Stored, Moved, SameOwner
  <1>6. CASE DestroyAnswerStep(a)
    <2>1. PICK j \in AnswerIds :
             /\ answer' = HardDeleteAnswer(answer, j)
             /\ everTrashed' = IF Stored(answer, j) THEN everTrashed \cup {j} ELSE everTrashed
      BY <1>2, <1>6 DEF DestroyAnswerStep
    <2> QED
      BY <1>1, <2>1 DEF HardDeleteAnswer, Purged
  <1>7. CASE ImportRow(a)
    <2>1. PICK j \in AnswerIds, x \in Contents :
             /\ answer[j].state = "unused"
             /\ answer' = CreateAnswer(answer, j, slot[a].proj, None, x, a)
      BY <1>7 DEF ImportRow, FreshId
    <2> QED
      BY <1>1, <1>7, <2>1 DEF CreateAnswer, Imported
  <1> QED
    BY <1>3, <1>4, <1>5, <1>6, <1>7

LEMMA RowSteps ==
    ASSUME Typed, [Next]_vars, NEW i \in AnswerIds
    PROVE  \/ answer'[i] = answer[i]
           \/ \E s \in Callers : Inserted(s, i) \/ Resumed(s, i)
           \/ \E a \in Admins : Imported(a, i) \/ Edited(a, i) \/ Moved(a, i)
           \/ Purged(i)
  <1>1. CASE answer' = answer
    BY <1>1
  <1>2. CASE Next
    <2>1. \/ answer' = answer
          \/ \E s \in Callers : ResumeAnswer(s) \/ InsertAnswer(s)
          \/ \E a \in Admins : \/ AdminUpdateWrite(a) \/ SoftDeleteWrite(a)
                               \/ RestoreAnswerStep(a) \/ DestroyAnswerStep(a)
                               \/ ImportRow(a)
      BY <1>2, NextCases DEF StartSubmit, LookupPartnerStrict, LookupPartnerLenient,
         GetPublic, RequestFails, SKAnswerUpdate, StartAnswerBatch, SoftDeleteLoad,
         SKAnswerUpload, ImportDone, ImportAborts, Respond, ProjectCreate, ProjectLoad,
         ProjectUpdateWrite, ProjectDeleteWrite, ProjectRestore, ProjectDestroy,
         PartnerCreate, PartnerDelete, dbVars
    <2> QED
      BY <2>1, <1>1, SaveRow, OperatorRow
  <1> QED
    BY <1>1, <1>2 DEF vars

-------------------------------------------------------------------------------
(***************************************************************************)
(* The life of a row.                                                      *)
(***************************************************************************)

(***************************************************************************)
(* No statement of any handler moves an answer to another project or       *)
(* creator, reuses an id or brings a purged row back.                      *)
(***************************************************************************)
THEOREM RowsKeepIdentityHolds == Spec => RowsKeepIdentity
  <1>1. ASSUME Typed, [Next]_vars, NEW i \in AnswerIds, answer'[i] # answer[i]
        PROVE  RowLife(answer[i], answer'[i])
    BY <1>1, RowSteps DEF RowLife, Stored, Inserted, Resumed, Imported, Edited, Moved,
       Purged, SameOwner, InPlaceMatches, BlankAnswer
  <1>2. Typed /\ [Next]_vars =>
           [\A i \in AnswerIds : answer'[i] # answer[i] => RowLife(answer[i], answer'[i])]_answer
    BY <1>1
  <1> QED
    BY <1>2, AlwaysTyped, PTL DEF Spec, RowsKeepIdentity

(***************************************************************************)
(* No save and no edit changes an answer while it is in the trash, also    *)
(* when it read the row before.                                            *)
(***************************************************************************)
THEOREM TrashIsFrozenHolds == Spec => TrashIsFrozen
  <1>1. ASSUME Typed, [Next]_vars, NEW i \in AnswerIds,
               answer[i].state = "trashed", Stored(answer', i)
        PROVE  /\ answer'[i].content = answer[i].content
               /\ answer'[i].survey = answer[i].survey
    BY <1>1, RowSteps DEF Stored, Inserted, Resumed, Imported, Edited, Moved,
       Purged, InPlaceMatches, BlankAnswer
  <1>2. Typed /\ [Next]_vars =>
           [\A i \in AnswerIds :
               answer[i].state = "trashed" /\ Stored(answer', i) =>
                   /\ answer'[i].content = answer[i].content
                   /\ answer'[i].survey = answer[i].survey]_answer
    BY <1>1
  <1> QED
    BY <1>2, AlwaysTyped, PTL DEF Spec, TrashIsFrozen

(***************************************************************************)
(* Only its creator and the operators ever write into an answer.           *)
(***************************************************************************)
THEOREM LastWriterOwnsRowHolds == Spec => []LastWriterOwnsRow
  <1>1. Init => LastWriterOwnsRow
    BY DEF Init, LastWriterOwnsRow, Stored, BlankAnswer
  <1>2. Typed /\ LastWriterOwnsRow /\ [Next]_vars => LastWriterOwnsRow'
    <2> SUFFICES ASSUME Typed, LastWriterOwnsRow, [Next]_vars, NEW i \in AnswerIds,
                        Stored(answer', i)
                 PROVE  answer'[i].updateBy \in {None, Creator(answer'[i])} \cup Admins
      BY DEF LastWriterOwnsRow, Stored
    <2>1. CASE answer'[i] = answer[i]
      BY <2>1 DEF LastWriterOwnsRow, Stored, Creator
    <2>2. CASE \E s \in Callers : Inserted(s, i) \/ Resumed(s, i)
      BY <2>2 DEF Inserted, Resumed, SameOwner, InPlaceMatches, Creator
    <2>3. CASE \E a \in Admins : Imported(a, i) \/ Edited(a, i) \/ Moved(a, i)
      BY <2>3 DEF Imported, Edited, Moved
    <2>4. CASE Purged(i)
      BY <2>4 DEF Purged, Stored, BlankAnswer
    <2> QED
      BY <2>1, <2>2, <2>3, <2>4, RowSteps
  <1> QED
    BY <1>1, <1>2, AlwaysTyped, PTL DEF Spec

-------------------------------------------------------------------------------
(***************************************************************************)
(* Snapshots.                                                              *)
(***************************************************************************)

\* `published` follows every write to t_project and forgets nothing.
LEMMA WritePublishes ==
    ASSUME NEW tbl, WriteProject(tbl)
    PROVE  /\ published \subseteq published'
           /\ \A p \in Projects :
                 OpenIn(project', p) /\ project'[p].survey # None =>
                     <<p, project'[p].survey>> \in published'
  BY DEF WriteProject

LEMMA PublishedGrows ==
    ASSUME Typed, [Next]_vars, SnapshotInv
    PROVE  /\ published \subseteq published'
           /\ \A p \in Projects :
                 OpenIn(project', p) /\ project'[p].survey # None =>
                     <<p, project'[p].survey>> \in published'
  <1>1. CASE UNCHANGED <<project, published>>
    BY <1>1 DEF SnapshotInv, Open, OpenIn
  <1>2. CASE \E tbl : WriteProject(tbl)
    BY <1>2, WritePublishes
  <1>3. CASE Next
    <2>1. CASE \E a \in Admins : \/ ProjectCreate(a) \/ ProjectUpdateWrite(a)
                                \/ ProjectDeleteWrite(a) \/ ProjectRestore(a)
                                \/ ProjectDestroy(a)
      BY <2>1, <1>2 DEF ProjectCreate, CreateProject, ProjectUpdateWrite, UpdateProject,
         ProjectDeleteWrite, SoftDeleteProject, ProjectRestore, RestoreProject,
         ProjectDestroy, HardDeleteProject
    <2>2. CASE ~\E a \in Admins : \/ ProjectCreate(a) \/ ProjectUpdateWrite(a)
                                 \/ ProjectDeleteWrite(a) \/ ProjectRestore(a)
                                 \/ ProjectDestroy(a)
      BY <1>1, <1>3, <2>2, NextCases DEF StartSubmit, LookupPartnerStrict,
         LookupPartnerLenient, GetPublic, ResumeAnswer, InsertAnswer, RequestFails,
         SKAnswerUpdate, AdminUpdateWrite, StartAnswerBatch, SoftDeleteLoad,
         SoftDeleteWrite, RestoreAnswerStep, DestroyAnswerStep, SKAnswerUpload,
         ImportRow, ImportDone, ImportAborts, Respond, ProjectLoad, PartnerCreate,
         PartnerDelete, dbVars
    <2> QED
      BY <2>1, <2>2
  <1> QED
    BY <1>1, <1>3 DEF vars

-------------------------------------------------------------------------------
(***************************************************************************)
(* What one step can do to one caller's save request.                      *)
(***************************************************************************)

SameRequest(q) ==
    /\ slot'[q].route = slot[q].route
    /\ slot'[q].proj = slot[q].proj
    /\ slot'[q].id = slot[q].id

Started(q) ==
    /\ slot'[q].pc \in {"partner", "survey"}
    /\ slot'[q].who = Guest
    /\ slot'[q].route = "rest" => slot'[q].id = None
    /\ q \in Browsers => slot'[q].id = held[q][slot'[q].proj]

Identified(q) ==
    /\ slot[q].pc = "partner" /\ slot'[q].pc = "survey"
    /\ SameRequest(q)
    /\ slot[q].route = "sk" =>
           \E w \in Partners : /\ partner[w].state = "live"
                               /\ partner[w].project = slot[q].proj
                               /\ slot'[q].who = PartnerIdentity(w)

Opened(q) ==
    /\ slot[q].pc = "survey" /\ Open(slot[q].proj)
    /\ slot'[q].pc = IF slot[q].id = None THEN "insert" ELSE "resume"
    /\ SameRequest(q)
    /\ slot'[q].who = slot[q].who
    /\ slot'[q].snap = project[slot[q].proj].survey

FellThrough(q) ==
    /\ slot[q].pc = "resume" /\ slot'[q].pc = "insert"
    /\ ~InPlaceMatches(answer, slot[q].id, slot[q].proj, slot[q].who)
    /\ SameRequest(q)
    /\ slot'[q].who = slot[q].who
    /\ slot'[q].snap = slot[q].snap

Unsaved(q) == slot'[q] = slot[q] \/ slot'[q].pc \notin Saving

LEMMA GotoSlot ==
    ASSUME Typed, NEW s \in Callers, NEW r, Goto(s, r), NEW q \in Callers
    PROVE  slot'[q] = IF q = s THEN r ELSE slot[q]
  BY DEF Goto, Typed, TypeOK

LEMMA FinishSlot ==
    ASSUME Typed, NEW s \in Callers, Finish(s), NEW q \in Callers
    PROVE  slot'[q] = IF q = s THEN Idle ELSE slot[q]
  BY DEF Finish, Typed, TypeOK

LEMMA IdleUnsaved ==
    ASSUME Typed, NEW s \in Callers, Finish(s), NEW q \in Callers
    PROVE  Unsaved(q)
  BY FinishSlot DEF Unsaved, Idle, Saving

LEMMA BatchUnsaved ==
    ASSUME Typed, NEW a \in Callers, NEW op \in {"delete", "restore", "destroy"}, NEW i,
           NextInBatch(a, op, i), NEW q \in Callers
    PROVE  Unsaved(q)
  <1> DEFINE r == [Idle EXCEPT !.pc = op, !.todo = slot[a].todo \ {i}]
  <1>1. r.pc = op
    BY DEF Idle
  <1>2. Finish(a) \/ Goto(a, r)
    BY DEF NextInBatch
  <1> HIDE DEF r
  <1> QED
    BY <1>1, <1>2, IdleUnsaved, GotoSlot DEF Unsaved, Saving

LEMMA StartedSlot ==
    ASSUME Typed, NEW c \in Callers, NEW rt \in {"sk", "rest"}, NEW u, NEW p \in Projects,
           NEW i, StartSubmit(c, rt, u, p, i), rt = "rest" => i = None,
           c \in Browsers => i = held[c][p], NEW q \in Callers
    PROVE  Unsaved(q) \/ Started(q)
  BY GotoSlot DEF StartSubmit, Unsaved, Started, DefaultCreator

LEMMA LookupSlot ==
    ASSUME Typed, NEW c \in Callers, LookupPartnerStrict(c) \/ LookupPartnerLenient(c),
           NEW q \in Callers
    PROVE  Unsaved(q) \/ Identified(q)
  <1> DEFINE r == slot[c]
  <1>1. r \in Slot /\ r.pc = "partner"
    BY DEF Typed, TypeOK, LookupPartnerStrict, LookupPartnerLenient
  <1>2. CASE Finish(c)
    BY <1>2, IdleUnsaved
  <1>3. CASE r.route = "rest" /\ Goto(c, [r EXCEPT !.pc = "survey"])
    BY <1>1, <1>3, GotoSlot DEF Unsaved, Identified, SameRequest, Slot
  <1>4. CASE \E w \in Partners :
                /\ partner[w].state = "live"
                /\ r.route = "sk" => partner[w].project = r.proj
                /\ Goto(c, [r EXCEPT !.pc = "survey", !.who = PartnerIdentity(w)])
    <2>1. PICK w \in Partners :
             /\ partner[w].state = "live"
             /\ r.route = "sk" => partner[w].project = r.proj
             /\ Goto(c, [r EXCEPT !.pc = "survey", !.who = PartnerIdentity(w)])
      BY <1>4
    <2> DEFINE n == [r EXCEPT !.pc = "survey", !.who = PartnerIdentity(w)]
    <2>2. /\ n.pc = "survey" /\ n.who = PartnerIdentity(w)
          /\ n.route = r.route /\ n.proj = r.proj /\ n.id = r.id
      BY <1>1 DEF Slot
    <2>3. Goto(c, n)
      BY <2>1
    <2> HIDE DEF n
    <2>4. slot'[q] = IF q = c THEN n ELSE slot[q]
      BY <2>3, GotoSlot
    <2> QED
      BY <1>1, <2>1, <2>2, <2>4 DEF Unsaved, Identified, SameRequest
  <1> QED
    BY <1>2, <1>3, <1>4 DEF LookupPartnerStrict, LookupPartnerLenient, PartnersWith, TokenFits

LEMMA PublicSlot ==
    ASSUME Typed, NEW s \in Callers, GetPublic(s), NEW q \in Callers
    PROVE  Unsaved(q) \/ Opened(q)
  <1> DEFINE r == slot[s]
  <1>1. r \in Slot /\ r.pc = "survey"
    BY DEF Typed, TypeOK, GetPublic
  <1>2. CASE Finish(s)
    BY <1>2, IdleUnsaved
  <1>3. CASE ~Finish(s)
    <2>1. /\ Open(r.proj)
          /\ Goto(s, [r EXCEPT !.pc = IF r.id = None THEN "insert" ELSE "resume",
                               !.snap = project[r.proj].survey])
      BY <1>3 DEF GetPublic, AcceptsAnswers
    <2> DEFINE n == [r EXCEPT !.pc = IF r.id = None THEN "insert" ELSE "resume",
                              !.snap = project[r.proj].survey]
    <2>2. /\ n.pc = (IF r.id = None THEN "insert" ELSE "resume")
          /\ n.snap = project[r.proj].survey /\ n.who = r.who
          /\ n.route = r.route /\ n.proj = r.proj /\ n.id = r.id
      BY <1>1 DEF Slot
    <2>3. Goto(s, n)
      BY <2>1
    <2> HIDE DEF n
    <2>4. slot'[q] = IF q = s THEN n ELSE slot[q]
      BY <2>3, GotoSlot
    <2> QED
      BY <1>1, <2>1, <2>2, <2>4 DEF Unsaved, Opened, SameRequest
  <1> QED
    BY <1>2, <1>3

LEMMA ResumeSlot ==
    ASSUME Typed, NEW s \in Callers, ResumeAnswer(s), NEW q \in Callers
    PROVE  Unsaved(q) \/ (FellThrough(q) /\ UNCHANGED <<answer, held, histVars>>)
  <1> DEFINE r == slot[s]
  <1>1. r \in Slot /\ r.pc = "resume"
    BY DEF Typed, TypeOK, ResumeAnswer
  <1>2. CASE Finish(s)
    BY <1>2, IdleUnsaved
  <1>3. CASE ~Finish(s)
    <2>1. /\ ~InPlaceMatches(answer, r.id, r.proj, r.who)
          /\ Goto(s, [r EXCEPT !.pc = "insert"])
          /\ UNCHANGED <<answer, held, histVars>>
      BY <1>3 DEF ResumeAnswer
    <2> QED
      BY <1>1, <2>1, GotoSlot DEF Unsaved, FellThrough, SameRequest, Slot
  <1> QED
    BY <1>2, <1>3

LEMMA OperatorSlot ==
    ASSUME Typed, NEW a \in Admins, NEW q \in Callers,
           \/ SKAnswerUpdate(a) \/ AdminUpdateWrite(a)
           \/ \E op \in {"delete", "restore", "destroy"} : StartAnswerBatch(a, op)
           \/ SoftDeleteLoad(a) \/ SoftDeleteWrite(a)
           \/ RestoreAnswerStep(a) \/ DestroyAnswerStep(a)
           \/ SKAnswerUpload(a) \/ ImportRow(a) \/ ImportDone(a) \/ ImportAborts(a)
           \/ Respond(a)
           \/ ProjectLoad(a, "projectUpdate") \/ ProjectLoad(a, "projectDelete")
           \/ ProjectUpdateWrite(a) \/ ProjectDeleteWrite(a)
    PROVE  Unsaved(q)
  <1>1. a \in Callers /\ slot[a] \in Slot
    BY DEF Callers, Typed, TypeOK
  <1>2. ASSUME NEW r, Goto(a, r), r.pc \notin Saving PROVE Unsaved(q)
    BY <1>1, <1>2, GotoSlot DEF Unsaved
  <1>3. CASE \/ SKAnswerUpdate(a) \/ SKAnswerUpload(a)
             \/ \E op \in {"delete", "restore", "destroy"} : StartAnswerBatch(a, op)
             \/ ProjectLoad(a, "projectUpdate") \/ ProjectLoad(a, "projectDelete")
    BY <1>2, <1>3, IdleOK DEF SKAnswerUpdate, SKAnswerUpload, StartAnswerBatch, ProjectLoad,
       Saving, SlotOK, Slot
  <1>4. CASE AdminUpdateWrite(a) \/ ImportRow(a) \/ ImportAborts(a)
    BY <1>1, <1>2, <1>4 DEF AdminUpdateWrite, ImportRow, ImportAborts, Saving, Slot
  <1>5. CASE SoftDeleteLoad(a)
    <2>1. PICK i : \/ Goto(a, [slot[a] EXCEPT !.pc = "deleteWrite", !.id = i])
                   \/ NextInBatch(a, "delete", i)
      BY <1>5 DEF SoftDeleteLoad
    <2> QED
      BY <1>1, <1>2, <2>1, BatchUnsaved DEF Saving, Slot
  <1>6. CASE SoftDeleteWrite(a) \/ RestoreAnswerStep(a) \/ DestroyAnswerStep(a)
    BY <1>1, <1>6, BatchUnsaved DEF SoftDeleteWrite, RestoreAnswerStep, DestroyAnswerStep
  <1>7. CASE ImportDone(a) \/ Respond(a) \/ ProjectUpdateWrite(a) \/ ProjectDeleteWrite(a)
    BY <1>1, <1>7, IdleUnsaved DEF ImportDone, Respond, ProjectUpdateWrite, ProjectDeleteWrite
  <1> QED
    BY <1>3, <1>4, <1>5, <1>6, <1>7

LEMMA SlotSteps ==
    ASSUME Typed, [Next]_vars, NEW q \in Callers
    PROVE  \/ Unsaved(q)
           \/ /\ Started(q) \/ Identified(q) \/ Opened(q) \/ FellThrough(q)
              /\ UNCHANGED <<dbVars, held, histVars>>
  <1>1. CASE slot' = slot
    BY <1>1 DEF Unsaved
  <1>2. CASE Next
    <2>1. CASE \E c \in Callers, rt \in {"sk", "rest"}, u \in Uids \cup {None},
                  p \in Projects, i \in AnswerIds \cup {None} :
                     /\ StartSubmit(c, rt, u, p, i)
                     /\ rt = "rest" => i = None
                     /\ c \in Browsers => rt = "sk" /\ i = held[c][p]
      BY <2>1, StartedSlot DEF StartSubmit
    <2>2. CASE \E s \in Callers : LookupPartnerStrict(s) \/ LookupPartnerLenient(s)
      BY <2>2, LookupSlot DEF LookupPartnerStrict, LookupPartnerLenient
    <2>3. CASE \E s \in Callers : GetPublic(s)
      BY <2>3, PublicSlot DEF GetPublic
    <2>4. CASE \E s \in Callers : ResumeAnswer(s)
      BY <2>4, ResumeSlot DEF ResumeAnswer, dbVars
    <2>5. CASE \E s \in Callers : InsertAnswer(s) \/ RequestFails(s)
      BY <2>5, IdleUnsaved DEF InsertAnswer, RequestFails
    <2>6. CASE \E a \in Admins : \/ ProjectCreate(a) \/ ProjectRestore(a)
                                \/ ProjectDestroy(a) \/ PartnerCreate(a)
                                \/ PartnerDelete(a)
      BY <1>1, <2>6 DEF ProjectCreate, ProjectRestore, ProjectDestroy, PartnerCreate,
         PartnerDelete
    <2> QED
      BY <1>2, <2>1, <2>2, <2>3, <2>4, <2>5, <2>6, NextCases, OperatorSlot
  <1> QED
    BY <1>1, <1>2 DEF vars

-------------------------------------------------------------------------------
(***************************************************************************)
(* Every snapshot stored with an answer was published by its project.      *)
(***************************************************************************)
THEOREM SnapshotWasPublishedHolds == Spec => []SnapshotWasPublished
  <1>1. Init => SnapshotInv
    BY DEF Init, ProjectInit, SnapshotInv, SnapshotWasPublished, Stored, BlankAnswer,
       BlankProject, Open, OpenIn, Idle
  <1>2. Typed /\ SnapshotInv /\ [Next]_vars => SnapshotInv'
    <2> SUFFICES ASSUME Typed, SnapshotInv, [Next]_vars PROVE SnapshotInv'
      OBVIOUS
    <2>1. /\ published \subseteq published'
          /\ \A p \in Projects :
                OpenIn(project', p) /\ project'[p].survey # None =>
                    <<p, project'[p].survey>> \in published'
      BY PublishedGrows
    <2>2. ASSUME NEW i \in AnswerIds, Stored(answer', i), answer'[i].survey # None
          PROVE  <<answer'[i].project, answer'[i].survey>> \in published'
      <3>1. CASE answer'[i] = answer[i]
        BY <2>1, <2>2, <3>1 DEF SnapshotInv, SnapshotWasPublished, Stored
      <3>2. CASE \E s \in Callers : Inserted(s, i)
        BY <2>1, <2>2, <3>2 DEF SnapshotInv, Inserted
      <3>3. CASE \E s \in Callers : Resumed(s, i)
        BY <2>1, <2>2, <3>3 DEF SnapshotInv, SnapshotWasPublished, Resumed, SameOwner,
           Stored, InPlaceMatches
      <3>4. CASE \E a \in Admins : Imported(a, i) \/ Edited(a, i) \/ Moved(a, i)
        BY <2>1, <2>2, <3>4 DEF SnapshotInv, SnapshotWasPublished, Imported, Edited, Moved,
           SameOwner, Stored
      <3>5. CASE Purged(i)
        BY <2>2, <3>5 DEF Purged, Stored, BlankAnswer
      <3> QED
        BY <3>1, <3>2, <3>3, <3>4, <3>5, RowSteps
    <2>3. ASSUME NEW s \in Callers, slot'[s].pc \in {"resume", "insert"}, slot'[s].snap # None
          PROVE  <<slot'[s].proj, slot'[s].snap>> \in published'
      <3>1. CASE Unsaved(s)
        BY <2>1, <2>3, <3>1 DEF SnapshotInv, Unsaved, Saving
      <3>2. CASE Started(s) \/ Identified(s)
        BY <2>3, <3>2 DEF Started, Identified
      <3>3. CASE Opened(s)
        <4>1. slot[s].proj \in Projects
          BY <3>3 DEF Opened, Typed, SlotOK
        <4> QED
          BY <2>1, <2>3, <3>3, <4>1 DEF SnapshotInv, Opened, SameRequest
      <3>4. CASE FellThrough(s)
        BY <2>1, <2>3, <3>4 DEF SnapshotInv, FellThrough, SameRequest
      <3> QED
        BY <3>1, <3>2, <3>3, <3>4, SlotSteps
    <2> QED
      BY <2>1, <2>2, <2>3 DEF SnapshotInv, SnapshotWasPublished, Open, OpenIn, Stored
  <1>3. SnapshotInv => SnapshotWasPublished
    BY DEF SnapshotInv
  <1> QED
    BY <1>1, <1>2, <1>3, AlwaysTyped, PTL DEF Spec

-------------------------------------------------------------------------------
(***************************************************************************)
(* Partner identities.                                                     *)
(***************************************************************************)

\* `issued` holds the identity of every live partner row and forgets nothing.
LEMMA IssuedGrows ==
    ASSUME Typed, IssuedInv, [Next]_vars
    PROVE  /\ issued \subseteq issued'
           /\ \A q \in Partners :
                 partner'[q].state = "live" =>
                     <<partner'[q].project,
                       IF partner'[q].userId = None THEN q ELSE partner'[q].userId>> \in issued'
  <1>1. CASE UNCHANGED <<partner, issued>>
    BY <1>1 DEF IssuedInv, PartnerIdentity
  <1>2. CASE \E a \in Admins : PartnerCreate(a)
    BY <1>2 DEF PartnerCreate, IssuedInv, PartnerIdentity, Typed, TypeOK
  <1>3. CASE \E a \in Admins : PartnerDelete(a)
    BY <1>3 DEF PartnerDelete, BlankPartner, IssuedInv, PartnerIdentity, Typed, TypeOK, histVars
  <1>4. CASE Next /\ ~\E a \in Admins : PartnerCreate(a) \/ PartnerDelete(a)
    BY <1>1, <1>4, NextCases DEF StartSubmit, LookupPartnerStrict,
       LookupPartnerLenient, GetPublic, ResumeAnswer, InsertAnswer, RequestFails,
       SKAnswerUpdate, AdminUpdateWrite, StartAnswerBatch, SoftDeleteLoad,
       SoftDeleteWrite, RestoreAnswerStep, DestroyAnswerStep, SKAnswerUpload,
       ImportRow, ImportDone, ImportAborts, Respond, ProjectCreate, ProjectLoad,
       ProjectUpdateWrite, ProjectDeleteWrite, ProjectRestore, ProjectDestroy,
       dbVars, histVars
  <1> QED
    BY <1>1, <1>2, <1>3, <1>4 DEF vars

\* IssuedInv is inductive.
LEMMA IssuedKept ==
    ASSUME Typed, IssuedInv, [Next]_vars
    PROVE  IssuedInv'
  <1>1. /\ issued \subseteq issued'
        /\ \A q \in Partners :
              partner'[q].state = "live" =>
                  <<partner'[q].project,
                    IF partner'[q].userId = None THEN q ELSE partner'[q].userId>> \in issued'
    BY IssuedGrows
  <1>2. ASSUME NEW s \in Callers
        PROVE  /\ slot'[s].pc = "partner" => slot'[s].who = Guest
               /\ slot'[s].pc \in {"partner", "survey"} /\ slot'[s].route = "rest" =>
                      slot'[s].id = None
               /\ slot'[s].pc = "resume" => slot'[s].route = "sk"
               /\ /\ slot'[s].pc \in {"survey", "resume"} /\ slot'[s].route = "sk"
                  /\ slot'[s].who # Guest
                  => <<slot'[s].proj, slot'[s].who>> \in issued'
    <2>0. slot[s].route \in {"sk", "rest"}
      BY DEF Typed, TypeOK, Slot
    <2>1. CASE Unsaved(s)
      BY <1>1, <2>1 DEF IssuedInv, Unsaved, Saving
    <2>2. CASE Started(s)
      BY <2>2 DEF Started
    <2>3. CASE Identified(s)
      BY <1>1, <2>3 DEF IssuedInv, Identified, SameRequest
    <2>4. CASE Opened(s)
      BY <1>1, <2>0, <2>4 DEF IssuedInv, Opened, SameRequest
    <2>5. CASE FellThrough(s)
      BY <2>5 DEF FellThrough
    <2> QED
      BY <2>1, <2>2, <2>3, <2>4, <2>5, SlotSteps
  <1> QED
    BY <1>1, <1>2 DEF IssuedInv, PartnerIdentity

\* A session that moves while answers change has done so in Submit.
LEMMA OwnWrite ==
    ASSUME Typed, Next, NEW c \in Clients, slot'[c] # slot[c], answer' # answer
    PROVE  ResumeAnswer(c) \/ InsertAnswer(c)
  <1>1. c \in Callers /\ c \notin Admins
    BY FlowAssumption DEF Callers
  <1>2. \/ \E s \in Callers : ResumeAnswer(s) \/ InsertAnswer(s)
        \/ \E a \in Admins : \/ AdminUpdateWrite(a) \/ SoftDeleteWrite(a)
                             \/ RestoreAnswerStep(a) \/ DestroyAnswerStep(a)
                             \/ ImportRow(a)
    BY NextCases DEF StartSubmit, LookupPartnerStrict, LookupPartnerLenient,
       GetPublic, RequestFails, SKAnswerUpdate, StartAnswerBatch, SoftDeleteLoad,
       SKAnswerUpload, ImportDone, ImportAborts, Respond, ProjectCreate, ProjectLoad,
       ProjectUpdateWrite, ProjectDeleteWrite, ProjectRestore, ProjectDestroy,
       PartnerCreate, PartnerDelete, dbVars
  <1>3. ASSUME NEW s \in Callers, \E r : slot' = [slot EXCEPT ![s] = r]
        PROVE  s = c
    BY <1>1, <1>3 DEF Typed, TypeOK
  <1>4. CASE \E s \in Callers : ResumeAnswer(s) \/ InsertAnswer(s)
    <2>1. PICK s \in Callers : ResumeAnswer(s) \/ InsertAnswer(s)
      BY <1>4
    <2>2. \E r : slot' = [slot EXCEPT ![s] = r]
      BY <2>1 DEF ResumeAnswer, InsertAnswer, Goto, Finish
    <2> QED
      BY <1>3, <2>1, <2>2
  <1>5. CASE \E a \in Admins : \/ AdminUpdateWrite(a) \/ SoftDeleteWrite(a)
                               \/ RestoreAnswerStep(a) \/ DestroyAnswerStep(a)
                               \/ ImportRow(a)
    <2>1. PICK a \in Admins : \/ AdminUpdateWrite(a) \/ SoftDeleteWrite(a)
                              \/ RestoreAnswerStep(a) \/ DestroyAnswerStep(a)
                              \/ ImportRow(a)
      BY <1>5
    <2>2. \E r : slot' = [slot EXCEPT ![a] = r]
      BY <2>1 DEF AdminUpdateWrite, SoftDeleteWrite, RestoreAnswerStep, DestroyAnswerStep,
         ImportRow, NextInBatch, Goto, Finish
    <2>3. a \in Callers
      BY DEF Callers
    <2> QED
      BY <1>1, <1>3, <2>2, <2>3
  <1> QED
    BY <1>2, <1>4, <1>5

(***************************************************************************)
(* A participant rewrites an answer only as its creator, and that as a     *)
(* guest or under an identity issued for the answer's project; nothing is  *)
(* assumed of the user ids partner rows carry, which may be operators'.    *)
(***************************************************************************)
THEOREM EditorWasIssuedHolds == Spec => EditorWasIssued
  <1>1. Init => IssuedInv
    BY DEF Init, IssuedInv, BlankPartner, Idle
  <1>2. Typed /\ IssuedInv /\ [Next]_vars => IssuedInv'
    BY IssuedKept
  <1>3. ASSUME Typed, IssuedInv, [Next]_vars, NEW c \in Clients, NEW i \in AnswerIds,
               slot'[c] # slot[c], Stored(answer, i), answer'[i] # answer[i]
        PROVE  /\ slot[c].who = Creator(answer[i])
               /\ slot[c].who = Guest \/ <<answer[i].project, slot[c].who>> \in issued
    <2>1. c \in Callers /\ Next
      BY <1>3 DEF Callers, vars
    <2>2. ResumeAnswer(c) \/ InsertAnswer(c)
      BY <1>3, <2>1, OwnWrite
    <2>3. Inserted(c, i) \/ Resumed(c, i)
      BY <1>3, <2>1, <2>2, SaveRow
    <2>4. ~Inserted(c, i)
      BY <1>3 DEF Inserted, Stored
    <2> QED
      BY <1>3, <2>1, <2>3, <2>4 DEF IssuedInv, Resumed, InPlaceMatches
  <1>4. Typed /\ IssuedInv /\ [Next]_vars =>
            [\A c \in Clients, i \in AnswerIds :
                slot'[c] # slot[c] /\ Stored(answer, i) /\ answer'[i] # answer[i] =>
                    /\ slot[c].who = Creator(answer[i])
                    /\ slot[c].who = Guest \/ <<answer[i].project, slot[c].who>> \in issued]_vars
    BY <1>3
  <1> QED
    BY <1>1, <1>2, <1>4, AlwaysTyped, PTL DEF Spec, EditorWasIssued

-------------------------------------------------------------------------------
(***************************************************************************)
(* The ids sessions hold.                                                  *)
(***************************************************************************)

\* Who delivers an id, and which one.
LEMMA HeldSteps ==
    ASSUME Typed, [Next]_vars, NEW c \in Clients, NEW p \in Projects
    PROVE  \/ held'[c][p] = held[c][p]
           \/ /\ slot'[c] = Idle /\ p = slot[c].proj
              /\ held'[c][p] \in AnswerIds
              /\ Inserted(c, held'[c][p]) \/ Resumed(c, held'[c][p])
  <1>1. /\ answer \in [AnswerIds -> AnswerRow]
        /\ held \in [Clients -> [Projects -> AnswerIds \cup {None}]]
        /\ \A s \in Callers : SlotOK(slot[s]) /\ slot[s] \in Slot
    BY DEF Typed, TypeOK, SlotOK
  <1>2. CASE held' = held
    BY <1>2
  <1>3. ASSUME NEW s \in Callers, NEW i \in AnswerIds, Deliver(s, slot[s].proj, i),
               slot[s].proj \in Projects, Finish(s), Inserted(s, i) \/ Resumed(s, i)
        PROVE  \/ held'[c][p] = held[c][p]
               \/ /\ slot'[c] = Idle /\ p = slot[c].proj
                  /\ held'[c][p] \in AnswerIds
                  /\ Inserted(c, held'[c][p]) \/ Resumed(c, held'[c][p])
    <2>1. CASE c = s /\ p = slot[s].proj
      BY <1>1, <1>3, <2>1, FinishSlot DEF Deliver
    <2>2. CASE ~(c = s /\ p = slot[s].proj)
      BY <1>1, <1>3, <2>2 DEF Deliver
    <2> QED
      BY <2>1, <2>2
  <1>4. ASSUME NEW s \in Callers, ResumeAnswer(s), held' # held
        PROVE  \/ held'[c][p] = held[c][p]
               \/ /\ slot'[c] = Idle /\ p = slot[c].proj
                  /\ held'[c][p] \in AnswerIds
                  /\ Inserted(c, held'[c][p]) \/ Resumed(c, held'[c][p])
    <2> DEFINE r == slot[s]
    <2>1. /\ r.pc = "resume" /\ InPlaceMatches(answer, r.id, r.proj, r.who)
          /\ Finish(s) /\ Deliver(s, r.proj, r.id)
      BY <1>4 DEF ResumeAnswer
    <2>2. r.proj \in Projects /\ r.id \in AnswerIds
      BY <1>1, <2>1 DEF SlotOK
    <2>3. PICK x \in Contents :
             answer' = UpdateAnswerInPlace(answer, r.id, r.proj, r.who, r.snap, x, r.who)
      BY <1>4, <2>1 DEF ResumeAnswer
    <2>4. Resumed(s, r.id)
      <3>1. answer[r.id] \in StoredRow
        BY <1>1, <2>1, <2>2, StoredIsStoredRow DEF InPlaceMatches, Stored
      <3>2. answer'[r.id] = [answer[r.id] EXCEPT
                                !.survey = IF r.snap = None THEN @ ELSE r.snap,
                                !.content = x, !.updateBy = r.who]
        BY <1>1, <2>1, <2>2, <2>3 DEF UpdateAnswerInPlace
      <3> QED
        BY <2>1, <3>1, <3>2 DEF Resumed, SameOwner, InPlaceMatches, StoredRow
    <2> QED
      BY <1>3, <2>1, <2>2, <2>4
  <1>5. ASSUME NEW s \in Callers, InsertAnswer(s), held' # held
        PROVE  \/ held'[c][p] = held[c][p]
               \/ /\ slot'[c] = Idle /\ p = slot[c].proj
                  /\ held'[c][p] \in AnswerIds
                  /\ Inserted(c, held'[c][p]) \/ Resumed(c, held'[c][p])
    <2> DEFINE r == slot[s]
    <2>1. PICK i \in AnswerIds, x \in Contents :
             /\ answer[i].state = "unused"
             /\ answer' = CreateAnswer(answer, i, r.proj, r.snap, x, r.who)
             /\ Deliver(s, r.proj, i)
      BY <1>5 DEF InsertAnswer, FreshId, Snapshot
    <2>2. r.pc = "insert" /\ Finish(s)
      BY <1>5 DEF InsertAnswer
    <2>3. r.proj \in Projects
      BY <1>1, <2>2 DEF SlotOK
    <2>4. Inserted(s, i)
      BY <1>1, <1>5, <2>1, <2>2 DEF Inserted, CreateAnswer
    <2> QED
      BY <1>3, <2>1, <2>2, <2>3, <2>4
  <1>6. CASE Next /\ held' # held
    <2>1. \E s \in Callers : ResumeAnswer(s) \/ InsertAnswer(s)
      BY <1>6, NextCases DEF StartSubmit, LookupPartnerStrict,
         LookupPartnerLenient, GetPublic, RequestFails,
         SKAnswerUpdate, AdminUpdateWrite, StartAnswerBatch, SoftDeleteLoad,
         SoftDeleteWrite, RestoreAnswerStep, DestroyAnswerStep, SKAnswerUpload,
         ImportRow, ImportDone, ImportAborts, Respond, ProjectCreate, ProjectLoad,
         ProjectUpdateWrite, ProjectDeleteWrite, ProjectRestore, ProjectDestroy,
         PartnerCreate, PartnerDelete
    <2> QED
      BY <1>4, <1>5, <1>6, <2>1
  <1> QED
    BY <1>2, <1>6 DEF vars

\* A row that was written once keeps its project until it is purged.
LEMMA WrittenStays ==
    ASSUME Typed, [Next]_vars, NEW i \in AnswerIds, answer[i].state # "unused"
    PROVE  /\ answer'[i].state # "unused"
           /\ answer'[i].state # "destroyed" =>
                  /\ answer[i].state # "destroyed"
                  /\ answer'[i].project = answer[i].project
                  /\ answer'[i].createBy = answer[i].createBy
  BY RowSteps DEF Inserted, Resumed, Imported, Edited, Moved, Purged, SameOwner, Stored,
     InPlaceMatches, BlankAnswer

(***************************************************************************)
(* The id a session was given for a project names a row of that project.   *)
(***************************************************************************)
THEOREM HeldIdNamesRowHolds == Spec => []HeldIdNamesRow
  <1>1. Init => HeldIdNamesRow
    BY DEF Init, HeldIdNamesRow
  <1>2. Typed /\ HeldIdNamesRow /\ [Next]_vars => HeldIdNamesRow'
    <2> SUFFICES ASSUME Typed, HeldIdNamesRow, [Next]_vars, NEW c \in Clients,
                        NEW p \in Projects, held'[c][p] # None
                 PROVE  /\ answer'[held'[c][p]].state # "unused"
                        /\ answer'[held'[c][p]].state # "destroyed" =>
                               answer'[held'[c][p]].project = p
      BY DEF HeldIdNamesRow
    <2>1. CASE held'[c][p] = held[c][p]
      <3>1. held[c][p] \in AnswerIds
        BY <2>1 DEF Typed, TypeOK
      <3> QED
        BY <2>1, <3>1, WrittenStays DEF HeldIdNamesRow
    <2>2. CASE /\ p = slot[c].proj
               /\ Inserted(c, held'[c][p]) \/ Resumed(c, held'[c][p])
      BY <2>2 DEF Inserted, Resumed, SameOwner, InPlaceMatches
    <2> QED
      BY <2>1, <2>2, HeldSteps
  <1> QED
    BY <1>1, <1>2, AlwaysTyped, PTL DEF Spec

-------------------------------------------------------------------------------
(***************************************************************************)
(* No pile-up.                                                             *)
(***************************************************************************)

\* A delivered insert is known to its session, or the session is excused.
LEMMA AuthorSteps ==
    ASSUME Typed, [Next]_vars, NEW i \in AnswerIds, author'[i] # author[i]
    PROVE  \/ \E a \in Admins : author'[i] = a /\ answer'[i].state = "live"
           \/ \E c \in Clients :
                 /\ author'[i] = c
                 /\ answer'[i].state = "live" /\ answer'[i].project = slot[c].proj
                 /\ <<c, slot[c].proj>> \notin excused' => held'[c][slot[c].proj] = i
  <1>1. /\ answer \in [AnswerIds -> AnswerRow]
        /\ author \in [AnswerIds -> Callers \cup {None}]
        /\ held \in [Clients -> [Projects -> AnswerIds \cup {None}]]
        /\ \A s \in Callers : SlotOK(slot[s])
    BY DEF Typed, TypeOK
  <1>2. author' # author /\ Next
    BY DEF vars
  <1>3. \/ \E s \in Callers : InsertAnswer(s)
        \/ \E a \in Admins : ImportRow(a)
    BY <1>2, NextCases DEF StartSubmit, LookupPartnerStrict,
       LookupPartnerLenient, GetPublic, ResumeAnswer, RequestFails,
       SKAnswerUpdate, AdminUpdateWrite, StartAnswerBatch, SoftDeleteLoad,
       SoftDeleteWrite, RestoreAnswerStep, DestroyAnswerStep, SKAnswerUpload,
       ImportDone, ImportAborts, Respond, ProjectCreate, ProjectLoad,
       ProjectUpdateWrite, ProjectDeleteWrite, ProjectRestore, ProjectDestroy,
       PartnerCreate, PartnerDelete, histVars
  <1>4. CASE \E a \in Admins : ImportRow(a)
    BY <1>1, <1>4 DEF ImportRow, CreateAnswer
  <1>5. CASE \E s \in Callers : InsertAnswer(s)
    <2>1. PICK s \in Callers : InsertAnswer(s)
      BY <1>5
    <2> DEFINE r == slot[s]
               here == {<<s, r.proj>>} \cap (Clients \X Projects)
    <2>2. PICK j \in AnswerIds, x \in Contents :
             /\ answer' = CreateAnswer(answer, j, r.proj, r.snap, x, r.who)
             /\ author' = [author EXCEPT ![j] = s]
             /\ Deliver(s, r.proj, j) \/ excused' = excused \cup here
      BY <2>1 DEF InsertAnswer, Snapshot
    <2>3. i = j /\ author'[i] = s
      BY <1>1, <2>2
    <2>4. r.proj \in Projects
      BY <1>1, <2>1 DEF InsertAnswer, SlotOK
    <2>5. answer'[i].state = "live" /\ answer'[i].project = r.proj
      BY <1>1, <2>2, <2>3 DEF CreateAnswer
    <2>6. s \in Clients /\ <<s, r.proj>> \notin excused' => held'[s][r.proj] = i
      BY <1>1, <2>2, <2>3, <2>4 DEF Deliver
    <2> QED
      BY <2>3, <2>5, <2>6 DEF Callers
  <1> QED
    BY <1>3, <1>4, <1>5

LEMMA HistoryGrows ==
    ASSUME Typed, [Next]_vars
    PROVE  everTrashed \subseteq everTrashed' /\ excused \subseteq excused'
  <1>1. CASE UNCHANGED <<everTrashed, excused>>
    BY <1>1
  <1>2. CASE Next
    BY <1>2, NextCases DEF StartSubmit, LookupPartnerStrict,
       LookupPartnerLenient, GetPublic, ResumeAnswer, InsertAnswer, RequestFails,
       SKAnswerUpdate, AdminUpdateWrite, StartAnswerBatch, SoftDeleteLoad,
       SoftDeleteWrite, RestoreAnswerStep, DestroyAnswerStep, SKAnswerUpload,
       ImportRow, ImportDone, ImportAborts, Respond, ProjectCreate, ProjectLoad,
       ProjectUpdateWrite, ProjectDeleteWrite, ProjectRestore, ProjectDestroy,
       PartnerCreate, PartnerDelete, histVars
  <1> QED
    BY <1>1, <1>2 DEF vars

\* An insert that replaces a row of another identity excuses its session.
LEMMA InsertExcuses ==
    ASSUME Typed, NEW c \in Clients, InsertAnswer(c), IdentityChanged(slot[c]),
           slot[c].proj \in Projects
    PROVE  <<c, slot[c].proj>> \in excused'
  BY DEF InsertAnswer

LEMMA PileUpRows ==
    ASSUME Typed, PileUpInv, [Next]_vars, NEW c \in Browsers, NEW p \in Projects,
           NEW i \in AnswerIds \ everTrashed', author'[i] = c, answer'[i].project = p,
           <<c, p>> \notin excused'
    PROVE  held'[c][p] = i
  <1>1. c \in Clients /\ c \in Callers /\ c \notin Admins /\ c # None
    BY FlowAssumption DEF Callers
  <1>2. i \notin everTrashed /\ <<c, p>> \notin excused
    BY HistoryGrows
  <1>3. CASE author'[i] # author[i]
    BY <1>1, <1>3, AuthorSteps
  <1>4. CASE author'[i] = author[i]
    <2>1. answer[i].state # "unused"
      BY <1>1, <1>4 DEF PileUpInv
    <2>2. answer'[i].state # "destroyed"
      BY <2>1, RowSteps, <1>2 DEF PileUpInv, Inserted, Resumed, Imported, Edited, Moved,
         Purged, Stored
    <2>3. answer[i].project = p
      BY <2>1, <2>2, WrittenStays
    <2>4. held[c][p] = i
      BY <1>2, <1>4, <2>3 DEF PileUpInv
    <2>5. CASE held'[c][p] = held[c][p]
      BY <2>4, <2>5
    <2>6. CASE p = slot[c].proj /\ Resumed(c, held'[c][p])
      BY <2>4, <2>6 DEF PileUpInv, Resumed, Saving
    <2>7. CASE p = slot[c].proj /\ Inserted(c, held'[c][p])
      <3>1. slot[c].id = i /\ i # None /\ slot[c].pc = "insert"
        BY <2>4, <2>7, AnswerAssumption DEF PileUpInv, Inserted, Saving
      <3>2. IdentityChanged(slot[c])
        BY <1>2, <3>1 DEF PileUpInv
      <3> QED
        BY <1>1, <2>7, <3>2, InsertExcuses DEF Inserted
    <2> QED
      BY <1>1, <2>5, <2>6, <2>7, HeldSteps
  <1> QED
    BY <1>3, <1>4

LEMMA PileUpSlots ==
    ASSUME Typed, PileUpInv, HeldIdNamesRow, [Next]_vars, NEW c \in Browsers
    PROVE  /\ slot'[c].pc \in Saving => slot'[c].id = held'[c][slot'[c].proj]
           /\ slot'[c].pc = "insert" /\ slot'[c].id # None =>
                  \/ slot'[c].id \in everTrashed'
                  \/ /\ Stored(answer', slot'[c].id)
                     /\ Creator(answer'[slot'[c].id]) # slot'[c].who
  <1>1. c \in Clients /\ c \in Callers
    BY FlowAssumption DEF Callers
  <1>2. /\ answer \in [AnswerIds -> AnswerRow]
        /\ \A s \in Callers : SlotOK(slot[s]) /\ slot[s] \in Slot
    BY DEF Typed, TypeOK, SlotOK
  <1>3. CASE slot'[c].pc \notin Saving
    BY <1>3 DEF Saving
  <1>4. CASE slot'[c] = slot[c] /\ slot'[c].pc \in Saving
    <2>1. slot[c].proj \in Projects /\ slot'[c] # Idle
      BY <1>1, <1>2, <1>4 DEF SlotOK, Saving, Idle
    <2>2. held'[c][slot[c].proj] = held[c][slot[c].proj]
      BY <1>1, <2>1, HeldSteps
    <2>3. slot'[c].id = held'[c][slot'[c].proj]
      BY <1>4, <2>2 DEF PileUpInv
    <2>4. ASSUME slot[c].pc = "insert", slot[c].id # None
          PROVE  \/ slot[c].id \in everTrashed'
                 \/ /\ Stored(answer', slot[c].id)
                    /\ Creator(answer'[slot[c].id]) # slot[c].who
      <3> DEFINE j == slot[c].id
      <3>1. j \in AnswerIds
        BY <1>1, <1>2, <2>4 DEF Slot
      <3>2. CASE j \in everTrashed
        BY <3>2, HistoryGrows
      <3>3. CASE Stored(answer, j) /\ Creator(answer[j]) # slot[c].who
        <4>1. Purged(j) \/ (Stored(answer', j) /\ answer'[j].createBy = answer[j].createBy)
          BY <3>1, <3>3, RowSteps DEF Inserted, Resumed, Imported, Edited, Moved, SameOwner,
             Stored
        <4> QED
          BY <3>3, <4>1 DEF Purged, Creator
      <3> QED
        BY <2>4, <3>2, <3>3 DEF PileUpInv, IdentityChanged
    <2> QED
      BY <1>4, <2>3, <2>4
  <1>5. CASE /\ Started(c) \/ Identified(c) \/ Opened(c)
             /\ UNCHANGED <<dbVars, held, histVars>>
    BY <1>5 DEF Started, Identified, Opened, SameRequest, PileUpInv, Saving
  <1>6. CASE FellThrough(c) /\ UNCHANGED <<dbVars, held, histVars>>
    <2> DEFINE r == slot[c]
    <2>1. /\ r.id = held[c][r.proj] /\ r.id \in AnswerIds /\ r.id # None
          /\ r.proj \in Projects
      BY <1>1, <1>2, <1>6, AnswerAssumption DEF FellThrough, PileUpInv, Saving, SlotOK
    <2>2. /\ answer[r.id].state # "unused"
          /\ answer[r.id].state # "destroyed" => answer[r.id].project = r.proj
      BY <1>1, <2>1 DEF HeldIdNamesRow
    <2>3. answer[r.id].state \in RowState
      BY <1>2, <2>1 DEF AnswerRow, StoredRow, BlankAnswer, RowState
    <2>4. r.id \in everTrashed \/ (Stored(answer, r.id) /\ Creator(answer[r.id]) # r.who)
      BY <1>6, <2>1, <2>2, <2>3 DEF FellThrough, InPlaceMatches, PileUpInv, RowState, Stored
    <2> QED
      BY <1>6, <2>1, <2>4 DEF FellThrough, SameRequest, dbVars, histVars, Stored
  <1> QED
    BY <1>1, <1>3, <1>4, <1>5, <1>6, SlotSteps DEF Unsaved

(***************************************************************************)
(* A session that resends its last answerId never leaves two untrashed     *)
(* rows in a project, unless a response was lost or its identity changed.  *)
(***************************************************************************)
THEOREM NoPileUpHolds == Spec => []NoPileUp
  <1>1. Init => PileUpInv
    BY FlowAssumption DEF Init, PileUpInv, BlankAnswer, Idle, Saving, Callers
  <1>2. Typed /\ HeldIdNamesRow /\ PileUpInv /\ [Next]_vars => PileUpInv'
    <2> SUFFICES ASSUME Typed, HeldIdNamesRow, PileUpInv, [Next]_vars PROVE PileUpInv'
      OBVIOUS
    <2>1. ASSUME NEW i \in AnswerIds, answer'[i].state = "unused" PROVE author'[i] = None
      <3>1. answer'[i] = answer[i]
        BY <2>1, RowSteps DEF Inserted, Resumed, Imported, Edited, Moved, Purged, Stored,
           BlankAnswer
      <3>2. author[i] = None
        BY <2>1, <3>1 DEF PileUpInv
      <3>3. author'[i] = author[i]
        BY <2>1, AuthorSteps
      <3> QED
        BY <3>2, <3>3
    <2>2. ASSUME NEW i \in AnswerIds, answer'[i].state \in {"trashed", "destroyed"}
          PROVE  i \in everTrashed'
      <3>1. answer'[i] = answer[i] \/ i \in everTrashed'
        BY <2>2, RowSteps DEF Inserted, Resumed, Imported, Edited, Moved, Purged, Stored
      <3>2. everTrashed \subseteq everTrashed'
        BY HistoryGrows
      <3> QED
        BY <2>2, <3>1, <3>2 DEF PileUpInv
    <2> QED
      BY <2>1, <2>2, PileUpRows, PileUpSlots DEF PileUpInv, IdentityChanged, Stored, Creator
  <1>3. PileUpInv => NoPileUp
    BY DEF PileUpInv, NoPileUp
  <1> QED
    BY <1>1, <1>2, <1>3, AlwaysTyped, HeldIdNamesRowHolds, PTL DEF Spec
=============================================================================

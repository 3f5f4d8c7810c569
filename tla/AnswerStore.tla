----------------------------- MODULE AnswerStore -----------------------------
(***************************************************************************)
(* The t_answer table: the statements of queries/answer.sql as operators   *)
(* from a table to the table after the statement.  Each statement commits  *)
(* by itself.  `content` stands for the patchable columns (answer,         *)
(* attachment, meta_info, temp_save, exam_score); the columns that decide  *)
(* who may touch a row are modelled one by one.                            *)
(***************************************************************************)
EXTENDS ProjectStore

CONSTANTS
    AnswerIds,  \* ids idgen.New() can hand out to answers (bounds the inserts)
    Contents,   \* what a participant or an administrator fills in
    Guest,      \* create_by of an anonymous participant
    Users,      \* user ids a partner row may carry, an operator's too if given
    Partners,   \* ids of t_project_partner rows
    Admins      \* user ids of the operators behind the JWT routes

\* Who a row can be attributed to: create_by and update_by.
Identities == {Guest} \cup Users \cup Partners \cup Admins

ASSUME AnswerAssumption ==
    None \notin AnswerIds \cup Contents \cup Identities

VARIABLE answer

StoredRow == [state    : {"live", "trashed"},
              project  : Projects,
              survey   : Surveys \cup {None},
              content  : Contents,
              createBy : Identities,
              updateBy : Identities \cup {None}]

BlankAnswer(st) == [state |-> st, project |-> None, survey |-> None,
                    content |-> None, createBy |-> None, updateBy |-> None]

AnswerRow == StoredRow \cup {BlankAnswer("unused"), BlankAnswer("destroyed")}

\* A row that can be read, edited or recovered.
Stored(tbl, i) == tbl[i].state \in {"live", "trashed"}

\* CreateAnswer: is_deleted = 0, update_by NULL.
CreateAnswer(tbl, i, p, sv, x, by) ==
    [tbl EXCEPT ![i] = [state |-> "live", project |-> p, survey |-> sv,
                        content |-> x, createBy |-> by, updateBy |-> None]]

(***************************************************************************)
(* The WHERE clause of UpdateAnswerInPlace: id, is_deleted = 0, project_id *)
(* and COALESCE(NULLIF(create_by, ''), 'guest').                           *)
(***************************************************************************)
Creator(row) == IF row.createBy = None THEN Guest ELSE row.createBy

\* Bug: the create_by comparison left out.
InPlaceAnyCreator(tbl, i, p, by) ==
    /\ tbl[i].state = "live"
    /\ tbl[i].project = p

\* Bug: the is_deleted comparison left out.
InPlaceAlsoTrashed(tbl, i, p, by) ==
    /\ Stored(tbl, i)
    /\ tbl[i].project = p
    /\ Creator(tbl[i]) = by

\* Bug: the project_id comparison left out.
InPlaceAnyProject(tbl, i, p, by) ==
    /\ tbl[i].state = "live"
    /\ Creator(tbl[i]) = by

InPlaceMatches(tbl, i, p, by) ==
    /\ tbl[i].state = "live"
    /\ tbl[i].project = p
    /\ Creator(tbl[i]) = by

\* The SET clause: survey is COALESCE(new, old), update_by is always written.
UpdateAnswerInPlace(tbl, i, p, by, sv, x, writer) ==
    IF InPlaceMatches(tbl, i, p, by)
    THEN [tbl EXCEPT ![i].survey = IF sv = None THEN @ ELSE sv,
                     ![i].content = x,
                     ![i].updateBy = writer]
    ELSE tbl

SoftDeleteAnswer(tbl, i, writer) ==
    IF tbl[i].state = "live"
    THEN [tbl EXCEPT ![i].state = "trashed", ![i].updateBy = writer]
    ELSE tbl

RestoreAnswer(tbl, i, writer) ==
    IF tbl[i].state = "trashed"
    THEN [tbl EXCEPT ![i].state = "live", ![i].updateBy = writer]
    ELSE tbl

HardDeleteAnswer(tbl, i) ==
    IF Stored(tbl, i) THEN [tbl EXCEPT ![i] = BlankAnswer("destroyed")] ELSE tbl
=============================================================================

---------------------------- MODULE ProjectStore ----------------------------
(***************************************************************************)
(* The t_project table: one operator per SQL statement of                  *)
(* queries/project.sql and queries/survey.sql.  A statement commits by     *)
(* itself (the handlers open no transaction), so each one is an atomic     *)
(* change of `project`; the handlers that issue several of them are in     *)
(* AnswerFlow.                                                             *)
(*                                                                         *)
(* A row carries what decides who may answer what: whether it exists and   *)
(* is_deleted (`state`), `status` and the survey JSON (`survey`, None for  *)
(* NULL and for the empty string, which the code treats alike).            *)
(***************************************************************************)
EXTENDS Naturals

CONSTANTS
    Projects,   \* ids idgen.New() can hand out to projects
    Surveys,    \* survey documents
    None        \* SQL NULL / Go's empty string

ASSUME NoneAssumption == None \notin Projects \cup Surveys

VARIABLES
    project,    \* t_project
    published   \* history: every <<project, survey>> ever visible to the public

(***************************************************************************)
(* "unused": no row was ever written under this id; "live": is_deleted=0;  *)
(* "trashed": is_deleted=1; "destroyed": the row was deleted physically.   *)
(***************************************************************************)
RowState == {"unused", "live", "trashed", "destroyed"}

ProjectRow == [state  : RowState,
               status : {0, 1},
               survey : Surveys \cup {None}]

BlankProject(st) == [state |-> st, status |-> 0, survey |-> None]

ProjectTypeOK ==
    /\ project \in [Projects -> ProjectRow]
    /\ published \subseteq Projects \X Surveys

ProjectInit ==
    /\ project = [p \in Projects |-> BlankProject("unused")]
    /\ published = {}

(***************************************************************************)
(* GetPublishedSurvey's WHERE clause: SurveyService.GetPublic finds a      *)
(* project only while it is neither deleted nor a draft.                   *)
(***************************************************************************)
OpenIn(tbl, p) == tbl[p].state = "live" /\ tbl[p].status = 1

Open(p) == OpenIn(project, p)

\* Every write to t_project goes through here, so that the history follows.
WriteProject(tbl) ==
    /\ project' = tbl
    /\ published' = published \cup
           {<<p, tbl[p].survey>> :
                p \in {q \in Projects : OpenIn(tbl, q) /\ tbl[q].survey # None}}

\* CreateProject, under a fresh id; status defaults to 0 and survey to NULL.
CreateProject(p, st, sv) ==
    /\ project[p].state = "unused"
    /\ WriteProject([project EXCEPT
                        ![p] = [state |-> "live", status |-> st, survey |-> sv]])

(***************************************************************************)
(* UpdateProject ... WHERE is_deleted = 0.  A column left out of the       *)
(* request is the case where its new value is its current one.            *)
(***************************************************************************)
UpdateProject(p, st, sv) ==
    WriteProject(IF project[p].state = "live"
                 THEN [project EXCEPT ![p].status = st, ![p].survey = sv]
                 ELSE project)

SoftDeleteProject(p) ==
    WriteProject(IF project[p].state = "live"
                 THEN [project EXCEPT ![p].state = "trashed"]
                 ELSE project)

RestoreProject(p) ==
    WriteProject(IF project[p].state = "trashed"
                 THEN [project EXCEPT ![p].state = "live"]
                 ELSE project)

\* HardDeleteProject takes a row in any state and leaves its answers behind.
HardDeleteProject(p) ==
    WriteProject(IF project[p].state \in {"live", "trashed"}
                 THEN [project EXCEPT ![p] = BlankProject("destroyed")]
                 ELSE project)
=============================================================================

------------------------------ MODULE FileStore ------------------------------
(***************************************************************************)
(* FileService and storage.Local: an upload streams to a temporary file,   *)
(* renames it to its key and then records a row in t_file; reads look the  *)
(* row up before they open the object; a delete only marks the row.  The   *)
(* row and the object live in two stores that no transaction spans.        *)
(*                                                                         *)
(* Every request is a goroutine: its steps are the system calls and SQL    *)
(* statements it makes, any of which may fail.  The process may be killed  *)
(* (a crash, or a shutdown whose deadline passes) at any time; what is on  *)
(* disk and in the database survives.                                      *)
(***************************************************************************)
EXTENDS Naturals, FiniteSets

CONSTANTS
    Ids,        \* ids idgen.New() can hand out to files (bounds the uploads)
    Users,      \* signed-in callers
    AdminUsers, \* those whose JWT carries the admin role
    Visitors,   \* callers without a token
    Guest,      \* create_by of a public upload: "guest" or a partner's identity
    None,
    MaxBatch    \* bound: ids in one delete request

ASSUME FileAssumption ==
    /\ AdminUsers \subseteq Users
    /\ Users \cap Visitors = {}
    /\ Users \cap Ids = {}
    /\ None \notin Ids \cup Users \cup Visitors
    /\ Guest \notin Ids \cup Users
    /\ MaxBatch \in Nat

Callers == Users \cup Visitors

VARIABLES
    temp,       \* the temporary file of an upload, beside its final key
    object,     \* what is stored under the final key of a file
    file,       \* t_file
    slot,       \* the request each caller has in flight
    used,       \* ids handed out so far
    doubtful,   \* history: rows that were committed though the insert failed
    litter      \* history: ids whose upload was killed or whose cleanup failed

vars == <<temp, object, file, slot, used, doubtful, litter>>

\* How much of the uploaded content a path on disk holds.
OnDisk == {"none", "part", "whole"}

FileRow == [state  : {"unused", "live", "trashed"},
            shared : BOOLEAN,
            owner  : Users \cup {Guest, None}]

NoRow == [state |-> "unused", shared |-> FALSE, owner |-> None]

Uploading == {"temp", "copy", "rename", "insert", "cleanup", "undo"}

Slot == [pc   : {"idle", "openRow", "openObject", "serving",
                 "delete", "deleteWrite"} \cup Uploading,
         id   : Ids \cup {None},
         open : BOOLEAN,    \* uploads: shared = 1
         body : OnDisk,     \* reads: what the opened file holds
         todo : SUBSET Ids] \* deletes: ids still to do

Request(pc, i, op, ids) ==
    [pc |-> pc, id |-> i, open |-> op, body |-> "none", todo |-> ids]

Idle == Request("idle", None, FALSE, {})

TypeOK ==
    /\ temp \in [Ids -> OnDisk]
    /\ object \in [Ids -> OnDisk]
    /\ file \in [Ids -> FileRow]
    /\ slot \in [Callers -> Slot]
    /\ used \subseteq Ids
    /\ doubtful \subseteq Ids
    /\ litter \subseteq Ids

Init ==
    /\ temp = [i \in Ids |-> "none"]
    /\ object = [i \in Ids |-> "none"]
    /\ file = [i \in Ids |-> NoRow]
    /\ slot = [c \in Callers |-> Idle]
    /\ used = {}
    /\ doubtful = {}
    /\ litter = {}

Issue(c, r) == slot' = [slot EXCEPT ![c] = r]
Goto(c, pc) == slot' = [slot EXCEPT ![c].pc = pc]
Finish(c) == Issue(c, Idle)

-------------------------------------------------------------------------------
(***************************************************************************)
(* FileService.Upload                                                      *)
(***************************************************************************)

\* A fresh id; a file type on the deny list is refused before that.
StartUpload(c, sh) ==
    /\ slot[c].pc = "idle"
    /\ \E i \in Ids \ used :
          /\ used' = used \cup {i}
          /\ Issue(c, Request("temp", i, sh, {}))
    /\ UNCHANGED <<temp, object, file, doubtful, litter>>

\* POST /api/files and /api/file/create: the file is the uploader's own.
UploadFile(c) == c \in Users /\ StartUpload(c, FALSE)

\* POST /api/public/upload, while answering: shared = 1.
PublicUpload(c) == StartUpload(c, TRUE)

\* MkdirAll and CreateTemp; a failure leaves nothing behind.
CreateTemp(c) ==
    LET i == slot[c].id IN
    /\ slot[c].pc = "temp"
    /\ \/ /\ temp' = [temp EXCEPT ![i] = "part"]
          /\ Goto(c, "copy")
       \/ /\ Finish(c)
          /\ UNCHANGED temp
    /\ UNCHANGED <<object, file, used, doubtful, litter>>

\* Bug: the copy's error is dropped.
CopyErrorDropped(c) ==
    LET i == slot[c].id IN
    /\ slot[c].pc = "copy"
    /\ \/ temp' = [temp EXCEPT ![i] = "whole"]
       \/ UNCHANGED temp
    /\ Goto(c, "rename")
    /\ UNCHANGED <<object, file, used, doubtful, litter>>

\* io.Copy and Close: complete, or part of the content and an error.
CopyToTemp(c) ==
    LET i == slot[c].id IN
    /\ slot[c].pc = "copy"
    /\ \/ /\ temp' = [temp EXCEPT ![i] = "whole"]
          /\ Goto(c, "rename")
       \/ /\ Goto(c, "cleanup")
          /\ UNCHANGED temp
    /\ UNCHANGED <<object, file, used, doubtful, litter>>

\* Bug: the rename's error is dropped.
RenameErrorDropped(c) ==
    LET i == slot[c].id IN
    /\ slot[c].pc = "rename"
    /\ \/ /\ object' = [object EXCEPT ![i] = temp[i]]
          /\ temp' = [temp EXCEPT ![i] = "none"]
       \/ UNCHANGED <<object, temp>>
    /\ Goto(c, "insert")
    /\ UNCHANGED <<file, used, doubtful, litter>>

\* os.Rename puts the temporary file at the final key at once, or fails.
RenameTemp(c) ==
    LET i == slot[c].id IN
    /\ slot[c].pc = "rename"
    /\ \/ /\ object' = [object EXCEPT ![i] = temp[i]]
          /\ temp' = [temp EXCEPT ![i] = "none"]
          /\ Goto(c, "insert")
       \/ /\ Goto(c, "cleanup")
          /\ UNCHANGED <<object, temp>>
    /\ UNCHANGED <<file, used, doubtful, litter>>

\* Bug: the error is returned without removing the temporary file.
CleanupSkipped(c) ==
    /\ slot[c].pc = "cleanup"
    /\ Finish(c)
    /\ UNCHANGED <<temp, object, file, used, doubtful, litter>>

\* cleanup(): os.Remove, its error ignored; the request answers 500.
CleanupTemp(c) ==
    LET i == slot[c].id IN
    /\ slot[c].pc = "cleanup"
    /\ \/ /\ temp' = [temp EXCEPT ![i] = "none"]
          /\ UNCHANGED litter
       \/ /\ litter' = litter \cup {i}
          /\ UNCHANGED temp
    /\ Finish(c)
    /\ UNCHANGED <<object, file, used, doubtful>>

\* Bug: two parameters swapped, the row belongs to its own id.
NewRowSwapped(c) == [state |-> "live", shared |-> slot[c].open, owner |-> slot[c].id]

\* The row CreateFile writes; participants' attachments are shared.
NewRow(c) == [state  |-> "live",
              shared |-> slot[c].open,
              owner  |-> IF slot[c].open THEN Guest ELSE c]

(***************************************************************************)
(* CreateFile: recorded and acknowledged, or an error.  An error may also  *)
(* come after the commit (the request's context ends while the driver      *)
(* waits for the reply).                                                   *)
(***************************************************************************)
RecordFile(c) ==
    LET i == slot[c].id IN
    /\ slot[c].pc = "insert"
    /\ \/ /\ file' = [file EXCEPT ![i] = NewRow(c)]
          /\ Finish(c)
          /\ UNCHANGED doubtful
       \/ /\ Goto(c, "undo")
          /\ UNCHANGED <<file, doubtful>>
       \/ /\ file' = [file EXCEPT ![i] = NewRow(c)]
          /\ doubtful' = doubtful \cup {i}
          /\ Goto(c, "undo")
    /\ UNCHANGED <<temp, object, used, litter>>

\* Bug: the object stays when the row cannot be recorded.
UndoSkipped(c) ==
    /\ slot[c].pc = "undo"
    /\ Finish(c)
    /\ UNCHANGED <<temp, object, file, used, doubtful, litter>>

\* "Best effort cleanup of the just-written object."
UndoSave(c) ==
    LET i == slot[c].id IN
    /\ slot[c].pc = "undo"
    /\ \/ /\ object' = [object EXCEPT ![i] = "none"]
          /\ UNCHANGED litter
       \/ /\ litter' = litter \cup {i}
          /\ UNCHANGED object
    /\ Finish(c)
    /\ UNCHANGED <<temp, file, used, doubtful>>

-------------------------------------------------------------------------------
(***************************************************************************)
(* Reads: handleSKFileGet and handleSKPublicPreview (serveFileByID), and   *)
(* handleDownloadFile for signed-in callers, which goes straight to Open.  *)
(***************************************************************************)

canReadFile(i, c) ==
    \/ file[i].shared
    \/ file[i].owner = c
    \/ c \in AdminUsers

\* files.Get and canReadFile; 404 or 403 otherwise.
serveFileByID(c) ==
    /\ slot[c].pc = "idle"
    /\ \E i \in Ids :
          /\ file[i].state = "live"
          /\ canReadFile(i, c)
          /\ Issue(c, Request("openRow", i, FALSE, {}))
    /\ UNCHANGED <<temp, object, file, used, doubtful, litter>>

DownloadFile(c) ==
    /\ slot[c].pc = "idle"
    /\ c \in Users
    /\ \E i \in Ids : Issue(c, Request("openRow", i, FALSE, {}))
    /\ UNCHANGED <<temp, object, file, used, doubtful, litter>>

\* Bug: GetFileByID without AND is_deleted = 0.
OpenAnyRow(c) ==
    /\ slot[c].pc = "openRow"
    /\ IF file[slot[c].id].state # "unused" THEN Goto(c, "openObject") ELSE Finish(c)
    /\ UNCHANGED <<temp, object, file, used, doubtful, litter>>

\* FileService.Open looks the row up itself; it may be gone by now.
OpenRow(c) ==
    /\ slot[c].pc = "openRow"
    /\ IF file[slot[c].id].state = "live" THEN Goto(c, "openObject") ELSE Finish(c)
    /\ UNCHANGED <<temp, object, file, used, doubtful, litter>>

\* Local.Open: 404 without an object; an open file stays readable.
OpenObject(c) ==
    LET i == slot[c].id IN
    /\ slot[c].pc = "openObject"
    /\ IF object[i] = "none"
       THEN Finish(c)
       ELSE Issue(c, [pc |-> "serving", id |-> i, open |-> slot[c].open,
                      body |-> object[i], todo |-> {}])
    /\ UNCHANGED <<temp, object, file, used, doubtful, litter>>

\* The body is sent.
ServeBody(c) ==
    /\ slot[c].pc = "serving"
    /\ Finish(c)
    /\ UNCHANGED <<temp, object, file, used, doubtful, litter>>

-------------------------------------------------------------------------------
(***************************************************************************)
(* handleSKFileDelete and handleDeleteFile: FileService.SoftDelete per id. *)
(***************************************************************************)
StartDelete(c) ==
    /\ slot[c].pc = "idle"
    /\ c \in Users
    /\ \E ids \in SUBSET Ids :
          /\ ids # {} /\ Cardinality(ids) <= MaxBatch
          /\ Issue(c, Request("delete", None, FALSE, ids))
    /\ UNCHANGED <<temp, object, file, used, doubtful, litter>>

NextInBatch(c, i) ==
    LET rest == slot[c].todo \ {i} IN
    IF rest = {} THEN Finish(c) ELSE Issue(c, Request("delete", None, FALSE, rest))

\* The load; an id that is gone is skipped.
SoftDeleteLoad(c) ==
    /\ slot[c].pc = "delete"
    /\ \E i \in slot[c].todo :
          IF file[i].state = "live"
          THEN Issue(c, Request("deleteWrite", i, FALSE, slot[c].todo))
          ELSE NextInBatch(c, i)
    /\ UNCHANGED <<temp, object, file, used, doubtful, litter>>

\* SoftDeleteFile ... WHERE is_deleted = 0; the object stays.
SoftDeleteWrite(c) ==
    LET i == slot[c].id IN
    /\ slot[c].pc = "deleteWrite"
    /\ file' = IF file[i].state = "live" THEN [file EXCEPT ![i].state = "trashed"] ELSE file
    /\ NextInBatch(c, i)
    /\ UNCHANGED <<temp, object, used, doubtful, litter>>

\* A lookup or an open fails: 500.  An upload's failures are in its own steps.
RequestFails(c) ==
    /\ slot[c].pc \in {"openRow", "openObject", "delete", "deleteWrite"}
    /\ Finish(c)
    /\ UNCHANGED <<temp, object, file, used, doubtful, litter>>

\* The process dies; every request in flight is lost.
Crash ==
    /\ litter' = litter \cup {slot[c].id : c \in {d \in Callers : slot[d].pc \in Uploading}}
    /\ slot' = [c \in Callers |-> Idle]
    /\ UNCHANGED <<temp, object, file, used, doubtful>>

-------------------------------------------------------------------------------

Arrive(c) ==
    \/ UploadFile(c) \/ PublicUpload(c)
    \/ serveFileByID(c) \/ DownloadFile(c)
    \/ StartDelete(c)

Step(c) ==
    \/ CreateTemp(c) \/ CopyToTemp(c) \/ RenameTemp(c) \/ CleanupTemp(c)
    \/ RecordFile(c) \/ UndoSave(c)
    \/ OpenRow(c) \/ OpenObject(c) \/ ServeBody(c)
    \/ SoftDeleteLoad(c) \/ SoftDeleteWrite(c)
    \/ RequestFails(c)

Next == Crash \/ \E c \in Callers : Arrive(c) \/ Step(c)

Spec == Init /\ [][Next]_vars

\* A goroutine that serves a request is scheduled until it has answered.
FairSpec == Spec /\ \A c \in Callers : WF_vars(Step(c))

-------------------------------------------------------------------------------
(***************************************************************************)
(* Properties                                                              *)
(***************************************************************************)

(***************************************************************************)
(* Local.Save's comment: "a copy error or a crash can't leave a            *)
(* half-written object at the final key", whatever step fails and whenever *)
(* the process is killed; so no read ever hands out part of a file either. *)
(***************************************************************************)
NothingHalfWritten ==
    /\ \A i \in Ids : object[i] # "part"
    /\ \A c \in Callers : slot[c].pc = "serving" => slot[c].body = "whole"

(***************************************************************************)
(* A row of t_file can be served: its object is complete, also after it    *)
(* was trashed, unless the insert reported an error after it had           *)
(* committed.  (Upload then deletes the object of a row that exists.)      *)
(***************************************************************************)
RowHasObject ==
    \A i \in Ids : file[i].state # "unused" /\ i \notin doubtful => object[i] = "whole"

Working(i) == \E c \in Callers : slot[c].pc \in Uploading /\ slot[c].id = i

(***************************************************************************)
(* A failed upload leaves neither a temporary file nor an object without a *)
(* row, unless the process was killed under it or the removal itself       *)
(* failed.                                                                 *)
(***************************************************************************)
NoLitter ==
    \A i \in Ids :
        \/ Working(i)
        \/ i \in litter
        \/ /\ temp[i] = "none"
           /\ object[i] # "none" => file[i].state # "unused"

(***************************************************************************)
(* The two stores together behave as one shelf on which files appear       *)
(* complete and at once, and from which they disappear for good.           *)
(***************************************************************************)
Shelved(i) ==
    IF file[i].state = "unused" THEN "absent"
    ELSE IF file[i].state = "live" /\ object[i] = "whole" THEN "present" ELSE "gone"

Shelf == INSTANCE FileShelf WITH shelf <- [i \in Ids |-> Shelved(i)]

UploadsAreAtomic == Shelf!ShelfSpec

(***************************************************************************)
(* Temporary files go away: every one is renamed or removed, unless the    *)
(* process was killed under its upload or the removal failed.              *)
(***************************************************************************)
StagingDrains == \A i \in Ids : temp[i] # "none" ~> (temp[i] = "none" \/ i \in litter)

Serving(i) == \E c \in Callers : slot[c].pc = "serving" /\ slot[c].id = i

(***************************************************************************)
(* A deleted file goes dark.  The object stays on disk and reads that had  *)
(* looked the row up before the delete still serve it, through any of the  *)
(* three routes, but these come to an end, and then nobody is served the   *)
(* file again however often its id is asked for.                           *)
(***************************************************************************)
DeletedGoesDark == \A i \in Ids : file[i].state = "trashed" ~> [](~Serving(i))
=============================================================================

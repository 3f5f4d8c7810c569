--------------------------- MODULE FileStoreProofs ---------------------------
(***************************************************************************)
(* Proofs about FileStore for every set of ids and callers.  The inductive *)
(* invariant adds to the properties where an upload stands: what is on     *)
(* disk and in t_file for its id at each of its program points, that no    *)
(* two uploads share an id, and that an id not handed out yet is untouched.*)
(***************************************************************************)
EXTENDS FileStore, TLAPS

\* What an upload at program point pc finds at its own id.
Stage(pc, tmp, obj, st, dbt) ==
    /\ pc \in {"temp", "copy", "rename", "cleanup"} => obj = "none" /\ st = "unused"
    /\ pc \in {"temp", "insert", "undo"} => tmp = "none"
    /\ pc = "rename" => tmp = "whole"
    /\ pc = "insert" => obj = "whole" /\ st = "unused"
    /\ pc = "undo" => obj = "whole" /\ (st = "unused" \/ dbt)

StageAt(pc, i) == Stage(pc, temp[i], object[i], file[i].state, i \in doubtful)

Stages ==
    \A c \in Callers :
        slot[c].pc \in Uploading =>
            slot[c].id \in used /\ StageAt(slot[c].pc, slot[c].id)

OneUploadPerId ==
    \A c, d \in Callers :
        /\ slot[c].pc \in Uploading /\ slot[d].pc \in Uploading
        /\ slot[c].id = slot[d].id
        => c = d

VisitorsShare == \A c \in Visitors : slot[c].pc \in Uploading => slot[c].open

FreshIsUntouched ==
    \A i \in Ids \ used :
        temp[i] = "none" /\ object[i] = "none" /\ file[i].state = "unused"

Unbroken == \A i \in Ids : object[i] # "part"

\* What a read or a delete in flight knows about its row.
Aimed(r) ==
    /\ r.pc \in {"openRow", "openObject", "serving", "deleteWrite"} => r.id \in Ids
    /\ r.pc = "openObject" => file[r.id].state # "unused"
    /\ r.pc = "serving" => r.body = "whole"

Reads == \A c \in Callers : Aimed(slot[c])

IInv ==
    /\ TypeOK
    /\ Stages
    /\ OneUploadPerId
    /\ VisitorsShare
    /\ FreshIsUntouched
    /\ Unbroken
    /\ RowHasObject
    /\ NoLitter
    /\ Reads

-------------------------------------------------------------------------------
(***************************************************************************)
(* Reads and deletes: they touch no object, and of a row only is_deleted.  *)
(***************************************************************************)

LEMMA IdleTyped == Idle \in Slot /\ Idle.pc = "idle" /\ Idle.pc \notin Uploading
  BY DEF Idle, Request, Slot, OnDisk, Uploading

\* A file row is only ever trashed, or nothing happens to it.
Aged(old, new) ==
    \/ new = old
    \/ old.state = "live" /\ new = [old EXCEPT !.state = "trashed"]

LEMMA AgedRow ==
    ASSUME NEW old \in FileRow, NEW new, Aged(old, new)
    PROVE  /\ new \in FileRow
           /\ new.shared = old.shared /\ new.owner = old.owner
           /\ new.state = "unused" <=> old.state = "unused"
  BY DEF Aged, FileRow

LEMMA QuietStep ==
    ASSUME IInv, NEW c \in Callers, NEW r \in Slot,
           UNCHANGED <<temp, object, used, doubtful, litter>>,
           file' \in [Ids -> FileRow],
           \A i \in Ids : Aged(file[i], file'[i]),
           slot' = [slot EXCEPT ![c] = r],
           slot[c].pc \notin Uploading, r.pc \notin Uploading,
           Aimed(r)
    PROVE  IInv'
  <1> USE DEF IInv
  <1>1. \A i \in Ids : /\ file'[i].shared = file[i].shared
                       /\ file'[i].owner = file[i].owner
                       /\ file'[i].state = "unused" <=> file[i].state = "unused"
    BY AgedRow DEF TypeOK
  <1>2. \A d \in Callers : slot'[d] = IF d = c THEN r ELSE slot[d]
    BY DEF TypeOK
  <1>3. \A d \in Callers : slot'[d].pc \in Uploading => slot'[d] = slot[d]
    BY <1>2
  <1>4. \A d \in Callers : slot[d].pc \in Uploading => slot'[d] = slot[d]
    BY <1>2
  <1>5. TypeOK'
    BY DEF TypeOK
  <1>6. Stages'
    <2> SUFFICES ASSUME NEW d \in Callers, slot'[d].pc \in Uploading
                 PROVE  slot'[d].id \in used' /\ StageAt(slot[d].pc, slot[d].id)'
      BY DEF Stages
    <2>1. slot'[d] = slot[d] /\ slot[d].id \in used /\ StageAt(slot[d].pc, slot[d].id)
      BY <1>3 DEF Stages
    <2>2. slot[d].id \in Ids
      BY <2>1 DEF TypeOK
    <2> QED
      BY <2>1, <2>2, <1>1 DEF StageAt, Stage
  <1>7. OneUploadPerId' /\ VisitorsShare'
    BY <1>3 DEF OneUploadPerId, VisitorsShare, Callers
  <1>8. FreshIsUntouched'
    BY <1>1 DEF FreshIsUntouched
  <1>9. Unbroken' /\ RowHasObject'
    BY <1>1 DEF Unbroken, RowHasObject
  <1>10. NoLitter'
    <2> SUFFICES ASSUME NEW i \in Ids, ~Working(i)', i \notin litter
                 PROVE  temp[i] = "none" /\ (object[i] # "none" => file'[i].state # "unused")
      BY DEF NoLitter
    <2>1. ~Working(i)
      BY <1>4 DEF Working
    <2> QED
      BY <2>1, <1>1 DEF NoLitter
  <1>11. Reads'
    <2> SUFFICES ASSUME NEW d \in Callers PROVE Aimed(slot[d])'
      BY DEF Reads
    <2>1. Aimed(slot'[d])
      BY <1>2 DEF Reads
    <2> QED
      BY <2>1, <1>1 DEF Aimed
  <1> QED
    BY <1>5, <1>6, <1>7, <1>8, <1>9, <1>10, <1>11

-------------------------------------------------------------------------------
(***************************************************************************)
(* Uploads: a step touches only its own id.                                *)
(***************************************************************************)

\* What is left at an id when no upload works on it.
Settled(tmp, obj, st, lit) ==
    lit \/ (tmp = "none" /\ (obj # "none" => st # "unused"))

LEMMA UploadStep ==
    ASSUME IInv, NEW c \in Callers, NEW r \in Slot, NEW i \in Ids,
           slot[c].pc \in Uploading, slot[c].id = i,
           temp' \in [Ids -> OnDisk], object' \in [Ids -> OnDisk],
           file' \in [Ids -> FileRow],
           \A j \in Ids \ {i} : /\ temp'[j] = temp[j] /\ object'[j] = object[j]
                                /\ file'[j] = file[j],
           file'[i] = file[i] \/ file[i].state = "unused",
           used' = used,
           doubtful \subseteq doubtful', doubtful' \subseteq doubtful \cup {i},
           litter \subseteq litter', litter' \subseteq litter \cup {i},
           slot' = [slot EXCEPT ![c] = r],
           object'[i] # "part",
           file'[i].state # "unused" /\ i \notin doubtful' => object'[i] = "whole",
           \/ /\ r.pc \in Uploading /\ r.id = i /\ r.open = slot[c].open
              /\ Stage(r.pc, temp'[i], object'[i], file'[i].state, i \in doubtful')
           \/ /\ r.pc = "idle"
              /\ Settled(temp'[i], object'[i], file'[i].state, i \in litter')
    PROVE  IInv'
  <1> USE DEF IInv
  <1>0. i \in used
    BY DEF Stages
  <1>1. \A d \in Callers : slot'[d] = IF d = c THEN r ELSE slot[d]
    BY DEF TypeOK
  <1>2. \A d \in Callers \ {c} : slot[d].pc \in Uploading => slot[d].id # i
    BY DEF OneUploadPerId
  <1>3. TypeOK'
    BY DEF TypeOK
  <1>4. Stages'
    <2> SUFFICES ASSUME NEW d \in Callers, slot'[d].pc \in Uploading
                 PROVE  slot'[d].id \in used
                          /\ Stage(slot'[d].pc, temp'[slot'[d].id], object'[slot'[d].id],
                                   file'[slot'[d].id].state, slot'[d].id \in doubtful')
      BY DEF Stages, StageAt
    <2>1. CASE d = c
      BY <2>1, <1>0, <1>1 DEF Uploading
    <2>2. CASE d # c
      <3>1. slot'[d] = slot[d] /\ slot[d].id \in used /\ StageAt(slot[d].pc, slot[d].id)
        BY <2>2, <1>1 DEF Stages
      <3>2. slot[d].id \in Ids \ {i}
        BY <3>1, <2>2, <1>2 DEF TypeOK
      <3> QED
        BY <3>1, <3>2 DEF StageAt, Stage
    <2> QED
      BY <2>1, <2>2
  <1>5. OneUploadPerId'
    <2> SUFFICES ASSUME NEW d \in Callers, NEW e \in Callers,
                        slot'[d].pc \in Uploading, slot'[e].pc \in Uploading,
                        slot'[d].id = slot'[e].id
                 PROVE  d = e
      BY DEF OneUploadPerId
    <2>1. CASE d # c /\ e # c
      BY <2>1, <1>1 DEF OneUploadPerId
    <2>2. CASE d = c \/ e = c
      <3>1. r.pc \in Uploading /\ r.id = i
        BY <2>2, <1>1 DEF Uploading
      <3> QED
        BY <2>2, <3>1, <1>1, <1>2
    <2> QED
      BY <2>1, <2>2
  <1>6. FreshIsUntouched' /\ VisitorsShare'
    <2>1. FreshIsUntouched'
      BY <1>0 DEF FreshIsUntouched
    <2>2. VisitorsShare'
      BY <1>1 DEF VisitorsShare, Callers, Uploading
    <2> QED
      BY <2>1, <2>2
  <1>7. Unbroken' /\ RowHasObject'
    <2> SUFFICES ASSUME NEW j \in Ids
                 PROVE  /\ object'[j] # "part"
                        /\ file'[j].state # "unused" /\ j \notin doubtful' => object'[j] = "whole"
      BY DEF Unbroken, RowHasObject
    <2>1. CASE j = i
      BY <2>1
    <2>2. CASE j # i
      BY <2>2 DEF Unbroken, RowHasObject
    <2> QED
      BY <2>1, <2>2
  <1>8. NoLitter'
    <2> SUFFICES ASSUME NEW j \in Ids, ~Working(j)', j \notin litter'
                 PROVE  temp'[j] = "none" /\ (object'[j] # "none" => file'[j].state # "unused")
      BY DEF NoLitter
    <2>1. CASE j = i
      <3>1. ~(slot'[c].pc \in Uploading /\ slot'[c].id = i)
        BY <2>1 DEF Working
      <3> QED
        BY <3>1, <2>1, <1>1 DEF Settled
    <2>2. CASE j # i
      <3>1. ~Working(j)
        <4> SUFFICES ASSUME NEW d \in Callers, slot[d].pc \in Uploading, slot[d].id = j
                     PROVE  FALSE
          BY DEF Working
        <4>1. d # c /\ slot'[d] = slot[d]
          BY <2>2, <1>1
        <4> QED
          BY <4>1 DEF Working
      <3> QED
        BY <3>1, <2>2 DEF NoLitter
    <2> QED
      BY <2>1, <2>2
  <1>9. Reads'
    <2> SUFFICES ASSUME NEW d \in Callers PROVE Aimed(slot[d])'
      BY DEF Reads
    <2>1. CASE d = c
      BY <2>1, <1>1 DEF Aimed, Uploading
    <2>2. CASE d # c
      <3>1. slot'[d] = slot[d] /\ Aimed(slot[d])
        BY <2>2, <1>1 DEF Reads
      <3>2. \A j \in Ids : file[j].state # "unused" => file'[j] = file[j]
        OBVIOUS
      <3> QED
        BY <3>1, <3>2 DEF Aimed
    <2> QED
      BY <2>1, <2>2
  <1> QED
    BY <1>3, <1>4, <1>5, <1>6, <1>7, <1>8, <1>9

-------------------------------------------------------------------------------
(***************************************************************************)
(* Each action keeps the invariant.                                        *)
(***************************************************************************)

LEMMA StartKeeps ==
    ASSUME IInv, NEW c \in Callers, NEW sh \in BOOLEAN, StartUpload(c, sh),
           c \in Visitors => sh
    PROVE  IInv'
  <1> USE DEF IInv
  <1>1. PICK i \in Ids \ used :
            /\ used' = used \cup {i}
            /\ slot' = [slot EXCEPT ![c] = Request("temp", i, sh, {})]
    BY DEF StartUpload, Issue
  <1>2. UNCHANGED <<temp, object, file, doubtful, litter>> /\ slot[c].pc = "idle"
    BY DEF StartUpload
  <1> DEFINE r == Request("temp", i, sh, {})
  <1>3. /\ r \in Slot /\ r.pc = "temp" /\ r.id = i
        /\ c \in Visitors => r.open
        /\ slot' = [slot EXCEPT ![c] = r]
    BY <1>1 DEF Request, Slot, OnDisk, Uploading
  <1> HIDE DEF r
  <1>4. \A d \in Callers : slot'[d] = IF d = c THEN r ELSE slot[d]
    BY <1>3 DEF TypeOK
  <1>5. temp[i] = "none" /\ object[i] = "none" /\ file[i].state = "unused"
    BY DEF FreshIsUntouched
  <1>6. TypeOK'
    BY <1>1, <1>2, <1>3 DEF TypeOK
  <1>7. Stages'
    <2> SUFFICES ASSUME NEW d \in Callers, slot'[d].pc \in Uploading
                 PROVE  slot'[d].id \in used' /\ StageAt(slot[d].pc, slot[d].id)'
      BY DEF Stages
    <2>1. CASE d = c
      BY <2>1, <1>1, <1>2, <1>3, <1>4, <1>5 DEF StageAt, Stage
    <2>2. CASE d # c
      BY <2>2, <1>1, <1>2, <1>4 DEF Stages, StageAt
    <2> QED
      BY <2>1, <2>2
  <1>8. OneUploadPerId'
    <2>1. \A d \in Callers \ {c} : slot'[d].pc \in Uploading => slot'[d].id # i
      BY <1>4 DEF Stages
    <2> QED
      BY <2>1, <1>3, <1>4 DEF OneUploadPerId
  <1>9. FreshIsUntouched' /\ VisitorsShare' /\ Unbroken' /\ RowHasObject'
    <2>1. VisitorsShare'
      BY <1>3, <1>4 DEF VisitorsShare, Callers
    <2> QED
      BY <2>1, <1>1, <1>2 DEF FreshIsUntouched, Unbroken, RowHasObject
  <1>10. NoLitter'
    <2> SUFFICES ASSUME NEW j \in Ids, ~Working(j)', j \notin litter
                 PROVE  temp[j] = "none" /\ (object[j] # "none" => file[j].state # "unused")
      BY <1>2 DEF NoLitter
    <2>1. CASE j = i
      BY <2>1, <1>5
    <2>2. CASE j # i
      <3>1. ~Working(j)
        BY <1>2, <1>4 DEF Working, Uploading
      <3> QED
        BY <3>1 DEF NoLitter
    <2> QED
      BY <2>1, <2>2
  <1>11. Reads'
    BY <1>2, <1>3, <1>4 DEF Reads, Aimed
  <1> QED
    BY <1>6, <1>7, <1>8, <1>9, <1>10, <1>11

\* The facts every upload step starts from.
LEMMA UploadFacts ==
    ASSUME IInv, NEW c \in Callers, slot[c].pc \in Uploading
    PROVE  /\ slot[c] \in Slot /\ slot[c].id \in Ids
           /\ StageAt(slot[c].pc, slot[c].id)
           /\ object[slot[c].id] # "part"
           /\ file[slot[c].id] \in FileRow
           /\ file[slot[c].id].state # "unused" /\ slot[c].id \notin doubtful
                  => object[slot[c].id] = "whole"
  BY DEF IInv, TypeOK, Stages, Unbroken, RowHasObject

\* Only the program point of the request changes.
LEMMA GotoRecord ==
    ASSUME IInv, NEW c \in Callers, slot[c].pc \in Uploading,
           NEW pc \in Uploading, Goto(c, pc)
    PROVE  \E r \in Slot : /\ r.pc = pc /\ r.id = slot[c].id /\ r.open = slot[c].open
                           /\ slot' = [slot EXCEPT ![c] = r]
  <1> DEFINE r == [pc |-> pc, id |-> slot[c].id, open |-> slot[c].open,
                   body |-> slot[c].body, todo |-> slot[c].todo]
  <1>1. slot[c] \in Slot
    BY UploadFacts
  <1>2. r \in Slot
    BY <1>1 DEF Slot, Uploading
  <1>3. slot' = [slot EXCEPT ![c] = r]
    <2>1. [slot[c] EXCEPT !.pc = pc] = r
      BY <1>1 DEF Slot
    <2>2. slot' = [slot EXCEPT ![c] = [slot[c] EXCEPT !.pc = pc]]
      BY DEF Goto
    <2> QED
      BY <2>1, <2>2
  <1>4. r.pc = pc /\ r.id = slot[c].id /\ r.open = slot[c].open
    OBVIOUS
  <1> HIDE DEF r
  <1> QED
    BY <1>2, <1>3, <1>4

LEMMA CreateTempKeeps == ASSUME IInv, NEW c \in Callers, CreateTemp(c) PROVE IInv'
  <1> DEFINE i == slot[c].id
  <1>0. slot[c].pc = "temp" /\ slot[c].pc \in Uploading
    BY DEF CreateTemp, Uploading
  <1>1. /\ i \in Ids /\ slot[c] \in Slot /\ StageAt("temp", i) /\ object[i] # "part"
        /\ file[i] \in FileRow
        /\ file[i].state # "unused" /\ i \notin doubtful => object[i] = "whole"
    BY <1>0, UploadFacts
  <1>2. temp \in [Ids -> OnDisk] /\ object \in [Ids -> OnDisk] /\ file \in [Ids -> FileRow]
    BY DEF IInv, TypeOK
  <1>3. CASE temp' = [temp EXCEPT ![i] = "part"] /\ Goto(c, "copy")
    <2>1. PICK r \in Slot : /\ r.pc = "copy" /\ r.id = i /\ r.open = slot[c].open
                             /\ slot' = [slot EXCEPT ![c] = r]
      BY <1>0, <1>3, GotoRecord DEF Uploading
    <2>2. UNCHANGED <<object, file, used, doubtful, litter>>
      BY <1>3 DEF CreateTemp
    <2> QED
      BY <2>1, <2>2, <1>0, <1>1, <1>2, <1>3, UploadStep
         DEF StageAt, Stage, Settled, Uploading, OnDisk
  <1>4. CASE Finish(c) /\ UNCHANGED temp
    <2>1. PICK r \in Slot : r.pc = "idle" /\ slot' = [slot EXCEPT ![c] = r]
      BY <1>4, IdleTyped DEF Finish, Issue
    <2>2. UNCHANGED <<object, file, used, doubtful, litter>>
      BY <1>4 DEF CreateTemp
    <2> QED
      BY <2>1, <2>2, <1>0, <1>1, <1>2, <1>4, UploadStep
         DEF StageAt, Stage, Settled, Uploading, OnDisk
  <1> QED
    BY <1>3, <1>4 DEF CreateTemp

LEMMA CopyKeeps == ASSUME IInv, NEW c \in Callers, CopyToTemp(c) PROVE IInv'
  <1> DEFINE i == slot[c].id
  <1>0. slot[c].pc = "copy" /\ slot[c].pc \in Uploading
    BY DEF CopyToTemp, Uploading
  <1>1. /\ i \in Ids /\ slot[c] \in Slot /\ StageAt("copy", i) /\ object[i] # "part"
        /\ file[i] \in FileRow
        /\ file[i].state # "unused" /\ i \notin doubtful => object[i] = "whole"
    BY <1>0, UploadFacts
  <1>2. temp \in [Ids -> OnDisk] /\ object \in [Ids -> OnDisk] /\ file \in [Ids -> FileRow]
    BY DEF IInv, TypeOK
  <1>3. CASE temp' = [temp EXCEPT ![i] = "whole"] /\ Goto(c, "rename")
    <2>1. PICK r \in Slot : /\ r.pc = "rename" /\ r.id = i /\ r.open = slot[c].open
                             /\ slot' = [slot EXCEPT ![c] = r]
      BY <1>0, <1>3, GotoRecord DEF Uploading
    <2>2. UNCHANGED <<object, file, used, doubtful, litter>>
      BY <1>3 DEF CopyToTemp
    <2> QED
      BY <2>1, <2>2, <1>0, <1>1, <1>2, <1>3, UploadStep
         DEF StageAt, Stage, Settled, Uploading, OnDisk
  <1>4. CASE Goto(c, "cleanup") /\ UNCHANGED temp
    <2>1. PICK r \in Slot : /\ r.pc = "cleanup" /\ r.id = i /\ r.open = slot[c].open
                             /\ slot' = [slot EXCEPT ![c] = r]
      BY <1>0, <1>4, GotoRecord DEF Uploading
    <2>2. UNCHANGED <<object, file, used, doubtful, litter>>
      BY <1>4 DEF CopyToTemp
    <2> QED
      BY <2>1, <2>2, <1>0, <1>1, <1>2, <1>4, UploadStep
         DEF StageAt, Stage, Settled, Uploading, OnDisk
  <1> QED
    BY <1>3, <1>4 DEF CopyToTemp

LEMMA RenameKeeps == ASSUME IInv, NEW c \in Callers, RenameTemp(c) PROVE IInv'
  <1> DEFINE i == slot[c].id
  <1>0. slot[c].pc = "rename" /\ slot[c].pc \in Uploading
    BY DEF RenameTemp, Uploading
  <1>1. /\ i \in Ids /\ slot[c] \in Slot /\ StageAt("rename", i) /\ object[i] # "part"
        /\ file[i] \in FileRow
        /\ file[i].state # "unused" /\ i \notin doubtful => object[i] = "whole"
    BY <1>0, UploadFacts
  <1>2. temp \in [Ids -> OnDisk] /\ object \in [Ids -> OnDisk] /\ file \in [Ids -> FileRow]
    BY DEF IInv, TypeOK
  <1>3. CASE /\ object' = [object EXCEPT ![i] = temp[i]]
            /\ temp' = [temp EXCEPT ![i] = "none"]
            /\ Goto(c, "insert")
    <2>1. PICK r \in Slot : /\ r.pc = "insert" /\ r.id = i /\ r.open = slot[c].open
                             /\ slot' = [slot EXCEPT ![c] = r]
      BY <1>0, <1>3, GotoRecord DEF Uploading
    <2>2. UNCHANGED <<file, used, doubtful, litter>>
      BY <1>3 DEF RenameTemp
    <2> QED
      BY <2>1, <2>2, <1>0, <1>1, <1>2, <1>3, UploadStep
         DEF StageAt, Stage, Settled, Uploading, OnDisk
  <1>4. CASE Goto(c, "cleanup") /\ UNCHANGED <<object, temp>>
    <2>1. PICK r \in Slot : /\ r.pc = "cleanup" /\ r.id = i /\ r.open = slot[c].open
                             /\ slot' = [slot EXCEPT ![c] = r]
      BY <1>0, <1>4, GotoRecord DEF Uploading
    <2>2. UNCHANGED <<file, used, doubtful, litter>>
      BY <1>4 DEF RenameTemp
    <2> QED
      BY <2>1, <2>2, <1>0, <1>1, <1>2, <1>4, UploadStep
         DEF StageAt, Stage, Settled, Uploading, OnDisk
  <1> QED
    BY <1>3, <1>4 DEF RenameTemp

LEMMA CleanupKeeps == ASSUME IInv, NEW c \in Callers, CleanupTemp(c) PROVE IInv'
  <1> DEFINE i == slot[c].id
  <1>0. slot[c].pc = "cleanup" /\ slot[c].pc \in Uploading
    BY DEF CleanupTemp, Uploading
  <1>1. /\ i \in Ids /\ slot[c] \in Slot /\ StageAt("cleanup", i) /\ object[i] # "part"
        /\ file[i] \in FileRow
        /\ file[i].state # "unused" /\ i \notin doubtful => object[i] = "whole"
    BY <1>0, UploadFacts
  <1>2. temp \in [Ids -> OnDisk] /\ object \in [Ids -> OnDisk] /\ file \in [Ids -> FileRow]
    BY DEF IInv, TypeOK
  <1>3. CASE temp' = [temp EXCEPT ![i] = "none"] /\ UNCHANGED litter /\ Finish(c)
    <2>1. PICK r \in Slot : r.pc = "idle" /\ slot' = [slot EXCEPT ![c] = r]
      BY <1>3, IdleTyped DEF Finish, Issue
    <2>2. UNCHANGED <<object, file, used, doubtful>>
      BY <1>3 DEF CleanupTemp
    <2> QED
      BY <2>1, <2>2, <1>0, <1>1, <1>2, <1>3, UploadStep
         DEF StageAt, Stage, Settled, Uploading, OnDisk
  <1>4. CASE litter' = litter \cup {i} /\ UNCHANGED temp /\ Finish(c)
    <2>1. PICK r \in Slot : r.pc = "idle" /\ slot' = [slot EXCEPT ![c] = r]
      BY <1>4, IdleTyped DEF Finish, Issue
    <2>2. UNCHANGED <<object, file, used, doubtful>>
      BY <1>4 DEF CleanupTemp
    <2> QED
      BY <2>1, <2>2, <1>0, <1>1, <1>2, <1>4, UploadStep
         DEF StageAt, Stage, Settled, Uploading, OnDisk
  <1> QED
    BY <1>3, <1>4 DEF CleanupTemp

LEMMA NewRowTyped ==
    ASSUME NEW c \in Callers, slot[c] \in Slot, c \in Visitors => slot[c].open
    PROVE  NewRow(c) \in FileRow /\ NewRow(c).state = "live"
  BY DEF NewRow, FileRow, Slot, Callers

LEMMA UndoKeeps == ASSUME IInv, NEW c \in Callers, UndoSave(c) PROVE IInv'
  <1> DEFINE i == slot[c].id
  <1>0. slot[c].pc = "undo" /\ slot[c].pc \in Uploading
    BY DEF UndoSave, Uploading
  <1>1. /\ i \in Ids /\ slot[c] \in Slot /\ StageAt("undo", i) /\ object[i] # "part"
        /\ file[i] \in FileRow
        /\ file[i].state # "unused" /\ i \notin doubtful => object[i] = "whole"
    BY <1>0, UploadFacts
  <1>2. temp \in [Ids -> OnDisk] /\ object \in [Ids -> OnDisk] /\ file \in [Ids -> FileRow]
    BY DEF IInv, TypeOK
  <1>3. CASE object' = [object EXCEPT ![i] = "none"] /\ UNCHANGED litter /\ Finish(c)
    <2>1. PICK r \in Slot : r.pc = "idle" /\ slot' = [slot EXCEPT ![c] = r]
      BY <1>3, IdleTyped DEF Finish, Issue
    <2>2. UNCHANGED <<temp, file, used, doubtful>>
      BY <1>3 DEF UndoSave
    <2> QED
      BY <2>1, <2>2, <1>0, <1>1, <1>2, <1>3, UploadStep
         DEF StageAt, Stage, Settled, Uploading, OnDisk
  <1>4. CASE litter' = litter \cup {i} /\ UNCHANGED object /\ Finish(c)
    <2>1. PICK r \in Slot : r.pc = "idle" /\ slot' = [slot EXCEPT ![c] = r]
      BY <1>4, IdleTyped DEF Finish, Issue
    <2>2. UNCHANGED <<temp, file, used, doubtful>>
      BY <1>4 DEF UndoSave
    <2> QED
      BY <2>1, <2>2, <1>0, <1>1, <1>2, <1>4, UploadStep
         DEF StageAt, Stage, Settled, Uploading, OnDisk
  <1> QED
    BY <1>3, <1>4 DEF UndoSave

LEMMA RecordKeeps == ASSUME IInv, NEW c \in Callers, RecordFile(c) PROVE IInv'
  <1> DEFINE i == slot[c].id
  <1> DEFINE row == NewRow(c)
  <1>0. slot[c].pc = "insert" /\ slot[c].pc \in Uploading
    BY DEF RecordFile, Uploading
  <1>1. /\ i \in Ids /\ slot[c] \in Slot /\ StageAt("insert", i) /\ object[i] # "part"
        /\ file[i] \in FileRow
        /\ file[i].state # "unused" /\ i \notin doubtful => object[i] = "whole"
    BY <1>0, UploadFacts
  <1>2. temp \in [Ids -> OnDisk] /\ object \in [Ids -> OnDisk] /\ file \in [Ids -> FileRow]
    BY DEF IInv, TypeOK
  <1>3. row \in FileRow /\ row.state = "live"
    BY <1>0, <1>1, NewRowTyped DEF IInv, VisitorsShare
  <1>4. UNCHANGED <<temp, object, used, litter>>
    BY DEF RecordFile
  <1>5. CASE file' = [file EXCEPT ![i] = row] /\ Finish(c) /\ UNCHANGED doubtful
    <2> HIDE DEF row
    <2>1. PICK r \in Slot : r.pc = "idle" /\ slot' = [slot EXCEPT ![c] = r]
      BY <1>5, IdleTyped DEF Finish, Issue
    <2> QED
      BY <2>1, <1>0, <1>1, <1>2, <1>3, <1>4, <1>5, UploadStep
         DEF StageAt, Stage, Settled, Uploading, OnDisk
  <1>6. CASE Goto(c, "undo") /\ UNCHANGED <<file, doubtful>>
    <2>1. PICK r \in Slot : /\ r.pc = "undo" /\ r.id = i /\ r.open = slot[c].open
                             /\ slot' = [slot EXCEPT ![c] = r]
      BY <1>0, <1>6, GotoRecord DEF Uploading
    <2> QED
      BY <2>1, <1>0, <1>1, <1>2, <1>4, <1>6, UploadStep
         DEF StageAt, Stage, Settled, Uploading, OnDisk
  <1>7. CASE /\ file' = [file EXCEPT ![i] = row]
            /\ doubtful' = doubtful \cup {i}
            /\ Goto(c, "undo")
    <2> HIDE DEF row
    <2>1. PICK r \in Slot : /\ r.pc = "undo" /\ r.id = i /\ r.open = slot[c].open
                             /\ slot' = [slot EXCEPT ![c] = r]
      BY <1>0, <1>7, GotoRecord DEF Uploading
    <2> QED
      BY <2>1, <1>0, <1>1, <1>2, <1>3, <1>4, <1>7, UploadStep
         DEF StageAt, Stage, Settled, Uploading, OnDisk
  <1> QED
    BY <1>5, <1>6, <1>7 DEF RecordFile

\* A request that ends, or one that looks for a row it may read.
LEMMA FinishKeeps ==
    ASSUME IInv, NEW c \in Callers, Finish(c), slot[c].pc \notin Uploading,
           UNCHANGED <<temp, object, used, doubtful, litter>>,
           file' \in [Ids -> FileRow],
           \A i \in Ids : Aged(file[i], file'[i])
    PROVE  IInv'
  <1>1. Aimed(Idle)
    BY DEF Aimed, Idle, Request
  <1> QED
    BY <1>1, IdleTyped, QuietStep DEF Finish, Issue

LEMMA SameRows ==
    ASSUME IInv, UNCHANGED file
    PROVE  file' \in [Ids -> FileRow] /\ \A i \in Ids : Aged(file[i], file'[i])
  BY DEF IInv, TypeOK, Aged

LEMMA ReadArrivesKeeps ==
    ASSUME IInv, NEW c \in Callers, serveFileByID(c) \/ DownloadFile(c)
    PROVE  IInv'
  <1>1. PICK i \in Ids : slot' = [slot EXCEPT ![c] = Request("openRow", i, FALSE, {})]
    <2>1. CASE serveFileByID(c)
      BY <2>1 DEF serveFileByID, Issue
    <2>2. CASE DownloadFile(c)
      BY <2>2 DEF DownloadFile, Issue
    <2> QED
      BY <2>1, <2>2
  <1> DEFINE r == Request("openRow", i, FALSE, {})
  <1>2. /\ r \in Slot /\ r.pc = "openRow" /\ r.pc \notin Uploading
        /\ slot' = [slot EXCEPT ![c] = r]
    BY <1>1 DEF Request, Slot, OnDisk, Uploading
  <1>3. Aimed(r)
    BY DEF Aimed, Request
  <1>4. /\ UNCHANGED <<temp, object, file, used, doubtful, litter>>
        /\ slot[c].pc \notin Uploading
    BY DEF serveFileByID, DownloadFile, Uploading
  <1> HIDE DEF r
  <1> QED
    BY <1>2, <1>3, <1>4, SameRows, QuietStep

LEMMA OpenRowKeeps == ASSUME IInv, NEW c \in Callers, OpenRow(c) PROVE IInv'
  <1>1. /\ UNCHANGED <<temp, object, file, used, doubtful, litter>>
        /\ slot[c].pc = "openRow" /\ slot[c].pc \notin Uploading
        /\ slot[c] \in Slot /\ Aimed(slot[c])
    BY DEF OpenRow, Uploading, IInv, TypeOK, Reads
  <1>2. CASE Finish(c)
    BY <1>1, <1>2, SameRows, FinishKeeps
  <1>3. CASE file[slot[c].id].state = "live" /\ Goto(c, "openObject")
    <2> DEFINE r == [slot[c] EXCEPT !.pc = "openObject"]
    <2>1. /\ r \in Slot /\ r.pc = "openObject" /\ r.pc \notin Uploading
          /\ r.id = slot[c].id /\ r.open = slot[c].open
          /\ slot' = [slot EXCEPT ![c] = r]
      BY <1>1, <1>3 DEF Slot, Goto, Uploading
    <2> HIDE DEF r
    <2>2. Aimed(r)
      BY <1>1, <1>3, <2>1 DEF Aimed
    <2> QED
      BY <1>1, <2>1, <2>2, SameRows, QuietStep
  <1> QED
    BY <1>2, <1>3 DEF OpenRow

LEMMA OpenObjectKeeps == ASSUME IInv, NEW c \in Callers, OpenObject(c) PROVE IInv'
  <1>1. /\ UNCHANGED <<temp, object, file, used, doubtful, litter>>
        /\ slot[c].pc = "openObject" /\ slot[c].pc \notin Uploading
        /\ slot[c] \in Slot /\ Aimed(slot[c])
    BY DEF OpenObject, Uploading, IInv, TypeOK, Reads
  <1>2. CASE Finish(c)
    BY <1>1, <1>2, SameRows, FinishKeeps
  <1>3. CASE /\ object[slot[c].id] # "none"
            /\ slot' = [slot EXCEPT ![c] =
                  [pc |-> "serving", id |-> slot[c].id, open |-> slot[c].open,
                   body |-> object[slot[c].id], todo |-> {}]]
    <2> DEFINE r == [pc |-> "serving", id |-> slot[c].id, open |-> slot[c].open,
                     body |-> object[slot[c].id], todo |-> {}]
    <2>1. slot[c].id \in Ids
      BY <1>1 DEF Aimed
    <2>2. object[slot[c].id] = "whole"
      BY <2>1, <1>3 DEF IInv, TypeOK, Unbroken, OnDisk
    <2>3. r \in Slot
      BY <1>1, <2>2 DEF Slot, OnDisk
    <2>4. slot' = [slot EXCEPT ![c] = r]
      BY <1>3
    <2>5. /\ r.pc = "serving" /\ r.pc \notin Uploading /\ r.body = "whole"
          /\ r.id = slot[c].id /\ r.open = slot[c].open
      BY <2>2 DEF Uploading
    <2> HIDE DEF r
    <2>6. Aimed(r)
      BY <1>1, <2>1, <2>5 DEF Aimed
    <2> QED
      BY <1>1, <2>3, <2>4, <2>5, <2>6, SameRows, QuietStep
  <1> QED
    BY <1>2, <1>3 DEF OpenObject, Issue

\* ServeBody and RequestFails only end the request.
LEMMA EndKeeps ==
    ASSUME IInv, NEW c \in Callers, ServeBody(c) \/ RequestFails(c)
    PROVE  IInv'
  <1>1. /\ UNCHANGED <<temp, object, file, used, doubtful, litter>>
        /\ slot[c].pc \notin Uploading /\ Finish(c)
    BY DEF ServeBody, RequestFails, Uploading
  <1> QED
    BY <1>1, SameRows, FinishKeeps

LEMMA StartDeleteKeeps == ASSUME IInv, NEW c \in Callers, StartDelete(c) PROVE IInv'
  <1>1. PICK ids \in SUBSET Ids :
            slot' = [slot EXCEPT ![c] = Request("delete", None, FALSE, ids)]
    BY DEF StartDelete, Issue
  <1> DEFINE r == Request("delete", None, FALSE, ids)
  <1>2. /\ r \in Slot /\ r.pc \notin Uploading /\ Aimed(r)
        /\ slot' = [slot EXCEPT ![c] = r]
    BY <1>1 DEF Request, Slot, OnDisk, Uploading, Aimed
  <1>3. /\ UNCHANGED <<temp, object, file, used, doubtful, litter>>
        /\ slot[c].pc \notin Uploading
    BY DEF StartDelete, Uploading
  <1> HIDE DEF r
  <1> QED
    BY <1>2, <1>3, SameRows, QuietStep

LEMMA NextInBatchKeeps ==
    ASSUME IInv, NEW c \in Callers, NEW i \in Ids, NextInBatch(c, i),
           slot[c].pc \notin Uploading,
           UNCHANGED <<temp, object, used, doubtful, litter>>,
           file' \in [Ids -> FileRow],
           \A j \in Ids : Aged(file[j], file'[j])
    PROVE  IInv'
  <1>1. CASE Finish(c)
    BY <1>1, FinishKeeps
  <1>2. CASE Issue(c, Request("delete", None, FALSE, slot[c].todo \ {i}))
    <2> DEFINE r == Request("delete", None, FALSE, slot[c].todo \ {i})
    <2>1. slot[c].todo \subseteq Ids
      BY DEF IInv, TypeOK, Slot
    <2>2. r \in Slot /\ r.pc \notin Uploading /\ Aimed(r)
      BY <2>1 DEF Request, Slot, OnDisk, Uploading, Aimed
    <2>3. slot' = [slot EXCEPT ![c] = r]
      BY <1>2 DEF Issue
    <2> HIDE DEF r
    <2> QED
      BY <2>2, <2>3, QuietStep
  <1> QED
    BY <1>1, <1>2 DEF NextInBatch

LEMMA DeleteLoadKeeps == ASSUME IInv, NEW c \in Callers, SoftDeleteLoad(c) PROVE IInv'
  <1>1. /\ UNCHANGED <<temp, object, file, used, doubtful, litter>>
        /\ slot[c].pc \notin Uploading /\ slot[c] \in Slot
    BY DEF SoftDeleteLoad, Uploading, IInv, TypeOK
  <1>2. PICK i \in slot[c].todo :
            \/ Issue(c, Request("deleteWrite", i, FALSE, slot[c].todo))
            \/ NextInBatch(c, i)
    BY DEF SoftDeleteLoad
  <1>3. i \in Ids
    BY <1>1 DEF Slot
  <1>4. CASE NextInBatch(c, i)
    BY <1>1, <1>3, <1>4, SameRows, NextInBatchKeeps
  <1>5. CASE Issue(c, Request("deleteWrite", i, FALSE, slot[c].todo))
    <2> DEFINE r == Request("deleteWrite", i, FALSE, slot[c].todo)
    <2>1. r \in Slot /\ r.pc \notin Uploading /\ Aimed(r)
      BY <1>1, <1>3 DEF Request, Slot, OnDisk, Uploading, Aimed
    <2>2. slot' = [slot EXCEPT ![c] = r]
      BY <1>5 DEF Issue
    <2> HIDE DEF r
    <2> QED
      BY <1>1, <2>1, <2>2, SameRows, QuietStep
  <1> QED
    BY <1>2, <1>4, <1>5

LEMMA DeleteWriteKeeps == ASSUME IInv, NEW c \in Callers, SoftDeleteWrite(c) PROVE IInv'
  <1> DEFINE i == slot[c].id
  <1>1. /\ UNCHANGED <<temp, object, used, doubtful, litter>>
        /\ slot[c].pc \notin Uploading /\ NextInBatch(c, i)
        /\ i \in Ids
    BY DEF SoftDeleteWrite, Uploading, IInv, Reads, Aimed
  <1>2. file \in [Ids -> FileRow]
    BY DEF IInv, TypeOK
  <1>3. CASE file' = file
    BY <1>1, <1>3, SameRows, NextInBatchKeeps
  <1>4. CASE file[i].state = "live" /\ file' = [file EXCEPT ![i].state = "trashed"]
    <2>1. file' = [file EXCEPT ![i] = [file[i] EXCEPT !.state = "trashed"]]
      BY <1>4
    <2>2. \A j \in Ids : Aged(file[j], file'[j])
      BY <1>1, <1>2, <1>4, <2>1 DEF Aged
    <2>3. file' \in [Ids -> FileRow]
      <3>1. [file[i] EXCEPT !.state = "trashed"] \in FileRow
        BY <1>1, <1>2 DEF FileRow
      <3> QED
        BY <3>1, <2>1, <1>2
    <2> QED
      BY <1>1, <2>2, <2>3, NextInBatchKeeps
  <1> QED
    BY <1>3, <1>4 DEF SoftDeleteWrite

LEMMA CrashKeeps == ASSUME IInv, Crash PROVE IInv'
  <1> USE DEF IInv
  <1>1. \A c \in Callers : slot'[c] = Idle
    BY DEF Crash
  <1>2. /\ UNCHANGED <<temp, object, file, used, doubtful>>
        /\ litter \subseteq litter'
        /\ \A c \in Callers : slot[c].pc \in Uploading => slot[c].id \in litter'
    BY DEF Crash
  <1>3. TypeOK'
    <2>1. litter' \subseteq Ids
      BY DEF Crash, TypeOK, Stages
    <2>2. slot' \in [Callers -> Slot]
      BY IdleTyped DEF Crash
    <2> QED
      BY <2>1, <2>2, <1>2 DEF TypeOK
  <1>4. Stages' /\ OneUploadPerId' /\ VisitorsShare'
    BY <1>1, IdleTyped DEF Stages, OneUploadPerId, VisitorsShare, Callers
  <1>5. FreshIsUntouched' /\ Unbroken' /\ RowHasObject'
    BY <1>2 DEF FreshIsUntouched, Unbroken, RowHasObject
  <1>6. NoLitter'
    BY <1>2 DEF NoLitter, Working
  <1>7. Reads'
    BY <1>1 DEF Reads, Aimed, Idle, Request
  <1> QED
    BY <1>3, <1>4, <1>5, <1>6, <1>7

-------------------------------------------------------------------------------
(***************************************************************************)
(* Theorems                                                                *)
(***************************************************************************)

LEMMA InitEstablishes == Init => IInv
  <1> SUFFICES ASSUME Init PROVE IInv
    OBVIOUS
  <1>1. TypeOK
    BY IdleTyped DEF Init, TypeOK, OnDisk, NoRow, FileRow
  <1>2. \A c \in Callers : slot[c] = Idle
    BY DEF Init
  <1>3. Stages /\ OneUploadPerId /\ VisitorsShare
    BY <1>2, IdleTyped DEF Stages, OneUploadPerId, VisitorsShare, Callers
  <1>4. FreshIsUntouched /\ Unbroken /\ RowHasObject /\ NoLitter
    BY DEF Init, NoRow, FreshIsUntouched, Unbroken, RowHasObject, NoLitter
  <1>5. Reads
    BY <1>2 DEF Reads, Aimed, Idle, Request
  <1> QED
    BY <1>1, <1>3, <1>4, <1>5 DEF IInv

LEMMA NextKeeps == IInv /\ [Next]_vars => IInv'
  <1> SUFFICES ASSUME IInv, [Next]_vars PROVE IInv'
    OBVIOUS
  <1>1. CASE UNCHANGED vars
    BY <1>1 DEF vars, IInv, TypeOK, Stages, StageAt, OneUploadPerId, VisitorsShare,
                FreshIsUntouched, Unbroken, RowHasObject, NoLitter, Working,
                Reads, Aimed
  <1>2. CASE Crash
    BY <1>2, CrashKeeps
  <1>3. ASSUME NEW c \in Callers, Arrive(c) PROVE IInv'
    <2>1. CASE UploadFile(c)
      BY <2>1, StartKeeps, FileAssumption DEF UploadFile
    <2>2. CASE PublicUpload(c)
      BY <2>2, StartKeeps DEF PublicUpload
    <2> QED
      BY <1>3, <2>1, <2>2, ReadArrivesKeeps, StartDeleteKeeps DEF Arrive
  <1>4. ASSUME NEW c \in Callers, Step(c) PROVE IInv'
    BY <1>4, CreateTempKeeps, CopyKeeps, RenameKeeps, CleanupKeeps, RecordKeeps,
       UndoKeeps, OpenRowKeeps, OpenObjectKeeps, EndKeeps, DeleteLoadKeeps,
       DeleteWriteKeeps
       DEF Step
  <1> QED
    BY <1>1, <1>2, <1>3, <1>4 DEF Next

(***************************************************************************)
(* The invariant of uploads, reads and deletes holds in every state.       *)
(***************************************************************************)
THEOREM AlwaysConsistent == Spec => []IInv
  BY InitEstablishes, NextKeeps, PTL DEF Spec

(***************************************************************************)
(* The variables of FileStore keep their types.                            *)
(***************************************************************************)
THEOREM FileTypeCorrect == Spec => []TypeOK
  <1>1. IInv => TypeOK
    BY DEF IInv
  <1> QED
    BY <1>1, AlwaysConsistent, PTL

(***************************************************************************)
(* Local.Save never shows a half-written object at a final key, for any    *)
(* number of concurrent uploads, failures and crashes.                     *)
(***************************************************************************)
THEOREM NothingHalfWrittenHolds == Spec => []NothingHalfWritten
  <1>1. IInv => NothingHalfWritten
    BY DEF IInv, Unbroken, Reads, Aimed, NothingHalfWritten
  <1> QED
    BY <1>1, AlwaysConsistent, PTL

(***************************************************************************)
(* Every row of t_file has its complete object, but for inserts that       *)
(* failed after their commit.                                              *)
(***************************************************************************)
THEOREM RowHasObjectHolds == Spec => []RowHasObject
  <1>1. IInv => RowHasObject
    BY DEF IInv
  <1> QED
    BY <1>1, AlwaysConsistent, PTL

(***************************************************************************)
(* A failed upload leaves nothing behind, but for crashes and failed       *)
(* removals.                                                               *)
(***************************************************************************)
THEOREM NoLitterHolds == Spec => []NoLitter
  <1>1. IInv => NoLitter
    BY DEF IInv
  <1> QED
    BY <1>1, AlwaysConsistent, PTL

-------------------------------------------------------------------------------
(***************************************************************************)
(* The refinement of FileShelf.                                            *)
(***************************************************************************)

shelf == [i \in Ids |-> Shelved(i)]

\* Nothing moves on the shelf while rows and objects stay as they are.
LEMMA ShelfStays ==
    ASSUME UNCHANGED <<file, object>>
    PROVE  shelf' = shelf
  BY DEF shelf, Shelved

\* An object or a row of one id changes and so at most that place on the shelf.
LEMMA ShelfChangesAt ==
    ASSUME NEW i \in Ids,
           \A j \in Ids \ {i} : file'[j] = file[j] /\ object'[j] = object[j]
    PROVE  shelf' = [shelf EXCEPT ![i] = Shelved(i)']
  BY DEF shelf, Shelved

LEMMA ShelfMoves ==
    ASSUME NEW i \in Ids,
           \A j \in Ids \ {i} : file'[j] = file[j] /\ object'[j] = object[j],
           \/ Shelved(i)' = Shelved(i)
           \/ Shelved(i) = "absent" /\ Shelved(i)' = "present"
           \/ Shelved(i) = "present" /\ Shelved(i)' = "gone"
    PROVE  [Shelf!ShelfNext]_shelf
  <1>1. shelf[i] = Shelved(i) /\ shelf' = [shelf EXCEPT ![i] = Shelved(i)']
    BY ShelfChangesAt DEF shelf
  <1>2. CASE Shelved(i)' = Shelved(i)
    BY <1>1, <1>2 DEF shelf
  <1>3. CASE Shelved(i) = "absent" /\ Shelved(i)' = "present"
    BY <1>1, <1>3 DEF Shelf!ShelfNext, Shelf!Put, shelf
  <1>4. CASE Shelved(i) = "present" /\ Shelved(i)' = "gone"
    BY <1>1, <1>4 DEF Shelf!ShelfNext, Shelf!Take, shelf
  <1> QED
    BY <1>2, <1>3, <1>4

LEMMA StepRefines ==
    ASSUME IInv, NEW c \in Callers, Step(c)
    PROVE  [Shelf!ShelfNext]_shelf
  <1>0. PICK i : i = slot[c].id
    OBVIOUS
  <1>1. CASE UNCHANGED <<file, object>>
    BY <1>1, ShelfStays
  <1>2. CASE RenameTemp(c)
    <2>1. i \in Ids /\ file[i].state = "unused"
      BY <1>0, <1>2, UploadFacts DEF RenameTemp, Uploading, StageAt, Stage
    <2>2. file' = file /\ \A j \in Ids \ {i} : object'[j] = object[j]
      BY <1>0, <1>2 DEF RenameTemp, IInv, TypeOK
    <2>3. Shelved(i)' = Shelved(i)
      BY <2>1, <2>2 DEF Shelved
    <2> QED
      BY <2>1, <2>2, <2>3, ShelfMoves
  <1>3. CASE RecordFile(c)
    <2>1. /\ i \in Ids /\ file[i].state = "unused" /\ object[i] = "whole"
      BY <1>0, <1>3, UploadFacts DEF RecordFile, Uploading, StageAt, Stage
    <2>2. object' = object /\ (file' = file \/ file' = [file EXCEPT ![i] = NewRow(c)])
      BY <1>0, <1>3 DEF RecordFile
    <2>3. CASE file' = file
      BY <2>2, <2>3, <1>1
    <2>4. CASE file' = [file EXCEPT ![i] = NewRow(c)]
      <3>1. file'[i].state = "live" /\ \A j \in Ids \ {i} : file'[j] = file[j]
        BY <2>1, <2>4 DEF NewRow, IInv, TypeOK
      <3>2. Shelved(i) = "absent" /\ Shelved(i)' = "present"
        BY <2>1, <2>2, <3>1 DEF Shelved
      <3> QED
        BY <2>1, <2>2, <3>1, <3>2, ShelfMoves
    <2> QED
      BY <2>2, <2>3, <2>4
  <1>4. CASE UndoSave(c)
    <2>1. i \in Ids /\ object[i] = "whole"
      BY <1>0, <1>4, UploadFacts DEF UndoSave, Uploading, StageAt, Stage
    <2>2. /\ file' = file
          /\ object' = object \/ object' = [object EXCEPT ![i] = "none"]
      BY <1>0, <1>4 DEF UndoSave
    <2>3. CASE object' = object
      BY <2>2, <2>3, <1>1
    <2>4. CASE object' = [object EXCEPT ![i] = "none"]
      <3>1. object'[i] = "none" /\ \A j \in Ids \ {i} : object'[j] = object[j]
        BY <2>1, <2>4 DEF IInv, TypeOK
      <3>2. \/ Shelved(i)' = Shelved(i)
            \/ Shelved(i) = "present" /\ Shelved(i)' = "gone"
        BY <2>1, <2>2, <3>1 DEF Shelved
      <3> QED
        BY <2>1, <2>2, <3>1, <3>2, ShelfMoves
    <2> QED
      BY <2>2, <2>3, <2>4
  <1>5. CASE SoftDeleteWrite(c)
    <2>1. i \in Ids /\ object' = object
      BY <1>0, <1>5 DEF SoftDeleteWrite, IInv, Reads, Aimed
    <2>2. CASE file' = file
      BY <2>1, <2>2, <1>1
    <2>3. CASE file[i].state = "live" /\ file' = [file EXCEPT ![i].state = "trashed"]
      <3>1. file \in [Ids -> FileRow]
        BY DEF IInv, TypeOK
      <3>2. file'[i].state = "trashed" /\ \A j \in Ids \ {i} : file'[j] = file[j]
        BY <2>1, <2>3, <3>1 DEF FileRow
      <3>3. \/ Shelved(i)' = Shelved(i)
            \/ Shelved(i) = "present" /\ Shelved(i)' = "gone"
        BY <2>1, <2>3, <3>2 DEF Shelved
      <3> QED
        BY <2>1, <3>2, <3>3, ShelfMoves
    <2> QED
      BY <1>0, <1>5, <2>2, <2>3 DEF SoftDeleteWrite
  <1>6. CASE \/ CreateTemp(c) \/ CopyToTemp(c) \/ CleanupTemp(c) \/ OpenRow(c)
            \/ OpenObject(c) \/ ServeBody(c) \/ SoftDeleteLoad(c) \/ RequestFails(c)
    BY <1>1, <1>6 DEF CreateTemp, CopyToTemp, CleanupTemp, OpenRow, OpenObject, ServeBody,
                      SoftDeleteLoad, RequestFails
  <1> QED
    BY <1>2, <1>3, <1>4, <1>5, <1>6 DEF Step

(***************************************************************************)
(* The database row and the object on disk, written by separate calls any  *)
(* of which may fail, implement one shelf on which uploads are atomic.     *)
(***************************************************************************)
THEOREM UploadsAreAtomicHolds == Spec => UploadsAreAtomic
  <1>1. Init => Shelf!ShelfInit
    BY DEF Init, NoRow, Shelved, Shelf!ShelfInit
  <1>2. IInv /\ [Next]_vars => [Shelf!ShelfNext]_shelf
    <2> SUFFICES ASSUME IInv, [Next]_vars PROVE [Shelf!ShelfNext]_shelf
      OBVIOUS
    <2>1. CASE UNCHANGED vars
      BY <2>1, ShelfStays DEF vars
    <2>2. CASE Crash
      BY <2>2, ShelfStays DEF Crash
    <2>3. ASSUME NEW c \in Callers, Arrive(c) PROVE [Shelf!ShelfNext]_shelf
      BY <2>3, ShelfStays DEF Arrive, UploadFile, PublicUpload, StartUpload, serveFileByID,
                                 DownloadFile, StartDelete
    <2>4. ASSUME NEW c \in Callers, Step(c) PROVE [Shelf!ShelfNext]_shelf
      BY <2>4, StepRefines
    <2> QED
      BY <2>1, <2>2, <2>3, <2>4 DEF Next
  <1> QED
    BY <1>1, <1>2, AlwaysConsistent, PTL DEF Spec, UploadsAreAtomic, Shelf!ShelfSpec, shelf
=============================================================================

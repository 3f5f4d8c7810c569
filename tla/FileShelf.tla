------------------------------ MODULE FileShelf ------------------------------
(***************************************************************************)
(* What the file routes promise: an upload puts the complete file on the   *)
(* shelf in one step or not at all, a file that left the shelf never comes *)
(* back, and nothing is ever on the shelf in part.                         *)
(***************************************************************************)
CONSTANT Ids

VARIABLE shelf

ShelfInit == shelf = [i \in Ids |-> "absent"]

Put(i) ==
    /\ shelf[i] = "absent"
    /\ shelf' = [shelf EXCEPT ![i] = "present"]

Take(i) ==
    /\ shelf[i] = "present"
    /\ shelf' = [shelf EXCEPT ![i] = "gone"]

ShelfNext == \E i \in Ids : Put(i) \/ Take(i)

ShelfSpec == ShelfInit /\ [][ShelfNext]_shelf
=============================================================================

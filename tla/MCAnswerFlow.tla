---------------------------- MODULE MCAnswerFlow ----------------------------
(***************************************************************************)
(* AnswerFlow on small instances.  The constants are model values given in *)
(* the .cfg files; sets whose members play the same role are symmetric.    *)
(***************************************************************************)
EXTENDS AnswerFlow, TLC

Symmetry == Permutations(AnswerIds)
=============================================================================

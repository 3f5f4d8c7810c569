----------------------------- MODULE MCCatalog ------------------------------
(***************************************************************************)
(* Catalog for TLC: one request with a list of two, one with a single id.  *)
(***************************************************************************)
EXTENDS Catalog, TLC

CONSTANTS r1, r2

MCMaxTasks == (r1 :> 2) @@ (r2 :> 1)

\* Ids are only compared.
Symmetry == Permutations(Ids)
=============================================================================

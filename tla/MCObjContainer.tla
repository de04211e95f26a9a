--------------------------- MODULE MCObjContainer ---------------------------
(* Small instances of ObjContainer for TLC. *)
EXTENDS ObjContainer, TLC

CONSTANTS o1, o2

\* One bucket, and one bucket for each object.
HashSame == (o1 :> 1 @@ o2 :> 1)
HashApart == (o1 :> 1 @@ o2 :> 2)

Symmetry == Permutations(Threads \ Walkers)
=============================================================================

---------------------------- MODULE MCTaskQueue ----------------------------
(* Small instances of TaskQueue for TLC. *)
EXTENDS TaskQueue, TLC

\* Users and tasks are interchangeable, and so are the objects an allocation
\* may return.
Symmetry == Permutations(Users) \cup Permutations(Queues) \cup Permutations(Tasks)
=============================================================================

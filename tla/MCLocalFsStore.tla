--------------------------- MODULE MCLocalFsStore ---------------------------
(* Instances of LocalFsStore for TLC. *)
EXTENDS LocalFsStore, TLC

\* Ids, tasks and bodies are interchangeable: no definition orders them.
Symmetry == Permutations(Ids) \cup Permutations(Reqs) \cup Permutations(Bodies)
=============================================================================

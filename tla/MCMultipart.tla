---------------------------- MODULE MCMultipart ----------------------------
(* Instances of Multipart for TLC. *)
EXTENDS Multipart, TLC

\* Object ids and tasks are interchangeable: no definition orders them.
Symmetry == Permutations(Ids) \cup Permutations(Reqs)
=============================================================================

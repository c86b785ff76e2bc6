--------------------------- MODULE MCFamilyAccess ---------------------------
(* FamilyAccess with interchangeable slots and users. *)
EXTENDS FamilyAccess, TLC

Symmetric == Permutations(Requests) \cup Permutations(Users)
=============================================================================

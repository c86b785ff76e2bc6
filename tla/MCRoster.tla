------------------------------ MODULE MCRoster ------------------------------
(* Roster with interchangeable slots, players and categories. *)
EXTENDS Roster, TLC

Symmetric ==
  Permutations(Requests) \cup Permutations(Players) \cup Permutations(Categories)
=============================================================================

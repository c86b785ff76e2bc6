---------------------------- MODULE MCWebSession ----------------------------
(***************************************************************************)
(* An instance of WebSession for TLC.                                      *)
(***************************************************************************)
EXTENDS WebSession, FiniteSets, TLC

CONSTANT MaxEvents  \* bound on what happens around the web server

\* The slots are interchangeable.
Slots == Permutations(Requests)

\* Tokens that age, are refused or closed, and failures: every mixture of them is
\* explored up to this size.  No step of the web server adds to it.
FewEvents ==
  Cardinality({g \in Pairs : tokens[g].age # "fresh"})
    + Cardinality({g \in Pairs : ~tokens[g].accepted})
    + failures + (IF intent = "over" THEN 1 ELSE 0) <= MaxEvents
=============================================================================

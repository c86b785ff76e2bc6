----------------------------- MODULE MCSessions -----------------------------
(***************************************************************************)
(* An instance of Sessions for TLC.                                        *)
(***************************************************************************)
EXTENDS Sessions, FiniteSets, TLC

CONSTANT MaxEvents  \* bound on the events below together

\* The slots are interchangeable.
Slots == Permutations(Requests)

Old == {s \in Ids : ~sessions[s].fresh \/ sessions[s].state = "gone"}

\* Every mixture of sessions opened, passwords written, links mailed, failures,
\* closed locks, tokens blacklisted and sessions aged or purged is explored up
\* to this size.
FewEvents ==
  issued + (writes - 1) + mailed + failures + Cardinality(Shut) + Cardinality(blacklist)
    + Cardinality(Old) <= MaxEvents
=============================================================================

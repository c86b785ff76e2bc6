---------------------------- MODULE MCMatchClock ----------------------------
(***************************************************************************)
(* Instances of MatchClock for TLC.                                        *)
(***************************************************************************)
EXTENDS MatchClock, TLC

\* The slots are interchangeable.
Slots == Permutations(Requests)
=============================================================================

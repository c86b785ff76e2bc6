----------------------------- MODULE MatchLedger -----------------------------
(***************************************************************************)
(* What the backend promises about the actions of one match, with every    *)
(* operation a single step: the life cycle of the match (docs/dominio.md,  *)
(* packages/shared/src/match.ts), live capture while it is in progress     *)
(* (RN-08), corrections for a while after it (RN-16), voiding that keeps   *)
(* the entry (RN-13), undoing that removes a live one, and a cancellation  *)
(* that voids everything.                                                  *)
(***************************************************************************)
CONSTANT Captures

VARIABLES
  phase,   \* the status of the match
  window,  \* corrections are open
  entry    \* entry[c]: what the ledger holds of capture c

ledger == <<phase, window, entry>>

EntryStates == {"none", "live", "corrected", "voided"}
InForce == {"live", "corrected"}

LedgerTypeOK ==
  /\ phase \in {"scheduled", "in_progress", "finished", "cancelled"}
  /\ window \in BOOLEAN
  /\ entry \in [Captures -> EntryStates]

LedgerInit ==
  /\ phase = "scheduled"
  /\ window = FALSE
  /\ entry = [c \in Captures |-> "none"]

KickOff ==
  /\ phase = "scheduled"
  /\ phase' = "in_progress"
  /\ UNCHANGED <<window, entry>>

FinalWhistle ==
  /\ phase = "in_progress"
  /\ phase' = "finished"
  /\ window' = TRUE
  /\ UNCHANGED entry

CallOff ==
  /\ phase \in {"scheduled", "in_progress"}
  /\ phase' = "cancelled"
  /\ entry' = [c \in Captures |-> IF entry[c] \in InForce THEN "voided" ELSE entry[c]]
  /\ UNCHANGED window

CloseWindow ==
  /\ window
  /\ window' = FALSE
  /\ UNCHANGED <<phase, entry>>

Set(c, state) ==
  /\ entry' = [entry EXCEPT ![c] = state]
  /\ UNCHANGED <<phase, window>>

Record(c) ==
  /\ entry[c] = "none"
  /\ \/ phase = "in_progress" /\ Set(c, "live")
     \/ phase = "finished" /\ window /\ Set(c, "corrected")

Void(c) ==
  /\ entry[c] \in InForce
  /\ phase = "in_progress" \/ (phase = "finished" /\ window)
  /\ Set(c, "voided")

Undo(c) ==
  /\ entry[c] = "live"
  /\ phase = "in_progress"
  /\ Set(c, "none")

LedgerNext ==
  \/ KickOff \/ FinalWhistle \/ CallOff \/ CloseWindow
  \/ \E c \in Captures : Record(c) \/ Void(c) \/ Undo(c)

LedgerSpec == LedgerInit /\ [][LedgerNext]_ledger
=============================================================================

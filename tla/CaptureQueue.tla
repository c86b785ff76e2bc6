---------------------------- MODULE CaptureQueue ----------------------------
(***************************************************************************)
(* The capture board in the coach's browser: the history on screen, the    *)
(* submissions behind it with their automatic retries, what is kept in     *)
(* local storage across reloads, and the requests and answers on the way   *)
(* to a backend that keeps the promises of MatchLedger.                    *)
(*                                                                         *)
(* The browser gives up on a request whenever the connection fails; the    *)
(* request may still reach the backend later.  A capture is known by its   *)
(* clientActionId, and its rows in the backend are numbered in the order   *)
(* they are inserted.  IndexedDB is left out: what is written to it is     *)
(* never read back into the history.                                       *)
(***************************************************************************)
EXTENDS Naturals

CONSTANTS
  Captures,     \* clientActionIds
  Restorable,   \* captures whose action code is a string, as isEntry wants it: none in
                \* the program, where every code is a number
  Commands,     \* commands the coach gives: subset of {"undo", "void"}
  CAPTURE_MAX_AUTO_RETRIES,
  MaxLate,      \* bound: requests given up on and still on their way, per capture
  MaxRows,      \* bound: rows inserted per capture
  MaxReloads    \* bound: times the page is closed

ASSUME CapturesAssumption == Restorable \subseteq Captures /\ Commands \subseteq {"undo", "void"}
ASSUME BoundsAssumption ==
  CAPTURE_MAX_AUTO_RETRIES \in Nat /\ MaxLate \in Nat /\ MaxRows \in Nat /\ MaxReloads \in Nat

VARIABLES
  phase, window, ledger,  \* the backend (MatchLedger)
  inserted,   \* inserted[c]: rows inserted for c so far; the last one is its row
  open,       \* the page is open
  reloads,    \* times it has been closed
  unsent,     \* history variable: captures not confirmed when it was closed on them
  enqueued,   \* history variable: captures the coach has made
  history,    \* history[c]: the entry of c on screen
  stored,     \* stored[c]: the entry of c kept in local storage
  tries,      \* tries[c]: failed attempts of the submission of c
  post,       \* post[c]: the attempt under way
  late,       \* late[c]: attempts given up on that may still arrive
  command,    \* command[c]: the undo or void request of c
  list        \* the request for the actions of the match, made when loading

backend == <<phase, window, ledger, inserted>>
page == <<open, reloads, unsent>>
net == <<post, late>>
vars == <<phase, window, ledger, inserted, open, reloads, unsent, enqueued, history,
          stored, tries, post, late, command, list>>

Backend == INSTANCE MatchLedger WITH entry <- ledger

\* An entry: how its sending goes, and the row of the backend it shows, if any.
Absent == [send |-> "absent", row |-> 0, voided |-> FALSE]
NewEntry == [Absent EXCEPT !.send = "sending"]
Unconfirmed == {"sending", "failed"}
Confirmed(row, voided) == [send |-> "confirmed", row |-> row, voided |-> voided]

\* A submission: none, waiting for its retry, on its way, answered, or failed and
\* writing to IndexedDB.
NoPost == [at |-> "idle", row |-> 0, voided |-> FALSE]
Post(at) == [NoPost EXCEPT !.at = at]
Answer(row, voided) == [at |-> "accepted", row |-> row, voided |-> voided]

NoCommand == [at |-> "none", kind |-> "none", row |-> 0]
NoList == [at |-> "none", rows |-> [c \in Captures |-> Absent]]

\* inFlightRef
InFlight(c) == post[c].at # "idle"

-----------------------------------------------------------------------------
Init ==
  /\ Backend!LedgerInit
  /\ inserted = [c \in Captures |-> 0]
  /\ open = TRUE
  /\ reloads = 0
  /\ unsent = {}
  /\ enqueued = {}
  /\ history = [c \in Captures |-> Absent]
  /\ stored = [c \in Captures |-> Absent]
  /\ tries = [c \in Captures |-> 0]
  /\ post = [c \in Captures |-> NoPost]
  /\ late = [c \in Captures |-> 0]
  /\ command = [c \in Captures |-> NoCommand]
  /\ list = NoList

\* writePendingCaptures: everything on screen that is not confirmed.
Pending(h) == [c \in Captures |-> IF h[c].send \in Unconfirmed THEN h[c] ELSE Absent]

\* Every change of the history is followed by the effect that stores it.
Show(h) == history' = h /\ stored' = Pending(h)

\* patchEntry changes the entry if it is still there.
Patched(c, e) == IF history[c] = Absent THEN history ELSE [history EXCEPT ![c] = e]

\* runSubmit, for each entry of h in cs that has no submission under way.
Submit(cs, h) ==
  LET fresh == {c \in cs : ~InFlight(c)} IN
  /\ Show([c \in Captures |-> IF c \in fresh THEN [h[c] EXCEPT !.send = "sending"] ELSE h[c]])
  /\ tries' = [c \in Captures |-> IF c \in fresh THEN 0 ELSE tries[c]]
  /\ post' = [c \in Captures |-> IF c \in fresh THEN Post("sent") ELSE post[c]]

-----------------------------------------------------------------------------
(* The coach *)

\* The board is unlocked once the match has started; the status it shows may be
\* out of date.
enqueueCapture(c) ==
  /\ open
  /\ phase # "scheduled"
  /\ c \notin enqueued
  /\ enqueued' = enqueued \cup {c}
  /\ Submit({c}, [history EXCEPT ![c] = NewEntry])
  /\ UNCHANGED <<backend, page, late, command, list>>

retryEntry(c) ==
  /\ history[c].send = "failed"
  /\ Submit({c}, history)
  /\ UNCHANGED <<backend, page, enqueued, late, command, list>>

\* The browser is back online.
onOnline ==
  LET failed == {c \in Captures : history[c].send = "failed"} IN
  /\ failed # {}
  /\ Submit(failed, history)
  /\ UNCHANGED <<backend, page, enqueued, late, command, list>>

\* immediateUndo and voidEntry, offered for confirmed entries in force; the
\* bound is one command per capture at a time.
Command(c, kind) ==
  /\ kind \in Commands
  /\ history[c].send = "confirmed" /\ ~history[c].voided
  /\ command[c] = NoCommand
  /\ command' = [command EXCEPT ![c] = [at |-> "sent", kind |-> kind, row |-> history[c].row]]
  /\ UNCHANGED <<backend, page, enqueued, history, stored, tries, net, list>>

\* Closing or reloading the page loses everything in memory; what was sent may
\* still arrive.
Close ==
  /\ open /\ reloads < MaxReloads
  /\ open' = FALSE
  /\ reloads' = reloads + 1
  /\ unsent' = unsent \cup {c \in Captures : history[c].send \in Unconfirmed}
  /\ history' = [c \in Captures |-> Absent]
  /\ tries' = [c \in Captures |-> 0]
  /\ post' = [c \in Captures |-> NoPost]
  /\ late' = [c \in Captures |-> IF post[c].at = "sent" /\ late[c] < MaxLate
                                    THEN late[c] + 1 ELSE late[c]]
  /\ command' = [c \in Captures |-> IF command[c].at = "sent"
                                      THEN [command[c] EXCEPT !.at = "late"]
                                      ELSE IF command[c].at = "late" THEN command[c] ELSE NoCommand]
  /\ list' = NoList
  /\ UNCHANGED <<backend, enqueued, stored>>

\* On mounting, what can be read back is shown and sent again.  With nothing to
\* show the storage is left as it is, until the history first changes.
Mount ==
  LET pending == {c \in Restorable : stored[c] # Absent} IN
  /\ ~open
  /\ open' = TRUE
  /\ IF pending = {} THEN UNCHANGED <<history, stored, tries, post>>
     ELSE Submit(pending, [c \in Captures |-> IF c \in pending THEN stored[c] ELSE history[c]])
  /\ UNCHANGED <<backend, reloads, unsent, enqueued, late, command, list>>

-----------------------------------------------------------------------------
(* The backend *)

\* What registering c amounts to: a new row, or the one already there.
Register(c) ==
  \/ /\ inserted[c] < MaxRows    \* bound
     /\ Backend!Record(c)
     /\ inserted' = [inserted EXCEPT ![c] = @ + 1]
  \/ /\ ledger[c] # "none"
     /\ phase = "in_progress" \/ (phase = "finished" /\ window)
     /\ UNCHANGED backend

ReceivePost(c) ==
  /\ post[c].at = "sent"
  /\ \/ /\ Register(c)
        /\ post' = [post EXCEPT ![c] = Answer(inserted'[c], ledger'[c] = "voided")]
     \/ post' = [post EXCEPT ![c].at = "refused"] /\ UNCHANGED backend
  /\ UNCHANGED <<page, enqueued, history, stored, tries, late, command, list>>

ReceiveLatePost(c) ==
  /\ late[c] > 0
  /\ late' = [late EXCEPT ![c] = @ - 1]
  /\ Register(c) \/ UNCHANGED backend
  /\ UNCHANGED <<page, enqueued, history, stored, tries, post, command, list>>

\* The request names the row: one already removed is refused.
Obey(c) ==
  /\ command[c].row = inserted[c]
  /\ \/ command[c].kind = "undo" /\ Backend!Undo(c)
     \/ command[c].kind = "void" /\ Backend!Void(c)
  /\ UNCHANGED inserted

ReceiveCommand(c) ==
  /\ \/ /\ command[c].at = "sent"
        /\ \/ Obey(c) /\ command' = [command EXCEPT ![c].at = "accepted"]
           \/ UNCHANGED backend /\ command' = [command EXCEPT ![c].at = "refused"]
     \/ /\ command[c].at = "late"
        /\ Obey(c) \/ UNCHANGED backend
        /\ command' = [command EXCEPT ![c] = NoCommand]
  /\ UNCHANGED <<page, enqueued, history, stored, tries, net, list>>

ReceiveList ==
  /\ list.at = "sent"
  /\ list' = [at |-> "answered",
              rows |-> [c \in Captures |-> IF ledger[c] = "none" THEN Absent
                                           ELSE Confirmed(inserted[c], ledger[c] = "voided")]]
  /\ UNCHANGED <<backend, page, enqueued, history, stored, tries, net, command>>

\* The match goes on, and others void actions.
Elsewhere ==
  /\ \/ Backend!KickOff \/ Backend!FinalWhistle \/ Backend!CallOff \/ Backend!CloseWindow
     \/ \E c \in Captures : Backend!Void(c)
  /\ UNCHANGED <<inserted, page, enqueued, history, stored, tries, net, command, list>>

-----------------------------------------------------------------------------
(* Answers *)

\* Mutant: any answer will do.
MutPostSucceedsOnRefusal(c) ==
  /\ post[c].at \in {"accepted", "refused"}
  /\ Show(Patched(c, Confirmed(post[c].row, post[c].voided)))
  /\ post' = [post EXCEPT ![c] = NoPost]
  /\ UNCHANGED <<backend, page, enqueued, tries, late, command, list>>

PostSucceeds(c) ==
  /\ post[c].at = "accepted"
  /\ Show(Patched(c, Confirmed(post[c].row, post[c].voided)))
  /\ post' = [post EXCEPT ![c] = NoPost]
  /\ UNCHANGED <<backend, page, enqueued, tries, late, command, list>>

\* The attempt ends in an error: a refusal, or a connection that fails before
\* or after the request has been served.
AttemptLost(c) ==
  \/ post[c].at = "sent" /\ late[c] < MaxLate /\ late' = [late EXCEPT ![c] = @ + 1]
  \/ post[c].at \in {"sent", "accepted", "refused"} /\ UNCHANGED late

\* Mutant: there is always another attempt.
MutPostFailsForever(c) ==
  /\ AttemptLost(c)
  /\ post' = [post EXCEPT ![c] = Post("waiting")]
  /\ UNCHANGED <<backend, page, enqueued, tries, history, stored, command, list>>

PostFails(c) ==
  /\ AttemptLost(c)
  /\ \/ /\ tries[c] < CAPTURE_MAX_AUTO_RETRIES
        /\ tries' = [tries EXCEPT ![c] = @ + 1]
        /\ post' = [post EXCEPT ![c] = Post("waiting")]
        /\ UNCHANGED <<history, stored>>
     \/ /\ tries[c] = CAPTURE_MAX_AUTO_RETRIES
        /\ post' = [post EXCEPT ![c] = Post("saving")]
        /\ Show(Patched(c, [history[c] EXCEPT !.send = "failed"]))
        /\ UNCHANGED tries
  /\ UNCHANGED <<backend, page, enqueued, command, list>>

\* The copy in IndexedDB is written, or could not be; until then the entry
\* cannot be sent again.
PostSaved(c) ==
  /\ post[c].at = "saving"
  /\ post' = [post EXCEPT ![c] = NoPost]
  /\ UNCHANGED <<backend, page, enqueued, history, stored, tries, late, command, list>>

\* The delay before the next attempt is over.
Resend(c) ==
  /\ post[c].at = "waiting"
  /\ post' = [post EXCEPT ![c] = Post("sent")]
  /\ UNCHANGED <<backend, page, enqueued, history, stored, tries, late, command, list>>

\* Mutant: an undo that fails drops the entry too.
MutCommandEndsAlways(c) ==
  /\ command[c].at \in {"accepted", "refused"}
  /\ Show(Patched(c, Absent))
  /\ command' = [command EXCEPT ![c] = NoCommand]
  /\ UNCHANGED <<backend, page, enqueued, tries, net, list>>

\* A command accepted takes effect on screen; one that failed changes nothing.
CommandEnds(c) ==
  /\ \/ /\ command[c].at = "accepted"
        /\ command[c].kind = "undo" /\ Show(Patched(c, Absent))
        /\ command' = [command EXCEPT ![c] = NoCommand]
     \/ /\ command[c].at = "accepted"
        /\ command[c].kind = "void" /\ Show(Patched(c, [history[c] EXCEPT !.voided = TRUE]))
        /\ command' = [command EXCEPT ![c] = NoCommand]
     \/ /\ command[c].at \in {"accepted", "refused"}
        /\ command' = [command EXCEPT ![c] = NoCommand]
        /\ UNCHANGED <<history, stored>>
     \/ /\ command[c].at = "sent"
        /\ command' = [command EXCEPT ![c].at = "late"]
        /\ UNCHANGED <<history, stored>>
  /\ UNCHANGED <<backend, page, enqueued, tries, net, list>>

\* load, which the board repeats as it renders; one request at a time.
Load ==
  /\ open /\ list = NoList
  /\ list' = [list EXCEPT !.at = "sent"]
  /\ UNCHANGED <<backend, page, enqueued, history, stored, tries, net, command>>

\* Mutant: what the server holds is all that is shown.
MutMergedReplaces(rows) == rows

\* upsertFromServer: what the server holds replaces the entries, but does not
\* change how the sending of an unconfirmed one goes; nothing is taken off the
\* screen.
Merged(rows) ==
  [c \in Captures |->
     IF rows[c] = Absent THEN history[c]
     ELSE IF history[c].send \in Unconfirmed THEN [rows[c] EXCEPT !.send = history[c].send]
     ELSE rows[c]]

\* A load that fails offline ends in an upsert of nothing, any other in an error.
Loaded ==
  /\ \/ list.at # "none" /\ Show(Merged(list.rows))
     \/ list.at = "sent" /\ UNCHANGED <<history, stored>>
  /\ list' = NoList
  /\ UNCHANGED <<backend, page, enqueued, tries, net, command>>

-----------------------------------------------------------------------------
Coach(c) ==
  enqueueCapture(c) \/ retryEntry(c) \/ Command(c, "undo") \/ Command(c, "void")
Network(c) ==
  \/ ReceivePost(c) \/ ReceiveLatePost(c) \/ ReceiveCommand(c)
  \/ PostSucceeds(c) \/ PostFails(c) \/ PostSaved(c) \/ Resend(c) \/ CommandEnds(c)

Next ==
  \/ \E c \in Captures : Coach(c) \/ Network(c)
  \/ onOnline \/ Close \/ Mount \/ Load \/ ReceiveList \/ Loaded \/ Elsewhere

Spec == Init /\ [][Next]_vars

\* The browser ends every request one way or the other, timers fire, and
\* IndexedDB answers.
SubmissionFairness(c) ==
  /\ WF_vars(PostSucceeds(c) \/ PostFails(c))
  /\ WF_vars(Resend(c))
  /\ WF_vars(PostSaved(c))

FairSpec == Spec /\ \A c \in Captures : SubmissionFairness(c)

-----------------------------------------------------------------------------
Sends == {"absent", "sending", "failed", "confirmed"}
Rows == 0..MaxRows
EntryType == [send : Sends, row : Rows, voided : BOOLEAN]
PostType == [at : {"idle", "waiting", "sent", "accepted", "refused", "saving"},
             row : Rows, voided : BOOLEAN]
CommandType == [at : {"none", "sent", "accepted", "refused", "late"},
                kind : {"none"} \cup Commands, row : Rows]
ListType == [at : {"none", "sent", "answered"}, rows : [Captures -> EntryType]]

\* The type of the state: queues and counters stay within their bounds.
TypeOK ==
  /\ Backend!LedgerTypeOK
  /\ inserted \in [Captures -> Rows]
  /\ open \in BOOLEAN
  /\ reloads \in 0..MaxReloads
  /\ unsent \subseteq Captures
  /\ enqueued \subseteq Captures
  /\ history \in [Captures -> EntryType]
  /\ stored \in [Captures -> EntryType]
  /\ tries \in [Captures -> 0..CAPTURE_MAX_AUTO_RETRIES]
  /\ post \in [Captures -> PostType]
  /\ late \in [Captures -> 0..MaxLate]
  /\ command \in [Captures -> CommandType]
  /\ list \in ListType

\* What the comment on the storage claims: a capture the coach has made is on screen,
\* or in local storage to be taken up when the page opens again, or has reached the
\* backend, so that neither closing the page nor losing the connection loses it.
NoCaptureLost ==
  \A c \in enqueued : history[c] # Absent \/ stored[c] # Absent \/ inserted[c] > 0

\* Nothing but closing the page on it loses a capture: one that has not reached the
\* backend stays on screen, where the coach can send it again, through failed attempts,
\* undos, loads and stale lists, unless the page was closed before it was confirmed.
OnlyClosingLosesCaptures ==
  \A c \in enqueued : history[c] # Absent \/ inserted[c] > 0 \/ c \in unsent

\* What the board shows as being sent has a submission behind it that will
\* change what is shown; the board has no other way out of "sending".
SendingIsBeingSent ==
  \A c \in Captures :
    history[c].send = "sending" => post[c].at \in {"waiting", "sent", "accepted", "refused"}

\* What the board shows as confirmed, or as voided, the backend has done: late
\* attempts, undos and stale lists in between included.
ConfirmedIsTrue ==
  \A c \in Captures :
    /\ history[c].send = "confirmed" => history[c].row \in 1..inserted[c]
    /\ history[c].voided => ledger[c] = "voided" /\ history[c].row = inserted[c]

\* The board takes an entry off the screen, while the page stays open, only if
\* the row it asked to undo is gone from the backend.
NeverForgetsALiveAction ==
  [][\A c \in Captures :
       (open /\ open' /\ history[c] # Absent /\ history'[c] = Absent)
         => ledger[c] = "none" \/ inserted[c] > command[c].row]_vars

\* An entry shown as confirmed is never sent again, nor shown as failed because
\* of a submission still going on behind it.
ConfirmedStaysConfirmed ==
  [][\A c \in Captures :
       history[c].send = "confirmed" => history'[c].send \in {"confirmed", "absent"}]_vars

\* No entry stays "sending": its retries run out, and the coach gets a failed
\* entry to send again by hand.
SubmissionsEnd ==
  \A c \in Captures : history[c].send = "sending" ~> history[c].send # "sending"

\* Sending a capture again never makes a second action of it.
ResendingNeverDuplicates == \A c \in Captures : inserted[c] <= 1
=============================================================================

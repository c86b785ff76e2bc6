----------------------------- MODULE BrowserProofs -----------------------------
(***************************************************************************)
(* Proofs about the two parts in front of the backend, the capture board   *)
(* of the browser and the renewal of its tokens in the web server, which   *)
(* share nothing but the connection.                                       *)
(***************************************************************************)
EXTENDS CaptureQueue, WebSession, TLAPS

-----------------------------------------------------------------------------
(* The capture board: whatever can be read back from storage, and whatever *)
(* the connection, the backend and the coach do.                           *)

\* What is stored is on screen while the page is open, and the other way round;
\* a closed page has nothing in memory.
StorageFollows ==
  /\ ~open => /\ \A c \in Captures : history[c] = Absent /\ post[c] = NoPost
              /\ \A c \in Captures : command[c].at \in {"none", "late"}
              /\ list.at = "none"
  /\ \A c \in Captures : history[c].send \in Unconfirmed => stored[c] = history[c]
  /\ \A c \in Captures : stored[c].send \in {"absent"} \cup Unconfirmed
  /\ \A c \in Captures : stored[c].send = "absent" => stored[c] = Absent
  /\ \A c \in Captures : history[c].send = "absent" => history[c] = Absent

\* Every row the page knows of has been inserted: those in answers and lists on
\* their way, in commands, and on screen.
RowsExist ==
  \A c \in Captures :
    /\ ledger[c] # "none" => inserted[c] > 0
    /\ history[c].send = "confirmed" => history[c].row \in 1..inserted[c]
    /\ post[c].at = "accepted" => post[c].row \in 1..inserted[c]
    /\ command[c].at # "none" => command[c].row \in 1..inserted[c]
    /\ list.rows[c] # Absent => /\ list.rows[c].send = "confirmed"
                                /\ list.rows[c].row \in 1..inserted[c]

\* A capture not made yet is not being sent, nor waiting to be.
FreshIsUnknown ==
  \A c \in Captures \ enqueued :
    history[c].send \notin Unconfirmed /\ stored[c] = Absent /\ post[c].at = "idle"

IInv == TypeOK /\ StorageFollows /\ RowsExist /\ FreshIsUnknown /\ SendingIsBeingSent

\* What any step of the backend does to the rows.
RowsGrow ==
  /\ Backend!LedgerTypeOK'
  /\ inserted' \in [Captures -> Rows]
  /\ \A c \in Captures :
       inserted[c] <= inserted'[c] /\ (ledger'[c] # "none" => inserted'[c] > 0)

-----------------------------------------------------------------------------
(* Lemmas about the operators of the module *)

\* Rows stay where they are when the backend does nothing.
LEMMA RowsRest ==
  ASSUME TypeOK, RowsExist, UNCHANGED backend
  PROVE  RowsGrow
  BY DEF TypeOK, RowsExist, RowsGrow, backend, Rows, Backend!LedgerTypeOK

\* Registering adds a row at most, and afterwards c has one.
LEMMA RowsRegistered ==
  ASSUME TypeOK, RowsExist, NEW c \in Captures, Register(c)
  PROVE  RowsGrow /\ inserted'[c] > 0
  <1>1. CASE UNCHANGED backend /\ ledger[c] # "none"
    BY <1>1, RowsRest DEF TypeOK, RowsExist, backend
  <1>2. CASE /\ inserted[c] < MaxRows
             /\ Backend!Record(c)
             /\ inserted' = [inserted EXCEPT ![c] = @ + 1]
    <2>1. inserted' \in [Captures -> Rows] /\ inserted'[c] > 0
      BY <1>2, BoundsAssumption DEF TypeOK, Rows
    <2>2. Backend!LedgerTypeOK' /\ \A d \in Captures \ {c} : ledger'[d] = ledger[d]
      BY <1>2 DEF TypeOK, Backend!LedgerTypeOK, Backend!EntryStates, Backend!Record, Backend!Set
    <2>3. \A d \in Captures : inserted[d] <= inserted'[d] /\ (d # c => inserted'[d] = inserted[d])
      BY <1>2 DEF TypeOK, Rows
    <2>. QED BY <2>1, <2>2, <2>3 DEF RowsGrow, RowsExist, TypeOK
  <1>. QED BY <1>1, <1>2 DEF Register

\* Undoing and voiding add no rows.
LEMMA RowsObeyed ==
  ASSUME TypeOK, RowsExist, NEW c \in Captures, Obey(c)
  PROVE  RowsGrow
  BY DEF TypeOK, RowsExist, RowsGrow, Obey, Rows, Backend!LedgerTypeOK, Backend!EntryStates,
         Backend!InForce, Backend!Undo, Backend!Void, Backend!Set

\* Nor does what happens elsewhere.
LEMMA RowsElsewhere ==
  ASSUME TypeOK, RowsExist, Elsewhere
  PROVE  RowsGrow
  <1>1. inserted' = inserted /\ \A c \in Captures : ledger'[c] # "none" => ledger[c] # "none"
    <2>1. CASE UNCHANGED ledger
      BY <2>1 DEF Elsewhere
    <2>2. CASE Backend!CallOff
      BY <2>2 DEF Elsewhere, Backend!CallOff, Backend!InForce
    <2>3. CASE \E c \in Captures : Backend!Void(c)
      BY <2>3 DEF Elsewhere, TypeOK, Backend!LedgerTypeOK, Backend!Void, Backend!InForce,
                  Backend!Set
    <2>. QED BY <2>1, <2>2, <2>3
             DEF Elsewhere, Backend!KickOff, Backend!FinalWhistle, Backend!CloseWindow
  <1>2. Backend!LedgerTypeOK'
    <2>1. CASE Backend!CallOff
      BY <2>1 DEF TypeOK, Backend!LedgerTypeOK, Backend!EntryStates, Backend!CallOff
    <2>2. CASE \E c \in Captures : Backend!Void(c)
      BY <2>2 DEF TypeOK, Backend!LedgerTypeOK, Backend!EntryStates, Backend!Void, Backend!Set
    <2>3. CASE Backend!KickOff \/ Backend!FinalWhistle \/ Backend!CloseWindow
      BY <2>3 DEF TypeOK, Backend!LedgerTypeOK, Backend!KickOff, Backend!FinalWhistle,
                  Backend!CloseWindow
    <2>. QED BY <2>1, <2>2, <2>3 DEF Elsewhere
  <1>. QED BY <1>1, <1>2 DEF TypeOK, RowsExist, RowsGrow, Rows

\* Whatever the step, rows are only ever added.
LEMMA RowsOnlyGrow ==
  ASSUME TypeOK, RowsExist, Next
  PROVE  RowsGrow
  <1>1. ASSUME NEW c \in Captures, Coach(c) PROVE UNCHANGED backend
    BY <1>1 DEF Coach, enqueueCapture, retryEntry, Command
  <1>2. ASSUME NEW c \in Captures, Network(c)
        PROVE  Register(c) \/ Obey(c) \/ UNCHANGED backend
    BY <1>2 DEF Network, ReceivePost, ReceiveLatePost, ReceiveCommand, PostSucceeds, PostFails,
                PostSaved, Resend, CommandEnds
  <1>3. CASE onOnline \/ Close \/ Mount \/ Load \/ ReceiveList \/ Loaded
    <2>. UNCHANGED backend
      BY <1>3 DEF onOnline, Close, Mount, Load, ReceiveList, Loaded
    <2>. QED BY RowsRest
  <1>. QED BY <1>1, <1>2, <1>3, RowsRest, RowsRegistered, RowsObeyed, RowsElsewhere DEF Next

\* An entry shown and typed is stored and typed.
LEMMA ShowTyped ==
  ASSUME NEW h \in [Captures -> EntryType], Show(h)
  PROVE  /\ history' \in [Captures -> EntryType]
         /\ stored' \in [Captures -> EntryType]
  BY BoundsAssumption DEF Show, Pending, EntryType, Absent, Sends, Rows

-----------------------------------------------------------------------------
(* The invariant *)

\* The constant entries, submissions and commands are of their types.
LEMMA ConstantsTyped ==
  /\ Absent \in EntryType /\ NewEntry \in EntryType
  /\ NoPost \in PostType /\ Post("sent") \in PostType /\ Post("waiting") \in PostType
  /\ Post("saving") \in PostType
  /\ NoCommand \in CommandType
  /\ NoList \in ListType
  <1>1. 0 \in Rows
    BY BoundsAssumption DEF Rows
  <1>2. Absent \in EntryType /\ NewEntry \in EntryType
    BY <1>1 DEF Absent, NewEntry, EntryType, Sends
  <1>3. /\ NoPost \in PostType /\ Post("sent") \in PostType /\ Post("waiting") \in PostType
        /\ Post("saving") \in PostType
    BY <1>1 DEF NoPost, Post, PostType
  <1>4. NoCommand \in CommandType
    BY <1>1 DEF NoCommand, CommandType
  <1>5. NoList \in ListType
    BY <1>2 DEF NoList, ListType
  <1>. QED BY <1>2, <1>3, <1>4, <1>5

\* Initially nothing has been captured.
LEMMA Initially == Init => IInv
  <1>. SUFFICES ASSUME Init PROVE IInv
    OBVIOUS
  <1>1. TypeOK
    <2>1. Backend!LedgerTypeOK
      BY DEF Init, Backend!LedgerInit, Backend!LedgerTypeOK, Backend!EntryStates
    <2>2. /\ inserted \in [Captures -> Rows] /\ open \in BOOLEAN /\ reloads \in 0..MaxReloads
          /\ tries \in [Captures -> 0..CAPTURE_MAX_AUTO_RETRIES]
          /\ late \in [Captures -> 0..MaxLate]
      BY BoundsAssumption DEF Init, Rows
    <2>. QED BY <2>1, <2>2, ConstantsTyped DEF Init, TypeOK
  <1>2. StorageFollows /\ RowsExist /\ FreshIsUnknown /\ SendingIsBeingSent
    BY DEF Init, StorageFollows, RowsExist, FreshIsUnknown, SendingIsBeingSent, Unconfirmed, Absent,
           NoPost, NoCommand, NoList, Backend!LedgerInit
  <1>. QED BY <1>1, <1>2 DEF IInv

\* A submission leaves the page typed.
LEMMA SubmitTyped ==
  ASSUME TypeOK, NEW cs, NEW h \in [Captures -> EntryType], Submit(cs, h)
  PROVE  /\ history' \in [Captures -> EntryType]
         /\ stored' \in [Captures -> EntryType]
         /\ (tries \in [Captures -> 0..CAPTURE_MAX_AUTO_RETRIES])'
         /\ (post \in [Captures -> PostType])'
  <1>. DEFINE fresh == {c \in cs : ~InFlight(c)}
              g == [c \in Captures |-> IF c \in fresh THEN [h[c] EXCEPT !.send = "sending"]
                                                      ELSE h[c]]
  <1>1. g \in [Captures -> EntryType]
    BY DEF EntryType, Sends
  <1>2. Show(g)
    BY DEF Submit
  <1>3. history' \in [Captures -> EntryType] /\ stored' \in [Captures -> EntryType]
    <2>. HIDE DEF g
    <2>. QED BY <1>1, <1>2, ShowTyped
  <1>4. (tries \in [Captures -> 0..CAPTURE_MAX_AUTO_RETRIES])'
    BY BoundsAssumption DEF Submit, TypeOK
  <1>5. (post \in [Captures -> PostType])'
    BY ConstantsTyped DEF Submit, TypeOK
  <1>. QED BY <1>3, <1>4, <1>5

\* The coach's doings keep the types.
LEMMA CoachTyped ==
  ASSUME TypeOK, RowsExist, NEW c \in Captures, Coach(c)
  PROVE  TypeOK'
  <1>0. RowsGrow
    BY RowsOnlyGrow DEF Next
  <1>1. CASE enqueueCapture(c)
    <2>1. [history EXCEPT ![c] = NewEntry] \in [Captures -> EntryType]
      BY ConstantsTyped DEF TypeOK
    <2>2. Submit({c}, [history EXCEPT ![c] = NewEntry])
      BY <1>1 DEF enqueueCapture
    <2>. QED BY <1>0, <1>1, <2>1, <2>2, SubmitTyped
             DEF TypeOK, RowsGrow, enqueueCapture, page
  <1>2. CASE retryEntry(c)
    <2>1. history \in [Captures -> EntryType] /\ Submit({c}, history)
      BY <1>2 DEF TypeOK, retryEntry
    <2>. QED BY <1>0, <1>2, <2>1, SubmitTyped
             DEF TypeOK, RowsGrow, retryEntry, page
  <1>3. ASSUME NEW kind \in Commands, Command(c, kind) PROVE TypeOK'
    <2>1. [at |-> "sent", kind |-> kind, row |-> history[c].row] \in CommandType
      BY DEF TypeOK, CommandType, EntryType
    <2>. QED BY <1>0, <1>3, <2>1 DEF TypeOK, RowsGrow, Command, page, net
  <1>. QED BY <1>1, <1>2, <1>3 DEF Coach, Command

\* So do the network and the backend.
LEMMA NetworkTyped ==
  ASSUME TypeOK, RowsExist, NEW c \in Captures, Network(c)
  PROVE  TypeOK'
  <1>0. RowsGrow
    BY RowsOnlyGrow DEF Next
  <1>1. CASE ReceivePost(c)
    <2>1. Answer(inserted'[c], ledger'[c] = "voided") \in PostType
      BY <1>0 DEF RowsGrow, Answer, PostType
    <2>2. [post[c] EXCEPT !.at = "refused"] \in PostType
      BY DEF TypeOK, PostType
    <2>3. (post \in [Captures -> PostType])'
      BY <1>1, <2>1, <2>2 DEF TypeOK, ReceivePost
    <2>. QED BY <1>0, <1>1, <2>3 DEF TypeOK, RowsGrow, ReceivePost, page
  <1>2. CASE ReceiveLatePost(c)
    <2>1. (late \in [Captures -> 0..MaxLate])'
      BY <1>2, BoundsAssumption DEF TypeOK, ReceiveLatePost
    <2>. QED BY <1>0, <1>2, <2>1 DEF TypeOK, RowsGrow, ReceiveLatePost, page
  <1>3. CASE ReceiveCommand(c)
    <2>1. /\ [command[c] EXCEPT !.at = "accepted"] \in CommandType
          /\ [command[c] EXCEPT !.at = "refused"] \in CommandType
      BY DEF TypeOK, CommandType
    <2>2. (command \in [Captures -> CommandType])'
      BY <1>3, <2>1, ConstantsTyped DEF TypeOK, ReceiveCommand
    <2>. QED BY <1>0, <1>3, <2>2 DEF TypeOK, RowsGrow, ReceiveCommand, page, net
  <1>4. CASE PostSucceeds(c)
    <2>1. Confirmed(post[c].row, post[c].voided) \in EntryType
      BY DEF TypeOK, PostType, Confirmed, EntryType, Sends
    <2>2. Patched(c, Confirmed(post[c].row, post[c].voided)) \in [Captures -> EntryType]
      BY <2>1 DEF TypeOK, Patched
    <2>3. (history \in [Captures -> EntryType] /\ stored \in [Captures -> EntryType])'
      BY <1>4, <2>2, ShowTyped DEF PostSucceeds
    <2>. QED BY <1>0, <1>4, <2>3, ConstantsTyped DEF TypeOK, RowsGrow, PostSucceeds, page
  <1>5. CASE PostFails(c)
    <2>1. (late \in [Captures -> 0..MaxLate])'
      BY <1>5, BoundsAssumption DEF TypeOK, PostFails, AttemptLost
    <2>2. (post \in [Captures -> PostType])'
      BY <1>5, ConstantsTyped DEF TypeOK, PostFails
    <2>3. (tries \in [Captures -> 0..CAPTURE_MAX_AUTO_RETRIES])'
      BY <1>5, BoundsAssumption DEF TypeOK, PostFails
    <2>4. [history[c] EXCEPT !.send = "failed"] \in EntryType
      BY DEF TypeOK, EntryType, Sends
    <2>5. Patched(c, [history[c] EXCEPT !.send = "failed"]) \in [Captures -> EntryType]
      BY <2>4 DEF TypeOK, Patched
    <2>6. (history \in [Captures -> EntryType] /\ stored \in [Captures -> EntryType])'
      BY <1>5, <2>5, ShowTyped DEF TypeOK, PostFails
    <2>. QED BY <1>0, <1>5, <2>1, <2>2, <2>3, <2>6 DEF TypeOK, RowsGrow, PostFails, page
  <1>6. CASE PostSaved(c) \/ Resend(c)
    <2>1. (post \in [Captures -> PostType])'
      BY <1>6, ConstantsTyped DEF TypeOK, PostSaved, Resend
    <2>. QED BY <1>0, <1>6, <2>1 DEF TypeOK, RowsGrow, PostSaved, Resend, page
  <1>7. CASE CommandEnds(c)
    <2>1. [command[c] EXCEPT !.at = "late"] \in CommandType
      BY DEF TypeOK, CommandType
    <2>2. (command \in [Captures -> CommandType])'
      BY <1>7, <2>1, ConstantsTyped DEF TypeOK, CommandEnds
    <2>3. [history[c] EXCEPT !.voided = TRUE] \in EntryType
      BY DEF TypeOK, EntryType
    <2>4. /\ Patched(c, Absent) \in [Captures -> EntryType]
          /\ Patched(c, [history[c] EXCEPT !.voided = TRUE]) \in [Captures -> EntryType]
      BY <2>3, ConstantsTyped DEF TypeOK, Patched
    <2>5. (history \in [Captures -> EntryType] /\ stored \in [Captures -> EntryType])'
      BY <1>7, <2>4, ShowTyped DEF TypeOK, CommandEnds
    <2>. QED BY <1>0, <1>7, <2>2, <2>5 DEF TypeOK, RowsGrow, CommandEnds, page, net
  <1>. QED BY <1>1, <1>2, <1>3, <1>4, <1>5, <1>6, <1>7 DEF Network

\* And the page as a whole.
LEMMA PageTyped ==
  ASSUME TypeOK, RowsExist, onOnline \/ Close \/ Mount \/ Load \/ ReceiveList \/ Loaded \/ Elsewhere
  PROVE  TypeOK'
  <1>0. RowsGrow
    BY RowsOnlyGrow DEF Next
  <1>1. CASE onOnline
    <2>1. history \in [Captures -> EntryType]
      BY DEF TypeOK
    <2>2. PICK cs : Submit(cs, history)
      BY <1>1 DEF onOnline
    <2>. QED BY <1>0, <1>1, <2>1, <2>2, SubmitTyped DEF TypeOK, RowsGrow, onOnline, page
  <1>2. CASE Close
    <2>1. (late \in [Captures -> 0..MaxLate])'
      BY <1>2, BoundsAssumption DEF TypeOK, Close
    <2>2. \A c \in Captures : [command[c] EXCEPT !.at = "late"] \in CommandType
      BY DEF TypeOK, CommandType
    <2>3. (command \in [Captures -> CommandType])'
      BY <1>2, <2>2, ConstantsTyped DEF TypeOK, Close
    <2>4. (reloads \in 0..MaxReloads)' /\ (tries \in [Captures -> 0..CAPTURE_MAX_AUTO_RETRIES])'
      BY <1>2, BoundsAssumption DEF TypeOK, Close
    <2>. QED BY <1>0, <1>2, <2>1, <2>3, <2>4, ConstantsTyped DEF TypeOK, RowsGrow, Close
  <1>3. CASE Mount
    <2>1. PICK pending : \/ Submit(pending, [c \in Captures |-> IF c \in pending THEN stored[c]
                                                                 ELSE history[c]])
                         \/ UNCHANGED <<history, stored, tries, post>>
      BY <1>3 DEF Mount
    <2>2. [c \in Captures |-> IF c \in pending THEN stored[c] ELSE history[c]]
            \in [Captures -> EntryType]
      BY DEF TypeOK
    <2>3. (/\ history \in [Captures -> EntryType]
           /\ stored \in [Captures -> EntryType]
           /\ tries \in [Captures -> 0..CAPTURE_MAX_AUTO_RETRIES]
           /\ post \in [Captures -> PostType])'
      BY <2>1, <2>2, SubmitTyped DEF TypeOK
    <2>. QED BY <1>0, <1>3, <2>3 DEF TypeOK, RowsGrow, Mount
  <1>4. CASE Load
    <2>1. (list \in ListType)'
      BY <1>4 DEF TypeOK, Load, ListType
    <2>. QED BY <1>0, <1>4, <2>1 DEF TypeOK, RowsGrow, Load, page, net
  <1>5. CASE ReceiveList
    <2>1. \A c \in Captures : Confirmed(inserted[c], ledger[c] = "voided") \in EntryType
      BY DEF TypeOK, Confirmed, EntryType, Sends
    <2>2. (list \in ListType)'
      BY <1>5, <2>1, ConstantsTyped DEF ReceiveList, ListType
    <2>. QED BY <1>0, <1>5, <2>2 DEF TypeOK, RowsGrow, ReceiveList, page, net
  <1>6. CASE Loaded
    <2>1. list.rows \in [Captures -> EntryType]
      BY DEF TypeOK, ListType
    <2>2. \A c \in Captures : [list.rows[c] EXCEPT !.send = history[c].send] \in EntryType
      BY <2>1 DEF TypeOK, EntryType
    <2>3. Merged(list.rows) \in [Captures -> EntryType]
      BY <2>1, <2>2 DEF TypeOK, Merged
    <2>4. (history \in [Captures -> EntryType] /\ stored \in [Captures -> EntryType])'
      BY <1>6, <2>3, ShowTyped DEF TypeOK, Loaded
    <2>. QED BY <1>0, <1>6, <2>4, ConstantsTyped DEF TypeOK, RowsGrow, Loaded, page, net
  <1>7. CASE Elsewhere
    BY <1>0, <1>7 DEF TypeOK, RowsGrow, Elsewhere, page, net
  <1>. QED BY <1>1, <1>2, <1>3, <1>4, <1>5, <1>6, <1>7

LEMMA TypeKept == ASSUME TypeOK, RowsExist, [Next]_vars PROVE TypeOK'
  <1>1. CASE Next
    BY <1>1, CoachTyped, NetworkTyped, PageTyped DEF Next
  <1>2. CASE UNCHANGED vars
    BY <1>2 DEF TypeOK, vars, Backend!LedgerTypeOK
  <1>. QED BY <1>1, <1>2

-----------------------------------------------------------------------------
(* The page and what is stored *)

WellFormed(h) ==
  h \in [Captures -> EntryType] /\ \A c \in Captures : h[c].send = "absent" => h[c] = Absent

\* The step shows a history, and stores what of it is not confirmed.
Shows == open' /\ \E h : WellFormed(h) /\ Show(h)

\* The step neither shows nor stores anything, and wakes nothing up.
Hides ==
  /\ UNCHANGED <<open, history, stored>>
  /\ ~open => /\ UNCHANGED post
              /\ \A c \in Captures : command'[c].at \in {"none", "late"}
              /\ list'.at = "none"

LEMMA ShowingStores == Shows => StorageFollows'
  <1>. SUFFICES ASSUME open', NEW h, WellFormed(h), Show(h)
                PROVE  StorageFollows'
    BY DEF Shows
  <1>1. \A c \in Captures :
          /\ history'[c] = h[c]
          /\ h[c].send \in Unconfirmed => stored'[c] = h[c]
          /\ h[c].send \notin Unconfirmed => stored'[c] = Absent
    BY DEF Show, Pending
  <1>2. Absent.send = "absent" /\ "absent" \notin Unconfirmed
    BY DEF Absent, Unconfirmed
  <1>. QED BY <1>1, <1>2 DEF StorageFollows, WellFormed

LEMMA HidingKeeps ==
  ASSUME StorageFollows, Hides
  PROVE  StorageFollows'
  BY DEF StorageFollows, Hides

\* A submission shows a history.
LEMMA SubmitShows ==
  ASSUME NEW cs, NEW h, WellFormed(h), Submit(cs, h), open'
  PROVE  Shows
  <1>. DEFINE fresh == {c \in cs : ~InFlight(c)}
              g == [c \in Captures |-> IF c \in fresh THEN [h[c] EXCEPT !.send = "sending"]
                                                      ELSE h[c]]
  <1>1. WellFormed(g)
    BY DEF WellFormed, EntryType, Sends
  <1>2. Show(g)
    BY DEF Submit
  <1>. QED BY <1>1, <1>2 DEF Shows

\* The history on screen is well formed, and stays so when one entry changes.
LEMMA HistoryWellFormed ==
  ASSUME TypeOK, StorageFollows
  PROVE  /\ WellFormed(history)
         /\ WellFormed(stored)
         /\ \A c \in Captures, e \in EntryType :
              e.send # "absent" \/ e = Absent =>
                WellFormed([history EXCEPT ![c] = e]) /\ WellFormed(Patched(c, e))
  BY DEF TypeOK, StorageFollows, WellFormed, Patched

\* Steps of the coach and the network.
LEMMA CaptureFollows ==
  ASSUME TypeOK, StorageFollows, NEW c \in Captures, Coach(c) \/ Network(c)
  PROVE  Shows \/ Hides
  <1>1. CASE enqueueCapture(c)
    <2>1. WellFormed([history EXCEPT ![c] = NewEntry])
      BY HistoryWellFormed, ConstantsTyped DEF NewEntry, Absent
    <2>. QED BY <1>1, <2>1, SubmitShows DEF enqueueCapture, page
  <1>2. CASE retryEntry(c)
    <2>1. open
      BY <1>2 DEF retryEntry, StorageFollows, Absent
    <2>. QED BY <1>2, <2>1, HistoryWellFormed, SubmitShows DEF retryEntry, page
  <1>3. ASSUME NEW kind, Command(c, kind) PROVE Hides
    <2>1. open
      BY <1>3 DEF Command, StorageFollows, Absent
    <2>. QED BY <1>3, <2>1 DEF Hides, Command, page
  <1>4. CASE ReceivePost(c) \/ PostSaved(c) \/ Resend(c)
    <2>1. open
      BY <1>4 DEF ReceivePost, PostSaved, Resend, StorageFollows, NoPost
    <2>. QED BY <1>4, <2>1 DEF Hides, ReceivePost, PostSaved, Resend, page
  <1>5. CASE ReceiveLatePost(c)
    BY <1>5 DEF Hides, ReceiveLatePost, StorageFollows, page
  <1>6. CASE ReceiveCommand(c)
    <2>1. NoCommand.at = "none"
      BY DEF NoCommand
    <2>2. ~open => command[c].at = "late" /\ command' = [command EXCEPT ![c] = NoCommand]
      BY <1>6 DEF ReceiveCommand, StorageFollows
    <2>. QED BY <1>6, <2>1, <2>2 DEF Hides, ReceiveCommand, StorageFollows, TypeOK, page, net
  <1>7. CASE PostSucceeds(c)
    <2>1. open
      BY <1>7 DEF PostSucceeds, StorageFollows, NoPost
    <2>2. Confirmed(post[c].row, post[c].voided) \in EntryType
      BY DEF TypeOK, PostType, Confirmed, EntryType, Sends
    <2>3. WellFormed(Patched(c, Confirmed(post[c].row, post[c].voided)))
      BY <2>2, HistoryWellFormed DEF Confirmed
    <2>. QED BY <1>7, <2>1, <2>3 DEF Shows, PostSucceeds, page
  <1>8. CASE PostFails(c)
    <2>1. open
      BY <1>8 DEF PostFails, AttemptLost, StorageFollows, NoPost
    <2>2. [history[c] EXCEPT !.send = "failed"] \in EntryType
      BY DEF TypeOK, EntryType, Sends
    <2>3. WellFormed(Patched(c, [history[c] EXCEPT !.send = "failed"]))
      BY <2>2, HistoryWellFormed DEF TypeOK, EntryType
    <2>. QED BY <1>8, <2>1, <2>3 DEF Shows, Hides, PostFails, page
  <1>9. CASE CommandEnds(c)
    <2>1. open
      BY <1>9 DEF CommandEnds, StorageFollows
    <2>2. [history[c] EXCEPT !.voided = TRUE] \in EntryType
      BY DEF TypeOK, EntryType
    <2>3. WellFormed(Patched(c, Absent))
      BY ConstantsTyped, HistoryWellFormed
    <2>4. WellFormed(Patched(c, [history[c] EXCEPT !.voided = TRUE]))
      <3>1. CASE history[c].send = "absent"
        BY <3>1, HistoryWellFormed DEF StorageFollows, Patched
      <3>2. CASE history[c].send # "absent"
        BY <3>2, <2>2, HistoryWellFormed DEF TypeOK, EntryType
      <3>. QED BY <3>1, <3>2
    <2>. QED BY <1>9, <2>1, <2>3, <2>4 DEF Shows, Hides, CommandEnds, page
  <1>. QED BY <1>1, <1>2, <1>3, <1>4, <1>5, <1>6, <1>7, <1>8, <1>9 DEF Coach, Network

\* Rows are listed as confirmed, so that what a load shows is well formed.
LEMMA MergedWellFormed ==
  ASSUME TypeOK, StorageFollows, RowsExist
  PROVE  WellFormed(Merged(list.rows))
  <1>1. list.rows \in [Captures -> EntryType]
    BY DEF TypeOK, ListType
  <1>2. \A c \in Captures : [list.rows[c] EXCEPT !.send = history[c].send] \in EntryType
    BY <1>1 DEF TypeOK, EntryType
  <1>3. Merged(list.rows) \in [Captures -> EntryType]
    BY <1>1, <1>2 DEF TypeOK, Merged
  <1>4. \A c \in Captures : Merged(list.rows)[c].send = "absent" => Merged(list.rows)[c] = Absent
    BY <1>1 DEF StorageFollows, RowsExist, Merged, Unconfirmed, EntryType
  <1>. QED BY <1>3, <1>4 DEF WellFormed

\* Every step keeps the page and what is stored together.
LEMMA StorageKept ==
  ASSUME TypeOK, StorageFollows, RowsExist, [Next]_vars
  PROVE  StorageFollows'
  <1>1. CASE \E c \in Captures : Coach(c) \/ Network(c)
    BY <1>1, CaptureFollows, ShowingStores, HidingKeeps
  <1>2. CASE onOnline
    <2>1. open
      BY <1>2 DEF onOnline, StorageFollows, Absent
    <2>2. PICK cs : Submit(cs, history)
      BY <1>2 DEF onOnline
    <2>3. Shows
      BY <1>2, <2>1, <2>2, HistoryWellFormed, SubmitShows DEF onOnline, page
    <2>. QED BY <2>3, ShowingStores
  <1>3. CASE Close
    <2>1. NoCommand.at = "none" /\ NoList.at = "none"
      BY DEF NoCommand, NoList
    <2>2. \A c \in Captures : command'[c].at \in {"none", "late"}
      BY <1>3, <2>1 DEF Close, TypeOK, CommandType
    <2>. QED BY <1>3, <2>1, <2>2 DEF Close, StorageFollows, Absent, Unconfirmed
  <1>4. CASE Mount
    <2>1. CASE \E pending : Submit(pending, [c \in Captures |-> IF c \in pending THEN stored[c]
                                                                ELSE history[c]])
      <3>1. PICK pending : Submit(pending, [c \in Captures |-> IF c \in pending THEN stored[c]
                                                               ELSE history[c]])
        BY <2>1
      <3>2. WellFormed([c \in Captures |-> IF c \in pending THEN stored[c] ELSE history[c]])
        BY HistoryWellFormed DEF WellFormed
      <3>3. Shows
        BY <1>4, <3>1, <3>2, SubmitShows DEF Mount
      <3>. QED BY <3>3, ShowingStores
    <2>2. CASE UNCHANGED <<history, stored, tries, post>>
      BY <1>4, <2>2 DEF Mount, StorageFollows
    <2>. QED BY <1>4, <2>1, <2>2 DEF Mount
  <1>5. CASE Load \/ ReceiveList
    <2>1. open /\ UNCHANGED <<open, history, stored>>
      BY <1>5 DEF Load, ReceiveList, StorageFollows, page
    <2>. QED BY <2>1, HidingKeeps DEF Hides
  <1>6. CASE Loaded
    <2>1. open /\ open'
      BY <1>6 DEF Loaded, StorageFollows, page
    <2>2. Shows \/ Hides
      BY <1>6, <2>1, MergedWellFormed DEF Loaded, Shows, Hides, page
    <2>. QED BY <2>2, ShowingStores, HidingKeeps
  <1>7. CASE Elsewhere \/ UNCHANGED vars
    <2>1. Hides
      BY <1>7 DEF Hides, Elsewhere, StorageFollows, page, net, vars
    <2>. QED BY <2>1, HidingKeeps
  <1>. QED BY <1>1, <1>2, <1>3, <1>4, <1>5, <1>6, <1>7 DEF Next

-----------------------------------------------------------------------------
(* The rows the page knows of *)

\* A submission changes no row on screen or in answers.
LEMMA SubmitKeepsRows ==
  ASSUME TypeOK, NEW cs, NEW h \in [Captures -> EntryType], Submit(cs, h)
  PROVE  \A c \in Captures :
           /\ history'[c].send = "confirmed" =>
                h[c].send = "confirmed" /\ history'[c].row = h[c].row
           /\ post'[c] = post[c] \/ post'[c].at = "sent"
  BY DEF Submit, Show, TypeOK, EntryType, Post, NoPost

LEMMA CoachKeepsRows ==
  ASSUME TypeOK, StorageFollows, RowsExist, NEW c \in Captures, Coach(c)
  PROVE  RowsExist'
  <1>0. RowsGrow
    BY RowsOnlyGrow DEF Next
  <1>1. CASE enqueueCapture(c)
    <2> DEFINE h == [history EXCEPT ![c] = NewEntry]
    <2>1. h \in [Captures -> EntryType]
      BY ConstantsTyped DEF TypeOK
    <2>2. Submit({c}, h)
      BY <1>1 DEF enqueueCapture
    <2>3. \A d \in Captures : h[d].send = "confirmed" => h[d] = history[d]
      BY DEF TypeOK, NewEntry, Absent
    <2>4. \A d \in Captures :
            /\ history'[d].send = "confirmed" =>
                 history[d].send = "confirmed" /\ history'[d].row = history[d].row
            /\ post'[d] = post[d] \/ post'[d].at = "sent"
      <3> HIDE DEF h
      <3>1. \A d \in Captures :
              /\ history'[d].send = "confirmed" =>
                   h[d].send = "confirmed" /\ history'[d].row = h[d].row
              /\ post'[d] = post[d] \/ post'[d].at = "sent"
        BY <2>1, <2>2, SubmitKeepsRows
      <3> QED
        BY <2>3, <3>1
    <2>. QED BY <1>0, <1>1, <2>4
             DEF RowsExist, RowsGrow, TypeOK, Rows, enqueueCapture, backend
  <1>2. CASE retryEntry(c)
    <2>1. history \in [Captures -> EntryType] /\ Submit({c}, history)
      BY <1>2 DEF TypeOK, retryEntry
    <2>. QED BY <1>0, <1>2, <2>1, SubmitKeepsRows
             DEF RowsExist, RowsGrow, TypeOK, Rows, retryEntry, backend
  <1>3. ASSUME NEW kind, Command(c, kind) PROVE RowsExist'
    BY <1>0, <1>3 DEF RowsExist, RowsGrow, TypeOK, Rows, Command, backend, net
  <1>. QED BY <1>1, <1>2, <1>3 DEF Coach

LEMMA NetworkKeepsRows ==
  ASSUME TypeOK, StorageFollows, RowsExist, NEW c \in Captures, Network(c)
  PROVE  RowsExist'
  <1>0. RowsGrow
    BY RowsOnlyGrow DEF Next
  <1>1. CASE ReceivePost(c)
    <2>1. post'[c].at = "accepted" => post'[c].row \in 1..inserted'[c]
      <3>1. CASE /\ Register(c)
                 /\ post' = [post EXCEPT ![c] = Answer(inserted'[c], ledger'[c] = "voided")]
        <4>1. inserted'[c] > 0
          BY <3>1, RowsRegistered
        <4>2. post'[c].row = inserted'[c]
          BY <3>1 DEF TypeOK, Answer
        <4>. QED BY <1>0, <4>1, <4>2 DEF RowsGrow, Rows
      <3>2. CASE post' = [post EXCEPT ![c].at = "refused"]
        BY <3>2 DEF TypeOK, PostType
      <3>. QED BY <1>1, <3>1, <3>2 DEF ReceivePost
    <2>2. \A d \in Captures : d # c => post'[d] = post[d]
      BY <1>1 DEF ReceivePost, TypeOK
    <2>. QED BY <1>0, <1>1, <2>1, <2>2 DEF RowsExist, RowsGrow, TypeOK, Rows, ReceivePost
  <1>2. CASE ReceiveLatePost(c)
    BY <1>0, <1>2 DEF RowsExist, RowsGrow, TypeOK, Rows, ReceiveLatePost
  <1>3. CASE ReceiveCommand(c)
    <2>0. command \in [Captures -> CommandType]
      BY DEF TypeOK
    <2>1. command[c].at # "none"
      BY <1>3 DEF ReceiveCommand
    <2>2. \/ command' = [command EXCEPT ![c].at = "accepted"]
          \/ command' = [command EXCEPT ![c].at = "refused"]
          \/ command' = [command EXCEPT ![c] = NoCommand]
      BY <1>3 DEF ReceiveCommand
    <2>3. \A d \in Captures : command'[d].at # "none" => /\ command[d].at # "none"
                                                        /\ command'[d].row = command[d].row
      BY <2>0, <2>1, <2>2 DEF CommandType, NoCommand
    <2>. QED BY <1>0, <1>3, <2>3 DEF RowsExist, RowsGrow, TypeOK, Rows, ReceiveCommand, net
  <1>4. CASE PostSucceeds(c)
    <2>1. history'[c].send = "confirmed" => history'[c].row \in 1..inserted[c]
      BY <1>4 DEF PostSucceeds, Show, Patched, Confirmed, Absent, RowsExist, TypeOK
    <2>2. \A d \in Captures : d # c => history'[d] = history[d]
      BY <1>4 DEF PostSucceeds, Show, Patched, TypeOK
    <2>3. \A d \in Captures : post'[d] = post[d] \/ post'[d].at = "idle"
      BY <1>4 DEF PostSucceeds, NoPost, TypeOK
    <2>. QED BY <1>0, <1>4, <2>1, <2>2, <2>3
             DEF RowsExist, RowsGrow, TypeOK, Rows, PostSucceeds, backend
  <1>5. CASE PostFails(c)
    <2>1. \A d \in Captures : history'[d] = history[d] \/ history'[d].send # "confirmed"
      BY <1>5 DEF PostFails, Show, Patched, TypeOK, EntryType
    <2>2. \A d \in Captures : post'[d] = post[d] \/ post'[d].at # "accepted"
      BY <1>5 DEF PostFails, Post, NoPost, TypeOK
    <2>. QED BY <1>0, <1>5, <2>1, <2>2 DEF RowsExist, RowsGrow, TypeOK, Rows, PostFails, backend
  <1>6. CASE PostSaved(c) \/ Resend(c)
    <2>1. \A d \in Captures : post'[d] = post[d] \/ post'[d].at # "accepted"
      BY <1>6 DEF PostSaved, Resend, Post, NoPost, TypeOK
    <2>. QED BY <1>0, <1>6, <2>1
             DEF RowsExist, RowsGrow, TypeOK, Rows, PostSaved, Resend, backend
  <1>7. CASE CommandEnds(c)
    <2>1. \A d \in Captures : history'[d].send = "confirmed" =>
            history[d].send = "confirmed" /\ history'[d].row = history[d].row
      BY <1>7 DEF CommandEnds, Show, Patched, Absent, TypeOK, EntryType
    <2>2. \A d \in Captures : command'[d].at # "none" => /\ command[d].at # "none"
                                                        /\ command'[d].row = command[d].row
      BY <1>7 DEF CommandEnds, TypeOK, CommandType, NoCommand
    <2>. QED BY <1>0, <1>7, <2>1, <2>2
             DEF RowsExist, RowsGrow, TypeOK, Rows, CommandEnds, net, backend
  <1>. QED BY <1>1, <1>2, <1>3, <1>4, <1>5, <1>6, <1>7 DEF Network

\* Whatever the step, every row the page knows of has been inserted.
LEMMA RowsKept ==
  ASSUME TypeOK, StorageFollows, RowsExist, [Next]_vars
  PROVE  RowsExist'
  <1>0. Next => RowsGrow
    BY RowsOnlyGrow
  <1>1. CASE onOnline
    <2>1. PICK cs : Submit(cs, history)
      BY <1>1 DEF onOnline
    <2>2. history \in [Captures -> EntryType]
      BY DEF TypeOK
    <2>. QED BY <1>0, <1>1, <2>1, <2>2, SubmitKeepsRows
             DEF RowsExist, RowsGrow, TypeOK, Rows, onOnline, backend, Next
  <1>2. CASE Close
    <2>1. \A c \in Captures : command'[c].at # "none" => /\ command[c].at # "none"
                                                        /\ command'[c].row = command[c].row
      BY <1>2 DEF Close, TypeOK, CommandType, NoCommand
    <2>. QED BY <1>0, <1>2, <2>1
             DEF RowsExist, RowsGrow, TypeOK, Rows, Close, Next, Absent, NoPost, NoList
  <1>3. CASE Mount
    <2>1. CASE \E pending : Submit(pending, [c \in Captures |-> IF c \in pending THEN stored[c]
                                                                ELSE history[c]])
      <3>1. PICK pending : Submit(pending, [c \in Captures |-> IF c \in pending THEN stored[c]
                                                               ELSE history[c]])
        BY <2>1
      <3>2. [c \in Captures |-> IF c \in pending THEN stored[c] ELSE history[c]]
               \in [Captures -> EntryType]
        BY DEF TypeOK
      <3>3. \A c \in Captures : stored[c].send # "confirmed"
        BY DEF StorageFollows, Unconfirmed
      <3>4. \A c \in Captures :
              /\ history'[c].send = "confirmed" =>
                   history[c].send = "confirmed" /\ history'[c].row = history[c].row
              /\ post'[c] = post[c] \/ post'[c].at = "sent"
        BY <3>1, <3>2, <3>3, SubmitKeepsRows
      <3>. QED BY <1>0, <1>3, <3>4 DEF RowsExist, RowsGrow, TypeOK, Rows, Mount, backend, Next
    <2>2. CASE UNCHANGED <<history, stored, tries, post>>
      BY <1>0, <1>3, <2>2 DEF RowsExist, RowsGrow, TypeOK, Rows, Mount, backend, Next
    <2>. QED BY <1>3, <2>1, <2>2 DEF Mount
  <1>4. CASE Load
    <2>1. list'.rows = list.rows
      BY <1>4 DEF Load, TypeOK, ListType
    <2>. QED BY <1>0, <1>4, <2>1 DEF RowsExist, RowsGrow, TypeOK, Rows, Load, net, backend, Next
  <1>5. CASE ReceiveList
    <2>1. \A c \in Captures : list'.rows[c] # Absent =>
            list'.rows[c].send = "confirmed" /\ list'.rows[c].row \in 1..inserted[c]
      BY <1>5 DEF ReceiveList, Confirmed, RowsExist, TypeOK, Rows
    <2>. QED BY <1>0, <1>5, <2>1
             DEF RowsExist, RowsGrow, TypeOK, Rows, ReceiveList, net, backend, Next
  <1>6. CASE Loaded
    <2>1. \A c \in Captures : history'[c].send = "confirmed" => history'[c].row \in 1..inserted[c]
      <3>1. CASE UNCHANGED history
        BY <3>1 DEF RowsExist
      <3>2. CASE history' = Merged(list.rows)
        <4>1. ASSUME NEW c \in Captures, history[c].send \in Unconfirmed, list.rows[c] # Absent
              PROVE  history'[c].send # "confirmed"
          BY <3>2, <4>1 DEF Merged, Unconfirmed, TypeOK, ListType, EntryType
        <4>2. ASSUME NEW c \in Captures, history[c].send \notin Unconfirmed, list.rows[c] # Absent
              PROVE  history'[c] = list.rows[c]
          BY <3>2, <4>2 DEF Merged
        <4>3. ASSUME NEW c \in Captures, list.rows[c] = Absent
              PROVE  history'[c] = history[c]
          BY <3>2, <4>3 DEF Merged
        <4>. QED BY <4>1, <4>2, <4>3 DEF RowsExist
      <3>. QED BY <1>6, <3>1, <3>2 DEF Loaded, Show
    <2>2. \A c \in Captures : list'.rows[c] = Absent
      BY <1>6 DEF Loaded, NoList
    <2>. QED BY <1>0, <1>6, <2>1, <2>2
             DEF RowsExist, RowsGrow, TypeOK, Rows, Loaded, net, backend, Next
  <1>7. CASE Elsewhere
    BY <1>0, <1>7 DEF RowsExist, RowsGrow, TypeOK, Rows, Elsewhere, net, Next
  <1>8. CASE UNCHANGED vars
    BY <1>8 DEF RowsExist, vars
  <1>. QED BY <1>1, <1>2, <1>3, <1>4, <1>5, <1>6, <1>7, <1>8, CoachKeepsRows, NetworkKeepsRows
           DEF Next

-----------------------------------------------------------------------------
(* What is being sent, and what is kept *)

\* A submission leaves what it does not send as it was.
LEMMA SubmitSparesOthers ==
  ASSUME NEW cs, NEW h, Submit(cs, h)
  PROVE  \A c \in Captures : c \notin cs =>
           /\ history'[c] = h[c]
           /\ post'[c] = post[c]
           /\ h[c].send \notin Unconfirmed => stored'[c] = Absent
  BY DEF Submit, Show, Pending

\* Captures are made, and the page opened and closed, by one action each; what was
\* unsent at a closing stays on record.
LEMMA OnlyTheyChange ==
  ASSUME [Next]_vars
  PROVE  /\ \A c \in enqueued' \ enqueued : enqueueCapture(c)
         /\ ~open /\ open' => Mount
         /\ open /\ ~open' => Close
         /\ enqueued \subseteq enqueued' /\ unsent \subseteq unsent'
  <1>1. ASSUME NEW c \in Captures, Network(c) PROVE UNCHANGED <<open, enqueued, unsent>>
    BY <1>1 DEF Network, ReceivePost, ReceiveLatePost, ReceiveCommand, PostSucceeds, PostFails,
                PostSaved, Resend, CommandEnds, page
  <1>2. ASSUME NEW c \in Captures, Coach(c), ~enqueueCapture(c) PROVE UNCHANGED <<open, enqueued, unsent>>
    BY <1>2 DEF Coach, retryEntry, Command, page
  <1>3. ASSUME NEW c \in Captures, enqueueCapture(c)
        PROVE  UNCHANGED <<open, unsent>> /\ enqueued' = enqueued \cup {c}
    BY <1>3 DEF enqueueCapture, page
  <1>4. CASE onOnline \/ Load \/ ReceiveList \/ Loaded \/ Elsewhere \/ UNCHANGED vars
    <2>. UNCHANGED <<open, enqueued, unsent>>
      BY <1>4 DEF onOnline, Load, ReceiveList, Loaded, Elsewhere, page, vars
    <2>. QED OBVIOUS
  <1>5. CASE Close
    BY <1>5 DEF Close
  <1>6. CASE Mount
    BY <1>6 DEF Mount
  <1>. QED BY <1>1, <1>2, <1>3, <1>4, <1>5, <1>6 DEF Next

\* A step sends nothing that has not been captured.
LEMMA FreshKept ==
  ASSUME TypeOK, StorageFollows, RowsExist, FreshIsUnknown, [Next]_vars
  PROVE  FreshIsUnknown'
  <1>. SUFFICES ASSUME NEW d \in Captures, d \notin enqueued'
                PROVE  /\ history'[d].send \notin Unconfirmed
                       /\ stored'[d] = Absent
                       /\ post'[d].at = "idle"
    BY DEF FreshIsUnknown
  <1>0. enqueued \subseteq enqueued'
    BY OnlyTheyChange
  <1>1. /\ history[d].send \notin Unconfirmed
        /\ stored[d] = Absent
        /\ post[d].at = "idle"
    BY <1>0 DEF FreshIsUnknown
  <1>2. ASSUME NEW h, Show(h), h[d].send \notin Unconfirmed
        PROVE  history'[d].send \notin Unconfirmed /\ stored'[d] = Absent
    BY <1>2 DEF Show, Pending
  <1>3. ASSUME NEW c \in Captures, Coach(c)
        PROVE  history'[d].send \notin Unconfirmed /\ stored'[d] = Absent /\ post'[d].at = "idle"
    <2>1. CASE enqueueCapture(c)
      <3>. DEFINE h == [history EXCEPT ![c] = NewEntry]
      <3>1. d \notin {c} /\ h[d] = history[d]
        BY <2>1 DEF enqueueCapture, TypeOK
      <3>2. Submit({c}, h)
        BY <2>1 DEF enqueueCapture
      <3>. HIDE DEF h
      <3>3. /\ history'[d] = h[d] /\ post'[d] = post[d]
            /\ h[d].send \notin Unconfirmed => stored'[d] = Absent
        BY <3>1, <3>2, SubmitSparesOthers
      <3>. QED BY <1>1, <3>1, <3>3
    <2>2. CASE retryEntry(c)
      <3>1. d # c
        BY <1>1, <2>2 DEF retryEntry, Unconfirmed
      <3>. QED BY <1>1, <2>2, <3>1, SubmitSparesOthers DEF retryEntry
    <2>3. CASE \E kind : Command(c, kind)
      BY <1>1, <2>3 DEF Command, net
    <2>. QED BY <1>3, <2>1, <2>2, <2>3 DEF Coach
  <1>4. ASSUME NEW c \in Captures, Network(c)
        PROVE  history'[d].send \notin Unconfirmed /\ stored'[d] = Absent /\ post'[d].at = "idle"
    <2>1. CASE ReceivePost(c) \/ PostSaved(c) \/ Resend(c)
      <3>1. d # c
        BY <1>1, <2>1 DEF ReceivePost, PostSaved, Resend
      <3>. QED BY <1>1, <2>1, <3>1 DEF ReceivePost, PostSaved, Resend, TypeOK
    <2>2. CASE ReceiveLatePost(c) \/ ReceiveCommand(c)
      BY <1>1, <2>2 DEF ReceiveLatePost, ReceiveCommand, net
    <2>3. CASE PostSucceeds(c) \/ PostFails(c)
      <3>1. d # c
        BY <1>1, <2>3 DEF PostSucceeds, PostFails, AttemptLost
      <3>2. \A e : Patched(c, e)[d] = history[d]
        BY <3>1 DEF Patched, TypeOK
      <3>3. post'[d] = post[d]
        BY <2>3, <3>1 DEF PostSucceeds, PostFails, TypeOK
      <3>. QED BY <1>1, <1>2, <2>3, <3>2, <3>3 DEF PostSucceeds, PostFails
    <2>4. CASE CommandEnds(c)
      <3>1. /\ Patched(c, Absent)[d].send \notin Unconfirmed
            /\ Patched(c, [history[c] EXCEPT !.voided = TRUE])[d].send \notin Unconfirmed
        BY <1>1 DEF Patched, Absent, Unconfirmed, TypeOK, EntryType
      <3>. QED BY <1>1, <1>2, <2>4, <3>1 DEF CommandEnds, net
    <2>. QED BY <1>4, <2>1, <2>2, <2>3, <2>4 DEF Network
  <1>5. CASE onOnline
    <2>1. d \notin {c \in Captures : history[c].send = "failed"}
      BY <1>1 DEF Unconfirmed
    <2>. QED BY <1>1, <1>5, <2>1, SubmitSparesOthers DEF onOnline
  <1>6. CASE Close
    BY <1>1, <1>6 DEF Close, Absent, NoPost, Unconfirmed
  <1>7. CASE Mount
    <2>. DEFINE pending == {c \in Restorable : stored[c] # Absent}
                h == [c \in Captures |-> IF c \in pending THEN stored[c] ELSE history[c]]
    <2>1. d \notin pending /\ h[d] = history[d]
      BY <1>1
    <2>2. CASE Submit(pending, h)
      <3>. HIDE DEF pending, h
      <3>. QED BY <1>1, <2>1, <2>2, SubmitSparesOthers
    <2>. QED BY <1>1, <1>7, <2>2 DEF Mount
  <1>8. CASE Load \/ ReceiveList \/ Elsewhere \/ UNCHANGED vars
    BY <1>1, <1>8 DEF Load, ReceiveList, Elsewhere, net, vars
  <1>9. CASE Loaded
    <2>1. Merged(list.rows)[d].send \notin Unconfirmed
      BY <1>1 DEF Merged, RowsExist, Unconfirmed
    <2>. QED BY <1>1, <1>2, <1>9, <2>1 DEF Loaded, net
  <1>. QED BY <1>3, <1>4, <1>5, <1>6, <1>7, <1>8, <1>9 DEF Next

\* What is shown as being sent is being sent, after every step.
LEMMA SendingKept ==
  ASSUME TypeOK, StorageFollows, RowsExist, FreshIsUnknown, SendingIsBeingSent, [Next]_vars
  PROVE  SendingIsBeingSent'
  <1>. DEFINE Going == {"waiting", "sent", "accepted", "refused"}
  <1>1. ASSUME NEW c \in Captures, Coach(c) PROVE SendingIsBeingSent'
    <2>1. ASSUME enqueueCapture(c) \/ retryEntry(c),
                 NEW d \in Captures, history'[d].send = "sending"
          PROVE  post'[d].at \in Going
      <3>1. CASE d # c
        <4>1. history'[d] = history[d] /\ post'[d] = post[d]
          BY <2>1, <3>1 DEF enqueueCapture, retryEntry, Submit, Show, TypeOK
        <4>. QED BY <2>1, <4>1 DEF SendingIsBeingSent
      <3>2. CASE d = c /\ ~InFlight(c)
        BY <2>1, <3>2 DEF enqueueCapture, retryEntry, Submit, Post, NoPost
      <3>3. CASE d = c /\ InFlight(c) /\ retryEntry(c)
        BY <2>1, <3>3 DEF retryEntry, Submit, Show
      <3>4. CASE d = c /\ InFlight(c) /\ enqueueCapture(c)
        BY <3>4 DEF enqueueCapture, InFlight, FreshIsUnknown
      <3>. QED BY <2>1, <3>1, <3>2, <3>3, <3>4
    <2>2. ASSUME NEW kind, Command(c, kind) PROVE SendingIsBeingSent'
      BY <2>2 DEF Command, SendingIsBeingSent, net
    <2>. QED BY <1>1, <2>1, <2>2 DEF Coach, SendingIsBeingSent
  <1>2. ASSUME NEW c \in Captures, Network(c) PROVE SendingIsBeingSent'
    <2>1. CASE ReceivePost(c)
      <3>1. post'[c].at \in Going
        BY <2>1 DEF ReceivePost, Answer, TypeOK, PostType
      <3>. QED BY <2>1, <3>1 DEF ReceivePost, SendingIsBeingSent, TypeOK
    <2>2. CASE ReceiveLatePost(c) \/ ReceiveCommand(c)
      BY <2>2 DEF ReceiveLatePost, ReceiveCommand, SendingIsBeingSent, net
    <2>3. CASE PostSucceeds(c)
      <3>1. history'[c].send # "sending"
        BY <2>3 DEF PostSucceeds, Show, Patched, Confirmed, Absent, TypeOK
      <3>. QED BY <2>3, <3>1 DEF PostSucceeds, Show, Patched, SendingIsBeingSent, TypeOK
    <2>4. CASE PostFails(c)
      <3>1. post'[c].at = "waiting" \/ history'[c].send # "sending"
        BY <2>4 DEF PostFails, Show, Patched, Absent, Post, NoPost, TypeOK, EntryType
      <3>. QED BY <2>4, <3>1 DEF PostFails, Show, Patched, SendingIsBeingSent, TypeOK
    <2>5. CASE PostSaved(c) \/ Resend(c)
      BY <2>5 DEF PostSaved, Resend, Post, NoPost, SendingIsBeingSent, TypeOK
    <2>6. CASE CommandEnds(c)
      <3>1. \A d \in Captures : history'[d].send = "sending" => history[d].send = "sending"
        BY <2>6 DEF CommandEnds, Show, Patched, Absent, TypeOK, EntryType
      <3>. QED BY <2>6, <3>1 DEF CommandEnds, SendingIsBeingSent, net
    <2>. QED BY <1>2, <2>1, <2>2, <2>3, <2>4, <2>5, <2>6 DEF Network
  <1>3. CASE onOnline
    BY <1>3 DEF onOnline, Submit, Show, InFlight, Post, NoPost, TypeOK, SendingIsBeingSent
  <1>4. CASE Close
    BY <1>4 DEF Close, SendingIsBeingSent, Absent
  <1>5. CASE Mount
    <2>1. \A c \in Captures : post[c] = NoPost /\ history[c] = Absent
      BY <1>5 DEF Mount, StorageFollows
    <2>2. CASE UNCHANGED <<history, stored, tries, post>>
      BY <2>2 DEF SendingIsBeingSent
    <2>3. ASSUME NEW pending,
                 Submit(pending, [c \in Captures |-> IF c \in pending THEN stored[c]
                                                     ELSE history[c]])
          PROVE  SendingIsBeingSent'
      BY <2>1, <2>3 DEF Submit, Show, InFlight, Post, NoPost, Absent, SendingIsBeingSent
    <2>. QED BY <1>5, <2>2, <2>3 DEF Mount
  <1>6. CASE Load \/ ReceiveList \/ Elsewhere \/ UNCHANGED vars
    BY <1>6 DEF Load, ReceiveList, Elsewhere, SendingIsBeingSent, net, vars
  <1>7. CASE Loaded
    <2>1. CASE UNCHANGED history
      BY <1>7, <2>1 DEF Loaded, SendingIsBeingSent, net
    <2>2. CASE history' = Merged(list.rows)
      <3>1. \A c \in Captures : list.rows[c] # Absent => list.rows[c].send = "confirmed"
        BY DEF RowsExist
      <3>2. ASSUME NEW c \in Captures, history'[c].send = "sending"
            PROVE  history[c].send = "sending"
        <4>1. CASE list.rows[c] = Absent
          BY <2>2, <3>2, <4>1 DEF Merged
        <4>2. CASE list.rows[c] # Absent /\ history[c].send \notin Unconfirmed
          BY <2>2, <3>1, <3>2, <4>2 DEF Merged
        <4>3. CASE list.rows[c] # Absent /\ history[c].send \in Unconfirmed
          BY <2>2, <3>2, <4>3 DEF Merged, TypeOK, ListType, EntryType
        <4>. QED BY <4>1, <4>2, <4>3
      <3>. QED BY <1>7, <3>2 DEF Loaded, SendingIsBeingSent, net
    <2>. QED BY <1>7, <2>1, <2>2 DEF Loaded, Show
  <1>. QED BY <1>1, <1>2, <1>3, <1>4, <1>5, <1>6, <1>7 DEF Next

\* An open page drops an entry only when an undo has been accepted.
LEMMA EntriesStay ==
  ASSUME TypeOK, StorageFollows, RowsExist, [Next]_vars, open, open',
         NEW c \in Captures, history[c] # Absent, history'[c] = Absent
  PROVE  command[c].at = "accepted" /\ command[c].kind = "undo"
  <1>1. ASSUME NEW cs, NEW h, Submit(cs, h), h[c] # Absent PROVE FALSE
    BY <1>1 DEF Submit, Show, Absent
  <1>2. ASSUME NEW d \in Captures, Coach(d) PROVE FALSE
    <2>1. [history EXCEPT ![d] = NewEntry][c] # Absent
      BY DEF TypeOK, NewEntry, Absent
    <2>. QED BY <1>1, <1>2, <2>1 DEF Coach, enqueueCapture, retryEntry, Command
  <1>3. ASSUME NEW d \in Captures, Network(d)
        PROVE  command[c].at = "accepted" /\ command[c].kind = "undo"
    <2>1. CASE PostSucceeds(d)
      BY <2>1 DEF PostSucceeds, Show, Patched, Confirmed, Absent, TypeOK
    <2>2. CASE PostFails(d)
      <3>1. history' = history \/ history' = Patched(d, [history[d] EXCEPT !.send = "failed"])
        BY <2>2 DEF PostFails, Show
      <3>2. history \in [Captures -> EntryType]
        BY DEF TypeOK
      <3>3. [history[d] EXCEPT !.send = "failed"].send = "failed"
        BY <3>2 DEF EntryType
      <3>4. [history[d] EXCEPT !.send = "failed"] # Absent
        BY <3>3 DEF Absent
      <3>. QED BY <3>1, <3>2, <3>4 DEF Patched
    <2>3. CASE CommandEnds(d)
      <3>1. CASE d # c
        BY <2>3, <3>1 DEF CommandEnds, Show, Patched, TypeOK
      <3>2. CASE d = c
        <4>1. [history[c] EXCEPT !.voided = TRUE] # Absent
          BY DEF StorageFollows, Absent, TypeOK, EntryType
        <4>. QED BY <2>3, <3>2, <4>1 DEF CommandEnds, Show, Patched, TypeOK
      <3>. QED BY <3>1, <3>2
    <2>. QED BY <1>3, <2>1, <2>2, <2>3
             DEF Network, ReceivePost, ReceiveLatePost, ReceiveCommand, PostSaved, Resend
  <1>4. CASE Loaded
    <2>1. Merged(list.rows)[c] # Absent
      <3>1. CASE history[c].send \in Unconfirmed /\ list.rows[c] # Absent
        BY <3>1 DEF Merged, Unconfirmed, Absent, TypeOK, ListType, EntryType
      <3>. QED BY <3>1 DEF Merged
    <2>. QED BY <1>4, <2>1 DEF Loaded, Show
  <1>5. CASE onOnline
    BY <1>1, <1>5 DEF onOnline
  <1>. QED BY <1>2, <1>3, <1>4, <1>5 DEF Next, Close, Mount, Load, ReceiveList, Elsewhere, vars

\* No step but the closing of the page loses a capture.
LEMMA CapturesStay ==
  ASSUME IInv, OnlyClosingLosesCaptures, [Next]_vars
  PROVE  OnlyClosingLosesCaptures'
  <1>0. TypeOK /\ StorageFollows /\ RowsExist /\ TypeOK'
    BY TypeKept DEF IInv
  <1>1. \A c \in Captures :
          inserted[c] \in Nat /\ inserted'[c] \in Nat /\ inserted[c] <= inserted'[c]
    BY <1>0, RowsOnlyGrow DEF TypeOK, RowsGrow, Rows, vars
  <1>. SUFFICES ASSUME NEW c \in enqueued'
                PROVE  history'[c] # Absent \/ inserted'[c] > 0 \/ c \in unsent'
    BY DEF OnlyClosingLosesCaptures
  <1>2. c \in Captures /\ unsent \subseteq unsent'
    BY <1>0, OnlyTheyChange DEF TypeOK
  <1>3. CASE c \notin enqueued
    <2>1. enqueueCapture(c)
      BY <1>3, OnlyTheyChange
    <2>2. history'[c].send = "sending"
      BY <1>0, <1>2, <2>1 DEF enqueueCapture, Submit, Show, NewEntry, Absent, TypeOK
    <2>. QED BY <2>2 DEF Absent
  <1>4. CASE c \in unsent \/ inserted[c] > 0
    BY <1>1, <1>2, <1>4
  <1>5. CASE history[c] # Absent
    <2>1. open
      BY <1>0, <1>2, <1>5 DEF StorageFollows
    <2>2. CASE open' /\ history'[c] = Absent
      <3>1. command[c].at = "accepted"
        BY <1>0, <1>2, <1>5, <2>1, <2>2, EntriesStay
      <3>. QED BY <1>0, <1>1, <1>2, <3>1 DEF RowsExist
    <2>3. CASE ~open'
      <3>1. Close
        BY <2>1, <2>3, OnlyTheyChange
      <3>2. CASE history[c].send \in Unconfirmed
        BY <1>2, <3>1, <3>2 DEF Close
      <3>3. CASE history[c].send \notin Unconfirmed
        <4>1. history[c].send = "confirmed"
          BY <1>0, <1>2, <1>5, <3>3 DEF StorageFollows, TypeOK, EntryType, Sends, Unconfirmed
        <4>. QED BY <1>0, <1>1, <1>2, <4>1 DEF RowsExist
      <3>. QED BY <3>2, <3>3
    <2>. QED BY <2>2, <2>3
  <1>. QED BY <1>3, <1>4, <1>5 DEF OnlyClosingLosesCaptures

-----------------------------------------------------------------------------
(* What the board shows as done has been done *)

\* A voided entry, or an answer that says so, is about the row there is, which is voided.
SaysTrue(c, e) == e.voided => ledger[c] = "voided" /\ e.row = inserted[c]

\* How the page gets to know of rows in order.  An entry that waits to be confirmed has
\* at most one row, never commanded; a list is not older than what is shown confirmed;
\* a command is about a row not newer than the one shown.
InOrder(c) ==
  /\ c \notin enqueued => inserted[c] = 0 /\ late[c] = 0
  /\ InFlight(c) => history[c].send \in Unconfirmed
  /\ history[c].send = "confirmed" => stored[c] = Absent
  /\ stored[c] # Absent =>
       command[c].at = "none" /\ inserted[c] <= 1 /\ (inserted[c] = 1 => ledger[c] # "none")
  /\ list.rows[c] # Absent /\ history[c].send = "confirmed" => history[c].row <= list.rows[c].row
  /\ command[c].at \in {"sent", "accepted", "refused"} =>
       history[c].send = "confirmed" /\ command[c].row <= history[c].row

\* What an accepted command has done.
CommandDone(c) ==
  command[c].at = "accepted" =>
    /\ command[c].kind = "void" => ledger[c] = "voided" /\ command[c].row = inserted[c]
    /\ command[c].kind = "undo" => ledger[c] = "none" \/ command[c].row < inserted[c]

Truthful(c) ==
  /\ InOrder(c) /\ CommandDone(c)
  /\ SaysTrue(c, history[c]) /\ SaysTrue(c, stored[c])
  /\ SaysTrue(c, post[c]) /\ SaysTrue(c, list.rows[c])

\* What is not touched stays true, if what is stored is kept or wiped.
LEMMA TruthRests ==
  ASSUME NEW d, Truthful(d), d \in enqueued => d \in enqueued',
         UNCHANGED <<ledger[d], inserted[d], history[d], post[d], late[d], command[d], list.rows[d]>>,
         stored'[d] = stored[d] \/ stored'[d] = Absent
  PROVE  Truthful(d)'
  BY DEF Truthful, InOrder, CommandDone, SaysTrue, InFlight, Absent

\* Storing again what is shown keeps or wipes what is stored.
LEMMA ShowingStoresAgain ==
  ASSUME StorageFollows, NEW d \in Captures, NEW h, Show(h), h[d] = history[d]
  PROVE  history'[d] = history[d] /\ (stored'[d] = stored[d] \/ stored'[d] = Absent)
  BY DEF Show, Pending, StorageFollows

\* Sending again an entry that is stored.
LEMMA SubmitTruth ==
  ASSUME IInv, NEW d \in Captures, Truthful(d), NEW cs, NEW h, Submit(cs, h), cs \subseteq Captures,
         \/ d \notin cs /\ h[d] = history[d]
         \/ d \in cs /\ stored[d] # Absent /\ h[d] = stored[d],
         UNCHANGED <<backend, enqueued, late, command, list>>
  PROVE  Truthful(d)'
  <1>0. TypeOK /\ StorageFollows
    BY DEF IInv
  <1>1. CASE d \notin cs
    <2>1. history'[d] = h[d] /\ post'[d] = post[d]
      BY <1>1, SubmitSparesOthers
    <2>2. stored'[d] = stored[d] \/ stored'[d] = Absent
      BY <1>0, <1>1, <2>1 DEF Submit, Show, Pending, StorageFollows
    <2>. QED BY <1>1, <2>1, <2>2, TruthRests DEF backend
  <1>2. CASE d \in cs
    <2>1. stored[d].send \in Unconfirmed /\ stored[d] \in EntryType
      BY <1>0, <1>2 DEF StorageFollows, TypeOK
    <2>2. CASE InFlight(d)
      <3>1. history[d] = stored[d]
        BY <1>0, <2>2 DEF Truthful, InOrder, StorageFollows
      <3>2. history'[d] = stored[d] /\ stored'[d] = stored[d] /\ post'[d] = post[d]
        BY <1>2, <2>1, <2>2 DEF Submit, Show, Pending
      <3>. QED BY <3>1, <3>2, TruthRests DEF backend
    <2>3. CASE ~InFlight(d)
      <3>1. /\ history'[d] = [stored[d] EXCEPT !.send = "sending"] /\ stored'[d] = history'[d]
            /\ post'[d] = Post("sent")
        BY <1>2, <2>1, <2>3 DEF Submit, Show, Pending, Unconfirmed, EntryType
      <3>2. /\ history'[d].send = "sending" /\ history'[d].row = stored[d].row
            /\ history'[d].voided = stored[d].voided
        BY <2>1, <3>1 DEF EntryType
      <3>3. InOrder(d)'
        BY <1>2, <3>1, <3>2 DEF Truthful, InOrder, Unconfirmed, backend
      <3>4. SaysTrue(d, history[d])' /\ SaysTrue(d, stored[d])' /\ SaysTrue(d, list.rows[d])'
        BY <3>1, <3>2 DEF Truthful, SaysTrue, backend
      <3>5. SaysTrue(d, post[d])'
        BY <3>1 DEF SaysTrue, Post, NoPost
      <3>. QED BY <3>3, <3>4, <3>5 DEF Truthful, CommandDone, backend
    <2>. QED BY <2>2, <2>3
  <1>. QED BY <1>1, <1>2

\* The coach makes a capture, sends it again or commands it.
LEMMA CoachTruth ==
  ASSUME IInv, NEW d \in Captures, Truthful(d), NEW c \in Captures, Coach(c)
  PROVE  Truthful(d)'
  <1>0. TypeOK /\ StorageFollows /\ RowsExist /\ FreshIsUnknown
    BY DEF IInv
  <1>1. CASE enqueueCapture(c)
    <2>. DEFINE h == [history EXCEPT ![c] = NewEntry]
    <2>0. Submit({c}, h) /\ UNCHANGED <<backend, late, command, list>> /\ enqueued' = enqueued \cup {c}
          /\ c \notin enqueued
      BY <1>1 DEF enqueueCapture
    <2>1. CASE d # c
      <3>1. h[d] = history[d]
        BY <1>0, <2>1 DEF TypeOK
      <3>. HIDE DEF h
      <3>2. history'[d] = history[d] /\ post'[d] = post[d]
        BY <2>0, <2>1, <3>1, SubmitSparesOthers
      <3>3. stored'[d] = stored[d] \/ stored'[d] = Absent
        BY <1>0, <2>0, <3>2 DEF Submit, Show, Pending, StorageFollows
      <3>. QED BY <2>0, <3>2, <3>3, TruthRests DEF backend
    <2>2. CASE d = c
      <3>1. ~InFlight(d) /\ inserted[d] = 0 /\ ledger[d] = "none"
        BY <1>0, <2>0, <2>2 DEF FreshIsUnknown, InFlight, Truthful, InOrder, RowsExist
      <3>2. list.rows[d] = Absent /\ command[d].at = "none"
        BY <1>0, <3>1 DEF RowsExist
      <3>3. h[d] = NewEntry
        BY <1>0, <2>2 DEF TypeOK
      <3>. HIDE DEF h
      <3>4. history'[d] = NewEntry /\ stored'[d] = NewEntry /\ post'[d] = Post("sent")
        BY <2>0, <2>2, <3>1, <3>3 DEF Submit, Show, Pending, NewEntry, Absent, Unconfirmed
      <3>. QED BY <2>0, <2>2, <3>1, <3>2, <3>4
               DEF Truthful, InOrder, CommandDone, SaysTrue, NewEntry, Absent, Unconfirmed, Post,
                   NoPost, backend
    <2>. QED BY <2>1, <2>2
  <1>2. CASE retryEntry(c)
    <2>1. d = c => stored[d] # Absent /\ history[d] = stored[d]
      BY <1>0, <1>2 DEF retryEntry, StorageFollows, Unconfirmed, Absent
    <2>2. Submit({c}, history) /\ UNCHANGED <<backend, enqueued, late, command, list>>
      BY <1>2 DEF retryEntry
    <2>. QED BY <2>1, <2>2, SubmitTruth
  <1>3. ASSUME NEW kind, Command(c, kind) PROVE Truthful(d)'
    <2>0. /\ history[c].send = "confirmed" /\ command[c] = NoCommand
          /\ command' = [command EXCEPT ![c] = [at |-> "sent", kind |-> kind, row |-> history[c].row]]
          /\ UNCHANGED <<backend, enqueued, history, stored, net, list>>
      BY <1>3 DEF Command
    <2>1. CASE d # c
      BY <1>0, <2>0, <2>1, TruthRests DEF TypeOK, backend, net
    <2>2. CASE d = c
      <3>1. command'[d] = [at |-> "sent", kind |-> kind, row |-> history[d].row]
        BY <1>0, <2>0, <2>2 DEF TypeOK
      <3>2. history[d].row \in Nat
        BY <1>0, BoundsAssumption DEF TypeOK, EntryType, Rows
      <3>3. InOrder(d)'
        BY <2>0, <2>2, <3>1, <3>2 DEF Truthful, InOrder, InFlight, backend, net
      <3>4. CommandDone(d)'
        BY <3>1 DEF CommandDone
      <3>. QED BY <2>0, <3>3, <3>4 DEF Truthful, SaysTrue, backend, net
    <2>. QED BY <2>1, <2>2
  <1>. QED BY <1>1, <1>2, <1>3 DEF Coach

\* What a step of the backend does to the row of a capture: what is voided stays so,
\* a row comes where there is none, and only a command takes one away.
RowMoves(d) ==
  /\ ledger[d] = "voided" => ledger'[d] = "voided" /\ inserted'[d] = inserted[d]
  /\ \/ inserted'[d] = inserted[d] /\ (ledger[d] = "none" => ledger'[d] = "none")
     \/ inserted'[d] = inserted[d] + 1 /\ ledger[d] = "none" /\ ledger'[d] # "none"
  /\ command[d].at = "none" /\ ledger[d] # "none" => ledger'[d] # "none"

LEMMA RowRests ==
  ASSUME NEW d, UNCHANGED <<ledger[d], inserted[d]>>
  PROVE  RowMoves(d)
  BY DEF RowMoves

LEMMA RegisterMoves ==
  ASSUME TypeOK, NEW d \in Captures, NEW c \in Captures, Register(c)
  PROVE  RowMoves(d) /\ (d # c => UNCHANGED <<ledger[d], inserted[d]>>)
  <1>1. CASE UNCHANGED backend
    BY <1>1, RowRests DEF backend
  <1>2. CASE Backend!Record(c) /\ inserted' = [inserted EXCEPT ![c] = @ + 1]
    <2>1. CASE d # c
      BY <1>2, <2>1, RowRests DEF TypeOK, Backend!LedgerTypeOK, Backend!Record, Backend!Set
    <2>2. CASE d = c
      BY <1>2, <2>2 DEF TypeOK, Backend!LedgerTypeOK, Backend!Record, Backend!Set, RowMoves
    <2>. QED BY <2>1, <2>2
  <1>. QED BY <1>1, <1>2 DEF Register

LEMMA ObeyMoves ==
  ASSUME TypeOK, NEW d \in Captures, NEW c \in Captures, Obey(c), command[c].at # "none"
  PROVE  /\ RowMoves(d)
         /\ d # c => UNCHANGED <<ledger[d], inserted[d]>>
         /\ inserted' = inserted /\ command[c].row = inserted[c]
         /\ \/ command[c].kind = "undo" /\ ledger'[c] = "none"
            \/ command[c].kind = "void" /\ ledger'[c] = "voided"
  BY DEF Obey, TypeOK, Backend!LedgerTypeOK, Backend!Undo, Backend!Void, Backend!Set,
         Backend!InForce, RowMoves

LEMMA ElsewhereMoves ==
  ASSUME TypeOK, NEW d \in Captures, Elsewhere
  PROVE  RowMoves(d)
  <1>1. inserted' = inserted
    BY DEF Elsewhere
  <1>2. CASE UNCHANGED ledger
    BY <1>1, <1>2, RowRests
  <1>3. CASE Backend!CallOff
    BY <1>1, <1>3 DEF Backend!CallOff, Backend!InForce, RowMoves
  <1>4. ASSUME NEW c \in Captures, Backend!Void(c) PROVE RowMoves(d)
    BY <1>1, <1>4 DEF TypeOK, Backend!LedgerTypeOK, Backend!Void, Backend!Set, Backend!InForce, RowMoves
  <1>. QED BY <1>2, <1>3, <1>4
           DEF Elsewhere, Backend!KickOff, Backend!FinalWhistle, Backend!CloseWindow

\* A step of the backend that leaves the page and the command of the capture alone.
LEMMA RowTruth ==
  ASSUME IInv, NEW d \in Captures, Truthful(d), RowMoves(d),
         d \notin enqueued => inserted'[d] = inserted[d] /\ late'[d] = late[d],
         UNCHANGED <<enqueued, history, stored, command, list>>,
         post'[d] = post[d] \/ (InFlight(d) /\ SaysTrue(d, post[d])')
  PROVE  Truthful(d)'
  <1>0. TypeOK /\ RowsExist
    BY DEF IInv
  <1>1. inserted[d] \in Nat /\ command[d].row \in Nat
    BY <1>0, BoundsAssumption DEF TypeOK, Rows, CommandType
  <1>2. InOrder(d)'
    BY <1>1 DEF Truthful, InOrder, RowMoves, InFlight
  <1>3. command[d].at # "none" => command[d].row <= inserted[d]
    BY <1>0, <1>1 DEF RowsExist
  <1>4. CommandDone(d)'
    BY <1>1, <1>3 DEF Truthful, CommandDone, RowMoves
  <1>. QED BY <1>2, <1>4 DEF Truthful, SaysTrue, RowMoves

\* The backend serves an attempt, or one given up on, or a command.
LEMMA ServeTruth ==
  ASSUME IInv, NEW d \in Captures, Truthful(d), NEW c \in Captures,
         ReceivePost(c) \/ ReceiveLatePost(c) \/ ReceiveCommand(c)
  PROVE  Truthful(d)'
  <1>0. TypeOK /\ FreshIsUnknown /\ RowsExist
    BY DEF IInv
  <1>1. CASE ReceivePost(c)
    <2>0. /\ post[c].at = "sent" /\ UNCHANGED <<enqueued, history, stored, late, command, list>>
          /\ Register(c) \/ UNCHANGED backend
      BY <1>1 DEF ReceivePost
    <2>1. RowMoves(d) /\ (d # c => UNCHANGED <<ledger[d], inserted[d]>>)
      BY <1>0, <2>0, RegisterMoves, RowRests DEF backend
    <2>2. d = c => d \in enqueued /\ InFlight(d)
      BY <1>0, <2>0 DEF FreshIsUnknown, InFlight
    <2>3. d # c => post'[d] = post[d]
      BY <1>0, <1>1 DEF ReceivePost, TypeOK
    <2>4. ASSUME d = c PROVE SaysTrue(d, post[d])'
      <3>1. post[d] \in PostType
        BY <1>0 DEF TypeOK
      <3>2. CASE post' = [post EXCEPT ![c] = Answer(inserted'[c], ledger'[c] = "voided")]
        BY <1>0, <2>4, <3>2 DEF TypeOK, Answer, SaysTrue
      <3>3. CASE post' = [post EXCEPT ![c].at = "refused"] /\ UNCHANGED backend
        <4>1. post'[d].voided = post[d].voided /\ post'[d].row = post[d].row
          BY <1>0, <2>4, <3>1, <3>3 DEF TypeOK, PostType
        <4>. QED BY <3>3, <4>1 DEF Truthful, SaysTrue, backend
      <3>. QED BY <1>1, <3>2, <3>3 DEF ReceivePost
    <2>. QED BY <2>0, <2>1, <2>2, <2>3, <2>4, RowTruth
  <1>2. CASE ReceiveLatePost(c)
    <2>0. /\ late[c] > 0 /\ late' = [late EXCEPT ![c] = @ - 1]
          /\ UNCHANGED <<enqueued, history, stored, post, command, list>>
          /\ Register(c) \/ UNCHANGED backend
      BY <1>2 DEF ReceiveLatePost
    <2>1. RowMoves(d) /\ (d # c => UNCHANGED <<ledger[d], inserted[d]>>)
      BY <1>0, <2>0, RegisterMoves, RowRests DEF backend
    <2>2. d = c => d \in enqueued
      BY <2>0 DEF Truthful, InOrder
    <2>3. d # c => late'[d] = late[d]
      BY <1>0, <2>0 DEF TypeOK
    <2>. QED BY <2>0, <2>1, <2>2, <2>3, RowTruth
  <1>3. CASE ReceiveCommand(c)
    <2>0. /\ UNCHANGED <<enqueued, history, stored, post, late, list>>
          /\ command[c].at \in {"sent", "late"}
          /\ Obey(c) \/ UNCHANGED backend
      BY <1>3 DEF ReceiveCommand, net
    <2>1. RowMoves(d) /\ inserted' = inserted /\ (d # c => UNCHANGED <<ledger[d], inserted[d]>>)
      BY <1>0, <2>0, ObeyMoves, RowRests DEF backend
    <2>2. CASE d # c
      <3>1. command'[d] = command[d]
        BY <1>0, <1>3, <2>2 DEF ReceiveCommand, TypeOK
      <3>. QED BY <2>0, <2>1, <2>2, <3>1, TruthRests
    <2>3. CASE d = c
      <3>0. command[d] \in CommandType /\ stored[d] = Absent
        BY <1>0, <2>0, <2>3 DEF TypeOK, Truthful, InOrder
      <3>1. \/ /\ command'[d].at \in {"accepted", "refused"} /\ command[d].at = "sent"
               /\ command'[d].row = command[d].row /\ command'[d].kind = command[d].kind
               /\ command'[d].at = "accepted" => Obey(d)
            \/ command'[d].at = "none"
        BY <1>0, <1>3, <2>3, <3>0 DEF ReceiveCommand, TypeOK, CommandType, NoCommand
      <3>2. InOrder(d)'
        BY <2>0, <2>1, <2>3, <3>0, <3>1 DEF Truthful, InOrder, InFlight
      <3>3. CommandDone(d)'
        BY <1>0, <2>0, <2>3, <3>1, ObeyMoves DEF CommandDone
      <3>. QED BY <2>0, <2>1, <3>2, <3>3 DEF Truthful, SaysTrue, RowMoves
    <2>. QED BY <2>2, <2>3
  <1>. QED BY <1>1, <1>2, <1>3

\* An attempt ends, is put off or sent again.
LEMMA PostTruth ==
  ASSUME IInv, NEW d \in Captures, Truthful(d), NEW c \in Captures,
         PostSucceeds(c) \/ PostFails(c) \/ PostSaved(c) \/ Resend(c)
  PROVE  Truthful(d)'
  <1>0. TypeOK /\ StorageFollows /\ RowsExist /\ FreshIsUnknown
    BY DEF IInv
  <1>1. UNCHANGED <<ledger, inserted, enqueued, command, list>>
    BY DEF PostSucceeds, PostFails, PostSaved, Resend, backend
  <1>2. CASE d # c
    <2>1. post'[d] = post[d] /\ late'[d] = late[d]
      BY <1>0, <1>2 DEF PostSucceeds, PostFails, PostSaved, Resend, AttemptLost, TypeOK
    <2>2. \/ UNCHANGED <<history, stored>>
          \/ \E e : Show(Patched(c, e))
      BY DEF PostSucceeds, PostFails, PostSaved, Resend
    <2>3. \A e : Patched(c, e)[d] = history[d]
      BY <1>0, <1>2 DEF Patched, TypeOK
    <2>4. history'[d] = history[d] /\ (stored'[d] = stored[d] \/ stored'[d] = Absent)
      BY <1>0, <2>2, <2>3, ShowingStoresAgain
    <2>. QED BY <1>1, <2>1, <2>4, TruthRests
  <1>3. CASE d = c
    <2>0. /\ InFlight(d) /\ d \in enqueued
      BY <1>0, <1>3 DEF PostSucceeds, PostFails, PostSaved, Resend, AttemptLost, InFlight, FreshIsUnknown
    <2>1. /\ history[d].send \in Unconfirmed /\ stored[d] = history[d] /\ stored[d] # Absent
          /\ history[d] # Absent /\ history[d] \in EntryType
      BY <1>0, <2>0 DEF Truthful, InOrder, StorageFollows, Unconfirmed, Absent, TypeOK
    <2>2. command[d].at = "none" /\ inserted[d] <= 1 /\ inserted[d] \in Nat
      BY <1>0, <2>1, BoundsAssumption DEF Truthful, InOrder, TypeOK, Rows
    <2>3. CASE PostSucceeds(d)
      <3>1. /\ history'[d] = Confirmed(post[d].row, post[d].voided)
            /\ stored'[d] = Absent /\ post'[d] = NoPost
        BY <1>0, <2>1, <2>3 DEF PostSucceeds, Show, Pending, Patched, Confirmed, Unconfirmed, TypeOK
      <3>2. post[d].row = 1
        BY <1>0, <2>2, <2>3 DEF PostSucceeds, RowsExist
      <3>3. list.rows[d] # Absent => list.rows[d].row >= 1
        BY <1>0, <2>2 DEF RowsExist
      <3>4. InOrder(d)'
        BY <1>1, <2>0, <2>2, <3>1, <3>2, <3>3 DEF InOrder, Confirmed, InFlight, NoPost
      <3>. QED BY <1>1, <3>1, <3>4
               DEF Truthful, CommandDone, SaysTrue, Confirmed, Absent, NoPost
    <2>4. CASE PostFails(d)
      <3>1. \/ post'[d] = Post("waiting") /\ UNCHANGED <<history, stored>>
            \/ /\ post'[d] = Post("saving")
               /\ history'[d] = [history[d] EXCEPT !.send = "failed"]
               /\ stored'[d] = [history[d] EXCEPT !.send = "failed"]
        BY <1>0, <2>1, <2>4 DEF PostFails, Show, Pending, Patched, Unconfirmed, TypeOK, EntryType
      <3>2. /\ history'[d].send \in Unconfirmed /\ history'[d].row = history[d].row
            /\ history'[d].voided = history[d].voided /\ stored'[d] = history'[d]
        BY <2>1, <3>1 DEF EntryType, Unconfirmed
      <3>3. SaysTrue(d, post[d])' /\ InFlight(d)'
        BY <3>1 DEF SaysTrue, Post, NoPost, InFlight
      <3>4. InOrder(d)'
        BY <1>1, <2>0, <2>1, <3>2 DEF Truthful, InOrder, Unconfirmed
      <3>. QED BY <1>1, <2>1, <3>2, <3>3, <3>4 DEF Truthful, CommandDone, SaysTrue
    <2>5. CASE PostSaved(d) \/ Resend(d)
      <3>1. /\ post'[d] \in {NoPost, Post("sent")}
            /\ UNCHANGED <<history, stored, late>>
        BY <1>0, <2>5 DEF PostSaved, Resend, TypeOK
      <3>2. SaysTrue(d, post[d])'
        BY <3>1 DEF SaysTrue, Post, NoPost
      <3>3. InOrder(d)'
        BY <1>1, <2>0, <2>1, <3>1 DEF Truthful, InOrder
      <3>. QED BY <1>1, <3>1, <3>2, <3>3 DEF Truthful, CommandDone, SaysTrue
    <2>. QED BY <1>3, <2>3, <2>4, <2>5
  <1>. QED BY <1>2, <1>3

\* A command ends.
LEMMA CommandTruth ==
  ASSUME IInv, NEW d \in Captures, Truthful(d), NEW c \in Captures, CommandEnds(c)
  PROVE  Truthful(d)'
  <1>0. TypeOK /\ StorageFollows /\ RowsExist
    BY DEF IInv
  <1>1. UNCHANGED <<ledger, inserted, enqueued, post, late, list>>
    BY DEF CommandEnds, backend, net
  <1>2. CASE d # c
    <2>1. command'[d] = command[d]
      BY <1>0, <1>2 DEF CommandEnds, TypeOK
    <2>2. UNCHANGED <<history, stored>> \/ \E e : Show(Patched(c, e))
      BY DEF CommandEnds
    <2>3. \A e : Patched(c, e)[d] = history[d]
      BY <1>0, <1>2 DEF Patched, TypeOK
    <2>4. history'[d] = history[d] /\ (stored'[d] = stored[d] \/ stored'[d] = Absent)
      BY <1>0, <2>2, <2>3, ShowingStoresAgain
    <2>. QED BY <1>1, <2>1, <2>4, TruthRests
  <1>3. CASE d = c
    <2>0. command[d].at \in {"sent", "accepted", "refused"}
      BY <1>3 DEF CommandEnds
    <2>1. /\ history[d].send = "confirmed" /\ command[d].row <= history[d].row /\ stored[d] = Absent
          /\ ~InFlight(d) /\ history[d] \in EntryType /\ history[d] # Absent
      BY <1>0, <2>0 DEF Truthful, InOrder, TypeOK, Unconfirmed, Absent
    <2>2. CASE \/ command' = [command EXCEPT ![c] = NoCommand] /\ UNCHANGED <<history, stored>>
               \/ /\ command' = [command EXCEPT ![c].at = "late"] /\ UNCHANGED <<history, stored>>
      <3>1. command'[d].at \in {"none", "late"}
        BY <1>0, <1>3, <2>2 DEF TypeOK, CommandType, NoCommand
      <3>2. InOrder(d)'
        BY <1>1, <2>1, <2>2, <3>1 DEF Truthful, InOrder, InFlight
      <3>. QED BY <1>1, <2>2, <3>1, <3>2 DEF Truthful, CommandDone, SaysTrue
    <2>3. CASE /\ Show(Patched(c, Absent))
               /\ command' = [command EXCEPT ![c] = NoCommand]
      <3>1. history'[d] = Absent /\ stored'[d] = Absent /\ command'[d] = NoCommand
        BY <1>0, <1>3, <2>1, <2>3 DEF Show, Pending, Patched, Absent, Unconfirmed, TypeOK
      <3>2. InOrder(d)'
        BY <1>1, <2>1, <3>1 DEF Truthful, InOrder, InFlight, Absent, NoCommand
      <3>. QED BY <1>1, <3>1, <3>2 DEF Truthful, CommandDone, SaysTrue, Absent, NoCommand
    <2>4. CASE /\ command[c].at = "accepted" /\ command[c].kind = "void"
               /\ Show(Patched(c, [history[c] EXCEPT !.voided = TRUE]))
               /\ command' = [command EXCEPT ![c] = NoCommand]
      <3>1. /\ history'[d] = [history[d] EXCEPT !.voided = TRUE]
            /\ stored'[d] = Absent /\ command'[d] = NoCommand
        BY <1>0, <1>3, <2>1, <2>4 DEF Show, Pending, Patched, Absent, Unconfirmed, TypeOK, EntryType
      <3>2. history'[d].send = "confirmed" /\ history'[d].row = history[d].row
        BY <2>1, <3>1 DEF EntryType
      <3>3. ledger[d] = "voided" /\ command[d].row = inserted[d]
        BY <1>3, <2>4 DEF Truthful, CommandDone
      <3>4. history[d].row = inserted[d]
        <4>1. history[d].row \in 1..inserted[d] /\ inserted[d] \in Nat
          BY <1>0, <2>1, BoundsAssumption DEF RowsExist, TypeOK, Rows
        <4>. QED BY <2>1, <3>3, <4>1
      <3>5. InOrder(d)'
        BY <1>1, <2>1, <3>1, <3>2 DEF Truthful, InOrder, InFlight, NoCommand
      <3>. QED BY <1>1, <3>1, <3>2, <3>3, <3>4, <3>5
               DEF Truthful, CommandDone, SaysTrue, Absent, NoCommand
    <2>. QED BY <2>2, <2>3, <2>4 DEF CommandEnds
  <1>. QED BY <1>2, <1>3

\* The page is closed and opened, comes back online, and loads the list.
LEMMA PageTruth ==
  ASSUME IInv, NEW d \in Captures, Truthful(d),
         onOnline \/ Close \/ Mount \/ Load \/ ReceiveList \/ Loaded
  PROVE  Truthful(d)'
  <1>0. TypeOK /\ StorageFollows /\ RowsExist /\ FreshIsUnknown
    BY DEF IInv
  <1>1. CASE onOnline
    <2>. DEFINE failed == {c \in Captures : history[c].send = "failed"}
    <2>1. d \in failed => stored[d] # Absent /\ history[d] = stored[d]
      BY <1>0 DEF StorageFollows, Unconfirmed, Absent
    <2>2. Submit(failed, history) /\ UNCHANGED <<backend, enqueued, late, command, list>>
      BY <1>1 DEF onOnline
    <2>. HIDE DEF failed
    <2>3. failed \subseteq Captures
      BY DEF failed
    <2>. QED BY <2>1, <2>2, <2>3, SubmitTruth
  <1>2. CASE Close
    <2>1. /\ history'[d] = Absent /\ post'[d] = NoPost /\ list' = NoList
          /\ UNCHANGED <<ledger, inserted, enqueued, stored>>
      BY <1>2 DEF Close, backend
    <2>2. d \notin enqueued => late'[d] = late[d]
      BY <1>0, <1>2 DEF Close, FreshIsUnknown
    <2>3. /\ command'[d].at \in {"none", "late"}
          /\ command[d].at = "none" => command'[d].at = "none"
      BY <1>0, <1>2 DEF Close, TypeOK, CommandType, NoCommand
    <2>4. InOrder(d)'
      BY <2>1, <2>2, <2>3 DEF Truthful, InOrder, InFlight, NoPost, NoList, Absent
    <2>. QED BY <2>1, <2>3, <2>4 DEF Truthful, CommandDone, SaysTrue, Absent, NoPost, NoList
  <1>3. CASE Mount
    <2>. DEFINE pending == {c \in Restorable : stored[c] # Absent}
                h == [c \in Captures |-> IF c \in pending THEN stored[c] ELSE history[c]]
    <2>0. UNCHANGED <<backend, enqueued, late, command, list>>
      BY <1>3 DEF Mount
    <2>1. CASE UNCHANGED <<history, stored, tries, post>>
      BY <2>0, <2>1, TruthRests DEF backend
    <2>2. CASE Submit(pending, h)
      <3>1. pending \subseteq Captures
        BY CapturesAssumption
      <3>2. \/ d \notin pending /\ h[d] = history[d]
            \/ d \in pending /\ stored[d] # Absent /\ h[d] = stored[d]
        OBVIOUS
      <3>. HIDE DEF pending, h
      <3>. QED BY <2>0, <2>2, <3>1, <3>2, SubmitTruth
    <2>. QED BY <1>3, <2>1, <2>2 DEF Mount
  <1>4. CASE Load
    <2>1. list'.rows = list.rows
      BY <1>0, <1>4 DEF Load, TypeOK, ListType
    <2>. QED BY <1>4, <2>1, TruthRests DEF Load, backend, net
  <1>5. CASE ReceiveList
    <2>1. /\ UNCHANGED <<ledger, inserted, enqueued, history, stored, post, late, command>>
          /\ list'.rows[d] = IF ledger[d] = "none" THEN Absent
                             ELSE Confirmed(inserted[d], ledger[d] = "voided")
      BY <1>5 DEF ReceiveList, backend, net
    <2>2. history[d].send = "confirmed" => history[d].row <= inserted[d]
      <3>1. inserted[d] \in Nat
        BY <1>0, BoundsAssumption DEF TypeOK, Rows
      <3>. QED BY <1>0, <3>1 DEF RowsExist
    <2>3. InOrder(d)'
      BY <2>1, <2>2 DEF Truthful, InOrder, InFlight, Confirmed
    <2>4. SaysTrue(d, list.rows[d])'
      <3>1. CASE ledger[d] = "none"
        BY <2>1, <3>1 DEF SaysTrue, Absent
      <3>2. CASE ledger[d] # "none"
        <4>0. list'.rows[d] = Confirmed(inserted[d], ledger[d] = "voided")
          BY <2>1, <3>2
        <4>1. list'.rows[d].row = inserted[d]
          BY <4>0 DEF Confirmed
        <4>2. ledger[d] # "voided" => list'.rows[d].voided = FALSE
          <5>1. ledger[d] # "voided" => list'.rows[d] = Confirmed(inserted[d], FALSE)
            BY <4>0
          <5>. QED BY <5>1 DEF Confirmed
        <4>. QED BY <2>1, <4>1, <4>2 DEF SaysTrue
      <3>. QED BY <3>1, <3>2
    <2>. QED BY <2>1, <2>3, <2>4 DEF Truthful, CommandDone, SaysTrue
  <1>6. CASE Loaded
    <2>0. list' = NoList /\ UNCHANGED <<ledger, inserted, enqueued, post, late, command>>
      BY <1>6 DEF Loaded, backend, net
    <2>1. list'.rows[d] = Absent
      BY <2>0 DEF NoList
    <2>2. CASE /\ history'[d] = history[d]
               /\ stored'[d] = stored[d] \/ stored'[d] = Absent
      BY <2>0, <2>1, <2>2 DEF Truthful, InOrder, CommandDone, SaysTrue, InFlight, Absent
    <2>3. CASE Show(Merged(list.rows)) /\ list.rows[d] # Absent
      <3>. DEFINE e == list.rows[d]
      <3>0. e \in EntryType /\ e.send = "confirmed"
        BY <1>0, <2>3 DEF RowsExist, TypeOK, ListType
      <3>1. CASE history[d].send \in Unconfirmed
        <4>1. history'[d] = [e EXCEPT !.send = history[d].send]
          BY <2>3, <3>1 DEF Show, Merged
        <4>2. /\ history'[d].send = history[d].send /\ history'[d].row = e.row
              /\ history'[d].voided = e.voided
          BY <3>0, <4>1 DEF EntryType
        <4>3. stored'[d] = history'[d] /\ stored[d] # Absent
          <5>1. stored[d] # Absent
            BY <1>0, <3>1 DEF StorageFollows, Unconfirmed, Absent
          <5>2. history'[d] = Merged(list.rows)[d] /\ stored' = Pending(Merged(list.rows))
            BY <2>3 DEF Show
          <5>3. stored'[d] = history'[d]
            BY <3>1, <4>2, <5>2 DEF Pending
          <5>. QED BY <5>1, <5>3
        <4>4. InOrder(d)'
          BY <2>0, <2>1, <3>1, <4>2, <4>3 DEF Truthful, InOrder, InFlight, Unconfirmed
        <4>. QED BY <2>0, <2>1, <4>2, <4>3, <4>4 DEF Truthful, CommandDone, SaysTrue, Absent
      <3>2. CASE history[d].send \notin Unconfirmed
        <4>1. history'[d] = e /\ stored'[d] = Absent
          BY <2>3, <3>0, <3>2 DEF Show, Merged, Pending, Unconfirmed
        <4>2. /\ e.row \in Nat /\ history[d].row \in Nat /\ command[d].row \in Nat
          BY <1>0, <3>0, BoundsAssumption DEF TypeOK, EntryType, CommandType, Rows
        <4>3. InOrder(d)'
          BY <2>0, <2>1, <2>3, <3>0, <3>2, <4>1, <4>2 DEF Truthful, InOrder, InFlight
        <4>. QED BY <2>0, <2>1, <4>1, <4>3 DEF Truthful, CommandDone, SaysTrue, Absent
      <3>. QED BY <3>1, <3>2
    <2>4. CASE Show(Merged(list.rows)) /\ list.rows[d] = Absent
      <3>1. Merged(list.rows)[d] = history[d]
        BY <2>4 DEF Merged
      <3>. QED BY <1>0, <2>2, <2>4, <3>1, ShowingStoresAgain
    <2>. QED BY <1>6, <2>2, <2>3, <2>4 DEF Loaded
  <1>. QED BY <1>1, <1>2, <1>3, <1>4, <1>5, <1>6

LEMMA TruthKept ==
  ASSUME IInv, NEW d \in Captures, Truthful(d), [Next]_vars
  PROVE  Truthful(d)'
  <1>1. CASE Elsewhere
    BY <1>1, ElsewhereMoves, RowTruth DEF Elsewhere, IInv, net
  <1>2. CASE UNCHANGED vars
    BY <1>2, TruthRests DEF vars
  <1>. QED BY <1>1, <1>2, CoachTruth, ServeTruth, PostTruth, CommandTruth, PageTruth DEF Next, Network

-----------------------------------------------------------------------------
(* Theorems *)

\* The inductive invariant holds throughout.
THEOREM BoardInvariance == Spec => []IInv
  <1>1. Init => IInv
    BY Initially
  <1>2. IInv /\ [Next]_vars => IInv'
    BY TypeKept, StorageKept, RowsKept, FreshKept, SendingKept DEF IInv
  <1>. QED BY <1>1, <1>2, PTL DEF Spec

\* The state of the board is well typed, its counters within their bounds.
THEOREM BoardTypeCorrect == Spec => []TypeOK
  <1>. QED BY BoardInvariance, PTL DEF IInv

\* Whatever the board shows as being sent has a submission going on behind it
\* (runSubmit in useCaptureQueue.ts), through reloads and reconnections.
THEOREM NothingHangs == Spec => []SendingIsBeingSent
  <1>. QED BY BoardInvariance, PTL DEF IInv

\* Nothing but the closing of the page loses a capture that has not reached the backend
\* (patchEntry, upsertFromServer and runSubmit in useCaptureQueue.ts keep it on screen),
\* for any number of captures, failed attempts, undos and stale lists, and whatever the
\* storage gives back.
THEOREM OnlyClosingLoses == Spec => []OnlyClosingLosesCaptures
  <1>1. Init => OnlyClosingLosesCaptures
    BY DEF Init, OnlyClosingLosesCaptures
  <1>. QED BY <1>1, CapturesStay, BoardInvariance, PTL DEF Spec

LEMMA TruthInvariance == Spec => [](IInv /\ \A c \in Captures : Truthful(c))
  <1>1. Init => \A c \in Captures : Truthful(c)
    <2>. SUFFICES ASSUME Init, NEW c \in Captures PROVE Truthful(c)
      OBVIOUS
    <2>1. /\ inserted[c] = 0 /\ late[c] = 0 /\ history[c] = Absent /\ stored[c] = Absent
          /\ post[c] = NoPost /\ command[c] = NoCommand /\ list.rows[c] = Absent
      BY DEF Init, NoList
    <2>. QED BY <2>1 DEF Truthful, InOrder, CommandDone, SaysTrue, InFlight, Absent, NoPost, NoCommand
  <1>2. IInv /\ (\A c \in Captures : Truthful(c)) /\ [Next]_vars => (\A c \in Captures : Truthful(c))'
    BY TruthKept
  <1>. QED BY <1>1, <1>2, BoardInvariance, PTL DEF Spec

\* Whatever the board shows as confirmed is a row of the backend, and whatever it
\* shows as voided is voided there (useCaptureQueue.ts: patchEntry, upsertFromServer),
\* with any number of late attempts, retries, undos, stale lists and reloads.
THEOREM ShownIsDone == Spec => []ConfirmedIsTrue
  <1>1. IInv /\ (\A c \in Captures : Truthful(c)) => ConfirmedIsTrue
    BY DEF IInv, RowsExist, Truthful, SaysTrue, ConfirmedIsTrue
  <1>. QED BY <1>1, TruthInvariance, PTL

\* An open page takes an entry off the screen only when the row it asked to undo is
\* gone (immediateUndo in useCaptureQueue.ts).
THEOREM LiveActionsStayOnScreen == Spec => NeverForgetsALiveAction
  <1>1. ASSUME IInv, \A c \in Captures : Truthful(c), [Next]_vars,
               NEW c \in Captures, open, open', history[c] # Absent, history'[c] = Absent
        PROVE  ledger[c] = "none" \/ inserted[c] > command[c].row
    <2>1. command[c].at = "accepted" /\ command[c].kind = "undo"
      BY <1>1, EntriesStay DEF IInv
    <2>2. inserted[c] \in Nat /\ command[c].row \in Nat
      BY <1>1, BoundsAssumption DEF IInv, TypeOK, Rows, CommandType
    <2>. QED BY <1>1, <2>1, <2>2 DEF Truthful, CommandDone
  <1>2. IInv /\ (\A c \in Captures : Truthful(c)) /\ [Next]_vars =>
          [\A c \in Captures :
             (open /\ open' /\ history[c] # Absent /\ history'[c] = Absent)
               => ledger[c] = "none" \/ inserted[c] > command[c].row]_vars
    BY <1>1
  <1>. QED BY <1>2, TruthInvariance, PTL DEF Spec, NeverForgetsALiveAction

-----------------------------------------------------------------------------
(* The renewal of the tokens: whatever a request holds of a pair that has  *)
(* not reached the browser, it alone holds.                                *)

PairRows == [state : {"none", "live", "rotated", "stranded", "revoked"},
             age : {"fresh", "expiring", "expired"}, accepted : BOOLEAN, origin : Nat]
Carried == [access : 0..MaxTokens, refresh : 0..MaxTokens, cookies : {"kept", "set", "cleared"},
            token : 0..MaxTokens, why : {"ensure", "resolve", "renew", "retry"},
            got : 0..MaxTokens, outcome : {"ok", "refused", "failed"}]

LivePair(g) == tokens[g].state = "live"

\* The pairs that are in no other hands than those of a request at some stage: one the
\* backend has just given it, or it is going to give the browser.
OwnOf(stage, l) ==
  (IF l.cookies = "set" THEN {l.refresh} ELSE {})
    \cup (IF stage = "answer" /\ l.got # 0 THEN {l.got} ELSE {})
Own(r) == OwnOf(pc[r], loc[r])

\* The pairs that a request has its hands on.
UsesOf(stage, l) ==
  ({l.refresh, l.token} \cup (IF stage = "answer" THEN {l.got} ELSE {})) \ {0}
Uses(r) == UsesOf(pc[r], loc[r])

\* A refresh is of the token among the cookies, and cookies that are set hold one.
Flies(stage, l) ==
  /\ stage \in {"refresh", "answer", "joined"} => l.token = l.refresh /\ l.token # 0
  /\ l.cookies = "set" => l.refresh # 0
Flying == \A r \in Requests : Flies(pc[r], loc[r])

Numbered == jar.refresh <= issued /\ \A r \in Requests : \A g \in Uses(r) : g <= issued

Exclusive ==
  \A r \in Requests : \A g \in Own(r) :
    jar.refresh # g /\ \A q \in Requests \ {r} : g \notin Uses(q)

\* What a request owns has not been exchanged, unless for a pair it has.
Unspent(stage, l) ==
  /\ l.cookies = "set" /\ tokens[l.refresh].state = "rotated" => stage = "answer" /\ l.got # 0
  /\ stage = "answer" /\ l.got # 0 => tokens[l.got].state # "rotated"
Unused == \A r \in Requests : Unspent(pc[r], loc[r])

\* The one request under way carries the session, or nothing after a logout.
Carries(stage, l) ==
  /\ stage # "joined"
  /\ intent = "in" =>
       /\ l.cookies # "cleared"
       /\ stage = "answer" => l.got # 0 /\ LivePair(l.got)
       /\ stage # "answer" /\ l.cookies = "set" => LivePair(l.refresh)
       /\ stage # "answer" /\ l.cookies = "kept" =>
            /\ jar.refresh # 0 /\ LivePair(jar.refresh)
            /\ stage # "respond" => l.refresh = jar.refresh
       /\ stage = "resumed" => l.outcome = "ok"
  /\ intent = "out" =>
       /\ l.refresh = 0 /\ stage \notin {"refresh", "answer", "resumed"}
       /\ l.cookies # "set" /\ (l.cookies = "kept" => jar.refresh = 0)

Alone == \A r, q \in Requests : pc[r] # "idle" /\ pc[q] # "idle" => r = q
Keeps ==
  ~overlapped /\ failures = 0 =>
    /\ Alone
    /\ \A r \in Requests : pc[r] # "idle" => Carries(pc[r], loc[r])
    /\ OneAtATimeKeepsTheSession

WInv == WebTypeOK /\ Flying /\ Numbered /\ Exclusive /\ Unused /\ Keeps

-----------------------------------------------------------------------------
Moves(r, stage, l) ==
  /\ pc' = [pc EXCEPT ![r] = stage]
  /\ loc' = [loc EXCEPT ![r] = l]

LEMMA NothingHeld ==
  /\ NoLocals \in Carried /\ NoLocals.refresh = 0 /\ NoLocals.token = 0 /\ NoLocals.got = 0
  /\ NoLocals.cookies = "kept"
BY WebAssumption DEF NoLocals, Carried

LEMMA HandsTyped ==
  ASSUME WebTypeOK, NEW r \in Requests
  PROVE  /\ pc[r] \in Stages /\ loc[r] \in Carried
         /\ loc[r].refresh \in 0..MaxTokens /\ loc[r].access \in 0..MaxTokens
         /\ loc[r].token \in 0..MaxTokens /\ loc[r].got \in 0..MaxTokens
         /\ loc[r].cookies \in {"kept", "set", "cleared"}
<1>1. pc[r] \in Stages /\ loc[r] \in Carried
  BY DEF WebTypeOK, Carried
<1> QED BY <1>1 DEF Carried

LEMMA MovesEffect ==
  ASSUME WebTypeOK, NEW r \in Requests, NEW stage \in Stages, NEW l \in Carried, Moves(r, stage, l)
  PROVE  /\ pc' \in [Requests -> Stages] /\ loc' \in [Requests -> Carried]
         /\ pc'[r] = stage /\ loc'[r] = l
         /\ \A q \in Requests \ {r} : pc'[q] = pc[q] /\ loc'[q] = loc[q]
<1>1. pc' \in [Requests -> Stages] /\ pc'[r] = stage /\ \A q \in Requests \ {r} : pc'[q] = pc[q]
  BY DEF Moves, WebTypeOK
<1>2. loc \in [Requests -> Carried]
  BY DEF WebTypeOK, Carried
<1>3. loc' \in [Requests -> Carried] /\ loc'[r] = l /\ \A q \in Requests \ {r} : loc'[q] = loc[q]
  BY <1>2 DEF Moves
<1> QED BY <1>1, <1>3

\* Whatever a request comes to own is a new pair, or was its own.
LEMMA HandsStep ==
  ASSUME WebTypeOK, Flying, Numbered, Exclusive, NEW r \in Requests, jar' = jar,
         NEW given \in SUBSET {issued + 1}, issued' \in {issued, issued + 1},
         given # {} => issued' = issued + 1,
         \A q \in Requests \ {r} : Own(q)' \subseteq Own(q) /\ Uses(q)' \subseteq Uses(q),
         Own(r)' \subseteq Own(r) \cup given, Uses(r)' \subseteq Uses(r) \cup given
  PROVE  Numbered' /\ Exclusive'
<1>1. issued \in Nat /\ jar.refresh \in Nat
  BY WebAssumption DEF WebTypeOK, Pairs
<1>2. \A q \in Requests : Uses(q) \subseteq Nat /\ Own(q) \subseteq Uses(q)
  <2> SUFFICES ASSUME NEW q \in Requests PROVE Uses(q) \subseteq Nat /\ Own(q) \subseteq Uses(q)
    OBVIOUS
  <2>1. /\ loc[q].refresh \in Nat /\ loc[q].token \in Nat /\ loc[q].got \in Nat
        /\ loc[q].cookies = "set" => loc[q].refresh # 0
    BY HandsTyped, WebAssumption DEF Flying, Flies
  <2> QED BY <2>1 DEF Uses, UsesOf, Own, OwnOf
<1>3. Numbered'
  <2>1. jar'.refresh <= issued'
    BY <1>1 DEF Numbered
  <2>2. ASSUME NEW q \in Requests, NEW g \in Uses(q)' PROVE g <= issued'
    <3>1. g \in Uses(q) \/ g \in given
      BY <2>2
    <3>2. CASE g \in given
      BY <1>1, <3>2
    <3>3. CASE g \in Uses(q)
      <4>1. g <= issued /\ g \in Nat
        BY <1>2, <3>3 DEF Numbered
      <4> QED BY <1>1, <4>1
    <3> QED BY <3>1, <3>2, <3>3
  <2> QED BY <2>1, <2>2 DEF Numbered
<1>4. ASSUME NEW q \in Requests, NEW g \in Own(q)', NEW o \in Requests \ {q}
      PROVE  jar.refresh # g /\ g \notin Uses(o)'
  <2>1. CASE g \in given
    <3>1. q = r /\ g > issued
      BY <1>1, <1>2, <1>4, <2>1 DEF Numbered
    <3> QED BY <1>1, <1>2, <1>4, <2>1, <3>1 DEF Numbered
  <2>2. CASE g \notin given
    <3>1. g \in Own(q)
      BY <1>4, <2>2
    <3> QED BY <1>4, <2>2, <3>1 DEF Exclusive
  <2> QED BY <2>1, <2>2
<1>5. ASSUME NEW q \in Requests, NEW g \in Own(q)' PROVE jar.refresh # g
  <2>1. CASE g \in given
    BY <1>1, <2>1 DEF Numbered
  <2>2. CASE g \notin given
    <3>1. g \in Own(q)
      BY <1>5, <2>2
    <3> QED BY <3>1 DEF Exclusive
  <2> QED BY <2>1, <2>2
<1> QED BY <1>3, <1>4, <1>5 DEF Exclusive


-----------------------------------------------------------------------------
(* Steps of a request that leave the tokens and the browser alone           *)

\* What is known of a request on which others do not depend.
LEMMA OthersStay ==
  ASSUME NEW q, pc'[q] = pc[q], loc'[q] = loc[q]
  PROVE  Own(q)' = Own(q) /\ Uses(q)' = Uses(q) /\ pc'[q] = pc[q]
BY DEF Own, Uses

\* A request goes on with the cookies it has, or with less.
LEMMA QuietMove ==
  ASSUME WInv, NEW r \in Requests, NEW stage \in Stages \ {"answer", "idle"}, NEW l \in Carried,
         Moves(r, stage, l), UNCHANGED <<jar, tokens, issued, overlapped, intent>>,
         failures' \in Nat, failures' = 0 => failures = 0, pc[r] \notin {"answer", "idle"},
         l.refresh \in {0, loc[r].refresh}, l.token \in {0, loc[r].token, loc[r].refresh},
         l.cookies = "set" => loc[r].cookies = "set" /\ l.refresh = loc[r].refresh,
         stage \in {"refresh", "joined"} => l.token = l.refresh /\ l.token # 0,
         ~overlapped /\ failures' = 0 /\ Alone /\ Carries(pc[r], loc[r]) => Carries(stage, l)
  PROVE  WInv'
<1>1. /\ WebTypeOK /\ Flying /\ Numbered /\ Exclusive /\ Unused /\ Keeps
      /\ jar' = jar /\ tokens' = tokens /\ issued' = issued
      /\ overlapped' = overlapped /\ intent' = intent
  BY DEF WInv
<1>2. /\ pc' \in [Requests -> Stages] /\ loc' \in [Requests -> Carried]
      /\ pc'[r] = stage /\ loc'[r] = l
      /\ \A q \in Requests \ {r} : pc'[q] = pc[q] /\ loc'[q] = loc[q]
  BY <1>1, MovesEffect
<1>3. WebTypeOK'
  BY <1>1, <1>2 DEF WebTypeOK, Carried
<1>4. Flying'
  <2>1. Flies(stage, l)
    BY <1>1 DEF Flying, Flies
  <2> QED BY <1>1, <1>2, <2>1 DEF Flying
<1>5. Numbered' /\ Exclusive'
  <2>1. \A q \in Requests \ {r} : Own(q)' \subseteq Own(q) /\ Uses(q)' \subseteq Uses(q)
    BY <1>2 DEF Own, Uses
  <2>2. Own(r)' \subseteq Own(r) \cup {} /\ Uses(r)' \subseteq Uses(r) \cup {}
    BY <1>2 DEF Own, Uses, OwnOf, UsesOf
  <2> QED BY <1>1, <2>1, <2>2, HandsStep
<1>6. Unused'
  <2>1. Unspent(pc[r], loc[r])
    BY <1>1 DEF Unused
  <2>2. Unspent(stage, l)
    BY <2>1 DEF Unspent
  <2>3. \A q \in Requests \ {r} : Unspent(pc[q], loc[q])
    BY <1>1 DEF Unused
  <2> QED BY <1>1, <1>2, <2>2, <2>3 DEF Unused, Unspent
<1>7. Keeps'
  <2> SUFFICES ASSUME ~overlapped, failures' = 0
               PROVE  /\ Alone' /\ \A q \in Requests : pc'[q] # "idle" => Carries(pc[q], loc[q])'
                      /\ OneAtATimeKeepsTheSession'
    BY <1>1 DEF Keeps
  <2>1. Alone /\ \A q \in Requests : pc[q] # "idle" => Carries(pc[q], loc[q])
    BY <1>1 DEF Keeps
  <2>2. \A q \in Requests \ {r} : pc'[q] = "idle"
    BY <1>2, <2>1 DEF Alone
  <2>3. Carries(stage, l)
    BY <2>1
  <2>4. Carries(pc[r], loc[r])'
    BY <1>1, <1>2, <2>3 DEF Carries, LivePair
  <2>5. ~OneAtATimeKeepsTheSession' => FALSE
    BY <1>2 DEF OneAtATimeKeepsTheSession
  <2> QED BY <2>2, <2>4, <2>5 DEF Alone
<1> QED BY <1>3, <1>4, <1>5, <1>6, <1>7 DEF WInv

\* The cookies that a request forgets a refresh with, or is answered with.
LEMMA ForgottenHolds ==
  ASSUME NEW l \in Carried
  PROVE  LET m == Forgotten(l) IN
           /\ m \in Carried /\ m.access = l.access /\ m.refresh = l.refresh
           /\ m.cookies = l.cookies /\ m.token = 0 /\ m.got = 0
<1>1. 0 \in 0..MaxTokens
  BY WebAssumption
<1> QED BY <1>1 DEF Forgotten, Carried

LEMMA ClearedHolds ==
  ASSUME NEW l \in Carried
  PROVE  LET m == clearAuthCookies(l) IN
           m \in Carried /\ m.refresh = 0 /\ m.cookies = "cleared" /\ m.token = l.token
             /\ m.got = l.got
<1>1. 0 \in 0..MaxTokens
  BY WebAssumption
<1> QED BY <1>1 DEF clearAuthCookies, Carried

LEMMA SetHolds ==
  ASSUME NEW l \in Carried, NEW g \in 0..MaxTokens
  PROVE  LET m == setAuthCookies(l, g) IN
           m \in Carried /\ m.refresh = g /\ m.cookies = "set" /\ m.token = l.token /\ m.got = l.got
BY DEF setAuthCookies, Carried

Active == {"ensure", "handle", "execute", "again", "resumed"}

LEMMA GotoKeeps ==
  ASSUME WInv, NEW r \in Requests, pc[r] \in {"ensure", "handle"},
         NEW stage \in {"handle", "execute"}, Goto(r, stage),
         UNCHANGED <<jar, tokens, issued, failures, overlapped, intent>>
  PROVE  WInv'
<1>1. WebTypeOK /\ loc[r] \in Carried
  BY HandsTyped DEF WInv
<1>2. Moves(r, stage, loc[r])
  BY <1>1 DEF Goto, Moves, WebTypeOK
<1>3. stage \in Stages \ {"answer", "idle"} /\ pc[r] \notin {"answer", "idle"} /\ failures' \in Nat
  BY <1>1 DEF Stages, WebTypeOK
<1>4. Carries(pc[r], loc[r]) => Carries(stage, loc[r])
  BY DEF Carries
<1> QED BY <1>1, <1>2, <1>3, <1>4, QuietMove

LEMMA RefreshKeeps ==
  ASSUME WInv, NEW r \in Requests, pc[r] \in {"ensure", "handle", "execute"}, hasRefreshToken(r),
         NEW caller \in {"ensure", "resolve", "renew", "retry"}, refreshSessionCookies(r, caller),
         UNCHANGED <<jar, tokens, issued, failures, overlapped, intent>>
  PROVE  WInv'
<1> DEFINE l == [loc[r] EXCEPT !.token = loc[r].refresh, !.why = caller]
           stage == IF loc[r].refresh \in refreshInflight THEN "joined" ELSE "refresh"
<1>1. WebTypeOK /\ loc[r] \in Carried /\ loc[r].refresh \in 0..MaxTokens /\ loc[r].refresh # 0
  BY HandsTyped DEF WInv, hasRefreshToken
<1>2. Moves(r, stage, l)
  BY <1>1 DEF refreshSessionCookies, Moves, WebTypeOK
<1>3. /\ l \in Carried /\ l.refresh = loc[r].refresh /\ l.token = loc[r].refresh
      /\ l.cookies = loc[r].cookies
  BY <1>1 DEF Carried
<1>4. /\ stage \in Stages \ {"answer", "idle"} /\ stage \in {"joined", "refresh"}
      /\ pc[r] \notin {"answer", "idle"} /\ failures' \in Nat
  BY <1>1 DEF Stages, WebTypeOK
<1>5. Alone => stage = "refresh"
  <2>1. ASSUME loc[r].refresh \in refreshInflight
        PROVE  \E q \in Requests : pc[q] \in {"refresh", "answer"}
    BY <2>1 DEF refreshInflight
  <2> QED BY <2>1 DEF Alone
<1> HIDE DEF l, stage
<1>6. Alone /\ Carries(pc[r], loc[r]) => Carries(stage, l)
  BY <1>1, <1>3, <1>5 DEF Carries
<1> QED BY <1>1, <1>2, <1>3, <1>4, <1>6, QuietMove

LEMMA ResumeKeeps ==
  ASSUME WInv, NEW r \in Requests, pc[r] = "resumed", NEW stage \in {"handle", "execute", "again"},
         Resume(r, stage), UNCHANGED <<jar, tokens, issued, failures, overlapped, intent>>
  PROVE  WInv'
<1> DEFINE l == Forgotten(loc[r])
<1>1. WebTypeOK /\ loc[r] \in Carried
  BY HandsTyped DEF WInv
<1>2. Moves(r, stage, l)
  BY <1>1 DEF Resume, Moves, WebTypeOK
<1>3. /\ l \in Carried /\ l.refresh = loc[r].refresh /\ l.token = 0 /\ l.cookies = loc[r].cookies
  BY <1>1, ForgottenHolds
<1>4. stage \in Stages \ {"answer", "idle"} /\ failures' \in Nat
  BY <1>1 DEF Stages, WebTypeOK
<1> HIDE DEF l
<1>5. Carries(pc[r], loc[r]) => Carries(stage, l)
  BY <1>3 DEF Carries
<1> QED BY <1>1, <1>2, <1>3, <1>4, <1>5, QuietMove

LEMMA RespondKeeps ==
  ASSUME WInv, NEW r \in Requests, pc[r] \in {"handle", "execute", "again", "resumed"}, Respond(r),
         UNCHANGED <<jar, tokens, issued, overlapped, intent>>,
         failures' \in Nat, failures' = 0 => failures = 0
  PROVE  WInv'
<1> DEFINE l == IF loc[r].cookies = "set" THEN Forgotten(loc[r])
                ELSE [NoLocals EXCEPT !.cookies = loc[r].cookies]
<1>1. WebTypeOK /\ loc[r] \in Carried /\ loc[r].cookies \in {"kept", "set", "cleared"}
  BY HandsTyped DEF WInv
<1>2. Moves(r, "respond", l)
  BY <1>1 DEF Respond, Moves, WebTypeOK
<1>3. /\ l \in Carried /\ l.token = 0 /\ l.cookies = loc[r].cookies
      /\ IF loc[r].cookies = "set" THEN l.refresh = loc[r].refresh ELSE l.refresh = 0
  <2>1. CASE loc[r].cookies = "set"
    BY <1>1, <2>1, ForgottenHolds
  <2>2. CASE loc[r].cookies # "set"
    <3>1. l = [NoLocals EXCEPT !.cookies = loc[r].cookies]
      BY <2>2
    <3> HIDE DEF l
    <3> QED BY <1>1, <2>2, <3>1, WebAssumption DEF NoLocals, Carried
  <2> QED BY <2>1, <2>2
<1>4. "respond" \in Stages \ {"answer", "idle"} /\ pc[r] \notin {"answer", "idle"}
  BY DEF Stages
<1> HIDE DEF l
<1>5. Carries(pc[r], loc[r]) => Carries("respond", l)
  BY <1>3 DEF Carries
<1> QED BY <1>1, <1>2, <1>3, <1>4, <1>5, QuietMove

-----------------------------------------------------------------------------
(* The middleware and the handlers                                          *)

LEMMA EnsureKeeps == ASSUME WInv, NEW r \in Requests, ensureSession(r) PROVE WInv'
<1>1. UNCHANGED <<jar, tokens, issued, failures, overlapped, intent>> /\ pc[r] = "ensure"
  BY DEF ensureSession
<1>2. CASE (getSession(r) /\ ~accessNeedsRefresh(r)) \/ ~hasRefreshToken(r)
  <2>1. Goto(r, "handle")
    BY <1>2 DEF ensureSession
  <2> QED BY <1>1, <2>1, GotoKeeps
<1>3. CASE ~((getSession(r) /\ ~accessNeedsRefresh(r)) \/ ~hasRefreshToken(r))
  <2>1. refreshSessionCookies(r, "ensure") /\ hasRefreshToken(r)
    BY <1>3 DEF ensureSession
  <2> QED BY <1>1, <2>1, RefreshKeeps
<1> QED BY <1>2, <1>3

\* A refresh that fails under the middleware leaves the request without cookies, which
\* alone it does not meet.
LEMMA EnsureResumesKeeps == ASSUME WInv, NEW r \in Requests, EnsureResumes(r) PROVE WInv'
<1> DEFINE m == IF loc[r].outcome = "ok" THEN loc[r] ELSE clearAuthCookies(loc[r])
           l == Forgotten(m)
<1>1. WebTypeOK /\ loc[r] \in Carried
  BY HandsTyped DEF WInv
<1>2. /\ Moves(r, "handle", l) /\ pc[r] = "resumed"
      /\ UNCHANGED <<jar, tokens, issued, failures, overlapped, intent>>
  BY <1>1 DEF EnsureResumes, Moves, WebTypeOK
<1>3. /\ m \in Carried /\ m.refresh \in {0, loc[r].refresh}
      /\ m.cookies = "set" => loc[r].cookies = "set" /\ m.refresh = loc[r].refresh
  <2>1. CASE loc[r].outcome = "ok"
    BY <1>1, <2>1
  <2>2. CASE loc[r].outcome # "ok"
    BY <1>1, <2>2, ClearedHolds
  <2> QED BY <2>1, <2>2
<1>4. loc[r].outcome = "ok" => m = loc[r]
  OBVIOUS
<1> HIDE DEF m
<1>5. l \in Carried /\ l.refresh = m.refresh /\ l.cookies = m.cookies /\ l.token = 0
  BY <1>3, ForgottenHolds
<1>6. "handle" \in Stages \ {"answer", "idle"} /\ failures' \in Nat
  BY <1>1, <1>2 DEF Stages, WebTypeOK
<1> HIDE DEF l
<1>7. Carries(pc[r], loc[r]) => Carries("handle", l)
  BY <1>2, <1>4, <1>5 DEF Carries
<1> QED BY <1>1, <1>2, <1>3, <1>5, <1>6, <1>7, QuietMove

LEMMA PageKeeps == ASSUME WInv, NEW r \in Requests, Page(r) PROVE WInv'
<1>1. failures' \in Nat /\ failures' = failures
  BY DEF Page, WInv, WebTypeOK
<1> QED BY <1>1, RespondKeeps DEF Page

LEMMA RenewKeeps == ASSUME WInv, NEW r \in Requests, Renew(r) PROVE WInv'
<1>1. failures' \in Nat /\ UNCHANGED <<jar, tokens, issued, failures, overlapped, intent>>
  BY DEF Renew, WInv, WebTypeOK
<1>2. CASE hasRefreshToken(r)
  <2>1. refreshSessionCookies(r, "renew") /\ pc[r] = "handle"
    BY <1>2 DEF Renew
  <2> QED BY <1>1, <1>2, <2>1, RefreshKeeps
<1>3. CASE ~hasRefreshToken(r)
  <2>1. Respond(r) /\ pc[r] = "handle"
    BY <1>3 DEF Renew
  <2> QED BY <1>1, <2>1, RespondKeeps
<1> QED BY <1>2, <1>3

LEMMA RenewResumesKeeps == ASSUME WInv, NEW r \in Requests, RenewResumes(r) PROVE WInv'
<1>1. failures' \in Nat /\ failures' = failures
  BY DEF RenewResumes, WInv, WebTypeOK
<1> QED BY <1>1, RespondKeeps DEF RenewResumes

LEMMA ResolveKeeps == ASSUME WInv, NEW r \in Requests, resolveAccessToken(r) PROVE WInv'
<1>1. /\ failures' \in Nat /\ UNCHANGED <<jar, tokens, issued, failures, overlapped, intent>>
      /\ pc[r] = "handle"
  BY DEF resolveAccessToken, WInv, WebTypeOK
<1>2. CASE getSession(r)
  <2>1. Goto(r, "execute")
    BY <1>2 DEF resolveAccessToken
  <2> QED BY <1>1, <2>1, GotoKeeps
<1>3. CASE ~getSession(r) /\ hasRefreshToken(r)
  <2>1. refreshSessionCookies(r, "resolve")
    BY <1>3 DEF resolveAccessToken
  <2> QED BY <1>1, <1>3, <2>1, RefreshKeeps
<1>4. CASE ~getSession(r) /\ ~hasRefreshToken(r)
  <2>1. Respond(r)
    BY <1>4 DEF resolveAccessToken
  <2> QED BY <1>1, <2>1, RespondKeeps
<1> QED BY <1>2, <1>3, <1>4

LEMMA ResolveResumesKeeps == ASSUME WInv, NEW r \in Requests, ResolveResumes(r) PROVE WInv'
<1>1. /\ failures' \in Nat /\ UNCHANGED <<jar, tokens, issued, failures, overlapped, intent>>
      /\ pc[r] = "resumed" /\ (Resume(r, "execute") \/ Respond(r))
  BY DEF ResolveResumes, WInv, WebTypeOK
<1>2. CASE Resume(r, "execute")
  BY <1>1, <1>2, ResumeKeeps
<1>3. CASE Respond(r)
  BY <1>1, <1>3, RespondKeeps
<1> QED BY <1>1, <1>2, <1>3

LEMMA ExecuteKeeps == ASSUME WInv, NEW r \in Requests, proxyWithSessionRefresh(r) PROVE WInv'
<1>1. /\ failures' \in Nat /\ UNCHANGED <<jar, tokens, issued, failures, overlapped, intent>>
      /\ pc[r] \in {"execute", "again"}
  BY DEF proxyWithSessionRefresh, WInv, WebTypeOK
<1>2. CASE ~Accepts(loc[r].access) /\ pc[r] = "execute" /\ hasRefreshToken(r)
  <2>1. refreshSessionCookies(r, "retry")
    BY <1>2 DEF proxyWithSessionRefresh
  <2> QED BY <1>1, <1>2, <2>1, RefreshKeeps
<1>3. CASE ~(~Accepts(loc[r].access) /\ pc[r] = "execute" /\ hasRefreshToken(r))
  <2>1. Respond(r)
    BY <1>3 DEF proxyWithSessionRefresh
  <2> QED BY <1>1, <2>1, RespondKeeps
<1> QED BY <1>2, <1>3

LEMMA RetryResumesKeeps == ASSUME WInv, NEW r \in Requests, RetryResumes(r) PROVE WInv'
<1>1. /\ failures' \in Nat /\ UNCHANGED <<jar, tokens, issued, failures, overlapped, intent>>
      /\ pc[r] = "resumed" /\ (Resume(r, "again") \/ Respond(r))
  BY DEF RetryResumes, WInv, WebTypeOK
<1>2. CASE Resume(r, "again")
  BY <1>1, <1>2, ResumeKeeps
<1>3. CASE Respond(r)
  BY <1>1, <1>3, RespondKeeps
<1> QED BY <1>1, <1>2, <1>3

\* Something was lost: nothing is said any more of requests one at a time.
LEMMA LostKeeps ==
  ASSUME WInv, NEW r \in Requests, Finish(r), failures' = failures + 1,
         UNCHANGED <<jar, tokens, issued, overlapped, intent>>
  PROVE  WInv'
<1>1. /\ WebTypeOK /\ Flying /\ Numbered /\ Exclusive /\ Unused /\ failures \in Nat
      /\ jar' = jar /\ tokens' = tokens /\ issued' = issued
  BY DEF WInv, WebTypeOK
<1>2. Moves(r, "idle", NoLocals) /\ "idle" \in Stages
  BY DEF Finish, Moves, Stages
<1>3. /\ pc' \in [Requests -> Stages] /\ loc' \in [Requests -> Carried]
      /\ pc'[r] = "idle" /\ loc'[r] = NoLocals
      /\ \A q \in Requests \ {r} : pc'[q] = pc[q] /\ loc'[q] = loc[q]
  BY <1>1, <1>2, NothingHeld, MovesEffect
<1>4. WebTypeOK'
  BY <1>1, <1>3 DEF WebTypeOK, Carried
<1>5. Flying'
  <2>1. Flies("idle", NoLocals)
    BY NothingHeld DEF Flies
  <2> QED BY <1>1, <1>3, <2>1 DEF Flying
<1>6. Numbered' /\ Exclusive'
  <2>1. \A q \in Requests \ {r} : Own(q)' \subseteq Own(q) /\ Uses(q)' \subseteq Uses(q)
    BY <1>3 DEF Own, Uses
  <2>2. Own(r)' \subseteq Own(r) \cup {} /\ Uses(r)' \subseteq Uses(r) \cup {}
    BY <1>3, NothingHeld DEF Own, Uses, OwnOf, UsesOf
  <2> QED BY <1>1, <2>1, <2>2, HandsStep
<1>7. Unused'
  <2>1. Unspent("idle", NoLocals) /\ \A q \in Requests \ {r} : Unspent(pc[q], loc[q])
    BY <1>1, NothingHeld DEF Unused, Unspent
  <2> QED BY <1>1, <1>3, <2>1 DEF Unused, Unspent
<1>8. Keeps'
  BY <1>1 DEF Keeps
<1> QED BY <1>4, <1>5, <1>6, <1>7, <1>8 DEF WInv

LEMMA ExecuteFailsKeeps == ASSUME WInv, NEW r \in Requests, ExecuteFails(r) PROVE WInv'
<1>1. /\ failures \in Nat /\ failures' = failures + 1 /\ pc[r] \in {"execute", "again"}
      /\ UNCHANGED <<jar, tokens, issued, overlapped, intent>> /\ (Respond(r) \/ Finish(r))
  BY DEF ExecuteFails, WInv, WebTypeOK
<1>2. CASE Respond(r)
  BY <1>1, <1>2, RespondKeeps
<1>3. CASE Finish(r)
  BY <1>1, <1>3, LostKeeps
<1> QED BY <1>1, <1>2, <1>3

LEMMA ResponseLostKeeps == ASSUME WInv, NEW r \in Requests, ResponseLost(r) PROVE WInv'
BY LostKeeps DEF ResponseLost

-----------------------------------------------------------------------------
(* Steps that change the tokens, or the cookies of the browser              *)

LEMMA SendKeeps == ASSUME WInv, NEW r \in Requests, Send(r) PROVE WInv'
<1> DEFINE access == IF jar.access # 0 /\ tokens[jar.access].age = "expired" THEN 0 ELSE jar.access
           l == [NoLocals EXCEPT !.access = access, !.refresh = jar.refresh]
<1>1. /\ WebTypeOK /\ Flying /\ Numbered /\ Exclusive /\ Unused /\ Keeps
      /\ jar' = jar /\ tokens' = tokens /\ issued' = issued /\ failures' = failures
      /\ intent' = intent /\ pc[r] = "idle"
      /\ overlapped' = (overlapped \/ \E q \in Requests : pc[q] # "idle")
  BY DEF WInv, Send
<1>2. jar.access \in 0..MaxTokens /\ jar.refresh \in 0..MaxTokens /\ access \in 0..MaxTokens
  BY <1>1, WebAssumption DEF WebTypeOK
<1>3. Moves(r, "ensure", l) /\ "ensure" \in Stages
  BY DEF Send, Moves, Stages
<1> HIDE DEF access
<1>4. /\ l \in Carried /\ l.refresh = jar.refresh /\ l.token = 0 /\ l.got = 0
      /\ l.cookies = "kept"
  BY <1>2, NothingHeld DEF NoLocals, Carried
<1> HIDE DEF l
<1>5. /\ pc' \in [Requests -> Stages] /\ loc' \in [Requests -> Carried]
      /\ pc'[r] = "ensure" /\ loc'[r] = l
      /\ \A q \in Requests \ {r} : pc'[q] = pc[q] /\ loc'[q] = loc[q]
  BY <1>1, <1>3, <1>4, MovesEffect
<1>6. WebTypeOK'
  BY <1>1, <1>5 DEF WebTypeOK, Carried
<1>7. Flying'
  BY <1>1, <1>4, <1>5 DEF Flying, Flies
<1>8. Own(r)' = {} /\ Uses(r)' \subseteq {jar.refresh}
  BY <1>4, <1>5 DEF Own, OwnOf, Uses, UsesOf
<1>9. \A q \in Requests \ {r} : Own(q)' = Own(q) /\ Uses(q)' = Uses(q)
  BY <1>5 DEF Own, Uses
<1>10. Numbered'
  BY <1>1, <1>8, <1>9 DEF Numbered
<1>11. Exclusive'
  BY <1>1, <1>8, <1>9 DEF Exclusive
<1>12. Unused'
  BY <1>1, <1>4, <1>5 DEF Unused, Unspent
<1>13. Keeps'
  <2> SUFFICES ASSUME ~overlapped', failures' = 0
               PROVE  /\ Alone' /\ Carries(pc[r], loc[r])' /\ OneAtATimeKeepsTheSession'
                      /\ \A q \in Requests \ {r} : pc'[q] = "idle"
    BY DEF Keeps
  <2>1. \A q \in Requests : pc[q] = "idle"
    BY <1>1
  <2>2. OneAtATimeKeepsTheSession
    BY <1>1 DEF Keeps
  <2>3. Carries("ensure", l)
    BY <1>1, <1>4, <2>1, <2>2 DEF Carries, LivePair, OneAtATimeKeepsTheSession
  <2>4. Carries(pc[r], loc[r])'
    BY <1>1, <1>5, <2>3 DEF Carries, LivePair
  <2>5. \A q \in Requests \ {r} : pc'[q] = "idle"
    BY <1>5, <2>1
  <2>6. ~OneAtATimeKeepsTheSession' => FALSE
    BY <1>5 DEF OneAtATimeKeepsTheSession
  <2> QED BY <2>4, <2>5, <2>6 DEF Alone
<1> QED BY <1>6, <1>7, <1>10, <1>11, <1>12, <1>13 DEF WInv

\* A request that is answered: what it owned, if anything, is the browser's.
LEMMA DeliverKeeps == ASSUME WInv, NEW r \in Requests, Deliver(r) PROVE WInv'
<1>1. /\ WebTypeOK /\ Flying /\ Numbered /\ Exclusive /\ Unused /\ Keeps
      /\ tokens' = tokens /\ issued' = issued /\ failures' = failures
      /\ overlapped' = overlapped /\ intent' = intent /\ pc[r] = "respond"
      /\ jar' = CASE loc[r].cookies = "kept"    -> jar
              [] loc[r].cookies = "set"     -> [access |-> loc[r].access, refresh |-> loc[r].refresh]
              [] loc[r].cookies = "cleared" -> [access |-> 0, refresh |-> 0]
  BY DEF WInv, Deliver
<1>2. /\ loc[r].refresh \in 0..MaxTokens /\ loc[r].access \in 0..MaxTokens
      /\ loc[r].cookies \in {"kept", "set", "cleared"}
      /\ loc[r].cookies = "set" => loc[r].refresh # 0 /\ loc[r].refresh \in Uses(r)
  BY <1>1, HandsTyped DEF Flying, Flies, Uses, UsesOf
<1>3. /\ loc[r].cookies = "kept" => jar' = jar
      /\ loc[r].cookies = "set" => jar'.refresh = loc[r].refresh
      /\ loc[r].cookies = "cleared" => jar'.refresh = 0
      /\ jar' \in [access : 0..MaxTokens, refresh : 0..MaxTokens]
  <2>1. 0 \in 0..MaxTokens /\ jar \in [access : 0..MaxTokens, refresh : 0..MaxTokens]
    BY <1>1, WebAssumption DEF WebTypeOK
  <2> QED BY <1>1, <1>2, <2>1
<1>4. Moves(r, "idle", NoLocals) /\ "idle" \in Stages
  BY DEF Deliver, Finish, Moves, Stages
<1>5. /\ pc' \in [Requests -> Stages] /\ loc' \in [Requests -> Carried]
      /\ pc'[r] = "idle" /\ loc'[r] = NoLocals
      /\ \A q \in Requests \ {r} : pc'[q] = pc[q] /\ loc'[q] = loc[q]
  BY <1>1, <1>4, NothingHeld, MovesEffect
<1>6. WebTypeOK'
  BY <1>1, <1>3, <1>5 DEF WebTypeOK, Carried
<1>7. Flying'
  BY <1>1, <1>5, NothingHeld DEF Flying, Flies
<1>8. Own(r)' = {} /\ Uses(r)' = {}
  BY <1>5, NothingHeld DEF Own, OwnOf, Uses, UsesOf
<1>9. \A q \in Requests \ {r} : Own(q)' = Own(q) /\ Uses(q)' = Uses(q)
  BY <1>5 DEF Own, Uses
<1>10. Numbered'
  <2>1. jar'.refresh <= issued
    <3>1. 0 <= issued
      BY <1>1, WebAssumption DEF WebTypeOK, Pairs
    <3> QED BY <1>1, <1>2, <1>3, <3>1 DEF Numbered
  <2> QED BY <1>1, <1>8, <1>9, <2>1 DEF Numbered
<1>11. Exclusive'
  <2> SUFFICES ASSUME NEW q \in Requests, NEW g \in Own(q)'
               PROVE  jar'.refresh # g /\ \A o \in Requests \ {q} : g \notin Uses(o)'
    BY DEF Exclusive
  <2>1. q # r /\ g \in Own(q)
    BY <1>8, <1>9
  <2>2. g # 0
    BY <1>1, <2>1 DEF Own, OwnOf, Flying, Flies
  <2>3. jar.refresh # g /\ \A o \in Requests \ {q} : g \notin Uses(o)
    BY <1>1, <2>1 DEF Exclusive
  <2>4. \A o \in Requests \ {q} : g \notin Uses(o)'
    BY <1>8, <1>9, <2>3
  <2> QED BY <1>2, <1>3, <2>1, <2>2, <2>3, <2>4
<1>12. Unused'
  BY <1>1, <1>5, NothingHeld DEF Unused, Unspent
<1>13. Keeps'
  <2> SUFFICES ASSUME ~overlapped, failures = 0
               PROVE  OneAtATimeKeepsTheSession' /\ \A q \in Requests : pc'[q] = "idle"
    BY <1>1 DEF Keeps, Alone
  <2>1. Alone /\ Carries("respond", loc[r])
    BY <1>1 DEF Keeps
  <2>2. \A q \in Requests : pc'[q] = "idle"
    BY <1>1, <1>5, <2>1 DEF Alone
  <2>3. intent = "in" => jar'.refresh # 0 /\ tokens[jar'.refresh].state = "live"
    BY <1>2, <1>3, <2>1 DEF Carries, LivePair
  <2>4. intent = "out" => jar'.refresh = 0
    BY <1>2, <1>3, <2>1 DEF Carries
  <2> QED BY <1>1, <2>2, <2>3, <2>4 DEF OneAtATimeKeepsTheSession
<1> QED BY <1>6, <1>7, <1>10, <1>11, <1>12, <1>13 DEF WInv

\* Time, and what happens elsewhere: no token is exchanged.
LEMMA ElsewhereKeeps ==
  ASSUME WInv, UNCHANGED <<jar, issued, web, failures, overlapped>>,
         tokens' \in [Pairs -> PairRows],
         \A g \in Pairs : tokens'[g].state = "rotated" => tokens[g].state = "rotated",
         \/ intent' = "over"
         \/ intent' = intent /\ \A g \in Pairs : tokens'[g].state = tokens[g].state
  PROVE  WInv'
<1>1. /\ WebTypeOK /\ Flying /\ Numbered /\ Exclusive /\ Unused /\ Keeps
      /\ jar' = jar /\ issued' = issued /\ failures' = failures /\ overlapped' = overlapped
      /\ pc' = pc /\ loc' = loc
  BY DEF WInv, web
<1>2. WebTypeOK'
  BY <1>1 DEF WebTypeOK, PairRows
<1>3. Flying' /\ Numbered' /\ Exclusive'
  BY <1>1 DEF Flying, Numbered, Exclusive, Own, Uses
<1>4. \A r \in Requests : /\ loc[r].cookies = "set" => loc[r].refresh \in Pairs
                          /\ loc[r].got # 0 => loc[r].got \in Pairs
  <2> SUFFICES ASSUME NEW r \in Requests
               PROVE  /\ loc[r].cookies = "set" => loc[r].refresh \in Pairs
                      /\ loc[r].got # 0 => loc[r].got \in Pairs
    OBVIOUS
  <2>1. loc[r].refresh \in 0..MaxTokens /\ loc[r].got \in 0..MaxTokens
    BY <1>1, HandsTyped
  <2> QED BY <1>1, <2>1, WebAssumption DEF Flying, Flies, Pairs
<1>5. Unused'
  BY <1>1, <1>4 DEF Unused, Unspent
<1>6. Keeps'
  <2>1. CASE intent' = "over"
    BY <1>1, <2>1 DEF Keeps, Alone, Carries, OneAtATimeKeepsTheSession
  <2>2. CASE intent' = intent /\ \A g \in Pairs : tokens'[g].state = tokens[g].state
    <3>1. jar.refresh # 0 => jar.refresh \in Pairs
      BY <1>1, WebAssumption DEF WebTypeOK, Pairs
    <3>2. \A r \in Requests : Carries(pc[r], loc[r]) => Carries(pc[r], loc[r])'
      BY <1>1, <1>4, <2>2, <3>1 DEF Carries, LivePair
    <3>3. OneAtATimeKeepsTheSession => OneAtATimeKeepsTheSession'
      BY <1>1, <2>2, <3>1 DEF OneAtATimeKeepsTheSession
    <3> QED BY <1>1, <3>2, <3>3 DEF Keeps, Alone
  <2> QED BY <2>1, <2>2
<1> QED BY <1>2, <1>3, <1>5, <1>6 DEF WInv

LEMMA AccessAgesKeeps == ASSUME WInv, NEW g \in Pairs, AccessAges(g) PROVE WInv'
<1>1. PICK a \in {"expiring", "expired"} : tokens' = [tokens EXCEPT ![g].age = a]
  BY DEF AccessAges
<1>2. tokens \in [Pairs -> PairRows]
  BY DEF WInv, WebTypeOK, PairRows
<1>3. \A p \in PairRows : [p EXCEPT !.age = a] \in PairRows /\ [p EXCEPT !.age = a].state = p.state
  BY DEF PairRows
<1>4. tokens' \in [Pairs -> PairRows] /\ \A p \in Pairs : tokens'[p].state = tokens[p].state
  BY <1>1, <1>2, <1>3
<1> QED BY <1>4, ElsewhereKeeps DEF AccessAges

LEMMA AccessRefusedKeeps == ASSUME WInv, NEW g \in Pairs, AccessRefused(g) PROVE WInv'
<1>1. tokens \in [Pairs -> PairRows]
  BY DEF WInv, WebTypeOK, PairRows
<1>2. \A p \in PairRows : /\ [p EXCEPT !.accepted = FALSE] \in PairRows
                          /\ [p EXCEPT !.accepted = FALSE].state = p.state
  BY DEF PairRows
<1>3. tokens' = [tokens EXCEPT ![g].accepted = FALSE]
  BY DEF AccessRefused
<1>4. tokens' \in [Pairs -> PairRows] /\ \A p \in Pairs : tokens'[p].state = tokens[p].state
  BY <1>1, <1>2, <1>3
<1> QED BY <1>4, ElsewhereKeeps DEF AccessRefused

LEMMA SessionsClosedKeeps == ASSUME WInv, SessionsClosed PROVE WInv'
<1>1. tokens \in [Pairs -> PairRows]
  BY DEF WInv, WebTypeOK, PairRows
<1>2. \A p \in PairRows : /\ [p EXCEPT !.state = "revoked"] \in PairRows
                          /\ [p EXCEPT !.state = "revoked"].state = "revoked"
  BY DEF PairRows
<1>3. tokens' = [g \in Pairs |-> IF tokens[g].state = "live"
                                  THEN [tokens[g] EXCEPT !.state = "revoked"] ELSE tokens[g]]
  BY DEF SessionsClosed
<1>4. /\ tokens' \in [Pairs -> PairRows]
      /\ \A p \in Pairs : tokens'[p].state = "rotated" => tokens[p].state = "rotated"
  BY <1>1, <1>2, <1>3
<1> QED BY <1>4, ElsewhereKeeps DEF SessionsClosed

-----------------------------------------------------------------------------
(* The refresh itself                                                       *)

\* A pair of tokens that the backend makes, and what it does to an old one.
LEMMA PairIssued ==
  ASSUME WebTypeOK, NEW origin \in Nat, issued + 1 \in Pairs, NEW old \in Pairs, old <= issued
  PROVE  LET after == [tokens EXCEPT ![old].state = "rotated",
                         ![issued + 1] = [NoPair EXCEPT !.state = "live", !.origin = origin]]
             made == [tokens EXCEPT
                         ![issued + 1] = [NoPair EXCEPT !.state = "live", !.origin = origin]]
         IN /\ after \in [Pairs -> PairRows] /\ made \in [Pairs -> PairRows]
            /\ after[issued + 1].state = "live" /\ made[issued + 1].state = "live"
            /\ after[old].state = "rotated"
            /\ \A g \in Pairs \ {issued + 1} : made[g] = tokens[g]
            /\ \A g \in Pairs \ {issued + 1, old} : after[g] = tokens[g]
<1>1. tokens \in [Pairs -> PairRows] /\ issued \in Nat
  BY WebAssumption DEF WebTypeOK, PairRows, Pairs
<1>2. issued + 1 # old
  BY <1>1, WebAssumption DEF Pairs
<1> DEFINE fresh == [NoPair EXCEPT !.state = "live", !.origin = origin]
           spent == [tokens[old] EXCEPT !.state = "rotated"]
<1>3. fresh \in PairRows /\ fresh.state = "live" /\ spent \in PairRows /\ spent.state = "rotated"
  <2>1. tokens[old] \in PairRows
    BY <1>1
  <2> QED BY <2>1 DEF NoPair, PairRows
<1> HIDE DEF fresh, spent
<1>4. /\ [tokens EXCEPT ![old] = spent, ![issued + 1] = fresh] \in [Pairs -> PairRows]
      /\ [tokens EXCEPT ![old] = spent, ![issued + 1] = fresh][issued + 1] = fresh
      /\ [tokens EXCEPT ![old] = spent, ![issued + 1] = fresh][old] = spent
      /\ \A g \in Pairs \ {issued + 1, old} :
           [tokens EXCEPT ![old] = spent, ![issued + 1] = fresh][g] = tokens[g]
  BY <1>1, <1>2, <1>3
<1>5. /\ [tokens EXCEPT ![issued + 1] = fresh] \in [Pairs -> PairRows]
      /\ [tokens EXCEPT ![issued + 1] = fresh][issued + 1] = fresh
      /\ \A g \in Pairs \ {issued + 1} : [tokens EXCEPT ![issued + 1] = fresh][g] = tokens[g]
  BY <1>1, <1>3
<1> QED BY <1>3, <1>4, <1>5 DEF fresh, spent

\* What a request owns is a pair of tokens.
LEMMA OwnedPairs ==
  ASSUME WebTypeOK, Flying, NEW r \in Requests
  PROVE  /\ loc[r].cookies = "set" => loc[r].refresh \in Pairs /\ loc[r].refresh \in Own(r)
         /\ pc[r] = "answer" /\ loc[r].got # 0 => loc[r].got \in Pairs /\ loc[r].got \in Own(r)
         /\ pc[r] \in {"refresh", "answer"} => loc[r].token \in Pairs /\ loc[r].token \in Uses(r)
<1>1. /\ loc[r].refresh \in 0..MaxTokens /\ loc[r].got \in 0..MaxTokens
      /\ loc[r].token \in 0..MaxTokens
  BY HandsTyped
<1>2. \A g \in 0..MaxTokens : g # 0 => g \in Pairs
  BY WebAssumption DEF Pairs
<1> QED BY <1>1, <1>2 DEF Flying, Flies, Own, OwnOf, Uses, UsesOf

\* The backend gives a new pair, which the request owns at once.
LEMMA ExchangeKeeps ==
  ASSUME WInv, NEW r \in Requests, BackendRefresh(r), tokens[loc[r].token].state = "live"
  PROVE  WInv'
<1> DEFINE old == loc[r].token
           l == [loc[r] EXCEPT !.got = issued + 1]
<1>1. /\ WebTypeOK /\ Flying /\ Numbered /\ Exclusive /\ Unused /\ Keeps
      /\ jar' = jar /\ issued' = issued + 1 /\ failures' = failures /\ issued + 1 \in Pairs
      /\ overlapped' = overlapped /\ intent' = intent /\ pc[r] = "refresh"
      /\ loc[r] \in Carried
  BY HandsTyped DEF WInv, BackendRefresh
<1>2. old \in Pairs /\ old \in Uses(r) /\ old <= issued /\ old = loc[r].refresh
  BY <1>1, OwnedPairs DEF Numbered, Flying, Flies
<1>3. tokens[old].origin \in Nat /\ issued + 1 \in 0..MaxTokens /\ issued + 1 # 0
  BY <1>1, <1>2, WebAssumption DEF WebTypeOK, Pairs
<1>4. tokens' = [tokens EXCEPT ![old].state = "rotated",
                   ![issued + 1] = [NoPair EXCEPT !.state = "live", !.origin = tokens[old].origin]]
  BY DEF BackendRefresh
<1>5. Moves(r, "answer", l) /\ "answer" \in Stages
  BY <1>1 DEF BackendRefresh, Moves, Stages, WebTypeOK
<1>6. /\ l \in Carried /\ l.got = issued + 1 /\ l.token = loc[r].token
      /\ l.refresh = loc[r].refresh /\ l.cookies = loc[r].cookies
  BY <1>1, <1>3 DEF Carried
<1>7. /\ tokens' \in [Pairs -> PairRows] /\ tokens'[issued + 1].state = "live"
      /\ \A g \in Pairs : g # old => g = issued + 1 \/ tokens'[g] = tokens[g]
  BY <1>1, <1>2, <1>3, <1>4, PairIssued
<1> HIDE DEF l, old
<1>8. /\ pc' \in [Requests -> Stages] /\ loc' \in [Requests -> Carried]
      /\ pc'[r] = "answer" /\ loc'[r] = l
      /\ \A q \in Requests \ {r} : pc'[q] = pc[q] /\ loc'[q] = loc[q]
  BY <1>1, <1>5, <1>6, MovesEffect
<1>9. WebTypeOK'
  BY <1>1, <1>7, <1>8 DEF WebTypeOK, Carried, PairRows
<1>10. Flying'
  BY <1>1, <1>6, <1>8 DEF Flying, Flies
<1>11. Numbered' /\ Exclusive'
  <2>1. \A q \in Requests \ {r} : Own(q)' \subseteq Own(q) /\ Uses(q)' \subseteq Uses(q)
    BY <1>8 DEF Own, Uses
  <2>2. Own(r)' \subseteq Own(r) \cup {issued + 1} /\ Uses(r)' \subseteq Uses(r) \cup {issued + 1}
    BY <1>6, <1>8 DEF Own, Uses, OwnOf, UsesOf
  <2> QED BY <1>1, <2>1, <2>2, HandsStep
<1>12. Unused'
  <2>1. Unspent(pc[r], loc[r])'
    BY <1>3, <1>6, <1>7, <1>8 DEF Unspent
  <2>2. ASSUME NEW q \in Requests \ {r} PROVE Unspent(pc[q], loc[q])'
    <3>1. \A g \in Own(q) : g # old
      BY <1>1, <1>2 DEF Exclusive
    <3>2. Unspent(pc[q], loc[q])
      BY <1>1 DEF Unused
    <3>3. /\ loc[q].cookies = "set" => loc[q].refresh \in Pairs /\ loc[q].refresh # old
          /\ pc[q] = "answer" /\ loc[q].got # 0 => loc[q].got \in Pairs /\ loc[q].got # old
      BY <1>1, <3>1, OwnedPairs
    <3> QED BY <1>7, <1>8, <3>2, <3>3 DEF Unspent
  <2> QED BY <2>1, <2>2 DEF Unused
<1>13. Keeps'
  <2> SUFFICES ASSUME ~overlapped, failures = 0
               PROVE  /\ Alone' /\ Carries(pc[r], loc[r])' /\ OneAtATimeKeepsTheSession'
                      /\ \A q \in Requests \ {r} : pc'[q] = "idle"
    BY <1>1 DEF Keeps
  <2>1. Alone /\ Carries("refresh", loc[r])
    BY <1>1 DEF Keeps
  <2>2. \A q \in Requests \ {r} : pc'[q] = "idle"
    BY <1>1, <1>8, <2>1 DEF Alone
  <2>3. Carries(pc[r], loc[r])'
    BY <1>1, <1>3, <1>6, <1>7, <1>8, <2>1 DEF Carries, LivePair
  <2>4. ~OneAtATimeKeepsTheSession' => FALSE
    BY <1>8 DEF OneAtATimeKeepsTheSession
  <2> QED BY <2>2, <2>3, <2>4 DEF Alone
<1> QED BY <1>9, <1>10, <1>11, <1>12, <1>13 DEF WInv

\* A refresh token that is not live is refused, which no request alone meets.
LEMMA RefusalKeeps ==
  ASSUME WInv, NEW r \in Requests, BackendRefresh(r), tokens[loc[r].token].state # "live"
  PROVE  WInv'
<1> DEFINE l == [loc[r] EXCEPT !.got = 0]
<1>1. /\ WebTypeOK /\ Flying /\ Numbered /\ Exclusive /\ Unused /\ Keeps
      /\ jar' = jar /\ issued' = issued /\ tokens' = tokens /\ failures' = failures
      /\ overlapped' = overlapped /\ intent' = intent /\ pc[r] = "refresh"
      /\ loc[r] \in Carried
  BY HandsTyped DEF WInv, BackendRefresh
<1>2. Moves(r, "answer", l) /\ "answer" \in Stages
  BY <1>1 DEF BackendRefresh, Moves, Stages, WebTypeOK
<1>3. /\ l \in Carried /\ l.got = 0 /\ l.token = loc[r].token
      /\ l.refresh = loc[r].refresh /\ l.cookies = loc[r].cookies
  <2>1. 0 \in 0..MaxTokens
    BY WebAssumption
  <2> QED BY <1>1, <2>1 DEF Carried
<1> HIDE DEF l
<1>4. /\ pc' \in [Requests -> Stages] /\ loc' \in [Requests -> Carried]
      /\ pc'[r] = "answer" /\ loc'[r] = l
      /\ \A q \in Requests \ {r} : pc'[q] = pc[q] /\ loc'[q] = loc[q]
  BY <1>1, <1>2, <1>3, MovesEffect
<1>5. WebTypeOK'
  BY <1>1, <1>4 DEF WebTypeOK, Carried
<1>6. Flying'
  BY <1>1, <1>3, <1>4 DEF Flying, Flies
<1>7. Numbered' /\ Exclusive'
  <2>1. \A q \in Requests \ {r} : Own(q)' \subseteq Own(q) /\ Uses(q)' \subseteq Uses(q)
    BY <1>4 DEF Own, Uses
  <2>2. Own(r)' \subseteq Own(r) \cup {} /\ Uses(r)' \subseteq Uses(r) \cup {}
    BY <1>3, <1>4 DEF Own, Uses, OwnOf, UsesOf
  <2> QED BY <1>1, <2>1, <2>2, HandsStep
<1>8. Unused'
  BY <1>1, <1>3, <1>4 DEF Unused, Unspent
<1>9. Keeps'
  <2> SUFFICES ASSUME ~overlapped, failures = 0
               PROVE  /\ Alone' /\ Carries(pc[r], loc[r])' /\ OneAtATimeKeepsTheSession'
                      /\ \A q \in Requests \ {r} : pc'[q] = "idle"
    BY <1>1 DEF Keeps
  <2>1. Alone /\ Carries("refresh", loc[r]) /\ Flies("refresh", loc[r])
    BY <1>1 DEF Keeps, Flying
  <2>2. intent = "over"
    <3>1. loc[r].cookies \in {"kept", "set", "cleared"} /\ intent \in {"in", "out", "over"}
      BY <1>1, HandsTyped DEF WebTypeOK
    <3> QED BY <2>1, <3>1 DEF Carries, Flies, LivePair
  <2>3. \A q \in Requests \ {r} : pc'[q] = "idle"
    BY <1>1, <1>4, <2>1 DEF Alone
  <2>4. Carries(pc[r], loc[r])' /\ OneAtATimeKeepsTheSession'
    BY <1>1, <1>4, <2>2 DEF Carries, OneAtATimeKeepsTheSession
  <2> QED BY <2>3, <2>4 DEF Alone
<1> QED BY <1>5, <1>6, <1>7, <1>8, <1>9 DEF WInv

\* What the end of a refresh does to one of those in the flight.
Landed(q, r, outcome) ==
  [(CASE q = r /\ outcome = "ok" -> setAuthCookies(loc[q], loc[r].got)
      [] q = r /\ outcome = "refused" -> clearAuthCookies(loc[q])
      [] OTHER -> loc[q]) EXCEPT !.outcome = outcome]

\* Who waited keeps its cookies, whatever the outcome; who asked has new ones or none, or
\* its own if nothing is known.
LEMMA LandEffect ==
  ASSUME WebTypeOK, NEW r \in Requests, pc[r] \in {"refresh", "answer"},
         NEW outcome \in {"ok", "refused", "failed"}, Land(r, outcome)
  PROVE  /\ pc' \in [Requests -> Stages] /\ loc' \in [Requests -> Carried]
         /\ pc'[r] = "resumed" /\ loc'[r].token = loc[r].token /\ loc'[r].outcome = outcome
         /\ outcome = "ok" => loc'[r].refresh = loc[r].got /\ loc'[r].cookies = "set"
         /\ outcome = "refused" => loc'[r].refresh = 0 /\ loc'[r].cookies = "cleared"
         /\ outcome = "failed" => /\ loc'[r].refresh = loc[r].refresh
                                  /\ loc'[r].cookies = loc[r].cookies
         /\ \A q \in Requests \ {r} :
              \/ pc'[q] = pc[q] /\ loc'[q] = loc[q]
              \/ /\ pc[q] = "joined" /\ pc'[q] = "resumed" /\ loc'[q].refresh = loc[q].refresh
                 /\ loc'[q].token = loc[q].token /\ loc'[q].cookies = loc[q].cookies
<1>1. \A l \in Carried :
        LET m == [l EXCEPT !.outcome = outcome]
        IN /\ m \in Carried /\ m.outcome = outcome /\ m.refresh = l.refresh
           /\ m.token = l.token /\ m.cookies = l.cookies
  BY DEF Carried
<1>2. loc[r].got \in 0..MaxTokens /\ \A q \in Requests : loc[q] \in Carried
  BY HandsTyped
<1>3. /\ pc' = [q \in Requests |-> IF q \in Flight(r) THEN "resumed" ELSE pc[q]]
      /\ loc' = [q \in Requests |-> IF q \notin Flight(r) THEN loc[q] ELSE Landed(q, r, outcome)]
  BY DEF Land, Landed
<1>4. r \in Flight(r) /\ \A q \in Flight(r) : q # r => pc[q] = "joined"
  BY DEF Flight
<1>5. /\ Landed(r, r, outcome) \in Carried /\ Landed(r, r, outcome).token = loc[r].token
      /\ Landed(r, r, outcome).outcome = outcome
      /\ outcome = "ok" => /\ Landed(r, r, outcome).refresh = loc[r].got
                           /\ Landed(r, r, outcome).cookies = "set"
      /\ outcome = "refused" => /\ Landed(r, r, outcome).refresh = 0
                                /\ Landed(r, r, outcome).cookies = "cleared"
      /\ outcome = "failed" => /\ Landed(r, r, outcome).refresh = loc[r].refresh
                               /\ Landed(r, r, outcome).cookies = loc[r].cookies
  <2>1. CASE outcome = "ok"
    <3>1. Landed(r, r, outcome) = [setAuthCookies(loc[r], loc[r].got) EXCEPT !.outcome = outcome]
      BY <2>1 DEF Landed
    <3>2. /\ setAuthCookies(loc[r], loc[r].got) \in Carried
          /\ setAuthCookies(loc[r], loc[r].got).refresh = loc[r].got
          /\ setAuthCookies(loc[r], loc[r].got).cookies = "set"
          /\ setAuthCookies(loc[r], loc[r].got).token = loc[r].token
      BY <1>2, SetHolds
    <3> QED BY <1>1, <2>1, <3>1, <3>2
  <2>2. CASE outcome = "refused"
    <3>1. Landed(r, r, outcome) = [clearAuthCookies(loc[r]) EXCEPT !.outcome = outcome]
      BY <2>2 DEF Landed
    <3>2. /\ clearAuthCookies(loc[r]) \in Carried
          /\ clearAuthCookies(loc[r]).refresh = 0
          /\ clearAuthCookies(loc[r]).cookies = "cleared"
          /\ clearAuthCookies(loc[r]).token = loc[r].token
      BY <1>2, ClearedHolds
    <3> QED BY <1>1, <2>2, <3>1, <3>2
  <2>3. CASE outcome = "failed"
    <3>1. Landed(r, r, outcome) = [loc[r] EXCEPT !.outcome = outcome]
      BY <2>3 DEF Landed
    <3> QED BY <1>1, <1>2, <2>3, <3>1
  <2> QED BY <2>1, <2>2, <2>3
<1>6. \A q \in Requests \ {r} : Landed(q, r, outcome) = [loc[q] EXCEPT !.outcome = outcome]
  BY DEF Landed
<1>7. pc' \in [Requests -> Stages]
  BY <1>3 DEF WebTypeOK, Stages
<1>8. loc' \in [Requests -> Carried]
  <2>1. \A q \in Requests : Landed(q, r, outcome) \in Carried
    BY <1>1, <1>2, <1>5, <1>6
  <2> QED BY <1>2, <1>3, <2>1
<1>9. ASSUME NEW q \in Requests \ {r}
      PROVE  \/ pc'[q] = pc[q] /\ loc'[q] = loc[q]
             \/ /\ pc[q] = "joined" /\ pc'[q] = "resumed" /\ loc'[q].refresh = loc[q].refresh
                /\ loc'[q].token = loc[q].token /\ loc'[q].cookies = loc[q].cookies
  <2>1. CASE q \in Flight(r)
    <3>1. loc'[q] = [loc[q] EXCEPT !.outcome = outcome] /\ pc'[q] = "resumed" /\ pc[q] = "joined"
      BY <1>3, <1>4, <1>6, <2>1
    <3> QED BY <1>1, <1>2, <3>1
  <2>2. CASE q \notin Flight(r)
    BY <1>3, <2>2
  <2> QED BY <2>1, <2>2
<1>10. pc'[r] = "resumed" /\ loc'[r] = Landed(r, r, outcome)
  BY <1>3, <1>4
<1> QED BY <1>5, <1>7, <1>8, <1>9, <1>10

\* The outcome of a refresh, with the token that is lost if its answer is.
LEMMA LandKeeps ==
  ASSUME WInv, NEW r \in Requests, pc[r] \in {"refresh", "answer"},
         NEW outcome \in {"ok", "refused", "failed"}, Land(r, outcome),
         UNCHANGED <<jar, issued, overlapped, intent>>, tokens' \in [Pairs -> PairRows],
         outcome = "ok" => pc[r] = "answer" /\ loc[r].got # 0,
         outcome = "refused" => pc[r] = "answer" /\ loc[r].got = 0,
         \A g \in Pairs : tokens'[g].state = "rotated" => tokens[g].state = "rotated",
         outcome = "failed" /\ pc[r] = "answer" /\ loc[r].got # 0 =>
           tokens'[loc[r].token].state # "rotated",
         failures' \in Nat, failures' = 0 => failures = 0 /\ outcome # "failed" /\ tokens' = tokens
  PROVE  WInv'
<1>1. /\ WebTypeOK /\ Flying /\ Numbered /\ Exclusive /\ Unused /\ Keeps
      /\ jar' = jar /\ issued' = issued /\ overlapped' = overlapped /\ intent' = intent
  BY DEF WInv
<1>2. /\ pc' \in [Requests -> Stages] /\ loc' \in [Requests -> Carried]
      /\ pc'[r] = "resumed" /\ loc'[r].token = loc[r].token /\ loc'[r].outcome = outcome
      /\ outcome = "ok" => loc'[r].refresh = loc[r].got /\ loc'[r].cookies = "set"
      /\ outcome = "refused" => loc'[r].refresh = 0 /\ loc'[r].cookies = "cleared"
      /\ outcome = "failed" => loc'[r].refresh = loc[r].refresh /\ loc'[r].cookies = loc[r].cookies
  BY <1>1, LandEffect
<1>3. \A q \in Requests \ {r} :
        \/ pc'[q] = pc[q] /\ loc'[q] = loc[q]
        \/ /\ pc[q] = "joined" /\ pc'[q] = "resumed" /\ loc'[q].refresh = loc[q].refresh
           /\ loc'[q].token = loc[q].token /\ loc'[q].cookies = loc[q].cookies
  BY <1>1, LandEffect
<1>4. WebTypeOK'
  BY <1>1, <1>2 DEF WebTypeOK, Carried, PairRows
<1>5. Flying'
  <2>1. Flies(pc[r], loc[r])'
    <3>1. Flies(pc[r], loc[r])
      BY <1>1 DEF Flying
    <3> QED BY <1>2, <3>1 DEF Flies
  <2>2. ASSUME NEW q \in Requests \ {r} PROVE Flies(pc[q], loc[q])'
    <3>1. Flies(pc[q], loc[q])
      BY <1>1 DEF Flying
    <3> QED BY <1>3, <3>1 DEF Flies
  <2> QED BY <2>1, <2>2 DEF Flying
<1>6. Numbered' /\ Exclusive'
  <2>1. ASSUME NEW q \in Requests \ {r} PROVE Own(q)' \subseteq Own(q) /\ Uses(q)' \subseteq Uses(q)
    BY <1>3 DEF Own, Uses, OwnOf, UsesOf
  <2>2. Own(r)' \subseteq Own(r) \cup {} /\ Uses(r)' \subseteq Uses(r) \cup {}
    BY <1>2 DEF Own, Uses, OwnOf, UsesOf
  <2> QED BY <1>1, <2>1, <2>2, HandsStep
<1>7. Unused'
  <2>1. Unspent(pc[r], loc[r])'
    <3>1. /\ Unspent(pc[r], loc[r]) /\ Flies(pc[r], loc[r])
          /\ loc[r].cookies = "set" => loc[r].refresh \in Pairs
          /\ pc[r] = "answer" /\ loc[r].got # 0 => loc[r].got \in Pairs
      BY <1>1, OwnedPairs DEF Unused, Flying
    <3>2. CASE outcome = "ok"
      BY <1>2, <3>1, <3>2 DEF Unspent
    <3>3. CASE outcome = "refused"
      BY <1>2, <3>3 DEF Unspent
    <3>4. CASE outcome = "failed"
      BY <1>2, <3>1, <3>4 DEF Unspent, Flies
    <3> QED BY <3>2, <3>3, <3>4
  <2>2. ASSUME NEW q \in Requests \ {r} PROVE Unspent(pc[q], loc[q])'
    <3>1. /\ Unspent(pc[q], loc[q])
          /\ loc[q].cookies = "set" => loc[q].refresh \in Pairs
          /\ pc[q] = "answer" /\ loc[q].got # 0 => loc[q].got \in Pairs
      BY <1>1, OwnedPairs DEF Unused
    <3> QED BY <1>3, <3>1 DEF Unspent
  <2> QED BY <2>1, <2>2 DEF Unused
<1>8. Keeps'
  <2> SUFFICES ASSUME ~overlapped, failures' = 0
               PROVE  /\ Alone' /\ Carries(pc[r], loc[r])' /\ OneAtATimeKeepsTheSession'
                      /\ \A q \in Requests \ {r} : pc'[q] = "idle"
    BY <1>1 DEF Keeps
  <2>1. Alone /\ Carries(pc[r], loc[r]) /\ tokens' = tokens /\ outcome \in {"ok", "refused"}
    BY <1>1 DEF Keeps
  <2>2. \A q \in Requests \ {r} : pc'[q] = "idle"
    BY <1>3, <2>1 DEF Alone
  <2>3. Carries(pc[r], loc[r])'
    BY <1>1, <1>2, <2>1 DEF Carries, LivePair
  <2>4. ~OneAtATimeKeepsTheSession' => FALSE
    BY <1>2 DEF OneAtATimeKeepsTheSession
  <2> QED BY <2>2, <2>3, <2>4 DEF Alone
<1> QED BY <1>4, <1>5, <1>6, <1>7, <1>8 DEF WInv

LEMMA PerformRefreshKeeps == ASSUME WInv, NEW r \in Requests, performRefresh(r) PROVE WInv'
<1>1. tokens \in [Pairs -> PairRows] /\ failures \in Nat
  BY DEF WInv, WebTypeOK, PairRows
<1>2. CASE loc[r].got # 0
  <2>1. Land(r, "ok")
    BY <1>2 DEF performRefresh
  <2> QED BY <1>1, <1>2, <2>1, LandKeeps DEF performRefresh
<1>3. CASE loc[r].got = 0
  <2>1. Land(r, "refused")
    BY <1>3 DEF performRefresh
  <2> QED BY <1>1, <1>3, <2>1, LandKeeps DEF performRefresh
<1> QED BY <1>2, <1>3

LEMMA RefreshFailsKeeps == ASSUME WInv, NEW r \in Requests, RefreshFails(r) PROVE WInv'
<1>1. /\ tokens \in [Pairs -> PairRows] /\ failures \in Nat /\ failures' = failures + 1
      /\ pc[r] \in {"refresh", "answer"} /\ Land(r, "failed")
      /\ UNCHANGED <<jar, issued, overlapped, intent>> /\ loc[r].token \in Pairs
  BY OwnedPairs DEF WInv, WebTypeOK, PairRows, RefreshFails
<1>2. CASE pc[r] = "answer" /\ loc[r].got # 0
  <2>1. tokens' = [tokens EXCEPT ![loc[r].token].state = "stranded"]
    BY <1>2 DEF RefreshFails
  <2>2. \A p \in PairRows : /\ [p EXCEPT !.state = "stranded"] \in PairRows
                            /\ [p EXCEPT !.state = "stranded"].state = "stranded"
    BY DEF PairRows
  <2>3. /\ tokens' \in [Pairs -> PairRows] /\ tokens'[loc[r].token].state # "rotated"
        /\ \A g \in Pairs : tokens'[g].state = "rotated" => tokens[g].state = "rotated"
    BY <1>1, <2>1, <2>2
  <2> QED BY <1>1, <2>3, LandKeeps
<1>3. CASE ~(pc[r] = "answer" /\ loc[r].got # 0)
  <2>1. tokens' = tokens
    BY <1>3 DEF RefreshFails
  <2> QED BY <1>1, <1>3, <2>1, LandKeeps
<1> QED BY <1>2, <1>3

\* Logout takes the cookies away whatever the backend answers.
LEMMA LogoutKeeps == ASSUME WInv, NEW r \in Requests, logout(r) PROVE WInv'
<1> DEFINE l == clearAuthCookies(loc[r])
<1>1. /\ WebTypeOK /\ Flying /\ Numbered /\ Exclusive /\ Unused /\ Keeps
      /\ jar' = jar /\ issued' = issued /\ overlapped' = overlapped /\ intent' = "out"
      /\ pc[r] = "handle" /\ loc[r] \in Carried
      /\ failures' \in Nat /\ (failures' = 0 => failures = 0)
  BY HandsTyped DEF WInv, logout, WebTypeOK
<1>2. Moves(r, "respond", l) /\ "respond" \in Stages
  BY DEF logout, Moves, Stages
<1>3. /\ l \in Carried /\ l.refresh = 0 /\ l.cookies = "cleared" /\ l.token = loc[r].token
      /\ l.got = loc[r].got
  BY <1>1, ClearedHolds
<1>4. /\ tokens' \in [Pairs -> PairRows]
      /\ \A g \in Pairs : tokens'[g].state = "rotated" => tokens[g].state = "rotated"
  <2>1. tokens \in [Pairs -> PairRows]
    BY <1>1 DEF WebTypeOK, PairRows
  <2>2. CASE tokens' = tokens
    BY <2>1, <2>2
  <2>3. CASE tokens' = [tokens EXCEPT ![loc[r].refresh].state = "revoked"]
    <3>1. \A p \in PairRows : /\ [p EXCEPT !.state = "revoked"] \in PairRows
                              /\ [p EXCEPT !.state = "revoked"].state = "revoked"
      BY DEF PairRows
    <3> QED BY <2>1, <2>3, <3>1
  <2> QED BY <2>2, <2>3 DEF logout
<1> HIDE DEF l
<1>5. /\ pc' \in [Requests -> Stages] /\ loc' \in [Requests -> Carried]
      /\ pc'[r] = "respond" /\ loc'[r] = l
      /\ \A q \in Requests \ {r} : pc'[q] = pc[q] /\ loc'[q] = loc[q]
  BY <1>1, <1>2, <1>3, MovesEffect
<1>6. WebTypeOK'
  BY <1>1, <1>4, <1>5 DEF WebTypeOK, Carried, PairRows
<1>7. Flying'
  BY <1>1, <1>3, <1>5 DEF Flying, Flies
<1>8. Numbered' /\ Exclusive'
  <2>1. \A q \in Requests \ {r} : Own(q)' \subseteq Own(q) /\ Uses(q)' \subseteq Uses(q)
    BY <1>5 DEF Own, Uses
  <2>2. Own(r)' \subseteq Own(r) \cup {} /\ Uses(r)' \subseteq Uses(r) \cup {}
    BY <1>3, <1>5 DEF Own, Uses, OwnOf, UsesOf
  <2> QED BY <1>1, <2>1, <2>2, HandsStep
<1>9. Unused'
  <2>1. Unspent(pc[r], loc[r])'
    BY <1>3, <1>5 DEF Unspent
  <2>2. ASSUME NEW q \in Requests \ {r} PROVE Unspent(pc[q], loc[q])'
    <3>1. /\ Unspent(pc[q], loc[q])
          /\ loc[q].cookies = "set" => loc[q].refresh \in Pairs
          /\ pc[q] = "answer" /\ loc[q].got # 0 => loc[q].got \in Pairs
      BY <1>1, OwnedPairs DEF Unused
    <3> QED BY <1>4, <1>5, <3>1 DEF Unspent
  <2> QED BY <2>1, <2>2 DEF Unused
<1>10. Keeps'
  <2> SUFFICES ASSUME ~overlapped, failures' = 0
               PROVE  /\ Alone' /\ Carries(pc[r], loc[r])' /\ OneAtATimeKeepsTheSession'
                      /\ \A q \in Requests \ {r} : pc'[q] = "idle"
    BY <1>1 DEF Keeps
  <2>1. \A q \in Requests \ {r} : pc'[q] = "idle"
    BY <1>1, <1>5 DEF Keeps, Alone
  <2>2. Carries(pc[r], loc[r])'
    BY <1>1, <1>3, <1>5 DEF Carries
  <2>3. ~OneAtATimeKeepsTheSession' => FALSE
    BY <1>5 DEF OneAtATimeKeepsTheSession
  <2> QED BY <2>1, <2>2, <2>3 DEF Alone
<1> QED BY <1>6, <1>7, <1>8, <1>9, <1>10 DEF WInv

\* A login that the backend takes: a pair of its own.
LEMMA LoginIssuesKeeps ==
  ASSUME WInv, NEW r \in Requests, login(r), issued' # issued
  PROVE  WInv'
<1> DEFINE l == setAuthCookies(loc[r], issued + 1)
<1>1. /\ WebTypeOK /\ Flying /\ Numbered /\ Exclusive /\ Unused /\ Keeps
      /\ jar' = jar /\ issued' = issued + 1 /\ overlapped' = overlapped /\ intent' = "in"
      /\ issued + 1 \in Pairs /\ failures' = failures
      /\ pc[r] = "handle" /\ loc[r] \in Carried
  BY HandsTyped DEF WInv, login
<1>2. Moves(r, "respond", l) /\ "respond" \in Stages
  BY DEF login, Moves, Stages
<1>3. issued + 1 \in 0..MaxTokens /\ issued \in Pairs /\ issued <= issued /\ issued + 1 \in Nat
      /\ issued + 1 # 0
  BY <1>1, WebAssumption DEF WebTypeOK, Pairs
<1>4. /\ l \in Carried /\ l.refresh = issued + 1 /\ l.cookies = "set" /\ l.token = loc[r].token
      /\ l.got = loc[r].got
  BY <1>1, <1>3, SetHolds
<1>5. /\ tokens' \in [Pairs -> PairRows] /\ tokens'[issued + 1].state = "live"
      /\ \A g \in Pairs \ {issued + 1} : tokens'[g] = tokens[g]
  <2>1. tokens' = [tokens EXCEPT
                     ![issued + 1] = [NoPair EXCEPT !.state = "live", !.origin = issued + 1]]
    BY DEF login
  <2> QED BY <1>1, <1>3, <2>1, PairIssued
<1> HIDE DEF l
<1>6. /\ pc' \in [Requests -> Stages] /\ loc' \in [Requests -> Carried]
      /\ pc'[r] = "respond" /\ loc'[r] = l
      /\ \A q \in Requests \ {r} : pc'[q] = pc[q] /\ loc'[q] = loc[q]
  BY <1>1, <1>2, <1>4, MovesEffect
<1>7. WebTypeOK'
  BY <1>1, <1>5, <1>6 DEF WebTypeOK, Carried, PairRows
<1>8. Flying'
  BY <1>1, <1>3, <1>4, <1>6 DEF Flying, Flies
<1>9. Numbered' /\ Exclusive'
  <2>1. \A q \in Requests \ {r} : Own(q)' \subseteq Own(q) /\ Uses(q)' \subseteq Uses(q)
    BY <1>6 DEF Own, Uses
  <2>2. Own(r)' \subseteq Own(r) \cup {issued + 1} /\ Uses(r)' \subseteq Uses(r) \cup {issued + 1}
    BY <1>4, <1>6 DEF Own, Uses, OwnOf, UsesOf
  <2> QED BY <1>1, <2>1, <2>2, HandsStep
<1>10. Unused'
  <2>1. Unspent(pc[r], loc[r])'
    BY <1>4, <1>5, <1>6 DEF Unspent
  <2>2. ASSUME NEW q \in Requests \ {r} PROVE Unspent(pc[q], loc[q])'
    <3>1. /\ Unspent(pc[q], loc[q])
          /\ loc[q].cookies = "set" => loc[q].refresh \in Pairs
          /\ pc[q] = "answer" /\ loc[q].got # 0 => loc[q].got \in Pairs
      BY <1>1, OwnedPairs DEF Unused
    <3> QED BY <1>5, <1>6, <3>1 DEF Unspent
  <2> QED BY <2>1, <2>2 DEF Unused
<1>11. Keeps'
  <2> SUFFICES ASSUME ~overlapped, failures = 0
               PROVE  /\ Alone' /\ Carries(pc[r], loc[r])' /\ OneAtATimeKeepsTheSession'
                      /\ \A q \in Requests \ {r} : pc'[q] = "idle"
    BY <1>1 DEF Keeps
  <2>1. \A q \in Requests \ {r} : pc'[q] = "idle"
    BY <1>1, <1>6 DEF Keeps, Alone
  <2>2. Carries(pc[r], loc[r])'
    BY <1>1, <1>4, <1>5, <1>6 DEF Carries, LivePair
  <2>3. ~OneAtATimeKeepsTheSession' => FALSE
    BY <1>6 DEF OneAtATimeKeepsTheSession
  <2> QED BY <2>1, <2>2, <2>3 DEF Alone
<1> QED BY <1>7, <1>8, <1>9, <1>10, <1>11 DEF WInv

LEMMA LoginKeeps == ASSUME WInv, NEW r \in Requests, login(r) PROVE WInv'
<1>1. CASE issued' # issued
  BY <1>1, LoginIssuesKeeps
<1>2. CASE issued' = issued
  <2>1. /\ WebTypeOK /\ loc[r] \in Carried /\ pc[r] = "handle" /\ failures' = failures
        /\ failures \in Nat /\ issued \in Nat
    BY HandsTyped, WebAssumption DEF WInv, WebTypeOK, Pairs, login
  <2>2. UNCHANGED <<jar, tokens, issued, overlapped, intent, loc>>
    BY <1>2, <2>1 DEF login
  <2>3. Moves(r, "respond", loc[r]) /\ "respond" \in Stages \ {"answer", "idle"}
    BY <2>1, <2>2 DEF login, Moves, Stages, WebTypeOK
  <2>4. Carries("handle", loc[r]) => Carries("respond", loc[r])
    BY DEF Carries
  <2> QED BY <2>1, <2>2, <2>3, <2>4, QuietMove
<1> QED BY <1>1, <1>2

-----------------------------------------------------------------------------
LEMMA BackendRefreshKeeps == ASSUME WInv, NEW r \in Requests, BackendRefresh(r) PROVE WInv'
BY ExchangeKeeps, RefusalKeeps

LEMMA ServeKeeps == ASSUME WInv, NEW r \in Requests, Serve(r) PROVE WInv'
BY EnsureKeeps, EnsureResumesKeeps, PageKeeps, RenewKeeps, RenewResumesKeeps, ResolveKeeps,
   ResolveResumesKeeps, ExecuteKeeps, RetryResumesKeeps, LogoutKeeps, LoginKeeps,
   BackendRefreshKeeps, PerformRefreshKeeps, DeliverKeeps
   DEF Serve

LEMMA WebNextKeeps == ASSUME WInv, [WebNext]_webVars PROVE WInv'
<1>1. ASSUME NEW r \in Requests,
             Send(r) \/ Serve(r) \/ RefreshFails(r) \/ ExecuteFails(r) \/ ResponseLost(r)
      PROVE  WInv'
  BY <1>1, SendKeeps, ServeKeeps, RefreshFailsKeeps, ExecuteFailsKeeps, ResponseLostKeeps
<1>2. ASSUME NEW g \in Pairs, AccessAges(g) \/ AccessRefused(g) PROVE WInv'
  BY <1>2, AccessAgesKeeps, AccessRefusedKeeps
<1>3. CASE UNCHANGED webVars
  <2>1. tokens' \in [Pairs -> PairRows]
    BY <1>3 DEF webVars, WInv, WebTypeOK, PairRows
  <2> QED BY <1>3, <2>1, ElsewhereKeeps DEF webVars, web
<1> QED BY <1>1, <1>2, <1>3, SessionsClosedKeeps DEF WebNext

LEMMA WebInitKeeps == WebInit => WInv
<1> SUFFICES ASSUME WebInit PROVE WInv
  OBVIOUS
<1>1. 1 \in Pairs /\ 0 \in 0..MaxTokens /\ 1 \in 0..MaxTokens
  BY WebAssumption DEF Pairs
<1>2. /\ jar.refresh = 1 /\ issued = 1 /\ tokens[1].state = "live" /\ intent = "in"
      /\ \A r \in Requests : pc[r] = "idle" /\ loc[r] = NoLocals
  BY <1>1 DEF WebInit, NoPair
<1>3. WebTypeOK
  <2>1. tokens \in [Pairs -> PairRows]
    <3>1. NoPair \in PairRows /\ [NoPair EXCEPT !.state = "live", !.origin = 1] \in PairRows
      BY DEF NoPair, PairRows
    <3> QED BY <3>1 DEF WebInit
  <2>2. jar \in [access : 0..MaxTokens, refresh : 0..MaxTokens] /\ issued \in Pairs
    BY <1>1 DEF WebInit
  <2>3. pc \in [Requests -> Stages] /\ loc \in [Requests -> Carried]
    BY NothingHeld DEF WebInit, Stages
  <2> QED BY <2>1, <2>2, <2>3 DEF WebInit, WebTypeOK, PairRows, Carried
<1>4. \A r \in Requests : Own(r) = {} /\ Uses(r) = {}
  BY <1>2, NothingHeld DEF Own, OwnOf, Uses, UsesOf
<1>5. Flying /\ Unused
  BY <1>2, NothingHeld DEF Flying, Flies, Unused, Unspent
<1>6. Numbered /\ Exclusive
  BY <1>2, <1>4 DEF Numbered, Exclusive
<1>7. Keeps
  BY <1>2 DEF Keeps, Alone, OneAtATimeKeepsTheSession
<1> QED BY <1>3, <1>5, <1>6, <1>7 DEF WInv

LEMMA WebInvariance == WebSpec => []WInv
BY WebInitKeeps, WebNextKeeps, PTL DEF WebSpec

\* The types of the variables of the web server and of its browser (WebTypeOK), in every
\* reachable state.
THEOREM WebTypeCorrect == WebSpec => []WebTypeOK
<1>1. WInv => WebTypeOK
  BY DEF WInv
<1> QED BY <1>1, WebInvariance, PTL

\* One request at a time, and none lost, the browser keeps its session through every
\* renewal, and has no cookies after a logout (ensureSession, proxyWithSessionRefresh).
THEOREM SessionSurvives == WebSpec => []OneAtATimeKeepsTheSession
<1>1. ASSUME WInv PROVE OneAtATimeKeepsTheSession
  <2> SUFFICES ASSUME ~overlapped, failures = 0 PROVE OneAtATimeKeepsTheSession
    BY DEF OneAtATimeKeepsTheSession
  <2> QED BY <1>1 DEF WInv, Keeps
<1> QED BY <1>1, WebInvariance, PTL

\* No response puts back among the cookies a refresh token that has been exchanged,
\* whatever requests overlap and in whatever order they are answered (performRefresh).
THEOREM ResponsesBringUnused == WebSpec => ExchangedNeverComesBack
<1>1. ASSUME WInv, WebNext, jar'.refresh # jar.refresh, jar'.refresh # 0
      PROVE  tokens[jar'.refresh].state # "rotated"
  <2>1. PICK r \in Requests : Deliver(r)
    BY <1>1 DEF WebNext, Serve, Send, ensureSession, EnsureResumes, Page, Renew, RenewResumes,
                resolveAccessToken, ResolveResumes, proxyWithSessionRefresh, RetryResumes, logout,
                login, BackendRefresh, performRefresh, RefreshFails, ExecuteFails, ResponseLost,
                AccessAges, AccessRefused, SessionsClosed
  <2>2. loc[r].cookies \in {"kept", "set", "cleared"}
    BY <1>1, HandsTyped DEF WInv
  <2>3. loc[r].cookies = "set" /\ jar'.refresh = loc[r].refresh /\ pc[r] = "respond"
    BY <1>1, <2>1, <2>2 DEF Deliver
  <2>4. Unspent("respond", loc[r])
    BY <1>1, <2>3 DEF WInv, Unused
  <2> QED BY <2>3, <2>4 DEF Unspent
<1>2. ASSUME WInv, [WebNext]_webVars
      PROVE  [jar'.refresh # jar.refresh /\ jar'.refresh # 0
                => tokens[jar'.refresh].state # "rotated"]_webVars
  BY <1>1, <1>2
<1> QED BY <1>2, WebInvariance, PTL DEF WebSpec, ExchangedNeverComesBack

-----------------------------------------------------------------------------
(* While nothing is lost, other cookies are on their way for a stale token  *)

Replacing(r) == pc[r] = "answer" \/ loc[r].cookies # "kept"

StaleInv ==
  /\ \A r \in Requests : pc[r] = "idle" => loc[r].cookies = "kept"
  /\ StaleOnlyUnderWay

\* A request that gives other cookies goes on to, until it is answered.
LEMMA ReplacingStays ==
  ASSUME WebTypeOK, StaleInv, NEW r \in Requests, NEW stage \in Stages \ {"idle"}, NEW l \in Carried,
         Moves(r, stage, l), jar' = jar, failures' = 0 => failures = 0,
         \A g \in Pairs : tokens'[g].state = "rotated" => tokens[g].state = "rotated",
         pc[r] # "answer", pc[r] # "idle" /\ loc[r].cookies # "kept" => l.cookies # "kept"
  PROVE  StaleInv'
<1>1. /\ pc'[r] = stage /\ loc'[r] = l
      /\ \A q \in Requests \ {r} : pc'[q] = pc[q] /\ loc'[q] = loc[q]
  BY MovesEffect
<1>2. \A q \in Requests : Replacing(q) => Replacing(q)'
  BY <1>1 DEF Replacing, StaleInv
<1>3. jar.refresh # 0 => jar.refresh \in Pairs
  BY WebAssumption DEF WebTypeOK, Pairs
<1>4. StaleOnlyUnderWay'
  BY <1>2, <1>3 DEF StaleInv, StaleOnlyUnderWay, Replacing
<1> QED BY <1>1, <1>4 DEF StaleInv

\* What a request does to its cookies and to the tokens, before it is answered.
LEMMA StaleServe ==
  ASSUME WInv, StaleInv, NEW r \in Requests,
         \/ Send(r) \/ ensureSession(r) \/ EnsureResumes(r) \/ Page(r) \/ Renew(r) \/ RenewResumes(r)
         \/ resolveAccessToken(r) \/ ResolveResumes(r) \/ proxyWithSessionRefresh(r)
         \/ RetryResumes(r) \/ logout(r) \/ login(r)
  PROVE  StaleInv'
<1>1. /\ WebTypeOK /\ WInv' /\ loc[r] \in Carried /\ failures \in Nat /\ pc[r] \in Stages
      /\ loc[r].cookies \in {"kept", "set", "cleared"}
  <2>1. WInv'
    BY SendKeeps, ServeKeeps DEF Serve
  <2> QED BY <2>1, HandsTyped DEF WInv, WebTypeOK
<1>2. loc'[r] \in Carried /\ pc'[r] \in Stages
  BY <1>1, HandsTyped DEF WInv, WebTypeOK, Carried
<1>3. \A g \in 0..MaxTokens : setAuthCookies(loc[r], g).cookies = "set"
  BY <1>1, SetHolds
<1>4. /\ Forgotten(loc[r]).cookies = loc[r].cookies /\ clearAuthCookies(loc[r]).cookies = "cleared"
      /\ Forgotten(clearAuthCookies(loc[r])).cookies = "cleared"
  BY <1>1, ForgottenHolds, ClearedHolds
<1>5. \A c \in {"kept", "set", "cleared"} : [NoLocals EXCEPT !.cookies = c].cookies = c
  BY DEF NoLocals
<1>6. /\ jar' = jar /\ (failures' = 0 => failures = 0)
      /\ \A g \in Pairs : tokens'[g].state = "rotated" => tokens[g].state = "rotated"
  <2>1. CASE logout(r)
    <3>1. /\ jar' = jar /\ (failures' = 0 => failures = 0)
          /\ tokens' = tokens \/ tokens' = [tokens EXCEPT ![loc[r].refresh].state = "revoked"]
      BY <1>1, <2>1 DEF logout
    <3>2. /\ tokens \in [Pairs -> PairRows]
          /\ \A p \in PairRows : [p EXCEPT !.state = "revoked"].state = "revoked"
      BY <1>1 DEF WebTypeOK, PairRows
    <3> QED BY <3>1, <3>2
  <2>2. CASE login(r)
    <3>1. /\ jar' = jar /\ failures' = failures /\ issued \in Pairs /\ issued \in Nat
          /\ \/ tokens' = tokens
             \/ /\ issued + 1 \in Pairs
                /\ tokens' = [tokens EXCEPT
                     ![issued + 1] = [NoPair EXCEPT !.state = "live", !.origin = issued + 1]]
      BY <1>1, <2>2, WebAssumption DEF login, WebTypeOK, Pairs
    <3>2. issued <= issued /\ issued + 1 \in Nat
      BY <3>1
    <3>3. CASE tokens' # tokens
      <4>0. tokens' = [tokens EXCEPT
                         ![issued + 1] = [NoPair EXCEPT !.state = "live", !.origin = issued + 1]]
        BY <3>1, <3>3
      <4>1. /\ tokens'[issued + 1].state = "live"
            /\ \A g \in Pairs \ {issued + 1} : tokens'[g] = tokens[g]
        BY <1>1, <3>1, <3>2, <3>3, <4>0, PairIssued
      <4> QED BY <3>1, <4>1
    <3> QED BY <3>1, <3>3
  <2>3. CASE ~logout(r) /\ ~login(r)
    BY <2>3 DEF Send, ensureSession, EnsureResumes, Page, Renew, RenewResumes, resolveAccessToken,
                ResolveResumes, proxyWithSessionRefresh, RetryResumes
  <2> QED BY <2>1, <2>2, <2>3
<1>7. ASSUME NEW stage \in Stages \ {"idle"}, NEW l, Moves(r, stage, l), pc[r] # "answer",
             pc[r] # "idle" /\ loc[r].cookies # "kept" => l.cookies # "kept"
      PROVE  StaleInv'
  <2>1. l = loc'[r]
    BY <1>1, <1>7 DEF Moves, WebTypeOK
  <2> QED BY <1>1, <1>2, <1>6, <1>7, <2>1, ReplacingStays
<1>8. \A s \in {"ensure", "handle", "execute", "again", "respond", "refresh", "joined"} :
        s \in Stages \ {"idle"}
  BY DEF Stages
<1>9. CASE Send(r)
  BY <1>7, <1>8, <1>9 DEF Send, Moves
<1>10. ASSUME NEW stage \in {"handle", "execute"}, Goto(r, stage), pc[r] \in {"ensure", "handle"}
       PROVE  StaleInv'
  <2>1. Moves(r, stage, loc[r])
    BY <1>1, <1>10 DEF Goto, Moves, WebTypeOK
  <2> QED BY <1>7, <1>8, <1>10, <2>1
<1>11. ASSUME NEW caller, refreshSessionCookies(r, caller), pc[r] \in {"ensure", "handle", "execute"}
       PROVE  StaleInv'
  <2> DEFINE stage == IF loc[r].refresh \in refreshInflight THEN "joined" ELSE "refresh"
             l == [loc[r] EXCEPT !.token = loc[r].refresh, !.why = caller]
  <2>1. Moves(r, stage, l)
    BY <1>1, <1>11 DEF refreshSessionCookies, Moves, WebTypeOK
  <2>2. l.cookies = loc[r].cookies
    BY <1>1 DEF Carried
  <2>3. stage \in {"joined", "refresh"}
    OBVIOUS
  <2> HIDE DEF l, stage
  <2> QED BY <1>7, <1>8, <1>11, <2>1, <2>2, <2>3
<1>12. ASSUME NEW stage \in {"execute", "again"}, Resume(r, stage), pc[r] = "resumed"
       PROVE  StaleInv'
  <2>1. Moves(r, stage, Forgotten(loc[r]))
    BY <1>1, <1>12 DEF Resume, Moves, WebTypeOK
  <2> QED BY <1>4, <1>7, <1>8, <1>12, <2>1
<1>13. ASSUME Respond(r), pc[r] \in {"handle", "execute", "again", "resumed"} PROVE StaleInv'
  <2> DEFINE l == IF loc[r].cookies = "set" THEN Forgotten(loc[r])
                  ELSE [NoLocals EXCEPT !.cookies = loc[r].cookies]
  <2>1. Moves(r, "respond", l)
    BY <1>1, <1>13 DEF Respond, Moves, WebTypeOK
  <2>2. l.cookies = loc[r].cookies
    BY <1>1, <1>4, <1>5
  <2> HIDE DEF l
  <2> QED BY <1>7, <1>8, <1>13, <2>1, <2>2
<1>14. CASE ensureSession(r)
  BY <1>10, <1>11, <1>14 DEF ensureSession
<1>15. CASE EnsureResumes(r)
  <2> DEFINE l == Forgotten(IF loc[r].outcome = "ok" THEN loc[r] ELSE clearAuthCookies(loc[r]))
  <2>1. Moves(r, "handle", l) /\ pc[r] = "resumed"
    BY <1>1, <1>15 DEF EnsureResumes, Moves, WebTypeOK
  <2>2. l.cookies \in {loc[r].cookies, "cleared"}
    BY <1>4
  <2> HIDE DEF l
  <2> QED BY <1>7, <1>8, <2>1, <2>2
<1>16. CASE Page(r) \/ Renew(r) \/ RenewResumes(r)
  BY <1>11, <1>13, <1>16 DEF Page, Renew, RenewResumes
<1>17. CASE resolveAccessToken(r) \/ ResolveResumes(r)
  BY <1>10, <1>11, <1>12, <1>13, <1>17 DEF resolveAccessToken, ResolveResumes
<1>18. CASE proxyWithSessionRefresh(r) \/ RetryResumes(r)
  BY <1>11, <1>12, <1>13, <1>18 DEF proxyWithSessionRefresh, RetryResumes
<1>19. CASE logout(r)
  <2>1. Moves(r, "respond", clearAuthCookies(loc[r])) /\ pc[r] = "handle"
    BY <1>1, <1>19 DEF logout, Moves, WebTypeOK
  <2> QED BY <1>4, <1>7, <1>8, <2>1
<1>20. CASE login(r)
  <2>1. pc[r] = "handle" /\ pc' = [pc EXCEPT ![r] = "respond"]
    BY <1>20 DEF login
  <2>2. CASE loc' = loc
    <3>1. Moves(r, "respond", loc[r])
      BY <1>1, <2>1, <2>2 DEF Moves, WebTypeOK
    <3> QED BY <1>7, <1>8, <2>1, <3>1
  <2>3. CASE loc' # loc
    <3>1. Moves(r, "respond", setAuthCookies(loc[r], issued + 1)) /\ issued + 1 \in Pairs
      BY <1>20, <2>1, <2>3 DEF login, Moves
    <3>2. setAuthCookies(loc[r], issued + 1).cookies = "set"
      BY <1>3, <3>1, WebAssumption DEF Pairs
    <3> QED BY <1>7, <1>8, <2>1, <3>1, <3>2
  <2> QED BY <2>2, <2>3
<1> QED BY <1>9, <1>14, <1>15, <1>16, <1>17, <1>18, <1>19, <1>20

LEMMA StaleNext == ASSUME WInv, StaleInv, WebNext PROVE StaleInv'
<1>1. /\ WebTypeOK /\ Flying /\ Unused /\ WInv' /\ failures \in Nat
      /\ jar.refresh # 0 => jar.refresh \in Pairs
  <2>1. WInv'
    BY WebNextKeeps
  <2>2. jar.refresh # 0 => jar.refresh \in Pairs
    BY WebAssumption DEF WInv, WebTypeOK, Pairs
  <2> QED BY <2>1, <2>2 DEF WInv, WebTypeOK
<1>2. ASSUME NEW r \in Requests, BackendRefresh(r) PROVE StaleInv'
  <2>1. /\ pc[r] = "refresh" /\ pc' = [pc EXCEPT ![r] = "answer"]
        /\ \A q \in Requests \ {r} : loc'[q] = loc[q]
    BY <1>1, <1>2 DEF BackendRefresh, WebTypeOK
  <2>2. pc'[r] = "answer" /\ \A q \in Requests \ {r} : pc'[q] = pc[q]
    BY <1>1, <2>1 DEF WebTypeOK
  <2> QED BY <2>1, <2>2 DEF StaleInv, StaleOnlyUnderWay
<1>3. ASSUME NEW r \in Requests, performRefresh(r) PROVE StaleInv'
  <2>1. PICK outcome \in {"ok", "refused"} : Land(r, outcome)
    BY <1>3 DEF performRefresh
  <2>2. pc[r] = "answer" /\ UNCHANGED <<jar, tokens, failures>>
    BY <1>3 DEF performRefresh
  <2>3. pc'[r] = "resumed" /\ loc'[r].cookies \in {"set", "cleared"}
    BY <1>1, <2>1, <2>2, LandEffect
  <2>4. \A q \in Requests \ {r} :
          \/ pc'[q] = pc[q] /\ loc'[q] = loc[q]
          \/ pc[q] = "joined" /\ pc'[q] = "resumed" /\ loc'[q].cookies = loc[q].cookies
    BY <1>1, <2>1, <2>2, LandEffect
  <2>5. StaleOnlyUnderWay'
    BY <2>2, <2>3 DEF StaleOnlyUnderWay
  <2> QED BY <2>3, <2>4, <2>5 DEF StaleInv
<1>4. ASSUME NEW r \in Requests, Finish(r),
             StaleOnlyUnderWay' \/ failures' # 0
      PROVE  StaleInv'
  <2>1. /\ pc'[r] = "idle" /\ loc'[r] = NoLocals
        /\ \A q \in Requests \ {r} : pc'[q] = pc[q] /\ loc'[q] = loc[q]
    BY <1>1, <1>4 DEF Finish, WebTypeOK
  <2> QED BY <1>4, <2>1, NothingHeld DEF StaleInv, StaleOnlyUnderWay
<1>5. ASSUME NEW r \in Requests, Deliver(r) PROVE StaleInv'
  <2>1. /\ pc[r] = "respond" /\ Finish(r) /\ tokens' = tokens /\ failures' = failures
        /\ jar' = CASE loc[r].cookies = "kept"    -> jar
              [] loc[r].cookies = "set"     -> [access |-> loc[r].access, refresh |-> loc[r].refresh]
              [] loc[r].cookies = "cleared" -> [access |-> 0, refresh |-> 0]
    BY <1>5 DEF Deliver
  <2>2. \A q \in Requests \ {r} : pc'[q] = pc[q] /\ loc'[q] = loc[q]
    BY <1>1, <2>1 DEF Finish, WebTypeOK
  <2>3. loc[r].cookies \in {"kept", "set", "cleared"} /\ Unspent("respond", loc[r])
    BY <1>1, <2>1, HandsTyped DEF Unused
  <2>4. CASE loc[r].cookies = "kept"
    <3>1. StaleOnlyUnderWay'
      BY <2>1, <2>2, <2>4 DEF StaleInv, StaleOnlyUnderWay
    <3> QED BY <1>4, <2>1, <3>1
  <2>5. CASE loc[r].cookies # "kept"
    <3>1. jar'.refresh # 0 => tokens[jar'.refresh].state # "rotated"
      BY <2>1, <2>3, <2>5 DEF Unspent
    <3>2. StaleOnlyUnderWay'
      BY <2>1, <3>1 DEF StaleOnlyUnderWay
    <3> QED BY <1>4, <2>1, <3>2
  <2> QED BY <2>4, <2>5
<1>6. ASSUME NEW r \in Requests, RefreshFails(r) PROVE StaleInv'
  <2>1. pc[r] \in {"refresh", "answer"} /\ Land(r, "failed") /\ failures' # 0
    BY <1>1, <1>6 DEF RefreshFails
  <2>2. pc'[r] = "resumed" /\ \A q \in Requests \ {r} :
          \/ pc'[q] = pc[q] /\ loc'[q] = loc[q]
          \/ pc[q] = "joined" /\ pc'[q] = "resumed" /\ loc'[q].cookies = loc[q].cookies
    BY <1>1, <2>1, LandEffect
  <2> QED BY <2>1, <2>2 DEF StaleInv, StaleOnlyUnderWay
<1>7. ASSUME NEW r \in Requests, ExecuteFails(r) \/ ResponseLost(r) PROVE StaleInv'
  <2>1. failures' # 0 /\ (Respond(r) \/ Finish(r))
    BY <1>1, <1>7 DEF ExecuteFails, ResponseLost
  <2>2. CASE Respond(r)
    <3>1. pc'[r] = "respond" /\ \A q \in Requests \ {r} : pc'[q] = pc[q] /\ loc'[q] = loc[q]
      BY <1>1, <2>2 DEF Respond, WebTypeOK
    <3> QED BY <2>1, <3>1 DEF StaleInv, StaleOnlyUnderWay
  <2> QED BY <1>4, <2>1, <2>2
<1>8. ASSUME UNCHANGED <<jar, web, failures>>,
             \A g \in Pairs : tokens'[g].state = "rotated" => tokens[g].state = "rotated"
      PROVE  StaleInv'
  <2>1. jar' = jar /\ pc' = pc /\ loc' = loc /\ failures' = failures
    BY <1>8 DEF web
  <2>2. \A r \in Requests : pc'[r] = "idle" => loc'[r].cookies = "kept"
    BY <1>1, <2>1 DEF StaleInv
  <2>3. jar.refresh # 0 => jar.refresh \in Pairs
    BY <1>1 DEF WebTypeOK, Pairs
  <2>4. ASSUME failures = 0, jar.refresh # 0, tokens'[jar.refresh].state = "rotated"
        PROVE  \E r \in Requests : pc[r] = "answer" \/ loc[r].cookies # "kept"
    <3>1. tokens[jar.refresh].state = "rotated"
      BY <1>8, <2>3, <2>4
    <3> QED BY <1>1, <2>4, <3>1 DEF StaleInv, StaleOnlyUnderWay
  <2> QED BY <2>1, <2>2, <2>4 DEF StaleInv, StaleOnlyUnderWay
<1>9. tokens \in [Pairs -> PairRows]
  BY <1>1 DEF WebTypeOK, PairRows
<1>10. ASSUME NEW g \in Pairs, AccessAges(g) \/ AccessRefused(g) PROVE StaleInv'
  <2>1. \A p \in PairRows : /\ \A a \in {"expiring", "expired"} : [p EXCEPT !.age = a].state = p.state
                            /\ [p EXCEPT !.accepted = FALSE].state = p.state
    BY DEF PairRows
  <2>2. \/ \E a \in {"expiring", "expired"} : tokens' = [tokens EXCEPT ![g].age = a]
        \/ tokens' = [tokens EXCEPT ![g].accepted = FALSE]
    BY <1>10 DEF AccessAges, AccessRefused
  <2>3. ASSUME NEW a \in {"expiring", "expired"}, tokens' = [tokens EXCEPT ![g].age = a], NEW p \in Pairs
        PROVE  tokens'[p].state = tokens[p].state
    <3>1. CASE p = g
      <4>1. tokens'[p] = [tokens[p] EXCEPT !.age = a] /\ tokens[p] \in PairRows
        BY <1>9, <2>3, <3>1
      <4> QED BY <2>1, <4>1
    <3>2. CASE p # g
      BY <1>9, <2>3, <3>2
    <3> QED BY <3>1, <3>2
  <2>4. ASSUME tokens' = [tokens EXCEPT ![g].accepted = FALSE], NEW p \in Pairs
        PROVE  tokens'[p].state = tokens[p].state
    <3>1. CASE p = g
      <4>1. tokens'[p] = [tokens[p] EXCEPT !.accepted = FALSE] /\ tokens[p] \in PairRows
        BY <1>9, <2>4, <3>1
      <4> QED BY <2>1, <4>1
    <3>2. CASE p # g
      BY <1>9, <2>4, <3>2
    <3> QED BY <3>1, <3>2
  <2>5. \A p \in Pairs : tokens'[p].state = tokens[p].state
    BY <2>2, <2>3, <2>4
  <2> QED BY <1>8, <1>10, <2>5 DEF AccessAges, AccessRefused
<1>11. CASE SessionsClosed
  <2>1. \A p \in PairRows : [p EXCEPT !.state = "revoked"].state = "revoked"
    BY DEF PairRows
  <2>2. \A p \in Pairs : tokens'[p].state = "rotated" => tokens[p].state = "rotated"
    BY <1>9, <1>11, <2>1 DEF SessionsClosed
  <2> QED BY <1>8, <1>11, <2>2 DEF SessionsClosed
<1> QED BY <1>2, <1>3, <1>5, <1>6, <1>7, <1>10, <1>11, StaleServe DEF WebNext, Serve

\* While nothing is lost, a refresh token that has been exchanged is among the cookies of
\* the browser only as long as a response with others is under way (Land, Deliver).
THEOREM StaleIsBeingReplaced == WebSpec => []StaleOnlyUnderWay
<1>1. WebInit => StaleInv
  <2>1. WebInit => tokens[1].state = "live"
    BY WebAssumption DEF WebInit, NoPair, Pairs
  <2> QED BY <2>1 DEF WebInit, StaleInv, StaleOnlyUnderWay, NoLocals
<1>2. ASSUME WInv, StaleInv, [WebNext]_webVars PROVE StaleInv'
  <2>1. CASE UNCHANGED webVars
    BY <1>2, <2>1 DEF webVars, StaleInv, StaleOnlyUnderWay
  <2> QED BY <1>2, <2>1, StaleNext
<1>3. StaleInv => StaleOnlyUnderWay
  BY DEF StaleInv
<1> QED BY <1>1, <1>2, <1>3, WebInvariance, PTL DEF WebSpec
=============================================================================

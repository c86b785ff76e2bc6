------------------------- MODULE MatchCaptureProofs -------------------------
(***************************************************************************)
(* What holds of MatchCapture for any number of requests, players,         *)
(* captures and parents, whatever the interleaving and whatever dies.      *)
(***************************************************************************)
EXTENDS MatchCapture, TLAPS

Facts ==
  /\ OneActionPerCapture
  /\ NoActionBeforeKickoff
  /\ AuditIsTrue
  /\ OnlyLiveActionsNotified
  /\ IdsInOrder

IInv == TypeOK /\ Facts /\ \A r \in Requests : ReliesOnFacts(r)

\* A step moves the history of each action forward.
HistoryStep ==
  \A a \in ActionIds :
    action[a].status # "none" =>
      /\ [action'[a] EXCEPT !.status = action[a].status] = action[a]
      /\ action'[a].status # "none"
      /\ action'[a].status = "active" => action[a].status = "active"
      /\ action[a].status = "deleted" => action'[a].status = "deleted"

\* The empty locals are locals.
LEMMA EmptyLocals == NoLocals \in Locals
BY BoundAssumption DEF NoLocals, Locals, MatchStatus

\* The initial state: no rows, no requests.
LEMMA InitInvariant == Init => IInv
<1> SUFFICES ASSUME Init PROVE IInv
  OBVIOUS
<1> USE DEF Init
<1>1. NoLocals \in Locals
  BY EmptyLocals
<1>2. NoAction \in ActionRows
  BY DEF NoAction, ActionRows
<1>3. TypeOK
  <2>1. action \in [ActionIds -> ActionRows] /\ loc \in [Requests -> Locals]
    BY <1>1, <1>2
  <2>2. pc \in [Requests -> Labels]
    BY DEF Labels
  <2>3. nextId \in 1..(MaxActionId + 1)
    BY BoundAssumption
  <2>4. failed \in 0..MaxFailures
    BY BoundAssumption
  <2> QED
    BY <2>1, <2>2, <2>3, <2>4 DEF TypeOK, MatchStatus
<1>4. Facts
  BY DEF Facts, OneActionPerCapture, NoActionBeforeKickoff, AuditIsTrue,
         OnlyLiveActionsNotified, IdsInOrder, Exists, NoAction, ActionIds
<1>5. \A r \in Requests : ReliesOnFacts(r)
  BY DEF ReliesOnFacts, At, Registering, Registered, Voiding, Undoing
<1> QED
  BY <1>3, <1>4, <1>5 DEF IInv

\* Actions never go back and never change what they recorded.
LEMMA HistoryMovesForward ==
  ASSUME TypeOK, IdsInOrder, [Next]_vars
  PROVE  HistoryStep
<1>1. CASE UNCHANGED action
  BY <1>1 DEF HistoryStep, TypeOK, ActionRows
<1>2. ASSUME NEW r \in Requests, StatusVoidActions(r) PROVE HistoryStep
  BY <1>2 DEF StatusVoidActions, HistoryStep, Active, TypeOK, ActionRows
<1>3. ASSUME NEW r \in Requests, RegisterInsert(r) PROVE HistoryStep
  BY <1>3 DEF RegisterInsert, HistoryStep, IdsInOrder, TypeOK, ActionRows, actions
<1>4. ASSUME NEW r \in Requests, UndoDelete(r) PROVE HistoryStep
  BY <1>4 DEF UndoDelete, HistoryStep, TypeOK, ActionRows
<1>5. ASSUME NEW r \in Requests, VoidUpdate(r) PROVE HistoryStep
  BY <1>5 DEF VoidUpdate, HistoryStep, Active, TypeOK, ActionRows
<1>6. ASSUME NEW r \in Requests,
             StatusStep(r) \/ UpdateStep(r) \/ RegisterStep(r) \/ UndoStep(r) \/ VoidStep(r)
               \/ SaveStep(r) \/ Fail(r)
      PROVE  \/ UNCHANGED action \/ StatusVoidActions(r) \/ RegisterInsert(r)
             \/ UndoDelete(r) \/ VoidUpdate(r)
  <2>1. CASE StatusStep(r)
    BY <2>1 DEF StatusStep, updateMatchStatus, StatusUpdate, StatusVoidNotifications,
                StatusAudit, actions
  <2>2. CASE RegisterStep(r)
    BY <2>2 DEF RegisterStep, registerAction, RegisterFindExisting, RegisterReadAttendance,
                RegisterReread, RegisterAudit, RegisterNotify, actions
  <2>3. CASE UndoStep(r)
    BY <2>3 DEF UndoStep, immediateUndo, UndoFind, UndoVoidNotifications, UndoAudit, actions
  <2>4. CASE VoidStep(r)
    BY <2>4 DEF VoidStep, voidAction, VoidFind, VoidAudit, VoidReread, VoidNotifications, actions
  <2>5. CASE SaveStep(r)
    BY <2>5 DEF SaveStep, saveAttendance, SaveReadMatch, SaveReadSheet, SaveCheckActions,
                SaveUpsertRow, SaveAudit, actions
  <2>6. CASE Fail(r)
    BY <2>6 DEF Fail, actions
  <2>7. CASE UpdateStep(r)
    BY <2>7 DEF UpdateStep, updateMatch, UpdateFindAttendance, UpdateWrite, UpdateAudit, actions
  <2> QED
    BY <1>6, <2>1, <2>2, <2>3, <2>4, <2>5, <2>6, <2>7
<1>7. CASE CorrectionWindowCloses \/ UndoWindowCloses
  BY <1>1, <1>7 DEF CorrectionWindowCloses, UndoWindowCloses, actions
<1>8. CASE UNCHANGED vars
  BY <1>1, <1>8 DEF vars
<1> QED
  BY <1>1, <1>2, <1>3, <1>4, <1>5, <1>6, <1>7, <1>8 DEF Next

\* A step that touches neither rows, audit nor notifications keeps the facts.
LEMMA FactsFrame ==
  ASSUME Facts, UNCHANGED <<action, nextId, notified, audit>>,
         status' = "scheduled" => status = "scheduled"
  PROVE  Facts'
BY DEF Facts, OneActionPerCapture, NoActionBeforeKickoff, AuditIsTrue,
       OnlyLiveActionsNotified, IdsInOrder, Exists

\* A step that only writes to the audit trail has only the trail to answer for.
LEMMA FactsButAudit ==
  ASSUME Facts, UNCHANGED <<action, nextId, notified, status>>, AuditIsTrue'
  PROVE  Facts'
<1>1. OneActionPerCapture' /\ NoActionBeforeKickoff' /\ IdsInOrder'
  BY DEF Facts, OneActionPerCapture, NoActionBeforeKickoff, IdsInOrder, Exists
<1>2. OnlyLiveActionsNotified'
  BY DEF Facts, OnlyLiveActionsNotified
<1> QED
  BY <1>1, <1>2 DEF Facts

\* What a request relies on survives the steps of the others.
LEMMA OthersRely ==
  ASSUME TypeOK, IdsInOrder, HistoryStep, TypeOK', nextId <= nextId',
         status' = "scheduled" => status = "scheduled",
         NEW q \in Requests, ReliesOnFacts(q), pc'[q] = pc[q], loc'[q] = loc[q]
  PROVE  ReliesOnFacts(q)'
<1> DEFINE a == loc[q].id
<1>1. a \in ActionIds /\ a < nextId =>
        /\ action'[a].capture = action[a].capture
        /\ action'[a].post = action[a].post
        /\ action[a].status \in {"voided", "deleted"} => action'[a].status \in {"voided", "deleted"}
        /\ action[a].status = "deleted" => action'[a].status = "deleted"
  <2> SUFFICES ASSUME a \in ActionIds, a < nextId
               PROVE  /\ action'[a].capture = action[a].capture
                      /\ action'[a].post = action[a].post
                      /\ action[a].status \in {"voided", "deleted"} =>
                           action'[a].status \in {"voided", "deleted"}
                      /\ action[a].status = "deleted" => action'[a].status = "deleted"
    OBVIOUS
  <2>1. action[a].status # "none" /\ action'[a].status # "none"
    BY DEF IdsInOrder, HistoryStep, TypeOK, ActionRows
  <2> QED
    BY <2>1 DEF HistoryStep, TypeOK, ActionRows
<1>2. a < nextId => a < nextId'
  BY DEF TypeOK, Locals, ActionIds
<1> QED
  BY <1>1, <1>2 DEF ReliesOnFacts, At, Registering, Registered, Voiding, Undoing

\* A step of request r keeps the invariant if it keeps the facts and r's share.
LEMMA StepOfOne ==
  ASSUME IInv, NEW r \in Requests, HistoryStep, nextId <= nextId',
         status' = "scheduled" => status = "scheduled",
         \A q \in Requests \ {r} : pc'[q] = pc[q] /\ loc'[q] = loc[q],
         TypeOK', Facts', ReliesOnFacts(r)'
  PROVE  IInv'
<1>1. ASSUME NEW q \in Requests PROVE ReliesOnFacts(q)'
  BY OthersRely DEF IInv, Facts
<1> QED
  BY <1>1 DEF IInv

\* Notifications are about actions.
LEMMA NotifiedIds == TypeOK => \A n \in notified : n[1] \in ActionIds
BY DEF TypeOK

\* What is known of a row in the next state.
LEMMA RowsForward ==
  ASSUME TypeOK, TypeOK', HistoryStep, NEW a \in ActionIds, action[a].status # "none"
  PROVE  /\ action'[a].capture = action[a].capture
         /\ action'[a].post = action[a].post
         /\ action'[a].status # "none"
         /\ action[a].status \in {"voided", "deleted"} => action'[a].status \in {"voided", "deleted"}
         /\ action[a].status = "deleted" => action'[a].status = "deleted"
BY DEF HistoryStep, TypeOK, ActionRows

\* Audit entries and notifications already there stay true as rows move forward.
LEMMA HistoryKeepsTrail ==
  ASSUME TypeOK, TypeOK', HistoryStep
  PROVE  /\ AuditIsTrue /\ UNCHANGED audit => AuditIsTrue'
         /\ OnlyLiveActionsNotified /\ UNCHANGED notified => OnlyLiveActionsNotified'
<1>1. ASSUME AuditIsTrue, UNCHANGED audit, NEW a \in ActionIds
      PROVE  /\ <<a, "create">> \in audit' => action'[a].status # "none" /\ ~action'[a].post
             /\ <<a, "post_match_correction_create">> \in audit' =>
                  action'[a].status # "none" /\ action'[a].post
             /\ \A k \in {"void", "post_match_correction_void"} :
                  <<a, k>> \in audit' => action'[a].status \in {"voided", "deleted"}
             /\ <<a, "immediate_undo">> \in audit' => action'[a].status = "deleted"
  BY <1>1, RowsForward DEF AuditIsTrue
<1>2. ASSUME OnlyLiveActionsNotified, UNCHANGED notified, NEW n \in notified'
      PROVE  /\ action'[n[1]].status # "none" /\ action'[n[1]].capture \in Notifiable
             /\ ~action'[n[1]].post
  BY <1>2, RowsForward, NotifiedIds DEF OnlyLiveActionsNotified
<1> QED
  BY <1>1, <1>2 DEF AuditIsTrue, OnlyLiveActionsNotified

\* A request starts or moves to its next statement: types of pc and loc.
LEMMA RequestMoves ==
  ASSUME TypeOK, NEW r \in Requests, NEW label \in Labels,
         Goto(r, label) \/ Done(r)
  PROVE  /\ pc' \in [Requests -> Labels] /\ loc' \in [Requests -> Locals]
         /\ \A q \in Requests \ {r} : pc'[q] = pc[q] /\ loc'[q] = loc[q]
         /\ \/ pc'[r] = label /\ loc'[r] = loc[r]
            \/ pc'[r] = "idle"
<1>1. "idle" \in Labels
  BY DEF Labels
<1> QED
  BY <1>1, EmptyLocals DEF Goto, Done, TypeOK

\* An idle request relies on nothing.
LEMMA IdleRelies ==
  ASSUME NEW r, pc'[r] = "idle"
  PROVE  ReliesOnFacts(r)'
BY DEF ReliesOnFacts, At, Registering, Registered, Voiding, Undoing

-----------------------------------------------------------------------------
(* One lemma per operation, one step per action of it.                      *)

\* updateMatchStatus keeps the invariant.
LEMMA StatusKeeps ==
  ASSUME IInv, NEW r \in Requests, StatusStep(r), HistoryStep
  PROVE  IInv'
<1> USE DEF IInv
<1>1. CASE updateMatchStatus(r)
  <2> USE <1>1 DEF updateMatchStatus, Serve, match, actions, notifications
  <2>1. PICK u \in Users, next \in MATCH_STATUS_TRANSITIONS[status] :
          /\ pc' = [pc EXCEPT ![r] = "status.update"]
          /\ loc' = [loc EXCEPT ![r] = [NoLocals EXCEPT !.user = u, !.target = next]]
    OBVIOUS
  <2>2. next \in MatchStatus \ {"scheduled"}
    BY DEF MATCH_STATUS_TRANSITIONS, TypeOK, MatchStatus
  <2>3. [NoLocals EXCEPT !.user = u, !.target = next] \in Locals
    BY <2>2, EmptyLocals DEF Locals
  <2>4. TypeOK'
    BY <2>1, <2>3 DEF TypeOK, Labels
  <2>5. ReliesOnFacts(r)'
    BY <2>1, <2>2 DEF ReliesOnFacts, At, NoLocals, Registering, Registered, Voiding, Undoing, TypeOK
  <2> QED
    BY <2>1, <2>4, <2>5, FactsFrame, StepOfOne DEF TypeOK
<1>2. CASE StatusUpdate(r)
  <2> USE <1>2 DEF StatusUpdate, At, actions, notifications
  <2>1. PICK label \in {"status.void", "status.audit"} : Goto(r, label)
    OBVIOUS
  <2>2. status' \in MatchStatus \ {"scheduled"}
    BY DEF ReliesOnFacts, TypeOK, Locals
  <2>3. /\ TypeOK'
        /\ \A q \in Requests \ {r} : pc'[q] = pc[q] /\ loc'[q] = loc[q]
        /\ pc'[r] = label
    BY <2>1, <2>2, RequestMoves DEF TypeOK, Labels, Goto
  <2>4. ReliesOnFacts(r)'
    BY <2>3 DEF ReliesOnFacts, Registering, Registered, Voiding, Undoing
  <2>5. Facts' /\ nextId <= nextId'
    BY <2>2, FactsFrame DEF TypeOK
  <2> QED
    BY <2>2, <2>3, <2>4, <2>5, StepOfOne
<1>3. CASE StatusVoidActions(r)
  <2> USE <1>3 DEF StatusVoidActions, At, match, notifications
  <2>1. /\ \A q \in Requests \ {r} : pc'[q] = pc[q] /\ loc'[q] = loc[q]
        /\ pc'[r] = "status.notify"
        /\ pc' \in [Requests -> Labels] /\ loc' \in [Requests -> Locals]
    BY RequestMoves DEF Labels, Goto, TypeOK
  <2>2. action' \in [ActionIds -> ActionRows]
    BY DEF TypeOK, ActionRows
  <2>3. TypeOK'
    BY <2>1, <2>2 DEF TypeOK
  <2>4. \A a \in ActionIds :
          /\ action'[a].capture = action[a].capture /\ action'[a].post = action[a].post
          /\ action'[a].status = IF Active(a) THEN "voided" ELSE action[a].status
    BY DEF TypeOK, ActionRows
  <2>5. Facts'
    <3>1. OneActionPerCapture'
      BY <2>4 DEF Facts, OneActionPerCapture, Exists, Active
    <3>2. NoActionBeforeKickoff'
      BY <2>4 DEF Facts, NoActionBeforeKickoff, Active
    <3>3. AuditIsTrue' /\ OnlyLiveActionsNotified'
      BY <2>3, HistoryKeepsTrail DEF Facts
    <3>5. IdsInOrder'
      BY <2>4 DEF Facts, IdsInOrder, Active
    <3> QED
      BY <3>1, <3>2, <3>3, <3>5 DEF Facts
  <2>6. ReliesOnFacts(r)'
    BY <2>1 DEF ReliesOnFacts, Registering, Registered, Voiding, Undoing
  <2> QED
    BY <2>1, <2>3, <2>5, <2>6, StepOfOne DEF TypeOK
<1>4. CASE StatusVoidNotifications(r)
  <2> USE <1>4 DEF StatusVoidNotifications, At, match, actions
  <2>1. /\ \A q \in Requests \ {r} : pc'[q] = pc[q] /\ loc'[q] = loc[q]
        /\ pc'[r] = "status.audit"
        /\ pc' \in [Requests -> Labels] /\ loc' \in [Requests -> Locals]
    BY RequestMoves DEF Labels, Goto, TypeOK
  <2>2. TypeOK'
    BY <2>1 DEF TypeOK
  <2>3. ReliesOnFacts(r)'
    BY <2>1 DEF ReliesOnFacts, Registering, Registered, Voiding, Undoing
  <2> QED
    BY <2>1, <2>2, <2>3, FactsFrame, StepOfOne DEF TypeOK
<1>5. CASE StatusAudit(r)
  <2> USE <1>5 DEF StatusAudit, match, actions, notifications
  <2>1. /\ \A q \in Requests \ {r} : pc'[q] = pc[q] /\ loc'[q] = loc[q]
        /\ pc'[r] = "idle"
        /\ pc' \in [Requests -> Labels] /\ loc' \in [Requests -> Locals]
    BY RequestMoves DEF Labels, Done, TypeOK
  <2>2. TypeOK'
    BY <2>1, BoundAssumption DEF TypeOK, AuditKinds
  <2>3. \A a \in ActionIds : \A k : <<a, k>> \in audit' => <<a, k>> \in audit
    BY DEF ActionIds
  <2>4. Facts'
    BY <2>3 DEF Facts, OneActionPerCapture, NoActionBeforeKickoff, AuditIsTrue,
                OnlyLiveActionsNotified, IdsInOrder, Exists
  <2> QED
    BY <2>1, <2>2, <2>4, IdleRelies, StepOfOne DEF TypeOK
<1> QED
  BY <1>1, <1>2, <1>3, <1>4, <1>5 DEF StatusStep

\* A step that only moves a request on keeps the invariant.
LEMMA MoveKeeps ==
  ASSUME IInv, NEW r \in Requests, HistoryStep,
         UNCHANGED <<match, attendance, actions, notifications, audit, failed>>,
         pc' \in [Requests -> Labels], loc' \in [Requests -> Locals],
         \A q \in Requests \ {r} : pc'[q] = pc[q] /\ loc'[q] = loc[q],
         ReliesOnFacts(r)'
  PROVE  IInv'
<1>1. TypeOK' /\ nextId <= nextId'
  BY DEF IInv, TypeOK, match, actions, notifications
<1>2. Facts'
  BY FactsFrame DEF IInv, match, actions, notifications
<1> QED
  BY <1>1, <1>2, StepOfOne DEF match

\* updateMatch keeps the invariant: no action or notification is touched.
LEMMA UpdateKeeps ==
  ASSUME IInv, NEW r \in Requests, UpdateStep(r), HistoryStep
  PROVE  IInv'
<1>0. TypeOK /\ Facts
  BY DEF IInv
<1> USE DEF updateMatch, UpdateFindAttendance, UpdateWrite, UpdateAudit, Serve, Goto, Done, At
<1>1. pc' \in [Requests -> Labels] /\ \A q \in Requests \ {r} : pc'[q] = pc[q] /\ loc'[q] = loc[q]
  BY <1>0 DEF UpdateStep, TypeOK, Labels
<1>2. pc'[r] \in {"idle", "update.attendance", "update.write", "update.audit"}
  BY <1>0 DEF UpdateStep, TypeOK
<1>3. ReliesOnFacts(r)'
  <2>1. pc'[r] \in {"update.attendance", "update.write"} => loc'[r].category \in Categories
    <3>1. CASE updateMatch(r)
      BY <1>0, <3>1 DEF TypeOK, NoLocals
    <3>2. CASE UpdateFindAttendance(r)
      BY <1>0, <3>2 DEF IInv, ReliesOnFacts, TypeOK
    <3>3. CASE UpdateWrite(r) \/ UpdateAudit(r)
      BY <1>0, <3>3 DEF TypeOK
    <3> QED
      BY <3>1, <3>2, <3>3 DEF UpdateStep
  <2> QED
    BY <1>2, <2>1 DEF ReliesOnFacts, Registering, Registered, Voiding, Undoing
<1>4. UNCHANGED <<status, windowOpen, attendance, actions, notifications, failed>>
  BY DEF UpdateStep, match
<1>5. loc' \in [Requests -> Locals] /\ category' \in Categories
  <2>1. CASE updateMatch(r)
    <3>1. PICK u \in Users, c \in Categories :
            loc' = [loc EXCEPT ![r] = [NoLocals EXCEPT !.user = u, !.category = c]]
      BY <2>1
    <3>2. [NoLocals EXCEPT !.user = u, !.category = c] \in Locals
      BY EmptyLocals DEF Locals
    <3> QED
      BY <1>0, <2>1, <3>1, <3>2 DEF TypeOK, match
  <2>2. CASE UpdateWrite(r)
    BY <1>0, <2>2 DEF TypeOK, Locals, ReliesOnFacts, IInv
  <2>3. CASE UpdateFindAttendance(r) \/ UpdateAudit(r)
    BY <1>0, <2>3, EmptyLocals DEF TypeOK, match
  <2> QED
    BY <2>1, <2>2, <2>3 DEF UpdateStep
<1>6. UNCHANGED audit \/ audit' = audit \cup {<<0, "match_update">>}
  BY DEF UpdateStep
<1>7. audit' \subseteq (0..MaxActionId) \X AuditKinds
  BY <1>0, <1>6, BoundAssumption DEF TypeOK, AuditKinds
<1>8. TypeOK' /\ nextId <= nextId' /\ UNCHANGED status
  BY <1>0, <1>1, <1>4, <1>5, <1>7 DEF TypeOK, actions, notifications
<1>9. \A a \in ActionIds : \A k : <<a, k>> \in audit' => <<a, k>> \in audit
  BY <1>6 DEF ActionIds
<1>10. AuditIsTrue'
  BY <1>0, <1>4, <1>9 DEF Facts, AuditIsTrue, actions
<1>11. Facts'
  BY <1>0, <1>4, <1>10, FactsButAudit DEF actions, notifications
<1> QED
  BY <1>1, <1>3, <1>8, <1>11, StepOfOne

\* registerAction keeps the invariant.
LEMMA RegisterKeeps ==
  ASSUME IInv, NEW r \in Requests, RegisterStep(r), HistoryStep
  PROVE  IInv'
<1>0. TypeOK /\ Facts /\ ReliesOnFacts(r)
  BY DEF IInv
<1>1. CASE registerAction(r)
  <2>1. PICK u \in Users, c \in Captures, mode \in {"live", "correction"} :
          /\ MayWrite(u, mode)
          /\ pc' = [pc EXCEPT ![r] = "register.existing"]
          /\ loc' = [loc EXCEPT ![r] = [NoLocals EXCEPT !.user = u, !.capture = c, !.mode = mode]]
    BY <1>1 DEF registerAction, Serve
  <2>2. [NoLocals EXCEPT !.user = u, !.capture = c, !.mode = mode] \in Locals
    BY EmptyLocals DEF Locals
  <2>3. status # "scheduled" /\ UNCHANGED status
    BY <2>1, <1>1 DEF MayWrite, registerAction, match
  <2>4. ReliesOnFacts(r)'
    BY <2>1, <2>3, <1>0 DEF ReliesOnFacts, At, NoLocals, Registering, Registered, Voiding,
                            Undoing, TypeOK
  <2> QED
    BY <1>0, <1>1, <2>1, <2>2, <2>4, MoveKeeps DEF registerAction, TypeOK, Labels
<1>2. CASE RegisterFindExisting(r) \/ RegisterReread(r)
  <2>1. PICK label \in {"register.attendance", "register.audit"} :
          /\ Goto(r, label) \/ Done(r)
          /\ label = "register.audit" => At(r, "register.reread")
          /\ At(r, "register.existing") \/ At(r, "register.reread")
    BY <1>2 DEF RegisterFindExisting, RegisterReread
  <2>2. UNCHANGED <<match, attendance, actions, notifications, audit, failed>>
    BY <1>2 DEF RegisterFindExisting, RegisterReread
  <2>3. /\ pc' \in [Requests -> Labels] /\ loc' \in [Requests -> Locals]
        /\ \A q \in Requests \ {r} : pc'[q] = pc[q] /\ loc'[q] = loc[q]
        /\ \/ pc'[r] = label /\ loc'[r] = loc[r]
           \/ pc'[r] = "idle"
    BY <1>0, <2>1, RequestMoves DEF Labels
  <2>4. ReliesOnFacts(r)'
    BY <1>0, <2>1, <2>2, <2>3 DEF ReliesOnFacts, At, Registering, Registered, Voiding, Undoing,
                                  match, actions
  <2> QED
    BY <2>2, <2>3, <2>4, MoveKeeps
<1>3. CASE RegisterReadAttendance(r)
  <2> DEFINE number == attendance[PlayerOf[loc[r].capture]]
  <2>1. UNCHANGED <<match, attendance, actions, notifications, audit, failed>>
    BY <1>3 DEF RegisterReadAttendance
  <2>2. CASE Done(r)
    <3>1. /\ pc' \in [Requests -> Labels] /\ loc' \in [Requests -> Locals]
          /\ \A q \in Requests \ {r} : pc'[q] = pc[q] /\ loc'[q] = loc[q]
          /\ pc'[r] = "idle"
      BY <1>0, <2>2, RequestMoves DEF Labels
    <3> QED
      BY <2>1, <3>1, IdleRelies, MoveKeeps
  <2>3. CASE ~Done(r)
    <3>1. /\ number \in Jerseys
          /\ pc' = [pc EXCEPT ![r] = "register.insert"]
          /\ loc' = [loc EXCEPT ![r].jersey = number]
          /\ At(r, "register.attendance")
      BY <1>3, <2>3 DEF RegisterReadAttendance
    <3>2. pc' \in [Requests -> Labels] /\ loc' \in [Requests -> Locals]
      <4>1. loc[r] \in Locals
        BY <1>0 DEF TypeOK
      <4>2. [loc[r] EXCEPT !.jersey = number] \in Locals
        BY <3>1, <4>1 DEF Locals
      <4>3. "register.insert" \in Labels
        BY DEF Labels
      <4> QED
        BY <1>0, <3>1, <4>2, <4>3 DEF TypeOK
    <3>3. ReliesOnFacts(r)'
      BY <1>0, <3>1, <2>1 DEF ReliesOnFacts, At, Registering, Registered, Voiding, Undoing,
                              match, TypeOK, Locals
    <3> QED
      BY <1>0, <2>1, <3>1, <3>2, <3>3, MoveKeeps DEF TypeOK
  <2> QED
    BY <2>2, <2>3
<1>4. CASE RegisterInsert(r)
  <2>1. CASE UNCHANGED actions
    <3>1. Done(r) /\ UNCHANGED <<match, attendance, notifications, audit, failed>>
      BY <1>0, <1>4, <2>1 DEF RegisterInsert, actions, TypeOK
    <3>2. /\ pc' \in [Requests -> Labels] /\ loc' \in [Requests -> Locals]
          /\ \A q \in Requests \ {r} : pc'[q] = pc[q] /\ loc'[q] = loc[q]
          /\ pc'[r] = "idle"
      BY <1>0, <3>1, RequestMoves DEF Labels
    <3> QED
      BY <2>1, <3>1, <3>2, IdleRelies, MoveKeeps
  <2>2. CASE ~UNCHANGED actions
    <3> DEFINE row == [status |-> "active", capture |-> loc[r].capture, jersey |-> loc[r].jersey,
                       createdBy |-> loc[r].user, post |-> loc[r].mode = "correction"]
    <3>1. /\ ~HasCapture(loc[r].capture)
          /\ nextId \in ActionIds
          /\ action' = [action EXCEPT ![nextId] = row]
          /\ nextId' = nextId + 1
          /\ fresh' = fresh \cup {nextId}
          /\ pc' = [pc EXCEPT ![r] = "register.reread"]
          /\ loc' = [loc EXCEPT ![r].id = nextId]
          /\ At(r, "register.insert")
          /\ UNCHANGED <<match, attendance, notifications, audit, failed>>
      BY <1>4, <2>2 DEF RegisterInsert
    <3>2. row \in ActionRows
      BY <1>0 DEF TypeOK, Locals, ActionRows
    <3>3. TypeOK'
      <4>1. action' \in [ActionIds -> ActionRows]
        BY <1>0, <3>1, <3>2 DEF TypeOK
      <4>2. nextId' \in 1..(MaxActionId + 1) /\ nextId <= nextId' /\ nextId \in 0..MaxActionId
        BY <1>0, <3>1, BoundAssumption DEF TypeOK, ActionIds
      <4>3. pc' \in [Requests -> Labels] /\ loc' \in [Requests -> Locals]
        <5>1. loc[r] \in Locals
          BY <1>0 DEF TypeOK
        <5>2. [loc[r] EXCEPT !.id = nextId] \in Locals
          BY <4>2, <5>1 DEF Locals
        <5>3. "register.reread" \in Labels
          BY DEF Labels
        <5> QED
          BY <1>0, <3>1, <5>2, <5>3 DEF TypeOK
      <4> QED
        BY <1>0, <3>1, <4>1, <4>2, <4>3 DEF TypeOK, match, notifications
    <3>4. /\ \A a \in ActionIds : a # nextId => action'[a] = action[a]
          /\ action'[nextId] = row
          /\ loc[r].capture \in Captures /\ status # "scheduled"
          /\ loc[r].mode \in {"live", "correction"}
          /\ loc'[r].id = nextId /\ loc'[r].capture = loc[r].capture /\ loc'[r].mode = loc[r].mode
      BY <1>0, <3>1 DEF TypeOK, ReliesOnFacts, At, Registering, Locals
    <3>5. Facts'
      <4>1. OneActionPerCapture'
        BY <1>0, <3>1, <3>4 DEF Facts, OneActionPerCapture, Exists, HasCapture
      <4>2. NoActionBeforeKickoff'
        BY <3>1, <3>4 DEF NoActionBeforeKickoff, match
      <4>3. AuditIsTrue' /\ OnlyLiveActionsNotified'
        BY <1>0, <3>1, <3>3, HistoryKeepsTrail DEF Facts, notifications
      <4>4. IdsInOrder'
        BY <1>0, <3>1, <3>4 DEF Facts, IdsInOrder, TypeOK, ActionIds
      <4> QED
        BY <4>1, <4>2, <4>3, <4>4 DEF Facts
    <3>6. ReliesOnFacts(r)'
      <4>1. pc'[r] = "register.reread" /\ UNCHANGED status /\ nextId \in Nat
        BY <1>0, <3>1 DEF TypeOK, match
      <4>2. action'[nextId].capture = loc[r].capture
            /\ action'[nextId].post = (loc[r].mode = "correction")
        BY <3>4
      <4> QED
        BY <3>1, <3>4, <4>1, <4>2 DEF ReliesOnFacts, At, Registering, Registered, Voiding, Undoing
    <3>7. /\ \A q \in Requests \ {r} : pc'[q] = pc[q] /\ loc'[q] = loc[q]
          /\ nextId <= nextId' /\ UNCHANGED status
      BY <1>0, <3>1 DEF TypeOK, match
    <3> QED
      BY <3>3, <3>5, <3>6, <3>7, StepOfOne
  <2> QED
    BY <2>1, <2>2
<1>5. CASE RegisterAudit(r)
  <2> DEFINE kind == IF loc[r].mode = "correction" THEN "post_match_correction_create" ELSE "create"
             a == loc[r].id
  <2>1. /\ audit' = audit \cup {<<a, kind>>}
        /\ At(r, "register.audit")
        /\ UNCHANGED <<match, attendance, actions, notifications, failed>>
    BY <1>5 DEF RegisterAudit
  <2>2. /\ a \in ActionIds /\ a < nextId
        /\ action[a].capture = loc[r].capture
        /\ action[a].post = (loc[r].mode = "correction")
        /\ action[a].status # "none"
        /\ status # "scheduled" /\ loc[r].capture \in Captures
    BY <1>0, <2>1 DEF ReliesOnFacts, At, Registered, Registering, Facts, IdsInOrder
  <2>3. /\ pc' \in [Requests -> Labels] /\ loc' \in [Requests -> Locals]
        /\ \A q \in Requests \ {r} : pc'[q] = pc[q] /\ loc'[q] = loc[q]
        /\ \/ pc'[r] = "idle"
           \/ /\ pc'[r] = "register.notify"
              /\ loc'[r].id = a /\ loc'[r].capture = loc[r].capture /\ loc'[r].mode = loc[r].mode
              /\ loc[r].mode = "live" /\ loc[r].capture \in Notifiable
    <3>1. CASE Done(r)
      BY <1>0, <3>1, RequestMoves DEF Labels
    <3>2. CASE ~Done(r)
      <4>1. /\ loc[r].capture \in Notifiable /\ loc[r].mode = "live"
            /\ pc' = [pc EXCEPT ![r] = "register.notify"]
            /\ loc' = [loc EXCEPT ![r].pending = Parents]
        BY <1>5, <3>2 DEF RegisterAudit
      <4>2. loc[r] \in Locals
        BY <1>0 DEF TypeOK
      <4>3. [loc[r] EXCEPT !.pending = Parents] \in Locals
        BY <4>2 DEF Locals
      <4>4. "register.notify" \in Labels
        BY DEF Labels
      <4>5. pc' \in [Requests -> Labels] /\ loc' \in [Requests -> Locals]
        BY <1>0, <4>1, <4>3, <4>4 DEF TypeOK
      <4>6. /\ loc'[r].id = a /\ loc'[r].capture = loc[r].capture /\ loc'[r].mode = loc[r].mode
            /\ \A q \in Requests \ {r} : pc'[q] = pc[q] /\ loc'[q] = loc[q]
            /\ pc'[r] = "register.notify"
        BY <1>0, <4>1, <4>2 DEF TypeOK, Locals
      <4> QED
        BY <4>1, <4>5, <4>6
    <3> QED
      BY <3>1, <3>2
  <2>4. TypeOK'
    <3>1. <<a, kind>> \in (0..MaxActionId) \X AuditKinds
      BY <1>0 DEF TypeOK, Locals, AuditKinds
    <3> QED
      BY <1>0, <2>1, <2>3, <3>1 DEF TypeOK, match, actions, notifications
  <2>5. AuditIsTrue'
    <3>1. CASE kind = "create"
      BY <1>0, <2>1, <2>2, <3>1 DEF Facts, AuditIsTrue, actions
    <3>2. CASE kind = "post_match_correction_create"
      BY <1>0, <2>1, <2>2, <3>2 DEF Facts, AuditIsTrue, actions
    <3> QED
      BY <3>1, <3>2
  <2>6. Facts'
    BY <1>0, <2>1, <2>5, FactsButAudit DEF match, actions, notifications
  <2>7. ReliesOnFacts(r)'
    BY <2>1, <2>2, <2>3 DEF ReliesOnFacts, At, Registering, Registered, Voiding, Undoing,
                            match, actions
  <2>8. nextId <= nextId' /\ UNCHANGED status
    BY <1>0, <2>1 DEF TypeOK, match, actions
  <2> QED
    BY <2>3, <2>4, <2>6, <2>7, <2>8, StepOfOne
<1>6. CASE RegisterNotify(r)
  <2>1. At(r, "register.notify") /\ UNCHANGED <<match, attendance, actions, voidedNotif, audit, failed>>
    BY <1>6 DEF RegisterNotify
  <2>2. /\ loc[r].id \in ActionIds /\ loc[r].capture \in Notifiable
        /\ action[loc[r].id].status # "none" /\ action[loc[r].id].capture \in Notifiable
        /\ ~action[loc[r].id].post
    BY <1>0, <2>1 DEF ReliesOnFacts, At, Registered, Registering, Facts, IdsInOrder
  <2>3. /\ pc' \in [Requests -> Labels] /\ loc' \in [Requests -> Locals]
        /\ \A q \in Requests \ {r} : pc'[q] = pc[q] /\ loc'[q] = loc[q]
        /\ \/ pc'[r] = "idle"
           \/ /\ pc'[r] = pc[r]
              /\ loc'[r].id = loc[r].id /\ loc'[r].capture = loc[r].capture
              /\ loc'[r].mode = loc[r].mode
    <3>1. CASE Done(r)
      BY <1>0, <3>1, RequestMoves DEF Labels
    <3>2. CASE ~Done(r)
      <4>1. PICK f \in loc[r].pending :
              loc' = [loc EXCEPT ![r].pending = @ \ {f}] /\ UNCHANGED pc
        BY <1>6, <3>2 DEF RegisterNotify
      <4>2. [loc[r] EXCEPT !.pending = @ \ {f}] \in Locals
        <5>1. ASSUME NEW l \in Locals PROVE [l EXCEPT !.pending = @ \ {f}] \in Locals
          BY DEF Locals
        <5> QED
          BY <1>0, <5>1 DEF TypeOK
      <4>3. loc' = [loc EXCEPT ![r] = [loc[r] EXCEPT !.pending = @ \ {f}]]
        BY <4>1
      <4>4. loc' \in [Requests -> Locals] /\ loc'[r] = [loc[r] EXCEPT !.pending = @ \ {f}]
        BY <1>0, <4>2, <4>3 DEF TypeOK
      <4> QED
        BY <1>0, <4>1, <4>3, <4>4 DEF TypeOK, Locals
    <3> QED
      BY <3>1, <3>2
  <2>4. \/ UNCHANGED notified
        \/ \E f \in Parents : notified' = notified \cup {<<loc[r].id, f>>}
    <3>1. loc[r].pending \subseteq Parents
      BY <1>0 DEF TypeOK, Locals
    <3> QED
      BY <1>6, <3>1 DEF RegisterNotify
  <2>5. TypeOK'
    BY <1>0, <2>1, <2>2, <2>3, <2>4 DEF TypeOK, match, actions
  <2>6. OnlyLiveActionsNotified'
    BY <1>0, <2>1, <2>2, <2>4 DEF Facts, OnlyLiveActionsNotified, actions
  <2>7. Facts'
    BY <1>0, <2>1, <2>6 DEF Facts, OneActionPerCapture, NoActionBeforeKickoff, AuditIsTrue,
                            IdsInOrder, Exists, match, actions
  <2>8. ReliesOnFacts(r)'
    BY <1>0, <2>1, <2>3 DEF ReliesOnFacts, At, Registering, Registered, Voiding, Undoing,
                            match, actions
  <2>9. nextId <= nextId' /\ UNCHANGED status
    BY <1>0, <2>1 DEF TypeOK, match, actions
  <2> QED
    BY <2>3, <2>5, <2>7, <2>8, <2>9, StepOfOne
<1> QED
  BY <1>1, <1>2, <1>3, <1>4, <1>5, <1>6 DEF RegisterStep

\* A row that changes its status alone is still a row.
LEMMA StatusOfRow ==
  ASSUME action \in [ActionIds -> ActionRows], NEW a \in ActionIds, NEW st \in {"voided", "deleted"}
  PROVE  [action EXCEPT ![a].status = st] \in [ActionIds -> ActionRows]
<1>1. [action[a] EXCEPT !.status = st] \in ActionRows
  BY DEF ActionRows
<1>2. [action EXCEPT ![a].status = st] = [action EXCEPT ![a] = [action[a] EXCEPT !.status = st]]
  OBVIOUS
<1> QED
  BY <1>1, <1>2

\* immediateUndo keeps the invariant.
LEMMA UndoKeeps ==
  ASSUME IInv, NEW r \in Requests, UndoStep(r), HistoryStep
  PROVE  IInv'
<1>0. TypeOK /\ Facts /\ ReliesOnFacts(r)
  BY DEF IInv
<1>1. CASE immediateUndo(r)
  <2>1. PICK u \in Users, a \in ActionIds :
          /\ a < nextId
          /\ pc' = [pc EXCEPT ![r] = "undo.find"]
          /\ loc' = [loc EXCEPT ![r] = [NoLocals EXCEPT !.user = u, !.id = a, !.mode = "live"]]
    BY <1>1 DEF immediateUndo, Serve
  <2>2. [NoLocals EXCEPT !.user = u, !.id = a, !.mode = "live"] \in Locals
    <3>1. a \in 0..MaxActionId
      BY BoundAssumption DEF ActionIds
    <3> QED
      BY <3>1, EmptyLocals DEF Locals
  <2>3. UNCHANGED <<match, attendance, actions, notifications, audit, failed>>
    BY <1>1 DEF immediateUndo
  <2>4. ReliesOnFacts(r)'
    BY <1>0, <2>1, <2>3 DEF ReliesOnFacts, At, NoLocals, Registering, Registered, Voiding,
                            Undoing, TypeOK, actions
  <2> QED
    BY <1>0, <2>1, <2>2, <2>3, <2>4, MoveKeeps DEF TypeOK, Labels
<1>2. CASE UndoFind(r)
  <2>1. /\ Goto(r, "undo.delete") \/ Done(r)
        /\ At(r, "undo.find")
        /\ UNCHANGED <<match, attendance, actions, notifications, audit, failed>>
    BY <1>2 DEF UndoFind
  <2>2. /\ pc' \in [Requests -> Labels] /\ loc' \in [Requests -> Locals]
        /\ \A q \in Requests \ {r} : pc'[q] = pc[q] /\ loc'[q] = loc[q]
        /\ \/ pc'[r] = "undo.delete" /\ loc'[r] = loc[r]
           \/ pc'[r] = "idle"
    BY <1>0, <2>1, RequestMoves DEF Labels
  <2>3. ReliesOnFacts(r)'
    BY <1>0, <2>1, <2>2 DEF ReliesOnFacts, At, Registering, Registered, Voiding, Undoing, actions
  <2> QED
    BY <2>1, <2>2, <2>3, MoveKeeps
<1>3. CASE UndoDelete(r)
  <2> DEFINE a == loc[r].id
  <2>1. /\ At(r, "undo.delete")
        /\ UNCHANGED <<match, attendance, nextId, fresh, notifications, audit, failed>>
        /\ a \in ActionIds /\ a < nextId
    BY <1>0, <1>3 DEF UndoDelete, ReliesOnFacts, At, Undoing
  <2>2. CASE Exists(a)
    <3>1. action' = [action EXCEPT ![a].status = "deleted"] /\ Goto(r, "undo.notify")
      BY <1>3, <2>2 DEF UndoDelete
    <3>2. /\ pc' \in [Requests -> Labels] /\ loc' \in [Requests -> Locals]
          /\ \A q \in Requests \ {r} : pc'[q] = pc[q] /\ loc'[q] = loc[q]
          /\ pc'[r] = "undo.notify" /\ loc'[r] = loc[r]
      BY <1>0, <3>1, RequestMoves DEF Labels, Goto, TypeOK
    <3>3. action' \in [ActionIds -> ActionRows]
      BY <1>0, <2>1, <3>1, StatusOfRow DEF TypeOK
    <3>4. /\ \A b \in ActionIds : b # a => action'[b] = action[b]
          /\ action'[a].status = "deleted" /\ action'[a].capture = action[a].capture
          /\ action[a].status # "none"
      BY <1>0, <2>1, <2>2, <3>1 DEF TypeOK, ActionRows, Exists
    <3>5. TypeOK'
      BY <1>0, <2>1, <3>2, <3>3 DEF TypeOK, match, notifications
    <3>6. Facts'
      <4>1. OneActionPerCapture'
        BY <1>0, <3>4 DEF Facts, OneActionPerCapture, Exists
      <4>2. NoActionBeforeKickoff'
        BY <1>0, <2>1, <3>4 DEF Facts, NoActionBeforeKickoff, match
      <4>3. AuditIsTrue' /\ OnlyLiveActionsNotified'
        BY <1>0, <2>1, <3>5, HistoryKeepsTrail DEF Facts, notifications
      <4>4. IdsInOrder'
        BY <1>0, <2>1, <3>4 DEF Facts, IdsInOrder
      <4> QED
        BY <4>1, <4>2, <4>3, <4>4 DEF Facts
    <3>7. ReliesOnFacts(r)'
      BY <2>1, <3>2, <3>4 DEF ReliesOnFacts, At, Registering, Registered, Voiding, Undoing
    <3>8. nextId <= nextId' /\ UNCHANGED status
      BY <1>0, <2>1 DEF TypeOK, match
    <3> QED
      BY <3>2, <3>5, <3>6, <3>7, <3>8, StepOfOne
  <2>3. CASE ~Exists(a)
    <3>1. Done(r) /\ UNCHANGED action
      BY <1>3, <2>3 DEF UndoDelete
    <3>2. /\ pc' \in [Requests -> Labels] /\ loc' \in [Requests -> Locals]
          /\ \A q \in Requests \ {r} : pc'[q] = pc[q] /\ loc'[q] = loc[q]
          /\ pc'[r] = "idle"
      BY <1>0, <3>1, RequestMoves DEF Labels
    <3> QED
      BY <2>1, <3>1, <3>2, IdleRelies, MoveKeeps DEF actions
  <2> QED
    BY <2>2, <2>3
<1>4. CASE UndoVoidNotifications(r)
  <2>1. /\ At(r, "undo.notify") /\ Goto(r, "undo.audit") /\ VoidNotificationsOf(loc[r].id)
        /\ UNCHANGED <<match, attendance, actions, notified, audit, failed>>
    BY <1>4 DEF UndoVoidNotifications
  <2>2. /\ pc' \in [Requests -> Labels] /\ loc' \in [Requests -> Locals]
        /\ \A q \in Requests \ {r} : pc'[q] = pc[q] /\ loc'[q] = loc[q]
        /\ pc'[r] = "undo.audit" /\ loc'[r] = loc[r]
    BY <1>0, <2>1, RequestMoves DEF Labels, Goto, TypeOK
  <2>3. TypeOK' /\ nextId <= nextId' /\ UNCHANGED status
    BY <1>0, <2>1, <2>2 DEF TypeOK, VoidNotificationsOf, match, actions
  <2>4. Facts'
    BY <1>0, <2>1, FactsFrame DEF match, actions
  <2>5. ReliesOnFacts(r)'
    BY <1>0, <2>1, <2>2 DEF ReliesOnFacts, At, Registering, Registered, Voiding, Undoing, actions
  <2> QED
    BY <2>2, <2>3, <2>4, <2>5, StepOfOne
<1>5. CASE UndoAudit(r)
  <2> DEFINE a == loc[r].id
  <2>1. /\ At(r, "undo.audit") /\ Done(r)
        /\ audit' = audit \cup {<<a, "immediate_undo">>}
        /\ UNCHANGED <<match, attendance, actions, notifications, failed>>
    BY <1>5 DEF UndoAudit
  <2>2. a \in ActionIds /\ action[a].status = "deleted"
    BY <1>0, <2>1 DEF ReliesOnFacts, At, Undoing
  <2>3. /\ pc' \in [Requests -> Labels] /\ loc' \in [Requests -> Locals]
        /\ \A q \in Requests \ {r} : pc'[q] = pc[q] /\ loc'[q] = loc[q]
        /\ pc'[r] = "idle"
    BY <1>0, <2>1, RequestMoves DEF Labels
  <2>4. TypeOK' /\ nextId <= nextId' /\ UNCHANGED status
    <3>1. <<a, "immediate_undo">> \in (0..MaxActionId) \X AuditKinds
      BY <1>0 DEF TypeOK, Locals, AuditKinds
    <3> QED
      BY <1>0, <2>1, <2>3, <3>1 DEF TypeOK, match, actions, notifications
  <2>5. AuditIsTrue'
    BY <1>0, <2>1, <2>2 DEF Facts, AuditIsTrue, actions
  <2>6. Facts'
    BY <1>0, <2>1, <2>5, FactsButAudit DEF match, actions, notifications
  <2> QED
    BY <2>3, <2>4, <2>6, IdleRelies, StepOfOne
<1> QED
  BY <1>1, <1>2, <1>3, <1>4, <1>5 DEF UndoStep

\* voidAction keeps the invariant.
LEMMA VoidKeeps ==
  ASSUME IInv, NEW r \in Requests, VoidStep(r), HistoryStep
  PROVE  IInv'
<1>0. TypeOK /\ Facts /\ ReliesOnFacts(r)
  BY DEF IInv
<1>1. CASE voidAction(r)
  <2>1. PICK u \in Users, a \in ActionIds, mode \in {"live", "correction"} :
          /\ a < nextId
          /\ pc' = [pc EXCEPT ![r] = "void.find"]
          /\ loc' = [loc EXCEPT ![r] = [NoLocals EXCEPT !.user = u, !.id = a, !.mode = mode]]
    BY <1>1 DEF voidAction, Serve
  <2>2. [NoLocals EXCEPT !.user = u, !.id = a, !.mode = mode] \in Locals
    <3>1. a \in 0..MaxActionId
      BY BoundAssumption DEF ActionIds
    <3> QED
      BY <3>1, EmptyLocals DEF Locals
  <2>3. UNCHANGED <<match, attendance, actions, notifications, audit, failed>>
    BY <1>1 DEF voidAction
  <2>4. ReliesOnFacts(r)'
    BY <1>0, <2>1, <2>3 DEF ReliesOnFacts, At, NoLocals, Registering, Registered, Voiding,
                            Undoing, TypeOK, actions
  <2> QED
    BY <1>0, <2>1, <2>2, <2>3, <2>4, MoveKeeps DEF TypeOK, Labels
<1>2. CASE VoidFind(r) \/ VoidReread(r)
  <2>1. PICK label \in {"void.update", "void.notify"} :
          /\ Goto(r, label) \/ Done(r)
          /\ label = "void.notify" => At(r, "void.reread")
          /\ At(r, "void.find") \/ At(r, "void.reread")
    BY <1>2 DEF VoidFind, VoidReread
  <2>2. UNCHANGED <<match, attendance, actions, notifications, audit, failed>>
    BY <1>2 DEF VoidFind, VoidReread
  <2>3. /\ pc' \in [Requests -> Labels] /\ loc' \in [Requests -> Locals]
        /\ \A q \in Requests \ {r} : pc'[q] = pc[q] /\ loc'[q] = loc[q]
        /\ \/ pc'[r] = label /\ loc'[r] = loc[r]
           \/ pc'[r] = "idle"
    BY <1>0, <2>1, RequestMoves DEF Labels
  <2>4. ReliesOnFacts(r)'
    BY <1>0, <2>1, <2>2, <2>3 DEF ReliesOnFacts, At, Registering, Registered, Voiding, Undoing, actions
  <2> QED
    BY <2>2, <2>3, <2>4, MoveKeeps
<1>3. CASE VoidUpdate(r)
  <2> DEFINE a == loc[r].id
  <2>1. /\ At(r, "void.update")
        /\ UNCHANGED <<match, attendance, nextId, fresh, notifications, audit, failed>>
        /\ a \in ActionIds /\ a < nextId
    BY <1>0, <1>3 DEF VoidUpdate, ReliesOnFacts, At, Voiding
  <2>2. CASE Active(a)
    <3>1. action' = [action EXCEPT ![a].status = "voided"] /\ Goto(r, "void.audit")
      BY <1>3, <2>2 DEF VoidUpdate
    <3>2. /\ pc' \in [Requests -> Labels] /\ loc' \in [Requests -> Locals]
          /\ \A q \in Requests \ {r} : pc'[q] = pc[q] /\ loc'[q] = loc[q]
          /\ pc'[r] = "void.audit" /\ loc'[r] = loc[r]
      BY <1>0, <3>1, RequestMoves DEF Labels, Goto, TypeOK
    <3>3. action' \in [ActionIds -> ActionRows]
      BY <1>0, <2>1, <3>1, StatusOfRow DEF TypeOK
    <3>4. /\ \A b \in ActionIds : b # a => action'[b] = action[b]
          /\ action'[a].status = "voided" /\ action'[a].capture = action[a].capture
          /\ action[a].status = "active"
      BY <1>0, <2>1, <2>2, <3>1 DEF TypeOK, ActionRows, Active
    <3>5. TypeOK'
      BY <1>0, <2>1, <3>2, <3>3 DEF TypeOK, match, notifications
    <3>6. Facts'
      <4>1. OneActionPerCapture'
        BY <1>0, <2>1, <3>4 DEF Facts, OneActionPerCapture, Exists
      <4>2. NoActionBeforeKickoff'
        BY <1>0, <2>1, <3>4 DEF Facts, NoActionBeforeKickoff, match
      <4>3. AuditIsTrue' /\ OnlyLiveActionsNotified'
        BY <1>0, <2>1, <3>5, HistoryKeepsTrail DEF Facts, notifications
      <4>4. IdsInOrder'
        BY <1>0, <2>1, <3>4 DEF Facts, IdsInOrder
      <4> QED
        BY <4>1, <4>2, <4>3, <4>4 DEF Facts
    <3>7. ReliesOnFacts(r)'
      BY <2>1, <3>2, <3>4 DEF ReliesOnFacts, At, Registering, Registered, Voiding, Undoing
    <3>8. nextId <= nextId' /\ UNCHANGED status
      BY <1>0, <2>1 DEF TypeOK, match
    <3> QED
      BY <3>2, <3>5, <3>6, <3>7, <3>8, StepOfOne
  <2>3. CASE ~Active(a)
    <3>1. Done(r) /\ UNCHANGED action
      BY <1>3, <2>3 DEF VoidUpdate
    <3>2. /\ pc' \in [Requests -> Labels] /\ loc' \in [Requests -> Locals]
          /\ \A q \in Requests \ {r} : pc'[q] = pc[q] /\ loc'[q] = loc[q]
          /\ pc'[r] = "idle"
      BY <1>0, <3>1, RequestMoves DEF Labels
    <3> QED
      BY <2>1, <3>1, <3>2, IdleRelies, MoveKeeps DEF actions
  <2> QED
    BY <2>2, <2>3
<1>4. CASE VoidAudit(r)
  <2> DEFINE a == loc[r].id
             kind == IF loc[r].mode = "correction" THEN "post_match_correction_void" ELSE "void"
  <2>1. /\ At(r, "void.audit") /\ Goto(r, "void.reread")
        /\ audit' = audit \cup {<<a, kind>>}
        /\ UNCHANGED <<match, attendance, actions, notifications, failed>>
    BY <1>4 DEF VoidAudit
  <2>2. /\ a \in ActionIds /\ a < nextId
        /\ action[a].status \in {"voided", "deleted"}
    BY <1>0, <2>1 DEF ReliesOnFacts, At, Voiding
  <2>3. /\ pc' \in [Requests -> Labels] /\ loc' \in [Requests -> Locals]
        /\ \A q \in Requests \ {r} : pc'[q] = pc[q] /\ loc'[q] = loc[q]
        /\ pc'[r] = "void.reread" /\ loc'[r] = loc[r]
    BY <1>0, <2>1, RequestMoves DEF Labels, Goto, TypeOK
  <2>4. TypeOK' /\ nextId <= nextId' /\ UNCHANGED status
    <3>1. <<a, kind>> \in (0..MaxActionId) \X AuditKinds
      BY <1>0 DEF TypeOK, Locals, AuditKinds
    <3> QED
      BY <1>0, <2>1, <2>3, <3>1 DEF TypeOK, match, actions, notifications
  <2>5. AuditIsTrue'
    <3>1. CASE kind = "void"
      BY <1>0, <2>1, <2>2, <3>1 DEF Facts, AuditIsTrue, actions
    <3>2. CASE kind = "post_match_correction_void"
      BY <1>0, <2>1, <2>2, <3>2 DEF Facts, AuditIsTrue, actions
    <3> QED
      BY <3>1, <3>2
  <2>6. Facts'
    BY <1>0, <2>1, <2>5, FactsButAudit DEF match, actions, notifications
  <2>7. ReliesOnFacts(r)'
    BY <2>1, <2>2, <2>3 DEF ReliesOnFacts, At, Registering, Registered, Voiding, Undoing, actions
  <2> QED
    BY <2>3, <2>4, <2>6, <2>7, StepOfOne
<1>5. CASE VoidNotifications(r)
  <2>1. /\ Done(r) /\ VoidNotificationsOf(loc[r].id)
        /\ UNCHANGED <<match, attendance, actions, notified, audit, failed>>
    BY <1>5 DEF VoidNotifications
  <2>2. /\ pc' \in [Requests -> Labels] /\ loc' \in [Requests -> Locals]
        /\ \A q \in Requests \ {r} : pc'[q] = pc[q] /\ loc'[q] = loc[q]
        /\ pc'[r] = "idle"
    BY <1>0, <2>1, RequestMoves DEF Labels
  <2>3. TypeOK' /\ nextId <= nextId' /\ UNCHANGED status
    BY <1>0, <2>1, <2>2 DEF TypeOK, VoidNotificationsOf, match, actions
  <2>4. Facts'
    BY <1>0, <2>1, FactsFrame DEF match, actions
  <2> QED
    BY <2>2, <2>3, <2>4, IdleRelies, StepOfOne
<1> QED
  BY <1>1, <1>2, <1>3, <1>4, <1>5 DEF VoidStep

\* saveAttendance keeps the invariant.
LEMMA SaveKeeps ==
  ASSUME IInv, NEW r \in Requests, SaveStep(r), HistoryStep
  PROVE  IInv'
<1>0. TypeOK /\ Facts
  BY DEF IInv
<1>1. \/ pc'[r] = "idle"
      \/ pc'[r] \in {"save.match", "save.sheet", "save.actions", "save.upsert", "save.audit"}
  BY <1>0 DEF SaveStep, saveAttendance, SaveReadMatch, SaveReadSheet, SaveCheckActions,
              SaveUpsertRow, SaveAudit, Serve, Goto, Done, At, TypeOK
<1>2. ReliesOnFacts(r)'
  BY <1>1 DEF ReliesOnFacts, At, Registering, Registered, Voiding, Undoing
<1>3. \A q \in Requests \ {r} : pc'[q] = pc[q] /\ loc'[q] = loc[q]
  BY <1>0 DEF SaveStep, saveAttendance, SaveReadMatch, SaveReadSheet, SaveCheckActions,
              SaveUpsertRow, SaveAudit, Serve, Goto, Done, TypeOK
<1>4. UNCHANGED <<match, actions, notifications, failed>>
  BY DEF SaveStep, saveAttendance, SaveReadMatch, SaveReadSheet, SaveCheckActions,
         SaveUpsertRow, SaveAudit
<1>5. attendance' \in [Players -> Sheet] /\ loc' \in [Requests -> Locals]
  <2>0. loc[r] \in Locals
    BY <1>0 DEF TypeOK
  <2>1. CASE saveAttendance(r)
    <3>1. PICK u \in Coaches : loc' = [loc EXCEPT ![r] = [NoLocals EXCEPT !.user = u]]
      BY <2>1 DEF saveAttendance, Serve
    <3>2. [NoLocals EXCEPT !.user = u] \in Locals
      BY EmptyLocals DEF Locals, Users
    <3> QED
      BY <1>0, <2>1, <3>1, <3>2 DEF saveAttendance, TypeOK
  <2>2. CASE SaveReadSheet(r)
    <3> DEFINE c == loc[r].category
    <3>1. PICK entries \in Entries(c) :
            \/ Done(r)
            \/ loc' = [loc EXCEPT ![r].patch = Normalized(entries, SheetOf(c))]
      BY <2>2 DEF SaveReadSheet
    <3>2. entries \in [Players -> Jerseys \cup {NoJersey, Absent, Keep, Untouched}]
      BY DEF Entries
    <3>3. Normalized(entries, SheetOf(c)) \in [Players -> Jerseys \cup {NoJersey, Absent, Untouched}]
      BY <1>0, <3>2, PlayersAssumption DEF Normalized, SheetOf, Sheet, TypeOK
    <3>4. [loc[r] EXCEPT !.patch = Normalized(entries, SheetOf(c))] \in Locals
      BY <2>0, <3>3 DEF Locals
    <3> QED
      BY <1>0, <2>2, <3>1, <3>4, EmptyLocals DEF SaveReadSheet, Done, TypeOK
  <2>3. CASE SaveCheckActions(r)
    BY <1>0, <2>3, EmptyLocals DEF SaveCheckActions, Goto, Done, TypeOK
  <2>4. CASE SaveUpsertRow(r)
    <3>1. PICK p \in Players :
            /\ loc[r].patch[p] # Untouched
            /\ attendance' = [attendance EXCEPT ![p] = loc[r].patch[p]]
            /\ loc' = [loc EXCEPT ![r].patch = [@ EXCEPT ![p] = Untouched]]
      BY <2>4 DEF SaveUpsertRow
    <3>2. loc[r].patch \in [Players -> Jerseys \cup {NoJersey, Absent, Untouched}]
      BY <2>0 DEF Locals
    <3>3. [loc[r].patch EXCEPT ![p] = Untouched]
            \in [Players -> Jerseys \cup {NoJersey, Absent, Untouched}]
      BY <3>2
    <3>4. [loc[r] EXCEPT !.patch = [loc[r].patch EXCEPT ![p] = Untouched]] \in Locals
      BY <2>0, <3>3 DEF Locals
    <3>5. loc' = [loc EXCEPT ![r] = [loc[r] EXCEPT !.patch = [loc[r].patch EXCEPT ![p] = Untouched]]]
      BY <3>1
    <3> QED
      BY <1>0, <3>1, <3>2, <3>4, <3>5 DEF TypeOK, Sheet
  <2>5. CASE SaveAudit(r)
    BY <1>0, <2>5, EmptyLocals DEF SaveAudit, Done, TypeOK
  <2>6. CASE SaveReadMatch(r)
    <3>1. loc' = [loc EXCEPT ![r] = [loc[r] EXCEPT !.category = category]]
      BY <2>6 DEF SaveReadMatch
    <3>2. [loc[r] EXCEPT !.category = category] \in Locals
      BY <1>0, <2>0 DEF Locals, TypeOK
    <3> QED
      BY <1>0, <2>6, <3>1, <3>2 DEF SaveReadMatch, TypeOK
  <2> QED
    BY <2>1, <2>2, <2>3, <2>4, <2>5, <2>6 DEF SaveStep
<1>6. pc' \in [Requests -> Labels]
  BY <1>0 DEF SaveStep, saveAttendance, SaveReadMatch, SaveReadSheet, SaveCheckActions,
              SaveUpsertRow, SaveAudit, Serve, Goto, Done, TypeOK, Labels
<1>7. UNCHANGED audit \/ audit' = audit \cup {<<0, "attendance_update">>}
  BY DEF SaveStep, saveAttendance, SaveReadMatch, SaveReadSheet, SaveCheckActions,
         SaveUpsertRow, SaveAudit
<1>8. audit' \subseteq (0..MaxActionId) \X AuditKinds
  BY <1>0, <1>7, BoundAssumption DEF TypeOK, AuditKinds
<1>9. TypeOK' /\ nextId <= nextId' /\ UNCHANGED status
  BY <1>0, <1>4, <1>5, <1>6, <1>8 DEF TypeOK, match, actions, notifications
<1>10. \A a \in ActionIds : \A k : <<a, k>> \in audit' => <<a, k>> \in audit
  BY <1>7 DEF ActionIds
<1>11. AuditIsTrue'
  BY <1>0, <1>4, <1>10 DEF Facts, AuditIsTrue, actions
<1>12. Facts'
  BY <1>0, <1>4, <1>11, FactsButAudit DEF match, actions, notifications
<1> QED
  BY <1>2, <1>3, <1>9, <1>12, StepOfOne

\* A request that dies keeps the invariant: nothing relies on it finishing.
LEMMA FailKeeps ==
  ASSUME IInv, NEW r \in Requests, Fail(r), HistoryStep
  PROVE  IInv'
<1>0. TypeOK /\ Facts
  BY DEF IInv
<1>1. /\ pc' \in [Requests -> Labels] /\ loc' \in [Requests -> Locals]
      /\ \A q \in Requests \ {r} : pc'[q] = pc[q] /\ loc'[q] = loc[q]
      /\ pc'[r] = "idle"
  BY <1>0, RequestMoves DEF Fail, Labels
<1>2. TypeOK' /\ nextId <= nextId' /\ UNCHANGED status
  BY <1>0, <1>1, BoundAssumption DEF Fail, TypeOK, match, actions, notifications
<1>3. Facts'
  BY <1>0, FactsFrame DEF Fail, match, actions, notifications
<1> QED
  BY <1>1, <1>2, <1>3, IdleRelies, StepOfOne

\* A window that runs out keeps the invariant, and so does doing nothing.
LEMMA WindowsKeep ==
  ASSUME IInv, CorrectionWindowCloses \/ UndoWindowCloses \/ UNCHANGED vars
  PROVE  IInv'
<1>0. TypeOK /\ Facts /\ \A q \in Requests : ReliesOnFacts(q)
  BY DEF IInv
<1>1. /\ UNCHANGED <<status, attendance, action, nextId, notified, voidedNotif, audit, pc, loc, failed>>
      /\ category' = category /\ windowOpen' \in BOOLEAN /\ fresh' \subseteq fresh
  BY <1>0 DEF CorrectionWindowCloses, UndoWindowCloses, vars, match, actions, notifications, TypeOK
<1>2. TypeOK'
  BY <1>0, <1>1 DEF TypeOK
<1>3. Facts'
  BY <1>0, <1>1, FactsFrame
<1>4. \A q \in Requests : ReliesOnFacts(q)'
  BY <1>0, <1>1 DEF ReliesOnFacts, At
<1> QED
  BY <1>2, <1>3, <1>4 DEF IInv

-----------------------------------------------------------------------------
(* The theorems.                                                            *)

\* Every step of the backend keeps the invariant.
LEMMA NextInvariant == IInv /\ [Next]_vars => IInv'
<1> SUFFICES ASSUME IInv, [Next]_vars PROVE IInv'
  OBVIOUS
<1>1. HistoryStep
  BY HistoryMovesForward DEF IInv, Facts
<1>2. ASSUME NEW r \in Requests,
             StatusStep(r) \/ UpdateStep(r) \/ RegisterStep(r) \/ UndoStep(r) \/ VoidStep(r)
               \/ SaveStep(r) \/ Fail(r)
      PROVE  IInv'
  BY <1>1, <1>2, StatusKeeps, UpdateKeeps, RegisterKeeps, UndoKeeps, VoidKeeps, SaveKeeps, FailKeeps
<1>3. CASE CorrectionWindowCloses \/ UndoWindowCloses \/ UNCHANGED vars
  BY <1>3, WindowsKeep
<1> QED
  BY <1>2, <1>3 DEF Next

\* The inductive invariant holds throughout every behaviour.
THEOREM Invariance == Spec => []IInv
<1>1. Init => IInv
  BY InitInvariant
<1> QED
  BY <1>1, NextInvariant, PTL DEF Spec

\* Every variable keeps its type.
THEOREM TypeCorrect == Spec => []TypeOK
<1>1. IInv => TypeOK
  BY DEF IInv
<1> QED
  BY <1>1, Invariance, PTL

\* A capture sent any number of times, by any number of concurrent requests,
\* yields at most one action (registerAction and its unique key).
THEOREM CaptureIsIdempotent == Spec => []OneActionPerCapture
<1>1. IInv => OneActionPerCapture
  BY DEF IInv, Facts
<1> QED
  BY <1>1, Invariance, PTL

\* A match that has not kicked off has no actions (resolveAccessMode, RN-08).
THEOREM KickoffComesFirst == Spec => []NoActionBeforeKickoff
<1>1. IInv => NoActionBeforeKickoff
  BY DEF IInv, Facts
<1> QED
  BY <1>1, Invariance, PTL

\* The audit trail never claims what did not happen (RN-12).
THEOREM AuditNeverLies == Spec => []AuditIsTrue
<1>1. IInv => AuditIsTrue
  BY DEF IInv, Facts
<1> QED
  BY <1>1, Invariance, PTL

\* Only live captures of notifiable actions ever reach the parents.
THEOREM ParentsHearOfLiveActions == Spec => []OnlyLiveActionsNotified
<1>1. IInv => OnlyLiveActionsNotified
  BY DEF IInv, Facts
<1> QED
  BY <1>1, Invariance, PTL

\* What a request checked or wrote before an await still holds after it.
THEOREM RequestsStayJustified == Spec => []RequestsRelyOnFacts
<1>1. IInv => RequestsRelyOnFacts
  BY DEF IInv, Facts, RequestsRelyOnFacts
<1> QED
  BY <1>1, Invariance, PTL

\* The history of an action only moves forward (RN-13).
THEOREM HistoryIsKept == Spec => ActionHistoryMovesForward
<1>1. IInv /\ [Next]_vars => [HistoryStep]_action
  BY HistoryMovesForward DEF IInv, Facts
<1>2. [HistoryStep]_action => [\A a \in ActionIds :
       action[a].status # "none" =>
         /\ [action'[a] EXCEPT !.status = action[a].status] = action[a]
         /\ action'[a].status # "none"
         /\ action'[a].status = "active" => action[a].status = "active"
         /\ action[a].status = "deleted" => action'[a].status = "deleted"]_action
  BY DEF HistoryStep
<1> QED
  BY <1>1, <1>2, Invariance, PTL DEF Spec, ActionHistoryMovesForward

-----------------------------------------------------------------------------
(* The sheet, when requests are served one at a time.                       *)

OneAtATime == \A q, r \in Requests : q = r

Upserting == \E r \in Requests : At(r, "save.upsert")

\* What the one request in progress has found out about the match and its sheet.
Knows(r) ==
  /\ At(r, "update.attendance") => status = "scheduled"
  /\ At(r, "update.write") =>
       \/ loc[r].category = category
       \/ status = "scheduled" /\ \A p \in Players : attendance[p] = NoRow
  /\ At(r, "register.insert") => attendance[PlayerOf[loc[r].capture]] \in Jerseys
  /\ At(r, "save.sheet") => loc[r].category = category
  /\ pc[r] \in {"save.actions", "save.upsert"} =>
       /\ \A p \in Players : loc[r].patch[p] # Untouched => CategoryOf[p] = category
       /\ failed = 0 => ~JerseyCollision(Patched(attendance, loc[r].patch))
  /\ At(r, "save.upsert") =>
       \A a \in ActionIds : Active(a) => loc[r].patch[PlayerOf[action[a].capture]] # Absent

SheetInv ==
  /\ PlayersAreOfTheCategory
  /\ OnlyPresentPlayersHaveActions
  /\ failed = 0 /\ ~Upserting => ~JerseyCollision(attendance)
  /\ \A r \in Requests : Knows(r)

\* The labels at which a request knows something.
Knowing == {"update.attendance", "update.write", "register.insert", "save.sheet",
            "save.actions", "save.upsert"}

\* The values that are no jersey differ.
LEMMA SentinelDistinct ==
  /\ Untouched # Keep /\ Untouched # NoRow /\ Untouched # Absent
  /\ NoJersey # NoRow /\ Absent # NoRow
BY SentinelAssumption

\* The sheet of a match just scheduled.
LEMMA SheetInit == Init => SheetInv
<1> SUFFICES ASSUME Init PROVE SheetInv
  OBVIOUS
<1>1. \A a \in ActionIds : ~Exists(a) /\ ~Active(a)
  BY DEF Init, NoAction, Exists, Active
<1> QED
  BY <1>1 DEF Init, SheetInv, PlayersAreOfTheCategory, OnlyPresentPlayersHaveActions,
              Knows, At, Upserting

\* An idle request knows nothing.
LEMMA IdleKnows ==
  ASSUME NEW r, pc'[r] \notin Knowing
  PROVE  Knows(r)'
BY DEF Knows, At, Knowing

\* A step that adds no action and leaves sheet and category alone.
LEMMA SheetFrame ==
  ASSUME OneAtATime, SheetInv, TypeOK, NEW r \in Requests, ~At(r, "save.upsert"),
         UNCHANGED <<category, attendance>>, failed' = failed \/ failed' # 0,
         \A a \in ActionIds : /\ Exists(a)' => Exists(a)
                              /\ Active(a)' => Active(a)
                              /\ Exists(a)' => action'[a].capture = action[a].capture,
         Knows(r)'
  PROVE  SheetInv'
<1>1. PlayersAreOfTheCategory'
  BY DEF SheetInv, PlayersAreOfTheCategory
<1>2. OnlyPresentPlayersHaveActions'
  BY DEF SheetInv, OnlyPresentPlayersHaveActions, Exists, Active
<1>3. (failed = 0 /\ ~Upserting => ~JerseyCollision(attendance))'
  BY DEF SheetInv, OneAtATime, Upserting, At, JerseyCollision
<1>4. \A q \in Requests : Knows(q)'
  BY DEF OneAtATime
<1> QED
  BY <1>1, <1>2, <1>3, <1>4 DEF SheetInv

\* Changing the status, undoing and voiding add no action and write no sheet.
LEMMA SheetOthersKeep ==
  ASSUME OneAtATime, IInv, SheetInv, NEW r \in Requests,
         StatusStep(r) \/ UndoStep(r) \/ VoidStep(r) \/ Fail(r)
  PROVE  SheetInv'
<1>0. TypeOK /\ ReliesOnFacts(r)
  BY DEF IInv
<1>1. CASE Fail(r)
  <2>1. pc'[r] = "idle" /\ failed' # 0 /\ UNCHANGED <<category, attendance, action>>
    BY <1>0, <1>1 DEF Fail, Done, TypeOK, match, actions
  <2>2. Knows(r)'
    BY <2>1, IdleKnows DEF Knowing
  <2>3. ASSUME At(r, "save.upsert") PROVE SheetInv'
    BY <2>1, <2>2, <2>3 DEF OneAtATime, SheetInv, PlayersAreOfTheCategory,
       OnlyPresentPlayersHaveActions, Exists, Active
  <2> QED
    BY <1>0, <2>1, <2>2, <2>3, SheetFrame DEF Exists, Active
<1>2. CASE StatusStep(r)
  <2>1. /\ pc'[r] \in {"status.update", "status.void", "status.notify", "status.audit", "idle"}
        /\ ~At(r, "save.upsert") /\ UNCHANGED <<category, attendance, failed>>
    BY <1>0, <1>2 DEF StatusStep, updateMatchStatus, StatusUpdate, StatusVoidActions,
       StatusVoidNotifications, StatusAudit, Serve, Goto, Done, At, TypeOK, match
  <2>2. \/ UNCHANGED action
        \/ action' = [a \in ActionIds |->
                        IF Active(a) THEN [action[a] EXCEPT !.status = "voided"] ELSE action[a]]
    BY <1>2 DEF StatusStep, updateMatchStatus, StatusUpdate, StatusVoidActions,
       StatusVoidNotifications, StatusAudit, actions
  <2>3. \A a \in ActionIds : /\ Exists(a)' => Exists(a)
                             /\ Active(a)' => Active(a)
                             /\ Exists(a)' => action'[a].capture = action[a].capture
    BY <1>0, <2>2 DEF TypeOK, ActionRows, Exists, Active
  <2> QED
    BY <1>0, <2>1, <2>3, IdleKnows, SheetFrame DEF Knowing
<1>3. CASE UndoStep(r)
  <2>1. /\ pc'[r] \in {"undo.find", "undo.delete", "undo.notify", "undo.audit", "idle"}
        /\ ~At(r, "save.upsert") /\ UNCHANGED <<category, attendance, failed>>
    BY <1>0, <1>3 DEF UndoStep, immediateUndo, UndoFind, UndoDelete, UndoVoidNotifications,
       UndoAudit, Serve, Goto, Done, At, TypeOK, match
  <2>2. \/ UNCHANGED action
        \/ action' = [action EXCEPT ![loc[r].id].status = "deleted"]
    BY <1>3 DEF UndoStep, immediateUndo, UndoFind, UndoDelete, UndoVoidNotifications,
       UndoAudit, actions
  <2>3. \A a \in ActionIds : /\ Exists(a)' => Exists(a)
                             /\ Active(a)' => Active(a)
                             /\ Exists(a)' => action'[a].capture = action[a].capture
    BY <1>0, <2>2 DEF TypeOK, ActionRows, Exists, Active
  <2> QED
    BY <1>0, <2>1, <2>3, IdleKnows, SheetFrame DEF Knowing
<1>4. CASE VoidStep(r)
  <2>1. /\ pc'[r] \in {"void.find", "void.update", "void.audit", "void.reread", "void.notify",
                       "idle"}
        /\ ~At(r, "save.upsert") /\ UNCHANGED <<category, attendance, failed>>
    BY <1>0, <1>4 DEF VoidStep, voidAction, VoidFind, VoidUpdate, VoidAudit, VoidReread,
       VoidNotifications, Serve, Goto, Done, At, TypeOK, match
  <2>2. \/ UNCHANGED action
        \/ Active(loc[r].id) /\ action' = [action EXCEPT ![loc[r].id].status = "voided"]
    BY <1>4 DEF VoidStep, voidAction, VoidFind, VoidUpdate, VoidAudit, VoidReread,
       VoidNotifications, actions
  <2>3. \A a \in ActionIds : /\ Exists(a)' => Exists(a)
                             /\ Active(a)' => Active(a)
                             /\ Exists(a)' => action'[a].capture = action[a].capture
    BY <1>0, <2>2 DEF TypeOK, ActionRows, Exists, Active
  <2> QED
    BY <1>0, <2>1, <2>3, IdleKnows, SheetFrame DEF Knowing
<1> QED
  BY <1>1, <1>2, <1>3, <1>4

\* updateMatch moves only a match that nobody attends.
LEMMA SheetUpdateKeeps ==
  ASSUME OneAtATime, IInv, SheetInv, NEW r \in Requests, UpdateStep(r)
  PROVE  SheetInv'
<1>0. TypeOK /\ Facts
  BY DEF IInv
<1>1. CASE updateMatch(r)
  <2>1. PICK u \in Users, c \in Categories :
          /\ c # category => status = "scheduled"
          /\ pc[r] = "idle"
          /\ pc' = [pc EXCEPT ![r] = IF c = category THEN "update.write" ELSE "update.attendance"]
          /\ loc' = [loc EXCEPT ![r] = [NoLocals EXCEPT !.user = u, !.category = c]]
    BY <1>1 DEF updateMatch, Serve
  <2>2. UNCHANGED <<status, category, attendance, action, failed>>
    BY <1>1 DEF updateMatch, match, actions
  <2>3. /\ pc'[r] = IF c = category THEN "update.write" ELSE "update.attendance"
        /\ loc'[r].category = c
    BY <1>0, <2>1 DEF TypeOK, NoLocals
  <2>4. Knows(r)'
    BY <2>1, <2>2, <2>3 DEF Knows, At
  <2> QED
    BY <1>0, <2>1, <2>2, <2>4, SheetFrame DEF At, Exists, Active
<1>2. CASE UpdateFindAttendance(r)
  <2>1. /\ At(r, "update.attendance")
        /\ UNCHANGED <<status, category, attendance, action, failed>>
        /\ \/ pc'[r] = "idle"
           \/ pc'[r] = "update.write" /\ \A p \in Players : attendance[p] = NoRow
    BY <1>0, <1>2 DEF UpdateFindAttendance, Goto, Done, TypeOK, match, actions
  <2>2. Knows(r)'
    BY <2>1 DEF SheetInv, Knows, At
  <2> QED
    BY <1>0, <2>1, <2>2, SheetFrame DEF At, Exists, Active
<1>3. CASE UpdateAudit(r)
  <2>1. /\ At(r, "update.audit") /\ UNCHANGED <<category, attendance, action, failed>>
        /\ pc'[r] = "idle"
    BY <1>0, <1>3 DEF UpdateAudit, Done, TypeOK, match, actions
  <2> QED
    BY <1>0, <2>1, IdleKnows, SheetFrame DEF At, Exists, Active, Knowing
<1>4. CASE UpdateWrite(r)
  <2>1. /\ At(r, "update.write") /\ category' = loc[r].category /\ pc'[r] = "update.audit"
        /\ UNCHANGED <<status, attendance, action, failed>>
    BY <1>0, <1>4 DEF UpdateWrite, Goto, TypeOK, actions
  <2>2. Knows(r)'
    BY <2>1, IdleKnows DEF Knowing
  <2>3. CASE loc[r].category = category
    BY <1>0, <2>1, <2>2, <2>3, SheetFrame DEF At, Exists, Active
  <2>4. CASE status = "scheduled" /\ \A p \in Players : attendance[p] = NoRow
    <3>1. \A a \in ActionIds : ~Exists(a)' /\ ~Active(a)'
      BY <1>0, <2>1, <2>4 DEF Facts, NoActionBeforeKickoff, Exists, Active
    <3>2. PlayersAreOfTheCategory' /\ OnlyPresentPlayersHaveActions'
      BY <2>1, <2>4, <3>1 DEF PlayersAreOfTheCategory, OnlyPresentPlayersHaveActions
    <3>3. (failed = 0 /\ ~Upserting => ~JerseyCollision(attendance))'
      BY <2>1 DEF SheetInv, OneAtATime, Upserting, At, JerseyCollision
    <3> QED
      BY <2>2, <3>2, <3>3 DEF SheetInv, OneAtATime
  <2> QED
    BY <2>1, <2>3, <2>4 DEF SheetInv, Knows
<1> QED
  BY <1>1, <1>2, <1>3, <1>4 DEF UpdateStep

\* registerAction writes down only actions of players who attend.
LEMMA SheetRegisterKeeps ==
  ASSUME OneAtATime, IInv, SheetInv, NEW r \in Requests, RegisterStep(r)
  PROVE  SheetInv'
<1>0. TypeOK /\ Facts
  BY DEF IInv
<1>1. CASE RegisterReadAttendance(r)
  <2>1. /\ At(r, "register.attendance") /\ UNCHANGED <<category, attendance, action, failed>>
        /\ \/ pc'[r] = "idle"
           \/ /\ pc'[r] = "register.insert"
              /\ loc'[r].capture = loc[r].capture
              /\ attendance[PlayerOf[loc[r].capture]] \in Jerseys
    BY <1>0, <1>1 DEF RegisterReadAttendance, Done, TypeOK, Locals, match, actions
  <2>2. Knows(r)'
    BY <2>1 DEF Knows, At
  <2> QED
    BY <1>0, <2>1, <2>2, SheetFrame DEF At, Exists, Active
<1>2. CASE RegisterInsert(r)
  <2>1. /\ At(r, "register.insert") /\ UNCHANGED <<category, attendance, failed>>
        /\ pc'[r] \in {"idle", "register.reread"}
    BY <1>0, <1>2 DEF RegisterInsert, Done, TypeOK, match
  <2>2. Knows(r)'
    BY <2>1, IdleKnows DEF Knowing
  <2>3. CASE UNCHANGED action
    BY <1>0, <2>1, <2>2, <2>3, SheetFrame DEF At, Exists, Active
  <2>4. CASE ~UNCHANGED action
    <3> DEFINE player == PlayerOf[loc[r].capture]
    <3>1. /\ nextId \in ActionIds
          /\ \A a \in ActionIds : a # nextId => action'[a] = action[a]
          /\ action'[nextId].capture = loc[r].capture
      BY <1>0, <1>2, <2>4 DEF RegisterInsert, TypeOK, actions
    <3>2. attendance[player] \in Jerseys /\ player \in Players
      BY <2>1, PlayersAssumption DEF SheetInv, Knows, IInv, ReliesOnFacts, At, Registering
    <3>3. attendance[player] \notin {Absent, NoRow}
      BY <3>2, SentinelAssumption
    <3>4. CategoryOf[player] = category
      BY <3>2, <3>3 DEF SheetInv, PlayersAreOfTheCategory
    <3>5. PlayersAreOfTheCategory'
      BY <2>1, <3>1, <3>4 DEF SheetInv, PlayersAreOfTheCategory, Exists
    <3>6. OnlyPresentPlayersHaveActions'
      BY <2>1, <3>1, <3>3 DEF SheetInv, OnlyPresentPlayersHaveActions, Active
    <3>7. (failed = 0 /\ ~Upserting => ~JerseyCollision(attendance))'
      BY <2>1 DEF SheetInv, OneAtATime, Upserting, At, JerseyCollision
    <3> QED
      BY <2>2, <3>5, <3>6, <3>7 DEF SheetInv, OneAtATime
  <2> QED
    BY <2>3, <2>4
<1>3. CASE \/ registerAction(r) \/ RegisterFindExisting(r) \/ RegisterReread(r)
           \/ RegisterAudit(r) \/ RegisterNotify(r)
  <2>1. /\ ~At(r, "save.upsert") /\ UNCHANGED <<category, attendance, action, failed>>
        /\ pc'[r] \in {"idle", "register.existing", "register.attendance", "register.audit",
                       "register.notify"}
    BY <1>0, <1>3 DEF registerAction, RegisterFindExisting, RegisterReread, RegisterAudit,
       RegisterNotify, Serve, Goto, Done, At, TypeOK, match, actions
  <2> QED
    BY <1>0, <2>1, IdleKnows, SheetFrame DEF Knowing, Exists, Active
<1> QED
  BY <1>1, <1>2, <1>3 DEF RegisterStep

\* A sheet patched in one player's row and then in the others' ends the same.
LEMMA RowByRow ==
  ASSUME TypeOK, NEW r \in Requests, NEW p \in Players, loc[r].patch[p] # Untouched,
         attendance' = [attendance EXCEPT ![p] = loc[r].patch[p]],
         loc'[r].patch = [loc[r].patch EXCEPT ![p] = Untouched]
  PROVE  Patched(attendance', loc'[r].patch) = Patched(attendance, loc[r].patch)
<1> DEFINE patch == loc[r].patch
<1>1. patch \in [Players -> Jerseys \cup {NoJersey, Absent, Untouched}]
  BY DEF TypeOK, Locals
<1>2. attendance \in [Players -> Sheet]
  BY DEF TypeOK
<1>3. ASSUME NEW q \in Players
      PROVE  (IF loc'[r].patch[q] = Untouched THEN attendance'[q] ELSE loc'[r].patch[q])
               = (IF patch[q] = Untouched THEN attendance[q] ELSE patch[q])
  BY <1>1, <1>2
<1> QED
  BY <1>3 DEF Patched

\* saveAttendance writes rows of players of the category, without a collision.
LEMMA SheetSaveKeeps ==
  ASSUME OneAtATime, IInv, SheetInv, NEW r \in Requests, SaveStep(r)
  PROVE  SheetInv'
<1>0. TypeOK /\ Facts
  BY DEF IInv
<1>1. CASE saveAttendance(r) \/ SaveAudit(r)
  <2>1. /\ ~At(r, "save.upsert") /\ UNCHANGED <<category, attendance, action, failed>>
        /\ pc'[r] \in {"idle", "save.match"}
    BY <1>0, <1>1 DEF saveAttendance, SaveAudit, Serve, Done, At, TypeOK, match, actions
  <2> QED
    BY <1>0, <2>1, IdleKnows, SheetFrame DEF Knowing, Exists, Active
<1>2. CASE SaveReadMatch(r)
  <2>1. /\ At(r, "save.match") /\ UNCHANGED <<category, attendance, action, failed>>
        /\ pc'[r] = "save.sheet" /\ loc'[r].category = category
    BY <1>0, <1>2 DEF SaveReadMatch, At, TypeOK, Locals, match, actions
  <2>2. Knows(r)'
    BY <2>1 DEF Knows, At
  <2> QED
    BY <1>0, <2>1, <2>2, SheetFrame DEF At, Exists, Active
<1>3. CASE SaveReadSheet(r)
  <2> DEFINE c == loc[r].category
  <2>1. /\ At(r, "save.sheet") /\ UNCHANGED <<category, attendance, action, failed>>
        /\ c = category
    BY <1>3 DEF SaveReadSheet, SheetInv, Knows, match, actions
  <2>2. PICK entries \in Entries(c) :
          \/ pc'[r] = "idle"
          \/ /\ pc'[r] = "save.actions"
             /\ loc'[r].patch = Normalized(entries, SheetOf(c))
             /\ ~JerseyCollision(Patched(SheetOf(c), Normalized(entries, SheetOf(c))))
    BY <1>0, <1>3 DEF SaveReadSheet, Done, TypeOK, Locals
  <2>3. SheetOf(c) = attendance
    <3>1. \A p \in Players : CategoryOf[p] # c => attendance[p] = NoRow
      BY <2>1 DEF SheetInv, PlayersAreOfTheCategory
    <3>2. attendance \in [Players -> Sheet]
      BY <1>0 DEF TypeOK
    <3> QED
      BY <3>1, <3>2 DEF SheetOf
  <2>4. \A p \in Players : CategoryOf[p] # c => entries[p] = Untouched
    BY DEF Entries
  <2>5. Untouched # Keep
    BY SentinelDistinct
  <2>6. \A p \in Players : Normalized(entries, SheetOf(c))[p] # Untouched => CategoryOf[p] = category
    BY <2>1, <2>4, <2>5 DEF Normalized
  <2>7. Knows(r)'
    BY <2>1, <2>2, <2>3, <2>6 DEF Knows, At
  <2> QED
    BY <1>0, <2>1, <2>7, SheetFrame DEF At, Exists, Active
<1>4. CASE SaveCheckActions(r)
  <2>1. /\ At(r, "save.actions") /\ UNCHANGED <<category, attendance, action, failed>>
        /\ \/ pc'[r] = "idle"
           \/ /\ pc'[r] = "save.upsert" /\ loc'[r] = loc[r]
              /\ \A a \in ActionIds : Active(a) => loc[r].patch[PlayerOf[action[a].capture]] # Absent
    BY <1>0, <1>4 DEF SaveCheckActions, Goto, Done, TypeOK, match, actions
  <2>2. Knows(r)'
    BY <2>1 DEF SheetInv, Knows, At, Active
  <2> QED
    BY <1>0, <2>1, <2>2, SheetFrame DEF At, Exists, Active
<1>5. CASE SaveUpsertRow(r)
  <2> DEFINE patch == loc[r].patch
  <2>0. At(r, "save.upsert") /\ UNCHANGED <<category, action, failed>>
    BY <1>5 DEF SaveUpsertRow, match, actions
  <2>1. PICK p \in Players :
          /\ patch[p] # Untouched
          /\ attendance' = [attendance EXCEPT ![p] = patch[p]]
          /\ loc'[r].patch = [patch EXCEPT ![p] = Untouched]
          /\ \/ pc'[r] = "save.upsert"
             \/ pc'[r] = "save.audit" /\ \A q \in Players : q # p => patch[q] = Untouched
    <3> DEFINE left == {p \in Players : patch[p] # Untouched}
    <3>1. PICK p \in left :
            /\ attendance' = [attendance EXCEPT ![p] = patch[p]]
            /\ loc' = [loc EXCEPT ![r].patch = [@ EXCEPT ![p] = Untouched]]
            /\ pc' = [pc EXCEPT ![r] = IF left = {p} THEN "save.audit" ELSE @]
      BY <1>5 DEF SaveUpsertRow
    <3>2. loc'[r].patch = [patch EXCEPT ![p] = Untouched]
      BY <1>0, <3>1 DEF TypeOK, Locals
    <3>3. \/ pc'[r] = "save.upsert"
          \/ pc'[r] = "save.audit" /\ left = {p}
      <4>1. pc \in [Requests -> Labels] /\ pc[r] = "save.upsert"
        BY <1>0, <2>0 DEF TypeOK, At
      <4> HIDE DEF left
      <4> QED
        BY <3>1, <4>1
    <3> QED
      BY <3>1, <3>2, <3>3
  <2>2. /\ patch \in [Players -> Jerseys \cup {NoJersey, Absent, Untouched}]
        /\ attendance \in [Players -> Sheet]
    BY <1>0 DEF TypeOK, Locals
  <2>3. patch[p] # NoRow
    BY <2>1, <2>2, SentinelAssumption, SentinelDistinct
  <2>4. /\ \A q \in Players : patch[q] # Untouched => CategoryOf[q] = category
        /\ failed = 0 => ~JerseyCollision(Patched(attendance, patch))
        /\ \A a \in ActionIds : Active(a) => patch[PlayerOf[action[a].capture]] # Absent
    BY <2>0 DEF SheetInv, Knows, At
  <2>5. PlayersAreOfTheCategory'
    BY <2>0, <2>1, <2>2, <2>4 DEF SheetInv, PlayersAreOfTheCategory, Exists
  <2>6. OnlyPresentPlayersHaveActions'
    BY <2>0, <2>1, <2>2, <2>3, <2>4 DEF SheetInv, OnlyPresentPlayersHaveActions, Active
  <2>7. failed = 0 => ~JerseyCollision(Patched(attendance', loc'[r].patch))
    BY <1>0, <2>1, <2>4, RowByRow
  <2>8. Knows(r)'
    <3>1. \A q \in Players : loc'[r].patch[q] # Untouched => CategoryOf[q] = category
      BY <2>1, <2>2, <2>4
    <3>2. ASSUME NEW a \in ActionIds, Active(a)
          PROVE  loc'[r].patch[PlayerOf[action[a].capture]] # Absent
      BY <2>1, <2>2, <2>4, <3>2, SentinelDistinct
    <3> QED
      BY <2>0, <2>1, <2>7, <3>1, <3>2 DEF Knows, At, Active
  <2>9. (failed = 0 /\ ~Upserting => ~JerseyCollision(attendance))'
    <3>1. CASE pc'[r] = "save.upsert"
      BY <3>1 DEF Upserting, At
    <3>2. CASE pc'[r] = "save.audit"
      <4>1. \A q \in Players : loc'[r].patch[q] = Untouched
        BY <2>1, <2>2, <3>2
      <4>2. Patched(attendance', loc'[r].patch) = attendance'
        <5>1. attendance' \in [Players -> Sheet \cup {Untouched}]
          BY <2>1, <2>2 DEF Sheet
        <5> QED
          BY <4>1, <5>1 DEF Patched
      <4> QED
        BY <2>0, <2>7, <4>2 DEF JerseyCollision
    <3> QED
      BY <2>1, <3>1, <3>2
  <2> QED
    BY <2>5, <2>6, <2>8, <2>9 DEF SheetInv, OneAtATime
<1> QED
  BY <1>1, <1>2, <1>3, <1>4, <1>5 DEF SaveStep

\* Every step keeps the sheet in order when requests are served one at a time.
LEMMA SheetNext == OneAtATime /\ IInv /\ SheetInv /\ [Next]_vars => SheetInv'
<1> SUFFICES ASSUME OneAtATime, IInv, SheetInv, [Next]_vars PROVE SheetInv'
  OBVIOUS
<1>1. ASSUME NEW r \in Requests,
             StatusStep(r) \/ UpdateStep(r) \/ RegisterStep(r) \/ UndoStep(r) \/ VoidStep(r)
               \/ SaveStep(r) \/ Fail(r)
      PROVE  SheetInv'
  BY <1>1, SheetOthersKeep, SheetUpdateKeeps, SheetRegisterKeeps, SheetSaveKeeps
<1>2. CASE CorrectionWindowCloses \/ UndoWindowCloses \/ UNCHANGED vars
  <2>1. UNCHANGED <<status, category, attendance, action, pc, loc, failed>>
    BY <1>2 DEF CorrectionWindowCloses, UndoWindowCloses, vars, match, actions
  <2> QED
    BY <2>1 DEF SheetInv, PlayersAreOfTheCategory, OnlyPresentPlayersHaveActions, Knows,
       Exists, Active, Upserting, At, JerseyCollision, Patched
<1> QED
  BY <1>1, <1>2 DEF Next

\* The sheet stays in order when requests are served one at a time.
LEMMA SheetInvariance == ASSUME OneAtATime PROVE Spec => []SheetInv
<1>1. Init => SheetInv
  BY SheetInit
<1>2. IInv /\ SheetInv /\ [Next]_vars => SheetInv'
  BY SheetNext
<1> QED
  BY <1>1, <1>2, Invariance, PTL DEF Spec

\* Requests served one at a time, even if some die half-way, keep the actions of a
\* match to players who attend it (RN-07: assertPlayerParticipates, saveAttendance).
THEOREM SheetInOrder == ASSUME OneAtATime PROVE Spec => []OnlyPresentPlayersHaveActions
<1>1. SheetInv => OnlyPresentPlayersHaveActions
  BY DEF SheetInv
<1> QED
  BY <1>1, SheetInvariance, PTL

\* ... and sheet and actions to players of the category the match has now, though
\* updateMatch checks that there is no sheet before it writes the category.
THEOREM SheetIsOfTheCategory == ASSUME OneAtATime PROVE Spec => []PlayersAreOfTheCategory
<1>1. SheetInv => PlayersAreOfTheCategory
  BY DEF SheetInv
<1> QED
  BY <1>1, SheetInvariance, PTL

\* ... and, unless one has died half-way, the numbers of those present distinct
\* (validateJerseyCollisions checks the sheet, the rows are then written one by one).
THEOREM NumbersStayDistinct == ASSUME OneAtATime PROVE Spec => []JerseysAreDistinct
<1>1. SheetInv => JerseysAreDistinct
  BY DEF SheetInv, JerseysAreDistinct, Finished, Upserting, At
<1> QED
  BY <1>1, SheetInvariance, PTL

-----------------------------------------------------------------------------
(* The parents, however requests overlap.                                   *)

\* Request r is on its way to tell parent f of action a.
WillTell(r, a, f) ==
  /\ loc[r].id = a
  /\ \/ pc[r] \in {"register.reread", "register.audit"}
     \/ pc[r] = "register.notify" /\ f \in loc[r].pending

\* Action a is one that parents are told of.
Announced(a) == Active(a) /\ ~action[a].post /\ action[a].capture \in Notifiable

TellInv ==
  failed = 0 =>
    \A a \in ActionIds, f \in Parents :
      Announced(a) => <<a, f>> \in notified \/ \E r \in Requests : WillTell(r, a, f)

\* A step that brings no action in force and leaves nobody untold.
LEMMA TellFrame ==
  ASSUME TellInv, NEW r \in Requests,
         failed' = failed \/ failed' # 0, notified \subseteq notified',
         \A a \in ActionIds : Announced(a)' => Announced(a),
         \A q \in Requests \ {r} : pc'[q] = pc[q] /\ loc'[q] = loc[q],
         \A a \in ActionIds, f \in Parents :
           WillTell(r, a, f) /\ Announced(a)' => <<a, f>> \in notified' \/ WillTell(r, a, f)'
  PROVE  TellInv'
<1> SUFFICES ASSUME failed' = 0, NEW a \in ActionIds, NEW f \in Parents, Announced(a)'
             PROVE  <<a, f>> \in notified' \/ \E q \in Requests : WillTell(q, a, f)'
  BY DEF TellInv
<1>1. Announced(a) /\ failed = 0
  OBVIOUS
<1>2. CASE <<a, f>> \in notified
  BY <1>2
<1>3. ASSUME NEW q \in Requests, WillTell(q, a, f)
      PROVE  <<a, f>> \in notified' \/ \E t \in Requests : WillTell(t, a, f)'
  <2>1. CASE q = r
    BY <1>3, <2>1
  <2>2. CASE q # r
    BY <1>3, <2>2 DEF WillTell
  <2> QED
    BY <2>1, <2>2
<1> QED
  BY <1>1, <1>2, <1>3 DEF TellInv

\* A step that leaves the rows alone, or voids or removes some, brings none in force.
LEMMA OnlyInsertAdds ==
  ASSUME TypeOK, NEW r \in Requests,
         \/ StatusStep(r) \/ UpdateStep(r) \/ UndoStep(r) \/ VoidStep(r) \/ SaveStep(r)
         \/ Fail(r) \/ UNCHANGED action
  PROVE  \A a \in ActionIds : Announced(a)' => Announced(a)
<1>1. \/ UNCHANGED action
      \/ action' = [a \in ActionIds |->
                      IF Active(a) THEN [action[a] EXCEPT !.status = "voided"] ELSE action[a]]
      \/ action' = [action EXCEPT ![loc[r].id].status = "deleted"]
      \/ action' = [action EXCEPT ![loc[r].id].status = "voided"]
  <2>1. CASE StatusStep(r)
    BY <2>1 DEF StatusStep, updateMatchStatus, StatusUpdate, StatusVoidActions,
                StatusVoidNotifications, StatusAudit, actions
  <2>2. CASE UpdateStep(r)
    BY <2>2 DEF UpdateStep, updateMatch, UpdateFindAttendance, UpdateWrite, UpdateAudit, actions
  <2>3. CASE UndoStep(r)
    BY <2>3 DEF UndoStep, immediateUndo, UndoFind, UndoDelete, UndoVoidNotifications, UndoAudit,
                actions
  <2>4. CASE VoidStep(r)
    BY <2>4 DEF VoidStep, voidAction, VoidFind, VoidUpdate, VoidAudit, VoidReread,
                VoidNotifications, actions
  <2>5. CASE SaveStep(r)
    BY <2>5 DEF SaveStep, saveAttendance, SaveReadMatch, SaveReadSheet, SaveCheckActions,
                SaveUpsertRow, SaveAudit, actions
  <2>6. CASE Fail(r)
    BY <2>6 DEF Fail, actions
  <2> QED
    BY <2>1, <2>2, <2>3, <2>4, <2>5, <2>6
<1> QED
  BY <1>1 DEF TypeOK, ActionRows, Announced, Active

\* Every step but those of registerAction leaves the telling of parents as it is.
LEMMA TellOthersKeep ==
  ASSUME IInv, TellInv, NEW r \in Requests,
         \/ StatusStep(r) \/ UpdateStep(r) \/ UndoStep(r) \/ VoidStep(r) \/ SaveStep(r)
         \/ Fail(r)
  PROVE  TellInv'
<1>0. TypeOK
  BY DEF IInv
<1>1. \A a \in ActionIds : Announced(a)' => Announced(a)
  BY <1>0, OnlyInsertAdds
<1>2. CASE Fail(r)
  BY <1>0, <1>2 DEF Fail, TellInv, TypeOK
<1>3. CASE \/ StatusStep(r) \/ UpdateStep(r) \/ UndoStep(r) \/ VoidStep(r) \/ SaveStep(r)
  <2>1. /\ pc[r] \notin {"register.reread", "register.audit", "register.notify"}
        /\ \A q \in Requests \ {r} : pc'[q] = pc[q] /\ loc'[q] = loc[q]
        /\ UNCHANGED <<notified, failed>>
    <3> USE <1>0 DEF TypeOK, At, Serve, Goto, Done, notifications
    <3>1. CASE StatusStep(r)
      BY <3>1 DEF StatusStep, updateMatchStatus, StatusUpdate, StatusVoidActions,
                  StatusVoidNotifications, StatusAudit
    <3>2. CASE UpdateStep(r)
      BY <3>2 DEF UpdateStep, updateMatch, UpdateFindAttendance, UpdateWrite, UpdateAudit
    <3>3. CASE UndoStep(r)
      BY <3>3 DEF UndoStep, immediateUndo, UndoFind, UndoDelete, UndoVoidNotifications, UndoAudit
    <3>4. CASE VoidStep(r)
      BY <3>4 DEF VoidStep, voidAction, VoidFind, VoidUpdate, VoidAudit, VoidReread,
                  VoidNotifications
    <3>5. CASE SaveStep(r)
      BY <3>5 DEF SaveStep, saveAttendance, SaveReadMatch, SaveReadSheet, SaveCheckActions,
                  SaveUpsertRow, SaveAudit
    <3> QED
      BY <1>3, <3>1, <3>2, <3>3, <3>4, <3>5
  <2> QED
    BY <1>1, <2>1, TellFrame DEF WillTell
<1> QED
  BY <1>2, <1>3

\* registerAction tells every parent of what it has written, unless it is undone or
\* voided first.
LEMMA TellRegisterKeeps ==
  ASSUME IInv, TellInv, NEW r \in Requests, RegisterStep(r)
  PROVE  TellInv'
<1>0. TypeOK /\ Facts /\ ReliesOnFacts(r)
  BY DEF IInv
<1>1. CASE registerAction(r) \/ RegisterFindExisting(r) \/ RegisterReadAttendance(r)
  <2>1. /\ pc[r] \notin {"register.reread", "register.audit", "register.notify"}
        /\ \A q \in Requests \ {r} : pc'[q] = pc[q] /\ loc'[q] = loc[q]
        /\ UNCHANGED <<action, notified, failed>>
    BY <1>0, <1>1 DEF registerAction, RegisterFindExisting, RegisterReadAttendance, TypeOK, At,
                      Serve, Goto, Done, notifications, actions
  <2> QED
    BY <1>0, <2>1, OnlyInsertAdds, TellFrame DEF WillTell
<1>2. CASE RegisterInsert(r)
  <2>1. /\ At(r, "register.insert") /\ UNCHANGED <<notified, failed>>
        /\ \A q \in Requests \ {r} : pc'[q] = pc[q] /\ loc'[q] = loc[q]
    BY <1>0, <1>2 DEF RegisterInsert, Done, TypeOK, At, notifications
  <2>2. CASE UNCHANGED action
    BY <1>0, <2>1, <2>2, OnlyInsertAdds, TellFrame DEF WillTell, At
  <2>3. CASE ~UNCHANGED action
    <3>1. /\ nextId \in ActionIds
          /\ \A a \in ActionIds : a # nextId => action'[a] = action[a]
          /\ pc'[r] = "register.reread" /\ loc'[r].id = nextId
      BY <1>0, <1>2, <2>3 DEF RegisterInsert, TypeOK, Locals, actions
    <3> SUFFICES ASSUME failed' = 0, NEW a \in ActionIds, NEW f \in Parents, Announced(a)'
                 PROVE  <<a, f>> \in notified' \/ \E q \in Requests : WillTell(q, a, f)'
      BY DEF TellInv
    <3>2. CASE a = nextId
      BY <3>1, <3>2 DEF WillTell
    <3>3. CASE a # nextId
      <4>1. Announced(a) /\ failed = 0
        BY <2>1, <3>1, <3>3 DEF Announced, Active
      <4>2. ASSUME NEW q \in Requests, WillTell(q, a, f) PROVE WillTell(q, a, f)'
        BY <2>1, <4>2 DEF WillTell, At
      <4> QED
        BY <2>1, <4>1, <4>2 DEF TellInv
    <3> QED
      BY <3>2, <3>3
  <2> QED
    BY <2>2, <2>3
<1>3. CASE RegisterReread(r)
  <2>1. /\ At(r, "register.reread") /\ UNCHANGED <<action, notified, failed>>
        /\ \A q \in Requests \ {r} : pc'[q] = pc[q] /\ loc'[q] = loc[q]
        /\ Exists(loc[r].id) => pc'[r] = "register.audit" /\ loc'[r] = loc[r]
    BY <1>0, <1>3 DEF RegisterReread, Goto, Done, TypeOK, notifications, actions
  <2>2. \A a \in ActionIds, f \in Parents :
          WillTell(r, a, f) /\ Announced(a)' => WillTell(r, a, f)'
    BY <2>1 DEF WillTell, Announced, Active, Exists
  <2> QED
    BY <1>0, <2>1, <2>2, OnlyInsertAdds, TellFrame
<1>4. CASE RegisterAudit(r)
  <2>1. /\ At(r, "register.audit") /\ UNCHANGED <<action, notified, failed>>
        /\ \A q \in Requests \ {r} : pc'[q] = pc[q] /\ loc'[q] = loc[q]
    BY <1>0, <1>4 DEF RegisterAudit, Done, TypeOK, notifications, actions
  <2>2. ASSUME NEW a \in ActionIds, NEW f \in Parents, WillTell(r, a, f), Announced(a)'
        PROVE  WillTell(r, a, f)'
    <3>1. loc[r].id = a
      BY <2>2 DEF WillTell
    <3>2. loc[r].capture \in Notifiable /\ loc[r].mode # "correction"
      BY <1>0, <2>1, <2>2, <3>1 DEF ReliesOnFacts, At, Registered, Announced
    <3>3. loc[r].mode = "live"
      BY <1>0, <2>1, <3>2 DEF ReliesOnFacts, At, Registering
    <3>4. /\ pc' = [pc EXCEPT ![r] = "register.notify"]
          /\ loc' = [loc EXCEPT ![r].pending = Parents]
      BY <1>4, <3>2, <3>3 DEF RegisterAudit
    <3>5. pc'[r] = "register.notify" /\ loc'[r].pending = Parents /\ loc'[r].id = a
      BY <1>0, <3>1, <3>4 DEF TypeOK, Locals
    <3> QED
      BY <3>5 DEF WillTell
  <2> QED
    BY <1>0, <2>1, <2>2, OnlyInsertAdds, TellFrame
<1>5. CASE RegisterNotify(r)
  <2>1. /\ At(r, "register.notify") /\ UNCHANGED <<action, failed>> /\ notified \subseteq notified'
        /\ \A q \in Requests \ {r} : pc'[q] = pc[q] /\ loc'[q] = loc[q]
    BY <1>0, <1>5 DEF RegisterNotify, Done, TypeOK, actions
  <2>2. ASSUME NEW a \in ActionIds, NEW f \in Parents, WillTell(r, a, f), Announced(a)'
        PROVE  <<a, f>> \in notified' \/ WillTell(r, a, f)'
    <3>1. loc[r].id = a /\ f \in loc[r].pending /\ Exists(a)
      BY <2>1, <2>2 DEF WillTell, Announced, Active, Exists, At
    <3>2. PICK g \in loc[r].pending :
            /\ notified' = notified \cup {<<a, g>>}
            /\ IF loc[r].pending = {g}
                 THEN Done(r)
                 ELSE loc' = [loc EXCEPT ![r].pending = @ \ {g}] /\ UNCHANGED pc
      BY <1>5, <3>1 DEF RegisterNotify
    <3>3. CASE f = g
      BY <3>2, <3>3
    <3>4. CASE f # g
      <4>1. loc' = [loc EXCEPT ![r].pending = @ \ {g}] /\ UNCHANGED pc
        BY <3>1, <3>2, <3>4
      <4>2. loc'[r].pending = loc[r].pending \ {g} /\ loc'[r].id = a
        BY <1>0, <3>1, <4>1 DEF TypeOK, Locals
      <4> QED
        BY <2>1, <3>1, <3>4, <4>1, <4>2 DEF WillTell, At
    <3> QED
      BY <3>3, <3>4
  <2> QED
    BY <1>0, <2>1, <2>2, OnlyInsertAdds, TellFrame
<1> QED
  BY <1>1, <1>2, <1>3, <1>4, <1>5 DEF RegisterStep

\* Every step keeps track of who is still to be told.
LEMMA TellNext == IInv /\ TellInv /\ [Next]_vars => TellInv'
<1> SUFFICES ASSUME IInv, TellInv, [Next]_vars PROVE TellInv'
  OBVIOUS
<1>1. ASSUME NEW r \in Requests,
             StatusStep(r) \/ UpdateStep(r) \/ RegisterStep(r) \/ UndoStep(r) \/ VoidStep(r)
               \/ SaveStep(r) \/ Fail(r)
      PROVE  TellInv'
  BY <1>1, TellOthersKeep, TellRegisterKeeps
<1>2. CASE CorrectionWindowCloses \/ UndoWindowCloses \/ UNCHANGED vars
  <2>1. UNCHANGED <<action, notified, pc, loc, failed>>
    BY <1>2 DEF CorrectionWindowCloses, UndoWindowCloses, vars, actions, notifications
  <2> QED
    BY <2>1 DEF TellInv, Announced, Active, WillTell
<1> QED
  BY <1>1, <1>2 DEF Next

\* However requests overlap, when all have finished and none has died every parent
\* has been told of every live notifiable action in force (RN-09).
THEOREM ParentsHearOfThemAll == Spec => []EveryParentNotified
<1>1. TellInv => EveryParentNotified
  BY DEF TellInv, EveryParentNotified, Finished, Announced, WillTell
<1>2. Init => TellInv
  BY DEF Init, TellInv, Announced, Active, NoAction
<1> QED
  BY <1>1, <1>2, TellNext, Invariance, PTL DEF Spec

-----------------------------------------------------------------------------
(* Voiding reaches the parents, one request at a time.                      *)

\* Request r is on its way to disown the notifications of action a.
Disowning(r, a) ==
  \/ At(r, "status.notify")
  \/ pc[r] \in {"void.audit", "void.reread", "void.notify"} /\ loc[r].id = a

DisownInv ==
  /\ \A r \in Requests : pc[r] \in Registered => Active(loc[r].id)
  /\ failed = 0 =>
       \A n \in notified :
         action[n[1]].status = "voided" =>
           n \in voidedNotif \/ \E r \in Requests : Disowning(r, n[1])

\* A step that sends no notification and leaves none unattended.
LEMMA DisownFrame ==
  ASSUME OneAtATime, TypeOK, DisownInv, NEW r \in Requests,
         failed' = failed, UNCHANGED notified, voidedNotif \subseteq voidedNotif',
         \A a \in ActionIds :
           action'[a].status = "voided" => action[a].status = "voided" \/ Disowning(r, a)',
         \A n \in notified :
           Disowning(r, n[1]) /\ action'[n[1]].status = "voided"
             => Disowning(r, n[1])' \/ n \in voidedNotif',
         pc'[r] \in Registered => Active(loc[r].id)'
  PROVE  DisownInv'
<1>1. \A q \in Requests : q = r
  BY DEF OneAtATime
<1>2. \A n \in notified : n[1] \in ActionIds
  BY DEF TypeOK
<1> QED
  BY <1>1, <1>2 DEF DisownInv

\* Status changes: a cancellation voids all the actions, then their notifications.
LEMMA DisownStatusKeeps ==
  ASSUME OneAtATime, TypeOK, DisownInv, NEW r \in Requests, StatusStep(r)
  PROVE  DisownInv'
<1>1. CASE updateMatchStatus(r) \/ StatusUpdate(r) \/ StatusAudit(r)
  <2>1. /\ pc[r] \notin {"status.notify", "void.audit", "void.reread", "void.notify"}
        /\ pc'[r] \notin Registered
        /\ UNCHANGED <<action, notified, voidedNotif, failed>>
    <3> USE DEF Serve, At, Goto, Done, TypeOK, Registered, actions, notifications
    <3>1. CASE updateMatchStatus(r)
      BY <3>1 DEF updateMatchStatus
    <3>2. CASE StatusUpdate(r) \/ StatusAudit(r)
      BY <3>2 DEF StatusUpdate, StatusAudit
    <3> QED
      BY <1>1, <3>1, <3>2
  <2> QED
    BY <2>1, DisownFrame DEF Disowning, At
<1>2. CASE StatusVoidActions(r)
  <2>1. /\ pc[r] = "status.void" /\ pc'[r] = "status.notify"
        /\ UNCHANGED <<notified, voidedNotif, failed>>
    BY <1>2 DEF StatusVoidActions, Goto, At, TypeOK, notifications
  <2> QED
    BY <2>1, DisownFrame DEF Disowning, At, Registered
<1>3. CASE StatusVoidNotifications(r)
  <2>1. /\ pc'[r] = "status.audit" /\ voidedNotif' = notified
        /\ UNCHANGED <<action, notified, failed>>
    BY <1>3 DEF StatusVoidNotifications, Goto, At, TypeOK, actions
  <2>2. voidedNotif \subseteq notified
    BY DEF TypeOK
  <2> QED
    BY <2>1, <2>2, DisownFrame DEF Registered
<1> QED
  BY <1>1, <1>2, <1>3 DEF StatusStep

\* The requests that neither void nor tell.
LEMMA DisownOthersKeep ==
  ASSUME OneAtATime, TypeOK, DisownInv, NEW r \in Requests,
         UpdateStep(r) \/ SaveStep(r) \/ UndoStep(r)
  PROVE  DisownInv'
<1>1. /\ pc[r] \notin {"status.notify", "void.audit", "void.reread", "void.notify"}
      /\ pc'[r] \notin Registered
      /\ UNCHANGED <<notified, failed>> /\ voidedNotif \subseteq voidedNotif'
      /\ \/ UNCHANGED action
         \/ action' = [action EXCEPT ![loc[r].id].status = "deleted"]
  <2> USE DEF At, Serve, Goto, Done, Registered, TypeOK, actions, notifications
  <2>1. CASE UpdateStep(r)
    <3>1. CASE updateMatch(r)
      BY <3>1 DEF updateMatch
    <3>2. CASE UpdateFindAttendance(r) \/ UpdateWrite(r) \/ UpdateAudit(r)
      BY <3>2 DEF UpdateFindAttendance, UpdateWrite, UpdateAudit
    <3> QED
      BY <2>1, <3>1, <3>2 DEF UpdateStep
  <2>2. CASE SaveStep(r)
    BY <2>2 DEF SaveStep, saveAttendance, SaveReadMatch, SaveReadSheet, SaveCheckActions,
                SaveUpsertRow, SaveAudit
  <2>3. CASE UndoStep(r)
    <3>1. CASE immediateUndo(r)
      BY <3>1 DEF immediateUndo
    <3>2. CASE UndoFind(r) \/ UndoDelete(r)
      BY <3>2 DEF UndoFind, UndoDelete
    <3>3. CASE UndoVoidNotifications(r) \/ UndoAudit(r)
      BY <3>3 DEF UndoVoidNotifications, UndoAudit, VoidNotificationsOf
    <3> QED
      BY <2>3, <3>1, <3>2, <3>3 DEF UndoStep
  <2> QED
    BY <2>1, <2>2, <2>3
<1>2. \A a \in ActionIds : action'[a].status = "voided" => action[a].status = "voided"
  BY <1>1 DEF TypeOK, ActionRows
<1> QED
  BY <1>1, <1>2, DisownFrame DEF Disowning, At

\* voidAction goes on to disown what it has voided.
LEMMA DisownVoidKeeps ==
  ASSUME OneAtATime, IInv, DisownInv, NEW r \in Requests, VoidStep(r)
  PROVE  DisownInv'
<1>0. TypeOK
  BY DEF IInv
<1>1. CASE voidAction(r) \/ VoidFind(r)
  <2>1. /\ pc[r] \notin {"status.notify", "void.audit", "void.reread", "void.notify"}
        /\ pc'[r] \notin Registered
        /\ UNCHANGED <<action, notified, voidedNotif, failed>>
    <3> USE <1>0 DEF Serve, At, Goto, Done, TypeOK, Registered, actions, notifications
    <3>1. CASE voidAction(r)
      BY <3>1 DEF voidAction
    <3>2. CASE VoidFind(r)
      BY <3>2 DEF VoidFind
    <3> QED
      BY <1>1, <3>1, <3>2
  <2> QED
    BY <1>0, <2>1, DisownFrame DEF Disowning, At
<1>2. CASE VoidUpdate(r)
  <2>1. /\ pc[r] = "void.update" /\ pc'[r] \notin Registered
        /\ UNCHANGED <<notified, voidedNotif, failed>>
        /\ \/ UNCHANGED action
           \/ /\ action' = [action EXCEPT ![loc[r].id].status = "voided"]
              /\ pc'[r] = "void.audit" /\ loc'[r].id = loc[r].id
    BY <1>0, <1>2 DEF VoidUpdate, At, Goto, Done, TypeOK, Registered, notifications
  <2>2. \A a \in ActionIds :
          action'[a].status = "voided" => action[a].status = "voided" \/ Disowning(r, a)'
    BY <1>0, <2>1 DEF Disowning, TypeOK, ActionRows
  <2> QED
    BY <1>0, <2>1, <2>2, DisownFrame DEF Disowning, At
<1>3. CASE VoidAudit(r) \/ VoidReread(r)
  <2>1. Exists(loc[r].id) \/ VoidAudit(r) \/ action[loc[r].id].status = "deleted"
    BY <1>0, <1>3 DEF IInv, ReliesOnFacts, VoidReread, At, Exists
  <2>2. /\ pc[r] \in {"void.audit", "void.reread"} /\ pc'[r] \notin Registered
        /\ UNCHANGED <<action, notified, voidedNotif, failed>>
        /\ \/ pc'[r] \in {"void.reread", "void.notify"} /\ loc'[r].id = loc[r].id
           \/ action[loc[r].id].status = "deleted"
    BY <1>0, <1>3, <2>1 DEF VoidAudit, VoidReread, At, Goto, Done, TypeOK, Registered, actions,
                            notifications
  <2> QED
    BY <1>0, <2>2, DisownFrame DEF Disowning, At
<1>4. CASE VoidNotifications(r)
  <2>1. /\ pc[r] = "void.notify" /\ pc'[r] = "idle" /\ UNCHANGED <<action, notified, failed>>
        /\ voidedNotif' = voidedNotif \cup {n \in notified : n[1] = loc[r].id /\ Exists(loc[r].id)}
    BY <1>0, <1>4 DEF VoidNotifications, VoidNotificationsOf, At, Done, TypeOK, actions
  <2> QED
    BY <1>0, <2>1, DisownFrame DEF Disowning, At, Exists, Registered
<1> QED
  BY <1>1, <1>2, <1>3, <1>4 DEF VoidStep

\* registerAction tells parents of an action in force only.
LEMMA DisownRegisterKeeps ==
  ASSUME OneAtATime, IInv, DisownInv, NEW r \in Requests, RegisterStep(r)
  PROVE  DisownInv'
<1>0. TypeOK
  BY DEF IInv
<1>1. CASE \/ registerAction(r) \/ RegisterFindExisting(r) \/ RegisterReadAttendance(r)
           \/ RegisterReread(r) \/ RegisterAudit(r)
  <2>1. /\ pc[r] \notin {"status.notify", "void.audit", "void.reread", "void.notify"}
        /\ pc'[r] \in Registered => pc[r] \in Registered /\ loc'[r].id = loc[r].id
        /\ UNCHANGED <<action, notified, voidedNotif, failed>>
    <3> USE <1>0 DEF Serve, At, Goto, Done, TypeOK, Locals, Registered, actions, notifications
    <3>1. CASE registerAction(r)
      BY <3>1 DEF registerAction
    <3>2. CASE RegisterFindExisting(r) \/ RegisterReadAttendance(r)
      BY <3>2 DEF RegisterFindExisting, RegisterReadAttendance
    <3>3. CASE RegisterReread(r) \/ RegisterAudit(r)
      BY <3>3 DEF RegisterReread, RegisterAudit
    <3> QED
      BY <1>1, <3>1, <3>2, <3>3
  <2>2. pc'[r] \in Registered => Active(loc[r].id)'
    BY <2>1 DEF DisownInv, Active
  <2> QED
    BY <1>0, <2>1, <2>2, DisownFrame DEF Disowning, At
<1>2. CASE RegisterInsert(r)
  <2>1. pc[r] = "register.insert" /\ UNCHANGED <<notified, voidedNotif, failed>>
    BY <1>2 DEF RegisterInsert, At, notifications
  <2>2. CASE UNCHANGED action /\ pc'[r] = "idle"
    BY <1>0, <2>1, <2>2, DisownFrame DEF Disowning, At, Registered
  <2>3. CASE ~(UNCHANGED action /\ pc'[r] = "idle")
    <3>1. /\ nextId \in ActionIds /\ action'[nextId].status = "active"
          /\ \A a \in ActionIds : a # nextId => action'[a] = action[a]
          /\ loc'[r].id = nextId
      BY <1>0, <1>2, <2>3 DEF RegisterInsert, Done, TypeOK, Locals, actions
    <3>2. pc'[r] \in Registered => Active(loc[r].id)'
      BY <3>1 DEF Active
    <3>3. \A a \in ActionIds : action'[a].status = "voided" => action[a].status = "voided"
      BY <3>1
    <3> QED
      BY <1>0, <2>1, <3>2, <3>3, DisownFrame DEF Disowning, At
  <2> QED
    BY <2>2, <2>3
<1>3. CASE RegisterNotify(r)
  <2>1. Active(loc[r].id) /\ Exists(loc[r].id) /\ pc[r] = "register.notify"
    BY <1>3 DEF RegisterNotify, DisownInv, At, Registered, Active, Exists
  <2>2. /\ UNCHANGED <<action, voidedNotif, failed>>
        /\ \A n \in notified' : n \in notified \/ n[1] = loc[r].id
        /\ pc'[r] \in Registered => loc'[r].id = loc[r].id
    BY <1>0, <1>3, <2>1 DEF RegisterNotify, Done, TypeOK, Locals, Registered, actions
  <2>3. \A q \in Requests : q = r
    BY DEF OneAtATime
  <2>4. \A a : ~Disowning(r, a)
    BY <2>1 DEF Disowning, At
  <2> QED
    BY <2>1, <2>2, <2>3, <2>4 DEF DisownInv, Active
<1> QED
  BY <1>1, <1>2, <1>3 DEF RegisterStep

\* Every step, one request at a time.
LEMMA DisownNext == OneAtATime /\ IInv /\ DisownInv /\ [Next]_vars => DisownInv'
<1> SUFFICES ASSUME OneAtATime, IInv, DisownInv, [Next]_vars PROVE DisownInv'
  OBVIOUS
<1>0. TypeOK
  BY DEF IInv
<1>1. ASSUME NEW r \in Requests,
             StatusStep(r) \/ UpdateStep(r) \/ RegisterStep(r) \/ UndoStep(r) \/ VoidStep(r)
               \/ SaveStep(r)
      PROVE  DisownInv'
  BY <1>0, <1>1, DisownStatusKeeps, DisownOthersKeep, DisownRegisterKeeps, DisownVoidKeeps
<1>2. ASSUME NEW r \in Requests, Fail(r) PROVE DisownInv'
  <2>1. pc'[r] = "idle" /\ failed' # 0
    BY <1>0, <1>2 DEF Fail, Done, TypeOK
  <2>2. \A q \in Requests : q = r
    BY DEF OneAtATime
  <2> QED
    BY <2>1, <2>2 DEF DisownInv, Registered
<1>3. CASE CorrectionWindowCloses \/ UndoWindowCloses \/ UNCHANGED vars
  <2>1. UNCHANGED <<action, notified, voidedNotif, pc, loc, failed>>
    BY <1>3 DEF CorrectionWindowCloses, UndoWindowCloses, vars, actions, notifications
  <2> QED
    BY <2>1 DEF DisownInv, Disowning, Active, At
<1> QED
  BY <1>1, <1>2, <1>3 DEF Next

\* Requests served one at a time disown what they void: when all have finished and
\* none has died, the notifications of a voided action are marked as voided.
THEOREM VoidingReachesParents == ASSUME OneAtATime PROVE Spec => []VoidedActionsDisowned
<1>1. DisownInv => VoidedActionsDisowned
  BY DEF DisownInv, VoidedActionsDisowned, Finished, Disowning, At
<1>2. Init => DisownInv
  BY DEF Init, DisownInv, Registered
<1> QED
  BY <1>1, <1>2, DisownNext, Invariance, PTL DEF Spec

-----------------------------------------------------------------------------
(* Requests served one at a time implement the ledger.                      *)

\* What the one request in progress was let in for is still so.
Steady(r) ==
  /\ loc[r].mode = "live" => status = "in_progress"
  /\ loc[r].mode = "correction" => status = "finished"
  /\ loc[r].mode # "none" <=> pc[r] \in Registering \cup Voiding \cup Undoing
  /\ pc[r] \in Undoing => loc[r].mode = "live"
  /\ pc[r] = "status.update" => loc[r].target \in MATCH_STATUS_TRANSITIONS[status]
  /\ pc[r] = "status.void" => status = "cancelled"
  /\ pc[r] = "undo.delete" => Active(loc[r].id)

LedgerInv ==
  /\ windowOpen => status = "finished"
  /\ \A a \in ActionIds : Exists(a) /\ action[a].post => status = "finished"
  /\ \A r \in Requests : Steady(r)

\* The entry of a capture, as a function of the rows and of the status.
Holds(act, a, c) == act[a].status \in {"active", "voided"} /\ act[a].capture = c
EntryIn(act, st, c) ==
  LET rows == {a \in ActionIds : Holds(act, a, c)}
      row  == act[CHOOSE a \in rows : TRUE]
  IN IF rows = {} THEN "none"
     ELSE IF row.status = "voided" \/ st = "cancelled" THEN "voided"
     ELSE IF row.post THEN "corrected" ELSE "live"
AtMostOne(act) ==
  \A a, b \in ActionIds, c \in Captures : Holds(act, a, c) /\ Holds(act, b, c) => a = b

\* The entries before a step and after it.
LEMMA EntriesAre ==
  /\ \A c : EntryOf(c) = EntryIn(action, status, c)
  /\ \A c : EntryOf(c)' = EntryIn(action', status', c)
BY DEF EntryOf, EntryIn, Holds, Exists

\* The entry of a capture is read off its row, if it has one.
LEMMA EntryOfRow ==
  ASSUME NEW act, AtMostOne(act), NEW st, NEW c \in Captures
  PROVE  /\ (\A a \in ActionIds : ~Holds(act, a, c)) => EntryIn(act, st, c) = "none"
         /\ \A a \in ActionIds : Holds(act, a, c) =>
              EntryIn(act, st, c) = IF act[a].status = "voided" \/ st = "cancelled" THEN "voided"
                                    ELSE IF act[a].post THEN "corrected" ELSE "live"
<1> DEFINE rows == {a \in ActionIds : Holds(act, a, c)}
<1>1. (\A a \in ActionIds : ~Holds(act, a, c)) => EntryIn(act, st, c) = "none"
  BY DEF EntryIn
<1>2. ASSUME NEW a \in ActionIds, Holds(act, a, c)
      PROVE  EntryIn(act, st, c) = IF act[a].status = "voided" \/ st = "cancelled" THEN "voided"
                                   ELSE IF act[a].post THEN "corrected" ELSE "live"
  <2>1. a \in rows
    BY <1>2
  <2>2. (CHOOSE b \in rows : TRUE) \in rows
    BY <2>1
  <2>3. (CHOOSE b \in rows : TRUE) = a
    BY <1>2, <2>2 DEF AtMostOne
  <2> QED
    BY <2>1, <2>3 DEF EntryIn
<1> QED
  BY <1>1, <1>2

\* A step that changes neither rows nor status, and lets nobody correct who might not,
\* is seen at most as the window closing.
LEMMA QuietSteps ==
  ASSUME OneAtATime, NEW r \in Requests, UNCHANGED <<status, windowOpen, action>>,
         loc'[r].mode = "correction" => loc[r].mode = "correction" \/ windowOpen
  PROVE  [Ledger!LedgerNext]_(Ledger!ledger)
<1> DEFINE window == windowOpen \/ \E q \in Requests : loc[q].mode = "correction"
<1>1. \A c : EntryOf(c)' = EntryOf(c)
  BY EntriesAre
<1>2. [c \in Captures |-> EntryOf(c)]' = [c \in Captures |-> EntryOf(c)]
  BY <1>1
<1>3. window' => window
  BY DEF OneAtATime
<1>4. CASE window' = window
  BY <1>2, <1>4 DEF Ledger!ledger
<1>5. CASE window' # window
  <2>1. window /\ ~window'
    BY <1>3, <1>5
  <2>2. Ledger!CloseWindow
    BY <1>2, <2>1 DEF Ledger!CloseWindow
  <2> QED
    BY <2>2 DEF Ledger!LedgerNext
<1> QED
  BY <1>4, <1>5

\* A request that is turned down, has ended or has died relies on nothing.
LEMMA DoneIsSteady ==
  ASSUME TypeOK, NEW r \in Requests, Done(r)
  PROVE  Steady(r)' /\ loc'[r].mode = "none" /\ pc'[r] = "idle"
BY DEF Done, TypeOK, Steady, NoLocals, Registering, Voiding, Undoing

\* The steps that change neither rows nor status.
Quiet(r) ==
  \/ updateMatchStatus(r) \/ StatusVoidNotifications(r) \/ StatusAudit(r)
  \/ UpdateStep(r) \/ SaveStep(r) \/ Fail(r)
  \/ registerAction(r) \/ RegisterFindExisting(r) \/ RegisterReadAttendance(r)
  \/ RegisterReread(r) \/ RegisterAudit(r) \/ RegisterNotify(r)
  \/ immediateUndo(r) \/ UndoFind(r) \/ UndoVoidNotifications(r) \/ UndoAudit(r)
  \/ voidAction(r) \/ VoidFind(r) \/ VoidAudit(r) \/ VoidReread(r) \/ VoidNotifications(r)

LEMMA QuietKeeps ==
  ASSUME TypeOK, NEW r \in Requests, Steady(r), windowOpen => status = "finished", Quiet(r)
  PROVE  /\ UNCHANGED <<status, windowOpen, action>> /\ Steady(r)'
         /\ loc'[r].mode = "correction" => loc[r].mode = "correction" \/ windowOpen
<1>1. CASE Done(r) /\ UNCHANGED <<status, windowOpen, action>>
  BY <1>1, DoneIsSteady
<1>2. CASE \/ updateMatchStatus(r) \/ updateMatch(r) \/ saveAttendance(r)
  <2> USE DEF Serve, TypeOK, Steady, NoLocals, Registering, Voiding, Undoing, match, actions
  <2>1. CASE updateMatchStatus(r)
    BY <2>1 DEF updateMatchStatus
  <2>2. CASE updateMatch(r)
    BY <2>2 DEF updateMatch
  <2>3. CASE saveAttendance(r)
    BY <2>3 DEF saveAttendance
  <2> QED
    BY <1>2, <2>1, <2>2, <2>3
<1>3. CASE registerAction(r) \/ immediateUndo(r) \/ voidAction(r)
  <2> USE DEF Serve, MayWrite, TypeOK, Steady, NoLocals, Registering, Voiding, Undoing, match,
              actions
  <2>1. CASE registerAction(r)
    BY <2>1 DEF registerAction
  <2>2. CASE immediateUndo(r)
    BY <2>2 DEF immediateUndo
  <2>3. CASE voidAction(r)
    BY <2>3 DEF voidAction
  <2> QED
    BY <1>3, <2>1, <2>2, <2>3
<1>4. CASE StatusVoidNotifications(r) \/ StatusAudit(r)
  BY <1>1, <1>4 DEF StatusVoidNotifications, StatusAudit, At, Goto, TypeOK, Steady, Registering,
                    Voiding, Undoing, match, actions
<1>5. CASE UpdateFindAttendance(r) \/ UpdateAudit(r)
  BY <1>1, <1>5 DEF UpdateFindAttendance, UpdateAudit, At, Goto, TypeOK, Steady, Registering,
                    Voiding, Undoing, match, actions
<1>6. CASE UpdateWrite(r)
  BY <1>6 DEF UpdateWrite, At, Goto, TypeOK, Steady, Registering, Voiding, Undoing, actions
<1>7. CASE SaveReadMatch(r) \/ SaveReadSheet(r) \/ SaveCheckActions(r) \/ SaveUpsertRow(r) \/ SaveAudit(r)
  BY <1>1, <1>7 DEF SaveReadMatch, SaveReadSheet, SaveCheckActions, SaveUpsertRow, SaveAudit,
                    At, Goto, TypeOK, Locals, Steady, Registering, Voiding, Undoing, match, actions
<1>8. CASE Fail(r)
  BY <1>1, <1>8 DEF Fail, match, actions
<1>9. CASE RegisterFindExisting(r) \/ RegisterReadAttendance(r) \/ RegisterReread(r)
  BY <1>1, <1>9 DEF RegisterFindExisting, RegisterReadAttendance, RegisterReread, At, Goto, TypeOK,
                    Locals, Steady, Registering, Voiding, Undoing, match, actions
<1>10. CASE RegisterAudit(r) \/ RegisterNotify(r)
  BY <1>1, <1>10 DEF RegisterAudit, RegisterNotify, At, Goto, TypeOK, Locals, Steady, Registering,
                     Voiding, Undoing, match, actions
<1>11. CASE UndoFind(r) \/ UndoVoidNotifications(r) \/ UndoAudit(r)
  BY <1>1, <1>11 DEF UndoFind, UndoVoidNotifications, UndoAudit, At, Goto, TypeOK, Steady, Active,
                     Registering, Voiding, Undoing, match, actions
<1>12. CASE VoidFind(r) \/ VoidAudit(r) \/ VoidReread(r) \/ VoidNotifications(r)
  BY <1>1, <1>12 DEF VoidFind, VoidAudit, VoidReread, VoidNotifications, At, Goto, TypeOK, Steady,
                     Registering, Voiding, Undoing, match, actions
<1> QED
  BY <1>2, <1>3, <1>4, <1>5, <1>6, <1>7, <1>8, <1>9, <1>10, <1>11, <1>12
     DEF Quiet, UpdateStep, SaveStep

\* Rows of a capture that keep their status and their flag keep its entry.
LEMMA EntryKept ==
  ASSUME NEW act, NEW act2, NEW st, NEW c,
         \A a \in ActionIds : Holds(act2, a, c) <=> Holds(act, a, c),
         \A a \in ActionIds : Holds(act, a, c) =>
           act2[a].status = act[a].status /\ act2[a].post = act[a].post
  PROVE  EntryIn(act2, st, c) = EntryIn(act, st, c)
<1> DEFINE rows == {a \in ActionIds : Holds(act, a, c)}
           chosen == CHOOSE a \in rows : TRUE
<1>1. {a \in ActionIds : Holds(act2, a, c)} = rows
  OBVIOUS
<1>2. rows # {} => act2[chosen].status = act[chosen].status /\ act2[chosen].post = act[chosen].post
  <2> HIDE DEF rows
  <2>1. rows # {} => chosen \in rows
    OBVIOUS
  <2> QED
    BY <2>1 DEF rows
<1> QED
  BY <1>1, <1>2 DEF EntryIn

\* A step that changes the entry of one capture.
LEMMA OneEntrySet ==
  ASSUME OneAtATime, NEW r \in Requests, NEW c \in Captures, NEW state,
         UNCHANGED <<status, windowOpen>>, loc'[r].mode = loc[r].mode,
         EntryIn(action', status, c) = state,
         \A d \in Captures \ {c} : EntryIn(action', status, d) = EntryIn(action, status, d)
  PROVE  Ledger!Set(c, state)
<1>1. (\E q \in Requests : loc[q].mode = "correction")'
        = (\E q \in Requests : loc[q].mode = "correction")
  BY DEF OneAtATime
<1>2. EntryOf(c)' = state /\ \A d \in Captures \ {c} : EntryOf(d)' = EntryOf(d)
  BY EntriesAre
<1>3. [d \in Captures |-> EntryOf(d)]' = [[d \in Captures |-> EntryOf(d)] EXCEPT ![c] = state]
  BY <1>2
<1> QED
  BY <1>1, <1>3 DEF Ledger!Set

\* A change of status is a step of the ledger; the voiding that follows a
\* cancellation is not seen there.
LEMMA StatusIsLedger ==
  ASSUME OneAtATime, TypeOK, LedgerInv, NEW r \in Requests, StatusUpdate(r) \/ StatusVoidActions(r)
  PROVE  LedgerInv' /\ [Ledger!LedgerNext]_(Ledger!ledger)
<1>0. Steady(r) /\ (windowOpen => status = "finished")
      /\ \A a \in ActionIds : Exists(a) /\ action[a].post => status = "finished"
  BY DEF LedgerInv
<1>1. loc[r].mode = "none" /\ loc' = loc /\ UNCHANGED category
  BY <1>0 DEF StatusUpdate, StatusVoidActions, At, Goto, match, Steady, Registering, Voiding, Undoing
<1>2. \A q \in Requests : loc[q].mode # "correction"
  BY <1>1 DEF OneAtATime
<1>3. CASE StatusUpdate(r)
  <2>1. /\ loc[r].target \in MATCH_STATUS_TRANSITIONS[status] /\ status' = loc[r].target
        /\ UNCHANGED action
    BY <1>0, <1>3 DEF StatusUpdate, At, Steady, actions
  <2>2. \/ status = "scheduled" /\ status' \in {"in_progress", "cancelled"}
        \/ status = "in_progress" /\ status' \in {"finished", "cancelled"}
    BY <2>1 DEF TypeOK, MatchStatus, MATCH_STATUS_TRANSITIONS
  <2>3. windowOpen = FALSE /\ windowOpen' = (status' = "finished")
    BY <1>0, <1>3, <2>2 DEF StatusUpdate, TypeOK
  <2>4. \A a \in ActionIds : ~(Exists(a) /\ action[a].post)
    BY <1>0, <2>2
  <2>5. pc'[r] \in {"status.void", "status.audit"} /\ (pc'[r] = "status.void" => status' = "cancelled")
    BY <1>3 DEF StatusUpdate, Goto, TypeOK
  <2>6. Steady(r)'
    BY <1>1, <2>5 DEF Steady, Registering, Voiding, Undoing
  <2>7. LedgerInv'
    BY <2>1, <2>3, <2>4, <2>6 DEF LedgerInv, OneAtATime, Exists
  <2>8. ASSUME status' # "cancelled"
        PROVE  [c \in Captures |-> EntryOf(c)]' = [c \in Captures |-> EntryOf(c)]
    <3>1. \A c : EntryIn(action, status', c) = EntryIn(action, status, c)
      BY <2>2, <2>8 DEF EntryIn
    <3> QED
      BY <2>1, <3>1, EntriesAre
  <2>9. /\ (windowOpen \/ \E q \in Requests : loc[q].mode = "correction") = FALSE
        /\ (windowOpen \/ \E q \in Requests : loc[q].mode = "correction")' = (status' = "finished")
    BY <1>1, <1>2, <2>3
  <2>10. CASE status' = "in_progress"
    <3>1. Ledger!KickOff
      BY <2>2, <2>8, <2>9, <2>10 DEF Ledger!KickOff
    <3> QED
      BY <2>7, <3>1 DEF Ledger!LedgerNext
  <2>11. CASE status' = "finished"
    <3>1. Ledger!FinalWhistle
      BY <2>2, <2>8, <2>9, <2>11 DEF Ledger!FinalWhistle
    <3> QED
      BY <2>7, <3>1 DEF Ledger!LedgerNext
  <2>12. CASE status' = "cancelled"
    <3>1. \A c : EntryIn(action, status', c)
                   = IF EntryIn(action, status, c) \in {"live", "corrected"} THEN "voided"
                     ELSE EntryIn(action, status, c)
      BY <2>12 DEF EntryIn
    <3>2. \A c \in Captures : EntryOf(c)'
                   = IF EntryOf(c) \in {"live", "corrected"} THEN "voided" ELSE EntryOf(c)
      BY <2>1, <3>1, EntriesAre
    <3>3. Ledger!CallOff
      BY <2>2, <2>9, <2>12, <3>2 DEF Ledger!CallOff, Ledger!InForce
    <3> QED
      BY <2>7, <3>3 DEF Ledger!LedgerNext
  <2> QED
    BY <2>2, <2>7, <2>10, <2>11, <2>12
<1>4. CASE StatusVoidActions(r)
  <2>1. status = "cancelled" /\ UNCHANGED <<status, windowOpen>>
        /\ pc'[r] = "status.notify"
        /\ action' = [a \in ActionIds |->
             IF Active(a) THEN [action[a] EXCEPT !.status = "voided"] ELSE action[a]]
    BY <1>0, <1>4 DEF StatusVoidActions, At, Steady, match, Goto, TypeOK
  <2>2. \A a \in ActionIds : /\ action'[a].status \in {"active", "voided"} <=> Exists(a)
                             /\ action'[a].capture = action[a].capture
                             /\ action'[a].post = action[a].post
    BY <2>1 DEF TypeOK, ActionRows, Active, Exists
  <2>3. Steady(r)'
    BY <1>1, <2>1 DEF Steady, Registering, Voiding, Undoing
  <2>4. LedgerInv'
    BY <1>0, <2>1, <2>2, <2>3 DEF LedgerInv, OneAtATime, Exists
  <2>5. ASSUME NEW c PROVE EntryIn(action', status, c) = EntryIn(action, status, c)
    <3>1. {a \in ActionIds : Holds(action', a, c)} = {a \in ActionIds : Holds(action, a, c)}
      BY <2>2 DEF Holds, Exists
    <3> QED
      BY <2>1, <3>1 DEF EntryIn
  <2>6. [c \in Captures |-> EntryOf(c)]' = [c \in Captures |-> EntryOf(c)]
    BY <2>1, <2>5, EntriesAre
  <2> QED
    BY <1>1, <2>1, <2>4, <2>6 DEF Ledger!ledger
<1> QED
  BY <1>3, <1>4

\* A statement that finds nothing to write ends its request.
LEMMA EndIsLedger ==
  ASSUME OneAtATime, TypeOK, LedgerInv, NEW r \in Requests, Done(r),
         UNCHANGED <<status, windowOpen, action>>
  PROVE  LedgerInv' /\ [Ledger!LedgerNext]_(Ledger!ledger)
<1>1. Steady(r)' /\ loc'[r].mode = "none"
  BY DoneIsSteady
<1> QED
  BY <1>1, QuietSteps DEF LedgerInv, OneAtATime, Exists

\* The insert records the capture.
LEMMA InsertIsLedger ==
  ASSUME OneAtATime, IInv, IInv', LedgerInv, NEW r \in Requests, RegisterInsert(r)
  PROVE  LedgerInv' /\ [Ledger!LedgerNext]_(Ledger!ledger)
<1> DEFINE c == loc[r].capture
<1>0. TypeOK /\ Steady(r) /\ UNCHANGED <<status, windowOpen>>
  BY DEF IInv, LedgerInv, RegisterInsert, match
<1>1. CASE Done(r) /\ UNCHANGED actions
  BY <1>0, <1>1, EndIsLedger DEF actions
<1>2. CASE ~HasCapture(c) /\ ~(Done(r) /\ UNCHANGED actions)
  <2>1. /\ nextId \in ActionIds
        /\ action' = [action EXCEPT ![nextId] =
             [status |-> "active", capture |-> c, jersey |-> loc[r].jersey,
              createdBy |-> loc[r].user, post |-> loc[r].mode = "correction"]]
        /\ pc'[r] = "register.reread" /\ loc'[r].mode = loc[r].mode
    BY <1>0, <1>2 DEF RegisterInsert, TypeOK, Locals
  <2>2. c \in Captures /\ loc[r].mode \in {"live", "correction"}
    BY <1>2 DEF IInv, ReliesOnFacts, RegisterInsert, At, Registering
  <2>3. action[nextId].status = "none"
    BY <1>0, <2>1 DEF IInv, Facts, IdsInOrder, TypeOK
  <2>4. \A a \in ActionIds : /\ a # nextId => action'[a] = action[a]
                             /\ a = nextId => /\ action'[a].status = "active"
                                              /\ action'[a].capture = c
                                              /\ action'[a].post = (loc[r].mode = "correction")
    BY <1>0, <2>1 DEF TypeOK
  <2>5. Steady(r)'
    BY <1>0, <2>1, <2>2 DEF Steady, Registering, Voiding, Undoing
  <2>6. LedgerInv'
    BY <1>0, <2>4, <2>5 DEF LedgerInv, OneAtATime, Exists, Steady
  <2>7. EntryIn(action, status, c) = "none"
    BY <1>2 DEF EntryIn, Holds, HasCapture, Exists
  <2>8. EntryIn(action', status, c) = IF loc[r].mode = "correction" THEN "corrected" ELSE "live"
    <3>1. AtMostOne(action')
      BY DEF IInv, Facts, OneActionPerCapture, AtMostOne, Holds, Exists
    <3>2. Holds(action', nextId, c) /\ status # "cancelled"
      BY <1>0, <2>1, <2>2, <2>4 DEF Holds, Steady
    <3>3. action'[nextId].status # "voided" /\ (action'[nextId].post <=> loc[r].mode = "correction")
      BY <2>1, <2>4
    <3>4. EntryIn(action', status, c) = IF action'[nextId].post THEN "corrected" ELSE "live"
      <4> HIDE DEF c
      <4>1. \A a \in ActionIds : Holds(action', a, c) =>
              EntryIn(action', status, c)
                = IF action'[a].status = "voided" \/ status = "cancelled" THEN "voided"
                  ELSE IF action'[a].post THEN "corrected" ELSE "live"
        BY <2>2, <3>1, EntryOfRow
      <4>2. nextId \in ActionIds
        BY <2>1
      <4> QED
        BY <3>2, <3>3, <4>1, <4>2
    <3> QED
      BY <3>3, <3>4
  <2>9. ASSUME NEW d \in Captures \ {c}
        PROVE  EntryIn(action', status, d) = EntryIn(action, status, d)
    <3>1. \A a \in ActionIds : Holds(action', a, d) <=> Holds(action, a, d)
      BY <2>3, <2>4 DEF Holds
    <3>2. \A a \in ActionIds : Holds(action, a, d) => action'[a] = action[a]
      BY <2>3, <2>4 DEF Holds
    <3> QED
      BY <3>1, <3>2, EntryKept
  <2>10. Ledger!Set(c, IF loc[r].mode = "correction" THEN "corrected" ELSE "live")
    BY <1>0, <2>1, <2>2, <2>8, <2>9, OneEntrySet
  <2>11. Ledger!Record(c)
    BY <1>0, <2>2, <2>7, <2>10, EntriesAre DEF Ledger!Record, Steady
  <2> QED
    BY <2>2, <2>6, <2>11 DEF Ledger!LedgerNext
<1> QED
  BY <1>1, <1>2 DEF RegisterInsert

\* The row that an undo or a voiding finds active stands for an entry in force.
LEMMA RowInForce ==
  ASSUME IInv, LedgerInv, NEW id \in ActionIds, Active(id), status # "cancelled"
  PROVE  /\ action[id].capture \in Captures
         /\ EntryIn(action, status, action[id].capture) \in {"live", "corrected"}
         /\ status = "in_progress" => EntryIn(action, status, action[id].capture) = "live"
         /\ \A a \in ActionIds : Holds(action, a, action[id].capture) => a = id
<1>1. action[id].capture \in Captures
  BY DEF IInv, Facts, IdsInOrder, Active
<1>2. Holds(action, id, action[id].capture)
  BY DEF Holds, Active
<1>3. AtMostOne(action)
  BY DEF IInv, Facts, OneActionPerCapture, AtMostOne, Holds, Exists
<1>4. status = "in_progress" => ~action[id].post
  BY DEF LedgerInv, Active, Exists
<1>5. action[id].status # "voided"
  BY DEF Active
<1>6. EntryIn(action, status, action[id].capture) = IF action[id].post THEN "corrected" ELSE "live"
  BY <1>1, <1>2, <1>3, <1>5, EntryOfRow
<1>7. \A a \in ActionIds : Holds(action, a, action[id].capture) => a = id
  BY <1>1, <1>2, <1>3 DEF AtMostOne
<1> QED
  BY <1>1, <1>4, <1>6, <1>7

\* The delete takes the entry out, the update of a voiding voids it.
LEMMA RemovalIsLedger ==
  ASSUME OneAtATime, IInv, IInv', LedgerInv, NEW r \in Requests, UndoDelete(r) \/ VoidUpdate(r)
  PROVE  LedgerInv' /\ [Ledger!LedgerNext]_(Ledger!ledger)
<1> DEFINE id == loc[r].id
           c == action[id].capture
<1>0. TypeOK /\ Steady(r) /\ UNCHANGED <<status, windowOpen>> /\ id \in ActionIds
  BY DEF IInv, LedgerInv, UndoDelete, VoidUpdate, match, At, ReliesOnFacts, Voiding, Undoing
<1>1. CASE Done(r) /\ UNCHANGED action
  BY <1>0, <1>1, EndIsLedger
<1>2. CASE Active(id) /\ ~(Done(r) /\ UNCHANGED action)
  <2>1. /\ action' = [action EXCEPT ![id].status = IF UndoDelete(r) THEN "deleted" ELSE "voided"]
        /\ loc'[r].mode = loc[r].mode
        /\ pc'[r] = IF UndoDelete(r) THEN "undo.notify" ELSE "void.audit"
    BY <1>0, <1>2 DEF UndoDelete, VoidUpdate, At, Goto, TypeOK, Active, Exists
  <2>2. \A a \in ActionIds : /\ a # id => action'[a] = action[a]
                             /\ action'[a].capture = action[a].capture
                             /\ action'[a].post = action[a].post
    BY <1>0, <2>1 DEF TypeOK, ActionRows
  <2>3. action'[id].status = IF UndoDelete(r) THEN "deleted" ELSE "voided"
    BY <1>0, <2>1 DEF TypeOK, ActionRows
  <2>4. /\ loc[r].mode \in {"live", "correction"}
        /\ UndoDelete(r) => loc[r].mode = "live"
    BY <1>0 DEF UndoDelete, VoidUpdate, At, Steady, Voiding, Undoing, TypeOK, Locals
  <2>5. Steady(r)'
    BY <1>0, <2>1, <2>4 DEF Steady, Registering, Voiding, Undoing
  <2>6. \A a \in ActionIds : Exists(a)' => Exists(a)
    BY <1>2, <2>2 DEF Exists, Active
  <2>7. LedgerInv'
    BY <1>0, <2>2, <2>5, <2>6 DEF LedgerInv, OneAtATime
  <2>8. status # "cancelled"
    BY <1>0, <2>4 DEF Steady
  <2>9. /\ c \in Captures /\ EntryIn(action, status, c) \in {"live", "corrected"}
        /\ status = "in_progress" => EntryIn(action, status, c) = "live"
        /\ \A a \in ActionIds : Holds(action, a, c) => a = id
    BY <1>0, <1>2, <2>8, RowInForce
  <2>10. ASSUME NEW d \in Captures \ {c}
         PROVE  EntryIn(action', status, d) = EntryIn(action, status, d)
    <3>1. \A a \in ActionIds : Holds(action', a, d) <=> Holds(action, a, d)
      BY <2>2 DEF Holds
    <3>2. \A a \in ActionIds : Holds(action, a, d) => action'[a] = action[a]
      BY <2>2 DEF Holds
    <3> QED
      BY <3>1, <3>2, EntryKept
  <2>11. AtMostOne(action')
    BY DEF IInv, Facts, OneActionPerCapture, AtMostOne, Holds, Exists
  <2>12. CASE UndoDelete(r)
    <3>1. \A a \in ActionIds : ~Holds(action', a, c)
      BY <2>2, <2>3, <2>9, <2>12 DEF Holds
    <3>2. EntryIn(action', status, c) = "none"
      BY <2>9, <2>11, <3>1, EntryOfRow
    <3>3. Ledger!Set(c, "none")
      BY <1>0, <2>1, <2>9, <2>10, <3>2, OneEntrySet
    <3>4. Ledger!Undo(c)
      BY <1>0, <2>4, <2>9, <2>12, <3>3, EntriesAre DEF Ledger!Undo, Steady
    <3> QED
      BY <2>7, <2>9, <3>4 DEF Ledger!LedgerNext
  <2>13. CASE ~UndoDelete(r)
    <3>1. Holds(action', id, c) /\ action'[id].status = "voided"
      BY <1>0, <2>2, <2>3, <2>13 DEF Holds
    <3>2. EntryIn(action', status, c) = "voided"
      BY <1>0, <2>9, <2>11, <3>1, EntryOfRow
    <3>3. Ledger!Set(c, "voided")
      BY <1>0, <2>1, <2>9, <2>10, <3>2, OneEntrySet
    <3>4. Ledger!Void(c)
      BY <1>0, <2>4, <2>9, <3>3, EntriesAre DEF Ledger!Void, Ledger!InForce, Steady
    <3> QED
      BY <2>7, <2>9, <3>4 DEF Ledger!LedgerNext
  <2> QED
    BY <2>12, <2>13
<1>3. Active(id) \/ (Done(r) /\ UNCHANGED action)
  BY <1>0 DEF UndoDelete, VoidUpdate, At, Steady
<1> QED
  BY <1>1, <1>2, <1>3

\* No step but one of these touches the ledger, and each is one of its steps.
LEMMA StepsAreLedgerSteps ==
  OneAtATime /\ IInv /\ IInv' /\ LedgerInv /\ [Next]_vars
    => LedgerInv' /\ [Ledger!LedgerNext]_(Ledger!ledger)
<1> SUFFICES ASSUME OneAtATime, IInv, IInv', LedgerInv, [Next]_vars
             PROVE  LedgerInv' /\ [Ledger!LedgerNext]_(Ledger!ledger)
  OBVIOUS
<1>0. TypeOK
  BY DEF IInv
<1>1. ASSUME NEW r \in Requests, Quiet(r)
      PROVE  LedgerInv' /\ [Ledger!LedgerNext]_(Ledger!ledger)
  <2>1. /\ UNCHANGED <<status, windowOpen, action>> /\ Steady(r)'
        /\ loc'[r].mode = "correction" => loc[r].mode = "correction" \/ windowOpen
    BY <1>0, <1>1, QuietKeeps DEF LedgerInv
  <2>2. LedgerInv'
    BY <2>1 DEF LedgerInv, OneAtATime, Exists
  <2> QED
    BY <2>1, <2>2, QuietSteps
<1>2. CASE CorrectionWindowCloses
  <2>1. UNCHANGED <<status, action, pc, loc>> /\ windowOpen /\ ~windowOpen'
    BY <1>2 DEF CorrectionWindowCloses, actions
  <2>2. LedgerInv'
    BY <2>1 DEF LedgerInv, Exists, Active, Steady
  <2>3. [c \in Captures |-> EntryOf(c)]' = [c \in Captures |-> EntryOf(c)]
    BY <2>1, EntriesAre
  <2>4. CASE \E q \in Requests : loc[q].mode = "correction"
    BY <1>0, <2>1, <2>2, <2>3, <2>4 DEF Ledger!ledger
  <2>5. CASE ~\E q \in Requests : loc[q].mode = "correction"
    BY <2>1, <2>2, <2>3, <2>5 DEF Ledger!CloseWindow, Ledger!LedgerNext
  <2> QED
    BY <2>4, <2>5
<1>3. CASE UndoWindowCloses \/ UNCHANGED vars
  <2>1. UNCHANGED <<status, windowOpen, action, pc, loc>>
    BY <1>3 DEF UndoWindowCloses, vars, match
  <2>2. LedgerInv'
    BY <2>1 DEF LedgerInv, Exists, Active, Steady
  <2>3. [c \in Captures |-> EntryOf(c)]' = [c \in Captures |-> EntryOf(c)]
    BY <2>1, EntriesAre
  <2> QED
    BY <2>1, <2>2, <2>3 DEF Ledger!ledger
<1>4. ASSUME NEW r \in Requests, StatusStep(r) \/ UpdateStep(r) \/ RegisterStep(r) \/ UndoStep(r)
                                  \/ VoidStep(r) \/ SaveStep(r) \/ Fail(r)
      PROVE  LedgerInv' /\ [Ledger!LedgerNext]_(Ledger!ledger)
  <2>1. \/ Quiet(r) \/ StatusUpdate(r) \/ StatusVoidActions(r) \/ RegisterInsert(r)
        \/ UndoDelete(r) \/ VoidUpdate(r)
    BY <1>4 DEF Quiet, StatusStep, RegisterStep, UndoStep, VoidStep
  <2> QED
    BY <1>0, <1>1, <2>1, StatusIsLedger, InsertIsLedger, RemovalIsLedger
<1> QED
  BY <1>2, <1>3, <1>4 DEF Next

\* Requests served one at a time, any of which may die half-way, keep the promises
\* of MatchLedger: seen through the rows, the status and the correction window,
\* every statement is one operation of the ledger or nothing at all.
THEOREM CaptureIsALedger == ASSUME OneAtATime PROVE Spec => ImplementsLedger
<1>1. Init => Ledger!LedgerInit
  <2> SUFFICES ASSUME Init PROVE Ledger!LedgerInit
    OBVIOUS
  <2>1. \A c \in Captures : EntryOf(c) = "none"
    BY DEF Init, EntryOf, Exists, NoAction
  <2>2. \A q \in Requests : loc[q].mode # "correction"
    BY DEF Init, NoLocals
  <2> QED
    BY <2>1, <2>2 DEF Init, Ledger!LedgerInit
<1>2. Init => LedgerInv
  BY DEF Init, LedgerInv, Steady, Exists, NoAction, NoLocals, Registering, Voiding, Undoing
<1>3. IInv /\ IInv' /\ LedgerInv /\ [Next]_vars => LedgerInv'
  BY StepsAreLedgerSteps
<1>4. IInv /\ IInv' /\ LedgerInv /\ [Next]_vars => [Ledger!LedgerNext]_(Ledger!ledger)
  BY StepsAreLedgerSteps
<1> QED
  BY <1>1, <1>2, <1>3, <1>4, Invariance, PTL DEF Spec, ImplementsLedger, Ledger!LedgerSpec
=============================================================================

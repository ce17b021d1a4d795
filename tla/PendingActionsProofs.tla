------------------------- MODULE PendingActionsProofs -------------------------
(***************************************************************************)
(* Proofs about PendingActions: for any number of actions, payloads, chats *)
(* and crashes an action takes effect at most once, as recorded, and never *)
(* after it was refused.                                                   *)
(***************************************************************************)
EXTENDS PendingActions, TLAPS

(* A task that has looked at a row and will mark it: no edit or rejection   *)
(* came in between, an expiry from another thread may have.                 *)
CheckedRow ==
  \A t \in Tasks : run[t].at = "checked" =>
    /\ status[run[t].action] \in {"pending", "expired"}
    /\ run[t].payload = draft[run[t].action]
    /\ ~ run[t].acted

(* A task that awaits its executor holds the row as it was approved, and    *)
(* the action's effect is the one it has had.                               *)
RunningRow ==
  \A t \in Tasks : run[t].at = "running" =>
    /\ status[run[t].action] = "approved"
    /\ run[t].payload = draft[run[t].action]
    /\ times[run[t].action] = IF run[t].acted THEN 1 ELSE 0

(* No two calls are about one action.                                       *)
OneCall ==
  \A t, u \in Tasks :
    run[t].at # "idle" /\ run[u].at # "idle" /\ run[t].action = run[u].action => t = u

(* An effect left to a thread is still to come, its row stays approved and  *)
(* no task is about it.                                                     *)
LooseRow ==
  \A x \in loose :
    /\ status[x.action] = "approved"
    /\ x.payload = draft[x.action]
    /\ times[x.action] = 0
    /\ x.action \in stranded
    /\ \A t \in Tasks : run[t].action # x.action

(* An action not yet created has no row and no effect.                      *)
NotYet == \A a \in Actions : a > made => status[a] = "absent" /\ times[a] = 0

(* A row that is open or refused has had no effect.                         *)
Unsent ==
  \A a \in Actions : status[a] \in {"pending", "rejected", "expired"} => times[a] = 0

(* An approved row nobody works on was cut off.                             *)
CutOff ==
  \A a \in Actions : status[a] = "approved" => Running(a) \/ a \in stranded

(* The inductive invariant.                                                 *)
IInv ==
  /\ TypeOK
  /\ CheckedRow /\ RunningRow /\ OneCall /\ LooseRow
  /\ NotYet /\ Unsent /\ CutOff
  /\ OneEffect /\ AsOnRecord

-----------------------------------------------------------------------------
(* A call of execute_pending_action in progress.                            *)
Call == [at : {"checked", "running"}, action : Actions, payload : Payloads,
         acted : BOOLEAN]

(* A task is idle or in a call, which is about an action that has a row.    *)
LEMMA RunShape ==
  ASSUME TypeOK, NEW t \in Tasks
  PROVE  /\ run[t].at # "idle" => run[t] \in Call
         /\ run[t].at = "idle" => run[t] = Idle
         /\ run[t].at \in {"idle", "checked", "running"}
BY DEF TypeOK, Idle, Called, Call

(* The expiry pass turns pending rows to expired and leaves the rest.       *)
LEMMA ExpiryPass ==
  ASSUME TypeOK
  PROVE  /\ Expired \in [Actions -> Statuses]
         /\ \A a \in Actions : Expired[a] # status[a] =>
              status[a] = "pending" /\ Expired[a] = "expired"
BY DEF TypeOK, Expired, Stale, Statuses

(* A row keeps its fields once it has them, and every variable its type.    *)
LEMMA TypeStep == TypeOK /\ [Next]_vars => TypeOK'
<1> SUFFICES ASSUME TypeOK, [Next]_vars PROVE TypeOK'
  OBVIOUS
<1> USE ConstantsAssumption DEF TypeOK
<1>1. ASSUME NEW c \in Channels, NEW p \in Payloads, Create(c, p) PROVE TypeOK'
  <2>1. RowsFilled'
    <3>1. \A a \in Actions : status'[a] # "absent" =>
            a <= made' /\ draft'[a] \in Payloads /\ from'[a] \in Channels
      BY <1>1, ExpiryPass DEF RowsFilled, Statuses, Create, Actions
    <3>2. \A a \in Actions : status[a] # "absent" => status'[a] # "absent"
      BY <1>1, ExpiryPass DEF Create
    <3>3. \A t \in Tasks : run'[t].at # "idle" => status'[run'[t].action] # "absent"
      BY <1>1, <3>2, RunShape DEF RowsFilled, Call, Create
    <3> QED
      BY <3>1, <3>3 DEF RowsFilled
  <2> QED
    BY <1>1, <2>1, ExpiryPass DEF Statuses, Create, world, Actions
<1>2. CASE Look
  <2>1. RowsFilled'
    BY <1>2, ExpiryPass, RunShape DEF RowsFilled, Call, Statuses, Look, world
  <2> QED
    BY <1>2, <2>1, ExpiryPass DEF Statuses, Look, world
<1>3. ASSUME NEW a \in Actions, NEW p \in Payloads, Edit(a, p) PROVE TypeOK'
  <2>1. RowsFilled'
    BY <1>3 DEF RowsFilled, Edit, Editable, world
  <2> QED
    BY <1>3, <2>1 DEF Statuses, Edit, Editable, world
<1>4. ASSUME NEW a \in Actions, Reject(a) PROVE TypeOK'
  <2>1. RowsFilled'
    BY <1>4 DEF RowsFilled, Reject, Rejectable, world
  <2> QED
    BY <1>4, <2>1 DEF Statuses, Reject, Rejectable, world
<1>5. ASSUME NEW a \in Actions, Elapse(a) PROVE TypeOK'
  <2>1. RowsFilled'
    BY <1>5 DEF RowsFilled, Elapse, store, world, Actions
  <2>2. due' \subseteq 1 .. made'
    <3>1. due' = due \cup {a} /\ made' = made /\ a <= made
      BY <1>5 DEF Elapse, store
    <3>2. due \subseteq 1 .. made /\ made \in Nat /\ a \in Nat /\ 1 <= a
      BY DEF ConstantsAssumption, Actions
    <3> HIDE DEF TypeOK
    <3> QED
      BY <3>1, <3>2
  <2>3. UNCHANGED <<made, status, draft, from, run, loose, times, sentAs, told,
                     stranded, crashes>>
    BY <1>5 DEF Elapse, store, world
  <2> QED
    BY <2>1, <2>2, <2>3
<1>6. ASSUME NEW t \in Tasks, NEW a \in Actions, Check(t, a) PROVE TypeOK'
  <2>1. RowsFilled'
    BY <1>6, ExpiryPass, RunShape DEF RowsFilled, Call, Statuses, Check, Approvable,
       Called, world
  <2> QED
    BY <1>6, <2>1, ExpiryPass DEF Statuses, Check, Approvable, Called, world, RowsFilled
<1>7. ASSUME NEW b \in Buttons, NEW a \in Actions, PressLate(b, a) PROVE TypeOK'
  <2>1. RowsFilled'
    BY <1>7, ExpiryPass, RunShape DEF RowsFilled, Call, Statuses, PressLate, Tell, world
  <2> QED
    BY <1>7, <2>1, ExpiryPass DEF Statuses, PressLate, Tell, world
<1>8. ASSUME NEW t \in Tasks, Mark(t) PROVE TypeOK'
  <2>1. RowsFilled'
    BY <1>8, RunShape DEF RowsFilled, Mark, Called, Call, world
  <2> QED
    BY <1>8, <2>1, RunShape DEF Statuses, Mark, Called, Call, world
<1>9. ASSUME NEW t \in Tasks, Act(t) PROVE TypeOK'
  <2>1. RowsFilled'
    BY <1>9, RunShape DEF RowsFilled, Act, Effect, Called, Call, store
  <2> QED
    BY <1>9, <2>1, RunShape DEF Statuses, Act, Effect, Called, Call, store
<1>10. ASSUME NEW t \in Tasks, Return(t) PROVE TypeOK'
  <2>1. RowsFilled'
    BY <1>10, RunShape DEF RowsFilled, Return, Answer, Ended, Tell, Call, Called, Idle,
       world
  <2> QED
    BY <1>10, <2>1, RunShape DEF Statuses, Return, Answer, Ended, Tell, Call, world
<1>11. ASSUME NEW t \in Tasks, Raise(t) PROVE TypeOK'
  <2>1. RowsFilled'
    BY <1>11, RunShape DEF RowsFilled, Raise, MarkFailed, FailedWord, Answer, Ended,
       Tell, Call, Called, Idle, world
  <2> QED
    BY <1>11, <2>1, RunShape DEF Statuses, Raise, MarkFailed, FailedWord, Answer, Ended,
       Tell, Call, world
<1>12. ASSUME NEW c \in Chats, Cancel(c) PROVE TypeOK'
  <2>1. RowsFilled'
    BY <1>12, RunShape DEF RowsFilled, Cancel, Ended, Tell, Tasks, Call, Called, Idle, store
  <2> QED
    BY <1>12, <2>1, RunShape DEF Statuses, Cancel, Ended, Tell, Tasks, Call, store
<1>13. ASSUME NEW x \in loose, LateAct(x) PROVE TypeOK'
  <2>1. RowsFilled'
    BY <1>13 DEF RowsFilled, LateAct, Effect, store
  <2> QED
    BY <1>13, <2>1 DEF Statuses, LateAct, Effect, store
<1>14. CASE Crash
  <2>1. RowsFilled'
    BY <1>14 DEF RowsFilled, Crash, Idle, Called
  <2> QED
    BY <1>14, <2>1, RunShape DEF Statuses, Crash, Call
<1>15. CASE UNCHANGED vars
  BY <1>15 DEF vars, RowsFilled
<1> QED
  BY <1>1, <1>2, <1>3, <1>4, <1>5, <1>6, <1>7, <1>8,
     <1>9, <1>10, <1>11, <1>12, <1>13, <1>14, <1>15
     DEF Next, Press, Go, Choice, Own, Pending, Tasks

-----------------------------------------------------------------------------
(* The inductive step.                                                      *)
LEMMA InvStep == IInv /\ [Next]_vars => IInv'
<1> SUFFICES ASSUME IInv, [Next]_vars PROVE IInv'
  OBVIOUS
<1> USE ConstantsAssumption
<1>0. TypeOK'
  BY TypeStep DEF IInv
<1> USE <1>0
<1>1. ASSUME NEW c \in Channels, NEW p \in Payloads, Create(c, p) PROVE IInv'
  <2>1. CheckedRow'
    BY <1>1 DEF IInv, CheckedRow, Create, LoopFree
  <2>2. RunningRow'
    BY <1>1, RunShape, ExpiryPass DEF IInv, RunningRow, TypeOK, Call, CheckedRow,
       OneCall, Unsent, NotYet, Create, LoopFree, world
  <2>3. OneCall'
    BY <1>1 DEF IInv, OneCall, Create
  <2>4. LooseRow'
    BY <1>1, ExpiryPass DEF IInv, LooseRow, TypeOK, CheckedRow, NotYet, Create,
       LoopFree, world
  <2>5. NotYet'
    BY <1>1, ExpiryPass DEF IInv, NotYet, TypeOK, Create, world, Actions
  <2>6. Unsent'
    <3>1. made + 1 \in Actions /\ times[made + 1] = 0
      BY <1>1 DEF IInv, NotYet, TypeOK, Create
    <3>2. ASSUME NEW a \in Actions, status'[a] \in {"pending", "rejected", "expired"}
          PROVE  a = made + 1 \/ times[a] = 0
      BY <1>1, <3>2, ExpiryPass DEF IInv, Unsent, TypeOK, Create
    <3> QED
      BY <1>1, <3>1, <3>2 DEF Unsent, Create, world
  <2>7. CutOff'
    BY <1>1, ExpiryPass DEF IInv, CutOff, Running, Create
  <2>8. OneEffect'
    BY <1>1 DEF IInv, OneEffect, Create, world
  <2>9. AsOnRecord'
    BY <1>1, ExpiryPass DEF IInv, AsOnRecord, TypeOK, CheckedRow, RunningRow, NotYet,
       Create, world
  <2> QED
    BY <2>1, <2>2, <2>3, <2>4, <2>5, <2>6, <2>7, <2>8, <2>9 DEF IInv
<1>2. CASE Look
  <2>1. CheckedRow'
    BY <1>2, RunShape, ExpiryPass DEF IInv, CheckedRow, Call, Look
  <2>2. RunningRow'
    BY <1>2, RunShape, ExpiryPass DEF IInv, RunningRow, Call, Look, world
  <2>3. OneCall'
    BY <1>2 DEF IInv, OneCall, Look
  <2>4. LooseRow'
    BY <1>2, ExpiryPass DEF IInv, LooseRow, TypeOK, Look, world
  <2>5. NotYet'
    BY <1>2, ExpiryPass DEF IInv, NotYet, Look, world
  <2>6. Unsent'
    BY <1>2, ExpiryPass DEF IInv, Unsent, Look, world
  <2>7. CutOff'
    BY <1>2, ExpiryPass DEF IInv, CutOff, Running, Look
  <2>8. OneEffect'
    BY <1>2 DEF IInv, OneEffect, Look, world
  <2>9. AsOnRecord'
    BY <1>2, ExpiryPass DEF IInv, AsOnRecord, Look, world
  <2> QED
    BY <2>1, <2>2, <2>3, <2>4, <2>5, <2>6, <2>7, <2>8, <2>9 DEF IInv
<1>3. ASSUME NEW a \in Actions, NEW p \in Payloads, Edit(a, p) PROVE IInv'
  <2>1. CheckedRow'
    BY <1>3 DEF IInv, CheckedRow, Edit, LoopFree
  <2>2. RunningRow'
    BY <1>3 DEF IInv, RunningRow, Edit, Editable, world
  <2>3. OneCall'
    BY <1>3 DEF IInv, OneCall, Edit
  <2>4. LooseRow'
    BY <1>3 DEF IInv, LooseRow, Edit, Editable, world
  <2>5. NotYet'
    BY <1>3 DEF IInv, NotYet, Edit, world
  <2>6. Unsent'
    BY <1>3 DEF IInv, Unsent, Edit, world
  <2>7. CutOff'
    BY <1>3 DEF IInv, CutOff, Running, Edit
  <2>8. OneEffect'
    BY <1>3 DEF IInv, OneEffect, Edit, world
  <2>9. AsOnRecord'
    BY <1>3 DEF IInv, AsOnRecord, Unsent, Edit, Editable, world
  <2> QED
    BY <2>1, <2>2, <2>3, <2>4, <2>5, <2>6, <2>7, <2>8, <2>9 DEF IInv
<1>4. ASSUME NEW a \in Actions, Reject(a) PROVE IInv'
  <2>1. CheckedRow'
    BY <1>4 DEF IInv, CheckedRow, Reject, LoopFree
  <2>2. RunningRow'
    BY <1>4 DEF IInv, RunningRow, Reject, Rejectable, world
  <2>3. OneCall'
    BY <1>4 DEF IInv, OneCall, Reject
  <2>4. LooseRow'
    BY <1>4 DEF IInv, LooseRow, Reject, Rejectable, world
  <2>5. NotYet'
    BY <1>4 DEF IInv, NotYet, Reject, Rejectable, world
  <2>6. Unsent'
    BY <1>4 DEF IInv, Unsent, Reject, Rejectable, world
  <2>7. CutOff'
    BY <1>4 DEF IInv, CutOff, Running, Reject
  <2>8. OneEffect'
    BY <1>4 DEF IInv, OneEffect, Reject, world
  <2>9. AsOnRecord'
    BY <1>4 DEF IInv, AsOnRecord, Reject, Rejectable, world
  <2> QED
    BY <2>1, <2>2, <2>3, <2>4, <2>5, <2>6, <2>7, <2>8, <2>9 DEF IInv
<1>5. ASSUME NEW a \in Actions, Elapse(a) PROVE IInv'
  <2>1. CheckedRow'
    BY <1>5 DEF IInv, CheckedRow, Elapse, store
  <2>2. RunningRow'
    BY <1>5 DEF IInv, RunningRow, Elapse, store, world
  <2>3. OneCall'
    BY <1>5 DEF IInv, OneCall, Elapse
  <2>4. LooseRow'
    BY <1>5 DEF IInv, LooseRow, Elapse, store, world
  <2>5. NotYet'
    BY <1>5 DEF IInv, NotYet, Elapse, store, world
  <2>6. Unsent'
    BY <1>5 DEF IInv, Unsent, Elapse, store, world
  <2>7. CutOff'
    BY <1>5 DEF IInv, CutOff, Running, Elapse, store
  <2>8. OneEffect'
    BY <1>5 DEF IInv, OneEffect, Elapse, world
  <2>9. AsOnRecord'
    BY <1>5 DEF IInv, AsOnRecord, Elapse, store, world
  <2> QED
    BY <2>1, <2>2, <2>3, <2>4, <2>5, <2>6, <2>7, <2>8, <2>9 DEF IInv
<1>6. ASSUME NEW t \in Tasks, NEW a \in Actions, Ready(t), Check(t, a) PROVE IInv'
  <2>1. CheckedRow'
    BY <1>6 DEF IInv, CheckedRow, Ready, LoopFree, Check, Approvable, Called
  <2>2. RunningRow'
    BY <1>6, ExpiryPass DEF IInv, RunningRow, TypeOK, Ready, Check, Called, world
  <2>3. OneCall'
    BY <1>6, ExpiryPass DEF IInv, OneCall, TypeOK, RunningRow, Ready, LoopFree, Check,
       Approvable, Called
  <2>4. LooseRow'
    BY <1>6, ExpiryPass DEF IInv, LooseRow, TypeOK, Check, Approvable, Called, world
  <2>5. NotYet'
    BY <1>6, ExpiryPass DEF IInv, NotYet, Check, world
  <2>6. Unsent'
    BY <1>6, ExpiryPass DEF IInv, Unsent, Check, world
  <2>7. CutOff'
    BY <1>6, ExpiryPass DEF IInv, CutOff, Running, Ready, Check, Called
  <2>8. OneEffect'
    BY <1>6 DEF IInv, OneEffect, Check, world
  <2>9. AsOnRecord'
    BY <1>6, ExpiryPass DEF IInv, AsOnRecord, Check, world
  <2> QED
    BY <2>1, <2>2, <2>3, <2>4, <2>5, <2>6, <2>7, <2>8, <2>9 DEF IInv
<1>7. ASSUME NEW b \in Buttons, NEW a \in Actions, PressLate(b, a) PROVE IInv'
  <2>1. CheckedRow'
    BY <1>7 DEF IInv, CheckedRow, PressLate, Ready, LoopFree
  <2>2. RunningRow'
    BY <1>7, RunShape, ExpiryPass DEF IInv, RunningRow, Call, PressLate, world
  <2>3. OneCall'
    BY <1>7 DEF IInv, OneCall, PressLate
  <2>4. LooseRow'
    BY <1>7, ExpiryPass DEF IInv, LooseRow, TypeOK, PressLate, world
  <2>5. NotYet'
    BY <1>7, ExpiryPass DEF IInv, NotYet, PressLate, world
  <2>6. Unsent'
    BY <1>7, ExpiryPass DEF IInv, Unsent, PressLate, world
  <2>7. CutOff'
    BY <1>7, ExpiryPass DEF IInv, CutOff, Running, PressLate
  <2>8. OneEffect'
    BY <1>7 DEF IInv, OneEffect, PressLate, world
  <2>9. AsOnRecord'
    BY <1>7, ExpiryPass DEF IInv, AsOnRecord, PressLate, world
  <2> QED
    BY <2>1, <2>2, <2>3, <2>4, <2>5, <2>6, <2>7, <2>8, <2>9 DEF IInv
<1>8. ASSUME NEW t \in Tasks, Mark(t) PROVE IInv'
  <2>1. CheckedRow'
    BY <1>8 DEF IInv, CheckedRow, TypeOK, OneCall, Mark, Called
  <2>2. RunningRow'
    BY <1>8 DEF IInv, RunningRow, TypeOK, CheckedRow, Unsent, Mark, Called, world
  <2>3. OneCall'
    BY <1>8 DEF IInv, OneCall, Mark, Called
  <2>4. LooseRow'
    BY <1>8 DEF IInv, LooseRow, Mark, Called, world
  <2>5. NotYet'
    BY <1>8 DEF IInv, NotYet, CheckedRow, Mark, world
  <2>6. Unsent'
    BY <1>8 DEF IInv, Unsent, Mark, world
  <2>7. CutOff'
    BY <1>8 DEF IInv, CutOff, Running, TypeOK, Mark, Called
  <2>8. OneEffect'
    BY <1>8 DEF IInv, OneEffect, Mark, world
  <2>9. AsOnRecord'
    BY <1>8 DEF IInv, AsOnRecord, CheckedRow, Mark, world
  <2> QED
    BY <2>1, <2>2, <2>3, <2>4, <2>5, <2>6, <2>7, <2>8, <2>9 DEF IInv
<1>9. ASSUME NEW t \in Tasks, Act(t) PROVE IInv'
  <2>1. CheckedRow'
    BY <1>9 DEF IInv, CheckedRow, Act, Called, store
  <2>2. RunningRow'
    BY <1>9 DEF IInv, RunningRow, TypeOK, OneCall, Act, Effect, Called, store
  <2>3. OneCall'
    BY <1>9 DEF IInv, OneCall, Act, Called
  <2>4. LooseRow'
    BY <1>9 DEF IInv, LooseRow, Act, Effect, Called, store
  <2>5. NotYet'
    BY <1>9 DEF IInv, NotYet, RunningRow, Act, Effect, store
  <2>6. Unsent'
    BY <1>9 DEF IInv, Unsent, RunningRow, Act, Effect, store
  <2>7. CutOff'
    BY <1>9 DEF IInv, CutOff, Running, Act, Called, store
  <2>8. OneEffect'
    BY <1>9 DEF IInv, OneEffect, RunningRow, Act, Effect
  <2>9. AsOnRecord'
    BY <1>9 DEF IInv, AsOnRecord, TypeOK, RunningRow, Act, Effect, store
  <2> QED
    BY <2>1, <2>2, <2>3, <2>4, <2>5, <2>6, <2>7, <2>8, <2>9 DEF IInv
<1>10. ASSUME NEW t \in Tasks, Return(t) PROVE IInv'
  <2>1. CheckedRow'
    BY <1>10 DEF IInv, CheckedRow, Return, LoopFree, Answer, Ended, Idle, Called
  <2>2. RunningRow'
    BY <1>10 DEF IInv, RunningRow, TypeOK, OneCall, Return, Answer, Ended, Idle, Called,
       world
  <2>3. OneCall'
    BY <1>10 DEF IInv, OneCall, Return, Answer, Ended, Idle, Called
  <2>4. LooseRow'
    BY <1>10 DEF IInv, LooseRow, TypeOK, Return, Answer, Ended, Idle, Called, world
  <2>5. NotYet'
    BY <1>10 DEF IInv, NotYet, RunningRow, Return, Answer, world
  <2>6. Unsent'
    BY <1>10 DEF IInv, Unsent, Return, Answer, world
  <2>7. CutOff'
    BY <1>10 DEF IInv, CutOff, Running, TypeOK, Return, Answer, Ended
  <2>8. OneEffect'
    BY <1>10 DEF IInv, OneEffect, Return, Answer, world
  <2>9. AsOnRecord'
    BY <1>10 DEF IInv, AsOnRecord, RunningRow, Return, Answer, world
  <2> QED
    BY <2>1, <2>2, <2>3, <2>4, <2>5, <2>6, <2>7, <2>8, <2>9 DEF IInv
<1>11. ASSUME NEW t \in Tasks, Raise(t) PROVE IInv'
  <2>1. CheckedRow'
    BY <1>11 DEF IInv, CheckedRow, Raise, LoopFree, Answer, Ended, Idle, Called
  <2>2. RunningRow'
    BY <1>11 DEF IInv, RunningRow, TypeOK, OneCall, Raise, MarkFailed, Answer, Ended,
       Idle, Called, world
  <2>3. OneCall'
    BY <1>11 DEF IInv, OneCall, Raise, Answer, Ended, Idle, Called
  <2>4. LooseRow'
    BY <1>11 DEF IInv, LooseRow, TypeOK, Raise, MarkFailed, Answer, Ended, Idle, Called,
       world
  <2>5. NotYet'
    BY <1>11 DEF IInv, NotYet, RunningRow, Raise, MarkFailed, Answer, world
  <2>6. Unsent'
    BY <1>11 DEF IInv, Unsent, Raise, MarkFailed, Answer, world
  <2>7. CutOff'
    BY <1>11 DEF IInv, CutOff, Running, TypeOK, Raise, MarkFailed, Answer, Ended
  <2>8. OneEffect'
    BY <1>11 DEF IInv, OneEffect, Raise, Answer, world
  <2>9. AsOnRecord'
    BY <1>11 DEF IInv, AsOnRecord, RunningRow, Raise, MarkFailed, Answer, world
  <2> QED
    BY <2>1, <2>2, <2>3, <2>4, <2>5, <2>6, <2>7, <2>8, <2>9 DEF IInv
<1>12. ASSUME NEW c \in Chats, Cancel(c) PROVE IInv'
  <2>1. CheckedRow'
    BY <1>12 DEF IInv, CheckedRow, Cancel, Ended, Idle, Called, store
  <2>2. RunningRow'
    BY <1>12 DEF IInv, RunningRow, Cancel, Ended, Idle, Called, store
  <2>3. OneCall'
    BY <1>12 DEF IInv, OneCall, Cancel, Ended, Idle, Called
  <2>4. LooseRow'
    BY <1>12 DEF IInv, LooseRow, TypeOK, RunningRow, OneCall, Cancel, Ended, Idle,
       Called, store
  <2>5. NotYet'
    BY <1>12 DEF IInv, NotYet, Cancel, store
  <2>6. Unsent'
    BY <1>12 DEF IInv, Unsent, Cancel, store
  <2>7. CutOff'
    BY <1>12 DEF IInv, CutOff, Running, Cancel, Ended, store
  <2>8. OneEffect'
    BY <1>12 DEF IInv, OneEffect, Cancel
  <2>9. AsOnRecord'
    BY <1>12 DEF IInv, AsOnRecord, Cancel, store
  <2> QED
    BY <2>1, <2>2, <2>3, <2>4, <2>5, <2>6, <2>7, <2>8, <2>9 DEF IInv
<1>13. ASSUME NEW x \in loose, LateAct(x) PROVE IInv'
  <2>1. CheckedRow'
    BY <1>13 DEF IInv, CheckedRow, LateAct, store
  <2>2. RunningRow'
    BY <1>13 DEF IInv, RunningRow, LooseRow, LateAct, Effect, store
  <2>3. OneCall'
    BY <1>13 DEF IInv, OneCall, LateAct
  <2>4. LooseRow'
    BY <1>13 DEF IInv, LooseRow, TypeOK, LateAct, Effect, store
  <2>5. NotYet'
    BY <1>13 DEF IInv, NotYet, LooseRow, LateAct, Effect, store
  <2>6. Unsent'
    BY <1>13 DEF IInv, Unsent, LooseRow, LateAct, Effect, store
  <2>7. CutOff'
    BY <1>13 DEF IInv, CutOff, Running, LateAct, store
  <2>8. OneEffect'
    BY <1>13 DEF IInv, OneEffect, LooseRow, LateAct, Effect
  <2>9. AsOnRecord'
    BY <1>13 DEF IInv, AsOnRecord, TypeOK, LooseRow, LateAct, Effect, store
  <2> QED
    BY <2>1, <2>2, <2>3, <2>4, <2>5, <2>6, <2>7, <2>8, <2>9 DEF IInv
<1>14. CASE Crash
  <2>1. CheckedRow'
    BY <1>14 DEF IInv, CheckedRow, Crash, Idle, Called
  <2>2. RunningRow'
    BY <1>14 DEF IInv, RunningRow, Crash, Idle, Called
  <2>3. OneCall'
    BY <1>14 DEF IInv, OneCall, Crash, Idle, Called
  <2>4. LooseRow'
    BY <1>14 DEF IInv, LooseRow, Crash
  <2>5. NotYet'
    BY <1>14 DEF IInv, NotYet, Crash
  <2>6. Unsent'
    BY <1>14 DEF IInv, Unsent, Crash
  <2>7. CutOff'
    BY <1>14 DEF IInv, CutOff, Running, Crash
  <2>8. OneEffect'
    BY <1>14 DEF IInv, OneEffect, Crash
  <2>9. AsOnRecord'
    BY <1>14 DEF IInv, AsOnRecord, Crash
  <2> QED
    BY <2>1, <2>2, <2>3, <2>4, <2>5, <2>6, <2>7, <2>8, <2>9 DEF IInv
<1>15. CASE UNCHANGED vars
  BY <1>15 DEF vars, IInv, TypeOK, CheckedRow, RunningRow, OneCall, LooseRow, NotYet,
     Unsent, CutOff, OneEffect, AsOnRecord, Running
<1> QED
  BY <1>1, <1>2, <1>3, <1>4, <1>5, <1>6, <1>7, <1>8,
     <1>9, <1>10, <1>11, <1>12, <1>13, <1>14, <1>15
     DEF Next, Press, Go, Choice, Own, Pending, Tasks

LEMMA InvInit == Init => IInv
<1> SUFFICES ASSUME Init PROVE IInv
  OBVIOUS
<1> USE ConstantsAssumption DEF Init
<1>1. TypeOK
  BY DEF TypeOK, RowsFilled, Statuses, Idle, Called
<1>2. CheckedRow /\ RunningRow /\ OneCall /\ LooseRow
  BY DEF CheckedRow, RunningRow, OneCall, LooseRow, Idle, Called
<1>3. NotYet /\ Unsent /\ CutOff /\ OneEffect /\ AsOnRecord
  BY DEF NotYet, Unsent, CutOff, OneEffect, AsOnRecord
<1> QED
  BY <1>1, <1>2, <1>3 DEF IInv

-----------------------------------------------------------------------------
(* Every reachable state has its type: PendingActions in general.           *)
THEOREM PendingTypeCorrect == Spec => []TypeOK
<1>1. Init => TypeOK
  BY InvInit DEF IInv
<1> QED
  BY <1>1, TypeStep, PTL DEF Spec

(* The inductive invariant holds throughout.                                *)
THEOREM PendingInvariance == Spec => []IInv
BY InvInit, InvStep, PTL DEF Spec

(* An action takes effect at most once: execute_pending_action under any    *)
(* number of approvals, failures, cancelled chats and crashes.              *)
THEOREM OneEffectHolds == Spec => []OneEffect
<1>1. IInv => OneEffect
  BY DEF IInv
<1> QED
  BY <1>1, PendingInvariance, PTL

(* What took effect is the payload on record, whenever the row is edited.   *)
THEOREM AsOnRecordHolds == Spec => []AsOnRecord
<1>1. IInv => AsOnRecord
  BY DEF IInv
<1> QED
  BY <1>1, PendingInvariance, PTL

(* An open or refused row has no effect behind it or under way: rejections  *)
(* and expiry passes against approvals.                                     *)
THEOREM RefusedUntouchedHolds == Spec => []RefusedUntouched
<1>1. IInv => RefusedUntouched
  <2> SUFFICES ASSUME IInv, NEW a \in Actions,
                      status[a] \in {"pending", "rejected", "expired"}
               PROVE  times[a] = 0 /\ ~ Running(a) /\ ~ Loose(a)
    BY DEF RefusedUntouched
  <2>1. times[a] = 0
    BY DEF IInv, Unsent
  <2>2. ~ Running(a)
    BY DEF IInv, RunningRow, Running
  <2>3. ~ Loose(a)
    BY DEF IInv, LooseRow, Loose
  <2> QED
    BY <2>1, <2>2, <2>3
<1> QED
  BY <1>1, PendingInvariance, PTL

(* An approved row has its executor, or its call was cut off.               *)
THEOREM ApprovedOwnedHolds == Spec => []ApprovedOwned
<1>1. IInv => ApprovedOwned
  BY DEF IInv, RunningRow, CutOff, Running, ApprovedOwned
<1> QED
  BY <1>1, PendingInvariance, PTL

-----------------------------------------------------------------------------
(* The row a call ends or marks was not settled before.                     *)
LEMMA OutcomeStep ==
  ASSUME IInv, [Next]_vars, NEW a \in Actions,
         status[a] \in {"rejected", "executed", "failed"}
  PROVE  status'[a] \in {status[a], "absent"}
<1> USE DEF IInv
<1>1. Expired[a] = status[a]
  BY DEF Expired, Stale
<1>2. CASE Look \/ \E t \in Tasks, b \in Actions : Check(t, b) \/ PressLate(t, b)
  BY <1>1, <1>2 DEF Look, Check, PressLate
<1>3. CASE \E c \in Channels, p \in Payloads : Create(c, p)
  <2>1. a # made + 1
    BY DEF NotYet, TypeOK, Actions
  <2> QED
    BY <1>1, <1>3, <2>1, ExpiryPass DEF Create
<1>4. CASE \E t \in Tasks : Mark(t) \/ Return(t) \/ Raise(t)
  <2>1. PICK t \in Tasks : Mark(t) \/ Return(t) \/ Raise(t)
    BY <1>4
  <2>2. a # run[t].action
    BY <2>1 DEF CheckedRow, RunningRow, Mark, Return, Raise
  <2> QED
    BY <2>1, <2>2 DEF Mark, Return, Raise, MarkFailed, TypeOK
<1>5. CASE \E b \in Actions : Reject(b)
  BY <1>5 DEF Reject, Rejectable, TypeOK
<1>6. CASE UNCHANGED status
  BY <1>6
<1>7. CASE Crash
  BY <1>7 DEF Crash
<1>8. \/ Look \/ \E t \in Tasks, b \in Actions : Check(t, b) \/ PressLate(t, b)
      \/ \E c \in Channels, p \in Payloads : Create(c, p)
      \/ \E t \in Tasks : Mark(t) \/ Return(t) \/ Raise(t)
      \/ \E b \in Actions : Reject(b)
      \/ UNCHANGED status
      \/ Crash
  BY DEF Next, Press, Go, Choice, Own, Pending, Tasks, Edit, Elapse, Cancel, Act, LateAct, store, vars
<1> QED
  BY <1>2, <1>3, <1>4, <1>5, <1>6, <1>7, <1>8

(* A rejected, executed or failed row stays so: _mark_action is only called *)
(* for rows that are not settled.                                           *)
THEOREM PendingOutcomeFinalHolds == Spec => OutcomeFinal
<1>1. IInv /\ [Next]_vars =>
        [\A a \in Actions : status[a] \in {"rejected", "executed", "failed"} =>
           status'[a] \in {status[a], "absent"}]_vars
  BY OutcomeStep
<1> QED
  BY <1>1, PendingInvariance, PTL DEF Spec, OutcomeFinal
=============================================================================

--------------------------- MODULE CursorJobsProofs ---------------------------
(***************************************************************************)
(* What holds of the Slack coding jobs for every set of jobs, every pool   *)
(* size and every number of crashes.                                       *)
(***************************************************************************)
EXTENDS CursorJobs, FiniteSetTheorems, SequenceTheorems, TLAPS

-----------------------------------------------------------------------------
(* The queue file after a claim still holds lines of jobs.                  *)
LEMMA KeptType ==
  ASSUME NEW q \in Seq(Jobs), NEW n \in Nat
  PROVE  Kept(q, n) \in Seq(Jobs)
<1> DEFINE dropped == {i \in DOMAIN q : Cardinality({k \in Fresh(q) : k < i}) < n}
           m == Cardinality(dropped)
<1>1. IsFiniteSet(1 .. Len(q))
  BY FS_Interval
<1>2. m \in Nat
  <2>1. dropped \in SUBSET (1 .. Len(q))
    OBVIOUS
  <2>2. IsFiniteSet(dropped)
    BY <1>1, <2>1, FS_Subset
  <2> QED BY <2>2, FS_CardinalityType
<1>3. SubSeq(q, m + 1, Len(q)) \in Seq(Jobs)
  <2> HIDE DEF m
  <2>1. \A i \in m + 1 .. Len(q) : q[i] \in Jobs
    BY <1>2
  <2> QED BY <1>2, <2>1
<1> QED BY <1>3 DEF Kept

-----------------------------------------------------------------------------
(* Nothing is stored and no task runs before the first boot.                *)
LEMMA TypeInit == Init => TypeOK
BY ConstantsAssumption DEF Init, TypeOK, NoIo, NoTask, Status, NoRow, PC, Retries

(* The slots the worker loop computes from the rows are a natural number.   *)
LEMMA SlotsType == Slots \in Nat
<1>1. Cardinality(Occupying) \in Nat
  BY ConstantsAssumption, FS_Subset, FS_CardinalityType DEF Occupying
<1> QED BY <1>1, ConstantsAssumption DEF Slots

(* A claim takes jobs that have a line in the queue file.                   *)
LEMMA ClaimedType ==
  ASSUME NEW q \in Seq(Jobs), NEW n \in Nat
  PROVE  Claimed(q, n) \in SUBSET Jobs
<1>1. \A i \in DOMAIN q : q[i] \in Jobs
  OBVIOUS
<1> QED BY <1>1 DEF Claimed, FirstFresh, Fresh

(* What EnterGate and AfterWork write has the right type.                   *)
LEMMA EnterGateType ==
  ASSUME TypeOK, NEW j \in Jobs, NEW known \in BOOLEAN, EnterGate(j, known)
  PROVE  status' \in [Jobs -> Status] /\ pc' \in [Jobs -> PC]
<1> USE DEF TypeOK, SetStatus, Goto, Finish, Status, InFlight, Ended, PC
<1>1. CASE Gate(j, known)
  BY <1>1 DEF EnterGate
<1>2. CASE ~Gate(j, known)
  BY <1>2 DEF EnterGate
<1> QED BY <1>1, <1>2

(* Ending the agent's work keeps the row's status and the task's place      *)
(* typed.                                                                   *)
LEMMA AfterWorkType ==
  ASSUME TypeOK, NEW j \in Jobs, AfterWork(j)
  PROVE  status' \in [Jobs -> Status] /\ pc' \in [Jobs -> PC]
<1>1. CASE ask[j].mode = "write" /\ ~pr[j]
  BY <1>1 DEF AfterWork, Goto, TypeOK, PC
<1>2. CASE ~(ask[j].mode = "write" /\ ~pr[j])
  BY <1>2, EnterGateType DEF AfterWork, TypeOK
<1> QED BY <1>1, <1>2

(* Each store operation, task step and daemon step keeps every field        *)
(* typed.                                                                   *)
LEMMA TypeNext ==
  ASSUME TypeOK, [Next]_vars
  PROVE  TypeOK'
<1> USE ConstantsAssumption DEF ConstantsAssumption, TypeOK, store, task,
        Status, NoRow, InFlight, Ended, PC, NoTask, NoIo, Retries
<1>1. ASSUME NEW j \in Jobs, NEW a \in Asks, EnqueueWriteStatus(j, a) PROVE TypeOK'
  BY <1>1 DEF EnqueueWriteStatus
<1>2. ASSUME NEW j \in Jobs, EnqueueAppendLine(j) PROVE TypeOK'
  BY <1>2 DEF EnqueueAppendLine
<1>3. ASSUME NEW j \in Jobs, AcquireSem(j) PROVE TypeOK'
  BY <1>3 DEF AcquireSem, Goto
<1>4. ASSUME NEW j \in Jobs, AcquireRepoLock(j) PROVE TypeOK'
  BY <1>4 DEF AcquireRepoLock, Goto
<1>5. ASSUME NEW j \in Jobs, StartComment(j) PROVE TypeOK'
  <2>1. CASE SetStatus(j, "running") /\ Goto(j, "agent")
    BY <1>5, <2>1 DEF StartComment, SetStatus, Goto, Begin
  <2>2. CASE Finish(j, "completed")
    BY <1>5, <2>2 DEF StartComment, SetStatus, Goto, Finish, Begin
  <2> QED BY <1>5, <2>1, <2>2 DEF StartComment
<1>6. ASSUME NEW j \in Jobs, StartDeadPr(j) PROVE TypeOK'
  BY <1>6 DEF StartDeadPr, SetStatus, Goto, Finish, Begin
<1>7. ASSUME NEW j \in Jobs, StartWrite(j) PROVE TypeOK'
  BY <1>7 DEF StartWrite, SetStatus, Goto, Begin
<1>8. ASSUME NEW j \in Jobs, StartCloud(j) PROVE TypeOK'
  BY <1>8 DEF StartCloud, SetStatus, Goto, Begin
<1>9. ASSUME NEW j \in Jobs, StartRead(j) PROVE TypeOK'
  <2>1. ask[j].adopts \in BOOLEAN
    <3>1. CASE ask[j] \in Asks
      BY <3>1, AsksAssumption DEF AsksAssumption, AskType
    <3>2. CASE ask[j] = NoAsk
      BY <3>2 DEF NoAsk
    <3> QED BY <3>1, <3>2
  <2> QED BY <1>9, <2>1 DEF StartRead, Goto, Begin
<1>10. ASSUME NEW j \in Jobs, AgentDone(j) PROVE TypeOK'
  <2>1. CASE AfterWork(j)
    BY <1>10, <2>1, AfterWorkType DEF AgentDone
  <2>2. CASE SetStatus(j, "running_tests") /\ Goto(j, "tests")
    BY <1>10, <2>2 DEF AgentDone, SetStatus, Goto
  <2>3. CASE Finish(j, "completed")
    BY <1>10, <2>3 DEF AgentDone, SetStatus, Goto, Finish
  <2> QED BY <1>10, <2>1, <2>2, <2>3 DEF AgentDone
<1>11. ASSUME NEW j \in Jobs, TestsDone(j) PROVE TypeOK'
  <2>1. CASE AfterWork(j)
    BY <1>11, <2>1, AfterWorkType DEF TestsDone
  <2>2. CASE Goto(j, "retest") /\ UNCHANGED status
    BY <1>11, <2>2 DEF TestsDone, Goto
  <2> QED BY <1>11, <2>1, <2>2 DEF TestsDone
<1>12. ASSUME NEW j \in Jobs, RetestDone(j) PROVE TypeOK'
  BY <1>12, AfterWorkType DEF RetestDone
<1>13. ASSUME NEW j \in Jobs, OpenPr(j) PROVE TypeOK'
  <2>1. PICK opened \in BOOLEAN : /\ pr' = [pr EXCEPT ![j] = opened]
                                  /\ EnterGate(j, opened)
    BY <1>13 DEF OpenPr
  <2> QED BY <1>13, <2>1, EnterGateType DEF OpenPr
<1>14. ASSUME NEW j \in Jobs, PollGreen(j) PROVE TypeOK'
  BY <1>14 DEF PollGreen, SetStatus, Goto, Finish, SawCi
<1>15. ASSUME NEW j \in Jobs, PollPending(j) PROVE TypeOK'
  BY <1>15 DEF PollPending, SetStatus, Goto, Finish, SawCi
<1>16. ASSUME NEW j \in Jobs, PollRed(j) PROVE TypeOK'
  <2>1. CASE fixes[j] >= MaxFix
    BY <1>16, <2>1 DEF PollRed, SetStatus, Goto, Finish, SawCi
  <2>2. CASE ~(fixes[j] >= MaxFix)
    <3>1. fixes[j] + 1 \in 0 .. MaxFix /\ fixRuns[j] + 1 \in Nat
      BY <2>2
    <3>2. /\ SetStatus(j, "fixing_ci") /\ Goto(j, "fix")
          /\ fixes' = [fixes EXCEPT ![j] = fixes[j] + 1]
          /\ fixRuns' = [fixRuns EXCEPT ![j] = fixRuns[j] + 1]
          /\ SawCi(j, "red")
          /\ UNCHANGED <<daemon, ask, queue, cut, io, route, pr, retried, told, restarts>>
      BY <1>16, <2>2 DEF PollRed
    <3> QED BY <3>1, <3>2 DEF SetStatus, Goto, SawCi
  <2> QED BY <2>1, <2>2
<1>17. ASSUME NEW j \in Jobs, FixDone(j) PROVE TypeOK'
  BY <1>17 DEF FixDone, SetStatus, Goto
<1>18. ASSUME NEW j \in Jobs, NEW f \in Faults, RaiseRetry(j, f) PROVE TypeOK'
  BY <1>18 DEF RaiseRetry, SetStatus, Goto, MayRetry, Working
<1>19. ASSUME NEW j \in Jobs, NEW f \in Faults, RaiseFinal(j, f) PROVE TypeOK'
  BY <1>19 DEF RaiseFinal, SetStatus, Goto, Finish, Working
<1>20. ASSUME NEW j \in Jobs, Notify(j) PROVE TypeOK'
  BY <1>20 DEF Notify, Goto, Outcome
<1>21. ASSUME NEW j \in Jobs, Cleanup(j) PROVE TypeOK'
  BY <1>21 DEF Cleanup, Goto
<1>22. ASSUME ClaimWriteQueue PROVE TypeOK'
  BY KeptType, SlotsType, ClaimedType, <1>22 DEF ClaimWriteQueue
<1>23. ASSUME ClaimWriteStatus PROVE TypeOK'
  BY <1>23 DEF ClaimWriteStatus
<1>24. ASSUME Boot PROVE TypeOK'
  BY <1>24 DEF Boot
<1>25. ASSUME StartWorker PROVE TypeOK'
  BY <1>25 DEF StartWorker, InterruptStale, Occupying
<1>26. ASSUME StopWorker PROVE TypeOK'
  BY <1>26 DEF StopWorker, InterruptStale, Occupying
<1>27. ASSUME Exit PROVE TypeOK'
  BY <1>27 DEF Exit, Die
<1>28. ASSUME Crash PROVE TypeOK'
  <2>1. status' \in [Jobs -> Status] /\ queue' \in Seq(Jobs) /\ cut' \in {"no", "half", "garbled"}
    <3>1. CASE UNCHANGED <<status, queue, cut>>
      BY <3>1
    <3>2. CASE TearStatus
      BY <3>2 DEF TearStatus, Waiting
    <3>3. CASE TearLine
      BY <3>3 DEF TearLine
    <3>4. CASE TearQueue
      <4>1. Kept(queue, Slots) \in Seq(Jobs)
        BY KeptType, SlotsType
      <4>2. \A n \in 1 .. Len(Kept(queue, Slots)) : SubSeq(Kept(queue, Slots), 1, n - 1) \in Seq(Jobs)
        BY <4>1
      <4> QED BY <3>4, <4>2 DEF TearQueue
    <3> QED BY <1>28, <3>1, <3>2, <3>3, <3>4 DEF Crash
  <2> QED BY <1>28, <2>1 DEF Crash, Die
<1>29. CASE UNCHANGED vars
  BY <1>29 DEF vars
<1> QED BY <1>1, <1>2, <1>3, <1>4, <1>5, <1>6, <1>7, <1>8, <1>9, <1>10,
    <1>11, <1>12, <1>13, <1>14, <1>15, <1>16, <1>17, <1>18, <1>19, <1>20,
    <1>21, <1>22, <1>23, <1>24, <1>25, <1>26, <1>27, <1>28, <1>29 DEF Next,
    Enqueue, Guarded, Start, Run, Raise, Conclude, Claim, Daemon

(* The rows, the queue file and the tasks have their types in every         *)
(* reachable state.                                                         *)
THEOREM TypeCorrect == Spec => []TypeOK
<1>1. Init => TypeOK
  BY TypeInit
<1>2. TypeOK /\ [Next]_vars => TypeOK'
  BY TypeNext
<1> QED BY <1>1, <1>2, PTL DEF Spec

-----------------------------------------------------------------------------
(* The inductive invariant: how a row and the task that owns it move        *)
(* together.                                                                *)

(* A job not claimed yet, or forgotten, has no task, and a job not claimed  *)
(* yet no message.                                                          *)
QueuedIdle ==
  \A j \in Jobs : /\ status[j] \in {"queued"} \cup NoRow => pc[j] = NoTask
                  /\ status[j] \in {"absent"} \cup Waiting => told[j] = {}

(* A line of the queue file stands for a job that waits, and is its only    *)
(* one; the jobs of a half-done store operation wait too, and have none.    *)
Lines ==
  /\ \A i \in DOMAIN queue : /\ status[queue[i]] \in Waiting
                             /\ \A k \in DOMAIN queue : queue[k] = queue[i] => k = i
  /\ io.op # "none" => \A j \in io.jobs : /\ status[j] \in Waiting
                                          /\ \A i \in DOMAIN queue : queue[i] # j

Settled == {"completed", "needs_help", "failed"}

(* A task whose row has its outcome does nothing but report and clean up,   *)
(* and a task that reports or cleans up has a row with its outcome.         *)
SettledTask ==
  \A j \in Jobs : /\ status[j] \in Settled => pc[j] \in {NoTask, "notify", "cleanup"}
                  /\ pc[j] \in {"notify", "cleanup"} => status[j] \in Settled

(* The outcome is announced last, and as recorded where it still is.        *)
ToldLast ==
  \A j \in Jobs : told[j] \ {"interrupted"} # {}
                   => /\ status[j] \in Settled \cup {"forgotten"}
                      /\ pc[j] \in {NoTask, "cleanup"}
                      /\ \E o \in Settled : /\ told[j] \ {"interrupted"} = {Outcome(o)}
                                            /\ status[j] \in {o, "forgotten"}

Linked == QueuedIdle /\ Lines /\ SettledTask /\ ToldLast
IInv == TypeOK /\ Linked /\ GreenGate /\ InFlightOwned /\ RepoExclusive

-----------------------------------------------------------------------------
(* What any step of _process_job does to its row and its task: it stays at  *)
(* work, or records the outcome, a gated success only on green.             *)
AtWork == {"start", "agent", "tests", "retest", "open_pr", "poll", "fix"}

StepTo(j, s, l) ==
  /\ pc[j] \in AtWork
  /\ status' = [status EXCEPT ![j] = s] /\ pc' = [pc EXCEPT ![j] = l]
  /\ UNCHANGED <<daemon, ask, queue, cut, io, told>>
  /\ \A k \in Jobs \ {j} : /\ route'[k] = route[k] /\ pr'[k] = pr[k]
                           /\ lastCi'[k] = lastCi[k]
  /\ \/ s \in InFlight \cup {status[j]} /\ l \in AtWork
     \/ /\ s \in Settled /\ l = "notify"
        /\ s = "completed" /\ route'[j] = "write" /\ Gate(j, pr'[j])
             => lastCi'[j] = "green"

(* Entering the CI gate moves one job, whose row is written, or completes   *)
(* it when it has no gate.                                                  *)
LEMMA EnterGateStep ==
  ASSUME TypeOK, NEW j \in Jobs, NEW known \in BOOLEAN, EnterGate(j, known)
  PROVE  \E s \in Status, l \in PC :
           /\ status' = [status EXCEPT ![j] = s] /\ pc' = [pc EXCEPT ![j] = l]
           /\ \/ s \in InFlight /\ l \in AtWork
              \/ s = "completed" /\ l = "notify" /\ ~Gate(j, known)
<1> USE DEF SetStatus, Goto, Finish, Status, InFlight, Ended, PC, AtWork
<1>1. CASE Gate(j, known)
  BY <1>1 DEF EnterGate
<1>2. CASE ~Gate(j, known)
  BY <1>2 DEF EnterGate
<1> QED BY <1>1, <1>2

(* After the agent's work a job waits for its pull request or enters the    *)
(* gate: one job moves.                                                     *)
LEMMA AfterWorkStep ==
  ASSUME TypeOK, NEW j \in Jobs, AfterWork(j), pc[j] \in AtWork,
         UNCHANGED <<daemon, ask, queue, cut, io, route, pr, fixes, lastCi, told>>
  PROVE  \E s \in Status, l \in PC : StepTo(j, s, l)
<1>1. CASE ask[j].mode = "write" /\ ~pr[j]
  <2>1. status' = [status EXCEPT ![j] = status[j]] /\ status[j] \in Status
    BY <1>1 DEF AfterWork, TypeOK
  <2> QED BY <1>1, <2>1 DEF AfterWork, Goto, StepTo, AtWork, PC
<1>2. CASE ~(ask[j].mode = "write" /\ ~pr[j])
  <2>1. EnterGate(j, pr[j]) /\ pr[j] \in BOOLEAN
    BY <1>2 DEF AfterWork, TypeOK
  <2>2. PICK s \in Status, l \in PC :
           /\ status' = [status EXCEPT ![j] = s] /\ pc' = [pc EXCEPT ![j] = l]
           /\ \/ s \in InFlight /\ l \in AtWork
              \/ s = "completed" /\ l = "notify" /\ ~Gate(j, pr[j])
    BY <2>1, EnterGateStep
  <2> QED BY <2>2 DEF StepTo, Settled, Gate
<1> QED BY <1>1, <1>2

(* Every step of Start, Run and Raise is such a step.                       *)
LEMMA StartStep ==
  ASSUME TypeOK, NEW j \in Jobs, Start(j)
  PROVE  \E s \in Status, l \in PC : StepTo(j, s, l)
<1> USE DEF TypeOK, StepTo, Begin, SetStatus, Goto, Finish, Status, InFlight,
        Ended, Settled, PC, AtWork, task, Gate
<1>1. CASE StartComment(j)
  <2>1. CASE SetStatus(j, "running") /\ Goto(j, "agent")
    BY <1>1, <2>1 DEF StartComment
  <2>2. CASE Finish(j, "completed")
    <3>1. route'[j] = "comment"
      BY <1>1 DEF StartComment
    <3> QED BY <1>1, <2>2, <3>1 DEF StartComment
  <2> QED BY <1>1, <2>1, <2>2 DEF StartComment
<1>2. CASE StartDeadPr(j)
  <2>1. route'[j] = "read"
    BY <1>2 DEF StartDeadPr
  <2> QED BY <1>2, <2>1 DEF StartDeadPr
<1>3. CASE StartWrite(j)
  BY <1>3 DEF StartWrite
<1>4. CASE StartCloud(j)
  BY <1>4 DEF StartCloud
<1>5. CASE StartRead(j)
  <2>1. status' = [status EXCEPT ![j] = status[j]] /\ status[j] \in Status
    BY <1>5 DEF StartRead
  <2> QED BY <1>5, <2>1 DEF StartRead
<1> QED BY <1>1, <1>2, <1>3, <1>4, <1>5 DEF Start

(* Every action of Run moves one job and writes at most its row.            *)
LEMMA RunStep ==
  ASSUME TypeOK, NEW j \in Jobs, Run(j)
  PROVE  \E s \in Status, l \in PC : StepTo(j, s, l)
<1> USE DEF AtWork
<1>1. CASE AgentDone(j)
  <2>1. CASE AfterWork(j)
    BY <1>1, <2>1, AfterWorkStep DEF AgentDone
  <2>2. CASE SetStatus(j, "running_tests") /\ Goto(j, "tests")
    BY <1>1, <2>2 DEF AgentDone, StepTo, SetStatus, Goto, Status, InFlight, PC
  <2>3. CASE route[j] # "write" /\ Finish(j, "completed")
    BY <1>1, <2>3 DEF AgentDone, StepTo, SetStatus, Goto, Finish, Status, Ended,
       Settled, PC
  <2> QED BY <1>1, <2>1, <2>2, <2>3 DEF AgentDone
<1>2. CASE TestsDone(j)
  <2>1. CASE AfterWork(j)
    BY <1>2, <2>1, AfterWorkStep DEF TestsDone
  <2>2. CASE Goto(j, "retest") /\ UNCHANGED status
    <3>1. status' = [status EXCEPT ![j] = status[j]] /\ status[j] \in Status
      BY <2>2 DEF TypeOK
    <3> QED BY <1>2, <2>2, <3>1 DEF TestsDone, StepTo, Goto, PC
  <2> QED BY <1>2, <2>1, <2>2 DEF TestsDone
<1>3. CASE RetestDone(j)
  BY <1>3, AfterWorkStep DEF RetestDone
<1>4. CASE OpenPr(j)
  <2>1. PICK opened \in BOOLEAN : /\ pr' = [pr EXCEPT ![j] = opened]
                                  /\ EnterGate(j, opened)
    BY <1>4 DEF OpenPr
  <2>2. PICK s \in Status, l \in PC :
           /\ status' = [status EXCEPT ![j] = s] /\ pc' = [pc EXCEPT ![j] = l]
           /\ \/ s \in InFlight /\ l \in AtWork
              \/ s = "completed" /\ l = "notify" /\ ~Gate(j, opened)
    BY <2>1, EnterGateStep
  <2>3. pr'[j] = opened /\ \A k \in Jobs \ {j} : pr'[k] = pr[k]
    BY <2>1 DEF TypeOK
  <2> QED BY <1>4, <2>2, <2>3 DEF OpenPr, StepTo, Settled
<1>5. CASE PollGreen(j)
  <2>1. lastCi'[j] = "green" /\ \A k \in Jobs \ {j} : lastCi'[k] = lastCi[k]
    BY <1>5 DEF PollGreen, SawCi, TypeOK
  <2> QED BY <1>5, <2>1 DEF PollGreen, StepTo, SetStatus, Goto, Finish, Status,
             Ended, Settled, PC
<1>6. CASE PollPending(j)
  <2>1. \A k \in Jobs \ {j} : lastCi'[k] = lastCi[k]
    BY <1>6 DEF PollPending, SawCi, TypeOK
  <2>2. CASE SetStatus(j, "waiting_ci") /\ UNCHANGED pc
    <3>1. pc' = [pc EXCEPT ![j] = "poll"]
      BY <1>6, <2>2 DEF PollPending, TypeOK
    <3> QED BY <1>6, <2>1, <2>2, <3>1 DEF PollPending, StepTo, SetStatus, Status,
               InFlight, PC
  <2>3. CASE Finish(j, "needs_help")
    <3>1. StepTo(j, "needs_help", "notify")
      BY <1>6, <2>1, <2>3 DEF PollPending, StepTo, SetStatus, Goto, Finish, Settled
    <3> QED BY <3>1 DEF Status, Ended, PC
  <2> QED BY <1>6, <2>2, <2>3 DEF PollPending
<1>7. CASE PollRed(j)
  <2>1. \A k \in Jobs \ {j} : lastCi'[k] = lastCi[k]
    BY <1>7 DEF PollRed, SawCi, TypeOK
  <2>2. CASE Finish(j, "needs_help")
    <3>1. StepTo(j, "needs_help", "notify")
      BY <1>7, <2>1, <2>2 DEF PollRed, StepTo, SetStatus, Goto, Finish, Settled
    <3> QED BY <3>1 DEF Status, Ended, PC
  <2>3. CASE SetStatus(j, "fixing_ci") /\ Goto(j, "fix")
    BY <1>7, <2>1, <2>3 DEF PollRed, StepTo, SetStatus, Goto, Status, InFlight, PC
  <2> QED BY <1>7, <2>2, <2>3 DEF PollRed
<1>8. CASE FixDone(j)
  BY <1>8 DEF FixDone, StepTo, SetStatus, Goto, Status, InFlight, PC
<1> QED BY <1>1, <1>2, <1>3, <1>4, <1>5, <1>6, <1>7, <1>8 DEF Run

(* So do the retries and the final failure of the exception handler.        *)
LEMMA RaiseStep ==
  ASSUME TypeOK, NEW j \in Jobs, Raise(j)
  PROVE  \E s \in Status, l \in PC : StepTo(j, s, l)
<1>1. PICK f \in Faults : RaiseRetry(j, f) \/ RaiseFinal(j, f)
  BY DEF Raise
<1> USE DEF StepTo, SetStatus, Goto, Finish, Settled, AtWork, Working
<1>2. CASE RaiseRetry(j, f)
  BY <1>2 DEF RaiseRetry, Status, InFlight, PC
<1>3. CASE RaiseFinal(j, f)
  <2>1. CASE f = "timeout"
    <3>1. StepTo(j, "needs_help", "notify")
      BY <1>3, <2>1 DEF RaiseFinal
    <3> QED BY <3>1 DEF Status, Ended, PC
  <2>2. CASE f # "timeout"
    <3>1. StepTo(j, "failed", "notify")
      BY <1>3, <2>2 DEF RaiseFinal
    <3> QED BY <3>1 DEF Status, Ended, PC
  <2> QED BY <2>1, <2>2
<1> QED BY <1>1, <1>2, <1>3

(* The other actions, and the steps of a task, are all there is.            *)
LEMMA NextCases ==
  ASSUME TypeOK, [Next]_vars
  PROVE  \/ \E j \in Jobs, a \in Asks : EnqueueWriteStatus(j, a)
         \/ \E j \in Jobs : \/ EnqueueAppendLine(j) \/ AcquireSem(j)
                            \/ AcquireRepoLock(j) \/ Notify(j) \/ Cleanup(j)
         \/ \E j \in Jobs, s \in Status, l \in PC : StepTo(j, s, l)
         \/ ClaimWriteQueue \/ ClaimWriteStatus
         \/ Boot \/ StartWorker \/ StopWorker \/ Exit \/ Crash
         \/ UNCHANGED vars
<1>1. ASSUME NEW j \in Jobs, Start(j) \/ Run(j) \/ Raise(j)
      PROVE  \E s \in Status, l \in PC : StepTo(j, s, l)
  BY <1>1, StartStep, RunStep, RaiseStep
<1> QED BY <1>1 DEF Next, Enqueue, Guarded, Conclude, Claim, Daemon

-----------------------------------------------------------------------------
(* One lemma per conjunct of the inductive invariant, each with one step    *)
(* per kind of action.  A job not yet claimed has no task.                  *)
LEMMA QueuedIdleNext ==
  ASSUME IInv, [Next]_vars
  PROVE  QueuedIdle'
<1> USE DEF IInv, Linked, TypeOK, QueuedIdle, SettledTask,
        store, task, NoTask, NoIo, NoRow, Waiting, InFlight, Settled
<1>1. ASSUME NEW j \in Jobs, NEW a \in Asks, EnqueueWriteStatus(j, a) PROVE QueuedIdle'
  BY <1>1 DEF EnqueueWriteStatus
<1>2. ASSUME NEW j \in Jobs, EnqueueAppendLine(j) PROVE QueuedIdle'
  BY <1>2 DEF EnqueueAppendLine
<1>3. ASSUME NEW j \in Jobs, AcquireSem(j) PROVE QueuedIdle'
  BY <1>3 DEF AcquireSem, Goto
<1>4. ASSUME NEW j \in Jobs, AcquireRepoLock(j) PROVE QueuedIdle'
  BY <1>4 DEF AcquireRepoLock, Goto
<1>5. ASSUME NEW j \in Jobs, NEW s \in Status, NEW l \in PC, StepTo(j, s, l) PROVE QueuedIdle'
  BY <1>5 DEF StepTo, AtWork
<1>6. ASSUME NEW j \in Jobs, Notify(j) PROVE QueuedIdle'
  BY <1>6 DEF Notify, Goto
<1>7. ASSUME NEW j \in Jobs, Cleanup(j) PROVE QueuedIdle'
  BY <1>7 DEF Cleanup, Goto
<1>8. ASSUME ClaimWriteQueue PROVE QueuedIdle'
  BY <1>8 DEF ClaimWriteQueue
<1>9. ASSUME ClaimWriteStatus PROVE QueuedIdle'
  BY <1>9 DEF ClaimWriteStatus, Lines
<1>10. ASSUME Boot PROVE QueuedIdle'
  BY <1>10 DEF Boot
<1>11. ASSUME StartWorker PROVE QueuedIdle'
  BY <1>11 DEF StartWorker, InterruptStale, Occupying
<1>12. ASSUME StopWorker PROVE QueuedIdle'
  BY <1>12 DEF StopWorker, InterruptStale, Occupying
<1>13. ASSUME Exit PROVE QueuedIdle'
  BY <1>13 DEF Exit, Die
<1>14. ASSUME Crash PROVE QueuedIdle'
  BY <1>14 DEF Crash, Die, TearStatus, TearLine, TearQueue
<1>15. CASE UNCHANGED vars
  BY <1>15 DEF vars
<1> QED
  BY <1>1, <1>2, <1>3, <1>4, <1>5, <1>6, <1>7, <1>8, <1>9, <1>10, <1>11,
     <1>12, <1>13, <1>14, <1>15, NextCases DEF IInv

(* Where every line stands for a job that waits, a claim takes the first    *)
(* lines and keeps the rest.                                                *)
LEMMA ClaimSplits ==
  ASSUME TypeOK, Lines, NEW n \in Nat
  PROVE  \E m \in 0 .. Len(queue) :
           /\ Kept(queue, n) = SubSeq(queue, m + 1, Len(queue))
           /\ Claimed(queue, n) = {queue[i] : i \in 1 .. m}
<1>1. Fresh(queue) = 1 .. Len(queue)
  <2>1. \A i \in DOMAIN queue : /\ status[queue[i]] \in {"queued"} \cup NoRow
                                /\ \A k \in 1 .. i - 1 : queue[k] # queue[i]
    BY DEF Lines, Waiting, NoRow, TypeOK
  <2> QED BY <2>1 DEF Fresh, TypeOK
<1>2. ASSUME NEW i \in 1 .. Len(queue)
      PROVE  /\ Cardinality({k \in Fresh(queue) : k < i}) = i - 1
             /\ Cardinality({k \in Fresh(queue) : k <= i}) = i
  <2>1. {k \in Fresh(queue) : k < i} = 1 .. i - 1 /\ {k \in Fresh(queue) : k <= i} = 1 .. i
    BY <1>1 DEF TypeOK
  <2>2. Cardinality(1 .. i - 1) = i - 1 /\ Cardinality(1 .. i) = i
    BY FS_Interval DEF TypeOK
  <2> QED BY <2>1, <2>2
<1> DEFINE m == IF n <= Len(queue) THEN n ELSE Len(queue)
<1>3. m \in 0 .. Len(queue)
  BY DEF TypeOK
<1>4. {i \in DOMAIN queue : Cardinality({k \in Fresh(queue) : k < i}) < n} = 1 .. m
  <2>1. \A i \in 1 .. Len(queue) : Cardinality({k \in Fresh(queue) : k < i}) = i - 1
    BY <1>2
  <2>2. \A i \in 1 .. Len(queue) : i - 1 < n <=> i <= m
    BY DEF TypeOK
  <2>3. DOMAIN queue = 1 .. Len(queue) /\ Len(queue) \in Nat
    BY DEF TypeOK
  <2>4. \A i : i \in 1 .. m <=> i \in 1 .. Len(queue) /\ i <= m
    BY <1>3, <2>3
  <2> HIDE DEF m
  <2> QED BY <2>1, <2>2, <2>3, <2>4
<1>5. FirstFresh(queue, n) = 1 .. m
  <2>1. \A i \in 1 .. Len(queue) : Cardinality({k \in Fresh(queue) : k <= i}) = i
    BY <1>2
  <2>2. \A i \in 1 .. Len(queue) : i <= n <=> i <= m
    BY DEF TypeOK
  <2>3. Len(queue) \in Nat
    BY DEF TypeOK
  <2>4. \A i : i \in 1 .. m <=> i \in 1 .. Len(queue) /\ i <= m
    BY <1>3, <2>3
  <2> HIDE DEF m
  <2> QED BY <1>1, <2>1, <2>2, <2>4 DEF FirstFresh
<1>6. Cardinality(1 .. m) = m
  BY <1>3, FS_Interval
<1> QED BY <1>3, <1>4, <1>5, <1>6 DEF Kept, Claimed

(* Lines after some first ones are lines too.                               *)
After(d, r) == \A i \in DOMAIN r : i + d \in DOMAIN queue /\ r[i] = queue[i + d]
Wait(r) == \A i \in DOMAIN r : /\ status[r[i]] \in Waiting
                               /\ \A k \in DOMAIN r : r[k] = r[i] => k = i
LEMMA Rest ==
  ASSUME queue \in Seq(Jobs), NEW m \in 0 .. Len(queue)
  PROVE  /\ SubSeq(queue, m + 1, Len(queue)) \in Seq(Jobs)
         /\ After(m, SubSeq(queue, m + 1, Len(queue)))
         /\ \A n \in 1 .. Len(SubSeq(queue, m + 1, Len(queue))) :
              LET r == SubSeq(SubSeq(queue, m + 1, Len(queue)), 1, n - 1)
              IN  r \in Seq(Jobs) /\ After(m, r)
<1> DEFINE K == SubSeq(queue, m + 1, Len(queue))
<1>1. /\ K \in Seq(Jobs) /\ Len(K) = Len(queue) - m
      /\ \A i \in 1 .. Len(queue) - m : K[i] = queue[i + m]
  <2>1. m + 1 \in Int /\ Len(queue) \in Nat /\ m \in Nat /\ m <= Len(queue)
    OBVIOUS
  <2>2. \A i \in m + 1 .. Len(queue) : queue[i] \in Jobs
    OBVIOUS
  <2>3. K \in Seq(Jobs)
    BY <2>1, <2>2
  <2>4. Len(K) = Len(queue) - m
    BY <2>1
  <2>5. \A i \in 1 .. Len(queue) - m : K[i] = queue[i + m]
    BY <2>1
  <2> QED BY <2>3, <2>4, <2>5
<1> HIDE DEF K
<1>2. After(m, K)
  BY <1>1 DEF After
<1>3. ASSUME NEW n \in 1 .. Len(K)
      PROVE  SubSeq(K, 1, n - 1) \in Seq(Jobs) /\ After(m, SubSeq(K, 1, n - 1))
  <2>1. /\ SubSeq(K, 1, n - 1) \in Seq(Jobs) /\ Len(SubSeq(K, 1, n - 1)) = n - 1
        /\ \A i \in 1 .. n - 1 : SubSeq(K, 1, n - 1)[i] = K[i]
    BY <1>1
  <2> DEFINE r == SubSeq(K, 1, n - 1)
  <2> HIDE DEF r
  <2>2. r \in Seq(Jobs) /\ Len(r) = n - 1 /\ \A i \in 1 .. n - 1 : r[i] = K[i]
    BY <2>1 DEF r
  <2>3. After(m, r)
    <3>1. DOMAIN r = 1 .. n - 1 /\ n - 1 \in Nat /\ n - 1 <= Len(queue) - m
      BY <1>1, <2>2
    <3>2. \A i \in 1 .. n - 1 : i \in 1 .. Len(queue) - m /\ i + m \in DOMAIN queue
      BY <3>1
    <3> QED BY <1>1, <2>2, <3>1, <3>2 DEF After
  <2> QED BY <2>2, <2>3 DEF r
<1> QED BY <1>1, <1>2, <1>3 DEF K

LEMMA LaterLines ==
  ASSUME TypeOK, Lines
  PROVE  \A d \in Nat, r \in Seq(Jobs) :
           After(d, r) => /\ Wait(r)
                          /\ \A i \in DOMAIN r, k \in 1 .. d : k \in DOMAIN queue => queue[k] # r[i]
<1> SUFFICES ASSUME NEW d \in Nat, NEW r \in Seq(Jobs), After(d, r)
             PROVE  /\ Wait(r)
                    /\ \A i \in DOMAIN r, k \in 1 .. d : k \in DOMAIN queue => queue[k] # r[i]
  OBVIOUS
<1>1. DOMAIN r = 1 .. Len(r) /\ Len(r) \in Nat
  OBVIOUS
<1>2. ASSUME NEW i \in DOMAIN r
      PROVE  /\ status[r[i]] \in Waiting
             /\ \A k \in DOMAIN r : r[k] = r[i] => k = i
             /\ \A k \in 1 .. d : k \in DOMAIN queue => queue[k] # r[i]
  BY <1>1, <1>2 DEF Lines, After
<1> QED BY <1>2 DEF Wait

(* Each line, and each job of a half-done operation, waits.                 *)
LEMMA LinesNext ==
  ASSUME IInv, [Next]_vars
  PROVE  Lines'
<1> USE DEF IInv, Linked, TypeOK, store, task, NoIo
<1>1. ASSUME NEW j \in Jobs, NEW a \in Asks, EnqueueWriteStatus(j, a) PROVE Lines'
  <2>1. /\ io' = [op |-> "enqueue", jobs |-> {j}] /\ queue' = queue /\ status[j] = "absent"
        /\ \A k \in Jobs : status'[k] = IF k = j THEN "queued" ELSE status[k]
    BY <1>1 DEF EnqueueWriteStatus
  <2>2. \A i \in DOMAIN queue : queue[i] # j
    BY <2>1 DEF Lines, Waiting
  <2> QED BY <2>1, <2>2 DEF Lines, Waiting
<1>2. ASSUME NEW j \in Jobs, EnqueueAppendLine(j) PROVE Lines'
  <2>1. io' = NoIo /\ status' = status /\ queue' \in {queue, Append(queue, j)}
    BY <1>2 DEF EnqueueAppendLine
  <2>2. status[j] \in Waiting /\ \A i \in DOMAIN queue : queue[i] # j
    BY <1>2 DEF EnqueueAppendLine, Lines
  <2>3. CASE queue' = Append(queue, j)
    <3>1. \A i \in DOMAIN queue' : IF i = Len(queue) + 1 THEN queue'[i] = j
                                   ELSE i \in DOMAIN queue /\ queue'[i] = queue[i]
      BY <2>3
    <3>2. \A i \in DOMAIN queue' : status[queue'[i]] \in Waiting
      BY <2>2, <3>1 DEF Lines
    <3>3. \A i, k \in DOMAIN queue' : queue'[k] = queue'[i] => k = i
      BY <2>2, <3>1 DEF Lines
    <3> QED BY <2>1, <3>2, <3>3 DEF Lines
  <2>4. CASE queue' = queue
    BY <2>1, <2>4 DEF Lines
  <2> QED BY <2>1, <2>3, <2>4
<1>3. ASSUME UNCHANGED <<status, queue, io>> PROVE Lines'
  BY <1>3 DEF Lines
<1>4. ASSUME NEW j \in Jobs, AcquireSem(j) \/ AcquireRepoLock(j) \/ Notify(j) \/ Cleanup(j) PROVE Lines'
  BY <1>3, <1>4 DEF AcquireSem, AcquireRepoLock, Notify, Cleanup
<1>5. ASSUME NEW j \in Jobs, NEW s \in Status, NEW l \in PC, StepTo(j, s, l) PROVE Lines'
  <2>1. pc[j] # NoTask /\ UNCHANGED <<queue, io>> /\ \A k \in Jobs : k # j => status'[k] = status[k]
    BY <1>5 DEF StepTo, AtWork, NoTask
  <2>2. status[j] \notin Waiting
    BY <2>1 DEF QueuedIdle, Waiting, NoRow
  <2>3. \A i \in DOMAIN queue : queue[i] \in Jobs
    OBVIOUS
  <2> QED BY <2>1, <2>2, <2>3 DEF Lines
<1>7. ASSUME ClaimWriteQueue PROVE Lines'
  <2>1. PICK m \in 0 .. Len(queue) : /\ Kept(queue, Slots) = SubSeq(queue, m + 1, Len(queue))
                                     /\ Claimed(queue, Slots) = {queue[i] : i \in 1 .. m}
    BY ClaimSplits, SlotsType
  <2>2. /\ queue' = Kept(queue, Slots) /\ status' = status
        /\ io' = [op |-> "claim", jobs |-> Claimed(queue, Slots)]
    BY <1>7 DEF ClaimWriteQueue
  <2>3. queue' \in Seq(Jobs)
    BY <2>2, KeptType, SlotsType
  <2>4. After(m, queue')
    BY <2>1, <2>2, Rest DEF TypeOK
  <2>5. /\ Wait(queue')
        /\ \A i \in DOMAIN queue', k \in 1 .. m : k \in DOMAIN queue => queue[k] # queue'[i]
    <3>1. TypeOK /\ Lines /\ m \in Nat
      OBVIOUS
    <3> QED BY <2>3, <2>4, <3>1, LaterLines
  <2>6. ASSUME NEW j \in io'.jobs
        PROVE  status[j] \in Waiting /\ \A i \in DOMAIN queue' : queue'[i] # j
    <3>1. PICK k \in 1 .. m : k \in DOMAIN queue /\ j = queue[k]
      BY <2>1, <2>2, <2>6
    <3> QED BY <2>5, <3>1 DEF Lines
  <2> QED BY <2>2, <2>5, <2>6 DEF Lines, Wait
<1>8. ASSUME ClaimWriteStatus PROVE Lines'
  <2>1. /\ io.op # "none" /\ io'.op = "none" /\ queue' = queue
        /\ \A k \in Jobs : k \notin io.jobs => status'[k] = status[k]
    BY <1>8 DEF ClaimWriteStatus
  <2>2. \A i \in DOMAIN queue : queue[i] \in Jobs \ io.jobs
    BY <2>1 DEF Lines
  <2> QED BY <2>1, <2>2 DEF Lines
<1>9. ASSUME StartWorker \/ StopWorker PROVE Lines'
  <2>1. UNCHANGED <<queue, io>> /\ \A k \in Jobs : status[k] \in Waiting => status'[k] = status[k]
    BY <1>9 DEF StartWorker, StopWorker, InterruptStale, Occupying, Waiting, InFlight
  <2>2. \A i \in DOMAIN queue : queue[i] \in Jobs
    OBVIOUS
  <2> QED BY <2>1, <2>2 DEF Lines
<1>10. CASE Boot \/ UNCHANGED vars
  BY <1>3, <1>10 DEF Boot, vars
<1>11. CASE Exit
  BY <1>11 DEF Exit, Die, Lines
<1>12. CASE Crash
  <2>1. io'.op = "none"
    BY <1>12 DEF Crash, Die
  <2>2. CASE UNCHANGED <<status, queue>>
    BY <2>1, <2>2 DEF Lines
  <2>3. CASE TearStatus
    <3>1. queue' = queue /\ \A k \in Jobs : status[k] \in Waiting => status'[k] \in Waiting
      BY <2>3 DEF TearStatus, Waiting
    <3>2. \A i \in DOMAIN queue : queue[i] \in Jobs
      OBVIOUS
    <3> QED BY <2>1, <3>1, <3>2 DEF Lines
  <2>4. CASE TearQueue
    <3>1. PICK m \in 0 .. Len(queue) : Kept(queue, Slots) = SubSeq(queue, m + 1, Len(queue))
      BY ClaimSplits, SlotsType
    <3>2. PICK n \in 1 .. Len(Kept(queue, Slots)) : queue' = SubSeq(Kept(queue, Slots), 1, n - 1)
      BY <2>4 DEF TearQueue
    <3>3. queue \in Seq(Jobs) /\ TypeOK /\ Lines /\ m \in Nat
      OBVIOUS
    <3>4. queue' = SubSeq(SubSeq(queue, m + 1, Len(queue)), 1, n - 1)
      BY <3>1, <3>2
    <3>5. n \in 1 .. Len(SubSeq(queue, m + 1, Len(queue)))
      BY <3>1, <3>2
    <3>6. queue' \in Seq(Jobs) /\ After(m, queue')
      BY <3>3, <3>4, <3>5, Rest
    <3>7. Wait(queue') /\ status' = status
      BY <2>4, <3>3, <3>6, LaterLines DEF TearQueue
    <3> QED BY <2>1, <3>7 DEF Lines, Wait
  <2> QED BY <1>12, <2>2, <2>3, <2>4 DEF Crash, TearLine
<1> QED BY <1>1, <1>2, <1>4, <1>5, <1>7, <1>8, <1>9, <1>10, <1>11, <1>12, NextCases

(* A task that is announcing or cleaning up has an outcome on record.       *)
LEMMA SettledTaskNext ==
  ASSUME IInv, [Next]_vars
  PROVE  SettledTask'
<1> USE DEF IInv, Linked, TypeOK, QueuedIdle, SettledTask,
        store, task, NoTask, NoIo, NoRow, Waiting, InFlight, Settled
<1>1. ASSUME NEW j \in Jobs, NEW a \in Asks, EnqueueWriteStatus(j, a) PROVE SettledTask'
  BY <1>1 DEF EnqueueWriteStatus
<1>2. ASSUME NEW j \in Jobs, EnqueueAppendLine(j) PROVE SettledTask'
  BY <1>2 DEF EnqueueAppendLine
<1>3. ASSUME NEW j \in Jobs, AcquireSem(j) PROVE SettledTask'
  BY <1>3 DEF AcquireSem, Goto
<1>4. ASSUME NEW j \in Jobs, AcquireRepoLock(j) PROVE SettledTask'
  BY <1>4 DEF AcquireRepoLock, Goto
<1>5. ASSUME NEW j \in Jobs, NEW s \in Status, NEW l \in PC, StepTo(j, s, l) PROVE SettledTask'
  BY <1>5 DEF StepTo, AtWork
<1>6. ASSUME NEW j \in Jobs, Notify(j) PROVE SettledTask'
  BY <1>6 DEF Notify, Goto
<1>7. ASSUME NEW j \in Jobs, Cleanup(j) PROVE SettledTask'
  BY <1>7 DEF Cleanup, Goto
<1>8. ASSUME ClaimWriteQueue PROVE SettledTask'
  BY <1>8 DEF ClaimWriteQueue
<1>9. ASSUME ClaimWriteStatus PROVE SettledTask'
  BY <1>9 DEF ClaimWriteStatus, Lines
<1>10. ASSUME Boot PROVE SettledTask'
  BY <1>10 DEF Boot
<1>11. ASSUME StartWorker PROVE SettledTask'
  BY <1>11 DEF StartWorker, InterruptStale, Occupying
<1>12. ASSUME StopWorker PROVE SettledTask'
  BY <1>12 DEF StopWorker, InterruptStale, Occupying
<1>13. ASSUME Exit PROVE SettledTask'
  BY <1>13 DEF Exit, Die
<1>14. ASSUME Crash PROVE SettledTask'
  BY <1>14 DEF Crash, Die, TearStatus, TearLine, TearQueue
<1>15. CASE UNCHANGED vars
  BY <1>15 DEF vars
<1> QED
  BY <1>1, <1>2, <1>3, <1>4, <1>5, <1>6, <1>7, <1>8, <1>9, <1>10, <1>11,
     <1>12, <1>13, <1>14, <1>15, NextCases DEF IInv

(* What was announced is the outcome on record, and only a job that         *)
(* settled announced.                                                       *)
LEMMA ToldLastNext ==
  ASSUME IInv, [Next]_vars
  PROVE  ToldLast'
<1> USE DEF IInv, Linked, TypeOK, QueuedIdle, SettledTask,
        store, task, NoTask, NoIo, NoRow, Waiting, InFlight, Settled, ToldLast, Outcome
<1>1. ASSUME NEW j \in Jobs, NEW a \in Asks, EnqueueWriteStatus(j, a) PROVE ToldLast'
  BY <1>1 DEF EnqueueWriteStatus
<1>2. ASSUME NEW j \in Jobs, EnqueueAppendLine(j) PROVE ToldLast'
  BY <1>2 DEF EnqueueAppendLine
<1>3. ASSUME NEW j \in Jobs, AcquireSem(j) PROVE ToldLast'
  BY <1>3 DEF AcquireSem, Goto
<1>4. ASSUME NEW j \in Jobs, AcquireRepoLock(j) PROVE ToldLast'
  BY <1>4 DEF AcquireRepoLock, Goto
<1>5. ASSUME NEW j \in Jobs, NEW s \in Status, NEW l \in PC, StepTo(j, s, l) PROVE ToldLast'
  BY <1>5 DEF StepTo, AtWork
<1>6. ASSUME NEW j \in Jobs, Notify(j) PROVE ToldLast'
  BY <1>6 DEF Notify, Goto
<1>7. ASSUME NEW j \in Jobs, Cleanup(j) PROVE ToldLast'
  BY <1>7 DEF Cleanup, Goto
<1>8. ASSUME ClaimWriteQueue PROVE ToldLast'
  BY <1>8 DEF ClaimWriteQueue
<1>9. ASSUME ClaimWriteStatus PROVE ToldLast'
  BY <1>9 DEF ClaimWriteStatus, Lines
<1>10. ASSUME Boot PROVE ToldLast'
  BY <1>10 DEF Boot
<1>11. ASSUME StartWorker PROVE ToldLast'
  BY <1>11 DEF StartWorker, InterruptStale, Occupying
<1>12. ASSUME StopWorker PROVE ToldLast'
  BY <1>12 DEF StopWorker, InterruptStale, Occupying
<1>13. ASSUME Exit PROVE ToldLast'
  BY <1>13 DEF Exit, Die
<1>14. ASSUME Crash PROVE ToldLast'
  BY <1>14 DEF Crash, Die, TearStatus, TearLine, TearQueue
<1>15. CASE UNCHANGED vars
  BY <1>15 DEF vars
<1> QED
  BY <1>1, <1>2, <1>3, <1>4, <1>5, <1>6, <1>7, <1>8, <1>9, <1>10, <1>11,
     <1>12, <1>13, <1>14, <1>15, NextCases DEF IInv

(* A gated write job is completed only from a poll that found its checks    *)
(* green.                                                                   *)
LEMMA GreenGateNext ==
  ASSUME IInv, [Next]_vars
  PROVE  GreenGate'
<1> USE DEF IInv, Linked, TypeOK, QueuedIdle, SettledTask,
        store, task, NoTask, NoIo, NoRow, Waiting, InFlight, Settled, GreenGate, Gate
<1>1. ASSUME NEW j \in Jobs, NEW a \in Asks, EnqueueWriteStatus(j, a) PROVE GreenGate'
  BY <1>1 DEF EnqueueWriteStatus
<1>2. ASSUME NEW j \in Jobs, EnqueueAppendLine(j) PROVE GreenGate'
  BY <1>2 DEF EnqueueAppendLine
<1>3. ASSUME NEW j \in Jobs, AcquireSem(j) PROVE GreenGate'
  BY <1>3 DEF AcquireSem, Goto
<1>4. ASSUME NEW j \in Jobs, AcquireRepoLock(j) PROVE GreenGate'
  BY <1>4 DEF AcquireRepoLock, Goto
<1>5. ASSUME NEW j \in Jobs, NEW s \in Status, NEW l \in PC, StepTo(j, s, l) PROVE GreenGate'
  <2> SUFFICES ASSUME NEW k \in Jobs, status'[k] = "completed",
                      route'[k] = "write", pr'[k], ask'[k].gated
               PROVE  lastCi'[k] = "green"
    OBVIOUS
  <2>1. CASE k # j
    BY <1>5, <2>1 DEF StepTo
  <2>2. CASE k = j
    <3>1. s = "completed" /\ status[j] # "completed"
      BY <1>5, <2>2 DEF StepTo, AtWork
    <3> QED BY <1>5, <2>2, <3>1 DEF StepTo
  <2> QED BY <2>1, <2>2
<1>6. ASSUME NEW j \in Jobs, Notify(j) PROVE GreenGate'
  BY <1>6 DEF Notify, Goto
<1>7. ASSUME NEW j \in Jobs, Cleanup(j) PROVE GreenGate'
  BY <1>7 DEF Cleanup, Goto
<1>8. ASSUME ClaimWriteQueue PROVE GreenGate'
  BY <1>8 DEF ClaimWriteQueue
<1>9. ASSUME ClaimWriteStatus PROVE GreenGate'
  BY <1>9 DEF ClaimWriteStatus, Lines
<1>10. ASSUME Boot PROVE GreenGate'
  BY <1>10 DEF Boot
<1>11. ASSUME StartWorker PROVE GreenGate'
  BY <1>11 DEF StartWorker, InterruptStale, Occupying
<1>12. ASSUME StopWorker PROVE GreenGate'
  BY <1>12 DEF StopWorker, InterruptStale, Occupying
<1>13. ASSUME Exit PROVE GreenGate'
  BY <1>13 DEF Exit, Die
<1>14. ASSUME Crash PROVE GreenGate'
  BY <1>14 DEF Crash, Die, TearStatus, TearLine, TearQueue
<1>15. CASE UNCHANGED vars
  BY <1>15 DEF vars
<1> QED
  BY <1>1, <1>2, <1>3, <1>4, <1>5, <1>6, <1>7, <1>8, <1>9, <1>10, <1>11,
     <1>12, <1>13, <1>14, <1>15, NextCases DEF IInv

(* While the worker runs a row in progress keeps a live task behind it.     *)
LEMMA InFlightOwnedNext ==
  ASSUME IInv, [Next]_vars
  PROVE  InFlightOwned'
<1> USE DEF IInv, Linked, TypeOK, QueuedIdle, SettledTask,
        store, task, NoTask, NoIo, NoRow, Waiting, InFlight, Settled, InFlightOwned
<1>1. ASSUME NEW j \in Jobs, NEW a \in Asks, EnqueueWriteStatus(j, a) PROVE InFlightOwned'
  BY <1>1 DEF EnqueueWriteStatus
<1>2. ASSUME NEW j \in Jobs, EnqueueAppendLine(j) PROVE InFlightOwned'
  BY <1>2 DEF EnqueueAppendLine
<1>3. ASSUME NEW j \in Jobs, AcquireSem(j) PROVE InFlightOwned'
  BY <1>3 DEF AcquireSem, Goto
<1>4. ASSUME NEW j \in Jobs, AcquireRepoLock(j) PROVE InFlightOwned'
  BY <1>4 DEF AcquireRepoLock, Goto
<1>5. ASSUME NEW j \in Jobs, NEW s \in Status, NEW l \in PC, StepTo(j, s, l) PROVE InFlightOwned'
  BY <1>5 DEF StepTo, AtWork
<1>6. ASSUME NEW j \in Jobs, Notify(j) PROVE InFlightOwned'
  BY <1>6 DEF Notify, Goto
<1>7. ASSUME NEW j \in Jobs, Cleanup(j) PROVE InFlightOwned'
  BY <1>7 DEF Cleanup, Goto
<1>8. ASSUME ClaimWriteQueue PROVE InFlightOwned'
  BY <1>8 DEF ClaimWriteQueue
<1>9. ASSUME ClaimWriteStatus PROVE InFlightOwned'
  BY <1>9 DEF ClaimWriteStatus, Lines
<1>10. ASSUME Boot PROVE InFlightOwned'
  BY <1>10 DEF Boot
<1>11. ASSUME StartWorker PROVE InFlightOwned'
  BY <1>11 DEF StartWorker, InterruptStale, Occupying
<1>12. ASSUME StopWorker PROVE InFlightOwned'
  BY <1>12 DEF StopWorker, InterruptStale, Occupying
<1>13. ASSUME Exit PROVE InFlightOwned'
  BY <1>13 DEF Exit, Die
<1>14. ASSUME Crash PROVE InFlightOwned'
  BY <1>14 DEF Crash, Die, TearStatus, TearLine, TearQueue
<1>15. CASE UNCHANGED vars
  BY <1>15 DEF vars
<1> QED
  BY <1>1, <1>2, <1>3, <1>4, <1>5, <1>6, <1>7, <1>8, <1>9, <1>10, <1>11,
     <1>12, <1>13, <1>14, <1>15, NextCases DEF IInv

(* The repository lock admits one write-mode job at a time and is held to   *)
(* the task's end.                                                          *)
LEMMA RepoExclusiveNext ==
  ASSUME IInv, [Next]_vars
  PROVE  RepoExclusive'
<1> USE DEF IInv, Linked, TypeOK, QueuedIdle, SettledTask,
        store, task, NoTask, NoIo, NoRow, Waiting, InFlight, Settled, RepoExclusive,
        Executing, NeedsLock, HoldsLock
<1>1. ASSUME NEW j \in Jobs, NEW a \in Asks, EnqueueWriteStatus(j, a) PROVE RepoExclusive'
  BY <1>1 DEF EnqueueWriteStatus
<1>2. ASSUME NEW j \in Jobs, EnqueueAppendLine(j) PROVE RepoExclusive'
  BY <1>2 DEF EnqueueAppendLine
<1>3. ASSUME NEW j \in Jobs, AcquireSem(j) PROVE RepoExclusive'
  BY <1>3 DEF AcquireSem, Goto
<1>4. ASSUME NEW j \in Jobs, AcquireRepoLock(j) PROVE RepoExclusive'
  BY <1>4 DEF AcquireRepoLock, Goto
<1>5. ASSUME NEW j \in Jobs, NEW s \in Status, NEW l \in PC, StepTo(j, s, l) PROVE RepoExclusive'
  BY <1>5 DEF StepTo, AtWork
<1>6. ASSUME NEW j \in Jobs, Notify(j) PROVE RepoExclusive'
  BY <1>6 DEF Notify, Goto
<1>7. ASSUME NEW j \in Jobs, Cleanup(j) PROVE RepoExclusive'
  BY <1>7 DEF Cleanup, Goto
<1>8. ASSUME ClaimWriteQueue PROVE RepoExclusive'
  BY <1>8 DEF ClaimWriteQueue
<1>9. ASSUME ClaimWriteStatus PROVE RepoExclusive'
  BY <1>9 DEF ClaimWriteStatus, Lines
<1>10. ASSUME Boot PROVE RepoExclusive'
  BY <1>10 DEF Boot
<1>11. ASSUME StartWorker PROVE RepoExclusive'
  BY <1>11 DEF StartWorker, InterruptStale, Occupying
<1>12. ASSUME StopWorker PROVE RepoExclusive'
  BY <1>12 DEF StopWorker, InterruptStale, Occupying
<1>13. ASSUME Exit PROVE RepoExclusive'
  BY <1>13 DEF Exit, Die
<1>14. ASSUME Crash PROVE RepoExclusive'
  BY <1>14 DEF Crash, Die, TearStatus, TearLine, TearQueue
<1>15. CASE UNCHANGED vars
  BY <1>15 DEF vars
<1> QED
  BY <1>1, <1>2, <1>3, <1>4, <1>5, <1>6, <1>7, <1>8, <1>9, <1>10, <1>11,
     <1>12, <1>13, <1>14, <1>15, NextCases DEF IInv

(* No step replaces an outcome on record.                                   *)
LEMMA OutcomeFinalNext ==
  ASSUME IInv, [Next]_vars
  PROVE  OutcomesKept
<1> USE DEF IInv, Linked, TypeOK, QueuedIdle, SettledTask,
        store, task, NoTask, NoIo, NoRow, Waiting, InFlight, Settled, Ended, OutcomesKept
<1>1. ASSUME NEW j \in Jobs, NEW a \in Asks, EnqueueWriteStatus(j, a) PROVE OutcomesKept
  BY <1>1 DEF EnqueueWriteStatus
<1>2. ASSUME NEW j \in Jobs, EnqueueAppendLine(j) PROVE OutcomesKept
  BY <1>2 DEF EnqueueAppendLine
<1>3. ASSUME NEW j \in Jobs, AcquireSem(j) PROVE OutcomesKept
  BY <1>3 DEF AcquireSem, Goto
<1>4. ASSUME NEW j \in Jobs, AcquireRepoLock(j) PROVE OutcomesKept
  BY <1>4 DEF AcquireRepoLock, Goto
<1>5. ASSUME NEW j \in Jobs, NEW s \in Status, NEW l \in PC, StepTo(j, s, l) PROVE OutcomesKept
  BY <1>5 DEF StepTo, AtWork
<1>6. ASSUME NEW j \in Jobs, Notify(j) PROVE OutcomesKept
  BY <1>6 DEF Notify, Goto
<1>7. ASSUME NEW j \in Jobs, Cleanup(j) PROVE OutcomesKept
  BY <1>7 DEF Cleanup, Goto
<1>8. ASSUME ClaimWriteQueue PROVE OutcomesKept
  BY <1>8 DEF ClaimWriteQueue
<1>9. ASSUME ClaimWriteStatus PROVE OutcomesKept
  BY <1>9 DEF ClaimWriteStatus, Lines
<1>10. ASSUME Boot PROVE OutcomesKept
  BY <1>10 DEF Boot
<1>11. ASSUME StartWorker PROVE OutcomesKept
  BY <1>11 DEF StartWorker, InterruptStale, Occupying
<1>12. ASSUME StopWorker PROVE OutcomesKept
  BY <1>12 DEF StopWorker, InterruptStale, Occupying
<1>13. ASSUME Exit PROVE OutcomesKept
  BY <1>13 DEF Exit, Die
<1>14. ASSUME Crash PROVE OutcomesKept
  BY <1>14 DEF Crash, Die, TearStatus, TearLine, TearQueue
<1>15. CASE UNCHANGED vars
  BY <1>15 DEF vars
<1> QED
  BY <1>1, <1>2, <1>3, <1>4, <1>5, <1>6, <1>7, <1>8, <1>9, <1>10, <1>11,
     <1>12, <1>13, <1>14, <1>15, NextCases DEF IInv

-----------------------------------------------------------------------------
(* Nothing is stored at first, so every part of the invariant holds.        *)
LEMMA InvInit == Init => IInv
<1> SUFFICES ASSUME Init PROVE IInv
  OBVIOUS
<1>1. TypeOK
  BY TypeInit
<1> QED BY <1>1 DEF Init, IInv, Linked, QueuedIdle, SettledTask,
  ToldLast, GreenGate, InFlightOwned, RepoExclusive, Settled, Executing, NoTask, NoIo, Lines, NoRow, Waiting, InFlight

(* The inductive invariant holds throughout.                                *)
THEOREM Invariance == Spec => []IInv
<1>1. IInv /\ [Next]_vars => IInv'
  <2> SUFFICES ASSUME IInv, [Next]_vars PROVE IInv'
    OBVIOUS
  <2>1. TypeOK'
    BY TypeNext DEF IInv
  <2>2. Linked'
    BY QueuedIdleNext, LinesNext, SettledTaskNext, ToldLastNext DEF Linked
  <2> QED BY <2>1, <2>2, GreenGateNext, InFlightOwnedNext, RepoExclusiveNext DEF IInv
<1> QED BY InvInit, <1>1, PTL DEF Spec

(* "Never complete as success unless CI green when we had a PR gate", for   *)
(* any number of fix runs, retries, crashes and stops.                      *)
THEOREM GreenGateHolds == Spec => []GreenGate
<1>1. IInv => GreenGate
  BY DEF IInv
<1> QED BY Invariance, <1>1, PTL

(* While the worker runs, every row in progress has a live task.            *)
THEOREM InFlightOwnedHolds == Spec => []InFlightOwned
<1>1. IInv => InFlightOwned
  BY DEF IInv
<1> QED BY Invariance, <1>1, PTL

(* Jobs queued in write mode for one repository never overlap.              *)
THEOREM RepoExclusiveHolds == Spec => []RepoExclusive
<1>1. IInv => RepoExclusive
  BY DEF IInv
<1> QED BY Invariance, <1>1, PTL

(* One outcome is announced, the one on record.                             *)
THEOREM ToldConsistentHolds == Spec => []ToldConsistent
<1>1. IInv => ToldConsistent
  <2> SUFFICES ASSUME IInv, NEW j \in Jobs, told[j] \ {"interrupted"} # {}
               PROVE  \/ told[j] \ {"interrupted"} = {Outcome(status[j])}
                      \/ /\ status[j] = "forgotten"
                         /\ \E o \in {"done", "help", "problem"} : told[j] \ {"interrupted"} = {o}
    BY DEF ToldConsistent
  <2>1. PICK o \in Settled : /\ told[j] \ {"interrupted"} = {Outcome(o)}
                             /\ status[j] \in {o, "forgotten"}
    BY DEF IInv, Linked, ToldLast
  <2>2. Outcome(o) \in {"done", "help", "problem"}
    BY DEF Settled, Outcome
  <2> QED BY <2>1, <2>2
<1> QED BY Invariance, <1>1, PTL

(* An outcome on record is never replaced.                                  *)
THEOREM OutcomeFinalHolds == Spec => OutcomeFinal
<1>1. IInv /\ [Next]_vars => [OutcomesKept]_vars
  BY OutcomeFinalNext
<1> QED BY Invariance, <1>1, PTL DEF Spec, OutcomeFinal
===============================================================================

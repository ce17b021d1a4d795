---------------------------- MODULE CursorBoardProofs ----------------------------
(***************************************************************************)
(* What the coding jobs promise, for any number of jobs, any limit and any *)
(* number of crashes and stops.  Their store and worker implement JobBoard:*)
(* the initial states map to initial states, and every step maps to a step *)
(* of the board or to a stutter.  They keep their limits: the pool's two,  *)
(* the one counted from the rows and the one of the semaphore, and the     *)
(* budget of CI fixes.                                                     *)
(***************************************************************************)
EXTENDS CursorJobsProofs, WellFoundedInduction

(* Nothing is stored, nothing runs and nothing was said at first.           *)
LEMMA BoardInit == Init => Board!Init
BY DEF Init, Board!Init, Shown, Waiting, Outcome, InFlight

(* The board reads the announcements off told alone ...                     *)
LEMMA HeardSame ==
  ASSUME told' = told
  PROVE  UNCHANGED [j \in Jobs |-> {o \in Ended \ {"interrupted"} : Outcome(o) \in told[j]}]
BY DEF Ended, Outcome

(* ... and the phases off the rows alone.                                   *)
LEMMA PhaseSame ==
  ASSUME status' = status
  PROVE  UNCHANGED [j \in Jobs |-> Shown(j)]
BY DEF Shown, Waiting, InFlight

(* The three announcements are three different messages.                    *)
LEMMA Messages ==
  /\ Outcome("completed") = "done" /\ Outcome("needs_help") = "help"
  /\ Outcome("failed") = "problem"
BY Zenon DEF Outcome

(* What was announced, seen on the board: the recorded outcome or nothing.  *)
LEMMA HeardLast ==
  ASSUME IInv, NEW j \in Jobs, pc[j] = "notify"
  PROVE  /\ Shown(j) = status[j] /\ status[j] \in Settled
         /\ \A o \in Ended \ {"interrupted"} : Outcome(o) \notin told[j]
<1>1. status[j] \in Settled
  BY DEF IInv, Linked, SettledTask
<1>2. told[j] \ {"interrupted"} = {}
  BY DEF IInv, Linked, ToldLast, NoTask
<1> QED BY <1>1, <1>2, Messages DEF Settled, Shown, Waiting, InFlight, Ended

(* A job at work is shown as working or stopped.                            *)
LEMMA AtWorkShown ==
  ASSUME IInv, NEW j \in Jobs, pc[j] \in AtWork
  PROVE  status[j] \in InFlight \cup {"interrupted"}
<1>1. status[j] \in Status /\ pc[j] # NoTask /\ pc[j] \notin {"notify", "cleanup"}
  BY DEF IInv, TypeOK, AtWork, NoTask
<1>2. status[j] \notin {"queued"} \cup NoRow
  BY <1>1 DEF IInv, Linked, QueuedIdle
<1>3. status[j] \notin Settled
  BY <1>1 DEF IInv, Linked, SettledTask
<1> QED BY <1>1, <1>2, <1>3 DEF Status, NoRow, Ended, Settled

(* Writing the row of a job at work is settling it, going on, or nothing.   *)
LEMMA BoardStep ==
  ASSUME IInv, NEW j \in Jobs, NEW s \in Status, NEW l \in PC, StepTo(j, s, l)
  PROVE  [Board!Next]_(Board!board)
<1>1. status[j] \in InFlight \cup {"interrupted"}
  BY AtWorkShown DEF StepTo
<1>2. /\ UNCHANGED {k \in Jobs : pc[k] # NoTask}
      /\ j \in {k \in Jobs : pc[k] # NoTask}
  BY DEF StepTo, AtWork, NoTask, IInv, TypeOK
<1>3. UNCHANGED [k \in Jobs |-> {o \in Ended \ {"interrupted"} : Outcome(o) \in told[k]}]
  BY HeardSame DEF StepTo
<1>4. \A k \in Jobs \ {j} : Shown(k)' = Shown(k)
  BY DEF StepTo, Shown, Waiting, IInv, TypeOK
<1>5. Shown(j) \in {"working", "stopped"} /\ status'[j] = s
  BY <1>1 DEF StepTo, Shown, Waiting, InFlight, IInv, TypeOK
<1>6. CASE s \in Settled
  <2>1. Shown(j)' = s
    BY <1>5, <1>6 DEF Shown, Waiting, Settled, InFlight
  <2>2. Board!Settle(j, s)
    BY <1>2, <1>3, <1>4, <1>5, <2>1 DEF Board!Settle
  <2> QED BY <1>6, <2>2 DEF Board!Next, Board!Outcomes, Settled
<1>7. CASE s \notin Settled /\ Shown(j)' = Shown(j)
  <2>1. UNCHANGED [k \in Jobs |-> Shown(k)]
    BY <1>4, <1>7
  <2> QED BY <1>2, <1>3, <2>1 DEF Board!board
<1>8. CASE s \notin Settled /\ Shown(j)' # Shown(j)
  <2>1. Shown(j)' = "working" /\ Shown(j) = "stopped"
    BY <1>1, <1>5, <1>8 DEF StepTo, Shown, Waiting, InFlight
  <2>2. Board!GoOn(j)
    BY <1>2, <1>3, <1>4, <2>1 DEF Board!GoOn
  <2> QED BY <2>2 DEF Board!Next
<1> QED BY <1>6, <1>7, <1>8

-----------------------------------------------------------------------------
(* A task that is cleaning up has announced its outcome.                    *)
Announced == \A j \in Jobs : pc[j] = "cleanup" => told[j] \ {"interrupted"} # {}

(* Only Notify brings a task to its clean-up, and nothing is unsaid.        *)
LEMMA AnnouncedNext ==
  ASSUME IInv, Announced, [Next]_vars
  PROVE  Announced'
<1>1. ASSUME NEW j \in Jobs, Notify(j) PROVE Announced'
  <2>1. Outcome(status[j]) # "interrupted" /\ told'[j] = told[j] \cup {Outcome(status[j])}
    <3>1. status[j] \in Settled
      BY <1>1, HeardLast DEF Notify
    <3> QED BY <1>1, <3>1, Messages DEF Notify, Settled, IInv, TypeOK
  <2>2. \A k \in Jobs \ {j} : told'[k] = told[k] /\ pc'[k] = pc[k]
    BY <1>1 DEF Notify, Goto, IInv, TypeOK
  <2> QED BY <2>1, <2>2 DEF Announced
<1>2. ASSUME NEW j \in Jobs, NEW a \in Asks, EnqueueWriteStatus(j, a) PROVE Announced'
  BY <1>2 DEF EnqueueWriteStatus, task, Announced
<1>3. ASSUME NEW j \in Jobs, \/ EnqueueAppendLine(j) \/ Cleanup(j)
                            \/ AcquireSem(j) \/ AcquireRepoLock(j)
      PROVE  Announced'
  BY <1>3 DEF EnqueueAppendLine, Cleanup, AcquireSem, AcquireRepoLock, Goto,
     NoTask, task, Announced, IInv, TypeOK
<1>4. ASSUME NEW j \in Jobs, NEW s \in Status, NEW l \in PC, StepTo(j, s, l)
      PROVE  Announced'
  BY <1>4 DEF StepTo, AtWork, Announced, IInv, TypeOK
<1>5. CASE ClaimWriteQueue \/ ClaimWriteStatus
  BY <1>5 DEF ClaimWriteQueue, ClaimWriteStatus, task, Announced
<1>6. CASE StartWorker \/ StopWorker
  <2>1. \A k \in Jobs : pc'[k] = pc[k] /\ told'[k] \in {told[k], told[k] \cup {"interrupted"}}
    BY <1>6 DEF StartWorker, StopWorker, InterruptStale, task
  <2> QED BY <2>1 DEF Announced
<1>7. CASE Boot \/ Exit \/ Crash \/ UNCHANGED vars
  BY <1>7 DEF Boot, Exit, Crash, Die, vars, NoTask, task, Announced
<1> QED BY <1>1, <1>2, <1>3, <1>4, <1>5, <1>6, <1>7, NextCases DEF IInv

(* Every step of the store, the tasks and the daemon is a step of the board *)
(* or is not seen on it.                                                    *)
LEMMA BoardNext ==
  ASSUME IInv, Announced, [Next]_vars
  PROVE  [Board!Next]_(Board!board)
<1> USE DEF store, task, NoTask, NoIo
<1>1. ASSUME NEW j \in Jobs, NEW a \in Asks, EnqueueWriteStatus(j, a)
      PROVE  [Board!Next]_(Board!board)
  <2>1. Board!Accept(j)
    BY <1>1 DEF EnqueueWriteStatus, Board!Accept, Shown, Waiting, InFlight, IInv, TypeOK
  <2> QED BY <2>1 DEF Board!Next
<1>2. ASSUME NEW j \in Jobs, EnqueueAppendLine(j) PROVE UNCHANGED Board!board
  BY <1>2, HeardSame, PhaseSame DEF EnqueueAppendLine, Board!board
<1>3. ASSUME NEW j \in Jobs, AcquireSem(j) \/ AcquireRepoLock(j)
      PROVE  UNCHANGED Board!board
  <2>1. UNCHANGED {k \in Jobs : pc[k] # NoTask}
    BY <1>3 DEF AcquireSem, AcquireRepoLock, Goto, IInv, TypeOK
  <2> QED BY <1>3, <2>1, HeardSame, PhaseSame DEF AcquireSem, AcquireRepoLock, Board!board
<1>4. ASSUME NEW j \in Jobs, NEW s \in Status, NEW l \in PC, StepTo(j, s, l)
      PROVE  [Board!Next]_(Board!board)
  BY <1>4, BoardStep
<1>5. ASSUME NEW j \in Jobs, Notify(j) PROVE [Board!Next]_(Board!board)
  <2> DEFINE Heard(k) == {o \in Ended \ {"interrupted"} : Outcome(o) \in told[k]}
  <2>1. /\ Shown(j) = status[j] /\ status[j] \in Settled
        /\ \A o \in Ended \ {"interrupted"} : Outcome(o) \notin told[j]
    BY <1>5, HeardLast DEF Notify
  <2>2. /\ j \in {k \in Jobs : pc[k] # NoTask}
        /\ {k \in Jobs : pc'[k] # NoTask}
             \in {{k \in Jobs : pc[k] # NoTask}, {k \in Jobs : pc[k] # NoTask} \ {j}}
    BY <1>5 DEF Notify, Goto, IInv, TypeOK
  <2>3. told'[j] = told[j] \cup {Outcome(status[j])} /\ status' = status
    BY <1>5 DEF Notify, IInv, TypeOK
  <2>4. Heard(j) = {} /\ Heard(j)' = {status[j]}
    BY <2>1, <2>3, Messages DEF Settled, Ended
  <2>5. \A k \in Jobs \ {j} : Heard(k)' = Heard(k)
    <3>1. \A k \in Jobs \ {j} : told'[k] = told[k]
      BY <1>5 DEF Notify, IInv, TypeOK
    <3> QED BY <3>1 DEF Outcome
  <2> HIDE DEF Heard
  <2>6. /\ [k \in Jobs |-> Heard(k)][j] = {}
        /\ [k \in Jobs |-> Heard(k)]' = [[k \in Jobs |-> Heard(k)] EXCEPT ![j] = {Shown(j)}]
    BY <2>1, <2>4, <2>5
  <2>7. UNCHANGED [k \in Jobs |-> Shown(k)]
    BY <2>3, PhaseSame
  <2>8. Board!Announce(j)
    BY <2>1, <2>2, <2>6, <2>7 DEF Board!Announce, Board!Outcomes, Settled, Heard
  <2> QED BY <2>8 DEF Board!Next
<1>6. ASSUME NEW j \in Jobs, Cleanup(j) PROVE [Board!Next]_(Board!board)
  <2> DEFINE Heard(k) == {o \in Ended \ {"interrupted"} : Outcome(o) \in told[k]}
  <2>1. told[j] \ {"interrupted"} = {Outcome(status[j])} /\ status[j] \in Settled
    <3>1. status[j] \in Settled /\ told[j] \ {"interrupted"} # {}
      BY <1>6 DEF Cleanup, Announced, IInv, Linked, SettledTask
    <3>2. PICK o \in Settled : /\ told[j] \ {"interrupted"} = {Outcome(o)}
                               /\ status[j] \in {o, "forgotten"}
      BY <3>1 DEF IInv, Linked, ToldLast
    <3> QED BY <3>1, <3>2 DEF Settled
  <2>2. status[j] \in Heard(j)
    BY <2>1 DEF Settled, Ended
  <2>3. /\ j \in {k \in Jobs : pc[k] # NoTask}
        /\ {k \in Jobs : pc'[k] # NoTask} = {k \in Jobs : pc[k] # NoTask} \ {j}
    BY <1>6 DEF Cleanup, Goto, IInv, TypeOK
  <2> HIDE DEF Heard
  <2>4. [k \in Jobs |-> Heard(k)][j] # {}
    BY <2>2
  <2>5. UNCHANGED <<[k \in Jobs |-> Shown(k)], [k \in Jobs |-> Heard(k)]>>
    BY <1>6, PhaseSame, HeardSame DEF Cleanup, Heard
  <2>6. Board!LetGo(j)
    BY <2>3, <2>4, <2>5 DEF Board!LetGo, Heard
  <2> QED BY <2>6 DEF Board!Next
<1>7. CASE ClaimWriteQueue
  BY <1>7, HeardSame, PhaseSame DEF ClaimWriteQueue, Board!board
<1>8. CASE ClaimWriteStatus
  <2>1. /\ \A k \in io.jobs : Shown(k) = "accepted"
        /\ \A k \in Jobs : Shown(k)' = IF k \in io.jobs THEN "working" ELSE Shown(k)
    BY <1>8 DEF ClaimWriteStatus, Shown, Waiting, InFlight, IInv, TypeOK, Linked, Lines, Waiting
  <2>2. io.jobs \in SUBSET Jobs
    BY DEF IInv, TypeOK
  <2>3. {k \in Jobs : pc'[k] # NoTask} = {k \in Jobs : pc[k] # NoTask} \cup io.jobs
    BY <1>8, <2>2 DEF ClaimWriteStatus, IInv, TypeOK
  <2>4. UNCHANGED [k \in Jobs |-> {o \in Ended \ {"interrupted"} : Outcome(o) \in told[k]}]
    BY <1>8, HeardSame DEF ClaimWriteStatus
  <2>5. PICK S \in SUBSET Jobs : S = io.jobs
    BY <2>2
  <2>6. Board!TakeUp(S)
    BY <2>1, <2>3, <2>4, <2>5 DEF Board!TakeUp
  <2> QED BY <2>6 DEF Board!Next
<1>9. CASE StartWorker \/ StopWorker
  <2> DEFINE Heard(k) == {o \in Ended \ {"interrupted"} : Outcome(o) \in told[k]}
  <2>1. \A k \in Jobs : Shown(k)' = IF Shown(k) = "working" THEN "stopped" ELSE Shown(k)
    <3>1. \A k \in Jobs : status'[k] = IF status[k] \in InFlight THEN "interrupted"
                                                                ELSE status[k]
      BY <1>9 DEF StartWorker, StopWorker, InterruptStale, Occupying
    <3>2. \A k \in Jobs : status[k] \in Status
      BY DEF IInv, TypeOK
    <3> QED BY <3>1, <3>2 DEF Shown, Waiting, InFlight, Status, NoRow, Ended
  <2>2. UNCHANGED {k \in Jobs : pc[k] # NoTask}
    BY <1>9 DEF StartWorker, StopWorker
  <2>3. \A k \in Jobs : told'[k] \ {"interrupted"} = told[k] \ {"interrupted"}
    <3>1. \A k \in Jobs : told'[k] \in {told[k], told[k] \cup {"interrupted"}}
      BY <1>9 DEF StartWorker, StopWorker, InterruptStale
    <3> QED BY <3>1
  <2>4. \A k \in Jobs : Heard(k)' = Heard(k)
    BY <2>3, Messages DEF Ended
  <2> HIDE DEF Heard
  <2>5. UNCHANGED [k \in Jobs |-> Heard(k)]
    BY <2>4
  <2>6. Board!Interrupt
    BY <2>1, <2>2, <2>5 DEF Board!Interrupt, Heard
  <2> QED BY <2>6 DEF Board!Next
<1>10. CASE Exit \/ Crash
  <2>1. {k \in Jobs : pc'[k] # NoTask} = {} /\ told' = told
    BY <1>10 DEF Exit, Crash, Die
  <2>2. CASE UNCHANGED status
    <3>1. Board!Die
      BY <2>1, <2>2, HeardSame, PhaseSame DEF Board!Die
    <3> QED BY <3>1 DEF Board!Next
  <2>3. CASE TearStatus
    <3>1. \A k \in Jobs : Shown(k)' = IF Shown(k) \in {"absent", "accepted"} THEN Shown(k)
                                                                            ELSE "forgotten"
      <4>1. \A k \in Jobs : status[k] \in Status /\ status'[k] = IF status[k] = "absent" THEN "absent"
                               ELSE IF status[k] \in Waiting THEN "unlisted" ELSE "forgotten"
        BY <2>3 DEF TearStatus, IInv, TypeOK
      <4> QED BY <4>1 DEF Shown, Waiting, InFlight, Status, NoRow, Ended
    <3>2. Board!LoseRecord
      BY <2>1, <3>1, HeardSame DEF Board!LoseRecord
    <3> QED BY <3>2 DEF Board!Next
  <2> QED BY <1>10, <2>2, <2>3 DEF Exit, Crash, TearLine, TearQueue
<1>11. CASE Boot \/ UNCHANGED vars
  BY <1>11, HeardSame, PhaseSame DEF Boot, vars, Board!board
<1> QED BY <1>1, <1>2, <1>3, <1>4, <1>5, <1>6, <1>7, <1>8, <1>9, <1>10, <1>11,
           NextCases DEF IInv

(* The store and the worker implement the board, for any number of jobs,    *)
(* any limits and faults, and crashes anywhere, in the middle of a write of *)
(* status.json or queue.jsonl too.                                          *)
THEOREM KeepsBoardHolds == Spec => KeepsBoard
<1>1. Init => Announced
  BY DEF Init, Announced, NoTask
<1>2. IInv /\ Announced /\ [Next]_vars => Announced'
  BY AnnouncedNext
<1>3. IInv /\ Announced /\ [Next]_vars => [Board!Next]_(Board!board)
  BY BoardNext
<1> QED BY BoardInit, Invariance, <1>1, <1>2, <1>3, PTL DEF Spec, KeepsBoard, Board!Spec

-----------------------------------------------------------------------------
(* A finite set of numbers, with an element, has a greatest one.            *)
LEMMA Greatest ==
  ASSUME NEW S \in SUBSET Nat, IsFiniteSet(S), S # {}
  PROVE  \E m \in S : \A k \in S : k <= m
<1> DEFINE Up(m) == {k \in S : m <= k}
           T == {Up(m) : m \in S}
           R == StrictSubsetOrdering(S)
<1>1. IsWellFoundedOn(R, SUBSET S)
  BY FS_StrictSubsetOrderingWellFounded, FS_FiniteSubsetsOfFinite
<1>2. T \subseteq SUBSET S /\ T # {}
  OBVIOUS
<1>3. \E x \in T : \A y \in T : <<y, x>> \notin R
  <2> HIDE DEF T, R
  <2> QED BY <1>1, <1>2, WFMin
<1>4. PICK m \in S : \A y \in T : <<y, Up(m)>> \notin R
  BY <1>3
<1>5. ASSUME NEW k \in S, ~(k <= m) PROVE FALSE
  <2>1. m < k /\ \A i \in S : k <= i => m <= i
    <3>1. m \in Nat /\ k \in Nat /\ \A i \in S : i \in Nat
      OBVIOUS
    <3> QED BY <1>5, <3>1
  <2>2. Up(k) \subseteq Up(m)
    BY <2>1
  <2>3. m \in Up(m) /\ m \notin Up(k)
    <3>1. m \in Nat /\ k \in Nat
      OBVIOUS
    <3> QED BY <2>1, <3>1
  <2>4. <<Up(k), Up(m)>> \in R
    BY <2>2, <2>3 DEF StrictSubsetOrdering
  <2> QED BY <1>4, <2>4
<1> QED BY <1>4, <1>5

(* A claim for n slots takes at most n lines ...                            *)
LEMMA FirstFreshBound ==
  ASSUME NEW q \in Seq(Jobs), NEW n \in Nat
  PROVE  IsFiniteSet(FirstFresh(q, n)) /\ Cardinality(FirstFresh(q, n)) <= n
<1> DEFINE F == Fresh(q)
           G == FirstFresh(q, n)
<1>1. F \in SUBSET (1 .. Len(q)) /\ G \in SUBSET F
  BY DEF Fresh, FirstFresh
<1>2. IsFiniteSet(F) /\ IsFiniteSet(G)
  <2>1. IsFiniteSet(1 .. Len(q))
    BY FS_Interval
  <2> QED BY <1>1, <2>1, FS_Subset
<1>3. CASE G = {}
  BY <1>2, <1>3, FS_EmptySet
<1>4. CASE G # {}
  <2>1. PICK m \in G : \A k \in G : k <= m
    <3>1. G \in SUBSET Nat
      BY <1>1
    <3> HIDE DEF G
    <3> QED BY <1>2, <1>4, <3>1, Greatest
  <2> DEFINE L == {k \in F : k <= m}
  <2>2. IsFiniteSet(L) /\ L \in SUBSET F
    <3>1. L \in SUBSET F
      OBVIOUS
    <3> HIDE DEF L
    <3> QED BY <1>2, <3>1, FS_Subset
  <2>3. Cardinality(L) <= n
    BY <2>1 DEF FirstFresh
  <2>4. G \in SUBSET L
    BY <1>1, <2>1
  <2> HIDE DEF G, L
  <2>5. Cardinality(G) <= Cardinality(L)
    BY <2>2, <2>4, FS_Subset
  <2>6. Cardinality(G) \in Nat /\ Cardinality(L) \in Nat
    BY <1>2, <2>2, FS_CardinalityType
  <2>7. Cardinality(G) <= n
    BY <2>3, <2>5, <2>6
  <2> QED BY <1>2, <2>7 DEF G
<1> QED BY <1>3, <1>4

(* ... and so at most n jobs.                                               *)
LEMMA ClaimedBound ==
  ASSUME NEW q \in Seq(Jobs), NEW n \in Nat
  PROVE  IsFiniteSet(Claimed(q, n)) /\ Cardinality(Claimed(q, n)) <= n
<1> DEFINE G == FirstFresh(q, n)
           C == Claimed(q, n)
           f == [i \in G |-> q[i]]
<1>1. f \in Surjection(G, C)
  BY DEF Surjection, Claimed
<1>2. IsFiniteSet(G) /\ Cardinality(G) <= n
  BY FirstFreshBound
<1> HIDE DEF G, C, f
<1>3. IsFiniteSet(C) /\ Cardinality(C) <= Cardinality(G)
  BY <1>1, <1>2, FS_Surjection
<1>4. Cardinality(C) \in Nat /\ Cardinality(G) \in Nat
  BY <1>2, <1>3, FS_CardinalityType
<1>5. Cardinality(C) <= n
  BY <1>2, <1>3, <1>4
<1> QED BY <1>3, <1>5 DEF C

(* A set of jobs within another one that keeps a limit keeps it too.        *)
LEMMA Within ==
  ASSUME NEW S \in SUBSET Jobs, NEW T \in SUBSET S, Cardinality(S) <= MaxParallel
  PROVE  Cardinality(T) <= MaxParallel
<1>1. IsFiniteSet(S) /\ MaxParallel \in Nat
  BY FS_Subset, ConstantsAssumption
<1>2. IsFiniteSet(T) /\ Cardinality(T) <= Cardinality(S)
  BY <1>1, FS_Subset
<1>3. Cardinality(S) \in Nat /\ Cardinality(T) \in Nat
  BY <1>1, <1>2, FS_CardinalityType
<1> QED BY <1>1, <1>2, <1>3

(* A set below the limit has room for one more.                             *)
LEMMA OneMore ==
  ASSUME NEW S \in SUBSET Jobs, NEW j \in Jobs, Cardinality(S) < MaxParallel
  PROVE  Cardinality(S \cup {j}) <= MaxParallel
<1>1. IsFiniteSet(S) /\ MaxParallel \in Nat
  BY FS_Subset, ConstantsAssumption
<1>2. Cardinality(S) \in Nat
  BY <1>1, FS_CardinalityType
<1>3. Cardinality(S \cup {j}) = IF j \in S THEN Cardinality(S) ELSE Cardinality(S) + 1
  BY <1>1, FS_AddElement
<1> QED BY <1>1, <1>2, <1>3

-----------------------------------------------------------------------------
(* The links that make Capacity inductive.                                  *)

(* No task of an earlier process is there when the worker starts, and a     *)
(* claim is only ever half written while the worker runs.                   *)
FreshStart ==
  /\ daemon \in {"down", "starting"} => \A j \in Jobs : pc[j] = NoTask
  /\ io.op = "claim" => daemon = "running"

(* While the worker runs a task that has not settled has a row in progress: *)
(* it already counts.                                                       *)
TaskCounted ==
  daemon = "running"
    => \A j \in Jobs : pc[j] \in {"sem", "lock"} \cup AtWork => status[j] \in InFlight

(* The rows in progress, with those a half-written claim will add.          *)
Due == Occupying \cup (IF io.op = "claim" THEN io.jobs ELSE {})
RowLimit == daemon = "running" => Cardinality(Due) <= MaxParallel

Held == {j \in Jobs : HoldsSem(j)}
SemLimit == Cardinality(Held) <= MaxParallel

PoolInv == FreshStart /\ TaskCounted /\ RowLimit /\ SemLimit

LEMMA FreshStartNext ==
  ASSUME IInv, PoolInv, [Next]_vars
  PROVE  FreshStart'
<1> USE DEF IInv, TypeOK, PoolInv, FreshStart, store, task, NoTask, NoIo
<1>1. ASSUME NEW j \in Jobs, NEW a \in Asks, EnqueueWriteStatus(j, a) PROVE FreshStart'
  BY <1>1 DEF EnqueueWriteStatus
<1>2. ASSUME NEW j \in Jobs, \/ EnqueueAppendLine(j) \/ AcquireSem(j)
                            \/ AcquireRepoLock(j) \/ Notify(j) \/ Cleanup(j)
      PROVE  FreshStart'
  BY <1>2 DEF EnqueueAppendLine, AcquireSem, AcquireRepoLock, Notify, Cleanup, Goto
<1>3. ASSUME NEW j \in Jobs, NEW s \in Status, NEW l \in PC, StepTo(j, s, l)
      PROVE  FreshStart'
  BY <1>3 DEF StepTo, AtWork
<1>4. CASE ClaimWriteQueue \/ ClaimWriteStatus
  BY <1>4 DEF ClaimWriteQueue, MayClaim, ClaimWriteStatus
<1>5. CASE Boot \/ StartWorker \/ StopWorker
  BY <1>5 DEF Boot, StartWorker, StopWorker, InterruptStale
<1>6. CASE Exit \/ Crash \/ UNCHANGED vars
  BY <1>6 DEF Exit, Crash, Die, vars
<1> QED BY <1>1, <1>2, <1>3, <1>4, <1>5, <1>6, NextCases

LEMMA TaskCountedNext ==
  ASSUME IInv, PoolInv, [Next]_vars
  PROVE  TaskCounted'
<1> USE DEF IInv, TypeOK, PoolInv, FreshStart, TaskCounted, store, task, NoTask, NoIo
<1>1. ASSUME NEW j \in Jobs, NEW a \in Asks, EnqueueWriteStatus(j, a) PROVE TaskCounted'
  BY <1>1 DEF EnqueueWriteStatus, AtWork, InFlight
<1>2. ASSUME NEW j \in Jobs, \/ EnqueueAppendLine(j) \/ AcquireSem(j)
                            \/ AcquireRepoLock(j) \/ Notify(j) \/ Cleanup(j)
      PROVE  TaskCounted'
  BY <1>2 DEF EnqueueAppendLine, AcquireSem, AcquireRepoLock, Notify, Cleanup, Goto, AtWork
<1>3. ASSUME NEW j \in Jobs, NEW s \in Status, NEW l \in PC, StepTo(j, s, l)
      PROVE  TaskCounted'
  BY <1>3 DEF StepTo, AtWork
<1>4. CASE ClaimWriteQueue \/ ClaimWriteStatus
  BY <1>4 DEF ClaimWriteQueue, ClaimWriteStatus, InFlight
<1>5. CASE Boot \/ StartWorker \/ StopWorker
  BY <1>5 DEF Boot, StartWorker, StopWorker, AtWork
<1>6. CASE Exit \/ Crash \/ UNCHANGED vars
  BY <1>6 DEF Exit, Crash, Die, vars
<1> QED BY <1>1, <1>2, <1>3, <1>4, <1>5, <1>6, NextCases

LEMMA RowLimitNext ==
  ASSUME IInv, PoolInv, [Next]_vars
  PROVE  RowLimit'
<1> USE DEF IInv, TypeOK, PoolInv, RowLimit
<1>0. Due \in SUBSET Jobs /\ Due' \in SUBSET Jobs
  <2>1. TypeOK'
    BY TypeNext
  <2> QED BY <2>1 DEF Due, Occupying
<1>1. ASSUME daemon = "running", Due' \subseteq Due PROVE RowLimit'
  BY <1>0, <1>1, Within
<1>2. ASSUME NEW j \in Jobs, NEW a \in Asks, EnqueueWriteStatus(j, a) PROVE RowLimit'
  <2>1. daemon' = daemon /\ Due' \subseteq Due
    BY <1>2 DEF EnqueueWriteStatus, Due, Occupying, InFlight, NoIo
  <2> QED BY <1>1, <2>1
<1>3. ASSUME NEW j \in Jobs, \/ EnqueueAppendLine(j) \/ AcquireSem(j)
                            \/ AcquireRepoLock(j) \/ Notify(j) \/ Cleanup(j)
      PROVE  RowLimit'
  <2>1. daemon' = daemon /\ Due' \subseteq Due
    BY <1>3 DEF EnqueueAppendLine, AcquireSem, AcquireRepoLock, Notify, Cleanup,
       store, Due, Occupying, NoIo
  <2> QED BY <1>1, <2>1
<1>4. ASSUME NEW j \in Jobs, NEW s \in Status, NEW l \in PC, StepTo(j, s, l)
      PROVE  RowLimit'
  <2>1. daemon = "running" => Due' \subseteq Due
    BY <1>4 DEF StepTo, TaskCounted, Due, Occupying
  <2> QED BY <1>1, <1>4, <2>1 DEF StepTo
<1>5. CASE ClaimWriteQueue
  <2> DEFINE C == Claimed(queue, Slots)
             O == Occupying
  <2>1. Due' = O \cup C /\ Slots > 0
    BY <1>5 DEF ClaimWriteQueue, MayClaim, Due, Occupying
  <2>2. IsFiniteSet(O) /\ O \in SUBSET Jobs
    BY FS_Subset, ConstantsAssumption DEF Occupying
  <2>3. Cardinality(O) \in Nat /\ MaxParallel \in Nat
    BY <2>2, FS_CardinalityType, ConstantsAssumption
  <2>4. Slots \in Nat /\ Cardinality(O) + Slots <= MaxParallel
    BY <2>1, <2>3 DEF Slots
  <2>5. IsFiniteSet(C) /\ Cardinality(C) <= Slots
    BY <2>4, ClaimedBound
  <2>6. Cardinality(C) \in Nat /\ Cardinality(O \cap C) \in Nat
    BY <2>2, <2>5, FS_CardinalityType, FS_Intersection
  <2> HIDE DEF C, O
  <2>7. Cardinality(O \cup C) = Cardinality(O) + Cardinality(C) - Cardinality(O \cap C)
    BY <2>2, <2>5, FS_Union
  <2>8. Cardinality(O \cup C) <= MaxParallel
    BY <2>3, <2>4, <2>5, <2>6, <2>7
  <2> QED BY <2>1, <2>8
<1>6. CASE ClaimWriteStatus
  <2>1. daemon' = daemon /\ Due' \subseteq Due
    BY <1>6 DEF ClaimWriteStatus, Due, Occupying, InFlight, NoIo
  <2> QED BY <1>1, <2>1
<1>7. CASE StartWorker
  <2>1. Due' = {}
    BY <1>7 DEF StartWorker, InterruptStale, Due, Occupying, InFlight, NoIo
  <2> QED BY <2>1, FS_EmptySet, ConstantsAssumption
<1>8. CASE Boot \/ StopWorker \/ Exit \/ Crash
  BY <1>8 DEF Boot, StopWorker, Exit, Crash, Die
<1>9. CASE UNCHANGED vars
  <2>1. daemon' = daemon /\ Due' \subseteq Due
    BY <1>9 DEF vars, Due, Occupying
  <2> QED BY <1>1, <2>1
<1> QED BY <1>2, <1>3, <1>4, <1>5, <1>6, <1>7, <1>8, <1>9, NextCases

LEMMA SemLimitNext ==
  ASSUME IInv, PoolInv, [Next]_vars
  PROVE  SemLimit'
<1> USE DEF IInv, TypeOK, PoolInv, SemLimit, store, task
<1>0. Held \in SUBSET Jobs
  BY DEF Held
<1>1. ASSUME Held' \subseteq Held PROVE SemLimit'
  BY <1>0, <1>1, Within
<1>2. ASSUME NEW j \in Jobs, NEW a \in Asks, EnqueueWriteStatus(j, a) PROVE SemLimit'
  <2>1. Held' \subseteq Held
    BY <1>2 DEF EnqueueWriteStatus, Held, HoldsSem
  <2> QED BY <1>1, <2>1
<1>3. ASSUME NEW j \in Jobs, \/ EnqueueAppendLine(j) \/ AcquireRepoLock(j)
                            \/ Notify(j) \/ Cleanup(j)
      PROVE  SemLimit'
  <2>1. Held' \subseteq Held
    BY <1>3 DEF EnqueueAppendLine, AcquireRepoLock, Notify, Cleanup, Goto, Held,
       HoldsSem, NoTask
  <2> QED BY <1>1, <2>1
<1>4. ASSUME NEW j \in Jobs, NEW s \in Status, NEW l \in PC, StepTo(j, s, l)
      PROVE  SemLimit'
  <2>1. Held' \subseteq Held
    BY <1>4 DEF StepTo, AtWork, Held, HoldsSem, NoTask
  <2> QED BY <1>1, <2>1
<1>5. ASSUME NEW j \in Jobs, AcquireSem(j) PROVE SemLimit'
  <2>1. Held' \subseteq Held \cup {j} /\ Cardinality(Held) < MaxParallel
    BY <1>5 DEF AcquireSem, Goto, Held, HoldsSem
  <2>2. Cardinality(Held \cup {j}) <= MaxParallel
    BY <1>0, <2>1, OneMore
  <2>3. Held \cup {j} \in SUBSET Jobs
    BY <1>0
  <2> QED BY <2>1, <2>2, <2>3, Within
<1>6. CASE ClaimWriteQueue \/ Boot \/ StartWorker \/ StopWorker \/ UNCHANGED vars
  <2>1. Held' \subseteq Held
    BY <1>6 DEF ClaimWriteQueue, Boot, StartWorker, StopWorker, vars, Held, HoldsSem
  <2> QED BY <1>1, <2>1
<1>7. CASE ClaimWriteStatus \/ Exit \/ Crash
  <2>1. Held' \subseteq Held
    BY <1>7 DEF ClaimWriteStatus, Exit, Crash, Die, Held, HoldsSem
  <2> QED BY <1>1, <2>1
<1> QED BY <1>2, <1>3, <1>4, <1>5, <1>6, <1>7, NextCases

(* At most MaxParallel rows in progress while the worker runs, and at most  *)
(* MaxParallel tasks past the semaphore at any time.                        *)
THEOREM CapacityHolds == Spec => []Capacity
<1>1. Init => PoolInv
  <2> SUFFICES ASSUME Init PROVE PoolInv
    OBVIOUS
  <2>1. Held = {}
    BY DEF Init, Held, HoldsSem
  <2>2. SemLimit
    BY <2>1, FS_EmptySet, ConstantsAssumption DEF SemLimit
  <2> QED BY <2>2 DEF Init, PoolInv, FreshStart, TaskCounted, RowLimit, NoIo
<1>2. IInv /\ PoolInv /\ [Next]_vars => PoolInv'
  BY FreshStartNext, TaskCountedNext, RowLimitNext, SemLimitNext DEF PoolInv
<1>3. IInv /\ PoolInv => Capacity
  <2> SUFFICES ASSUME IInv, PoolInv PROVE Capacity
    OBVIOUS
  <2>1. Due \in SUBSET Jobs /\ Occupying \in SUBSET Due
    BY DEF IInv, TypeOK, Due, Occupying
  <2>2. daemon = "running" => Cardinality(Occupying) <= MaxParallel
    BY <2>1, Within DEF PoolInv, RowLimit
  <2> QED BY <2>2 DEF Capacity, PoolInv, SemLimit, Held, Occupying
<1> QED BY Invariance, <1>1, <1>2, <1>3, PTL DEF Spec

-----------------------------------------------------------------------------
(* The budget of CI fixes.                                                  *)

(* What the earlier passes of a job may have used.                          *)
Earlier(j) == MaxFix * Cardinality(retried[j])
Before == {"sem", "lock", "start"}

(* The current pass has used what its counter says, nothing before it       *)
(* starts.                                                                  *)
Counted ==
  \A j \in Jobs : /\ status[j] \in {"absent"} \cup Waiting => fixRuns[j] = 0
                  /\ pc[j] \in Before => fixRuns[j] <= Earlier(j)
                  /\ fixRuns[j] <= fixes[j] + Earlier(j)

(* The products are natural numbers, and one retry more adds MaxFix.        *)
LEMMA EarlierType ==
  ASSUME IInv, NEW j \in Jobs
  PROVE  /\ IsFiniteSet(retried[j])
         /\ Cardinality(retried[j]) \in Nat
         /\ Earlier(j) \in Nat
         /\ MaxFix * (1 + Cardinality(retried[j])) = MaxFix + Earlier(j)
<1>1. IsFiniteSet(Retries)
  <2>1. IsFiniteSet({"git"} \cup {"timeout"} \cup {"branch"})
    <3>1. IsFiniteSet({"git"})
      BY FS_Singleton
    <3>2. IsFiniteSet({"git"} \cup {"timeout"})
      BY <3>1, FS_AddElement
    <3> QED BY <3>2, FS_AddElement
  <2>2. Retries = {"git"} \cup {"timeout"} \cup {"branch"}
    BY DEF Retries
  <2> QED BY <2>1, <2>2
<1>2. IsFiniteSet(retried[j])
  BY <1>1, FS_Subset DEF IInv, TypeOK
<1>3. Cardinality(retried[j]) \in Nat /\ MaxFix \in Nat
  BY <1>2, FS_CardinalityType, ConstantsAssumption
<1> QED BY <1>2, <1>3 DEF Earlier

(* A step that starts no fix run and no further pass keeps the count.       *)
LEMMA QuietStep ==
  ASSUME IInv, Counted, UNCHANGED <<fixes, fixRuns, retried>>,
         \A j \in Jobs : /\ pc'[j] \in Before
                              => pc[j] \in Before \/ status[j] \in Waiting
                         /\ status'[j] \in {"absent"} \cup Waiting
                              => status[j] \in {"absent"} \cup Waiting
  PROVE  Counted'
<1> SUFFICES ASSUME NEW j \in Jobs
             PROVE  /\ status'[j] \in {"absent"} \cup Waiting => fixRuns[j] = 0
                    /\ pc'[j] \in Before => fixRuns[j] <= Earlier(j)
                    /\ fixRuns[j] <= fixes[j] + Earlier(j)
  BY DEF Counted, Earlier
<1>1. Earlier(j) \in Nat
  BY EarlierType
<1> QED BY <1>1 DEF Counted, Waiting

(* Leaving pc for a later place of the pass is quiet.                       *)
LEMMA OnwardStep ==
  ASSUME IInv, Counted, NEW j \in Jobs, UNCHANGED <<fixes, fixRuns, retried>>,
         NEW s \in Status, NEW l \in PC, StepTo(j, s, l), pc'[j] \notin Before
  PROVE  Counted'
<1>1. s \notin {"absent"} \cup Waiting \/ s = status[j]
  BY DEF StepTo, Waiting, InFlight, Settled
<1> QED BY <1>1, QuietStep DEF StepTo, IInv, TypeOK

LEMMA AfterWorkOnward ==
  ASSUME IInv, NEW j \in Jobs, AfterWork(j)
  PROVE  pc'[j] \notin Before
BY DEF AfterWork, EnterGate, Finish, Goto, Before, IInv, TypeOK

(* Every step counts its fix runs.                                          *)
LEMMA CountedNext ==
  ASSUME IInv, Counted, [Next]_vars
  PROVE  Counted'
<1>1. ASSUME NEW j \in Jobs, Start(j) PROVE Counted'
  <2>1. /\ pc[j] = "start" /\ pc'[j] \notin Before
        /\ fixes' = [fixes EXCEPT ![j] = 0] /\ UNCHANGED <<retried, fixRuns>>
    BY <1>1 DEF Start, StartComment, StartDeadPr, StartWrite, StartCloud, StartRead,
       Begin, Finish, Goto, Before, IInv, TypeOK
  <2>2. PICK s \in Status, l \in PC : StepTo(j, s, l)
    BY <1>1, StartStep DEF IInv
  <2>3. \A k \in Jobs \ {j} : pc'[k] = pc[k] /\ status'[k] = status[k]
    BY <2>2 DEF StepTo, IInv, TypeOK
  <2>4. status'[j] \notin {"absent"} \cup Waiting \/ status'[j] = status[j]
    BY <2>2 DEF StepTo, Waiting, InFlight, Settled, IInv, TypeOK
  <2> SUFFICES ASSUME NEW k \in Jobs
               PROVE  /\ status'[k] \in {"absent"} \cup Waiting => fixRuns[k] = 0
                      /\ pc'[k] \in Before => fixRuns[k] <= Earlier(k)
                      /\ fixRuns[k] <= fixes'[k] + Earlier(k)
    BY <2>1 DEF Counted, Earlier
  <2>5. Earlier(k) \in Nat /\ fixRuns[k] \in Nat
    BY EarlierType DEF IInv, TypeOK
  <2>6. CASE k = j
    <3>1. fixRuns[j] <= Earlier(j) /\ fixes'[j] = 0
      BY <2>1 DEF Counted, Before, IInv, TypeOK
    <3> QED BY <2>1, <2>4, <2>5, <2>6, <3>1 DEF Counted
  <2>7. CASE k # j
    <3>1. fixes'[k] = fixes[k]
      BY <2>1, <2>7 DEF IInv, TypeOK
    <3> QED BY <2>3, <2>7, <3>1 DEF Counted
  <2> QED BY <2>6, <2>7
<1>2. ASSUME NEW j \in Jobs, Run(j), ~PollRed(j) PROVE Counted'
  <2>1. UNCHANGED <<fixes, fixRuns, retried>>
    BY <1>2 DEF Run, AgentDone, TestsDone, RetestDone, OpenPr, PollGreen, PollPending,
       FixDone
  <2>2. pc'[j] \notin Before
    <3>1. CASE AgentDone(j) \/ TestsDone(j) \/ RetestDone(j)
      BY <3>1, AfterWorkOnward DEF AgentDone, TestsDone, RetestDone, Finish, Goto,
         Before, IInv, TypeOK
    <3>2. CASE OpenPr(j) \/ PollGreen(j) \/ PollPending(j) \/ FixDone(j)
      BY <3>2 DEF OpenPr, EnterGate, PollGreen, PollPending, FixDone, Finish, Goto,
         Before, IInv, TypeOK
    <3> QED BY <1>2, <3>1, <3>2 DEF Run
  <2>3. PICK s \in Status, l \in PC : StepTo(j, s, l)
    BY <1>2, RunStep DEF IInv
  <2> QED BY <2>1, <2>2, <2>3, OnwardStep
<1>3. ASSUME NEW j \in Jobs, PollRed(j) PROVE Counted'
  <2>1. PICK s \in Status, l \in PC : StepTo(j, s, l)
    BY <1>3, RunStep DEF Run, IInv
  <2>2. pc'[j] \notin Before /\ UNCHANGED retried
    BY <1>3 DEF PollRed, Finish, Goto, Before, IInv, TypeOK
  <2>3. CASE UNCHANGED <<fixes, fixRuns>>
    BY <2>1, <2>2, <2>3, OnwardStep
  <2>4. CASE /\ fixes' = [fixes EXCEPT ![j] = @ + 1]
             /\ fixRuns' = [fixRuns EXCEPT ![j] = @ + 1]
             /\ status' = [status EXCEPT ![j] = "fixing_ci"]
    <3> SUFFICES ASSUME NEW k \in Jobs
                 PROVE  /\ status'[k] \in {"absent"} \cup Waiting => fixRuns'[k] = 0
                        /\ pc'[k] \in Before => fixRuns'[k] <= Earlier(k)
                        /\ fixRuns'[k] <= fixes'[k] + Earlier(k)
      BY <2>2 DEF Counted, Earlier
    <3>1. Earlier(k) \in Nat /\ fixRuns[k] \in Nat /\ fixes[k] \in Nat
      BY EarlierType, ConstantsAssumption DEF IInv, TypeOK
    <3>2. fixRuns[k] <= fixes[k] + Earlier(k)
      BY DEF Counted
    <3>3. CASE k = j
      <4>1. fixRuns'[j] = fixRuns[j] + 1 /\ fixes'[j] = fixes[j] + 1
        BY <2>4 DEF IInv, TypeOK
      <4>2. status'[j] = "fixing_ci"
        BY <2>4 DEF IInv, TypeOK
      <4>3. fixRuns'[j] <= fixes'[j] + Earlier(j)
        BY <3>1, <3>2, <3>3, <4>1
      <4> QED BY <2>2, <3>3, <4>2, <4>3 DEF Waiting
    <3>4. CASE k # j
      <4>1. /\ fixRuns'[k] = fixRuns[k] /\ fixes'[k] = fixes[k]
            /\ status'[k] = status[k] /\ pc'[k] = pc[k]
        BY <2>1, <2>4, <3>4 DEF StepTo, IInv, TypeOK
      <4> QED BY <4>1 DEF Counted
    <3> QED BY <3>3, <3>4
  <2> QED BY <1>3, <2>3, <2>4 DEF PollRed, SetStatus
<1>4. ASSUME NEW j \in Jobs, NEW f \in Faults, RaiseRetry(j, f) PROVE Counted'
  <2>1. /\ pc' = [pc EXCEPT ![j] = "start"] /\ status' = [status EXCEPT ![j] = "running"]
        /\ retried' = [retried EXCEPT ![j] = @ \cup {f}] /\ UNCHANGED <<fixes, fixRuns>>
        /\ f \notin retried[j]
    BY <1>4 DEF RaiseRetry, SetStatus, Goto, MayRetry
  <2>2. Earlier(j)' = Earlier(j) + MaxFix
    <3>1. retried'[j] = retried[j] \cup {f}
      BY <2>1 DEF IInv, TypeOK
    <3>2. Cardinality(retried[j] \cup {f}) = Cardinality(retried[j]) + 1
      BY <2>1, EarlierType, FS_AddElement
    <3>3. Earlier(j)' = MaxFix * (1 + Cardinality(retried[j]))
      BY <3>1, <3>2, EarlierType DEF Earlier
    <3> QED BY <3>3, EarlierType, ConstantsAssumption
  <2> SUFFICES ASSUME NEW k \in Jobs
               PROVE  /\ status'[k] \in {"absent"} \cup Waiting => fixRuns[k] = 0
                      /\ pc'[k] \in Before => fixRuns[k] <= Earlier(k)'
                      /\ fixRuns[k] <= fixes[k] + Earlier(k)'
    BY <2>1 DEF Counted
  <2>3. /\ Earlier(k) \in Nat /\ fixRuns[k] \in Nat /\ MaxFix \in Nat
        /\ fixes[k] \in 0 .. MaxFix
    BY EarlierType, ConstantsAssumption DEF IInv, TypeOK
  <2>4. fixRuns[k] <= fixes[k] + Earlier(k)
    BY DEF Counted
  <2>5. CASE k = j
    <3>1. status'[j] = "running"
      BY <2>1 DEF IInv, TypeOK
    <3> QED BY <2>2, <2>3, <2>4, <2>5, <3>1 DEF Waiting
  <2>6. CASE k # j
    <3>1. /\ pc'[k] = pc[k] /\ status'[k] = status[k] /\ retried'[k] = retried[k]
      BY <2>1, <2>6 DEF IInv, TypeOK
    <3>2. Earlier(k)' = Earlier(k)
      BY <3>1 DEF Earlier
    <3> QED BY <2>4, <3>1, <3>2 DEF Counted
  <2> QED BY <2>5, <2>6
<1>5. ASSUME NEW j \in Jobs, NEW f \in Faults, RaiseFinal(j, f) PROVE Counted'
  <2>1. pc'[j] \notin Before /\ UNCHANGED <<fixes, fixRuns, retried>>
    BY <1>5 DEF RaiseFinal, Finish, Goto, Before, IInv, TypeOK
  <2>2. PICK s \in Status, l \in PC : StepTo(j, s, l)
    BY <1>5, RaiseStep DEF Raise, IInv
  <2> QED BY <2>1, <2>2, OnwardStep
<1>6. ASSUME NEW j \in Jobs, Enqueue(j) PROVE Counted'
  BY <1>6, QuietStep DEF Enqueue, EnqueueWriteStatus, EnqueueAppendLine, task, IInv, TypeOK
<1>7. ASSUME NEW j \in Jobs, Guarded(j) \/ Conclude(j) PROVE Counted'
  BY <1>7, QuietStep DEF Guarded, AcquireSem, AcquireRepoLock, Conclude, Notify, Cleanup,
     Goto, store, Before, NoTask, IInv, TypeOK
<1>8. CASE Claim
  BY <1>8, QuietStep DEF Claim, ClaimWriteQueue, ClaimWriteStatus, task, IInv, TypeOK,
     Linked, Lines, Waiting, NoTask, Before
<1>9. CASE Boot \/ StartWorker \/ StopWorker
  BY <1>9, QuietStep DEF Boot, StartWorker, StopWorker, InterruptStale, store, task,
     Waiting, IInv, TypeOK
<1>10. CASE Exit \/ Crash \/ UNCHANGED vars
  <2>1. \A j \in Jobs : status'[j] \in {"absent"} \cup Waiting => status[j] \in {"absent"} \cup Waiting
    BY <1>10 DEF Exit, Crash, TearStatus, TearLine, TearQueue, vars, Waiting, IInv, TypeOK
  <2>2. UNCHANGED <<fixes, fixRuns, retried>> /\ \A j \in Jobs : pc'[j] \in Before => pc[j] \in Before
    BY <1>10 DEF Exit, Crash, Die, vars, Before, NoTask
  <2> QED BY <2>1, <2>2, QuietStep
<1> QED BY <1>1, <1>2, <1>3, <1>4, <1>5, <1>6, <1>7, <1>8, <1>9, <1>10
        DEF Next, Raise, Daemon

(* A job runs the CI-fix agent at most MaxFix times in each of its passes,  *)
(* and has one pass more than it has retries.                               *)
THEOREM FixBudgetHolds == Spec => []FixBudget
<1>1. Init => Counted
  <2> SUFFICES ASSUME Init PROVE Counted
    OBVIOUS
  <2>1. IInv
    BY InvInit
  <2>2. \A j \in Jobs : Earlier(j) \in Nat
    BY <2>1, EarlierType
  <2> QED BY <2>2 DEF Init, Counted
<1>2. IInv /\ Counted /\ [Next]_vars => Counted'
  BY CountedNext
<1>3. IInv /\ Counted => FixBudget
  <2> SUFFICES ASSUME IInv, Counted, NEW j \in Jobs
               PROVE  fixRuns[j] <= MaxFix * (1 + Cardinality(retried[j]))
    BY DEF FixBudget
  <2>1. /\ MaxFix * (1 + Cardinality(retried[j])) = MaxFix + Earlier(j)
        /\ Earlier(j) \in Nat
    BY EarlierType
  <2>2. fixRuns[j] \in Nat /\ fixes[j] \in 0 .. MaxFix /\ MaxFix \in Nat
    BY ConstantsAssumption DEF IInv, TypeOK
  <2>3. fixRuns[j] <= fixes[j] + Earlier(j)
    BY DEF Counted
  <2>4. fixRuns[j] <= MaxFix + Earlier(j)
    BY <2>1, <2>2, <2>3
  <2> QED BY <2>1, <2>4
<1> QED BY Invariance, <1>1, <1>2, <1>3, PTL DEF Spec
=================================================================================

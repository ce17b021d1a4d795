------------------------- MODULE CursorWorktreesProofs -------------------------
(***************************************************************************)
(* The invariants of CursorWorktrees, for any number of jobs, keys, pull   *)
(* requests and restarts.                                                  *)
(***************************************************************************)
EXTENDS CursorWorktrees, TLAPS

(* Nothing is known of a job that was not queued, and every row has a key.  *)
(* A job queued in mode read that writes names its pull request.            *)
Fresh ==
  /\ \A j \in Jobs : j \notin Rows =>
       /\ status[j] = "absent" /\ key[j] = None /\ mode[j] = None /\ target[j] = None
       /\ branch[j] = None /\ prNo[j] = None /\ tree[j] = None
  /\ \A j \in Rows : /\ key[j] \in Keys /\ mode[j] \in Modes /\ status[j] # "absent"
                     /\ mode[j] = "read" => target[j] # None

(* Jobs that take the lock run one at a time, and a task's row says that it *)
(* runs.                                                                    *)
Turns ==
  /\ \A j, k \in Jobs :
       Locked(j) /\ Locked(k) /\ pc[j] # "idle" /\ pc[k] # "idle" => j = k
  /\ \A j \in Jobs :
       /\ pc[j] = "clean" => status[j] = "completed"
       /\ pc[j] \notin {"idle", "clean"} <=> status[j] = "running"

(* They run in the order they were queued, so a row with a branch is older  *)
(* than the jobs that wait, and not younger than the one that runs.         *)
InOrder ==
  \A j, k \in Jobs : Locked(j) /\ Locked(k) =>
    /\ pc[j] # "idle" /\ status[k] = "queued" => j < k
    /\ branch[k] # None /\ status[j] = "queued" => k < j
    /\ branch[k] # None /\ pc[j] # "idle" => k <= j

(* Their rows that have a branch are updated in that order too, however the *)
(* thread and the boot stamp them.                                          *)
Newest ==
  \A j, k \in Jobs :
    /\ Locked(j) /\ Locked(k) /\ key[k] = key[j]
    /\ branch[j] # None /\ branch[k] # None /\ k < j
    => k \in older[j]

StoreInv == TypeOK /\ Fresh /\ Turns /\ InOrder /\ Newest

-----------------------------------------------------------------------------
(* Types.                                                                   *)

LEMMA Constants ==
  /\ Jobs \subseteq Nat /\ NumJobs \in Nat /\ MaxRetries \in Nat /\ MaxRestarts \in Nat
  /\ Foreign \cap Jobs = {} /\ None \notin Jobs /\ None \notin Keys /\ None \notin Branch
  /\ Jobs \subseteq Branch /\ Cloned \subseteq Branch
BY ConstantsAssumption DEF Jobs, Branch

(* A choice of branch with its pull request filled in is one still.         *)
LEMMA PickWithPr ==
  ASSUME NEW S, NEW p \in [branch : S, pr : S, blind : BOOLEAN], NEW b \in S
  PROVE  [p EXCEPT !.pr = b] \in [branch : S, pr : S, blind : BOOLEAN]
OBVIOUS

(* Stamping keeps the rows in an order: what was stamped is last, and in    *)
(* the order of the queue.                                                  *)
LEMMA StampOrder ==
  ASSUME TypeOK, NEW S \in SUBSET Jobs, NEW n \in {queued, queued + 1}, Stamp(S),
         n <= NumJobs, S \subseteq 1 .. n, n # queued => n \in S
  PROVE  /\ older' \in [Jobs -> SUBSET (1 .. n)]
         /\ \A i, j \in 1 .. n : i # j => (i \in older'[j] <=> j \notin older'[i])
<1>1. Jobs = 1 .. NumJobs /\ Rows = 1 .. queued /\ queued \in Nat /\ NumJobs \in Nat
  BY ConstantsAssumption DEF TypeOK, Jobs, Rows
<1>2. Rows \subseteq 1 .. n /\ 1 .. n \subseteq Jobs
  BY <1>1
<1>3. \A j \in S, i \in Jobs :
        i \in older'[j] <=> ((i \in Rows /\ i \notin S) \/ (i \in S /\ i < j))
  BY DEF Stamp
<1>6. \A j \in Jobs, i \in Jobs : j \notin S => (i \in older'[j] <=> i \in older[j] /\ i \notin S)
  BY DEF Stamp
<1>4. older' \in [Jobs -> SUBSET (1 .. n)]
  BY <1>2 DEF Stamp, TypeOK
<1>5. ASSUME NEW i \in 1 .. n, NEW j \in 1 .. n, i # j
      PROVE  i \in older'[j] <=> j \notin older'[i]
  <2>1. i \in Jobs /\ j \in Jobs /\ i \in Nat /\ j \in Nat
    BY <1>1, <1>2
  <2>2. (i \in S \/ i \in Rows) /\ (j \in S \/ j \in Rows)
    BY <1>1
  <2>3. i < j <=> ~(j < i)
    BY <1>5, <2>1
  <2>4. CASE i \in S /\ j \in S
    <3>1. (i \in older'[j] <=> i < j) /\ (j \in older'[i] <=> j < i)
      BY <1>3, <2>1, <2>4
    <3> QED BY <2>3, <3>1
  <2>5. CASE i \in S /\ j \notin S
    BY <1>3, <1>6, <2>1, <2>2, <2>5
  <2>6. CASE i \notin S /\ j \in S
    BY <1>3, <1>6, <2>1, <2>2, <2>6
  <2>7. CASE i \notin S /\ j \notin S
    <3>1. (i \in older'[j] <=> i \in older[j]) /\ (j \in older'[i] <=> j \in older[i])
      BY <1>6, <2>1, <2>7
    <3>2. i \in older[j] <=> j \notin older[i]
      BY <1>5, <2>2, <2>7 DEF TypeOK
    <3> QED BY <3>1, <3>2
  <2> QED BY <2>4, <2>5, <2>6, <2>7
<1> QED BY <1>4, <1>5

PickTyped ==
  /\ pick \in [Jobs -> [branch : MaybeBranch, pr : MaybeBranch, blind : BOOLEAN]]
  /\ sawDead \in [Jobs -> SUBSET Branch]

LEMMA TypeInvariant == ASSUME TypeOK, Fresh, Turns, [Next]_vars PROVE TypeOK'
<1> USE DEF TypeOK, MaybeBranch, PC, Modes, Status
<1>0. Rows \subseteq Jobs /\ queued \in Nat
  BY Constants DEF Jobs, Rows
<1>a. ASSUME NEW S \in SUBSET Jobs, S \subseteq Rows, Stamp(S), queued' = queued
      PROVE  /\ older' \in [Jobs -> SUBSET Rows']
             /\ \A i, j \in Rows' : i # j => (i \in older'[j] <=> j \notin older'[i])
  <2>1. queued <= NumJobs /\ Rows' = 1 .. queued /\ Rows = 1 .. queued
    BY <1>a, Constants DEF Rows
  <2> QED BY <1>a, <2>1, StampOrder DEF TypeOK
<1>b. ASSUME NEW k \in Keys, NEW m \in Modes, NEW t \in MaybeBranch,
             NEW s \in {"queued", "completed"}, NewRow(k, m, t, s)
      PROVE  /\ queued' \in 0 .. NumJobs /\ queued' \in Jobs
             /\ key' \in [Jobs -> Keys \cup {None}] /\ target' \in [Jobs -> MaybeBranch]
             /\ mode' \in [Jobs -> Modes \cup {None}]
             /\ status' \in [Jobs -> Status]
             /\ older' \in [Jobs -> SUBSET Rows']
             /\ \A i, j \in Rows' : i # j => (i \in older'[j] <=> j \notin older'[i])
  <2>1. queued' = queued + 1 /\ queued' \in 0 .. NumJobs /\ queued' \in Jobs /\ Rows' = 1 .. queued'
    BY <1>b, <1>0, Constants DEF NewRow, Jobs, Rows
  <2>2. /\ older' \in [Jobs -> SUBSET (1 .. queued')]
        /\ \A i, j \in 1 .. queued' : i # j => (i \in older'[j] <=> j \notin older'[i])
    <3>1. Stamp({queued'}) /\ {queued'} \in SUBSET Jobs /\ {queued'} \subseteq 1 .. queued'
      BY <1>b, <2>1, <1>0 DEF NewRow, SetStatus, Touch
    <3>2. queued' \in {queued, queued + 1} /\ queued' <= NumJobs /\ (queued' # queued => queued' \in {queued'})
      BY <2>1, Constants
    <3> HIDE DEF TypeOK
    <3> QED BY <3>1, <3>2, StampOrder
  <2> QED BY <1>b, <2>1, <2>2 DEF NewRow, SetStatus
<1>1. ASSUME NEW k \in Keys, NEW m \in Modes, NEW t \in Existing \cup {None}, Enqueue(k, m, t)
      PROVE  TypeOK'
  BY <1>1, <1>b DEF Enqueue, Existing, task, repo
<1>2. ASSUME NEW k \in Keys, NEW t \in Existing, Mention(k, t) PROVE TypeOK'
  BY <1>2, <1>b DEF Mention, Existing, task, repo
<1>3. ASSUME NEW k \in Keys, NEW first \in Jobs, NewParticipant(k, first) PROVE TypeOK'
  <2>1. {j \in Jobs : key[j] = k /\ first <= j} \subseteq Rows
    BY Constants DEF Fresh
  <2> QED BY <1>3, <2>1, <1>a DEF NewParticipant, task, repo, Rows
<1>c. ASSUME NEW j \in Jobs, j \in Rows, NEW s \in {"running", "completed", "failed"}, SetStatus(j, s), queued' = queued
      PROVE  /\ status' \in [Jobs -> Status]
             /\ older' \in [Jobs -> SUBSET Rows']
             /\ \A i, k \in Rows' : i # k => (i \in older'[k] <=> k \notin older'[i])
  BY <1>c, <1>a DEF SetStatus, Touch
<1>d. ASSUME NEW j \in Jobs, Task(j) PROVE j \in Rows
  BY <1>d DEF Fresh, Turns, Task, Begin, Resolve, MakeWorktree, NoWorktree, Save, AgentDone, OpenPr, Finish, Clean, Raise
<1>4. ASSUME NEW j \in Jobs, j \in Rows, Begin(j) PROVE TypeOK'
  BY <1>4, <1>c DEF Begin, Goto, repo, Rows
<1>5. ASSUME NEW j \in Jobs, Resolve(j) PROVE TypeOK'
  <2>1. PickTyped'
    <3>0. j \in MaybeBranch /\ None \in MaybeBranch
      BY Constants
    <3>1. ASSUME NEW b \in MaybeBranch, NEW p \in MaybeBranch, NEW u \in BOOLEAN, Use(j, b, p, u) PROVE PickTyped'
      BY <3>1 DEF Use, Pick, PickTyped
    <3>2. ASSUME NEW p \in Branch, Replace(j, p) PROVE PickTyped'
      BY <3>2, Constants DEF Replace, Pick, PickTyped
    <3>3. CASE Use(j, j, None, FALSE)
      BY <3>0, <3>1, <3>3
    <3>4. CASE target[j] # None /\ Adopt(j, target[j])
      <4>1. target[j] \in Branch /\ target[j] \in MaybeBranch
        BY <3>4
      <4>2. Use(j, target[j], target[j], FALSE) \/ Replace(j, target[j])
        BY <3>4 DEF Adopt
      <4> QED BY <3>1, <3>2, <4>1, <4>2
    <3>5. ASSUME NEW k \in Binding(key[j]), Continue(j, k) PROVE PickTyped'
      <4>1. k \in Jobs
        BY DEF Binding, Bound
      <4>2. CASE branch[k] = None
        BY <3>3, <3>5, <4>2 DEF Continue
      <4>3. CASE branch[k] # None
        <5>1. (prNo[k] # None /\ prs[prNo[k]] = "dead") \in BOOLEAN
          OBVIOUS
        <5>2. branch[k] \in MaybeBranch /\ prNo[k] \in MaybeBranch /\ (prNo[k] # None => prNo[k] \in Branch)
          BY <4>1
        <5>3. \/ Use(j, branch[k], prNo[k], prNo[k] # None /\ prs[prNo[k]] = "dead")
              \/ prNo[k] # None /\ Replace(j, prNo[k])
          BY <3>5, <4>3 DEF Continue
        <5> QED BY <3>1, <3>2, <5>1, <5>2, <5>3
      <4> QED BY <4>2, <4>3
    <3> QED BY <1>5, <3>3, <3>4, <3>5 DEF Resolve
  <2> QED BY <1>5, <2>1 DEF Resolve, Goto, rows, repo, Rows, PickTyped
<1>6. ASSUME NEW j \in Jobs, MakeWorktree(j) PROVE TypeOK'
  <2>1. UNCHANGED <<tree, local>> \/ \E b \in Branch : tree' = [tree EXCEPT ![j] = b] /\ local' = local \cup {b}
    BY <1>6, Constants DEF MakeWorktree
  <2>2. tree' \in [Jobs -> MaybeBranch] /\ local' \subseteq Branch
    BY <2>1
  <2> QED BY <1>6, <2>2 DEF MakeWorktree, Goto, rows, Rows
<1>7. ASSUME NEW j \in Jobs, j \in Rows, NoWorktree(j) PROVE TypeOK'
  BY <1>7, <1>c, Constants DEF NoWorktree, Fail, End, NoPick, Goto, repo, Rows
<1>8. ASSUME NEW j \in Jobs, j \in Rows, Save(j) PROVE TypeOK'
  BY <1>8, <1>c DEF Save, Goto, repo, Rows
<1>9. ASSUME NEW j \in Jobs, AgentDone(j) PROVE TypeOK'
  BY <1>9 DEF AgentDone, Goto, rows, repo, Rows
<1>10. ASSUME NEW j \in Jobs, j \in Rows, OpenPr(j) PROVE TypeOK'
  <2>1. /\ older' \in [Jobs -> SUBSET Rows']
        /\ \A i, k \in Rows' : i # k => (i \in older'[k] <=> k \notin older'[i])
    <3>1. CASE Touch(j)
      BY <1>10, <1>a, <3>1 DEF OpenPr, Touch
    <3>2. CASE UNCHANGED older
      BY <1>10, <3>2 DEF OpenPr, Rows
    <3> QED BY <1>10, <3>1, <3>2 DEF OpenPr
  <2> DEFINE Typed == /\ prs' \in [Branch -> {"none", "open", "dead"}] /\ prNo' \in [Jobs -> MaybeBranch]
                      /\ pick' \in [Jobs -> [branch : MaybeBranch, pr : MaybeBranch, blind : BOOLEAN]]
                      /\ sawDead' \in [Jobs -> SUBSET Branch]
  <2>2. Typed
    <3>1. CASE UNCHANGED <<prs, pick, prNo, sawDead>>
      BY <3>1
    <3>2. ASSUME NEW b \in Branch, prs' = [prs EXCEPT ![b] = "open"],
                 pick' = [pick EXCEPT ![j].pr = b], prNo' = [prNo EXCEPT ![j] = b],
                 sawDead' = [i \in Jobs |-> sawDead[i] \ {b}]
          PROVE  Typed
      <4>1. sawDead' \in [Jobs -> SUBSET Branch]
        BY <3>2
      <4>2. prs' \in [Branch -> {"none", "open", "dead"}] /\ prNo' \in [Jobs -> MaybeBranch]
        BY <3>2
      <4>3. pick' \in [Jobs -> [branch : MaybeBranch, pr : MaybeBranch, blind : BOOLEAN]]
        <5>a. pick[j] \in [branch : MaybeBranch, pr : MaybeBranch, blind : BOOLEAN] /\ b \in MaybeBranch
          OBVIOUS
        <5>1. [pick[j] EXCEPT !.pr = b] \in [branch : MaybeBranch, pr : MaybeBranch, blind : BOOLEAN]
          BY <5>a, PickWithPr
        <5>2. pick' = [pick EXCEPT ![j] = [pick[j] EXCEPT !.pr = b]]
          BY <3>2
        <5> QED BY <5>1, <5>2
      <4> QED BY <4>1, <4>2, <4>3
    <3> QED BY <1>10, <3>1, <3>2 DEF OpenPr
  <2> QED BY <1>10, <2>1, <2>2 DEF OpenPr, Goto, Rows
<1>e. ASSUME NEW j \in Jobs, End(j)
      PROVE  /\ pc' \in [Jobs -> PC] /\ pick' \in [Jobs -> [branch : MaybeBranch, pr : MaybeBranch, blind : BOOLEAN]]
             /\ retries' \in [Jobs -> 0 .. MaxRetries] /\ sawDead' \in [Jobs -> SUBSET Branch]
  BY <1>e, Constants DEF End, Goto, NoPick
<1>11. ASSUME NEW j \in Jobs, j \in Rows, Finish(j) PROVE TypeOK'
  <2>1. CASE Fail(j)
    BY <1>11, <1>c, <1>e, <2>1 DEF Finish, Fail, repo, Rows
  <2>2. CASE ~Fail(j)
    BY <1>11, <1>c, <2>2 DEF Finish, Goto, repo, Rows
  <2> QED BY <2>1, <2>2
<1>12. ASSUME NEW j \in Jobs, Clean(j) PROVE TypeOK'
  BY <1>12, Constants DEF Clean, End, NoPick, Goto, rows, Rows
<1>13. ASSUME NEW j \in Jobs, j \in Rows, Raise(j) PROVE TypeOK'
  <2>1. CASE Fail(j)
    BY <1>13, <1>c, <1>e, <2>1 DEF Raise, Fail, repo, Rows
  <2>2. CASE ~Fail(j)
    BY <1>13, <1>c, <2>2, Constants DEF Raise, Goto, repo, Rows
  <2> QED BY <2>1, <2>2
<1>14. ASSUME NEW p \in Branch, Close(p) PROVE TypeOK'
  BY <1>14 DEF Close, rows, task, Rows
<1>15. ASSUME Restart PROVE TypeOK'
  <2>1. /\ restarts' \in 0 .. MaxRestarts
        /\ pc' \in [Jobs -> PC] /\ retries' \in [Jobs -> 0 .. MaxRetries] /\ sawDead' \in [Jobs -> SUBSET Branch]
        /\ pick' \in [Jobs -> [branch : MaybeBranch, pr : MaybeBranch, blind : BOOLEAN]]
        /\ UNCHANGED <<queued, key, mode, target, local, tree, prs>>
    BY <1>15, Constants DEF Restart, NoPick, repo
  <2>2. /\ status' \in [Jobs -> Status] /\ branch' \in [Jobs -> MaybeBranch] /\ prNo' \in [Jobs -> MaybeBranch]
        /\ older' \in [Jobs -> SUBSET Rows']
        /\ \A i, j \in Rows' : i # j => (i \in older'[j] <=> j \notin older'[i])
    <3>1. PICK n \in 0 .. queued, torn \in BOOLEAN :
            LET waiting == {j \in Rows : status[j] = "queued" /\ n < j}
                stale   == {j \in Rows \ waiting : status[j] \in {"queued", "running"}}
            IN  IF torn
                THEN /\ status' = [j \in Jobs |-> IF j \in Rows \ waiting
                                                  THEN "forgotten" ELSE status[j]]
                     /\ branch' = [j \in Jobs |-> None] /\ prNo' = [j \in Jobs |-> None]
                     /\ UNCHANGED older
                ELSE /\ status' = [j \in Jobs |-> IF j \in stale THEN "interrupted" ELSE status[j]]
                     /\ Stamp(stale) /\ UNCHANGED <<branch, prNo>>
      BY <1>15 DEF Restart
    <3>2. CASE torn
      BY <2>1, <3>1, <3>2 DEF Rows
    <3>3. CASE ~torn
      <4>1. PICK S \in SUBSET Rows : /\ status' = [j \in Jobs |-> IF j \in S THEN "interrupted" ELSE status[j]]
                                     /\ Stamp(S) /\ UNCHANGED <<branch, prNo>>
        BY <3>1, <3>3
      <4> QED BY <1>0, <1>a, <2>1, <4>1
    <3> QED BY <3>2, <3>3
  <2> QED BY <2>1, <2>2
<1>16. ASSUME UNCHANGED vars PROVE TypeOK'
  BY <1>16 DEF vars, Rows
<1> HIDE DEF TypeOK
<1> QED
  BY <1>1, <1>2, <1>3, <1>d, <1>4, <1>5, <1>6, <1>7, <1>8, <1>9, <1>10, <1>11, <1>12, <1>13, <1>14, <1>15, <1>16
     DEF Next, Ask, Task

-----------------------------------------------------------------------------
(* The rows and the tasks.                                                  *)

(* What the steps of a running task have in common.                         *)
Moves(j) ==
  /\ UNCHANGED <<queued, key, mode, target>>
  /\ j \in Rows /\ pc[j] # "idle"
  /\ \A k \in Jobs \ {j} :
       pc'[k] = pc[k] /\ status'[k] = status[k] /\ branch'[k] = branch[k]
       /\ prNo'[k] = prNo[k] /\ tree'[k] = tree[k]
  /\ pc'[j] = "clean" => status'[j] = "completed"
  /\ pc'[j] \notin {"idle", "clean"} <=> status'[j] = "running"
  /\ status'[j] \notin {"absent", "queued"}
  /\ Touch(j) \/ UNCHANGED <<older, branch>>

Runs(j) ==
  \/ Resolve(j) \/ MakeWorktree(j) \/ NoWorktree(j) \/ Save(j) \/ AgentDone(j)
  \/ OpenPr(j) \/ Finish(j) \/ Clean(j) \/ Raise(j)

LEMMA RunMoves == ASSUME TypeOK, Fresh, Turns, NEW j \in Jobs, Runs(j) PROVE Moves(j)
<1> USE DEF TypeOK, Goto
<1>0. /\ pc[j] # "idle" => status[j] \in {"running", "completed"}
      /\ pc[j] \notin {"idle", "clean"} <=> status[j] = "running"
      /\ pc[j] = "clean" => status[j] = "completed"
      /\ status[j] # "absent" => j \in Rows
  BY DEF Turns, Fresh
<1>1. CASE Resolve(j)
  BY <1>0, <1>1 DEF Resolve, Moves, rows, repo
<1>2. CASE MakeWorktree(j)
  <2>1. \A k \in Jobs \ {j} : tree'[k] = tree[k]
    BY <1>2 DEF MakeWorktree
  <2> QED BY <1>0, <1>2, <2>1 DEF MakeWorktree, Moves, rows
<1>3. CASE NoWorktree(j)
  BY <1>0, <1>3 DEF NoWorktree, Fail, End, SetStatus, Moves, repo
<1>4. CASE Save(j)
  BY <1>0, <1>4 DEF Save, SetStatus, Moves, repo
<1>5. CASE AgentDone(j)
  BY <1>0, <1>5 DEF AgentDone, Moves, rows, repo
<1>6. CASE OpenPr(j)
  <2>1. \A k \in Jobs \ {j} : prNo'[k] = prNo[k]
    BY <1>6 DEF OpenPr
  <2>2. Touch(j) \/ UNCHANGED <<older, branch>>
    BY <1>6 DEF OpenPr
  <2> QED BY <1>0, <1>6, <2>1, <2>2 DEF OpenPr, Moves
<1>7. CASE Finish(j)
  <2>1. CASE Fail(j)
    BY <1>0, <1>7, <2>1 DEF Finish, Fail, End, SetStatus, Moves, repo
  <2>2. CASE ~Fail(j)
    BY <1>0, <1>7, <2>2 DEF Finish, SetStatus, Moves, repo
  <2> QED BY <2>1, <2>2
<1>8. CASE Clean(j)
  BY <1>0, <1>8 DEF Clean, End, Moves, rows
<1>9. CASE Raise(j)
  <2>1. CASE Fail(j)
    BY <1>0, <1>9, <2>1 DEF Raise, Fail, End, SetStatus, Moves, repo
  <2>2. CASE ~Fail(j)
    BY <1>0, <1>9, <2>2 DEF Raise, SetStatus, Moves, repo
  <2> QED BY <2>1, <2>2
<1> QED BY <1>1, <1>2, <1>3, <1>4, <1>5, <1>6, <1>7, <1>8, <1>9 DEF Runs

(* The kinds of step.                                                       *)
LEMMA NextKinds ==
  ASSUME TypeOK, Fresh, Turns, Next
  PROVE  \/ \E k \in Keys, m \in Modes, t \in Existing \cup {None} : Enqueue(k, m, t)
         \/ \E k \in Keys, t \in Existing : Mention(k, t)
         \/ \E k \in Keys, first \in Jobs : NewParticipant(k, first)
         \/ \E j \in Jobs : Begin(j)
         \/ \E j \in Jobs : Runs(j) /\ Moves(j)
         \/ \E p \in Branch : Close(p)
         \/ Restart
BY RunMoves DEF Next, Ask, Task, Runs

LEMMA StampAll ==
  ASSUME TypeOK, NEW S \in SUBSET Jobs, Stamp(S)
  PROVE  /\ \A j \in S, i \in Jobs :
              i \in older'[j] <=> ((i \in Rows /\ i \notin S) \/ (i \in S /\ i < j))
         /\ \A j \in Jobs, i \in Jobs : j \notin S => (i \in older'[j] <=> i \in older[j] /\ i \notin S)
BY DEF Stamp

(* A crash and boot: either only the rows of the jobs under way change, or  *)
(* every row is lost.                                                       *)
LEMMA Restarted ==
  ASSUME TypeOK, Restart
  PROVE  /\ \A k \in Jobs : pc'[k] = "idle" /\ sawDead'[k] = {} /\ pick'[k] = NoPick
         /\ UNCHANGED <<queued, key, mode, target, local, tree, prs>> /\ Rows' = Rows
         /\ restarts' = restarts + 1 /\ restarts \in Nat
         /\ \A k \in Jobs : k \notin Rows => status'[k] = status[k]
         /\ \A k \in Jobs : k \in Rows => \/ status'[k] \in {"interrupted", "forgotten"}
                                          \/ status'[k] = status[k] /\ status[k] # "running"
         /\ \/ branch' = [k \in Jobs |-> None] /\ prNo' = [k \in Jobs |-> None]
            \/ /\ UNCHANGED <<branch, prNo>>
               /\ \E S \in SUBSET Jobs : Stamp(S) /\ S \subseteq Rows
                                       /\ \A k \in S : status[k] \in {"queued", "running"}
<1>1. PICK n \in 0 .. queued, torn \in BOOLEAN :
        LET waiting == {j \in Rows : status[j] = "queued" /\ n < j}
            stale   == {j \in Rows \ waiting : status[j] \in {"queued", "running"}}
        IN  IF torn
            THEN /\ status' = [j \in Jobs |-> IF j \in Rows \ waiting
                                              THEN "forgotten" ELSE status[j]]
                 /\ branch' = [j \in Jobs |-> None] /\ prNo' = [j \in Jobs |-> None]
                 /\ UNCHANGED older
            ELSE /\ status' = [j \in Jobs |-> IF j \in stale THEN "interrupted" ELSE status[j]]
                 /\ Stamp(stale) /\ UNCHANGED <<branch, prNo>>
  BY DEF Restart
<1>2. /\ \A k \in Jobs : pc'[k] = "idle" /\ sawDead'[k] = {} /\ pick'[k] = NoPick
      /\ UNCHANGED <<queued, key, mode, target, local, tree, prs>> /\ Rows' = Rows
      /\ restarts' = restarts + 1 /\ restarts \in Nat
  BY DEF Restart, repo, Rows, TypeOK
<1>3. Rows \subseteq Jobs
  BY Constants DEF Rows, Jobs, TypeOK
<1>4. CASE torn
  BY <1>1, <1>2, <1>4
<1>5. CASE ~torn
  <2>1. PICK S \in SUBSET Rows :
          /\ status' = [j \in Jobs |-> IF j \in S THEN "interrupted" ELSE status[j]]
          /\ Stamp(S) /\ UNCHANGED <<branch, prNo>>
          /\ \A k \in S : status[k] \in {"queued", "running"}
          /\ \A k \in Rows : status[k] = "running" => k \in S
    <3> DEFINE waiting == {j \in Rows : status[j] = "queued" /\ n < j}
               stale   == {j \in Rows \ waiting : status[j] \in {"queued", "running"}}
    <3>1. /\ stale \in SUBSET Rows
          /\ \A k \in stale : status[k] \in {"queued", "running"}
          /\ \A k \in Rows : status[k] = "running" => k \in stale
      OBVIOUS
    <3>2. /\ status' = [j \in Jobs |-> IF j \in stale THEN "interrupted" ELSE status[j]]
          /\ Stamp(stale) /\ UNCHANGED <<branch, prNo>>
      BY <1>1, <1>5
    <3> HIDE DEF stale
    <3> QED BY <3>1, <3>2
  <2> QED BY <1>2, <1>3, <2>1
<1> QED BY <1>4, <1>5

Store == Fresh /\ Turns /\ InOrder /\ Newest

LEMMA StoreKept == ASSUME StoreInv, TypeOK', [Next]_vars PROVE StoreInv'
<1> USE DEF StoreInv
<1>0. TypeOK /\ Fresh /\ Turns /\ Rows \subseteq Jobs
  BY Constants DEF Rows, Jobs, TypeOK
<1>a. ASSUME UNCHANGED <<key, mode>> PROVE \A j \in Jobs : Locked(j)' <=> Locked(j)
  BY <1>a DEF Locked
<1>b. \A j \in Jobs : Locked(j) => (status[j] = "queued" => branch[j] = None)
  BY Constants DEF InOrder
<1>1. ASSUME NEW k \in Keys, NEW m \in Modes, NEW t, m = "read" => t # None,
             NEW s \in {"queued", "completed"}, NewRow(k, m, t, s), UNCHANGED <<branch, pc, tree>>,
             \A j \in Jobs : j # queued' => prNo'[j] = prNo[j]
      PROVE  Store'
  <2>1. /\ queued' = queued + 1 /\ queued' \in Jobs /\ queued' \notin Rows
        /\ Rows' = Rows \cup {queued'} /\ Rows \subseteq Jobs
        /\ \A j \in Rows : j < queued'
    BY <1>1, Constants DEF NewRow, Rows, Jobs, TypeOK
  <2>2. /\ \A j \in Jobs : j # queued' => /\ key'[j] = key[j] /\ mode'[j] = mode[j] /\ target'[j] = target[j]
                                          /\ status'[j] = status[j]
        /\ key'[queued'] = k /\ mode'[queued'] = m /\ target'[queued'] = t /\ status'[queued'] = s
    BY <1>1, <2>1 DEF NewRow, SetStatus, TypeOK
  <2>3. pc[queued'] = "idle" /\ branch[queued'] = None /\ tree[queued'] = None
    BY <2>1 DEF Fresh, Turns
  <2>4. Fresh'
    BY <1>1, <2>1, <2>2, <2>3 DEF Fresh
  <2>5. \A j \in Jobs : j # queued' => (Locked(j)' <=> Locked(j))
    BY <2>2 DEF Locked
  <2>6. Turns'
    BY <1>1, <2>1, <2>2, <2>3, <2>5 DEF Turns
  <2>7. \A j \in Jobs : branch[j] # None \/ pc[j] # "idle" => j \in Rows
    BY DEF Fresh, Turns
  <2>8. InOrder'
    <3>1. ASSUME NEW i \in Jobs, NEW l \in Jobs, Locked(i)', Locked(l)'
          PROVE  /\ pc[i] # "idle" /\ status'[l] = "queued" => i < l
                 /\ branch[l] # None /\ status'[i] = "queued" => l < i
                 /\ branch[l] # None /\ pc[i] # "idle" => l <= i
      <4>1. CASE i # queued' /\ l # queued'
        BY <2>2, <2>5, <3>1, <4>1 DEF InOrder
      <4>2. CASE i = queued'
        BY <2>1, <2>3, <2>7, <4>2
      <4>3. CASE l = queued'
        BY <2>1, <2>3, <2>7, <4>3
      <4> QED BY <4>1, <4>2, <4>3
    <3> QED BY <1>1, <3>1 DEF InOrder
  <2>9. Stamp({queued'})
    BY <1>1 DEF NewRow, SetStatus, Touch
  <2>10. \A j, i \in Jobs : j # queued' /\ i # queued' => (i \in older'[j] <=> i \in older[j])
    BY <2>1, <2>9, StampAll
  <2>11. Newest'
    BY <1>1, <2>2, <2>3, <2>5, <2>10 DEF Newest
  <2> QED BY <2>4, <2>6, <2>8, <2>11 DEF Store
<1>2. ASSUME NEW k \in Keys, NEW first \in Jobs, NewParticipant(k, first) PROVE Store'
  <2>0. UNCHANGED <<queued, key, mode, target, status, branch, prNo, pc, tree>>
    BY <1>2 DEF NewParticipant, task, repo
  <2>1. Fresh' /\ Turns' /\ InOrder'
    BY <1>a, <2>0 DEF Fresh, Turns, InOrder, Rows
  <2>2. Stamp({j \in Jobs : key[j] = k /\ first <= j})
    BY <1>2 DEF NewParticipant
  <2>3. /\ \A j, i \in Jobs : key[j] = k /\ key[i] = k /\ i < j /\ i \in Rows /\ first <= j => i \in older'[j]
        /\ \A j, i \in Jobs : (key[j] # k \/ ~(first <= j)) /\ (key[i] # k \/ ~(first <= i))
             => (i \in older'[j] <=> i \in older[j])
    BY <2>2, StampAll
  <2>4. ASSUME NEW j \in Jobs, NEW i \in Jobs, Locked(j), Locked(i), branch[j] # None, branch[i] # None,
               i < j, key[i] = key[j]
        PROVE  i \in older'[j]
    <3>1. i \in Rows /\ i \in older[j]
      BY <2>4 DEF Fresh, Newest
    <3>2. first <= i => first <= j
      BY <2>4, Constants
    <3> QED BY <2>3, <2>4, <3>1, <3>2
  <2>5. Newest'
    BY <1>a, <2>0, <2>4 DEF Newest
  <2> QED BY <2>1, <2>5 DEF Store
<1>3. ASSUME NEW j \in Jobs, Begin(j) PROVE Store'
  <2>1. /\ \A k \in Jobs : pc'[k] = (IF k = j THEN "resolve" ELSE pc[k])
        /\ \A k \in Jobs : status'[k] = IF k = j THEN "running" ELSE status[k]
        /\ status[j] = "queued"
        /\ \A k \in Jobs : Locked(j) /\ Locked(k) => pc[k] = "idle" /\ (k < j => status[k] # "queued")
        /\ Touch(j) /\ UNCHANGED <<queued, key, mode, target, branch, prNo, tree>>
    BY <1>3 DEF Begin, SetStatus, Goto, repo, TypeOK
  <2>2. Rows' = Rows /\ j \in Rows
    BY <2>1, Constants DEF Rows, Fresh, TypeOK, Jobs
  <2>3. Fresh'
    BY <1>0, <2>1, <2>2 DEF Fresh
  <2>4. Turns'
    BY <1>a, <2>1 DEF Turns
  <2>5. InOrder'
    <3>1. \A k \in Jobs : Locked(j) /\ Locked(k) /\ k # j /\ status[k] = "queued" => j < k
      BY <2>1, Constants
    <3>2. \A k \in Jobs : Locked(j) /\ Locked(k) /\ branch[k] # None => k <= j
      BY <2>1, Constants DEF InOrder
    <3> QED BY <1>a, <2>1, <3>1, <3>2 DEF InOrder
  <2>6. Newest'
    <3>1. Locked(j) => branch[j] = None
      BY <1>b, <2>1
    <3>2. \A i, k \in Jobs : i # j /\ k # j => (k \in older'[i] <=> k \in older[i])
      BY <2>1, StampAll DEF Touch
    <3> QED BY <1>a, <2>1, <3>1, <3>2 DEF Newest
  <2> QED BY <2>3, <2>4, <2>5, <2>6 DEF Store
<1>4. ASSUME NEW j \in Jobs, Moves(j) PROVE Store'
  <2>0. Rows' = Rows /\ \A k \in Jobs : Locked(k)' <=> Locked(k)
    BY <1>4, <1>a DEF Moves, Rows
  <2>1. Fresh'
    BY <1>0, <1>4, <2>0 DEF Moves, Fresh
  <2>2. Turns'
    BY <1>4, <2>0 DEF Moves, Turns
  <2>3. InOrder'
    <3>1. ASSUME NEW i \in Jobs, NEW k \in Jobs, Locked(i), Locked(k)
          PROVE  /\ pc'[i] # "idle" /\ status'[k] = "queued" => i < k
                 /\ branch'[k] # None /\ status'[i] = "queued" => k < i
                 /\ branch'[k] # None /\ pc'[i] # "idle" => k <= i
      <4>1. CASE i # j /\ k # j
        BY <1>4, <3>1, <4>1 DEF Moves, InOrder
      <4>2. CASE i = j /\ k = j
        BY <1>4, <4>2, Constants DEF Moves
      <4>3. CASE i = j /\ k # j
        BY <1>4, <3>1, <4>3 DEF Moves, InOrder
      <4>4. CASE i # j /\ k = j
        BY <1>4, <3>1, <4>4 DEF Moves, InOrder, Turns
      <4> QED BY <4>1, <4>2, <4>3, <4>4
    <3> QED BY <2>0, <3>1 DEF InOrder
  <2>4. Newest'
    <3>1. ASSUME NEW i \in Jobs, NEW k \in Jobs, Locked(i), Locked(k), key[k] = key[i],
                 branch'[i] # None, branch'[k] # None, k < i
          PROVE  k \in older'[i]
      <4>1. CASE UNCHANGED <<older, branch>>
        BY <3>1, <4>1 DEF Newest
      <4>2. CASE Touch(j) /\ i = j
        <5>1. k \in Rows /\ k # j
          BY <1>4, <3>1, <4>2, Constants DEF Moves, Fresh
        <5> QED BY <4>2, <5>1, StampAll DEF Touch
      <4>3. CASE Touch(j) /\ k = j
        BY <1>4, <3>1, <4>3, Constants DEF Moves, InOrder
      <4>4. CASE Touch(j) /\ i # j /\ k # j
        BY <1>4, <3>1, <4>4, StampAll DEF Moves, Touch, Newest
      <4> QED BY <1>4, <4>1, <4>2, <4>3, <4>4 DEF Moves
    <3> QED BY <1>4, <2>0, <3>1 DEF Moves, Newest
  <2> QED BY <2>1, <2>2, <2>3, <2>4 DEF Store
<1>5. ASSUME UNCHANGED <<queued, key, mode, target, status, branch, prNo, older, pc, tree>> PROVE Store'
  BY <1>5 DEF Store, Fresh, Turns, InOrder, Newest, Rows, Locked
<1>6. ASSUME Restart PROVE Store'
  <2>1. /\ \A k \in Jobs : pc'[k] = "idle"
        /\ UNCHANGED <<queued, key, mode, target, tree>> /\ Rows' = Rows
        /\ \A k \in Jobs : k \notin Rows => status'[k] = status[k]
        /\ \A k \in Jobs : k \in Rows => \/ status'[k] \in {"interrupted", "forgotten"}
                                         \/ status'[k] = status[k] /\ status[k] # "running"
        /\ \A k \in Jobs : branch'[k] \in {branch[k], None} /\ prNo'[k] \in {prNo[k], None}
    BY <1>0, <1>6, Restarted
  <2>2. Fresh'
    BY <1>0, <2>1 DEF Fresh
  <2>3. Turns'
    BY <1>0, <2>1 DEF Turns, Fresh
  <2>4. InOrder'
    BY <1>a, <2>1 DEF InOrder
  <2>5. Newest'
    <3>1. CASE branch' = [k \in Jobs |-> None]
      BY <3>1 DEF Newest
    <3>2. ASSUME UNCHANGED branch, NEW S \in SUBSET Jobs, Stamp(S), S \subseteq Rows,
                 \A k \in S : status[k] \in {"queued", "running"}
          PROVE  Newest'
      <4>1. ASSUME NEW i \in Jobs, NEW k \in Jobs, Locked(i), Locked(k), key[k] = key[i],
                   branch[i] # None, branch[k] # None, k < i
            PROVE  k \in older'[i]
        <5>1. k \in older[i] /\ k \in Rows
          BY <4>1 DEF Newest, Fresh
        <5>2. CASE i \in S
          BY <3>2, <4>1, <5>1, <5>2, StampAll
        <5>3. CASE i \notin S /\ k \notin S
          BY <3>2, <5>1, <5>3, StampAll
        <5>4. CASE k \in S
          <6>1. status[k] = "running"
            BY <1>b, <3>2, <4>1, <5>4
          <6>2. pc[k] # "idle"
            BY <6>1 DEF Turns
          <6> QED BY <4>1, <6>2, Constants DEF InOrder
        <5> QED BY <5>2, <5>3, <5>4
      <4> QED BY <1>a, <2>1, <3>2, <4>1 DEF Newest
    <3> QED BY <1>0, <1>6, <3>1, <3>2, Restarted
  <2> QED BY <2>2, <2>3, <2>4, <2>5 DEF Store
<1>7. ASSUME NEW k \in Keys, NEW m \in Modes, NEW t \in Existing \cup {None}, Enqueue(k, m, t) PROVE Store'
  BY <1>1, <1>7 DEF Enqueue, task, repo
<1>8. ASSUME NEW k \in Keys, NEW t \in Existing, Mention(k, t) PROVE Store'
  <2>1. \A j \in Jobs : j # queued' => prNo'[j] = prNo[j]
    BY <1>8 DEF Mention, TypeOK
  <2>2. "read" \in Modes /\ t # None
    BY Constants DEF Modes, Existing
  <2> QED BY <1>1, <1>8, <2>1, <2>2 DEF Mention, task, repo
<1>9. ASSUME NEW p \in Branch, Close(p) PROVE Store'
  BY <1>5, <1>9 DEF Close, rows, task
<1>10. ASSUME UNCHANGED vars PROVE Store'
  BY <1>5, <1>10 DEF vars
<1> QED BY <1>0, <1>2, <1>3, <1>4, <1>6, <1>7, <1>8, <1>9, <1>10, NextKinds DEF Store

LEMMA InitialStore == Init => StoreInv
<1> SUFFICES ASSUME Init PROVE StoreInv
  OBVIOUS
<1>1. Rows = {} /\ \A j \in Jobs : j \notin Rows
  BY DEF Init, Rows
<1>2. TypeOK
  BY <1>1, Constants DEF Init, TypeOK, MaybeBranch, PC, NoPick, Status
<1>3. Fresh /\ Turns /\ InOrder /\ Newest
  BY <1>1 DEF Init, Fresh, Turns, InOrder, Newest
<1> QED BY <1>2, <1>3 DEF StoreInv

(* The rows and the tasks that work on them.                                *)
THEOREM StoreInvariant == Spec => []StoreInv
<1>1. StoreInv /\ [Next]_vars => StoreInv'
  BY TypeInvariant, StoreKept DEF StoreInv
<1> QED BY InitialStore, <1>1, PTL DEF Spec

(* Every reachable state has its type, and the rows are in one order.       *)
THEOREM WorktreesTypeCorrect == Spec => []TypeOK
<1>1. StoreInv => TypeOK
  BY DEF StoreInv
<1> QED BY StoreInvariant, <1>1, PTL

-----------------------------------------------------------------------------
(* Branches and pull requests.                                              *)

(* What a job of the same key was made for, or asked for.                   *)
Own(j, b) == \E i \in Jobs : key[i] = key[j] /\ b \in {i, target[i]}

(* People name pull requests that exist.                                    *)
Asked == \A j \in Jobs : target[j] # None => prs[target[j]] # "none"

(* What a pass picked is of the job's key, with the pull request of that    *)
(* branch or none, and so is what rows and directories keep of it.          *)
Picked ==
  \A j \in Jobs :
    /\ pc[j] \in {"worktree", "save", "agent", "open", "ci"} =>
         /\ pick[j].branch # None /\ Own(j, pick[j].branch)
         /\ pick[j].pr = None \/ pick[j].pr = pick[j].branch
         /\ pick[j].blind => pick[j].pr # None
    /\ pc[j] \in {"agent", "open"} => branch[j] = pick[j].branch
    /\ branch[j] # None => Own(j, branch[j])

(* What a task found dead stays dead, until a new pull request is opened.   *)
Dead ==
  \A j \in Jobs :
    /\ pc[j] = "idle" => sawDead[j] = {}
    /\ \A p \in sawDead[j] : prs[p] = "dead"

(* The job of its key that was queued last among those with a branch.       *)
Last(k) == \A i \in Jobs : key[i] = key[k] /\ branch[i] # None => i <= k

(* What the next pass of a job that found a pull request dead would go on   *)
(* with: its own row, if that has a branch, else the last one of the key.   *)
(* Where it names no pull request it is not the branch found dead.          *)
Tried(j) ==
  pc[j] # "idle" /\ target[j] = None /\ OnlyLocked(key[j]) =>
    /\ branch[j] # None /\ prNo[j] = None => branch[j] \notin sawDead[j] \ {j}
    /\ branch[j] = None /\ sawDead[j] # {} =>
         \A k \in Jobs : key[k] = key[j] /\ branch[k] # None /\ Last(k) => prNo[k] # None
AllTried == \A j \in Jobs : Tried(j)

Work ==
  /\ Asked /\ Picked /\ Dead /\ AllTried
  /\ BranchIsolation /\ RowPrMatches /\ DeadNotPicked /\ CompletedLeavesNothing
WorkInv == StoreInv /\ Work

(* A job that goes on with its thread's work takes the lock, where only     *)
(* such jobs wrote.                                                         *)
LEMMA TakesLock ==
  ASSUME TypeOK, Fresh, NEW j \in Jobs, j \in Rows, target[j] = None, OnlyLocked(key[j])
  PROVE  Locked(j)
BY DEF Fresh, Locked, OnlyLocked, Modes

(* The branch a pass picks.                                                 *)
Fit(j) ==
  /\ pick[j].branch # None /\ Own(j, pick[j].branch)
  /\ pick[j].pr = None \/ pick[j].pr = pick[j].branch
  /\ pick[j].blind => pick[j].pr # None
  /\ \A p \in sawDead[j] : prs[p] = "dead"
NotDead(j) ==
  ~pick[j].blind /\ (target[j] = None => OnlyLocked(key[j])) => pick[j].branch \notin sawDead[j] \ {j}

LEMMA Chosen ==
  ASSUME WorkInv, NEW j \in Jobs, j \in Rows, Resolve(j)
  PROVE  /\ Fit(j)' /\ NotDead(j)' /\ Tried(j)'
         /\ \A k \in Jobs : k # j => pick'[k] = pick[k] /\ sawDead'[k] = sawDead[k]
<1> USE DEF WorkInv, StoreInv, Work
<1>0. /\ pc[j] = "resolve" /\ TypeOK /\ j # None /\ None \notin Branch
      /\ \A p \in sawDead[j] : prs[p] = "dead"
      /\ UNCHANGED <<queued, key, mode, target, status, branch, prNo, prs>>
      /\ Rows' = Rows
  BY Constants DEF Resolve, Dead, rows, repo, Rows
<1>a. /\ \A b \in Branch : Own(j, b)' <=> Own(j, b)
      /\ \A k : OnlyLocked(k)' <=> OnlyLocked(k)
      /\ \A k \in Jobs : Last(k)' <=> Last(k)
      /\ Own(j, j)
  BY <1>0 DEF Own, OnlyLocked, Locked, Last
<1>b. pc'[j] # "idle"
  BY <1>0 DEF Resolve, Goto, TypeOK
<1> DEFINE Others == \A k \in Jobs : k # j => pick'[k] = pick[k] /\ sawDead'[k] = sawDead[k]
(* A pass that leaves what it found dead as it was.                         *)
<1>1. ASSUME NEW b \in Branch, NEW p \in {None, b}, NEW u \in BOOLEAN, Own(j, b), u => p # None,
             ~u /\ (target[j] = None => OnlyLocked(key[j])) => b \notin sawDead[j] \ {j},
             Use(j, b, p, u)
      PROVE  Fit(j)' /\ NotDead(j)' /\ Tried(j)' /\ Others
  <2>1. /\ pick'[j].branch = b /\ pick'[j].pr = p /\ pick'[j].blind = u
        /\ sawDead' = sawDead /\ \A k \in Jobs : k # j => pick'[k] = pick[k]
    BY <1>0, <1>1 DEF Use, Pick, TypeOK
  <2>2. Fit(j)'
    BY <1>0, <1>1, <1>a, <2>1 DEF Fit
  <2>3. NotDead(j)'
    BY <1>0, <1>1, <1>a, <2>1 DEF NotDead
  <2>4. Tried(j)'
    BY <1>0, <1>a, <2>1 DEF AllTried, Tried
  <2> QED BY <2>1, <2>2, <2>3, <2>4
(* A pass that replaces a dead pull request by the job's own branch.        *)
<1>2. ASSUME NEW p \in Branch, prs[p] = "dead", Replace(j, p),
             target[j] = None /\ OnlyLocked(key[j]) =>
               /\ branch[j] # None => prNo[j] # None
               /\ \A k \in Jobs : key[k] = key[j] /\ branch[k] # None /\ Last(k) => prNo[k] # None
      PROVE  Fit(j)' /\ NotDead(j)' /\ Tried(j)' /\ Others
  <2>1. /\ pick'[j].branch = j /\ pick'[j].pr = None /\ pick'[j].blind = FALSE
        /\ sawDead'[j] = sawDead[j] \cup {p}
        /\ \A k \in Jobs : k # j => pick'[k] = pick[k] /\ sawDead'[k] = sawDead[k]
    BY <1>0, <1>2 DEF Replace, Pick, TypeOK
  <2>2. Fit(j)'
    BY <1>0, <1>2, <1>a, <2>1, Constants DEF Fit
  <2>3. NotDead(j)'
    BY <2>1 DEF NotDead
  <2>4. Tried(j)'
    BY <1>0, <1>2, <1>a, <2>1 DEF Tried
  <2> QED BY <2>1, <2>2, <2>3, <2>4
<1>3. ASSUME Use(j, j, None, FALSE) PROVE Fit(j)' /\ NotDead(j)' /\ Tried(j)' /\ Others
  BY <1>1, <1>3, <1>a, Constants
<1>4. ASSUME target[j] # None, Adopt(j, target[j]) PROVE Fit(j)' /\ NotDead(j)' /\ Tried(j)' /\ Others
  <2>1. target[j] \in Branch /\ prs[target[j]] \in {"open", "dead"} /\ Own(j, target[j])
    BY <1>0, <1>4 DEF Asked, TypeOK, MaybeBranch, Own
  <2>2. CASE prs[target[j]] = "open"
    BY <1>0, <1>1, <1>4, <2>1, <2>2 DEF Adopt
  <2>3. CASE prs[target[j]] = "dead"
    BY <1>2, <1>4, <2>1, <2>3 DEF Adopt
  <2> QED BY <2>1, <2>2, <2>3
<1>5. ASSUME target[j] = None, NEW k \in Binding(key[j]), Continue(j, k)
      PROVE  Fit(j)' /\ NotDead(j)' /\ Tried(j)' /\ Others
  <2>1. k \in Jobs /\ key[k] = key[j] /\ Bound(key[j]) \ {k} \subseteq older[k]
    BY DEF Binding, Bound
  <2>2. ASSUME branch[k] # None, OnlyLocked(key[j]), NEW i \in Jobs, i # k, key[i] = key[j], branch[i] # None
        PROVE  i < k
    <3>1. i \in older[k] /\ i \in Rows /\ k \in Rows
      BY <2>1, <2>2 DEF Bound, Fresh
    <3>2. Locked(i) /\ Locked(k)
      BY <2>1, <2>2 DEF OnlyLocked
    <3>3. k < i => k \in older[i]
      BY <2>1, <2>2, <3>2 DEF Newest
    <3>4. k < i \/ i < k
      BY <2>1, <2>2, Constants
    <3> QED BY <1>0, <2>2, <3>1, <3>3, <3>4 DEF TypeOK
  <2>3. ASSUME branch[k] # None, OnlyLocked(key[j]), branch[j] # None PROVE k = j
    <3>1. Locked(j) /\ Locked(k)
      BY <1>0, <1>5, <2>1, <2>3, TakesLock DEF OnlyLocked
    <3>2. k <= j
      BY <1>0, <2>1, <2>3, <3>1 DEF InOrder
    <3> QED BY <2>1, <2>2, <2>3, <3>2, Constants
  <2>4. branch[k] # None /\ OnlyLocked(key[j]) => Last(k)
    <3>1. ASSUME branch[k] # None, OnlyLocked(key[j]), NEW i \in Jobs, key[i] = key[k], branch[i] # None
          PROVE  i <= k
      <4>1. i # k => i < k
        BY <2>1, <2>2, <3>1
      <4> QED BY <2>1, <4>1, Constants
    <3> QED BY <3>1 DEF Last
  <2>5. CASE branch[k] = None
    BY <1>3, <1>5, <2>5 DEF Continue
  <2>6. CASE branch[k] # None
    <3> DEFINE dead == prNo[k] # None /\ prs[prNo[k]] = "dead"
    <3>1. branch[k] \in Branch /\ prNo[k] \in {None, branch[k]} /\ Own(j, branch[k]) /\ dead \in BOOLEAN
      BY <1>0, <2>1, <2>6 DEF RowPrMatches, TypeOK, MaybeBranch, Picked, Own
    <3>2. CASE Use(j, branch[k], prNo[k], dead)
      <4>1. ASSUME ~dead, OnlyLocked(key[j]) PROVE branch[k] \notin sawDead[j] \ {j}
        <5>1. CASE prNo[k] # None
          BY <1>0, <3>1, <4>1, <5>1
        <5>2. CASE prNo[k] = None /\ branch[j] # None
          BY <1>0, <1>5, <2>3, <2>6, <4>1, <5>2 DEF AllTried, Tried
        <5>3. CASE prNo[k] = None /\ branch[j] = None
          BY <1>0, <1>5, <2>1, <2>4, <2>6, <4>1, <5>3 DEF AllTried, Tried
        <5> QED BY <5>1, <5>2, <5>3
      <4>2. dead => prNo[k] # None
        OBVIOUS
      <4>3. ~dead /\ (target[j] = None => OnlyLocked(key[j])) => branch[k] \notin sawDead[j] \ {j}
        BY <1>5, <4>1
      <4> HIDE DEF dead
      <4> QED BY <1>1, <3>1, <3>2, <4>2, <4>3
    <3>3. CASE dead /\ Replace(j, prNo[k])
      <4>1. prNo[k] \in Branch /\ prs[prNo[k]] = "dead" /\ prNo[k] # None
        BY <3>1, <3>3
      <4>2. OnlyLocked(key[j]) /\ branch[j] # None => prNo[j] # None
        BY <2>3, <2>6, <4>1
      <4>3. ASSUME OnlyLocked(key[j]), NEW i \in Jobs, key[i] = key[j], branch[i] # None, Last(i)
            PROVE  prNo[i] # None
        <5>1. i <= k /\ k <= i
          BY <2>1, <2>4, <2>6, <4>3 DEF Last
        <5>2. i = k
          BY <2>1, <5>1, Constants
        <5> QED BY <4>1, <5>2
      <4> QED BY <1>2, <1>5, <3>3, <4>1, <4>2, <4>3
    <3>4. Use(j, branch[k], prNo[k], dead) \/ (dead /\ Replace(j, prNo[k]))
      BY <1>5, <2>6 DEF Continue
    <3> HIDE DEF dead
    <3> QED BY <3>2, <3>3, <3>4
  <2> QED BY <2>5, <2>6
<1> HIDE DEF Others
<1>6. \/ target[j] # None /\ Adopt(j, target[j])
      \/ Use(j, j, None, FALSE)
      \/ target[j] = None /\ \E k \in Binding(key[j]) : Continue(j, k)
  BY DEF Resolve
<1>7. Fit(j)' /\ NotDead(j)' /\ Tried(j)' /\ Others
  <2>1. CASE Use(j, j, None, FALSE)
    BY <1>3, <2>1
  <2>2. CASE target[j] = None /\ \E k \in Binding(key[j]) : Continue(j, k)
    <3>1. PICK k \in Binding(key[j]) : Continue(j, k)
      BY <2>2
    <3> QED BY <1>5, <2>2, <3>1
  <2> QED BY <1>4, <1>6, <2>1, <2>2
<1> QED BY <1>7 DEF Others

(* Everything but the steps of a task.                                      *)
LEMMA NewRowWork ==
  ASSUME WorkInv, StoreInv', NEW k \in Keys, NEW m \in Modes, NEW t \in Existing \cup {None},
         NEW s \in {"queued", "completed"}, NewRow(k, m, t, s),
         UNCHANGED <<branch, task, repo, restarts>>,
         prNo' = prNo \/ prNo' = [prNo EXCEPT ![queued'] = t]
  PROVE  Work'
<1> USE DEF WorkInv, StoreInv, Work
<1>1. /\ queued' = queued + 1 /\ queued' \in Jobs /\ queued' \notin Rows
      /\ Rows' = Rows \cup {queued'} /\ Rows \subseteq Jobs
  BY Constants DEF NewRow, Rows, Jobs, TypeOK
<1>2. /\ \A j \in Jobs : j # queued' => /\ key'[j] = key[j] /\ mode'[j] = mode[j] /\ target'[j] = target[j]
                                        /\ status'[j] = status[j] /\ prNo'[j] = prNo[j]
      /\ key'[queued'] = k /\ status'[queued'] = s /\ target'[queued'] = t
  BY <1>1 DEF NewRow, SetStatus, TypeOK
<1>3. /\ pc[queued'] = "idle" /\ branch[queued'] = None /\ tree[queued'] = None
      /\ key[queued'] = None /\ target[queued'] = None
  BY <1>1 DEF Fresh, Turns
<1>4. UNCHANGED <<branch, pc, pick, retries, sawDead, local, tree, prs, restarts>>
  BY DEF task, repo
<1>5. \A j \in Rows, b \in Branch : Own(j, b) => Own(j, b)'
  <2>1. ASSUME NEW j \in Rows, NEW b \in Branch, NEW i \in Jobs, key[i] = key[j], b \in {i, target[i]}
        PROVE  key'[i] = key'[j] /\ b \in {i, target'[i]}
    BY <1>1, <1>2, <1>3, <2>1, Constants DEF Fresh
  <2> QED BY <2>1 DEF Own
<1>6. \A j \in Jobs : pc[j] # "idle" \/ branch[j] # None \/ tree[j] # None => j \in Rows
  BY DEF Fresh, Turns
<1>7. Asked'
  BY <1>1, <1>2, <1>3, <1>4 DEF Asked, Existing
<1>8. Picked'
  <2>1. ASSUME NEW j \in Jobs, pc[j] \in {"worktree", "save", "agent", "open", "ci"}
        PROVE  Own(j, pick[j].branch)'
    <3>1. pick[j].branch \in Branch /\ Own(j, pick[j].branch)
      BY <2>1 DEF Picked, TypeOK, MaybeBranch
    <3>2. Own(j, pick[j].branch)' <=> \E i \in Jobs : key'[i] = key'[j] /\ pick[j].branch \in {i, target'[i]}
      BY <1>4 DEF Own
    <3> QED BY <1>5, <1>6, <2>1, <3>1, <3>2 DEF Own
  <2>2. ASSUME NEW j \in Jobs, branch[j] # None
        PROVE  Own(j, branch[j])'
    <3>1. branch[j] \in Branch /\ Own(j, branch[j])
      BY <2>2 DEF Picked, TypeOK, MaybeBranch
    <3>2. Own(j, branch[j])' <=> \E i \in Jobs : key'[i] = key'[j] /\ branch[j] \in {i, target'[i]}
      BY <1>4 DEF Own
    <3> QED BY <1>5, <1>6, <2>2, <3>1, <3>2 DEF Own
  <2> QED BY <1>4, <2>1, <2>2 DEF Picked
<1>9. BranchIsolation'
  <2>1. ASSUME NEW j \in Jobs, tree[j] # None
        PROVE  \E i \in Jobs : key'[i] = key'[j] /\ tree[j] \in {i, target'[i]}
    <3>1. tree[j] \in Branch /\ Own(j, tree[j])
      BY <2>1 DEF BranchIsolation, TypeOK, MaybeBranch, Own
    <3> QED BY <1>5, <1>6, <2>1, <3>1 DEF Own
  <2> QED BY <1>4, <2>1 DEF BranchIsolation
<1>10. ASSUME NEW j \in Jobs, j # queued' PROVE OnlyLocked(key[j])' => OnlyLocked(key[j])
  <2>1. \A i \in Jobs : branch[i] # None => key'[i] = key[i] /\ (Locked(i)' <=> Locked(i))
    BY <1>1, <1>2, <1>3 DEF Locked
  <2>2. key'[j] = key[j]
    BY <1>2, <1>10
  <2> QED BY <1>4, <2>1, <2>2 DEF OnlyLocked
<1>11. AllTried'
  <2>1. ASSUME NEW j \in Jobs, pc[j] # "idle", target'[j] = None, OnlyLocked(key[j])'
        PROVE  /\ branch[j] # None /\ prNo'[j] = None => branch[j] \notin sawDead[j] \ {j}
               /\ branch[j] = None /\ sawDead[j] # {} =>
                    \A i \in Jobs : key'[i] = key'[j] /\ branch[i] # None /\ Last(i)' => prNo'[i] # None
    <3>1. j # queued' /\ key'[j] = key[j] /\ target[j] = None /\ prNo'[j] = prNo[j]
      BY <1>2, <1>3, <2>1
    <3>2. OnlyLocked(key[j])
      BY <1>10, <2>1, <3>1
    <3>3. ASSUME NEW i \in Jobs, branch[i] # None, Last(i)' PROVE Last(i) /\ key'[i] = key[i] /\ prNo'[i] = prNo[i]
      <4>1. i # queued' /\ key'[i] = key[i] /\ prNo'[i] = prNo[i]
        BY <1>2, <1>3, <3>3
      <4>2. \A l \in Jobs : key[l] = key[i] /\ branch[l] # None => l # queued' /\ key'[l] = key[l]
        BY <1>2, <1>3
      <4> QED BY <1>4, <3>3, <4>1, <4>2 DEF Last
    <3> QED BY <2>1, <3>1, <3>2, <3>3 DEF AllTried, Tried
  <2> QED BY <1>4, <2>1 DEF AllTried, Tried
<1>12. DeadNotPicked'
  <2>1. \A j \in Jobs : pc[j] # "idle" => j # queued' /\ key'[j] = key[j] /\ target'[j] = target[j]
    BY <1>2, <1>3
  <2> QED BY <1>4, <1>10, <2>1 DEF DeadNotPicked, Picking
<1>13. Dead' /\ CompletedLeavesNothing' /\ RowPrMatches'
  BY <1>2, <1>3, <1>4 DEF Dead, CompletedLeavesNothing, RowPrMatches
<1> QED BY <1>7, <1>8, <1>9, <1>11, <1>12, <1>13

LEMMA OthersWork ==
  ASSUME WorkInv, StoreInv',
         \/ \E k \in Keys, first \in Jobs : NewParticipant(k, first)
         \/ \E j \in Jobs : Begin(j)
         \/ \E p \in Branch : Close(p)
         \/ Restart
         \/ UNCHANGED vars
  PROVE  Work'
<1> USE DEF WorkInv, StoreInv, Work
<1>1. ASSUME UNCHANGED <<queued, key, mode, target, status, branch, prNo, task, repo, restarts>> PROVE Work'
  BY <1>1 DEF task, repo, Rows, Asked, Picked, Own, Dead, AllTried, Tried, Last, OnlyLocked, Locked,
              BranchIsolation, RowPrMatches, DeadNotPicked, Picking, CompletedLeavesNothing
<1>2. ASSUME NEW k \in Keys, NEW first \in Jobs, NewParticipant(k, first) PROVE Work'
  BY <1>1, <1>2 DEF NewParticipant
<1>3. ASSUME UNCHANGED vars PROVE Work'
  BY <1>1, <1>3 DEF vars, task, repo
<1>a. ASSUME UNCHANGED <<key, mode, target, branch>>
      PROVE  /\ \A k \in Jobs : OnlyLocked(key[k])' <=> OnlyLocked(key[k])
             /\ \A k \in Jobs : Last(k)' <=> Last(k)
  BY <1>a DEF OnlyLocked, Locked, Last
<1>4. ASSUME NEW j \in Jobs, Begin(j) PROVE Work'
  <2>1. /\ \A k \in Jobs : pc'[k] = (IF k = j THEN "resolve" ELSE pc[k])
        /\ \A k \in Jobs : status'[k] = IF k = j THEN "running" ELSE status[k]
        /\ status[j] = "queued"
        /\ UNCHANGED <<queued, key, mode, target, branch, prNo, pick, sawDead, local, tree, prs, restarts>>
    BY <1>4 DEF Begin, SetStatus, Goto, repo, TypeOK
  <2>2. pc[j] = "idle" /\ sawDead[j] = {}
    BY <2>1 DEF Turns, Dead
  <2>3. Asked' /\ Picked' /\ Dead'
    BY <2>1, <2>2 DEF Asked, Picked, Own, Dead
  <2>4. AllTried'
    <3>1. ASSUME NEW i \in Jobs PROVE Tried(i)'
      <4>1. CASE i = j
        BY <2>1, <2>2, <4>1 DEF Tried
      <4>2. CASE i # j
        BY <1>a, <2>1, <4>2 DEF AllTried, Tried
      <4> QED BY <4>1, <4>2
    <3> QED BY <3>1 DEF AllTried
  <2>5. DeadNotPicked'
    BY <1>a, <2>1 DEF DeadNotPicked, Picking
  <2>6. BranchIsolation' /\ RowPrMatches' /\ CompletedLeavesNothing'
    BY <2>1 DEF BranchIsolation, RowPrMatches, CompletedLeavesNothing
  <2> QED BY <2>3, <2>4, <2>5, <2>6
<1>5. ASSUME NEW p \in Branch, Close(p) PROVE Work'
  <2>1. /\ UNCHANGED <<queued, key, mode, target, status, branch, prNo, pc, pick, sawDead, local, tree, restarts>>
        /\ prs[p] = "open" /\ \A b \in Branch : prs'[b] = IF b = p THEN "dead" ELSE prs[b]
    BY <1>5 DEF Close, rows, task, TypeOK
  <2>2. Asked'
    <3>1. \A j \in Jobs : target[j] # None => target[j] \in Branch
      BY DEF TypeOK, MaybeBranch
    <3> QED BY <2>1, <3>1 DEF Asked
  <2>3. Dead'
    <3>1. \A j \in Jobs : sawDead[j] \subseteq Branch
      BY DEF TypeOK
    <3> QED BY <2>1, <3>1 DEF Dead
  <2>4. Picked' /\ AllTried' /\ DeadNotPicked'
    BY <1>a, <2>1 DEF Picked, Own, AllTried, Tried, DeadNotPicked, Picking
  <2>5. BranchIsolation' /\ RowPrMatches' /\ CompletedLeavesNothing'
    BY <2>1 DEF BranchIsolation, RowPrMatches, CompletedLeavesNothing
  <2> QED BY <2>2, <2>3, <2>4, <2>5
<1>6. ASSUME Restart PROVE Work'
  <2>1. /\ \A k \in Jobs : pc'[k] = "idle" /\ sawDead'[k] = {}
        /\ UNCHANGED <<key, target, local, tree, prs>>
        /\ restarts' = restarts + 1 /\ restarts \in Nat
        /\ \A k \in Jobs : branch'[k] \in {branch[k], None} /\ prNo'[k] \in {prNo[k], None}
    BY <1>6, Restarted
  <2>2. Asked' /\ Dead' /\ AllTried' /\ DeadNotPicked'
    BY <2>1 DEF Asked, Dead, AllTried, Tried, DeadNotPicked, Picking
  <2>3. Picked'
    BY <2>1 DEF Picked, Own
  <2>4. BranchIsolation' /\ RowPrMatches'
    BY <2>1 DEF BranchIsolation, RowPrMatches
  <2>5. CompletedLeavesNothing'
    <3>1. restarts' > 0
      BY <2>1
    <3> QED BY <3>1 DEF CompletedLeavesNothing
  <2> QED BY <2>2, <2>3, <2>4, <2>5
<1> QED BY <1>2, <1>3, <1>4, <1>5, <1>6

(* A task's step is harmless if it is so to its own job, lets go of no      *)
(* branch, and finds nothing dead for the others.                           *)
Harmless(j) ==
  /\ \A k \in Jobs : k # j => pick'[k] = pick[k] /\ sawDead'[k] \subseteq sawDead[k]
  /\ \A b \in Branch : prs'[b] # prs[b] => prs'[b] = "open" /\ \A k \in Jobs : b \notin sawDead'[k]
  /\ branch[j] # None => branch'[j] # None
  /\ pc'[j] \in {"worktree", "save", "agent", "open", "ci"} =>
       /\ pick'[j].branch # None /\ Own(j, pick'[j].branch)
       /\ pick'[j].pr = None \/ pick'[j].pr = pick'[j].branch
       /\ pick'[j].blind => pick'[j].pr # None
  /\ pc'[j] \in {"agent", "open"} => branch'[j] = pick'[j].branch
  /\ branch'[j] # None => Own(j, branch'[j]) /\ (prNo'[j] # None => prNo'[j] = branch'[j])
  /\ tree'[j] # None => Own(j, tree'[j])
  /\ pc'[j] = "idle" => sawDead'[j] = {}
  /\ \A p \in sawDead'[j] : prs[p] = "dead"
  /\ target[j] = None /\ OnlyLocked(key[j]) => Tried(j)'
  /\ pc'[j] \in Picking => NotDead(j)'
  /\ status'[j] = "completed" /\ pc'[j] = "idle" /\ tree'[j] # None => restarts > 0
  /\ restarts' = restarts

LEMMA HarmlessWork ==
  ASSUME WorkInv, StoreInv', NEW j \in Jobs, Moves(j), Harmless(j)
  PROVE  Work'
<1> USE DEF WorkInv, StoreInv, Work
<1>1. /\ UNCHANGED <<key, mode, target>> /\ Rows' = Rows /\ j \in Rows /\ Rows \subseteq Jobs /\ pc[j] # "idle"
      /\ \A k \in Jobs : k # j =>
           /\ pc'[k] = pc[k] /\ status'[k] = status[k] /\ branch'[k] = branch[k]
           /\ prNo'[k] = prNo[k] /\ tree'[k] = tree[k] /\ pick'[k] = pick[k]
           /\ sawDead'[k] \subseteq sawDead[k]
  BY Constants DEF Moves, Rows, TypeOK, Jobs, Harmless
<1>2. \A i \in Jobs : Locked(i)' <=> Locked(i)
  BY <1>1 DEF Locked
<1>3. \A i \in Jobs : OnlyLocked(key[i])' => OnlyLocked(key[i])
  BY <1>1, <1>2 DEF OnlyLocked, Harmless
<1>4. Asked'
  BY <1>1 DEF Asked, TypeOK, MaybeBranch, Harmless
<1>6. Picked'
  <2>1. ASSUME NEW i \in Jobs, pc'[i] \in {"worktree", "save", "agent", "open", "ci"}
        PROVE  /\ pick'[i].branch # None /\ Own(i, pick'[i].branch)
               /\ pick'[i].pr = None \/ pick'[i].pr = pick'[i].branch
               /\ pick'[i].blind => pick'[i].pr # None
    BY <1>1, <2>1 DEF Picked, Harmless
  <2>2. ASSUME NEW i \in Jobs, branch'[i] # None PROVE Own(i, branch'[i])
    BY <1>1, <2>2 DEF Picked, Harmless
  <2>3. ASSUME NEW i \in Jobs, pc'[i] \in {"worktree", "save", "agent", "open", "ci"}
        PROVE  Own(i, pick[i].branch)'
    BY <1>1, <2>1, <2>3 DEF Own
  <2>4. ASSUME NEW i \in Jobs, branch'[i] # None PROVE Own(i, branch[i])'
    BY <1>1, <2>2, <2>4 DEF Own
  <2>5. \A i \in Jobs : pc'[i] \in {"agent", "open"} => branch'[i] = pick'[i].branch
    BY <1>1 DEF Picked, Harmless
  <2> QED BY <2>1, <2>3, <2>4, <2>5 DEF Picked
<1>7. Dead'
  <2>1. ASSUME NEW i \in Jobs, NEW p \in sawDead'[i] PROVE prs'[p] = "dead"
    <3>1. prs[p] = "dead" /\ p \in Branch
      BY <1>1, <2>1 DEF Dead, Harmless, TypeOK
    <3> QED BY <2>1, <3>1 DEF Harmless
  <2>2. \A i \in Jobs : pc'[i] = "idle" => sawDead'[i] = {}
    BY <1>1 DEF Dead, Harmless
  <2> QED BY <2>1, <2>2 DEF Dead
<1>8. AllTried'
  <2>1. ASSUME NEW i \in Jobs, i # j, pc[i] # "idle", target[i] = None, OnlyLocked(key[i])'
        PROVE  /\ branch[i] # None /\ prNo[i] = None => branch[i] \notin sawDead'[i] \ {i}
               /\ branch[i] = None /\ sawDead'[i] # {} =>
                    \A k \in Jobs : key[k] = key[i] /\ branch'[k] # None /\ Last(k)' => prNo'[k] # None
    <3>1. OnlyLocked(key[i]) /\ Tried(i) /\ i \in Rows
      BY <1>3, <2>1 DEF AllTried, Fresh, Turns
    <3>2. Locked(i)
      BY <2>1, <3>1, TakesLock
    (* No other job with a branch in this key is under way.                 *)
    <3>3. key[j] = key[i] => branch'[j] = None /\ branch[j] = None
      <4>1. ASSUME key[j] = key[i], branch'[j] # None PROVE FALSE
        <5>1. Locked(j)
          BY <1>1, <1>2, <2>1, <4>1 DEF OnlyLocked
        <5> QED BY <1>1, <2>1, <3>2, <5>1 DEF Turns
      <4> QED BY <4>1 DEF Harmless
    <3>4. ASSUME NEW k \in Jobs, key[k] = key[i], branch'[k] # None, Last(k)'
          PROVE  branch[k] # None /\ Last(k) /\ prNo'[k] = prNo[k]
      <4>1. k # j /\ branch[k] # None /\ prNo'[k] = prNo[k]
        BY <1>1, <3>3, <3>4
      <4>2. \A l \in Jobs : key[l] = key[k] /\ branch[l] # None => branch'[l] # None
        BY <1>1, <3>3, <3>4
      <4> QED BY <1>1, <3>4, <4>1, <4>2 DEF Last
    <3>5. sawDead'[i] \subseteq sawDead[i]
      BY <1>1, <2>1
    <3> QED BY <2>1, <3>1, <3>4, <3>5 DEF Tried
  <2>2. ASSUME NEW i \in Jobs PROVE Tried(i)'
    <3>1. CASE i = j
      <4>1. OnlyLocked(key[j])' => OnlyLocked(key[j])
        BY <1>3
      <4> QED BY <1>1, <1>3, <3>1, <4>1 DEF Harmless, Tried
    <3>2. CASE i # j
      BY <1>1, <2>1, <3>2 DEF Tried
    <3> QED BY <3>1, <3>2
  <2> QED BY <2>2 DEF AllTried
<1>9. DeadNotPicked'
  <2>1. ASSUME NEW i \in Jobs, pc'[i] \in Picking, ~pick'[i].blind, target[i] = None => OnlyLocked(key[i])'
        PROVE  pick'[i].branch \notin sawDead'[i] \ {i}
    <3>1. CASE i = j
      BY <1>1, <2>1, <3>1 DEF Harmless, NotDead
    <3>2. CASE i # j
      <4>1. target[i] = None => OnlyLocked(key[i])
        BY <1>1, <1>3, <2>1
      <4> QED BY <1>1, <2>1, <3>2, <4>1 DEF DeadNotPicked
    <3> QED BY <3>1, <3>2
  <2> QED BY <1>1, <2>1 DEF DeadNotPicked, Picking
<1>10. BranchIsolation'
  <2>1. ASSUME NEW i \in Jobs, tree'[i] # None PROVE Own(i, tree'[i])
    BY <1>1, <2>1 DEF BranchIsolation, Own, Harmless
  <2> QED BY <1>1, <2>1 DEF BranchIsolation, Own
<1>11. RowPrMatches' /\ CompletedLeavesNothing'
  BY <1>1 DEF RowPrMatches, CompletedLeavesNothing, Harmless
<1> QED BY <1>4, <1>6, <1>7, <1>8, <1>9, <1>10, <1>11

LEMMA RunsHarmless == ASSUME WorkInv, NEW j \in Jobs, Runs(j), Moves(j) PROVE Harmless(j)
<1> USE DEF WorkInv, StoreInv, Work, Goto, Picking
<1>0. /\ TypeOK /\ pick[j] \in [branch : MaybeBranch, pr : MaybeBranch, blind : BOOLEAN]
      /\ pc[j] # "idle" /\ UNCHANGED <<key, mode, target>> /\ j \in Rows
      /\ pc[j] \in {"worktree", "save", "agent", "open", "ci"} =>
           /\ pick[j].branch # None /\ Own(j, pick[j].branch)
           /\ pick[j].pr = None \/ pick[j].pr = pick[j].branch
           /\ pick[j].blind => pick[j].pr # None
      /\ pc[j] \in {"agent", "open"} => branch[j] = pick[j].branch
      /\ branch[j] # None => Own(j, branch[j]) /\ (prNo[j] # None => prNo[j] = branch[j])
      /\ tree[j] # None => Own(j, tree[j])
      /\ \A p \in sawDead[j] : prs[p] = "dead"
      /\ target[j] = None /\ OnlyLocked(key[j]) => Tried(j)
      /\ pc[j] \in Picking => NotDead(j)
      /\ pc[j] # "clean" => status[j] = "running"
  BY DEF Moves, TypeOK, Picked, RowPrMatches, BranchIsolation, Own, Dead, DeadNotPicked, NotDead, AllTried, Turns
<1>1. CASE Resolve(j)
  <2>1. /\ Fit(j)' /\ NotDead(j)' /\ Tried(j)'
        /\ \A k \in Jobs : k # j => pick'[k] = pick[k] /\ sawDead'[k] = sawDead[k]
    BY <1>0, <1>1, Chosen
  <2>2. pc[j] = "resolve" /\ pc'[j] = "worktree" /\ UNCHANGED <<status, branch, prNo, local, tree, prs, restarts>>
    BY <1>0, <1>1 DEF Resolve, rows, repo, TypeOK
  <2>3. /\ pick'[j].branch # None /\ Own(j, pick'[j].branch)
        /\ pick'[j].pr = None \/ pick'[j].pr = pick'[j].branch
        /\ pick'[j].blind => pick'[j].pr # None
        /\ \A p \in sawDead'[j] : prs[p] = "dead"
    BY <1>0, <2>1, <2>2 DEF Fit, Own
  <2> QED BY <1>0, <2>1, <2>2, <2>3 DEF Harmless
(* A step that keeps what the job picked and found, and its row.            *)
<1>a. ASSUME UNCHANGED <<branch, prNo, pick, sawDead>>
      PROVE  /\ target[j] = None /\ OnlyLocked(key[j]) => Tried(j)'
             /\ pc[j] \in Picking => NotDead(j)'
  BY <1>0, <1>a DEF Tried, NotDead, OnlyLocked, Locked, Last
<1>2. CASE MakeWorktree(j)
  <2>1. pc[j] = "worktree" /\ pc'[j] = "save" /\ UNCHANGED <<status, branch, prNo, pick, sawDead, prs, restarts>>
    BY <1>0, <1>2 DEF MakeWorktree, rows, TypeOK
  <2>2. tree'[j] = tree[j] \/ tree'[j] = pick[j].branch
    BY <1>0, <1>2 DEF MakeWorktree, TypeOK
  <2> QED BY <1>0, <1>a, <2>1, <2>2 DEF Harmless
<1>3. ASSUME Fail(j), UNCHANGED <<branch, prNo, repo, restarts>> PROVE Harmless(j)
  <2>1. /\ pc'[j] = "idle" /\ sawDead'[j] = {} /\ status'[j] = "failed"
        /\ \A k \in Jobs : k # j => pick'[k] = pick[k] /\ sawDead'[k] = sawDead[k]
        /\ UNCHANGED <<branch, prNo, local, tree, prs, restarts>>
    BY <1>0, <1>3 DEF Fail, End, SetStatus, repo, TypeOK
  <2> QED BY <1>0, <2>1 DEF Harmless, Tried
<1>4. CASE NoWorktree(j)
  BY <1>3, <1>4 DEF NoWorktree
<1>5. CASE Save(j)
  <2>1. /\ pc[j] = "save" /\ pc'[j] = "agent" /\ status'[j] = "running"
        /\ branch'[j] = pick[j].branch /\ prNo'[j] = pick[j].pr
        /\ UNCHANGED <<pick, sawDead, local, tree, prs, restarts>>
    BY <1>0, <1>5 DEF Save, SetStatus, repo, TypeOK
  <2>2. target[j] = None /\ OnlyLocked(key[j]) => Tried(j)'
    BY <1>0, <2>1 DEF Tried, NotDead
  <2>3. NotDead(j)'
    <3>1. OnlyLocked(key[j])' => OnlyLocked(key[j])
      <4>1. \A i \in Jobs : (branch[i] # None => branch'[i] # None) /\ (Locked(i)' <=> Locked(i))
        BY <1>0, <1>5, <2>1 DEF Save, Locked, TypeOK
      <4> QED BY <1>0, <4>1 DEF OnlyLocked
    <3> QED BY <1>0, <2>1, <3>1 DEF NotDead
  <2> QED BY <1>0, <2>1, <2>2, <2>3 DEF Harmless
<1>6. CASE AgentDone(j)
  <2>1. /\ pc[j] = "agent" /\ pc'[j] \in {"open", "ci"}
        /\ UNCHANGED <<status, branch, prNo, pick, sawDead, local, tree, prs, restarts>>
    BY <1>0, <1>6 DEF AgentDone, rows, repo, TypeOK
  <2> QED BY <1>0, <1>a, <2>1 DEF Harmless
<1>7. CASE OpenPr(j)
  <2>1. /\ pc[j] = "open" /\ pc'[j] = "ci" /\ UNCHANGED <<status, branch, local, tree, restarts>>
    BY <1>0, <1>7 DEF OpenPr, TypeOK
  <2>2. CASE UNCHANGED <<prs, pick, prNo, sawDead>>
    BY <1>0, <1>a, <2>1, <2>2 DEF Harmless
  <2>3. CASE /\ prs' = [prs EXCEPT ![pick[j].branch] = "open"]
             /\ pick' = [pick EXCEPT ![j].pr = pick[j].branch] /\ prNo' = [prNo EXCEPT ![j] = pick[j].branch]
             /\ sawDead' = [i \in Jobs |-> sawDead[i] \ {pick[j].branch}]
    <3>1. /\ pick'[j].branch = pick[j].branch /\ pick'[j].pr = pick[j].branch /\ prNo'[j] = pick[j].branch
          /\ \A k \in Jobs : k # j => pick'[k] = pick[k]
      BY <1>0, <2>3 DEF TypeOK
    <3>2. \A b \in Branch : prs'[b] # prs[b] => b = pick[j].branch /\ prs'[b] = "open"
      BY <1>0, <2>3 DEF TypeOK
    <3>3. \A k \in Jobs : sawDead'[k] = sawDead[k] \ {pick[j].branch}
      BY <2>3
    <3>4. pick[j].branch = branch[j]
      BY <1>0, <2>1
    <3>5. branch'[j] # None /\ prNo'[j] # None
      BY <1>0, <2>1, <3>1, <3>4
    <3>6. Tried(j)'
      BY <3>5 DEF Tried
    <3>7. NotDead(j)'
      BY <3>1, <3>3 DEF NotDead
    <3> QED BY <1>0, <2>1, <3>1, <3>2, <3>3, <3>4, <3>6, <3>7 DEF Harmless
  <2> QED BY <1>7, <2>2, <2>3 DEF OpenPr
<1>8. CASE Finish(j)
  <2>1. CASE Fail(j)
    BY <1>3, <1>8, <2>1 DEF Finish
  <2>2. CASE ~Fail(j)
    <3>1. /\ pc[j] = "ci" /\ pc'[j] = "clean" /\ status'[j] = "completed"
          /\ UNCHANGED <<branch, prNo, pick, sawDead, local, tree, prs, restarts>>
      BY <1>0, <1>8, <2>2 DEF Finish, SetStatus, repo, TypeOK
    <3> QED BY <1>0, <1>a, <3>1 DEF Harmless
  <2> QED BY <2>1, <2>2
<1>9. CASE Clean(j)
  <2>1. /\ pc[j] = "clean" /\ pc'[j] = "idle" /\ tree'[j] = None /\ sawDead'[j] = {}
        /\ \A k \in Jobs : k # j => pick'[k] = pick[k] /\ sawDead'[k] = sawDead[k]
        /\ UNCHANGED <<status, branch, prNo, local, prs, restarts>>
    BY <1>0, <1>9 DEF Clean, End, rows, TypeOK
  <2> QED BY <1>0, <2>1 DEF Harmless, Tried
<1>10. CASE Raise(j)
  <2>1. CASE Fail(j)
    BY <1>3, <1>10, <2>1 DEF Raise
  <2>2. CASE ~Fail(j)
    <3>1. /\ pc'[j] = "resolve" /\ status'[j] = "running"
          /\ UNCHANGED <<branch, prNo, pick, sawDead, local, tree, prs, restarts>>
      BY <1>0, <1>10, <2>2 DEF Raise, SetStatus, repo, TypeOK
    <3> QED BY <1>0, <1>a, <3>1 DEF Harmless
  <2> QED BY <2>1, <2>2
<1> QED BY <1>1, <1>2, <1>4, <1>5, <1>6, <1>7, <1>8, <1>9, <1>10 DEF Runs

LEMMA InitialWork == Init => WorkInv
<1> SUFFICES ASSUME Init PROVE WorkInv
  OBVIOUS
<1>1. Asked /\ Picked /\ Dead /\ AllTried
  BY DEF Init, Asked, Picked, Dead, AllTried, Tried
<1>2. BranchIsolation /\ RowPrMatches /\ DeadNotPicked /\ CompletedLeavesNothing
  BY DEF Init, BranchIsolation, RowPrMatches, DeadNotPicked, Picking, CompletedLeavesNothing
<1> QED BY <1>1, <1>2, InitialStore DEF WorkInv, Work

(* The inductive invariant of branches, directories and pull requests.      *)
THEOREM WorkInvariant == Spec => []WorkInv
<1>1. WorkInv /\ StoreInv' /\ [Next]_vars => WorkInv'
  <2> SUFFICES ASSUME WorkInv, StoreInv', [Next]_vars PROVE Work'
    BY DEF WorkInv
  <2>1. ASSUME NEW k \in Keys, NEW m \in Modes, NEW t \in Existing \cup {None}, Enqueue(k, m, t) PROVE Work'
    BY <2>1, NewRowWork DEF Enqueue
  <2>2. ASSUME NEW k \in Keys, NEW t \in Existing, Mention(k, t) PROVE Work'
    BY <2>2, NewRowWork DEF Mention, Modes
  <2>3. ASSUME NEW j \in Jobs, Runs(j), Moves(j) PROVE Work'
    BY <2>3, RunsHarmless, HarmlessWork
  <2>4. CASE UNCHANGED vars
    BY <2>4, OthersWork
  <2>5. CASE Next
    <3>1. TypeOK /\ Fresh /\ Turns
      BY DEF WorkInv, StoreInv
    <3> QED BY <2>1, <2>2, <2>3, <2>5, <3>1, NextKinds, OthersWork
  <2> QED BY <2>4, <2>5
<1> QED BY InitialWork, StoreInvariant, <1>1, PTL DEF Spec

(* pr_key keeps the work of two threads, or of two users, apart: whatever a *)
(* worktree holds was made for, or asked for, by a job of the same key.     *)
THEOREM BranchesApart == Spec => []BranchIsolation
<1>1. WorkInv => BranchIsolation
  BY DEF WorkInv, Work
<1> QED BY WorkInvariant, <1>1, PTL

(* The pull request a row names is the one of the branch it names.          *)
THEOREM RowsAgree == Spec => []RowPrMatches
<1>1. WorkInv => RowPrMatches
  BY DEF WorkInv, Work
<1> QED BY WorkInvariant, <1>1, PTL

(* A branch whose pull request the task found dead is not picked again, in  *)
(* the same pass or in one after an error, the CI loop's included; with the *)
(* exceptions that DeadNotPicked names: the job's own branch, a pass blind  *)
(* to the state of the pull request, jobs without the lock in the thread.   *)
THEOREM DeadStayDead == Spec => []DeadNotPicked
<1>1. WorkInv => DeadNotPicked
  BY DEF WorkInv, Work
<1> QED BY WorkInvariant, <1>1, PTL

(* A completed job leaves a worktree only where a restart cut its clean-up. *)
THEOREM NothingLeft == Spec => []CompletedLeavesNothing
<1>1. WorkInv => CompletedLeavesNothing
  BY DEF WorkInv, Work
<1> QED BY WorkInvariant, <1>1, PTL
=============================================================================

----------------------------- MODULE MeetJobsProofs -----------------------------
(***************************************************************************)
(* Proofs about MeetJobs, for any jobs, links, slots, requests, races and  *)
(* crashes: slots never leak, and as long as no write was lost no job runs *)
(* twice and the rows, the lines and the running tasks agree.              *)
(***************************************************************************)
EXTENDS MeetJobs, FiniteSetTheorems, TLAPS

(* A slot without a job is at nothing.                                      *)
Shaped(s) == /\ task[s].job = 0 <=> task[s] = NoTask
             /\ task[s].at = "none" <=> task[s] = NoTask

(* What is under way in the store was begun by one of the actions, and      *)
(* nobody but the job's own thread moves a task on.                         *)
UpdateShaped(p) ==
  LET o == op[p] IN
  o.do = "update" =>
    IF o.slot = NoSlot THEN o.to \in Settled
    ELSE p = "worker" /\ task[o.slot].job = o.job /\ o.to \in NextStatuses(task[o.slot].at)

RecoverShaped(p) ==
  LET o == op[p] IN
  o.do = "recover" => IF o.start THEN o.orphans = StartOrphans(o.rows) ELSE p = "worker"

ClaimShaped ==
  LET o == op["worker"] IN
  /\ o.do = "claim" => o.lines # <<>>
  /\ o.do = "claimed" => o.job \in o.dropped /\ \A k \in o.dropped : Link[k] = Link[o.job]

Shapes ==
  /\ \A s \in Slots : Shaped(s)
  /\ \A p \in Procs : UpdateShaped(p) /\ RecoverShaped(p)
  /\ ClaimShaped

(* Nothing is known of a job before it is enqueued.                         *)
RowsUpto(r)  == \A j \in Jobs : r[j] # "absent" => j <= joined
LinesUpto(q) == \A i \in DOMAIN q : q[i] <= joined

OpUpto(o) ==
  /\ o.do \in {"update", "enqueue", "claimed"} => o.job <= joined
  /\ o.do \in {"update", "enqueue", "recover", "claimed"} => RowsUpto(o.rows)
  /\ o.do \in {"recover", "claim"} => LinesUpto(o.lines)
  /\ o.do = "enqueue" => o.rows[o.job] = "absent"
  /\ o.do = "recover" => \A k \in o.orphans : k <= joined
  /\ o.do = "claimed" => \A k \in o.dropped : k <= joined

Upto ==
  /\ RowsUpto(rows) /\ LinesUpto(lines) /\ \A p \in Procs : OpUpto(op[p])
  /\ \A s \in Slots : task[s].job <= joined
  /\ \A p \in Procs : \A j \in todo[p] : j <= joined

(* A row a job may still be claimed with.                                   *)
Waiting(r, j) == r[j] \in {"queued", "absent"}

(* The poll loop knows the task of each running job, which has no line.     *)
Owned ==
  \A s \in Slots :
    LET j == task[s].job IN
    j # 0 => /\ inFlight[j] = s /\ j \notin Queued /\ ~ Waiting(rows, j)
             /\ task[s].at = "over" => rows[j] \in Settled

(* A line stands for a job that was not claimed, and what is up for         *)
(* finalization was.                                                        *)
Fresh ==
  /\ \A j \in Queued : Waiting(rows, j)
  /\ \A p \in Procs : \A j \in todo[p] : ~ Waiting(rows, j)
  /\ \A p \in Procs : op[p].do = "update" => ~ Waiting(op[p].rows, op[p].job)

(* A claim under way is of jobs that wait, whose lines are gone; a job that *)
(* joined since is none of them.                                            *)
Claiming ==
  LET o == op["worker"] IN
  o.do = "claimed" =>
    /\ ~ Live(o.job)
    /\ \A j \in o.dropped : Waiting(rows, j) /\ Waiting(o.rows, j) /\ j \notin Queued
    /\ \A k \in Queued : Link[k] = Link[o.job] => o.rows[k] = "absent" /\ k \notin o.dropped

(* Once the worker has recovered, a row that says so is of a job that runs: *)
(* the recovery of the poll loop finds nothing.                             *)
Alive ==
  /\ phase["worker"] \in {"list", "finalize", "ready"} =>
       \A j \in Jobs : rows[j] \in StartupStatuses => Live(j)
  /\ \A p \in Procs : op[p].do = "recover" => op[p].start

Unlost == ~ lost => Owned /\ Fresh /\ Claiming /\ Alive

(* Without a crash: the row of a waiting job is queued, but between the two *)
(* writes of its enqueuing or of its claim.                                 *)
Enqueuing(j) == op["daemon"].do = "enqueue" /\ op["daemon"].job = j
Dropped(j)   == op["worker"].do = "claimed" /\ j \in op["worker"].dropped

Linked(j) ==
  /\ Enqueuing(j) => rows[j] # "queued"
  /\ Enqueuing(j) /\ rows[j] = "absent" => j \in Queued \/ Dropped(j)
  /\ Enqueuing(j) \/ Dropped(j) \/ (rows[j] = "queued" <=> j \in Queued)

AllLinked == ~ lost /\ deaths = 0 => \A j \in Jobs : Linked(j)

IInv == MeetTypeOK /\ SlotsKept /\ Shapes /\ Upto /\ Unlost /\ LiveRows /\ AllLinked

-----------------------------------------------------------------------------
(* Sequences.                                                               *)

(* A set in any order: a sequence of its elements, of all of them.          *)
LEMMA Arranged ==
  ASSUME NEW S, IsFiniteSet(S), NEW q \in SetToSeqs(S)
  PROVE  /\ q \in Seq(S)
         /\ \A x \in S : \E i \in DOMAIN q : q[i] = x
<1> DEFINE n == Cardinality(S)
<1>1. n \in Nat
  BY FS_CardinalityType
<1>2. q \in [1 .. n -> S] /\ \A i, j \in 1 .. n : i # j => q[i] # q[j]
  BY DEF SetToSeqs
<1>3. IsFiniteSet(1 .. n) /\ Cardinality(1 .. n) = n
  <2>1. IsFiniteSet(1 .. n) /\ Cardinality(1 .. n) = IF 1 > n THEN 0 ELSE n - 1 + 1
    BY <1>1, FS_Interval
  <2> HIDE DEF n
  <2> QED BY <1>1, <2>1
<1> HIDE DEF n
<1>4. q \in Injection(1 .. n, S)
  BY <1>2 DEF Injection, IsInjective
<1>5. Cardinality(1 .. n) = Cardinality(S) <=> q \in Surjection(1 .. n, S)
  BY <1>4, FS_Injection
<1>6. q \in Surjection(1 .. n, S)
  BY <1>3, <1>5 DEF n
<1>7. \A x \in S : \E i \in 1 .. n : q[i] = x
  BY <1>6 DEF Surjection
<1> QED BY <1>1, <1>2, <1>7

LEMMA Joined ==
  ASSUME NEW S, NEW p \in Seq(S), NEW q \in Seq(S)
  PROVE  /\ p \o q \in Seq(S)
         /\ \A i \in DOMAIN p : i \in DOMAIN (p \o q) /\ (p \o q)[i] = p[i]
         /\ \A i \in DOMAIN q : Len(p) + i \in DOMAIN (p \o q) /\ (p \o q)[Len(p) + i] = q[i]
         /\ \A i \in DOMAIN (p \o q) : \/ i \in DOMAIN p /\ (p \o q)[i] = p[i]
                                       \/ i - Len(p) \in DOMAIN q /\ (p \o q)[i] = q[i - Len(p)]
OBVIOUS

(* What a claim leaves: the lines of other links, and all of them.          *)
LEMMA Left ==
  ASSUME NEW q \in Lines, NEW link, NEW kept \in SetToSeqs(Others(q, link)),
         NEW r, r = [n \in DOMAIN kept |-> q[kept[n]]]
  PROVE  /\ r \in Lines
         /\ \A i \in DOMAIN r : \E k \in DOMAIN q : r[i] = q[k] /\ Link[q[k]] # link
         /\ \A k \in DOMAIN q : Link[q[k]] # link => \E i \in DOMAIN r : r[i] = q[k]
<1>1. q \in Seq(Jobs) /\ DOMAIN q = 1 .. Len(q) /\ Len(q) \in Nat
  BY DEF Lines
<1>2. IsFiniteSet(DOMAIN q)
  BY <1>1, FS_Interval
<1>3. Others(q, link) \subseteq DOMAIN q
  BY DEF Others
<1>4. IsFiniteSet(Others(q, link))
  BY <1>2, <1>3, FS_Subset
<1>5. /\ kept \in Seq(Others(q, link))
      /\ \A x \in Others(q, link) : \E i \in DOMAIN kept : kept[i] = x
  BY <1>4, Arranged
<1>6. kept \in [1 .. Len(kept) -> Others(q, link)] /\ Len(kept) \in Nat
  BY <1>5
<1>7. \A i \in DOMAIN kept : kept[i] \in DOMAIN q /\ Link[q[kept[i]]] # link /\ q[kept[i]] \in Jobs
  BY <1>1, <1>6 DEF Others
<1>8. r \in [1 .. Len(kept) -> Jobs]
  BY <1>6, <1>7
<1>9. r \in Lines
  BY <1>6, <1>8 DEF Lines
<1> QED BY <1>5, <1>6, <1>7, <1>9 DEF Others

-----------------------------------------------------------------------------
(* What is under way has the fields of its kind.                            *)
LEMMA OpFields ==
  ASSUME MeetTypeOK, NEW p \in Procs
  PROVE  /\ op[p].do = "update" => op[p] \in Updates
         /\ op[p].do = "enqueue" => op[p] \in Enqueues
         /\ op[p].do = "recover" => op[p] \in Recovers
         /\ op[p].do = "claim" => op[p] \in Claims
         /\ op[p].do = "claimed" => op[p] \in Claimed
         /\ op[p].do \in {"nothing", "update", "enqueue", "recover", "claim", "claimed"}
         /\ op[p].do = "nothing" => op[p] = Free
<1>1. op[p] \in Operations
  BY DEF MeetTypeOK
<1> QED BY <1>1 DEF Operations, Free, Updates, Enqueues, Recovers, Claims, Claimed

LEMMA JobNumbers == MaxJobs \in Nat /\ Jobs \subseteq Nat /\ 0 \notin Jobs /\ NoSlot \notin Slots
BY MeetConstants DEF Jobs

OpTypeOK ==
  /\ op \in [Procs -> Operations]
  /\ op["daemon"].do \notin {"claim", "claimed"} /\ op["worker"].do # "enqueue"
  /\ races \in 0 .. MaxRaces

LEMMA Begun ==
  ASSUME MeetTypeOK, NEW p \in Procs, NEW o \in Operations, Begin(p, o),
         p = "daemon" => o.do \notin {"claim", "claimed"}, p = "worker" => o.do # "enqueue"
  PROVE  /\ OpTypeOK' /\ op[p] = Free /\ op'[p] = o
         /\ \A q \in Procs : q # p => op'[q] = op[q]
<1>1. /\ op \in [Procs -> Operations] /\ op[p] = Free /\ op' = [op EXCEPT ![p] = o]
      /\ op["daemon"].do \notin {"claim", "claimed"} /\ op["worker"].do # "enqueue"
  BY DEF MeetTypeOK, Begin
<1>2. /\ op' \in [Procs -> Operations] /\ op'[p] = o
      /\ \A q \in Procs : q # p => op'[q] = op[q]
  BY <1>1
<1>3. op'["daemon"].do \notin {"claim", "claimed"} /\ op'["worker"].do # "enqueue"
  BY <1>1, <1>2 DEF Procs
<1>4. races' \in 0 .. MaxRaces
  BY MeetConstants DEF Begin, MeetTypeOK
<1> QED BY <1>1, <1>2, <1>3, <1>4 DEF OpTypeOK

LEMMA Finished ==
  ASSUME MeetTypeOK, NEW p \in Procs, End(p)
  PROVE  /\ OpTypeOK' /\ op'[p] = Free
         /\ \A q \in Procs : q # p => op'[q] = op[q]
<1>1. /\ op \in [Procs -> Operations] /\ op' = [op EXCEPT ![p] = Free] /\ Free \in Operations
      /\ op["daemon"].do \notin {"claim", "claimed"} /\ op["worker"].do # "enqueue"
      /\ races \in 0 .. MaxRaces /\ races' = races
  BY DEF MeetTypeOK, End, Operations
<1>2. /\ op' \in [Procs -> Operations] /\ op'[p] = Free
      /\ \A q \in Procs : q # p => op'[q] = op[q]
  BY <1>1
<1>3. Free.do = "nothing"
  BY DEF Free
<1>4. op'["daemon"].do \notin {"claim", "claimed"} /\ op'["worker"].do # "enqueue"
  BY <1>1, <1>2, <1>3 DEF Procs
<1> QED BY <1>1, <1>2, <1>4 DEF OpTypeOK

LEMMA SameOps ==
  ASSUME MeetTypeOK, UNCHANGED ops
  PROVE  OpTypeOK'
BY DEF ops, MeetTypeOK, OpTypeOK

(* Both kinds of recovery: nothing, or an operation begun.                  *)
LEMMA RecoveryBegun ==
  ASSUME MeetTypeOK, NEW p \in Procs, NEW start \in BOOLEAN, NEW orphans \in SUBSET Jobs,
         Recovery(p, start, orphans)
  PROVE  /\ OpTypeOK'
         /\ \/ orphans = {} /\ UNCHANGED ops /\ AfterRecovery(p, start)
            \/ /\ op[p] = Free
               /\ op'[p] = [do |-> "recover", start |-> start, orphans |-> orphans,
                            queued |-> Queued, rows |-> rows, lines |-> lines]
               /\ \A q \in Procs : q # p => op'[q] = op[q]
               /\ UNCHANGED <<phase, loop>>
<1> DEFINE o == [do |-> "recover", start |-> start, orphans |-> orphans,
                 queued |-> Queued, rows |-> rows, lines |-> lines]
<1>1. CASE orphans = {}
  BY <1>1, SameOps DEF Recovery
<1>2. CASE orphans # {}
  <2>1. Begin(p, o) /\ UNCHANGED <<phase, loop>>
    BY <1>2 DEF Recovery
  <2>2. lines \in Seq(Jobs) /\ rows \in Rows
    BY DEF MeetTypeOK, Lines
  <2>3. Queued \in SUBSET Jobs
    BY <2>2 DEF Queued
  <2>4. o \in Recovers
    BY <2>2, <2>3 DEF Recovers, Lines
  <2>5. o \in Operations /\ o.do = "recover"
    BY <2>4 DEF Operations
  <2> HIDE DEF o
  <2>6. OpTypeOK' /\ op[p] = Free /\ op'[p] = o /\ \A q \in Procs : q # p => op'[q] = op[q]
    BY <2>1, <2>5, Begun
  <2> QED BY <2>1, <2>6 DEF o
<1> QED BY <1>1, <1>2

LEMMA UpdateBegun ==
  ASSUME MeetTypeOK, NEW p \in Procs, NEW j \in Jobs, NEW st \in JobStatuses,
         NEW s \in Slots \cup {NoSlot}, Update(p, j, st, s)
  PROVE  /\ OpTypeOK' /\ op[p] = Free
         /\ op'[p] = [do |-> "update", job |-> j, to |-> st, slot |-> s, rows |-> rows]
         /\ \A q \in Procs : q # p => op'[q] = op[q]
<1> DEFINE o == [do |-> "update", job |-> j, to |-> st, slot |-> s, rows |-> rows]
<1>1. o \in Updates
  BY DEF Updates, MeetTypeOK
<1>2. o \in Operations /\ o.do = "update" /\ Begin(p, o)
  BY <1>1 DEF Operations, Update
<1> HIDE DEF o
<1>3. OpTypeOK' /\ op[p] = Free /\ op'[p] = o /\ \A q \in Procs : q # p => op'[q] = op[q]
  BY <1>2, Begun
<1> QED BY <1>3 DEF o

LEMMA JoinBegun ==
  ASSUME MeetTypeOK, Join
  PROVE  /\ OpTypeOK' /\ op["daemon"] = Free /\ joined + 1 \in Jobs
         /\ op'["daemon"] = [do |-> "enqueue", job |-> joined + 1, rows |-> rows]
         /\ op'["worker"] = op["worker"]
<1> DEFINE o == [do |-> "enqueue", job |-> joined + 1, rows |-> rows]
<1>1. Begin("daemon", o) /\ joined + 1 \in Jobs
  BY DEF Join
<1>2. o \in Enqueues
  BY <1>1 DEF Enqueues, MeetTypeOK
<1>3. o \in Operations /\ o.do = "enqueue"
  BY <1>2 DEF Operations
<1> HIDE DEF o
<1>4. OpTypeOK' /\ op["daemon"] = Free /\ op'["daemon"] = o /\ op'["worker"] = op["worker"]
  BY <1>1, <1>3, Begun DEF Procs
<1> QED BY <1>1, <1>4 DEF o

LEMMA ClaimBegun ==
  ASSUME MeetTypeOK, NEW s \in Slots, Claim(s)
  PROVE  /\ OpTypeOK' /\ op["worker"] = Free
         /\ op'["worker"] = [do |-> "claim", slot |-> s, lines |-> lines]
         /\ op'["daemon"] = op["daemon"]
<1> DEFINE o == [do |-> "claim", slot |-> s, lines |-> lines]
<1>1. Begin("worker", o)
  BY DEF Claim
<1>2. o \in Claims
  BY DEF Claims, MeetTypeOK
<1>3. o \in Operations /\ o.do = "claim"
  BY <1>2 DEF Operations
<1> HIDE DEF o
<1>4. OpTypeOK' /\ op["worker"] = Free /\ op'["worker"] = o /\ op'["daemon"] = op["daemon"]
  BY <1>1, <1>3, Begun DEF Procs
<1> QED BY <1>4 DEF o

(* The lines of a claim: what was claimed, and what is left.                *)
LEMMA ClaimWritten ==
  ASSUME MeetTypeOK, ClaimShaped, ClaimWrite
  PROVE  LET o == op["worker"]
             c == op'["worker"]
         IN /\ OpTypeOK' /\ o \in Claims /\ o.do = "claim"
            /\ c \in Claimed /\ c.do = "claimed" /\ c.slot = o.slot /\ c.rows = rows
            /\ c.job \in c.dropped
            /\ \A k \in c.dropped : Link[k] = Link[c.job] /\ \E i \in DOMAIN o.lines : o.lines[i] = k
            /\ \A i \in DOMAIN o.lines : Link[o.lines[i]] = Link[c.job] => o.lines[i] \in c.dropped
            /\ lines' \in Lines
            /\ \A i \in DOMAIN lines' : \E k \in DOMAIN o.lines :
                 lines'[i] = o.lines[k] /\ Link[o.lines[k]] # Link[c.job]
            /\ \A k \in DOMAIN o.lines :
                 Link[o.lines[k]] # Link[c.job] => \E i \in DOMAIN lines' : lines'[i] = o.lines[k]
            /\ op'["daemon"] = op["daemon"]
<1> DEFINE o == op["worker"]
           j == o.lines[Len(o.lines)]
           dropped == {o.lines[i] : i \in {i \in DOMAIN o.lines : Link[o.lines[i]] = Link[j]}}
           c == [do |-> "claimed", job |-> j, slot |-> o.slot, dropped |-> dropped, rows |-> rows]
<1>1. /\ o.do = "claim" /\ op' = [op EXCEPT !["worker"] = c] /\ races' = races
      /\ \E kept \in SetToSeqs(Others(o.lines, Link[j])) :
           lines' = [n \in DOMAIN kept |-> o.lines[kept[n]]]
  BY DEF ClaimWrite
<1>2. o \in Claims /\ o.lines # <<>>
  BY <1>1, OpFields DEF ClaimShaped, Procs
<1>3. o.lines \in Seq(Jobs) /\ o.slot \in Slots /\ rows \in Rows
  BY <1>2 DEF Claims, Lines, MeetTypeOK
<1>4. Len(o.lines) \in DOMAIN o.lines /\ j \in Jobs
  BY <1>2, <1>3
<1>5. \A i \in DOMAIN o.lines : o.lines[i] \in Jobs
  BY <1>3
<1> HIDE DEF o, j
<1>6. dropped \in SUBSET Jobs /\ j \in dropped
  BY <1>4, <1>5 DEF j
<1>7. /\ \A k \in dropped : Link[k] = Link[j] /\ \E i \in DOMAIN o.lines : o.lines[i] = k
      /\ \A i \in DOMAIN o.lines : Link[o.lines[i]] = Link[j] => o.lines[i] \in dropped
  OBVIOUS
<1> HIDE DEF dropped
<1>8. c \in Claimed /\ c.do = "claimed"
  BY <1>3, <1>4, <1>6 DEF Claimed
<1>9. c.job = j /\ c.dropped = dropped /\ c.slot = o.slot /\ c.rows = rows
  OBVIOUS
<1> HIDE DEF c
<1>10. op \in [Procs -> Operations] /\ op["daemon"].do \notin {"claim", "claimed"}
         /\ races \in 0 .. MaxRaces
  BY DEF MeetTypeOK
<1>11. op'["worker"] = c /\ op'["daemon"] = op["daemon"] /\ op' \in [Procs -> Operations]
  BY <1>1, <1>8, <1>10 DEF Operations, Procs
<1>12. OpTypeOK'
  BY <1>1, <1>8, <1>10, <1>11 DEF OpTypeOK
<1>13. PICK kept \in SetToSeqs(Others(o.lines, Link[j])) :
         lines' = [n \in DOMAIN kept |-> o.lines[kept[n]]]
  BY <1>1
<1>14. o.lines \in Lines
  BY <1>3 DEF Lines
<1>15. /\ lines' \in Lines
       /\ \A i \in DOMAIN lines' : \E k \in DOMAIN o.lines : lines'[i] = o.lines[k] /\ Link[o.lines[k]] # Link[j]
       /\ \A k \in DOMAIN o.lines : Link[o.lines[k]] # Link[j] => \E i \in DOMAIN lines' : lines'[i] = o.lines[k]
  BY <1>13, <1>14, Left
<1> QED BY <1>1, <1>2, <1>6, <1>7, <1>8, <1>9, <1>11, <1>12, <1>15 DEF o

-----------------------------------------------------------------------------
(* Types.                                                                   *)

TaskTypeOK ==
  /\ phase \in [Procs -> {"down", "recover", "list", "finalize", "ready"}]
  /\ loop \in {"sleep", "recover", "claim"}
  /\ task \in [Slots -> [job : Jobs \cup {0}, at : Stages \cup {"none"}]]
  /\ free \subseteq Slots
  /\ inFlight \in [Jobs -> Slots \cup {NoSlot}]

FileTypeOK ==
  /\ rows \in Rows /\ lines \in Lines
  /\ joined \in 0 .. MaxJobs /\ asked \in 0 .. MaxRequests
  /\ todo \in [Procs -> SUBSET Jobs]
  /\ lost \in BOOLEAN /\ meddled \subseteq Jobs
  /\ deaths \in 0 .. MaxDeaths

LEMMA TypeParts == MeetTypeOK' <=> OpTypeOK' /\ TaskTypeOK' /\ FileTypeOK'
BY DEF MeetTypeOK, OpTypeOK, TaskTypeOK, FileTypeOK

LEMMA StageStatuses ==
  ASSUME NEW at, NEW st \in NextStatuses(at)
  PROVE  /\ st \in JobStatuses /\ at \in Stages /\ at # "over"
         /\ st \notin {"queued", "absent"}
         /\ (IF st \in Settled THEN "over" ELSE st) \in Stages
         /\ st \in RowOf(IF st \in Settled THEN "over" ELSE st)
         /\ st \in Settled \/ st \in Stages \ {"claimed", "over"}
BY DEF NextStatuses, JobStatuses, Stages, Settled, TerminalCovered, RowOf

(* The rows after a recovery.                                               *)
LEMMA RowsRecovered ==
  ASSUME NEW o \in Recovers
  PROVE  /\ Recovered(o) \in Rows
         /\ \A j \in Jobs : j \notin o.orphans => Recovered(o)[j] = o.rows[j]
         /\ \A j \in Jobs : j \in o.orphans /\ o.start => Recovered(o)[j] \in {"failed", "interrupted"}
         /\ \A j \in Jobs : j \in o.orphans => Recovered(o)[j] \in {"failed", "interrupted", "queued"}
<1>1. o.rows \in [Jobs -> JobStatuses] /\ o.start \in BOOLEAN
  BY DEF Recovers, Rows
<1>2. {"failed", "interrupted", "queued"} \subseteq JobStatuses
  BY DEF JobStatuses, Settled
<1> QED BY <1>1, <1>2 DEF Recovered, Rows

LEMMA RecoveryType ==
  ASSUME MeetTypeOK, NEW p \in Procs, RecoveryWrite(p)
  PROVE  MeetTypeOK'
<1> DEFINE o == op[p]
           again == {j \in o.orphans : Recovered(o)[j] = "queued"}
<1>1. o.do = "recover" /\ End(p) /\ AfterRecovery(p, o.start)
  BY DEF RecoveryWrite
<1>2. o \in Recovers
  BY <1>1, OpFields
<1>3. OpTypeOK'
  BY <1>1, Finished
<1>4. rows' \in Rows
  BY <1>2, RowsRecovered DEF RecoveryWrite
<1>5. lines' \in Lines
  <2>1. PICK q \in SetToSeqs(again) : lines' = o.lines \o q
    BY DEF RecoveryWrite
  <2>2. o.lines \in Seq(Jobs) /\ again \subseteq Jobs
    BY <1>2 DEF Recovers, Lines
  <2>3. IsFiniteSet(Jobs)
    BY JobNumbers, FS_Interval DEF Jobs
  <2>4. IsFiniteSet(again)
    BY <2>2, <2>3, FS_Subset
  <2> HIDE DEF again, o
  <2>5. q \in Seq(again)
    BY <2>4, Arranged
  <2>6. q \in Seq(Jobs)
    BY <2>2, <2>5
  <2> QED BY <2>1, <2>2, <2>6 DEF Lines
<1>6. TaskTypeOK'
  BY <1>1, <1>2 DEF RecoveryWrite, AfterRecovery, MeetTypeOK, TaskTypeOK, Recovers
<1>7. lost' \in BOOLEAN
  <2>1. lost \in BOOLEAN /\ lost' = (lost \/ rows # o.rows \/ lines # o.lines)
    BY DEF RecoveryWrite, MeetTypeOK
  <2> QED BY <2>1
<1>8. meddled' \subseteq Jobs
  BY <1>2 DEF RecoveryWrite, MeetTypeOK, Recovers
<1>9. FileTypeOK'
  BY <1>4, <1>5, <1>7, <1>8 DEF RecoveryWrite, MeetTypeOK, FileTypeOK, daemon
<1> QED BY <1>3, <1>6, <1>9, TypeParts

LEMMA UpdateType ==
  ASSUME MeetTypeOK, NEW p \in Procs, UpdateShaped(p), UpdateWrite(p)
  PROVE  MeetTypeOK'
<1> DEFINE o == op[p]
<1>1. o.do = "update" /\ End(p)
  BY DEF UpdateWrite
<1>2. o \in Updates
  BY <1>1, OpFields
<1>3. OpTypeOK'
  BY <1>1, Finished
<1>4. rows' \in Rows
  BY <1>2 DEF UpdateWrite, WriteRows, Updates, Rows
<1>5. TaskTypeOK'
  <2>1. CASE o.slot = NoSlot
    BY <2>1 DEF UpdateWrite, MeetTypeOK, TaskTypeOK
  <2>2. CASE o.slot # NoSlot
    <3>1. o.slot \in Slots /\ o.to \in NextStatuses(task[o.slot].at)
      BY <1>1, <1>2, <2>2 DEF UpdateShaped, Updates
    <3>2. (IF o.to \in Settled THEN "over" ELSE o.to) \in Stages
      BY <3>1, StageStatuses
    <3>3. task' = [task EXCEPT ![o.slot].at = IF o.to \in Settled THEN "over" ELSE o.to]
      BY <2>2 DEF UpdateWrite
    <3>4. task' \in [Slots -> [job : Jobs \cup {0}, at : Stages \cup {"none"}]]
      BY <3>1, <3>2, <3>3 DEF MeetTypeOK
    <3> QED BY <3>4 DEF UpdateWrite, MeetTypeOK, TaskTypeOK
  <2> QED BY <2>1, <2>2
<1>6. lost' \in BOOLEAN
  <2>1. lost \in BOOLEAN /\ lost' = (lost \/ rows # o.rows)
    BY DEF UpdateWrite, WriteRows, MeetTypeOK
  <2> QED BY <2>1
<1>7. meddled' \subseteq Jobs
  BY <1>2 DEF UpdateWrite, MeetTypeOK, Updates
<1>8. FileTypeOK'
  BY <1>4, <1>6, <1>7 DEF UpdateWrite, MeetTypeOK, FileTypeOK, daemon
<1> QED BY <1>3, <1>5, <1>8, TypeParts

LEMMA ClaimedType ==
  ASSUME MeetTypeOK, ClaimedWrite
  PROVE  MeetTypeOK'
<1> DEFINE o == op["worker"]
<1>1. o.do = "claimed" /\ End("worker") /\ "worker" \in Procs
  BY DEF ClaimedWrite, Procs
<1>2. o \in Claimed
  BY <1>1, OpFields
<1>3. OpTypeOK'
  BY <1>1, Finished
<1>4. rows' \in Rows
  <2>1. o.rows \in [Jobs -> JobStatuses] /\ {"running", "skipped"} \subseteq JobStatuses
    BY <1>2 DEF Claimed, Rows, JobStatuses, Settled
  <2> QED BY <2>1 DEF ClaimedWrite, WriteRows, Rows
<1>5. TaskTypeOK'
  <2>1. [job |-> o.job, at |-> "claimed"] \in [job : Jobs \cup {0}, at : Stages \cup {"none"}]
    BY <1>2 DEF Claimed, Stages
  <2>2. o.slot \in Slots /\ o.job \in Jobs
    BY <1>2 DEF Claimed
  <2>3. task' = [task EXCEPT ![o.slot] = [job |-> o.job, at |-> "claimed"]]
          /\ inFlight' = [inFlight EXCEPT ![o.job] = o.slot]
    BY DEF ClaimedWrite
  <2> QED BY <2>1, <2>2, <2>3 DEF ClaimedWrite, MeetTypeOK, TaskTypeOK
<1>6. lost' \in BOOLEAN
  <2>1. lost \in BOOLEAN /\ lost' = (lost \/ rows # o.rows)
    BY DEF ClaimedWrite, WriteRows, MeetTypeOK
  <2> QED BY <2>1
<1>7. FileTypeOK'
  BY <1>4, <1>6 DEF ClaimedWrite, MeetTypeOK, FileTypeOK, daemon
<1> QED BY <1>3, <1>5, <1>7, TypeParts

LEMMA CrashType ==
  ASSUME MeetTypeOK, NEW p \in Procs, MeetCrash(p)
  PROVE  MeetTypeOK'
<1>1. OpTypeOK'
  BY Finished DEF MeetCrash
<1>2. TaskTypeOK'
  <2>1. NoTask \in [job : Jobs \cup {0}, at : Stages \cup {"none"}]
    BY DEF NoTask
  <2> QED BY <2>1 DEF MeetCrash, MeetTypeOK, TaskTypeOK, worker
<1>3. deaths' \in 0 .. MaxDeaths
  BY MeetConstants DEF MeetCrash, MeetTypeOK
<1>4. FileTypeOK'
  BY <1>3 DEF MeetCrash, MeetTypeOK, FileTypeOK, files, daemon
<1> QED BY <1>1, <1>2, <1>4, TypeParts

LEMMA TypeStep ==
  ASSUME MeetTypeOK, Shapes, [MeetNext]_meet
  PROVE  MeetTypeOK'
<1>1. CASE Join
  <2>1. OpTypeOK' /\ joined + 1 \in Jobs
    BY <1>1, JoinBegun
  <2>2. lines' \in Lines
    BY <1>1, <2>1 DEF Join, MeetTypeOK, Lines
  <2>3. joined' \in 0 .. MaxJobs
    BY <1>1, <2>1, JobNumbers DEF Join, Jobs
  <2> QED BY <1>1, <2>1, <2>2, <2>3, TypeParts DEF Join, TaskTypeOK, FileTypeOK, worker, MeetTypeOK
<1>2. CASE JoinWrite
  <2> DEFINE o == op["daemon"]
  <2>1. o \in Enqueues /\ OpTypeOK'
    BY <1>2, OpFields, Finished DEF JoinWrite, Procs
  <2>2. rows' \in Rows
    BY <1>2, <2>1 DEF JoinWrite, WriteRows, Enqueues, Rows, JobStatuses
  <2>3. lost' \in BOOLEAN
    <3>1. lost \in BOOLEAN /\ lost' = (lost \/ rows # o.rows)
      BY <1>2 DEF JoinWrite, WriteRows, MeetTypeOK
    <3> QED BY <3>1
  <2> QED BY <1>2, <2>1, <2>2, <2>3, TypeParts DEF JoinWrite, MeetTypeOK, TaskTypeOK, FileTypeOK, daemon, worker
<1>3. CASE PollRecovery
  <2>1. PICK aged \in SUBSET Jobs : Recovery("worker", FALSE, PollOrphans(rows, aged))
    BY <1>3 DEF PollRecovery
  <2>2. PollOrphans(rows, aged) \subseteq Jobs
    BY DEF PollOrphans
  <2>3. OpTypeOK'
    BY <2>1, <2>2, RecoveryBegun DEF Procs
  <2>4. TaskTypeOK' /\ FileTypeOK'
    BY <2>1 DEF Recovery, AfterRecovery, MeetTypeOK, TaskTypeOK, FileTypeOK, files, daemon
  <2> QED BY <2>3, <2>4, TypeParts
<1>4. ASSUME NEW p \in Procs, StartRecovery(p) PROVE MeetTypeOK'
  <2>1. Recovery(p, TRUE, StartOrphans(rows)) /\ StartOrphans(rows) \subseteq Jobs
    BY <1>4 DEF StartRecovery, StartOrphans
  <2>2. OpTypeOK'
    BY <2>1, RecoveryBegun
  <2>3. TaskTypeOK' /\ FileTypeOK'
    BY <2>1 DEF Recovery, AfterRecovery, MeetTypeOK, TaskTypeOK, FileTypeOK, files, daemon
  <2> QED BY <2>2, <2>3, TypeParts
<1>5. ASSUME NEW p \in Procs, NEW j \in Jobs, Finalize(p, j) PROVE MeetTypeOK'
  <2>1. PICK st \in TerminalCovered \cup {"failed"} : Update(p, j, st, NoSlot)
    BY <1>5 DEF Finalize
  <2>2. st \in JobStatuses
    BY DEF TerminalCovered, JobStatuses, Settled
  <2>3. OpTypeOK'
    BY <2>1, <2>2, UpdateBegun
  <2>4. todo' \in [Procs -> SUBSET Jobs]
    BY <1>5 DEF Finalize, MeetTypeOK
  <2> QED BY <1>5, <2>3, <2>4, TypeParts DEF Finalize, MeetTypeOK, TaskTypeOK, FileTypeOK, files, daemon, worker
<1>6. ASSUME NEW j \in Jobs, Resummarize(j) PROVE MeetTypeOK'
  <2>1. PICK st \in TerminalCovered : Update("daemon", j, st, NoSlot)
    BY <1>6 DEF Resummarize
  <2>2. st \in JobStatuses /\ "daemon" \in Procs
    BY DEF TerminalCovered, JobStatuses, Settled, Procs
  <2>3. OpTypeOK'
    BY <2>1, <2>2, UpdateBegun
  <2>4. asked' \in 0 .. MaxRequests
    BY <1>6, MeetConstants DEF Resummarize, MeetTypeOK
  <2> QED BY <1>6, <2>3, <2>4, TypeParts DEF Resummarize, MeetTypeOK, TaskTypeOK, FileTypeOK, files, worker
<1>7. ASSUME NEW s \in Slots, Work(s) PROVE MeetTypeOK'
  <2>1. PICK st \in NextStatuses(task[s].at) : Update("worker", task[s].job, st, s)
    BY <1>7 DEF Work
  <2>2. st \in JobStatuses /\ "worker" \in Procs /\ task[s].at \in Stages
    BY StageStatuses DEF Procs
  <2>3. task[s].job \in Jobs
    <3>1. task[s] # NoTask /\ task[s].job \in Jobs \cup {0}
      BY <2>2 DEF NoTask, Stages, MeetTypeOK
    <3> QED BY <3>1 DEF Shapes, Shaped
  <2>4. OpTypeOK'
    BY <2>1, <2>2, <2>3, UpdateBegun
  <2> QED BY <1>7, <2>4, TypeParts DEF Work, MeetTypeOK, TaskTypeOK, FileTypeOK, files, worker, daemon
<1>8. ASSUME NEW s \in Slots, Claim(s) PROVE MeetTypeOK'
  <2>1. OpTypeOK'
    BY <1>8, ClaimBegun
  <2> QED BY <1>8, <2>1, TypeParts DEF Claim, MeetTypeOK, TaskTypeOK, FileTypeOK, files, daemon
<1>9. CASE ClaimWrite
  <2>1. OpTypeOK' /\ lines' \in Lines
    BY <1>9, ClaimWritten DEF Shapes
  <2>2. lost' \in BOOLEAN
    <3>1. lost \in BOOLEAN /\ lost' = (lost \/ lines # op["worker"].lines)
      BY <1>9 DEF ClaimWrite, MeetTypeOK
    <3> QED BY <3>1
  <2> QED BY <1>9, <2>1, <2>2, TypeParts DEF ClaimWrite, MeetTypeOK, TaskTypeOK, FileTypeOK, worker, daemon
<1>10. CASE ClaimedWrite \/ \E p \in Procs : RecoveryWrite(p) \/ UpdateWrite(p) \/ MeetCrash(p)
  BY <1>10, ClaimedType, RecoveryType, UpdateType, CrashType DEF Shapes
<1>11. ASSUME NEW p \in Procs, List(p) \/ Finalized(p) \/ Start(p) PROVE MeetTypeOK'
  <2>1. OpTypeOK'
    BY <1>11, SameOps DEF List, Finalized, Start
  <2>2. TaskTypeOK'
    BY <1>11 DEF List, Finalized, Start, MeetTypeOK, TaskTypeOK, worker
  <2>3. todo' \in [Procs -> SUBSET Jobs]
    BY <1>11 DEF List, Finalized, Start, MeetTypeOK
  <2> QED BY <1>11, <2>1, <2>2, <2>3, TypeParts
          DEF List, Finalized, Start, MeetTypeOK, FileTypeOK, files, daemon
<1>12. CASE Tick
  <2>1. OpTypeOK'
    BY <1>12, SameOps DEF Tick
  <2> QED BY <1>12, <2>1, TypeParts DEF Tick, MeetTypeOK, TaskTypeOK, FileTypeOK, files, daemon
<1>13. CASE Sleep
  <2>1. OpTypeOK'
    BY <1>13, SameOps DEF Sleep
  <2> QED BY <1>13, <2>1, TypeParts DEF Sleep, MeetTypeOK, TaskTypeOK, FileTypeOK, files, daemon
<1>14. ASSUME NEW s \in Slots, EndTask(s) PROVE MeetTypeOK'
  <2>1. OpTypeOK'
    BY <1>14, SameOps DEF EndTask
  <2>2. NoTask \in [job : Jobs \cup {0}, at : Stages \cup {"none"}]
    BY DEF NoTask
  <2> QED BY <1>14, <2>1, <2>2, TypeParts
          DEF EndTask, Release, MeetTypeOK, TaskTypeOK, FileTypeOK, files, daemon
<1>15. CASE UNCHANGED meet
  BY <1>15 DEF meet, files, daemon, ops, worker, MeetTypeOK
<1> QED
  BY <1>1, <1>2, <1>3, <1>4, <1>5, <1>6, <1>7, <1>8, <1>9, <1>10, <1>11, <1>12, <1>13, <1>14, <1>15
  DEF MeetNext, MeetSystem, MeetEnvironment

-----------------------------------------------------------------------------
(* What a step is: nothing the store or a slot would notice, an operation   *)
(* begun, or one of the steps named below.                                  *)

Ready == phase["worker"] \in {"list", "finalize", "ready"}

Quiet ==
  /\ UNCHANGED <<rows, lines, joined, op, task, free, lost, meddled, deaths>>
  /\ \A s \in Slots : task[s].job # 0 /\ inFlight[task[s].job] = s => inFlight'[task[s].job] = s
  /\ \A p \in Procs : todo'[p] \subseteq todo[p] \cup {j \in Jobs : rows[j] = "interrupted"}
  /\ Ready' => Ready \/ StartOrphans(rows) = {}

Begins(p, o) ==
  /\ op[p] = Free /\ op'[p] = o /\ \A q \in Procs : q # p => op'[q] = op[q]
  /\ UNCHANGED <<rows, lines, joined, phase, task, free, inFlight, lost, meddled, deaths>>
  /\ \A q \in Procs : todo'[q] \subseteq todo[q]

Updating(p, o) ==
  /\ o.do = "update" /\ o \in Updates /\ o.rows = rows
  /\ IF o.slot = NoSlot
     THEN /\ o.to \in Settled
          /\ ~ Waiting(rows, o.job) \/ \E q \in Procs : o.job \in todo[q]
     ELSE p = "worker" /\ task[o.slot].job = o.job /\ o.to \in NextStatuses(task[o.slot].at)

Recovering(p, o) ==
  /\ o.do = "recover" /\ o \in Recovers /\ o.rows = rows /\ o.lines = lines
  /\ IF o.start THEN o.orphans = StartOrphans(rows)
     ELSE /\ p = "worker" /\ Ready /\ o.orphans # {}
          /\ \A j \in o.orphans : rows[j] \in {"running", "finalizing"} /\ inFlight[j] = NoSlot

(* Crashes apart, the processes only put an operation away when it is done. *)
LEMMA QuietRecovery ==
  ASSUME MeetTypeOK, NEW p \in Procs, NEW start \in BOOLEAN, NEW orphans \in SUBSET Jobs,
         Recovery(p, start, orphans), orphans = {}, start => orphans = StartOrphans(rows),
         start \/ phase["worker"] = "ready"
  PROVE  Quiet
<1>1. UNCHANGED <<rows, lines, joined, op, task, free, inFlight, lost, meddled, deaths, todo>>
        /\ AfterRecovery(p, start)
  BY DEF Recovery, files, daemon, ops
<1>2. Ready' => Ready \/ StartOrphans(rows) = {}
  BY <1>1 DEF AfterRecovery, Ready, MeetTypeOK
<1> QED BY <1>1, <1>2 DEF Quiet

LEMMA Moves ==
  ASSUME MeetTypeOK, Shapes, [MeetNext]_meet
  PROVE  \/ Quiet
         \/ \E p \in Procs, o \in Operations : Begins(p, o) /\ (Updating(p, o) \/ Recovering(p, o))
         \/ Join \/ JoinWrite \/ ClaimWrite \/ ClaimedWrite
         \/ \E p \in Procs : RecoveryWrite(p) \/ UpdateWrite(p) \/ MeetCrash(p)
         \/ \E s \in Slots : Claim(s) \/ EndTask(s)
<1> DEFINE BeginsOne ==
      \E p \in Procs, o \in Operations : Begins(p, o) /\ (Updating(p, o) \/ Recovering(p, o))
<1>1. ASSUME NEW p \in Procs, NEW start \in BOOLEAN, NEW orphans \in SUBSET Jobs,
             Recovery(p, start, orphans), orphans # {},
             IF start THEN orphans = StartOrphans(rows)
             ELSE /\ p = "worker" /\ Ready
                  /\ \A j \in orphans : rows[j] \in {"running", "finalizing"} /\ inFlight[j] = NoSlot
      PROVE  BeginsOne
  <2> DEFINE o == [do |-> "recover", start |-> start, orphans |-> orphans,
                   queued |-> Queued, rows |-> rows, lines |-> lines]
  <2>1. /\ OpTypeOK' /\ op[p] = Free /\ op'[p] = o
        /\ \A q \in Procs : q # p => op'[q] = op[q]
        /\ UNCHANGED <<phase, loop>>
    BY <1>1, RecoveryBegun
  <2>2. o \in Operations
    BY <2>1 DEF OpTypeOK
  <2>3. o.do = "recover" /\ o.rows = rows /\ o.lines = lines /\ o.orphans = orphans /\ o.start = start
    OBVIOUS
  <2> HIDE DEF o
  <2>4. o \in Recovers
    BY <2>2, <2>3 DEF Operations, Free, Updates, Enqueues, Recovers, Claims, Claimed
  <2>5. Begins(p, o)
    BY <1>1, <2>1 DEF Begins, Recovery, files, daemon
  <2>6. Recovering(p, o)
    BY <1>1, <2>3, <2>4 DEF Recovering
  <2> QED BY <2>2, <2>5, <2>6
<1>2. ASSUME NEW p \in Procs, NEW j \in Jobs, NEW st \in JobStatuses, NEW s \in Slots \cup {NoSlot},
             Update(p, j, st, s),
             UNCHANGED <<rows, lines, joined, phase, task, free, inFlight, lost, meddled, deaths>>,
             \A q \in Procs : todo'[q] \subseteq todo[q],
             IF s = NoSlot THEN st \in Settled /\ (~ Waiting(rows, j) \/ \E q \in Procs : j \in todo[q])
             ELSE p = "worker" /\ task[s].job = j /\ st \in NextStatuses(task[s].at)
      PROVE  BeginsOne
  <2> DEFINE o == [do |-> "update", job |-> j, to |-> st, slot |-> s, rows |-> rows]
  <2>1. /\ OpTypeOK' /\ op[p] = Free /\ op'[p] = o
        /\ \A q \in Procs : q # p => op'[q] = op[q]
    BY <1>2, UpdateBegun
  <2>2. o \in Operations
    BY <2>1 DEF OpTypeOK
  <2>3. o.do = "update" /\ o.job = j /\ o.to = st /\ o.slot = s /\ o.rows = rows
    OBVIOUS
  <2> HIDE DEF o
  <2>4. o \in Updates
    BY <2>2, <2>3 DEF Operations, Free, Updates, Enqueues, Recovers, Claims, Claimed
  <2>5. Begins(p, o)
    BY <1>2, <2>1 DEF Begins
  <2>6. Updating(p, o)
    BY <1>2, <2>3, <2>4 DEF Updating
  <2> QED BY <2>2, <2>5, <2>6
<1> HIDE DEF BeginsOne
<1>3. CASE PollRecovery
  <2>1. PICK aged \in SUBSET Jobs : Recovery("worker", FALSE, PollOrphans(rows, aged))
    BY <1>3 DEF PollRecovery
  <2>2. /\ PollOrphans(rows, aged) \in SUBSET Jobs
        /\ \A j \in PollOrphans(rows, aged) : rows[j] \in {"running", "finalizing"} /\ inFlight[j] = NoSlot
        /\ phase["worker"] = "ready" /\ "worker" \in Procs
    BY <1>3 DEF PollOrphans, PollRecovery, Procs
  <2>3. CASE PollOrphans(rows, aged) = {}
    BY <2>1, <2>2, <2>3, QuietRecovery
  <2>4. CASE PollOrphans(rows, aged) # {}
    <3>1. Ready
      BY <2>2 DEF Ready
    <3>2. BeginsOne
      BY <2>1, <2>2, <2>4, <3>1, <1>1
    <3> QED BY <3>2 DEF BeginsOne
  <2> QED BY <2>3, <2>4
<1>4. ASSUME NEW p \in Procs, StartRecovery(p) PROVE Quiet \/ BeginsOne
  <2>1. Recovery(p, TRUE, StartOrphans(rows)) /\ StartOrphans(rows) \in SUBSET Jobs
    BY <1>4 DEF StartRecovery, StartOrphans
  <2>2. CASE StartOrphans(rows) = {}
    BY <2>1, <2>2, QuietRecovery
  <2>3. CASE StartOrphans(rows) # {}
    BY <2>1, <2>3, <1>1
  <2> QED BY <2>2, <2>3
<1>5. ASSUME NEW p \in Procs, NEW j \in Jobs, Finalize(p, j) PROVE BeginsOne
  <2>1. PICK st \in TerminalCovered \cup {"failed"} : Update(p, j, st, NoSlot)
    BY <1>5 DEF Finalize
  <2>2. st \in JobStatuses /\ st \in Settled
    BY DEF TerminalCovered, JobStatuses, Settled
  <2>3. /\ UNCHANGED <<rows, lines, joined, phase, task, free, inFlight, lost, meddled, deaths>>
        /\ \A q \in Procs : todo'[q] \subseteq todo[q] /\ j \in todo[p]
    BY <1>5 DEF Finalize, files, daemon, worker, MeetTypeOK
  <2> QED BY <2>1, <2>2, <2>3, <1>2
<1>6. ASSUME NEW j \in Jobs, Resummarize(j) PROVE BeginsOne
  <2>1. PICK st \in TerminalCovered : Update("daemon", j, st, NoSlot)
    BY <1>6 DEF Resummarize
  <2>2. st \in JobStatuses /\ st \in Settled /\ "daemon" \in Procs
    BY DEF TerminalCovered, JobStatuses, Settled, Procs
  <2>3. /\ UNCHANGED <<rows, lines, joined, phase, task, free, inFlight, lost, meddled, deaths, todo>>
        /\ ~ Waiting(rows, j)
    BY <1>6 DEF Resummarize, files, worker, Waiting, TerminalCovered
  <2> QED BY <2>1, <2>2, <2>3, <1>2
<1>7. ASSUME NEW s \in Slots, Work(s) PROVE BeginsOne
  <2>1. PICK st \in NextStatuses(task[s].at) : Update("worker", task[s].job, st, s)
    BY <1>7 DEF Work
  <2>2. st \in JobStatuses /\ "worker" \in Procs /\ task[s].at \in Stages
    BY StageStatuses DEF Procs
  <2>3. task[s].job \in Jobs
    <3>1. task[s] # NoTask /\ task[s].job \in Jobs \cup {0}
      BY <2>2 DEF NoTask, Stages, MeetTypeOK
    <3> QED BY <3>1 DEF Shapes, Shaped
  <2>4. UNCHANGED <<rows, lines, joined, phase, task, free, inFlight, lost, meddled, deaths, todo>>
    BY <1>7 DEF Work, files, worker, daemon
  <2>5. s # NoSlot
    BY JobNumbers
  <2> QED BY <2>1, <2>2, <2>3, <2>4, <2>5, <1>2
<1>8. ASSUME NEW p \in Procs, List(p) PROVE Quiet
  <2>1. /\ UNCHANGED <<rows, lines, joined, op, task, free, inFlight, lost, meddled, deaths>>
        /\ phase[p] = "list" /\ phase' = [phase EXCEPT ![p] = "finalize"]
        /\ todo' = [todo EXCEPT ![p] = {j \in Jobs : rows[j] = "interrupted"}]
    BY <1>8 DEF List, files, daemon, ops, worker
  <2>2. \A q \in Procs : todo'[q] \subseteq todo[q] \cup {j \in Jobs : rows[j] = "interrupted"}
    BY <2>1 DEF MeetTypeOK
  <2>3. Ready' => Ready
    BY <2>1 DEF Ready, MeetTypeOK
  <2> QED BY <2>1, <2>2, <2>3 DEF Quiet
<1>9. ASSUME NEW p \in Procs, Finalized(p) \/ Start(p) PROVE Quiet
  <2>1. /\ UNCHANGED <<rows, lines, joined, op, task, free, inFlight, lost, meddled, deaths, todo>>
        /\ \/ phase[p] = "finalize" /\ phase' = [phase EXCEPT ![p] = "ready"]
           \/ phase' = [phase EXCEPT ![p] = "recover"]
    BY <1>9 DEF Finalized, Start, files, daemon, ops, worker
  <2>2. Ready' => Ready
    <3>1. "worker" \in Procs /\ phase \in [Procs -> {"down", "recover", "list", "finalize", "ready"}]
      BY DEF Procs, MeetTypeOK
    <3>2. CASE p = "worker"
      BY <2>1, <3>1, <3>2 DEF Ready
    <3>3. CASE p # "worker"
      BY <2>1, <3>1, <3>3 DEF Ready
    <3> QED BY <3>2, <3>3
  <2> QED BY <2>1, <2>2 DEF Quiet
<1>10. CASE Tick
  <2>1. /\ UNCHANGED <<rows, lines, joined, op, task, free, lost, meddled, deaths, todo, phase>>
        /\ inFlight' = [j \in Jobs |-> IF Done(j) THEN NoSlot ELSE inFlight[j]]
    BY <1>10 DEF Tick, files, daemon, ops
  <2>2. ASSUME NEW s \in Slots, task[s].job # 0, inFlight[task[s].job] = s
        PROVE  inFlight'[task[s].job] = s
    <3>1. task[s].job \in Jobs
      BY <2>2 DEF MeetTypeOK
    <3> QED BY <2>1, <2>2, <3>1 DEF Done
  <2> QED BY <2>1, <2>2 DEF Quiet, Ready
<1>11. CASE Sleep \/ UNCHANGED meet
  BY <1>11 DEF Sleep, meet, Quiet, Ready, files, daemon, ops, worker
<1> QED
  BY <1>3, <1>4, <1>5, <1>6, <1>7, <1>8, <1>9, <1>10, <1>11
  DEF MeetNext, MeetSystem, MeetEnvironment, BeginsOne

-----------------------------------------------------------------------------
(* The store after a write, or a crash: one operation is over.              *)

Over(p) == op'[p] = Free /\ \A q \in Procs : q # p => op'[q] = op[q]

LEMMA Writes ==
  ASSUME MeetTypeOK
  PROVE  /\ JoinWrite => /\ Over("daemon") /\ op["daemon"] \in Enqueues /\ op["daemon"].do = "enqueue"
                         /\ UNCHANGED <<lines, joined, phase, todo, loop, task, free, inFlight, meddled, deaths>>
         /\ ClaimedWrite => /\ Over("worker") /\ op["worker"] \in Claimed /\ op["worker"].do = "claimed"
                            /\ UNCHANGED <<lines, joined, phase, todo, free, meddled, deaths>>
         /\ \A p \in Procs :
              /\ RecoveryWrite(p) => /\ Over(p) /\ op[p] \in Recovers /\ op[p].do = "recover"
                                     /\ UNCHANGED <<joined, todo, task, free, inFlight, deaths>>
              /\ UpdateWrite(p) => /\ Over(p) /\ op[p] \in Updates /\ op[p].do = "update"
                                   /\ UNCHANGED <<lines, joined, phase, todo, free, inFlight, deaths>>
              /\ MeetCrash(p) => /\ Over(p) /\ UNCHANGED <<rows, lines, joined, lost, meddled>>
                                 /\ p = "daemon" => UNCHANGED <<task, free, inFlight>>
<1>1. JoinWrite => /\ Over("daemon") /\ op["daemon"] \in Enqueues /\ op["daemon"].do = "enqueue"
                   /\ UNCHANGED <<lines, joined, phase, todo, loop, task, free, inFlight, meddled, deaths>>
  BY OpFields, Finished DEF JoinWrite, Procs, Over, daemon, worker
<1>2. ClaimedWrite => /\ Over("worker") /\ op["worker"] \in Claimed /\ op["worker"].do = "claimed"
                      /\ UNCHANGED <<lines, joined, phase, todo, free, meddled, deaths>>
  BY OpFields, Finished DEF ClaimedWrite, Procs, Over, daemon
<1>3. ASSUME NEW p \in Procs, RecoveryWrite(p)
      PROVE  /\ Over(p) /\ op[p] \in Recovers /\ op[p].do = "recover"
             /\ UNCHANGED <<joined, todo, task, free, inFlight, deaths>>
  BY <1>3, OpFields, Finished DEF RecoveryWrite, Over, daemon
<1>4. ASSUME NEW p \in Procs, UpdateWrite(p)
      PROVE  /\ Over(p) /\ op[p] \in Updates /\ op[p].do = "update"
             /\ UNCHANGED <<lines, joined, phase, todo, free, inFlight, deaths>>
  BY <1>4, OpFields, Finished DEF UpdateWrite, Over, daemon
<1>5. ASSUME NEW p \in Procs, MeetCrash(p)
      PROVE  /\ Over(p) /\ UNCHANGED <<rows, lines, joined, lost, meddled>>
             /\ p = "daemon" => UNCHANGED <<task, free, inFlight>>
  BY <1>5, Finished DEF MeetCrash, Over, files, daemon, worker
<1> QED BY <1>1, <1>2, <1>3, <1>4, <1>5

LEMMA Frees ==
  ASSUME NEW s \in Slots, EndTask(s)
  PROVE  /\ task[s].at = "over" /\ task' = [task EXCEPT ![s] = NoTask] /\ free' = free \cup {s}
         /\ UNCHANGED <<rows, lines, joined, op, phase, todo, inFlight, lost, meddled, deaths>>
BY DEF EndTask, Release, files, daemon, ops

LEMMA Takes ==
  ASSUME MeetTypeOK, NEW s \in Slots, Claim(s)
  PROVE  /\ s \in free /\ free' = free \ {s} /\ lines # <<>>
         /\ op["worker"] = Free /\ op'["worker"] = [do |-> "claim", slot |-> s, lines |-> lines]
         /\ op'["daemon"] = op["daemon"]
         /\ UNCHANGED <<rows, lines, joined, phase, todo, task, inFlight, lost, meddled, deaths>>
BY ClaimBegun DEF Claim, files, daemon

(* The task of a slot moves on only by the write its thread began.          *)
LEMMA Moved ==
  ASSUME MeetTypeOK, Shapes, NEW p \in Procs, UpdateWrite(p), op[p].slot # NoSlot
  PROVE  LET o == op[p]
             at == IF o.to \in Settled THEN "over" ELSE o.to
         IN /\ p = "worker" /\ o.slot \in Slots
            /\ task' = [task EXCEPT ![o.slot].at = at]
            /\ at \in Stages /\ task[o.slot].job = o.job /\ o.job # 0 /\ o.job \in Jobs
            /\ task[o.slot].at \notin {"over", "none"}
            /\ task'[o.slot] = [job |-> o.job, at |-> at]
            /\ \A s \in Slots : s # o.slot => task'[s] = task[s]
            /\ o.to \in RowOf(at) /\ o.to \notin {"queued", "absent"} /\ o.to \in Settled <=> at = "over"
<1> DEFINE o == op[p]
           at == IF o.to \in Settled THEN "over" ELSE o.to
<1>1. o \in Updates /\ o.do = "update"
  BY Writes
<1>2. o.slot \in Slots /\ o.job \in Jobs /\ o.job # 0
  BY <1>1, JobNumbers DEF Updates
<1>3. p = "worker" /\ task[o.slot].job = o.job /\ o.to \in NextStatuses(task[o.slot].at)
  BY <1>1 DEF Shapes, UpdateShaped
<1>4. /\ at \in Stages /\ task[o.slot].at \in Stages /\ task[o.slot].at # "over"
      /\ o.to \in RowOf(at) /\ o.to \notin {"queued", "absent"}
      /\ o.to \in Settled \/ o.to \in Stages \ {"claimed", "over"}
  BY <1>3, StageStatuses
<1>5. task' = [task EXCEPT ![o.slot].at = at]
  BY DEF UpdateWrite
<1>6. task \in [Slots -> [job : Jobs \cup {0}, at : Stages \cup {"none"}]]
  BY DEF MeetTypeOK
<1> HIDE DEF o, at
<1>7. task'[o.slot] = [job |-> o.job, at |-> at] /\ \A s \in Slots : s # o.slot => task'[s] = task[s]
  BY <1>2, <1>3, <1>5, <1>6
<1>8. o.to \in Settled <=> at = "over"
  BY <1>4 DEF at, Stages
<1>9. "none" \notin Stages
  BY DEF Stages
<1> QED BY <1>2, <1>3, <1>4, <1>5, <1>7, <1>8, <1>9 DEF o, at

(* A claimed job's row, and the rows of those it supersedes.                *)
LEMMA Ran ==
  ASSUME MeetTypeOK, ClaimedWrite
  PROVE  LET o == op["worker"]
         IN /\ o.slot \in Slots /\ o.job \in Jobs /\ o.job # 0
            /\ task'[o.slot] = [job |-> o.job, at |-> "claimed"]
            /\ \A s \in Slots : s # o.slot => task'[s] = task[s]
            /\ inFlight'[o.job] = o.slot
            /\ \A j \in Jobs : j # o.job => inFlight'[j] = inFlight[j]
            /\ rows'[o.job] = "running"
            /\ \A j \in Jobs : j # o.job => rows'[j] = IF Superseded(o, j) THEN "skipped" ELSE o.rows[j]
            /\ lost' = (lost \/ rows # o.rows)
<1> DEFINE o == op["worker"]
<1>1. o \in Claimed
  BY Writes
<1>2. o.slot \in Slots /\ o.job \in Jobs /\ o.job # 0
  BY <1>1, JobNumbers DEF Claimed
<1>3. /\ task' = [task EXCEPT ![o.slot] = [job |-> o.job, at |-> "claimed"]]
      /\ inFlight' = [inFlight EXCEPT ![o.job] = o.slot]
      /\ lost' = (lost \/ rows # o.rows)
      /\ rows' = [k \in Jobs |-> IF k = o.job THEN "running" ELSE IF Superseded(o, k) THEN "skipped" ELSE o.rows[k]]
  BY DEF ClaimedWrite, WriteRows
<1>4. task \in [Slots -> [job : Jobs \cup {0}, at : Stages \cup {"none"}]] /\ inFlight \in [Jobs -> Slots \cup {NoSlot}]
  BY DEF MeetTypeOK
<1> HIDE DEF o
<1> QED BY <1>2, <1>3, <1>4 DEF o

-----------------------------------------------------------------------------
(* Slots.                                                                   *)

LEMMA ShapesStep ==
  ASSUME MeetTypeOK, Shapes, MeetTypeOK', [MeetNext]_meet
  PROVE  Shapes'
<1> USE DEF Shapes
<1>0. /\ Procs = {"daemon", "worker"} /\ NoSlot \notin Slots /\ Free.do = "nothing" /\ NoTask = [job |-> 0, at |-> "none"]
  BY JobNumbers DEF Procs, Free, NoTask
<1>1. ASSUME UNCHANGED task, NEW p \in Procs, op'[p] = op[p] \/ op'[p] = Free
      PROVE  UpdateShaped(p)' /\ RecoverShaped(p)' /\ (p = "worker" => ClaimShaped') /\ \A s \in Slots : Shaped(s)'
  BY <1>0, <1>1 DEF UpdateShaped, RecoverShaped, ClaimShaped, Shaped
<1>2. ASSUME NEW s \in Slots, \A t \in Slots : t # s => task'[t] = task[t],
             task[s].at \in {"over", "none"} \/ op'["worker"] = Free,
             NEW p \in Procs, op'[p] = op[p] \/ op'[p] = Free
      PROVE  UpdateShaped(p)' /\ RecoverShaped(p)' /\ (p = "worker" => ClaimShaped')
  <2>1. CASE op'[p] = Free
    BY <1>0, <2>1 DEF UpdateShaped, RecoverShaped, ClaimShaped
  <2>2. CASE op'[p] = op[p]
    <3>1. RecoverShaped(p)' /\ (p = "worker" => ClaimShaped')
      BY <1>0, <2>2 DEF RecoverShaped, ClaimShaped
    <3>2. UpdateShaped(p)'
      <4> SUFFICES ASSUME op[p].do = "update", op[p].slot # NoSlot
                   PROVE  /\ p = "worker" /\ task'[op[p].slot].job = op[p].job
                          /\ op[p].to \in NextStatuses(task'[op[p].slot].at)
        BY <2>2 DEF UpdateShaped
      <4>1. p = "worker" /\ task[op[p].slot].job = op[p].job /\ op[p].to \in NextStatuses(task[op[p].slot].at)
        BY DEF UpdateShaped
      <4>2. op[p].slot \in Slots
        BY OpFields DEF Updates
      <4>3. task[op[p].slot].at \in Stages /\ task[op[p].slot].at # "over"
        BY <4>1, StageStatuses
      <4>4. op[p].slot # s
        BY <1>0, <1>2, <2>2, <4>1, <4>3 DEF Stages
      <4> QED BY <1>2, <4>1, <4>2, <4>4
    <3> QED BY <3>1, <3>2
  <2> QED BY <1>2, <2>1, <2>2
<1>3. CASE Quiet
  BY <1>1, <1>3 DEF Quiet, Procs
<1>4. ASSUME NEW p \in Procs, NEW o \in Operations, Begins(p, o), Updating(p, o) \/ Recovering(p, o)
      PROVE  Shapes'
  <2>1. UNCHANGED task /\ op'[p] = o /\ \A q \in Procs : q # p => op'[q] = op[q]
    BY <1>4 DEF Begins
  <2>2. o.do \notin {"claim", "claimed"} /\ op'[p] = o
    BY <1>4, <2>1 DEF Updating, Recovering
  <2>3. UpdateShaped(p)' /\ RecoverShaped(p)'
    BY <1>4, <2>1 DEF Updating, Recovering, UpdateShaped, RecoverShaped
  <2>4. \A q \in Procs : q # p => UpdateShaped(q)' /\ RecoverShaped(q)'
    BY <2>1 DEF UpdateShaped, RecoverShaped
  <2>5. ClaimShaped'
    BY <1>0, <2>1, <2>2 DEF ClaimShaped
  <2>6. \A s \in Slots : Shaped(s)'
    BY <2>1 DEF Shaped
  <2> QED BY <2>3, <2>4, <2>5, <2>6
<1>5. CASE Join
  <2>1. /\ op'["daemon"] = [do |-> "enqueue", job |-> joined + 1, rows |-> rows]
        /\ op'["worker"] = op["worker"] /\ UNCHANGED task
    BY <1>5, JoinBegun DEF Join, worker
  <2>2. op'["daemon"].do = "enqueue"
    BY <2>1
  <2>3. UpdateShaped("daemon")' /\ RecoverShaped("daemon")'
    BY <2>2 DEF UpdateShaped, RecoverShaped
  <2> QED BY <1>0, <1>1, <2>1, <2>3
<1>6. CASE JoinWrite \/ \E p \in Procs : RecoveryWrite(p)
  <2>1. UNCHANGED task /\ \A p \in Procs : op'[p] = op[p] \/ op'[p] = Free
    BY <1>6, <1>0, Writes DEF Over
  <2> QED BY <1>0, <1>1, <2>1
<1>7. ASSUME NEW p \in Procs, UpdateWrite(p) PROVE Shapes'
  <2>1. \A q \in Procs : op'[q] = op[q] \/ op'[q] = Free
    BY <1>7, Writes DEF Over
  <2>2. CASE op[p].slot = NoSlot
    <3>1. UNCHANGED task
      BY <1>7, <2>2 DEF UpdateWrite
    <3> QED BY <1>0, <1>1, <2>1, <3>1
  <2>3. CASE op[p].slot # NoSlot
    <3> DEFINE s == op[p].slot
    <3>1. /\ p = "worker" /\ s \in Slots /\ task'[s].job # 0 /\ task'[s].at \in Stages
          /\ \A t \in Slots : t # s => task'[t] = task[t]
      <4> DEFINE at == IF op[p].to \in Settled THEN "over" ELSE op[p].to
      <4>1. /\ p = "worker" /\ s \in Slots /\ task'[s] = [job |-> op[p].job, at |-> at]
            /\ at \in Stages /\ op[p].job # 0
            /\ \A t \in Slots : t # s => task'[t] = task[t]
        BY <1>7, <2>3, Moved
      <4> HIDE DEF at, s
      <4> QED BY <4>1
    <3>2. op'["worker"] = Free
      BY <1>7, <3>1, Writes DEF Over
    <3> HIDE DEF s
    <3>4. \A t \in Slots : Shaped(t)'
      BY <1>0, <3>1 DEF Shaped, Stages
    <3>5. \A q \in Procs : UpdateShaped(q)' /\ RecoverShaped(q)' /\ (q = "worker" => ClaimShaped')
      BY <1>2, <2>1, <3>1, <3>2
    <3> QED BY <1>0, <3>4, <3>5
  <2> QED BY <2>2, <2>3
<1>8. ASSUME NEW s \in Slots, Claim(s) PROVE Shapes'
  <2>1. /\ op'["worker"] = [do |-> "claim", slot |-> s, lines |-> lines]
        /\ op'["daemon"] = op["daemon"] /\ UNCHANGED task /\ lines # <<>>
    BY <1>8, Takes
  <2>2. op'["worker"].do = "claim" /\ op'["worker"].lines = lines
    BY <2>1
  <2>3. UpdateShaped("worker")' /\ RecoverShaped("worker")' /\ ClaimShaped'
    BY <2>1, <2>2 DEF UpdateShaped, RecoverShaped, ClaimShaped
  <2> QED BY <1>0, <1>1, <2>1, <2>3
<1>9. CASE ClaimWrite
  <2>1. /\ op'["worker"].do = "claimed" /\ op'["worker"].job \in op'["worker"].dropped
        /\ \A k \in op'["worker"].dropped : Link[k] = Link[op'["worker"].job]
        /\ op'["daemon"] = op["daemon"]
    BY <1>9, ClaimWritten
  <2>2. UpdateShaped("worker")' /\ RecoverShaped("worker")' /\ ClaimShaped'
    BY <2>1 DEF UpdateShaped, RecoverShaped, ClaimShaped
  <2>3. UNCHANGED task
    BY <1>9 DEF ClaimWrite, worker
  <2> QED BY <1>0, <1>1, <2>1, <2>2, <2>3
<1>10. CASE ClaimedWrite
  <2> DEFINE s == op["worker"].slot
  <2>1. /\ s \in Slots /\ op["worker"].job # 0 /\ task'[s] = [job |-> op["worker"].job, at |-> "claimed"]
        /\ \A t \in Slots : t # s => task'[t] = task[t]
    BY <1>10, Ran
  <2>2. op'["worker"] = Free /\ \A q \in Procs : op'[q] = op[q] \/ op'[q] = Free
    BY <1>0, <1>10, Writes DEF Over
  <2> HIDE DEF s
  <2>3. \A t \in Slots : Shaped(t)'
    BY <1>0, <2>1 DEF Shaped
  <2>4. \A q \in Procs : UpdateShaped(q)' /\ RecoverShaped(q)' /\ (q = "worker" => ClaimShaped')
    BY <1>2, <2>1, <2>2
  <2> QED BY <1>0, <2>3, <2>4
<1>11. ASSUME NEW s \in Slots, EndTask(s) PROVE Shapes'
  <2>1. task[s].at = "over" /\ task' = [task EXCEPT ![s] = NoTask] /\ UNCHANGED op
    BY <1>11, Frees
  <2>2. task'[s] = NoTask /\ \A t \in Slots : t # s => task'[t] = task[t]
    BY <2>1 DEF MeetTypeOK
  <2>3. \A t \in Slots : Shaped(t)'
    BY <1>0, <2>2 DEF Shaped
  <2>4. \A q \in Procs : UpdateShaped(q)' /\ RecoverShaped(q)' /\ (q = "worker" => ClaimShaped')
    BY <1>2, <2>1, <2>2
  <2> QED BY <1>0, <2>3, <2>4
<1>12. ASSUME NEW p \in Procs, MeetCrash(p) PROVE Shapes'
  <2>1. Over(p)
    BY <1>12, Writes
  <2>2. CASE p = "daemon"
    <3>1. UNCHANGED task
      BY <1>12, <2>2, Writes
    <3> QED BY <1>0, <1>1, <2>1, <3>1 DEF Over
  <2>3. CASE p = "worker"
    <3>1. task' = [s \in Slots |-> NoTask] /\ op'["worker"] = Free /\ op'["daemon"] = op["daemon"]
      BY <1>0, <1>12, <2>1, <2>3 DEF MeetCrash, Over
    <3>2. \A s \in Slots : Shaped(s)'
      BY <1>0, <3>1 DEF Shaped
    <3>3. UpdateShaped("worker")' /\ RecoverShaped("worker")' /\ ClaimShaped'
      BY <1>0, <3>1 DEF UpdateShaped, RecoverShaped, ClaimShaped
    <3>4. UpdateShaped("daemon")' /\ RecoverShaped("daemon")'
      BY <1>0, <3>1 DEF UpdateShaped, RecoverShaped
    <3> QED BY <1>0, <3>2, <3>3, <3>4
  <2> QED BY <1>0, <2>2, <2>3
<1> QED
  BY Moves, <1>3, <1>4, <1>5, <1>6, <1>7, <1>8, <1>9, <1>10, <1>11, <1>12

LEMMA SlotsStep ==
  ASSUME MeetTypeOK, Shapes, SlotsKept, [MeetNext]_meet
  PROVE  SlotsKept'
<1>0. /\ Procs = {"daemon", "worker"} /\ Free.do = "nothing" /\ NoTask = [job |-> 0, at |-> "none"]
      /\ free \subseteq Slots
  BY DEF Procs, Free, NoTask, MeetTypeOK
<1>1. ASSUME UNCHANGED free, Held' = Held, Busy' = Busy
      PROVE  SlotsKept'
  BY <1>1 DEF SlotsKept
<1>2. CASE Quiet
  BY <1>1, <1>2 DEF Quiet, Held, Busy
<1>3. ASSUME NEW p \in Procs, NEW o \in Operations, Begins(p, o), Updating(p, o) \/ Recovering(p, o)
      PROVE  SlotsKept'
  <2>1. /\ UNCHANGED <<free, task>> /\ op[p] = Free /\ op'[p] = o
        /\ \A q \in Procs : q # p => op'[q] = op[q]
        /\ o.do \in {"update", "recover"}
    BY <1>3 DEF Begins, Updating, Recovering
  <2>2. Held' = Held /\ Busy' = Busy
    BY <1>0, <2>1 DEF Held, Busy
  <2> QED BY <1>1, <2>1, <2>2
<1>4. CASE Join
  <2>1. op'["worker"] = op["worker"] /\ UNCHANGED <<free, task>>
    BY <1>4, JoinBegun DEF Join, worker
  <2> QED BY <1>1, <2>1 DEF Held, Busy
<1>5. ASSUME NEW p \in Procs, Over(p), UNCHANGED free, Busy' = Busy, op[p].do \notin {"claim", "claimed"}
      PROVE  SlotsKept'
  <2>1. Held' = Held
    BY <1>0, <1>5 DEF Over, Held
  <2> QED BY <1>1, <1>5, <2>1
<1>6. CASE JoinWrite
  BY <1>0, <1>5, <1>6, Writes DEF Busy
<1>7. ASSUME NEW p \in Procs, RecoveryWrite(p) PROVE SlotsKept'
  BY <1>5, <1>7, Writes DEF Busy
<1>8. ASSUME NEW p \in Procs, UpdateWrite(p) PROVE SlotsKept'
  <2>1. Over(p) /\ op[p].do = "update" /\ UNCHANGED free
    BY <1>8, Writes
  <2>2. CASE op[p].slot = NoSlot
    BY <1>5, <1>8, <2>1, <2>2 DEF UpdateWrite, Busy
  <2>3. CASE op[p].slot # NoSlot
    <3> DEFINE s == op[p].slot
    <3>1. /\ s \in Slots /\ \A t \in Slots : t # s => task'[t] = task[t]
          /\ task[s].at # "none" /\ task'[s].job # 0
      <4> DEFINE at == IF op[p].to \in Settled THEN "over" ELSE op[p].to
      <4>1. /\ s \in Slots /\ \A t \in Slots : t # s => task'[t] = task[t]
            /\ task[s].at # "none" /\ task'[s] = [job |-> op[p].job, at |-> at] /\ op[p].job # 0
        BY <1>8, <2>3, Moved
      <4> HIDE DEF at, s
      <4> QED BY <4>1
    <3> HIDE DEF s
    <3>2. task[s] # NoTask /\ task'[s] # NoTask
      BY <1>0, <3>1
    <3>3. \A t \in Slots : task[t] # NoTask <=> task'[t] # NoTask
      BY <3>1, <3>2
    <3>4. Busy' = Busy
      BY <3>3 DEF Busy
    <3> QED BY <1>5, <2>1, <3>4
  <2> QED BY <2>2, <2>3
<1>9. CASE ClaimWrite
  <2>1. /\ op["worker"].do = "claim" /\ op'["worker"].do = "claimed"
        /\ op'["worker"].slot = op["worker"].slot
    BY <1>9, ClaimWritten DEF Shapes
  <2>2. UNCHANGED <<free, task>>
    BY <1>9 DEF ClaimWrite, worker
  <2> QED BY <1>1, <2>1, <2>2 DEF Held, Busy
<1>10. CASE ClaimedWrite
  <2> DEFINE s == op["worker"].slot
  <2>1. /\ s \in Slots /\ task'[s] = [job |-> op["worker"].job, at |-> "claimed"]
        /\ \A t \in Slots : t # s => task'[t] = task[t]
    BY <1>10, Ran
  <2>2. op["worker"].do = "claimed" /\ op'["worker"] = Free /\ UNCHANGED free
    BY <1>0, <1>10, Writes DEF Over
  <2> HIDE DEF s
  <2>3. task'[s] # NoTask
    BY <1>0, <2>1
  <2>4. Held = {s} /\ Held' = {}
    BY <1>0, <2>2 DEF Held, s
  <2>5. Busy' = Busy \cup {s}
    BY <2>1, <2>3 DEF Busy
  <2> QED BY <2>2, <2>4, <2>5 DEF SlotsKept
<1>11. ASSUME NEW s \in Slots, Claim(s) PROVE SlotsKept'
  <2>1. /\ s \in free /\ free' = free \ {s} /\ UNCHANGED task /\ op["worker"] = Free
        /\ op'["worker"] = [do |-> "claim", slot |-> s, lines |-> lines]
    BY <1>11, Takes
  <2>2. op'["worker"].do = "claim" /\ op'["worker"].slot = s
    BY <2>1
  <2>3. Held = {} /\ Held' = {s} /\ Busy' = Busy
    BY <1>0, <2>1, <2>2 DEF Held, Busy
  <2> QED BY <2>1, <2>3 DEF SlotsKept
<1>12. ASSUME NEW s \in Slots, EndTask(s) PROVE SlotsKept'
  <2>1. /\ task[s].at = "over" /\ task' = [task EXCEPT ![s] = NoTask] /\ free' = free \cup {s}
        /\ UNCHANGED op
    BY <1>12, Frees
  <2>2. task'[s] = NoTask /\ \A t \in Slots : t # s => task'[t] = task[t]
    BY <2>1 DEF MeetTypeOK
  <2>3. task[s] # NoTask
    BY <1>0, <2>1
  <2>4. s \in Busy /\ Busy' = Busy \ {s} /\ Held' = Held
    BY <2>1, <2>2, <2>3 DEF Busy, Held
  <2> QED BY <2>1, <2>4 DEF SlotsKept
<1>13. ASSUME NEW p \in Procs, MeetCrash(p) PROVE SlotsKept'
  <2>1. Over(p)
    BY <1>13, Writes
  <2>2. CASE p = "daemon"
    <3>1. UNCHANGED <<task, free>> /\ op'["worker"] = op["worker"]
      BY <1>0, <1>13, <2>1, <2>2, Writes DEF Over
    <3> QED BY <1>1, <3>1 DEF Held, Busy
  <2>3. CASE p = "worker"
    <3>1. task' = [s \in Slots |-> NoTask] /\ free' = Slots /\ op'["worker"] = Free
      BY <1>13, <2>1, <2>3 DEF MeetCrash, Over
    <3> QED BY <1>0, <3>1 DEF SlotsKept, Held, Busy
  <2> QED BY <1>0, <2>2, <2>3
<1> QED
  BY Moves, <1>2, <1>3, <1>4, <1>6, <1>7, <1>8, <1>9, <1>10, <1>11, <1>12, <1>13

-----------------------------------------------------------------------------
(* Nothing is known of a job before it is enqueued.                         *)

LEMMA QueuedLines ==
  /\ lines \in Lines => Queued \subseteq Jobs /\ (LinesUpto(lines) <=> \A j \in Queued : j <= joined)
  /\ lines' \in Lines => Queued' \subseteq Jobs /\ (LinesUpto(lines)' <=> \A j \in Queued' : j <= joined')
BY DEF Queued, LinesUpto, Lines

LEMMA OpUptoKept ==
  ASSUME MeetTypeOK, NEW p \in Procs, OpUpto(op[p]), joined' \in Nat, joined <= joined',
         op'[p] = op[p] \/ op'[p] = Free
  PROVE  OpUpto(op[p])'
<1>1. joined \in Nat /\ Jobs \subseteq Nat
  BY JobNumbers DEF MeetTypeOK
<1>2. \A k \in Jobs : k <= joined => k <= joined'
  BY <1>1
<1>3. CASE op'[p] = Free
  BY <1>3 DEF OpUpto, Free
<1>4. CASE op'[p] = op[p]
  <2> DEFINE o == op[p]
  <2>1. o.do \in {"update", "enqueue", "claimed"} => o.job \in Jobs
    BY OpFields DEF Updates, Enqueues, Claimed
  <2>2. o.do = "recover" => o.orphans \subseteq Jobs
    BY OpFields DEF Recovers
  <2>3. o.do = "claimed" => o.dropped \subseteq Jobs
    BY OpFields DEF Claimed
  <2>4. o.do \in {"recover", "claim"} => \A i \in DOMAIN o.lines : o.lines[i] \in Jobs
    BY OpFields DEF Recovers, Claims, Lines
  <2>5. op'[p].do = o.do /\ op'[p] = o
    BY <1>4
  <2>6. op'[p].do \in {"update", "enqueue", "recover", "claimed"} => RowsUpto(op[p].rows)'
    BY <1>2, <1>4 DEF OpUpto, RowsUpto
  <2>7. op'[p].do \in {"recover", "claim"} => LinesUpto(op[p].lines)'
    BY <1>2, <1>4, <2>4 DEF OpUpto, LinesUpto
  <2>8. /\ o.do \in {"update", "enqueue", "claimed"} => o.job <= joined'
        /\ o.do = "enqueue" => o.rows[o.job] = "absent"
        /\ o.do = "recover" => \A k \in o.orphans : k <= joined'
        /\ o.do = "claimed" => \A k \in o.dropped : k <= joined'
    BY <1>2, <2>1, <2>2, <2>3 DEF OpUpto
  <2> QED BY <1>4, <2>6, <2>7, <2>8 DEF OpUpto
<1> QED BY <1>3, <1>4

LEMMA UptoStep ==
  ASSUME MeetTypeOK, Shapes, Upto, MeetTypeOK', [MeetNext]_meet
  PROVE  Upto'
<1>0. /\ Procs = {"daemon", "worker"} /\ Free.do = "nothing"
      /\ joined \in Nat /\ joined' \in Nat /\ Jobs \subseteq Nat /\ joined <= joined
  BY JobNumbers DEF Procs, Free, MeetTypeOK
<1>1. ASSUME UNCHANGED <<rows, joined>>, Queued' \subseteq Queued,
             \A p \in Procs : OpUpto(op[p])',
             \A s \in Slots : task'[s].job = task[s].job \/ task'[s].job <= joined',
             \A p \in Procs : \A j \in todo'[p] : j \in todo[p] \/ (rows[j] # "absent" /\ j \in Jobs)
      PROVE  Upto'
  <2>1. RowsUpto(rows)'
    BY <1>1 DEF Upto, RowsUpto
  <2>2. LinesUpto(lines)'
    BY <1>1, QueuedLines DEF Upto, MeetTypeOK
  <2>3. \A p \in Procs : \A j \in todo'[p] : j <= joined'
    BY <1>1 DEF Upto, RowsUpto
  <2> QED BY <1>1, <2>1, <2>2, <2>3 DEF Upto
<1>2. CASE Quiet
  <2>1. UNCHANGED <<rows, lines, joined, op, task>>
    BY <1>2 DEF Quiet
  <2>2. \A p \in Procs : OpUpto(op[p])'
    BY <1>0, <2>1, OpUptoKept DEF Upto
  <2>3. ASSUME NEW p \in Procs, NEW j \in todo'[p]
        PROVE  j \in todo[p] \/ (rows[j] # "absent" /\ j \in Jobs)
    <3>1. todo'[p] \subseteq todo[p] \cup {k \in Jobs : rows[k] = "interrupted"}
      BY <1>2 DEF Quiet
    <3> QED BY <3>1
  <2> QED BY <1>1, <2>1, <2>2, <2>3 DEF Queued
<1>3. ASSUME NEW p \in Procs, NEW o \in Operations, Begins(p, o), Updating(p, o) \/ Recovering(p, o)
      PROVE  Upto'
  <2>1. /\ UNCHANGED <<rows, lines, joined, task>> /\ op'[p] = o
        /\ \A q \in Procs : q # p => op'[q] = op[q]
        /\ \A q \in Procs : todo'[q] \subseteq todo[q]
    BY <1>3 DEF Begins
  <2>2. \A q \in Procs : q # p => OpUpto(op[q])'
    BY <1>0, <2>1, OpUptoKept DEF Upto
  <2>3. CASE Updating(p, o)
    <3>1. o.do = "update" /\ o \in Updates /\ o.rows = rows /\ o.job \in Jobs
      BY <2>3 DEF Updating, Updates
    <3>2. o.job <= joined
      BY <2>3, <3>1 DEF Updating, Updates, Upto, RowsUpto, Waiting
    <3>3. op'[p].do = "update" /\ op'[p].job <= joined' /\ op'[p].rows = rows
      BY <2>1, <3>1, <3>2
    <3>4. RowsUpto(op[p].rows)'
      BY <2>1, <3>3 DEF Upto, RowsUpto
    <3>5. OpUpto(op[p])'
      BY <3>3, <3>4 DEF OpUpto
    <3>6. Queued' = Queued
      BY <2>1 DEF Queued
    <3> QED BY <1>1, <2>1, <2>2, <3>5, <3>6
  <2>4. CASE Recovering(p, o)
    <3>1. o.do = "recover" /\ o \in Recovers /\ o.rows = rows /\ o.lines = lines /\ o.orphans \subseteq Jobs
      BY <2>4 DEF Recovering, Recovers
    <3>2. \A k \in o.orphans : rows[k] # "absent"
      BY <2>4 DEF Recovering, StartOrphans, StartupStatuses
    <3>3. \A k \in o.orphans : k <= joined
      BY <3>1, <3>2 DEF Upto, RowsUpto
    <3>4. /\ op'[p].do = "recover" /\ op'[p].rows = rows /\ op'[p].lines = lines
          /\ \A k \in op'[p].orphans : k <= joined'
      BY <2>1, <3>1, <3>3
    <3>5. RowsUpto(op[p].rows)' /\ LinesUpto(op[p].lines)'
      BY <2>1, <3>4 DEF Upto, RowsUpto, LinesUpto
    <3>6. OpUpto(op[p])'
      BY <3>4, <3>5 DEF OpUpto
    <3>7. Queued' = Queued
      BY <2>1 DEF Queued
    <3> QED BY <1>1, <2>1, <2>2, <3>6, <3>7
  <2> QED BY <1>3, <2>3, <2>4
<1>4. CASE Join
  <2> DEFINE j == joined + 1
  <2>1. /\ j \in Jobs /\ op'["daemon"] = [do |-> "enqueue", job |-> j, rows |-> rows]
        /\ op'["worker"] = op["worker"] /\ lines' = Append(lines, j) /\ joined' = j
        /\ UNCHANGED <<rows, task, todo>>
    BY <1>4, JoinBegun DEF Join, worker
  <2>2. joined <= joined' /\ ~ (j <= joined)
    BY <1>0, <2>1
  <2>3. \A k \in Jobs : k <= joined => k <= joined'
    BY <1>0, <2>1
  <2>4. RowsUpto(rows)'
    BY <2>1, <2>3 DEF Upto, RowsUpto
  <2>5. LinesUpto(lines)'
    <3>1. lines \in Seq(Jobs) /\ \A i \in DOMAIN lines : lines[i] \in Jobs
      BY DEF MeetTypeOK, Lines
    <3>2. \A i \in DOMAIN lines : lines[i] <= joined'
      BY <2>3, <3>1 DEF Upto, LinesUpto
    <3>3. joined' = j /\ j \in Nat /\ j <= j /\ lines' = Append(lines, j)
      BY <1>0, <2>1
    <3> HIDE DEF j
    <3>4. \A i \in DOMAIN lines' : lines'[i] = j \/ (i \in DOMAIN lines /\ lines'[i] = lines[i])
      BY <3>1, <3>3
    <3> QED BY <3>2, <3>3, <3>4 DEF LinesUpto
  <2>6. rows[j] = "absent"
    BY <2>1, <2>2 DEF Upto, RowsUpto
  <2>7. OpUpto(op["daemon"])'
    <3> DEFINE o == [do |-> "enqueue", job |-> j, rows |-> rows]
    <3>1. o.do = "enqueue" /\ o.job = j /\ o.rows = rows
      OBVIOUS
    <3>2. joined' <= joined' /\ \A k \in Jobs : rows[k] # "absent" => k <= joined'
      BY <1>0, <2>3 DEF Upto, RowsUpto
    <3> HIDE DEF o, j
    <3> QED BY <2>1, <2>6, <3>1, <3>2 DEF OpUpto, RowsUpto, o
  <2>8. OpUpto(op["worker"])'
    BY <1>0, <2>1, <2>2, OpUptoKept DEF Upto
  <2>9. \A s \in Slots : task'[s].job <= joined'
    <3> SUFFICES ASSUME NEW s \in Slots PROVE task[s].job <= joined'
      BY <2>1
    <3>1. task[s].job <= joined
      BY DEF Upto
    <3>2. task[s].job \in Jobs \cup {0}
      BY DEF MeetTypeOK
    <3>3. task[s].job \in Nat
      <4>1. Jobs \cup {0} \subseteq Nat
        BY <1>0
      <4> QED BY <3>2, <4>1
    <3>4. joined' = joined + 1
      BY <2>1
    <3> QED BY <1>0, <3>1, <3>3, <3>4
  <2>10. \A p \in Procs : \A k \in todo'[p] : k <= joined'
    <3> SUFFICES ASSUME NEW p \in Procs, NEW k \in todo[p] PROVE k <= joined'
      BY <2>1
    <3>1. k \in Jobs /\ k <= joined
      BY DEF Upto, MeetTypeOK
    <3> QED BY <2>3, <3>1
  <2> QED BY <1>0, <2>4, <2>5, <2>7, <2>8, <2>9, <2>10 DEF Upto
<1>5. ASSUME NEW p \in Procs, Over(p), UNCHANGED <<joined, todo>>,
             \A s \in Slots : task'[s].job = task[s].job \/ task'[s].job <= joined,
             \A j \in Jobs : rows'[j] # "absent" => j <= joined,
             \A j \in Queued' : j <= joined
      PROVE  Upto'
  <2>1. \A q \in Procs : OpUpto(op[q])'
    BY <1>0, <1>5, OpUptoKept DEF Over, Upto
  <2>2. LinesUpto(lines)'
    BY <1>5, QueuedLines DEF MeetTypeOK
  <2>3. RowsUpto(rows)'
    BY <1>5 DEF RowsUpto
  <2>4. (\A s \in Slots : task'[s].job <= joined') /\ \A q \in Procs : \A j \in todo'[q] : j <= joined'
    BY <1>5 DEF Upto
  <2> QED BY <2>1, <2>2, <2>3, <2>4 DEF Upto
<1>6. \A j \in Queued : j <= joined
  BY QueuedLines DEF Upto, MeetTypeOK
<1>7. CASE JoinWrite
  <2> DEFINE o == op["daemon"]
  <2>1. /\ Over("daemon") /\ o \in Enqueues /\ o.do = "enqueue" /\ OpUpto(o)
        /\ UNCHANGED <<lines, joined, todo, task>>
    BY <1>0, <1>7, Writes DEF Upto
  <2>2. \A j \in Jobs : rows'[j] # "absent" => j <= joined
    BY <1>7, <2>1 DEF JoinWrite, WriteRows, Enqueues, OpUpto, RowsUpto
  <2> QED BY <1>0, <1>5, <1>6, <2>1, <2>2 DEF Queued
<1>8. CASE ClaimedWrite
  <2> DEFINE o == op["worker"]
  <2>1. /\ Over("worker") /\ o \in Claimed /\ o.do = "claimed" /\ OpUpto(o)
        /\ UNCHANGED <<lines, joined, todo>>
    BY <1>0, <1>8, Writes DEF Upto
  <2>2. /\ o.slot \in Slots /\ o.job \in Jobs /\ task'[o.slot] = [job |-> o.job, at |-> "claimed"]
        /\ \A s \in Slots : s # o.slot => task'[s] = task[s]
        /\ \A j \in Jobs : j # o.job => rows'[j] = IF Superseded(o, j) THEN "skipped" ELSE o.rows[j]
    BY <1>8, Ran
  <2>3. /\ o.job <= joined /\ (\A k \in o.dropped : k <= joined)
        /\ \A j \in Jobs : o.rows[j] # "absent" => j <= joined
    BY <2>1 DEF OpUpto, RowsUpto
  <2> HIDE DEF o
  <2>4. \A j \in Jobs : rows'[j] # "absent" => j <= joined
    BY <2>2, <2>3 DEF Superseded
  <2>5. \A s \in Slots : task'[s].job = task[s].job \/ task'[s].job <= joined
    BY <2>2, <2>3
  <2> QED BY <1>0, <1>5, <1>6, <2>1, <2>4, <2>5 DEF Queued
<1>9. ASSUME NEW p \in Procs, RecoveryWrite(p) PROVE Upto'
  <2> DEFINE o == op[p]
             again == {j \in o.orphans : Recovered(o)[j] = "queued"}
  <2>1. /\ Over(p) /\ o \in Recovers /\ o.do = "recover" /\ OpUpto(o)
        /\ UNCHANGED <<joined, todo, task>>
    BY <1>9, Writes DEF Upto
  <2>2. (\A k \in o.orphans : k <= joined) /\ RowsUpto(o.rows) /\ LinesUpto(o.lines)
    BY <2>1 DEF OpUpto
  <2>3. \A j \in Jobs : rows'[j] # "absent" => j <= joined
    BY <1>9, <2>1, <2>2, RowsRecovered DEF RecoveryWrite, RowsUpto
  <2>4. PICK q \in SetToSeqs(again) : lines' = o.lines \o q
    BY <1>9 DEF RecoveryWrite
  <2>5. o.lines \in Seq(Jobs) /\ again \subseteq Jobs /\ \A k \in again : k <= joined
    BY <2>1, <2>2 DEF Recovers, Lines
  <2>6. IsFiniteSet(Jobs)
    BY JobNumbers, FS_Interval DEF Jobs
  <2>7. IsFiniteSet(again)
    BY <2>5, <2>6, FS_Subset
  <2> HIDE DEF again, o
  <2>8. q \in Seq(again)
    BY <2>7, Arranged
  <2>9. q \in Seq(Jobs) /\ \A i \in DOMAIN q : q[i] \in again
    BY <2>5, <2>8
  <2>10. \A i \in DOMAIN lines' : \/ i \in DOMAIN o.lines /\ lines'[i] = o.lines[i]
                                  \/ \E n \in DOMAIN q : lines'[i] = q[n]
    BY <2>4, <2>5, <2>9, Joined
  <2>11. \A i \in DOMAIN lines' : lines'[i] <= joined
    BY <2>2, <2>5, <2>9, <2>10 DEF LinesUpto
  <2> QED BY <1>5, <2>1, <2>3, <2>11 DEF Queued
<1>10. ASSUME NEW p \in Procs, UpdateWrite(p) PROVE Upto'
  <2> DEFINE o == op[p]
  <2>1. /\ Over(p) /\ o \in Updates /\ o.do = "update" /\ OpUpto(o)
        /\ UNCHANGED <<lines, joined, todo>>
    BY <1>10, Writes DEF Upto
  <2>2. \A j \in Jobs : rows'[j] # "absent" => j <= joined
    BY <1>10, <2>1 DEF UpdateWrite, WriteRows, Updates, OpUpto, RowsUpto
  <2>3. \A s \in Slots : task'[s].job = task[s].job
    BY <1>10 DEF UpdateWrite, MeetTypeOK
  <2> QED BY <1>5, <1>6, <2>1, <2>2, <2>3 DEF Queued
<1>11. ASSUME NEW s \in Slots, Claim(s) PROVE Upto'
  <2>1. /\ op'["worker"] = [do |-> "claim", slot |-> s, lines |-> lines]
        /\ op'["daemon"] = op["daemon"]
        /\ UNCHANGED <<rows, lines, joined, todo, task>>
    BY <1>11, Takes
  <2>2. op'["worker"].do = "claim" /\ op'["worker"].lines = lines
    BY <2>1
  <2>3. OpUpto(op["worker"])'
    BY <2>1, <2>2 DEF OpUpto, Upto, LinesUpto
  <2>4. OpUpto(op["daemon"])'
    BY <1>0, <2>1, OpUptoKept DEF Upto
  <2>5. Queued' = Queued /\ \A p \in Procs : OpUpto(op[p])'
    BY <1>0, <2>1, <2>3, <2>4 DEF Queued
  <2> QED BY <1>1, <2>1, <2>5
<1>12. CASE ClaimWrite
  <2> DEFINE o == op["worker"]
             c == op'["worker"]
  <2>1. /\ o.do = "claim" /\ c \in Claimed /\ c.do = "claimed" /\ c.rows = rows /\ c.job \in c.dropped
        /\ \A k \in c.dropped : \E i \in DOMAIN o.lines : o.lines[i] = k
        /\ \A i \in DOMAIN lines' : \E k \in DOMAIN o.lines : lines'[i] = o.lines[k]
        /\ op'["daemon"] = op["daemon"]
    BY <1>12, ClaimWritten DEF Shapes
  <2>2. UNCHANGED <<rows, joined, todo, task>>
    BY <1>12 DEF ClaimWrite, worker, daemon
  <2>3. \A i \in DOMAIN o.lines : o.lines[i] <= joined
    BY <1>0, <2>1 DEF Upto, OpUpto, LinesUpto
  <2>4. \A k \in c.dropped : k <= joined
    BY <2>1, <2>3
  <2>5. OpUpto(op["worker"])'
    BY <2>1, <2>2, <2>4 DEF OpUpto, Upto, RowsUpto
  <2>6. OpUpto(op["daemon"])'
    BY <1>0, <2>1, <2>2, OpUptoKept DEF Upto
  <2>7. LinesUpto(lines)'
    BY <2>1, <2>2, <2>3 DEF LinesUpto
  <2> QED BY <1>0, <2>2, <2>5, <2>6, <2>7 DEF Upto, RowsUpto
<1>13. ASSUME NEW s \in Slots, EndTask(s) PROVE Upto'
  <2>1. task' = [task EXCEPT ![s] = NoTask] /\ UNCHANGED <<rows, lines, joined, op, todo>>
    BY <1>13, Frees
  <2>2. \A t \in Slots : task'[t].job = task[t].job \/ task'[t].job <= joined'
    <3>1. NoTask.job = 0 /\ 0 <= joined'
      BY <1>0 DEF NoTask
    <3>2. \A t \in Slots : task'[t] = task[t] \/ task'[t] = NoTask
      BY <2>1 DEF MeetTypeOK
    <3> QED BY <3>1, <3>2
  <2>3. \A p \in Procs : OpUpto(op[p])'
    BY <1>0, <2>1, OpUptoKept DEF Upto
  <2>4. Queued' = Queued
    BY <2>1 DEF Queued
  <2> QED BY <1>1, <2>1, <2>2, <2>3, <2>4
<1>14. ASSUME NEW p \in Procs, MeetCrash(p) PROVE Upto'
  <2>1. Over(p) /\ UNCHANGED <<rows, lines, joined>>
    BY <1>14, Writes
  <2>2. \A q \in Procs : OpUpto(op[q])'
    BY <1>0, <2>1, OpUptoKept DEF Upto, Over
  <2>3. \A s \in Slots : task'[s].job = task[s].job \/ task'[s].job <= joined'
    <3>1. NoTask.job = 0 /\ 0 <= joined'
      BY <1>0 DEF NoTask
    <3>2. \A t \in Slots : task'[t] = task[t] \/ task'[t] = NoTask
      BY <1>14 DEF MeetCrash, worker
    <3> QED BY <3>1, <3>2
  <2>4. \A q \in Procs : \A j \in todo'[q] : j \in todo[q]
    BY <1>14 DEF MeetCrash, MeetTypeOK
  <2>5. Queued' = Queued
    BY <2>1 DEF Queued
  <2> QED BY <1>1, <2>1, <2>2, <2>3, <2>4, <2>5
<1> QED
  BY Moves, <1>2, <1>3, <1>4, <1>7, <1>8, <1>9, <1>10, <1>11, <1>12, <1>13, <1>14

-----------------------------------------------------------------------------
(* What a write does when nothing was lost, which is what its operation     *)
(* read is still there.                                                     *)

LEMMA JoinWrote ==
  ASSUME MeetTypeOK, Upto, JoinWrite, ~ lost'
  PROVE  LET o == op["daemon"]
         IN /\ ~ lost /\ o.do = "enqueue" /\ o.job \in Jobs
            /\ rows[o.job] = "absent" /\ rows'[o.job] = "queued"
            /\ \A j \in Jobs : j # o.job => rows'[j] = rows[j]
<1> DEFINE o == op["daemon"]
<1>1. o \in Enqueues /\ o.do = "enqueue"
  BY Writes
<1>2. o.rows[o.job] = "absent"
  BY <1>1 DEF Upto, OpUpto, Procs
<1>3. ~ lost /\ rows = o.rows
  <2>1. lost' = (lost \/ rows # o.rows)
    BY DEF JoinWrite, WriteRows
  <2> QED BY <2>1
<1>4. rows' = [o.rows EXCEPT ![o.job] = "queued"] /\ o.rows \in [Jobs -> JobStatuses] /\ o.job \in Jobs
  BY <1>1 DEF JoinWrite, WriteRows, Enqueues, Rows
<1> QED BY <1>1, <1>2, <1>3, <1>4

LEMMA RecoveryWrote ==
  ASSUME MeetTypeOK, Shapes, Alive, NEW p \in Procs, RecoveryWrite(p), ~ lost'
  PROVE  /\ ~ lost /\ op[p].do = "recover" /\ lines' = lines
         /\ op[p].orphans = StartOrphans(rows)
         /\ \A j \in Jobs : IF rows[j] \in StartupStatuses THEN rows'[j] \in {"failed", "interrupted"}
                            ELSE rows'[j] = rows[j]
<1> DEFINE o == op[p]
<1>1. o \in Recovers /\ o.do = "recover"
  BY Writes
<1>2. ~ lost /\ rows = o.rows /\ lines = o.lines
  <2>1. lost' = (lost \/ rows # o.rows \/ lines # o.lines)
    BY DEF RecoveryWrite
  <2> QED BY <2>1
<1>3. o.start /\ o.orphans = StartOrphans(rows)
  BY <1>1, <1>2 DEF Alive, Shapes, RecoverShaped
<1>4. \A j \in Jobs : j \in o.orphans <=> rows[j] \in StartupStatuses
  BY <1>3 DEF StartOrphans
<1>5. \A j \in Jobs : IF j \in o.orphans THEN rows'[j] \in {"failed", "interrupted"} ELSE rows'[j] = rows[j]
  BY <1>1, <1>2, <1>3, RowsRecovered DEF RecoveryWrite
<1>6. lines' = lines
  <2> DEFINE again == {j \in o.orphans : Recovered(o)[j] = "queued"}
  <2>1. PICK q \in SetToSeqs(again) : lines' = o.lines \o q
    BY DEF RecoveryWrite
  <2>2. again = {}
    BY <1>1, <1>3, RowsRecovered DEF Recovers
  <2>3. IsFiniteSet(again)
    BY <2>2, FS_EmptySet
  <2> HIDE DEF again
  <2>4. q \in Seq(again)
    BY <2>3, Arranged
  <2>5. q = <<>>
    BY <2>2, <2>4
  <2>6. lines \in Seq(Jobs)
    BY DEF MeetTypeOK, Lines
  <2> QED BY <1>2, <2>1, <2>5, <2>6
<1> QED BY <1>1, <1>2, <1>3, <1>4, <1>5, <1>6

LEMMA UpdateWrote ==
  ASSUME MeetTypeOK, Shapes, Fresh, NEW p \in Procs, UpdateWrite(p), ~ lost'
  PROVE  LET o == op[p]
         IN /\ ~ lost /\ o.do = "update" /\ o.job \in Jobs
            /\ ~ Waiting(rows, o.job) /\ rows'[o.job] = o.to /\ o.to \notin {"queued", "absent"}
            /\ \A j \in Jobs : j # o.job => rows'[j] = rows[j]
            /\ o.slot = NoSlot => /\ o.to \in Settled /\ task' = task
                                  /\ Live(o.job) => o.job \in meddled'
            /\ meddled \subseteq meddled'
            /\ \A s \in Slots : task'[s].job = task[s].job
<1> DEFINE o == op[p]
<1>1. o \in Updates /\ o.do = "update"
  BY Writes
<1>2. ~ lost /\ rows = o.rows
  <2>1. lost' = (lost \/ rows # o.rows)
    BY DEF UpdateWrite, WriteRows
  <2> QED BY <2>1
<1>3. ~ Waiting(rows, o.job)
  BY <1>1, <1>2 DEF Fresh
<1>4. rows' = [o.rows EXCEPT ![o.job] = o.to] /\ o.rows \in [Jobs -> JobStatuses] /\ o.job \in Jobs
  BY <1>1 DEF UpdateWrite, WriteRows, Updates, Rows
<1>5. o.slot = NoSlot => o.to \in Settled /\ task' = task
  BY <1>1 DEF UpdateWrite, Shapes, UpdateShaped
<1>6. o.to \notin {"queued", "absent"}
  <2>1. CASE o.slot = NoSlot
    BY <1>5, <2>1 DEF Settled, TerminalCovered
  <2>2. CASE o.slot # NoSlot
    <3>1. o.to \in NextStatuses(task[o.slot].at)
      BY <1>1, <2>2 DEF Shapes, UpdateShaped
    <3> HIDE DEF o
    <3> QED BY <3>1, StageStatuses
  <2> QED BY <2>1, <2>2
<1>7. \A s \in Slots : task'[s].job = task[s].job
  BY DEF UpdateWrite, MeetTypeOK
<1>8. meddled \subseteq meddled' /\ (o.slot = NoSlot /\ Live(o.job) => o.job \in meddled')
  BY DEF UpdateWrite
<1> QED BY <1>1, <1>2, <1>3, <1>4, <1>5, <1>6, <1>7, <1>8

LEMMA ClaimWrote ==
  ASSUME MeetTypeOK, Shapes, ClaimWrite, ~ lost'
  PROVE  LET c == op'["worker"]
         IN /\ ~ lost /\ op["worker"].do = "claim" /\ c \in Claimed /\ c.do = "claimed" /\ c.rows = rows
            /\ c.job \in c.dropped /\ c.dropped \subseteq Queued
            /\ \A k \in c.dropped : Link[k] = Link[c.job]
            /\ Queued' \subseteq Queued /\ \A k \in Queued' : Link[k] # Link[c.job]
            /\ Queued \subseteq Queued' \cup c.dropped
            /\ op'["daemon"] = op["daemon"]
            /\ UNCHANGED <<rows, joined, phase, todo, task, free, inFlight, meddled, deaths>>
<1> DEFINE o == op["worker"]
           c == op'["worker"]
<1>1. /\ o.do = "claim" /\ c \in Claimed /\ c.do = "claimed" /\ c.rows = rows /\ c.job \in c.dropped
      /\ \A k \in c.dropped : Link[k] = Link[c.job] /\ \E i \in DOMAIN o.lines : o.lines[i] = k
      /\ \A i \in DOMAIN o.lines : Link[o.lines[i]] = Link[c.job] => o.lines[i] \in c.dropped
      /\ \A i \in DOMAIN lines' : \E k \in DOMAIN o.lines :
           lines'[i] = o.lines[k] /\ Link[o.lines[k]] # Link[c.job]
      /\ \A k \in DOMAIN o.lines :
           Link[o.lines[k]] # Link[c.job] => \E i \in DOMAIN lines' : lines'[i] = o.lines[k]
      /\ op'["daemon"] = op["daemon"]
  BY ClaimWritten DEF Shapes
<1>2. ~ lost /\ lines = o.lines
  <2>1. lost' = (lost \/ lines # o.lines)
    BY DEF ClaimWrite
  <2> QED BY <2>1
<1>3. UNCHANGED <<rows, joined, phase, todo, task, free, inFlight, meddled, deaths>>
  BY DEF ClaimWrite, daemon, worker
<1>4. c.dropped \subseteq Queued
  BY <1>1, <1>2 DEF Queued
<1>5. Queued' \subseteq Queued /\ \A k \in Queued' : Link[k] # Link[c.job]
  BY <1>1, <1>2 DEF Queued
<1>6. Queued \subseteq Queued' \cup c.dropped
  BY <1>1, <1>2 DEF Queued
<1> QED BY <1>1, <1>2, <1>3, <1>4, <1>5, <1>6

(* A claim takes the claimed job and the waiting ones of its link.          *)
LEMMA ClaimedWrote ==
  ASSUME MeetTypeOK, SlotsKept, Claiming, ClaimShaped, ClaimedWrite, ~ lost'
  PROVE  LET o == op["worker"]
         IN /\ ~ lost /\ o.do = "claimed" /\ o \in Claimed /\ ~ Live(o.job)
            /\ o.slot \in Slots /\ o.job \in Jobs /\ o.job # 0 /\ task[o.slot] = NoTask
            /\ task'[o.slot] = [job |-> o.job, at |-> "claimed"]
            /\ \A s \in Slots : s # o.slot => task'[s] = task[s]
            /\ inFlight'[o.job] = o.slot
            /\ \A j \in Jobs : j # o.job => inFlight'[j] = inFlight[j]
            /\ rows'[o.job] = "running" /\ Waiting(rows, o.job) /\ o.job \notin Queued
            /\ \A j \in Jobs : j # o.job =>
                 \/ rows'[j] = rows[j] /\ j \notin o.dropped
                 \/ /\ rows'[j] = "skipped" /\ Waiting(rows, j) /\ j \notin Queued
                    /\ j \in o.dropped \/ rows[j] = "queued"
<1> DEFINE o == op["worker"]
<1>1. o \in Claimed /\ o.do = "claimed"
  BY Writes
<1>2. ~ lost /\ rows = o.rows
  <2>1. lost' = (lost \/ rows # o.rows)
    BY DEF ClaimedWrite, WriteRows
  <2> QED BY <2>1
<1>3. /\ o.slot \in Slots /\ o.job \in Jobs /\ o.job # 0
      /\ task'[o.slot] = [job |-> o.job, at |-> "claimed"]
      /\ \A s \in Slots : s # o.slot => task'[s] = task[s]
      /\ inFlight'[o.job] = o.slot
      /\ \A j \in Jobs : j # o.job => inFlight'[j] = inFlight[j]
      /\ rows'[o.job] = "running"
      /\ \A j \in Jobs : j # o.job => rows'[j] = IF Superseded(o, j) THEN "skipped" ELSE o.rows[j]
  BY Ran
<1>4. task[o.slot] = NoTask
  BY <1>1, <1>3 DEF SlotsKept, Held, Busy
<1>5. /\ o.job \in o.dropped /\ \A k \in o.dropped : Link[k] = Link[o.job]
      /\ ~ Live(o.job)
      /\ \A j \in o.dropped : Waiting(rows, j) /\ j \notin Queued
      /\ \A k \in Queued : Link[k] = Link[o.job] => rows[k] = "absent" /\ k \notin o.dropped
  BY <1>1, <1>2 DEF ClaimShaped, Claiming
<1> HIDE DEF o
<1>6. ASSUME NEW j \in Jobs, j # o.job
      PROVE  \/ rows'[j] = rows[j] /\ j \notin o.dropped
             \/ /\ rows'[j] = "skipped" /\ Waiting(rows, j) /\ j \notin Queued
                /\ j \in o.dropped \/ rows[j] = "queued"
  <2>1. CASE Superseded(o, j)
    <3>1. rows'[j] = "skipped"
      BY <1>3, <1>6, <2>1
    <3>2. Link[j] = Link[o.job] /\ (rows[j] = "queued" \/ j \in o.dropped)
      BY <1>2, <2>1 DEF Superseded
    <3>3. j \notin Queued /\ Waiting(rows, j)
      BY <1>5, <3>2 DEF Waiting
    <3> QED BY <3>1, <3>2, <3>3
  <2>2. CASE ~ Superseded(o, j)
    <3>1. rows'[j] = rows[j]
      BY <1>2, <1>3, <1>6, <2>2
    <3>2. j \notin o.dropped
      BY <1>2, <1>5, <1>6, <2>2 DEF Superseded, Waiting
    <3> QED BY <3>1, <3>2
  <2> QED BY <2>1, <2>2
<1> QED BY <1>1, <1>2, <1>3, <1>4, <1>5, <1>6 DEF o

-----------------------------------------------------------------------------
(* As long as nothing was lost.                                             *)

LEMMA Free1 == Procs = {"daemon", "worker"} /\ Free.do = "nothing" /\ NoTask.job = 0
BY DEF Procs, Free, NoTask

(* A step that leaves rows, lines and running tasks alone.                  *)
LEMMA UnlostKept ==
  ASSUME MeetTypeOK, Owned, Fresh, Claiming, Alive,
         UNCHANGED <<rows, lines, task>>, NEW p \in Procs,
         \A s \in Slots : task[s].job # 0 => inFlight'[task[s].job] = s,
         \A q \in Procs : q # p => op'[q] = op[q],
         op'[p] # op[p] => op'[p].do # "claimed"
                           /\ (op'[p].do = "update" => ~ Waiting(op'[p].rows, op'[p].job))
                           /\ (op'[p].do = "recover" => op'[p].start),
         \A q \in Procs : \A j \in todo'[q] : j \in todo[q] \/ ~ Waiting(rows, j),
         Ready' => Ready \/ StartOrphans(rows) = {}
  PROVE  Owned' /\ Fresh' /\ Claiming' /\ Alive'
<1>1. Queued' = Queued /\ \A j : Live(j)' <=> Live(j)
  BY DEF Queued, Live
<1>2. Owned'
  BY <1>1 DEF Owned, Waiting
<1>3. Fresh'
  <2>1. \A j \in Queued' : Waiting(rows, j)'
    BY <1>1 DEF Fresh, Waiting
  <2>2. \A q \in Procs : \A j \in todo'[q] : ~ Waiting(rows, j)'
    BY DEF Fresh, Waiting
  <2>3. \A q \in Procs : op'[q].do = "update" => ~ Waiting(op'[q].rows, op'[q].job)
    BY DEF Fresh
  <2>4. \A q \in Procs : op'[q].do = "update" => ~ Waiting(op[q].rows, op[q].job)'
    BY <2>3 DEF Waiting
  <2> QED BY <2>1, <2>2, <2>4 DEF Fresh
<1>4. Claiming'
  <2> SUFFICES ASSUME op'["worker"].do = "claimed" PROVE Claiming'
    BY DEF Claiming
  <2>1. op'["worker"] = op["worker"]
    BY Free1
  <2> QED BY <1>1, <2>1 DEF Claiming, Waiting
<1>5. Alive'
  <2>1. Ready' => \A j \in Jobs : rows[j] \in StartupStatuses => Live(j)
    BY DEF Alive, Ready, StartOrphans
  <2>2. \A q \in Procs : op'[q].do = "recover" => op'[q].start
    BY DEF Alive
  <2> QED BY <1>1, <2>1, <2>2 DEF Alive, Ready
<1> QED BY <1>2, <1>3, <1>4, <1>5

LEMMA UnlostQuiet ==
  ASSUME MeetTypeOK, Owned, Fresh, Claiming, Alive, Quiet
  PROVE  Owned' /\ Fresh' /\ Claiming' /\ Alive'
<1>1. /\ UNCHANGED <<rows, lines, task, op>>
      /\ Ready' => Ready \/ StartOrphans(rows) = {}
  BY DEF Quiet
<1>2. \A s \in Slots : task[s].job # 0 => inFlight'[task[s].job] = s
  BY DEF Quiet, Owned
<1>3. ASSUME NEW q \in Procs, NEW j \in todo'[q]
      PROVE  j \in todo[q] \/ ~ Waiting(rows, j)
  <2>1. todo'[q] \subseteq todo[q] \cup {k \in Jobs : rows[k] = "interrupted"}
    BY DEF Quiet
  <2> QED BY <2>1 DEF Waiting
<1> QED BY <1>1, <1>2, <1>3, Free1, UnlostKept

LEMMA UnlostBegins ==
  ASSUME MeetTypeOK, Owned, Fresh, Claiming, Alive,
         NEW p \in Procs, NEW o \in Operations, Begins(p, o), Updating(p, o) \/ Recovering(p, o)
  PROVE  Owned' /\ Fresh' /\ Claiming' /\ Alive'
<1>1. /\ UNCHANGED <<rows, lines, phase, task, inFlight>> /\ op'[p] = o
      /\ \A q \in Procs : q # p => op'[q] = op[q]
      /\ \A q \in Procs : todo'[q] \subseteq todo[q]
      /\ o.do \in {"update", "recover"}
  BY DEF Begins, Updating, Recovering
<1>2. o.do = "update" => ~ Waiting(o.rows, o.job)
  <2> SUFFICES ASSUME o.do = "update" PROVE ~ Waiting(rows, o.job)
    BY DEF Updating, Recovering
  <2>1. Updating(p, o) /\ o \in Updates
    BY DEF Updating, Recovering
  <2>2. CASE o.slot = NoSlot
    BY <2>1, <2>2 DEF Updating, Fresh
  <2>3. CASE o.slot # NoSlot
    <3>1. o.slot \in Slots /\ task[o.slot].job = o.job /\ o.job # 0
      BY <2>1, <2>3, JobNumbers DEF Updating, Updates
    <3> QED BY <3>1 DEF Owned
  <2> QED BY <2>2, <2>3
<1>3. o.do = "recover" => o.start
  <2> SUFFICES ASSUME o.do = "recover", ~ o.start PROVE FALSE
    OBVIOUS
  <2>1. Recovering(p, o)
    BY DEF Updating, Recovering
  <2>2. PICK j \in o.orphans : rows[j] \in {"running", "finalizing"} /\ inFlight[j] = NoSlot
    BY <2>1 DEF Recovering
  <2>3. j \in Jobs /\ Ready
    BY <2>1 DEF Recovering, Recovers
  <2>4. Live(j)
    BY <2>2, <2>3 DEF Ready, Alive, StartupStatuses
  <2>5. PICK s \in Slots : task[s].job = j
    BY <2>4 DEF Live
  <2>6. inFlight[j] = s
    BY <2>3, <2>5, JobNumbers DEF Owned
  <2> QED BY <2>2, <2>6, JobNumbers
<1>4. \A s \in Slots : task[s].job # 0 => inFlight'[task[s].job] = s
  BY <1>1 DEF Owned
<1>5. Ready' => Ready
  BY <1>1 DEF Ready
<1>6. \A q \in Procs : \A j \in todo'[q] : j \in todo[q] \/ ~ Waiting(rows, j)
  BY <1>1
<1>7. op'[p].do # "claimed"
      /\ (op'[p].do = "update" => ~ Waiting(op'[p].rows, op'[p].job))
      /\ (op'[p].do = "recover" => op'[p].start)
  BY <1>1, <1>2, <1>3
<1> HIDE DEF Ready, Waiting
<1> QED BY <1>1, <1>4, <1>5, <1>6, <1>7, UnlostKept

LEMMA UnlostClaim ==
  ASSUME MeetTypeOK, Owned, Fresh, Claiming, Alive, NEW s \in Slots, Claim(s)
  PROVE  Owned' /\ Fresh' /\ Claiming' /\ Alive'
<1>1. /\ op'["worker"] = [do |-> "claim", slot |-> s, lines |-> lines]
      /\ op'["daemon"] = op["daemon"]
      /\ UNCHANGED <<rows, lines, phase, todo, task, inFlight>>
  BY Takes
<1>2. op'["worker"].do = "claim" /\ \A q \in Procs : q # "worker" => op'[q] = op[q]
  BY <1>1, Free1
<1>3. \A t \in Slots : task[t].job # 0 => inFlight'[task[t].job] = t
  BY <1>1 DEF Owned
<1>4. Ready' => Ready
  BY <1>1 DEF Ready
<1>5. \A q \in Procs : \A j \in todo'[q] : j \in todo[q] \/ ~ Waiting(rows, j)
  BY <1>1
<1> QED BY <1>1, <1>2, <1>3, <1>4, <1>5, Free1, UnlostKept

LEMMA UnlostCrash ==
  ASSUME MeetTypeOK, Owned, Fresh, Claiming, Alive, NEW p \in Procs, MeetCrash(p)
  PROVE  Owned' /\ Fresh' /\ Claiming' /\ Alive'
<1>1. /\ Over(p) /\ UNCHANGED <<rows, lines>>
      /\ p = "daemon" => UNCHANGED <<task, free, inFlight>>
  BY Writes
<1>2. phase' = [phase EXCEPT ![p] = "down"] /\ \A q \in Procs : todo'[q] \subseteq todo[q]
  BY DEF MeetCrash, MeetTypeOK
<1>3. op'[p] = Free /\ \A q \in Procs : q # p => op'[q] = op[q]
  BY <1>1 DEF Over
<1>4. CASE p = "daemon"
  <2>1. UNCHANGED <<task, inFlight>> /\ phase'["worker"] = phase["worker"]
    BY <1>1, <1>2, <1>4 DEF MeetTypeOK
  <2>2. \A t \in Slots : task[t].job # 0 => inFlight'[task[t].job] = t
    BY <2>1 DEF Owned
  <2>3. Ready' => Ready
    BY <2>1 DEF Ready
  <2>4. \A q \in Procs : \A j \in todo'[q] : j \in todo[q] \/ ~ Waiting(rows, j)
    BY <1>2
  <2>5. op'[p].do = "nothing"
    BY <1>3, Free1
  <2> QED BY <1>1, <1>3, <2>1, <2>2, <2>3, <2>4, <2>5, UnlostKept
<1>5. CASE p = "worker"
  <2>1. /\ task' = [s \in Slots |-> NoTask] /\ phase'["worker"] = "down"
        /\ op'["worker"].do = "nothing" /\ \A q \in Procs : op'[q].do = "nothing" \/ op'[q] = op[q]
    BY <1>2, <1>3, <1>5, Free1 DEF MeetCrash, MeetTypeOK
  <2>2. Owned'
    BY <2>1, Free1 DEF Owned
  <2>3. Fresh'
    <3>1. Queued' = Queued
      BY <1>1 DEF Queued
    <3> QED BY <1>1, <1>2, <2>1, <3>1 DEF Fresh, Waiting
  <2>4. Claiming' /\ Alive'
    BY <2>1 DEF Claiming, Alive
  <2> QED BY <2>2, <2>3, <2>4
<1> QED BY <1>4, <1>5, Free1

(* A step that rewrites rows and leaves the lines alone: a waiting row keeps *)
(* waiting while its job has a line, a row that does not wait does not      *)
(* begin to.                                                                *)
LEMMA FreshKept ==
  ASSUME Fresh, NEW p \in Procs, Over(p), UNCHANGED todo, todo \in [Procs -> SUBSET Jobs],
         Queued' \subseteq Queued, Queued \subseteq Jobs,
         \A j \in Queued' : Waiting(rows, j) => Waiting(rows, j)',
         \A j \in Jobs : ~ Waiting(rows, j) => ~ Waiting(rows, j)'
  PROVE  Fresh'
<1>1. \A j \in Queued' : Waiting(rows, j)'
  BY DEF Fresh
<1>2. \A q \in Procs : \A j \in todo'[q] : ~ Waiting(rows, j)'
  BY DEF Fresh
<1>3. ASSUME NEW q \in Procs, op'[q].do = "update" PROVE ~ Waiting(op[q].rows, op[q].job)'
  <2>1. op'[q] = op[q]
    BY <1>3, Free1 DEF Over
  <2> QED BY <1>3, <2>1 DEF Fresh, Waiting
<1> QED BY <1>1, <1>2, <1>3 DEF Fresh

LEMMA ClaimingKept ==
  ASSUME MeetTypeOK, Claiming, NEW p \in Procs, Over(p), UNCHANGED lines,
         \A s \in Slots : task'[s].job = task[s].job,
         \A j \in Jobs : Waiting(rows, j) => Waiting(rows, j)'
  PROVE  Claiming'
<1> SUFFICES ASSUME op'["worker"].do = "claimed" PROVE Claiming'
  BY DEF Claiming
<1>1. op'["worker"] = op["worker"] /\ op["worker"].do = "claimed"
  BY Free1 DEF Over
<1>2. op["worker"].dropped \subseteq Jobs
  BY <1>1, OpFields, Free1 DEF Claimed
<1>3. Queued' = Queued /\ \A j : Live(j)' <=> Live(j)
  BY DEF Queued, Live
<1>4. \A j \in op["worker"].dropped : Waiting(rows, j)'
  BY <1>1, <1>2 DEF Claiming
<1> QED BY <1>1, <1>3, <1>4 DEF Claiming, Waiting

LEMMA AliveKept ==
  ASSUME Alive, NEW p \in Procs, Over(p),
         Ready' => Ready \/ \A j \in Jobs : rows'[j] \notin StartupStatuses,
         Ready => \A j \in Jobs : rows'[j] \in StartupStatuses => Live(j)'
  PROVE  Alive'
<1>1. \A q \in Procs : op'[q].do = "recover" => op'[q].start
  BY Free1 DEF Alive, Over
<1> QED BY <1>1 DEF Alive, Ready

LEMMA OwnedKept ==
  ASSUME MeetTypeOK, Owned, UNCHANGED inFlight, Queued' \subseteq Queued,
         \A s \in Slots : task'[s].job = task[s].job,
         \A j \in Jobs : Live(j) /\ ~ Waiting(rows, j) => ~ Waiting(rows, j)',
         \A s \in Slots : task'[s].job # 0 /\ task'[s].at = "over"
            => \/ task[s].at = "over" /\ rows'[task[s].job] = rows[task[s].job]
               \/ rows'[task[s].job] \in Settled
  PROVE  Owned'
<1> SUFFICES ASSUME NEW s \in Slots, task'[s].job # 0
             PROVE  /\ inFlight'[task'[s].job] = s /\ task'[s].job \notin Queued' /\ ~ Waiting(rows, task[s].job)'
                    /\ task'[s].at = "over" => rows'[task'[s].job] \in Settled
  BY DEF Owned
<1>1. task'[s].job = task[s].job /\ task[s].job \in Jobs
  BY DEF MeetTypeOK
<1>2. /\ inFlight[task[s].job] = s /\ task[s].job \notin Queued /\ ~ Waiting(rows, task[s].job)
      /\ task[s].at = "over" => rows[task[s].job] \in Settled
  BY <1>1 DEF Owned
<1>3. Live(task[s].job)
  BY DEF Live
<1>4. rows'[task[s].job] \notin {"queued", "absent"}
  BY <1>1, <1>2, <1>3 DEF Waiting
<1> QED BY <1>1, <1>2, <1>4 DEF Waiting

LEMMA UnlostJoin ==
  ASSUME MeetTypeOK, Upto, Owned, Fresh, Claiming, Alive, Join
  PROVE  Owned' /\ Fresh' /\ Claiming' /\ Alive'
<1> DEFINE j0 == joined + 1
<1>1. /\ j0 \in Jobs /\ op'["daemon"] = [do |-> "enqueue", job |-> j0, rows |-> rows]
      /\ op'["worker"] = op["worker"] /\ lines' = Append(lines, j0)
      /\ UNCHANGED <<rows, task, todo, phase, inFlight>>
  BY JoinBegun DEF Join, worker
<1>2. ~ (j0 <= joined)
  BY DEF MeetTypeOK
<1>3. op'["daemon"].do = "enqueue"
  BY <1>1
<1> HIDE DEF j0
<1>4. rows[j0] = "absent" /\ \A s \in Slots : task[s].job # j0
  BY <1>1, <1>2 DEF Upto, RowsUpto
<1>5. Queued' = Queued \cup {j0} /\ \A j : Live(j)' <=> Live(j)
  <2>1. lines \in Seq(Jobs)
    BY DEF MeetTypeOK, Lines
  <2>2. DOMAIN lines' = DOMAIN lines \cup {Len(lines) + 1} /\ lines'[Len(lines) + 1] = j0
          /\ \A i \in DOMAIN lines : lines'[i] = lines[i]
    BY <1>1, <2>1
  <2>3. Queued' = Queued \cup {j0}
    BY <2>2 DEF Queued
  <2> QED BY <1>1, <2>3 DEF Live
<1>6. Owned'
  BY <1>1, <1>4, <1>5 DEF Owned, Waiting
<1>7. Fresh'
  <2>1. \A j \in Queued' : Waiting(rows, j)'
    BY <1>1, <1>4, <1>5 DEF Fresh, Waiting
  <2>2. \A q \in Procs : op'[q].do = "update" => op'[q] = op[q]
    BY <1>1, <1>3, Free1
  <2> QED BY <1>1, <2>1, <2>2 DEF Fresh, Waiting
<1>8. Claiming'
  <2> DEFINE o == op["worker"]
  <2> SUFFICES ASSUME o.do = "claimed" PROVE Claiming'
    BY <1>1 DEF Claiming
  <2>1. ~ Live(o.job) /\ \A j \in o.dropped : Waiting(rows, j) /\ Waiting(o.rows, j) /\ j \notin Queued
    BY DEF Claiming
  <2>2. \A k \in Queued : Link[k] = Link[o.job] => o.rows[k] = "absent" /\ k \notin o.dropped
    BY DEF Claiming
  <2>3. o.rows[j0] = "absent" /\ j0 \notin o.dropped
    BY <1>1, <1>2, Free1 DEF Upto, OpUpto, RowsUpto
  <2>4. /\ \A j \in o.dropped : j \notin Queued'
        /\ \A k \in Queued' : Link[k] = Link[o.job] => o.rows[k] = "absent" /\ k \notin o.dropped
    BY <1>5, <2>1, <2>2, <2>3
  <2> QED BY <1>1, <1>5, <2>1, <2>4 DEF Claiming, Waiting
<1>9. Alive'
  <2>1. \A q \in Procs : op'[q].do = "recover" => op'[q] = op[q]
    BY <1>1, <1>3, Free1
  <2> QED BY <1>1, <1>5, <2>1 DEF Alive
<1> QED BY <1>6, <1>7, <1>8, <1>9

LEMMA UnlostJoinWrite ==
  ASSUME MeetTypeOK, Upto, Owned, Fresh, Claiming, Alive, JoinWrite, ~ lost'
  PROVE  Owned' /\ Fresh' /\ Claiming' /\ Alive'
<1> DEFINE j0 == op["daemon"].job
<1>1. /\ Over("daemon") /\ "daemon" \in Procs
      /\ UNCHANGED <<lines, joined, phase, todo, loop, task, free, inFlight>>
  BY Writes, Free1
<1>2. /\ j0 \in Jobs /\ rows[j0] = "absent" /\ rows'[j0] = "queued"
      /\ \A j \in Jobs : j # j0 => rows'[j] = rows[j]
  BY JoinWrote
<1> HIDE DEF j0
<1>3. \A j \in Jobs : Waiting(rows, j)' <=> Waiting(rows, j)
  BY <1>2 DEF Waiting
<1>4. Queued' = Queued /\ Queued \subseteq Jobs /\ (\A j : Live(j)' <=> Live(j)) /\ todo \in [Procs -> SUBSET Jobs]
  BY <1>1, QueuedLines DEF Queued, Live, MeetTypeOK
<1>5. \A s \in Slots : task[s].job # 0 => rows'[task[s].job] = rows[task[s].job]
  BY <1>2 DEF Owned, Waiting, MeetTypeOK
<1>6. Owned'
  BY <1>1, <1>3, <1>4, <1>5, OwnedKept
<1>7. Fresh'
  BY <1>1, <1>3, <1>4, FreshKept
<1>8. Claiming'
  BY <1>1, <1>3, ClaimingKept
<1>9. Alive'
  <2>1. Ready' => Ready
    BY <1>1 DEF Ready
  <2>2. Ready => \A j \in Jobs : rows'[j] \in StartupStatuses => Live(j)'
    BY <1>2, <1>4 DEF Alive, Ready, StartupStatuses
  <2> QED BY <1>1, <2>1, <2>2, AliveKept
<1> QED BY <1>6, <1>7, <1>8, <1>9

LEMMA UnlostRecovery ==
  ASSUME MeetTypeOK, Shapes, Owned, Fresh, Claiming, Alive, NEW p \in Procs, RecoveryWrite(p), ~ lost'
  PROVE  Owned' /\ Fresh' /\ Claiming' /\ Alive'
<1>1. /\ Over(p) /\ UNCHANGED <<lines, todo, task, inFlight>>
      /\ \A j \in Jobs : IF rows[j] \in StartupStatuses THEN rows'[j] \in {"failed", "interrupted"}
                         ELSE rows'[j] = rows[j]
  BY Writes, RecoveryWrote
<1>2. \A j \in Jobs : Waiting(rows, j)' <=> Waiting(rows, j)
  BY <1>1 DEF Waiting, StartupStatuses
<1>3. Queued' = Queued /\ Queued \subseteq Jobs /\ todo \in [Procs -> SUBSET Jobs]
  BY <1>1, QueuedLines DEF Queued, MeetTypeOK
<1>4. \A s \in Slots : task[s].job # 0 /\ task[s].at = "over" => rows'[task[s].job] \in Settled
  <2>1. \A s \in Slots : task[s].job # 0 => task[s].job \in Jobs
    BY DEF MeetTypeOK
  <2>2. \A st \in Settled : st \notin StartupStatuses
    BY DEF Settled, TerminalCovered, StartupStatuses
  <2> QED BY <1>1, <2>1, <2>2 DEF Owned
<1>5. Owned'
  BY <1>1, <1>2, <1>3, <1>4, OwnedKept
<1>6. Fresh'
  BY <1>1, <1>2, <1>3, FreshKept
<1>7. Claiming'
  BY <1>1, <1>2, ClaimingKept
<1>8. Alive'
  <2>1. \A j \in Jobs : rows'[j] \notin StartupStatuses
    BY <1>1 DEF StartupStatuses
  <2> QED BY <1>1, <2>1, AliveKept
<1> QED BY <1>5, <1>6, <1>7, <1>8

LEMMA UnlostUpdate ==
  ASSUME MeetTypeOK, Shapes, Owned, Fresh, Claiming, Alive, NEW p \in Procs, UpdateWrite(p), ~ lost'
  PROVE  Owned' /\ Fresh' /\ Claiming' /\ Alive'
<1> DEFINE o == op[p]
<1>1. /\ Over(p) /\ o \in Updates /\ UNCHANGED <<lines, phase, todo, inFlight>>
  BY Writes
<1>2. /\ o.job \in Jobs /\ ~ Waiting(rows, o.job) /\ rows'[o.job] = o.to /\ o.to \notin {"queued", "absent"}
      /\ \A j \in Jobs : j # o.job => rows'[j] = rows[j]
      /\ o.slot = NoSlot => o.to \in Settled /\ task' = task
      /\ \A s \in Slots : task'[s].job = task[s].job
  BY UpdateWrote
<1>3. \A j \in Jobs : Waiting(rows, j)' <=> Waiting(rows, j)
  BY <1>2 DEF Waiting
<1>4. Queued' = Queued /\ Queued \subseteq Jobs /\ todo \in [Procs -> SUBSET Jobs] /\ \A j : Live(j)' <=> Live(j)
  BY <1>1, <1>2, QueuedLines DEF Queued, MeetTypeOK, Live
<1>5. o.slot # NoSlot =>
        /\ o.slot \in Slots /\ task[o.slot].job = o.job
        /\ \A s \in Slots : s # o.slot => task'[s] = task[s]
        /\ task'[o.slot].at = "over" => o.to \in Settled
  <2> SUFFICES ASSUME o.slot # NoSlot
               PROVE  /\ o.slot \in Slots /\ task[o.slot].job = o.job
                      /\ \A s \in Slots : s # o.slot => task'[s] = task[s]
                      /\ task'[o.slot].at = "over" => o.to \in Settled
    OBVIOUS
  <2> DEFINE at == IF o.to \in Settled THEN "over" ELSE o.to
  <2>1. /\ o.slot \in Slots /\ task[o.slot].job = o.job
        /\ \A s \in Slots : s # o.slot => task'[s] = task[s]
        /\ task'[o.slot] = [job |-> o.job, at |-> at]
        /\ o.to \in Settled <=> at = "over"
    BY Moved
  <2> HIDE DEF at, o
  <2> QED BY <2>1
<1> HIDE DEF o
<1>6. \A s \in Slots : task'[s].job # 0 /\ task'[s].at = "over"
        => \/ task[s].at = "over" /\ rows'[task[s].job] = rows[task[s].job]
           \/ rows'[task[s].job] \in Settled
  <2> SUFFICES ASSUME NEW s \in Slots, task'[s].job # 0, task'[s].at = "over"
               PROVE  \/ task[s].at = "over" /\ rows'[task[s].job] = rows[task[s].job]
                      \/ rows'[task[s].job] \in Settled
    OBVIOUS
  <2>1. task[s].job \in Jobs
    BY <1>2 DEF MeetTypeOK
  <2>2. CASE o.slot = NoSlot
    BY <1>2, <2>1, <2>2
  <2>3. CASE o.slot # NoSlot /\ s = o.slot
    BY <1>2, <1>5, <2>3
  <2>4. CASE o.slot # NoSlot /\ s # o.slot
    <3>1. task'[s] = task[s] /\ task[s].job # 0 /\ o.slot \in Slots /\ task[o.slot].job = o.job
      BY <1>5, <2>4
    <3>2. task[s].job # o.job
      BY <2>4, <3>1 DEF Owned
    <3> QED BY <1>2, <2>1, <3>1, <3>2
  <2> QED BY <2>2, <2>3, <2>4
<1>7. Owned'
  BY <1>1, <1>2, <1>3, <1>4, <1>6, OwnedKept
<1>8. Fresh'
  BY <1>1, <1>3, <1>4, FreshKept
<1>9. Claiming'
  BY <1>1, <1>2, <1>3, ClaimingKept
<1>10. Alive'
  <2>1. Ready' => Ready
    BY <1>1 DEF Ready
  <2>2. o.slot # NoSlot => Live(o.job)
    BY <1>5 DEF Live
  <2>3. \A st \in Settled : st \notin StartupStatuses
    BY DEF Settled, TerminalCovered, StartupStatuses
  <2>4. Ready => \A j \in Jobs : rows'[j] \in StartupStatuses => Live(j)'
    BY <1>2, <1>4, <2>2, <2>3 DEF Alive, Ready
  <2> QED BY <1>1, <2>1, <2>4, AliveKept
<1> QED BY <1>7, <1>8, <1>9, <1>10

LEMMA UnlostClaimWrite ==
  ASSUME MeetTypeOK, Shapes, Owned, Fresh, Claiming, Alive, ClaimWrite, ~ lost'
  PROVE  Owned' /\ Fresh' /\ Claiming' /\ Alive'
<1> DEFINE c == op'["worker"]
<1>1. /\ c \in Claimed /\ c.do = "claimed" /\ c.rows = rows /\ c.job \in c.dropped /\ c.dropped \subseteq Queued
      /\ Queued' \subseteq Queued /\ \A k \in Queued' : Link[k] # Link[c.job]
      /\ \A k \in c.dropped : Link[k] = Link[c.job]
      /\ op'["daemon"] = op["daemon"]
      /\ UNCHANGED <<rows, phase, todo, task, inFlight>>
  BY ClaimWrote
<1>2. \A j : Live(j)' <=> Live(j)
  BY <1>1 DEF Live
<1>3. Owned'
  BY <1>1 DEF Owned, Waiting
<1>4. \A q \in Procs : op'[q].do \in {"update", "recover"} => op'[q] = op[q]
  BY <1>1, Free1
<1>5. Fresh'
  BY <1>1, <1>4 DEF Fresh, Waiting
<1>6. Claiming'
  <2>1. ~ Live(c.job)
    <3> SUFFICES ASSUME NEW s \in Slots, task[s].job = c.job PROVE FALSE
      BY DEF Live
    <3>1. c.job # 0 /\ c.job \in Queued
      BY <1>1, JobNumbers DEF Claimed
    <3> QED BY <3>1 DEF Owned
  <2>2. \A j \in c.dropped : Waiting(rows, j) /\ j \notin Queued'
    BY <1>1 DEF Fresh
  <2> QED BY <1>1, <1>2, <2>1, <2>2 DEF Claiming, Waiting
<1>7. Alive'
  BY <1>1, <1>2, <1>4 DEF Alive
<1> QED BY <1>3, <1>5, <1>6, <1>7

LEMMA UnlostClaimedWrite ==
  ASSUME MeetTypeOK, SlotsKept, Shapes, Owned, Fresh, Claiming, Alive, ClaimedWrite, ~ lost'
  PROVE  Owned' /\ Fresh' /\ Claiming' /\ Alive'
<1> DEFINE o == op["worker"]
<1>1. Over("worker") /\ "worker" \in Procs /\ UNCHANGED <<lines, phase, todo>>
  BY Writes, Free1
<1>2. /\ ~ Live(o.job)
      /\ o.slot \in Slots /\ o.job \in Jobs /\ o.job # 0 /\ task[o.slot] = NoTask
      /\ task'[o.slot] = [job |-> o.job, at |-> "claimed"]
      /\ \A s \in Slots : s # o.slot => task'[s] = task[s]
      /\ inFlight'[o.job] = o.slot
      /\ \A j \in Jobs : j # o.job => inFlight'[j] = inFlight[j]
      /\ rows'[o.job] = "running" /\ Waiting(rows, o.job) /\ o.job \notin Queued
      /\ \A j \in Jobs : j # o.job =>
           rows'[j] = rows[j] \/ (rows'[j] = "skipped" /\ Waiting(rows, j) /\ j \notin Queued)
  BY ClaimedWrote DEF Shapes
<1> HIDE DEF o
<1>3. Queued' = Queued /\ Queued \subseteq Jobs /\ todo \in [Procs -> SUBSET Jobs]
  BY <1>1, QueuedLines DEF Queued, MeetTypeOK
<1>4. task'[o.slot].job = o.job /\ task'[o.slot].at = "claimed"
  BY <1>2
<1>5. \A j \in Jobs : ~ Waiting(rows, j) => rows'[j] = rows[j]
  BY <1>2
<1>6. \A s \in Slots : s # o.slot /\ task[s].job # 0 => task[s].job \in Jobs /\ task[s].job # o.job
  BY <1>2 DEF Live, MeetTypeOK
<1>7. Owned'
  <2> SUFFICES ASSUME NEW s \in Slots, task'[s].job # 0
               PROVE  /\ inFlight'[task'[s].job] = s /\ task'[s].job \notin Queued'
                      /\ rows'[task'[s].job] \notin {"queued", "absent"}
                      /\ task'[s].at = "over" => rows'[task'[s].job] \in Settled
    BY DEF Owned, Waiting
  <2>1. CASE s = o.slot
    BY <1>2, <1>3, <1>4, <2>1
  <2>2. CASE s # o.slot
    <3>1. task'[s] = task[s] /\ task[s].job \in Jobs /\ task[s].job # o.job /\ task[s].job # 0
      BY <1>2, <1>6, <2>2
    <3>2. /\ inFlight[task[s].job] = s /\ task[s].job \notin Queued /\ ~ Waiting(rows, task[s].job)
          /\ task[s].at = "over" => rows[task[s].job] \in Settled
      BY <3>1 DEF Owned
    <3>3. rows'[task[s].job] = rows[task[s].job] /\ inFlight'[task[s].job] = inFlight[task[s].job]
      BY <1>2, <1>5, <3>1, <3>2
    <3> QED BY <1>3, <3>1, <3>2, <3>3 DEF Waiting
  <2> QED BY <2>1, <2>2
<1>8. Fresh'
  <2>1. \A j \in Queued' : Waiting(rows, j) => Waiting(rows, j)'
    BY <1>2, <1>3 DEF Waiting
  <2>2. \A j \in Jobs : ~ Waiting(rows, j) => ~ Waiting(rows, j)'
    BY <1>5 DEF Waiting
  <2> QED BY <1>1, <1>3, <2>1, <2>2, FreshKept
<1>9. Claiming'
  BY <1>1, Free1 DEF Over, Claiming
<1>10. Alive'
  <2>1. Ready' => Ready
    BY <1>1 DEF Ready
  <2>2. ASSUME Ready, NEW j \in Jobs, rows'[j] \in StartupStatuses PROVE Live(j)'
    <3>1. CASE j = o.job
      BY <1>2, <1>4, <3>1 DEF Live
    <3>2. CASE j # o.job
      <4>1. rows[j] \in StartupStatuses
        BY <1>2, <2>2, <3>2 DEF StartupStatuses
      <4>2. PICK s \in Slots : task[s].job = j
        BY <2>2, <4>1 DEF Alive, Ready, Live
      <4>3. s # o.slot
        BY <1>2, <4>2, JobNumbers, Free1
      <4> QED BY <1>2, <4>2, <4>3 DEF Live
    <3> QED BY <3>1, <3>2
  <2> QED BY <1>1, <2>1, <2>2, AliveKept
<1> QED BY <1>7, <1>8, <1>9, <1>10

LEMMA UnlostEnd ==
  ASSUME MeetTypeOK, Owned, Fresh, Claiming, Alive, NEW s \in Slots, EndTask(s)
  PROVE  Owned' /\ Fresh' /\ Claiming' /\ Alive'
<1>1. /\ task[s].at = "over" /\ UNCHANGED <<rows, lines, op, phase, todo, inFlight>>
      /\ task'[s] = NoTask /\ \A t \in Slots : t # s => task'[t] = task[t]
  BY Frees DEF MeetTypeOK
<1>2. Queued' = Queued /\ \A j \in Jobs : Live(j)' => Live(j)
  BY <1>1, JobNumbers, Free1 DEF Queued, Live
<1>3. Owned'
  BY <1>1, <1>2, Free1 DEF Owned, Waiting
<1>4. Fresh'
  BY <1>1, <1>2 DEF Fresh, Waiting
<1>5. Claiming'
  <2> SUFFICES ASSUME op["worker"].do = "claimed" PROVE Claiming'
    BY <1>1 DEF Claiming
  <2>1. op["worker"].job \in Jobs
    BY OpFields, Free1 DEF Claimed
  <2> QED BY <1>1, <1>2, <2>1 DEF Claiming, Waiting
<1>6. Alive'
  <2>1. ASSUME Ready, NEW j \in Jobs, rows[j] \in StartupStatuses PROVE Live(j)'
    <3>1. PICK t \in Slots : task[t].job = j
      BY <2>1 DEF Alive, Ready, Live
    <3>2. t # s
      <4>1. \A st \in Settled : st \notin StartupStatuses
        BY DEF Settled, TerminalCovered, StartupStatuses
      <4> QED BY <1>1, <2>1, <3>1, <4>1, JobNumbers DEF Owned
    <3> QED BY <1>1, <3>1, <3>2 DEF Live
  <2> QED BY <1>1, <2>1 DEF Alive, Ready
<1> QED BY <1>3, <1>4, <1>5, <1>6

LEMMA UnlostStep ==
  ASSUME MeetTypeOK, SlotsKept, Shapes, Upto, Unlost, MeetTypeOK', [MeetNext]_meet
  PROVE  Unlost'
<1> SUFFICES ASSUME ~ lost' PROVE Owned' /\ Fresh' /\ Claiming' /\ Alive'
  BY DEF Unlost
<1>1. ~ lost => Owned /\ Fresh /\ Claiming /\ Alive
  BY DEF Unlost
<1>2. CASE Quiet
  BY <1>1, <1>2, UnlostQuiet DEF Quiet
<1>3. ASSUME NEW p \in Procs, NEW o \in Operations, Begins(p, o), Updating(p, o) \/ Recovering(p, o)
      PROVE  Owned' /\ Fresh' /\ Claiming' /\ Alive'
  BY <1>1, <1>3, UnlostBegins DEF Begins
<1>4. CASE Join
  BY <1>1, <1>4, UnlostJoin DEF Join
<1>5. CASE JoinWrite
  BY <1>1, <1>5, JoinWrote, UnlostJoinWrite
<1>6. CASE ClaimWrite
  BY <1>1, <1>6, ClaimWrote, UnlostClaimWrite
<1>7. CASE ClaimedWrite
  <2>1. ~ lost
    BY <1>7 DEF ClaimedWrite, WriteRows, MeetTypeOK
  <2> QED BY <1>1, <1>7, <2>1, UnlostClaimedWrite
<1>8. ASSUME NEW p \in Procs, RecoveryWrite(p) PROVE Owned' /\ Fresh' /\ Claiming' /\ Alive'
  <2>1. ~ lost
    BY <1>8 DEF RecoveryWrite, MeetTypeOK
  <2> QED BY <1>1, <1>8, <2>1, UnlostRecovery
<1>9. ASSUME NEW p \in Procs, UpdateWrite(p) PROVE Owned' /\ Fresh' /\ Claiming' /\ Alive'
  <2>1. ~ lost
    BY <1>9 DEF UpdateWrite, WriteRows, MeetTypeOK
  <2> QED BY <1>1, <1>9, <2>1, UnlostUpdate
<1>10. ASSUME NEW p \in Procs, MeetCrash(p) PROVE Owned' /\ Fresh' /\ Claiming' /\ Alive'
  BY <1>1, <1>10, Writes, UnlostCrash
<1>11. ASSUME NEW s \in Slots, Claim(s) PROVE Owned' /\ Fresh' /\ Claiming' /\ Alive'
  BY <1>1, <1>11, Takes, UnlostClaim
<1>12. ASSUME NEW s \in Slots, EndTask(s) PROVE Owned' /\ Fresh' /\ Claiming' /\ Alive'
  BY <1>1, <1>12, Frees, UnlostEnd
<1> QED
  BY Moves, <1>2, <1>3, <1>4, <1>5, <1>6, <1>7, <1>8, <1>9, <1>10, <1>11, <1>12

-----------------------------------------------------------------------------
(* A running job's row says how far it is.                                  *)

LEMMA LiveRowsKept ==
  ASSUME ~ lost, LiveRows, meddled \subseteq meddled',
         \A s \in Slots : task'[s] # NoTask =>
           \/ rows'[task'[s].job] \in RowOf(task'[s].at)
           \/ task'[s].job \in meddled'
           \/ task'[s] = task[s] /\ rows'[task[s].job] = rows[task[s].job]
  PROVE  LiveRows'
<1> SUFFICES ASSUME NEW s \in Slots, task'[s] # NoTask, task'[s].job \notin meddled'
             PROVE  rows'[task'[s].job] \in RowOf(task'[s].at)
  BY DEF LiveRows
<1>1. CASE task'[s] = task[s] /\ rows'[task[s].job] = rows[task[s].job]
  BY <1>1 DEF LiveRows
<1> QED BY <1>1

LEMMA LiveRowsStep ==
  ASSUME MeetTypeOK, SlotsKept, Shapes, Upto, Unlost, LiveRows, MeetTypeOK', [MeetNext]_meet
  PROVE  LiveRows'
<1> SUFFICES ASSUME ~ lost' PROVE LiveRows'
  BY DEF LiveRows
<1>1. ~ lost => Owned /\ Fresh /\ Claiming /\ Alive
  BY DEF Unlost
<1>2. \A s \in Slots : task[s] # NoTask => task[s].job # 0 /\ task[s].job \in Jobs
  BY DEF Shapes, Shaped, MeetTypeOK
<1>3. ASSUME ~ lost, UNCHANGED <<rows, meddled>>,
             \A s \in Slots : task'[s] = task[s] \/ task'[s] = NoTask
      PROVE  LiveRows'
  BY <1>3, LiveRowsKept
<1>4. CASE Quiet
  BY <1>3, <1>4 DEF Quiet
<1>5. ASSUME NEW p \in Procs, NEW o \in Operations, Begins(p, o), Updating(p, o) \/ Recovering(p, o)
      PROVE  LiveRows'
  BY <1>3, <1>5 DEF Begins
<1>6. CASE Join
  BY <1>3, <1>6 DEF Join, worker
<1>7. CASE ClaimWrite
  <2>1. ~ lost /\ UNCHANGED <<rows, task, meddled>>
    BY <1>7, ClaimWrote
  <2> QED BY <1>3, <2>1
<1>8. ASSUME NEW s \in Slots, Claim(s) PROVE LiveRows'
  <2>1. ~ lost /\ UNCHANGED <<rows, task, meddled>>
    BY <1>8, Takes
  <2> QED BY <1>3, <2>1
<1>9. ASSUME NEW s \in Slots, EndTask(s) PROVE LiveRows'
  <2>1. ~ lost /\ UNCHANGED <<rows, meddled>> /\ task' = [task EXCEPT ![s] = NoTask]
    BY <1>9, Frees
  <2> QED BY <1>3, <2>1 DEF MeetTypeOK
<1>10. ASSUME NEW p \in Procs, MeetCrash(p) PROVE LiveRows'
  <2>1. ~ lost /\ UNCHANGED <<rows, meddled>>
    BY <1>10, Writes
  <2>2. \A s \in Slots : task'[s] = task[s] \/ task'[s] = NoTask
    BY <1>10 DEF MeetCrash, worker
  <2> QED BY <1>3, <2>1, <2>2
<1>11. CASE JoinWrite
  <2> DEFINE j0 == op["daemon"].job
  <2>1. ~ lost /\ UNCHANGED <<task, meddled>>
    BY <1>11, Writes, JoinWrote
  <2>2. rows[j0] = "absent" /\ \A j \in Jobs : j # j0 => rows'[j] = rows[j]
    BY <1>11, JoinWrote
  <2> HIDE DEF j0
  <2>3. \A s \in Slots : task[s] # NoTask => rows'[task[s].job] = rows[task[s].job]
    BY <1>1, <1>2, <2>1, <2>2 DEF Owned, Waiting
  <2> QED BY <2>1, <2>3, LiveRowsKept
<1>12. CASE ClaimedWrite
  <2> DEFINE o == op["worker"]
  <2>1. ~ lost
    BY <1>12 DEF ClaimedWrite, WriteRows, MeetTypeOK
  <2>2. /\ ~ Live(o.job)
        /\ o.slot \in Slots /\ o.job \in Jobs
        /\ task'[o.slot] = [job |-> o.job, at |-> "claimed"]
        /\ \A s \in Slots : s # o.slot => task'[s] = task[s]
        /\ rows'[o.job] = "running"
        /\ \A j \in Jobs : j # o.job => rows'[j] = rows[j] \/ Waiting(rows, j)
    BY <1>1, <1>12, <2>1, ClaimedWrote DEF Shapes
  <2>3. UNCHANGED meddled
    BY <1>12, Writes
  <2> HIDE DEF o
  <2>4. task'[o.slot].job = o.job /\ task'[o.slot].at = "claimed"
    BY <2>2
  <2>5. rows'[task'[o.slot].job] \in RowOf(task'[o.slot].at)
    BY <2>2, <2>4 DEF RowOf
  <2>6. ASSUME NEW s \in Slots, s # o.slot, task'[s] # NoTask
        PROVE  task'[s] = task[s] /\ rows'[task[s].job] = rows[task[s].job]
    <3>1. task'[s] = task[s] /\ task[s].job \in Jobs /\ task[s].job # o.job /\ task[s].job # 0
      BY <1>2, <2>2, <2>6 DEF Live
    <3>2. ~ Waiting(rows, task[s].job)
      BY <1>1, <2>1, <3>1 DEF Owned
    <3> QED BY <2>2, <3>1, <3>2
  <2> QED BY <2>1, <2>3, <2>5, <2>6, LiveRowsKept
<1>13. ASSUME NEW p \in Procs, RecoveryWrite(p) PROVE LiveRows'
  <2>1. ~ lost
    BY <1>13 DEF RecoveryWrite, MeetTypeOK
  <2>2. /\ op[p].orphans = StartOrphans(rows)
        /\ \A j \in Jobs : rows[j] \notin StartupStatuses => rows'[j] = rows[j]
    BY <1>1, <1>13, <2>1, RecoveryWrote
  <2>3. UNCHANGED task /\ meddled' = meddled \cup {j \in op[p].orphans : Live(j)}
    BY <1>13, Writes DEF RecoveryWrite
  <2>4. \A s \in Slots : task[s] # NoTask => task[s].job \in meddled' \/ rows'[task[s].job] = rows[task[s].job]
    BY <1>2, <2>2, <2>3 DEF StartOrphans, Live
  <2> QED BY <2>1, <2>3, <2>4, LiveRowsKept
<1>14. ASSUME NEW p \in Procs, UpdateWrite(p) PROVE LiveRows'
  <2> DEFINE o == op[p]
  <2>1. ~ lost
    BY <1>14 DEF UpdateWrite, WriteRows, MeetTypeOK
  <2>2. /\ rows'[o.job] = o.to /\ meddled \subseteq meddled'
        /\ \A j \in Jobs : j # o.job => rows'[j] = rows[j]
        /\ o.slot = NoSlot => task' = task /\ (Live(o.job) => o.job \in meddled')
    BY <1>1, <1>14, <2>1, UpdateWrote
  <2>3. CASE o.slot = NoSlot
    <3> HIDE DEF o
    <3>1. \A s \in Slots : task[s] # NoTask => task[s].job \in meddled' \/ rows'[task[s].job] = rows[task[s].job]
      BY <1>2, <2>2, <2>3 DEF Live
    <3> QED BY <2>1, <2>2, <2>3, <3>1, LiveRowsKept
  <2>4. CASE o.slot # NoSlot
    <3> DEFINE at == IF o.to \in Settled THEN "over" ELSE o.to
    <3>1. /\ o.slot \in Slots /\ task[o.slot].job = o.job /\ o.job # 0
          /\ task'[o.slot] = [job |-> o.job, at |-> at]
          /\ \A s \in Slots : s # o.slot => task'[s] = task[s]
      BY <1>14, <2>4, Moved
    <3>2. o.to \in RowOf(at)
      <4>1. o.to \in NextStatuses(task[o.slot].at)
        BY <1>14, <2>4, Writes DEF Shapes, UpdateShaped
      <4> HIDE DEF o
      <4> QED BY <4>1, StageStatuses
    <3> HIDE DEF at, o
    <3>3. rows'[task'[o.slot].job] \in RowOf(task'[o.slot].at)
      BY <2>2, <3>1, <3>2
    <3>4. ASSUME NEW s \in Slots, s # o.slot, task'[s] # NoTask
          PROVE  task'[s] = task[s] /\ rows'[task[s].job] = rows[task[s].job]
      <4>1. task'[s] = task[s] /\ task[s].job \in Jobs /\ task[s].job # 0
        BY <1>2, <3>1, <3>4
      <4>2. task[s].job # o.job
        BY <1>1, <2>1, <3>1, <3>4, <4>1 DEF Owned
      <4> QED BY <2>2, <4>1, <4>2
    <3> QED BY <2>1, <2>2, <3>3, <3>4, LiveRowsKept
  <2> QED BY <2>3, <2>4
<1> QED
  BY Moves, <1>4, <1>5, <1>6, <1>7, <1>8, <1>9, <1>10, <1>11, <1>12, <1>13, <1>14

-----------------------------------------------------------------------------
(* The row of a waiting job.                                                *)

LEMMA LinkedKept ==
  ASSUME NEW j \in Jobs, Linked(j),
         rows'[j] = "queued" <=> rows[j] = "queued", rows'[j] = "absent" <=> rows[j] = "absent",
         j \in Queued' <=> j \in Queued, Enqueuing(j)' <=> Enqueuing(j), Dropped(j)' <=> Dropped(j)
  PROVE  Linked(j)'
BY DEF Linked

LEMMA LinkedStep ==
  ASSUME MeetTypeOK, SlotsKept, Shapes, Upto, Unlost, AllLinked, MeetTypeOK', [MeetNext]_meet
  PROVE  AllLinked'
<1> SUFFICES ASSUME ~ lost', deaths' = 0, NEW j \in Jobs PROVE Linked(j)'
  BY DEF AllLinked
<1>1. ~ lost => Owned /\ Fresh /\ Claiming /\ Alive
  BY DEF Unlost
<1>2. ~ lost /\ deaths = 0 => Linked(j)
  BY DEF AllLinked
<1>3. ASSUME ~ lost, deaths = 0, UNCHANGED lines, NEW p \in Procs,
             rows'[j] = "queued" <=> rows[j] = "queued", rows'[j] = "absent" <=> rows[j] = "absent",
             \A q \in Procs : q # p => op'[q] = op[q],
             op[p].do \notin {"enqueue", "claimed"}, op'[p].do \notin {"enqueue", "claimed"}
      PROVE  Linked(j)'
  <2>1. j \in Queued' <=> j \in Queued
    BY <1>3 DEF Queued
  <2>2. Enqueuing(j)' <=> Enqueuing(j)
    BY <1>3, Free1 DEF Enqueuing
  <2>3. Dropped(j)' <=> Dropped(j)
    BY <1>3, Free1 DEF Dropped
  <2> QED BY <1>2, <1>3, <2>1, <2>2, <2>3, LinkedKept
<1>4. ASSUME ~ lost, deaths = 0, UNCHANGED <<rows, lines, op>> PROVE Linked(j)'
  BY <1>2, <1>4 DEF Linked, Queued, Enqueuing, Dropped
<1>5. CASE Quiet
  BY <1>4, <1>5 DEF Quiet
<1>6. ASSUME NEW s \in Slots, EndTask(s) PROVE Linked(j)'
  BY <1>4, <1>6, Frees
<1>7. ASSUME NEW p \in Procs, NEW o \in Operations, Begins(p, o), Updating(p, o) \/ Recovering(p, o)
      PROVE  Linked(j)'
  <2>1. /\ UNCHANGED <<rows, lines, lost, deaths>> /\ op[p] = Free /\ op'[p] = o
        /\ \A q \in Procs : q # p => op'[q] = op[q]
        /\ o.do \in {"update", "recover"}
    BY <1>7 DEF Begins, Updating, Recovering
  <2> QED BY <1>3, <2>1, Free1
<1>8. ASSUME NEW s \in Slots, Claim(s) PROVE Linked(j)'
  <2>1. /\ UNCHANGED <<rows, lines, lost, deaths>> /\ op["worker"] = Free
        /\ op'["worker"] = [do |-> "claim", slot |-> s, lines |-> lines]
        /\ op'["daemon"] = op["daemon"]
    BY <1>8, Takes
  <2>2. op'["worker"].do = "claim"
    BY <2>1
  <2> QED BY <1>3, <2>1, <2>2, Free1
<1>9. ASSUME NEW p \in Procs, MeetCrash(p) PROVE Linked(j)'
  <2>1. deaths \in Nat /\ deaths' = deaths + 1
    BY <1>9, MeetConstants DEF MeetCrash, MeetTypeOK
  <2> QED BY <2>1
<1>10. CASE Join
  <2> DEFINE j0 == joined + 1
  <2>1. /\ j0 \in Jobs /\ op["daemon"] = Free /\ op'["daemon"] = [do |-> "enqueue", job |-> j0, rows |-> rows]
        /\ op'["worker"] = op["worker"] /\ lines' = Append(lines, j0)
        /\ UNCHANGED <<rows, lost, deaths>>
    BY <1>10, JoinBegun DEF Join
  <2>2. ~ (j0 <= joined)
    BY DEF MeetTypeOK
  <2>3. op'["daemon"].do = "enqueue" /\ op'["daemon"].job = j0
    BY <2>1
  <2> HIDE DEF j0
  <2>4. rows[j0] = "absent"
    BY <2>1, <2>2 DEF Upto, RowsUpto
  <2>5. Queued' = Queued \cup {j0}
    <3>1. lines \in Seq(Jobs)
      BY DEF MeetTypeOK, Lines
    <3>2. DOMAIN lines' = DOMAIN lines \cup {Len(lines) + 1} /\ lines'[Len(lines) + 1] = j0
            /\ \A i \in DOMAIN lines : lines'[i] = lines[i]
      BY <2>1, <3>1
    <3> QED BY <3>2 DEF Queued
  <2>6. ~ Enqueuing(j) /\ (Enqueuing(j)' <=> j = j0) /\ (Dropped(j)' <=> Dropped(j))
    BY <2>1, <2>3, Free1 DEF Enqueuing, Dropped
  <2> QED BY <1>2, <2>1, <2>4, <2>5, <2>6 DEF Linked
<1>11. CASE JoinWrite
  <2> DEFINE j0 == op["daemon"].job
  <2>1. /\ Over("daemon") /\ UNCHANGED <<lines, deaths>>
    BY <1>11, Writes
  <2>2. /\ ~ lost /\ op["daemon"].do = "enqueue" /\ rows[j0] = "absent" /\ rows'[j0] = "queued"
        /\ \A k \in Jobs : k # j0 => rows'[k] = rows[k]
    BY <1>11, JoinWrote
  <2>3. ~ Enqueuing(j)' /\ (Enqueuing(j) <=> j = j0) /\ (Dropped(j)' <=> Dropped(j)) /\ Queued' = Queued
    BY <2>1, <2>2, Free1 DEF Over, Enqueuing, Dropped, Queued
  <2> HIDE DEF j0
  <2> QED BY <1>2, <2>1, <2>2, <2>3 DEF Linked
<1>12. CASE ClaimWrite
  <2> DEFINE c == op'["worker"]
  <2>1. /\ ~ lost /\ op["worker"].do = "claim" /\ c.do = "claimed"
        /\ Queued' \subseteq Queued /\ Queued \subseteq Queued' \cup c.dropped /\ c.dropped \subseteq Queued
        /\ op'["daemon"] = op["daemon"] /\ UNCHANGED <<rows, deaths>>
    BY <1>12, ClaimWrote
  <2>2. ~ Dropped(j) /\ (Dropped(j)' <=> j \in c.dropped) /\ (Enqueuing(j)' <=> Enqueuing(j))
    BY <2>1 DEF Dropped, Enqueuing
  <2> HIDE DEF c
  <2> QED BY <1>2, <2>1, <2>2 DEF Linked
<1>13. CASE ClaimedWrite
  <2> DEFINE o == op["worker"]
  <2>1. Over("worker") /\ UNCHANGED <<lines, deaths>>
    BY <1>13, Writes
  <2>2. ~ lost
    BY <1>13 DEF ClaimedWrite, WriteRows, MeetTypeOK
  <2>3. /\ o.do = "claimed" /\ rows'[o.job] = "running" /\ o.job \notin Queued /\ o.job \in o.dropped
        /\ \A k \in Jobs : k # o.job =>
             \/ rows'[k] = rows[k] /\ k \notin o.dropped
             \/ /\ rows'[k] = "skipped" /\ k \notin Queued
                /\ k \in o.dropped \/ rows[k] = "queued"
    BY <1>1, <1>13, <2>2, ClaimedWrote DEF Shapes, ClaimShaped
  <2>4. ~ Dropped(j)' /\ (Dropped(j) <=> j \in o.dropped) /\ (Enqueuing(j)' <=> Enqueuing(j)) /\ Queued' = Queued
    BY <2>1, <2>3, Free1 DEF Over, Dropped, Enqueuing, Queued
  <2> HIDE DEF o
  <2>5. Linked(j)
    BY <1>2, <2>1, <2>2
  <2>6. CASE rows'[j] = rows[j] /\ j \notin o.dropped
    BY <2>4, <2>5, <2>6 DEF Linked
  <2>7. CASE rows'[j] \in {"running", "skipped"} /\ j \notin Queued
    BY <2>4, <2>7 DEF Linked
  <2> QED BY <2>3, <2>6, <2>7
<1>14. ASSUME NEW p \in Procs, RecoveryWrite(p) PROVE Linked(j)'
  <2>1. ~ lost
    BY <1>14 DEF RecoveryWrite, MeetTypeOK
  <2>2. /\ op[p].do = "recover" /\ lines' = lines
        /\ IF rows[j] \in StartupStatuses THEN rows'[j] \in {"failed", "interrupted"}
           ELSE rows'[j] = rows[j]
    BY <1>1, <1>14, <2>1, RecoveryWrote
  <2>3. op'[p].do = "nothing" /\ (\A q \in Procs : q # p => op'[q] = op[q]) /\ deaths = 0
    BY <1>14, Writes, Free1 DEF Over
  <2>4. (rows'[j] = "queued" <=> rows[j] = "queued") /\ (rows'[j] = "absent" <=> rows[j] = "absent")
    BY <2>2 DEF StartupStatuses
  <2> QED BY <1>3, <2>1, <2>2, <2>3, <2>4
<1>15. ASSUME NEW p \in Procs, UpdateWrite(p) PROVE Linked(j)'
  <2>1. ~ lost
    BY <1>15 DEF UpdateWrite, WriteRows, MeetTypeOK
  <2>2. /\ op[p].do = "update" /\ ~ Waiting(rows, op[p].job) /\ rows'[op[p].job] = op[p].to
        /\ op[p].to \notin {"queued", "absent"}
        /\ j # op[p].job => rows'[j] = rows[j]
    BY <1>1, <1>15, <2>1, UpdateWrote
  <2>3. op'[p].do = "nothing" /\ (\A q \in Procs : q # p => op'[q] = op[q]) /\ deaths = 0 /\ lines' = lines
    BY <1>15, Writes, Free1 DEF Over
  <2>4. (rows'[j] = "queued" <=> rows[j] = "queued") /\ (rows'[j] = "absent" <=> rows[j] = "absent")
    BY <2>2 DEF Waiting
  <2> QED BY <1>3, <2>1, <2>2, <2>3, <2>4
<1> QED
  BY Moves, <1>5, <1>6, <1>7, <1>8, <1>9, <1>10, <1>11, <1>12, <1>13, <1>14, <1>15

-----------------------------------------------------------------------------
(* The theorems.                                                            *)

LEMMA MeetInitIInv == MeetInit => IInv
<1> SUFFICES ASSUME MeetInit PROVE IInv
  OBVIOUS
<1>1. /\ \A p \in Procs : op[p] = Free
      /\ \A j \in Jobs : rows[j] = "absent"
      /\ \A s \in Slots : task[s] = NoTask
      /\ \A p \in Procs : todo[p] = {} /\ phase[p] = "down"
      /\ "worker" \in Procs /\ "daemon" \in Procs
      /\ lines = <<>> /\ Queued = {}
  BY DEF MeetInit, Procs, Queued
<1>2. MeetTypeOK
  <2>1. op \in [Procs -> Operations]
    BY DEF MeetInit, Operations
  <2>2. rows \in Rows /\ lines \in Lines
    BY DEF MeetInit, Rows, Lines, JobStatuses
  <2>3. 0 \in 0 .. MaxJobs /\ 0 \in 0 .. MaxRequests /\ 0 \in 0 .. MaxRaces /\ 0 \in 0 .. MaxDeaths
    BY MeetConstants
  <2>4. NoTask \in [job : Jobs \cup {0}, at : Stages \cup {"none"}]
    BY DEF NoTask
  <2>5. op["daemon"].do \notin {"claim", "claimed"} /\ op["worker"].do # "enqueue"
    BY <1>1, Free1
  <2> QED BY <2>1, <2>2, <2>3, <2>4, <2>5 DEF MeetInit, MeetTypeOK
<1>3. SlotsKept
  BY <1>1, Free1 DEF MeetInit, SlotsKept, Held, Busy
<1>4. Shapes
  BY <1>1, Free1 DEF Shapes, Shaped, UpdateShaped, RecoverShaped, ClaimShaped, NoTask
<1>5. Upto
  <2>1. LinesUpto(lines) /\ RowsUpto(rows)
    BY <1>1 DEF LinesUpto, RowsUpto
  <2>2. \A s \in Slots : task[s].job <= joined
    BY <1>1, Free1 DEF MeetInit
  <2> QED BY <1>1, <2>1, <2>2, Free1 DEF Upto, OpUpto
<1>6. Unlost
  BY <1>1, Free1 DEF Unlost, Owned, Fresh, Claiming, Alive
<1>7. LiveRows /\ AllLinked
  BY <1>1, Free1 DEF LiveRows, AllLinked, Linked, Enqueuing, Dropped
<1> QED BY <1>2, <1>3, <1>4, <1>5, <1>6, <1>7 DEF IInv

LEMMA MeetStepIInv == IInv /\ [MeetNext]_meet => IInv'
<1> SUFFICES ASSUME IInv, [MeetNext]_meet PROVE IInv'
  OBVIOUS
<1> USE DEF IInv
<1>1. MeetTypeOK'
  BY TypeStep
<1>2. SlotsKept' /\ Shapes'
  BY <1>1, SlotsStep, ShapesStep
<1>3. Upto'
  BY <1>1, UptoStep
<1>4. Unlost'
  BY <1>1, UnlostStep
<1>5. LiveRows' /\ AllLinked'
  BY <1>1, LiveRowsStep, LinkedStep
<1> QED BY <1>1, <1>2, <1>3, <1>4, <1>5

THEOREM MeetInvariance == MeetSpec => []IInv
BY MeetInitIInv, MeetStepIInv, PTL DEF MeetSpec

(* Each variable of the meeting jobs has its type.                          *)
THEOREM MeetTypeCorrect == MeetSpec => []MeetTypeOK
<1>1. IInv => MeetTypeOK
  BY DEF IInv
<1> QED BY <1>1, MeetInvariance, PTL

(* A capture slot is in the pool, in the claiming hand or with one job:     *)
(* none is shared and none leaks, whatever the two processes write and      *)
(* however often they die.                                                  *)
THEOREM SlotsKeptHold == MeetSpec => []SlotsKept
<1>1. IInv => SlotsKept
  BY DEF IInv
<1> QED BY <1>1, MeetInvariance, PTL

(* While no process takes back a write of the other, the worker never runs  *)
(* one job in two slots.                                                    *)
THEOREM OneTaskHolds == MeetSpec => []OneTask
<1>1. IInv => OneTask
  <2> SUFFICES ASSUME IInv, ~ lost, NEW s \in Slots, NEW t \in Slots, s # t, task[s] # NoTask
               PROVE  task[s].job # task[t].job
    BY DEF OneTask
  <2>1. task[s].job # 0 /\ Owned
    BY DEF IInv, Shapes, Shaped, Unlost
  <2> QED BY <2>1 DEF Owned
<1> QED BY <1>1, MeetInvariance, PTL

(* And the row of a running job says how far it is, unless another          *)
(* operation wrote it meanwhile.                                            *)
THEOREM LiveRowsHold == MeetSpec => []LiveRows
<1>1. IInv => LiveRows
  BY DEF IInv
<1> QED BY <1>1, MeetInvariance, PTL

(* While nothing was lost and nobody died, exactly the queued jobs have a   *)
(* line, but for the job an operation is about to write.                    *)
THEOREM MeetQueueRows == MeetSpec => []QueueRows
<1>1. IInv => QueueRows
  <2> SUFFICES ASSUME IInv, ~ lost, deaths = 0, NEW j \in Jobs,
                      ~ (rows[j] = "queued" <=> j \in Queued)
               PROVE  \E p \in Procs : Touches(op[p], j)
    BY DEF QueueRows
  <2>1. Enqueuing(j) \/ Dropped(j)
    BY DEF IInv, AllLinked, Linked
  <2>2. CASE Enqueuing(j)
    BY <2>2, Free1 DEF Enqueuing, Touches
  <2>3. CASE Dropped(j)
    <3> DEFINE o == op["worker"]
    <3>1. o.do = "claimed" /\ j \in o.dropped /\ Link[j] = Link[o.job]
      BY <2>3 DEF Dropped, IInv, Shapes, ClaimShaped
    <3>2. Waiting(o.rows, j)
      BY <3>1 DEF IInv, Unlost, Claiming
    <3>3. o.job = j \/ Superseded(o, j)
      BY <3>1, <3>2 DEF Superseded, Waiting
    <3> QED BY <3>1, <3>3, Free1 DEF Touches
  <2> QED BY <2>1, <2>2, <2>3
<1> QED BY <1>1, MeetInvariance, PTL

(* While nothing was lost, a settled job that does not run stays settled:   *)
(* no recovery, claim, repair or late write of either process brings it     *)
(* back.                                                                    *)
THEOREM StaysSettledHolds == MeetSpec => StaysSettled
<1>1. \A st \in Settled : st \notin StartupStatuses /\ st \notin {"queued", "absent"}
  BY DEF Settled, TerminalCovered, StartupStatuses
<1>2. ASSUME IInv, [MeetNext]_meet, NEW j \in Jobs, ~ lost', rows[j] \in Settled, ~ Live(j)
      PROVE  rows'[j] \in Settled /\ ~ Live(j)'
  <2> USE <1>2 DEF IInv
  <2>1. ~ lost => Owned /\ Fresh /\ Claiming /\ Alive
    BY DEF Unlost
  <2>2. j # 0 /\ ~ Waiting(rows, j) /\ rows[j] \notin StartupStatuses
    BY <1>1, JobNumbers DEF Waiting
  <2>3. ASSUME UNCHANGED rows, \A s \in Slots : task'[s] = task[s] \/ task'[s] = NoTask
        PROVE  rows'[j] \in Settled /\ ~ Live(j)'
    BY <2>2, <2>3, Free1 DEF Live
  <2>4. CASE Quiet
    BY <2>3, <2>4 DEF Quiet
  <2>5. ASSUME NEW p \in Procs, NEW o \in Operations, Begins(p, o)
        PROVE  rows'[j] \in Settled /\ ~ Live(j)'
    BY <2>3, <2>5 DEF Begins
  <2>6. CASE Join
    BY <2>3, <2>6 DEF Join, worker
  <2>7. CASE ClaimWrite
    BY <2>3, <2>7 DEF ClaimWrite, worker
  <2>8. ASSUME NEW s \in Slots, Claim(s) \/ EndTask(s) PROVE rows'[j] \in Settled /\ ~ Live(j)'
    <3>1. UNCHANGED rows /\ \A t \in Slots : task'[t] = task[t] \/ task'[t] = NoTask
      BY <2>8, Takes, Frees DEF MeetTypeOK
    <3> QED BY <2>3, <3>1
  <2>9. ASSUME NEW p \in Procs, MeetCrash(p) PROVE rows'[j] \in Settled /\ ~ Live(j)'
    <3>1. UNCHANGED rows /\ \A t \in Slots : task'[t] = task[t] \/ task'[t] = NoTask
      BY <2>9, Writes DEF MeetCrash, worker
    <3> QED BY <2>3, <3>1
  <2>10. CASE JoinWrite
    <3>1. UNCHANGED task
      BY <2>10, Writes
    <3>2. rows'[j] = rows[j]
      BY <2>2, <2>10, JoinWrote DEF Waiting
    <3> QED BY <1>2, <3>1, <3>2 DEF Live
  <2>11. CASE ClaimedWrite
    <3> DEFINE o == op["worker"]
    <3>1. ~ lost
      BY <2>11 DEF ClaimedWrite, WriteRows, MeetTypeOK
    <3>2. /\ o.slot \in Slots /\ Waiting(rows, o.job)
          /\ task'[o.slot] = [job |-> o.job, at |-> "claimed"]
          /\ \A s \in Slots : s # o.slot => task'[s] = task[s]
          /\ \A k \in Jobs : k # o.job => rows'[k] = rows[k] \/ Waiting(rows, k)
      BY <2>1, <2>11, <3>1, ClaimedWrote DEF Shapes
    <3> HIDE DEF o
    <3>3. j # o.job /\ task'[o.slot].job = o.job
      BY <2>2, <3>2
    <3> QED BY <1>2, <2>2, <3>2, <3>3 DEF Live
  <2>12. ASSUME NEW p \in Procs, RecoveryWrite(p) PROVE rows'[j] \in Settled /\ ~ Live(j)'
    <3>1. ~ lost
      BY <2>12 DEF RecoveryWrite, MeetTypeOK
    <3>2. rows'[j] = rows[j] /\ UNCHANGED task
      BY <2>1, <2>2, <2>12, <3>1, Writes, RecoveryWrote
    <3> QED BY <1>2, <3>2 DEF Live
  <2>13. ASSUME NEW p \in Procs, UpdateWrite(p) PROVE rows'[j] \in Settled /\ ~ Live(j)'
    <3> DEFINE o == op[p]
    <3>1. ~ lost
      BY <2>13 DEF UpdateWrite, WriteRows, MeetTypeOK
    <3>2. /\ rows'[o.job] = o.to
          /\ \A k \in Jobs : k # o.job => rows'[k] = rows[k]
          /\ o.slot = NoSlot => o.to \in Settled
          /\ \A s \in Slots : task'[s].job = task[s].job
      BY <2>1, <2>13, <3>1, UpdateWrote
    <3>3. o.slot # NoSlot => o.slot \in Slots /\ task[o.slot].job = o.job
      <4>1. o \in Updates /\ o.do = "update"
        BY <2>13, Writes
      <4> QED BY <4>1 DEF Updates, Shapes, UpdateShaped
    <3> HIDE DEF o
    <3>4. o.job = j => o.slot = NoSlot
      BY <1>2, <3>3 DEF Live
    <3> QED BY <1>2, <3>2, <3>4 DEF Live
  <2> QED
    BY Moves, <2>4, <2>5, <2>6, <2>7, <2>8, <2>9, <2>10, <2>11, <2>12, <2>13
<1>3. IInv /\ [MeetNext]_meet
        => [\A j \in Jobs : ~ lost' /\ rows[j] \in Settled /\ ~ Live(j)
              => rows'[j] \in Settled /\ ~ Live(j)']_meet
  BY <1>2
<1> QED BY <1>3, MeetInvariance, PTL DEF MeetSpec, StaysSettled

(* While nothing was lost, the recovery of the poll loop never begins: a    *)
(* row it would take for an orphan is of a job that runs, and the loop      *)
(* knows it.                                                                *)
THEOREM PollFindsNothing ==
  MeetSpec => [](~ lost /\ phase["worker"] = "ready"
                   => \A aged \in SUBSET Jobs : PollOrphans(rows, aged) = {})
<1>1. IInv => (~ lost /\ phase["worker"] = "ready"
                 => \A aged \in SUBSET Jobs : PollOrphans(rows, aged) = {})
  <2> SUFFICES ASSUME IInv, ~ lost, phase["worker"] = "ready", NEW aged \in SUBSET Jobs,
                      NEW j \in PollOrphans(rows, aged)
               PROVE  FALSE
    OBVIOUS
  <2>1. j \in Jobs /\ rows[j] \in {"running", "finalizing"} /\ inFlight[j] = NoSlot
    BY DEF PollOrphans
  <2>2. PICK s \in Slots : task[s].job = j
    BY <2>1 DEF IInv, Unlost, Alive, StartupStatuses, Live
  <2>3. inFlight[j] = s
    BY <2>1, <2>2, JobNumbers DEF IInv, Unlost, Owned
  <2> QED BY <2>1, <2>3, JobNumbers
<1> QED BY <1>1, MeetInvariance, PTL

-----------------------------------------------------------------------------
(* Operations that never overlap lose nothing, so that the theorems above   *)
(* hold of them without their condition.                                    *)

Reads(o)  == o.do \in {"update", "enqueue", "recover", "claimed"}
Serial ==
  races = 0 =>
    /\ ~ lost /\ \E p \in Procs : op[p] = Free
    /\ \A p \in Procs : /\ Reads(op[p]) => op[p].rows = rows
                        /\ op[p].do \in {"recover", "claim"} => op[p].lines = lines

LEMMA BeginAlone ==
  ASSUME MeetTypeOK, NEW p \in Procs, NEW o, Begin(p, o), races' = 0
  PROVE  races = 0 /\ \A q \in Procs : op[q] = Free
BY DEF Begin, MeetTypeOK

LEMMA EndAlone ==
  ASSUME MeetTypeOK, NEW p \in Procs, End(p), races' = 0
  PROVE  races = 0 /\ \A q \in Procs : op'[q] # Free => op[q] # Free
BY DEF End, MeetTypeOK

(* An operation that begins without a race begins alone.                    *)
LEMMA RaceStep ==
  ASSUME MeetTypeOK, [MeetNext]_meet, races' = 0
  PROVE  /\ races = 0
         /\ \A p \in Procs : op'[p] # Free => op[p] # Free \/ \A q \in Procs : op[q] = Free
<1> DEFINE Alone == /\ races = 0
                    /\ \A p \in Procs : op'[p] # Free => op[p] # Free \/ \A q \in Procs : op[q] = Free
<1>1. ASSUME UNCHANGED ops PROVE Alone
  BY <1>1 DEF ops
<1>2. ASSUME NEW p \in Procs, NEW o, Begin(p, o) PROVE Alone
  BY <1>2, BeginAlone
<1>3. ASSUME NEW p \in Procs, End(p) PROVE Alone
  BY <1>3, EndAlone
<1>4. ASSUME NEW p \in Procs, NEW start, NEW orphans, Recovery(p, start, orphans) PROVE Alone
  BY <1>1, <1>2, <1>4 DEF Recovery
<1>5. CASE ClaimWrite
  <2>1. races' = races /\ \A p \in Procs : p # "worker" => op'[p] = op[p]
    BY <1>5 DEF ClaimWrite, MeetTypeOK
  <2>2. op["worker"] # Free
    BY <1>5 DEF ClaimWrite, Free
  <2> QED BY <2>1, <2>2
<1>6. CASE Join \/ JoinWrite \/ ClaimedWrite \/ PollRecovery
  BY <1>2, <1>3, <1>4, <1>6, Free1 DEF Join, JoinWrite, ClaimedWrite, PollRecovery
<1>7. CASE Tick \/ Sleep \/ UNCHANGED meet
  BY <1>1, <1>7 DEF Tick, Sleep, meet
<1>8. ASSUME NEW p \in Procs, Start(p) \/ List(p) \/ Finalized(p) PROVE Alone
  BY <1>1, <1>8 DEF Start, List, Finalized
<1>9. ASSUME NEW p \in Procs, StartRecovery(p) PROVE Alone
  BY <1>4, <1>9 DEF StartRecovery
<1>10. ASSUME NEW p \in Procs, RecoveryWrite(p) \/ UpdateWrite(p) \/ MeetCrash(p) PROVE Alone
  BY <1>3, <1>10 DEF RecoveryWrite, UpdateWrite, MeetCrash
<1>11. ASSUME NEW p \in Procs, NEW j \in Jobs, Finalize(p, j) PROVE Alone
  BY <1>2, <1>11 DEF Finalize, Update
<1>12. ASSUME NEW j \in Jobs, Resummarize(j) PROVE Alone
  BY <1>2, <1>12, Free1 DEF Resummarize, Update
<1>13. ASSUME NEW s \in Slots, Claim(s) \/ Work(s) PROVE Alone
  BY <1>2, <1>13, Free1 DEF Claim, Work, Update
<1>14. ASSUME NEW s \in Slots, EndTask(s) PROVE Alone
  BY <1>1, <1>14 DEF EndTask
<1> QED
  BY <1>5, <1>6, <1>7, <1>8, <1>9, <1>10, <1>11, <1>12, <1>13, <1>14
  DEF MeetNext, MeetSystem, MeetEnvironment

LEMMA SerialStep ==
  ASSUME MeetTypeOK, Shapes, Serial, [MeetNext]_meet
  PROVE  Serial'
<1> SUFFICES ASSUME races' = 0
             PROVE  /\ ~ lost' /\ \E p \in Procs : op'[p] = Free
                    /\ \A p \in Procs : /\ Reads(op'[p]) => op'[p].rows = rows'
                                        /\ op'[p].do \in {"recover", "claim"} => op'[p].lines = lines'
  BY DEF Serial, Reads
<1>0. /\ races = 0
      /\ \A p \in Procs : op'[p] # Free => op[p] # Free \/ \A q \in Procs : op[q] = Free
  BY RaceStep
<1>1. /\ ~ lost /\ \E p \in Procs : op[p] = Free
      /\ \A p \in Procs : /\ Reads(op[p]) => op[p].rows = rows
                          /\ op[p].do \in {"recover", "claim"} => op[p].lines = lines
  BY <1>0 DEF Serial
<1> DEFINE Goal == /\ ~ lost' /\ \E p \in Procs : op'[p] = Free
                   /\ \A p \in Procs : /\ Reads(op'[p]) => op'[p].rows = rows'
                                       /\ op'[p].do \in {"recover", "claim"} => op'[p].lines = lines'
<1>2. ASSUME UNCHANGED <<rows, lines, op, lost>> PROVE Goal
  BY <1>1, <1>2
(* A step of a busy process p: its operation goes on as o, the other is free. *)
<1>3. ASSUME NEW p \in Procs, NEW o, op'[p] = o, op[p] # Free \/ o # Free,
             \A q \in Procs : q # p => op'[q] = op[q], ~ lost',
             Reads(o) => o.rows = rows', o.do \in {"recover", "claim"} => o.lines = lines'
      PROVE  Goal
  <2>1. \A q \in Procs : q # p => op[q] = Free
    BY <1>0, <1>1, <1>3, Free1
  <2>2. \E q \in Procs : q # p
    BY Free1
  <2> QED BY <1>3, <2>1, <2>2, Free1 DEF Reads
<1>4. CASE Quiet
  BY <1>1, <1>2, <1>4 DEF Quiet
<1>5. ASSUME NEW p \in Procs, NEW o \in Operations, Begins(p, o), Updating(p, o) \/ Recovering(p, o)
      PROVE  Goal
  <2>1. /\ UNCHANGED <<rows, lines, lost>> /\ op'[p] = o
        /\ \A q \in Procs : q # p => op'[q] = op[q]
    BY <1>5 DEF Begins
  <2>2. o.do \in {"update", "recover"} /\ o.rows = rows /\ (o.do = "recover" => o.lines = lines)
    BY <1>5 DEF Updating, Recovering
  <2> QED BY <1>1, <1>3, <2>1, <2>2, Free1
<1>6. CASE Join
  <2> DEFINE o == [do |-> "enqueue", job |-> joined + 1, rows |-> rows]
  <2>1. op'["daemon"] = o /\ op'["worker"] = op["worker"] /\ UNCHANGED <<rows, lost>>
    BY <1>6, JoinBegun DEF Join
  <2>2. o.do = "enqueue" /\ o.rows = rows
    OBVIOUS
  <2> HIDE DEF o
  <2> QED BY <1>1, <1>3, <2>1, <2>2, Free1
<1>7. ASSUME NEW p \in Procs, Over(p), op[p] # Free, ~ lost' PROVE Goal
  BY <1>3, <1>7, Free1 DEF Over, Reads
<1>8. CASE JoinWrite
  <2>1. Over("daemon") /\ op["daemon"].do = "enqueue"
    BY <1>8, Writes
  <2>2. op["daemon"].rows = rows
    BY <1>1, <2>1, Free1 DEF Reads
  <2>3. lost' = (lost \/ rows # op["daemon"].rows)
    BY <1>8 DEF JoinWrite, WriteRows
  <2> QED BY <1>1, <1>7, <2>1, <2>2, <2>3, Free1
<1>9. CASE ClaimedWrite
  <2>1. Over("worker") /\ op["worker"].do = "claimed"
    BY <1>9, Writes
  <2>2. op["worker"].rows = rows
    BY <1>1, <2>1, Free1 DEF Reads
  <2>3. lost' = (lost \/ rows # op["worker"].rows)
    BY <1>9 DEF ClaimedWrite, WriteRows
  <2> QED BY <1>1, <1>7, <2>1, <2>2, <2>3, Free1
<1>10. CASE ClaimWrite
  <2> DEFINE o == op["worker"]
             c == op'["worker"]
  <2>1. o.do = "claim" /\ c.do = "claimed" /\ c.rows = rows /\ op'["daemon"] = op["daemon"] /\ UNCHANGED rows
    BY <1>10, ClaimWritten DEF Shapes, ClaimWrite
  <2>2. o.lines = lines
    BY <1>1, <2>1, Free1
  <2>3. lost' = (lost \/ lines # o.lines)
    BY <1>10 DEF ClaimWrite
  <2>4. ~ lost'
    BY <1>1, <2>2, <2>3
  <2> QED BY <1>3, <2>1, <2>4, Free1
<1>11. ASSUME NEW p \in Procs, RecoveryWrite(p) PROVE Goal
  <2>1. Over(p) /\ op[p].do = "recover"
    BY <1>11, Writes
  <2>2. op[p].rows = rows /\ op[p].lines = lines
    BY <1>1, <2>1 DEF Reads
  <2>3. lost' = (lost \/ rows # op[p].rows \/ lines # op[p].lines)
    BY <1>11 DEF RecoveryWrite
  <2> QED BY <1>1, <1>7, <2>1, <2>2, <2>3, Free1
<1>12. ASSUME NEW p \in Procs, UpdateWrite(p) PROVE Goal
  <2>1. Over(p) /\ op[p].do = "update"
    BY <1>12, Writes
  <2>2. op[p].rows = rows
    BY <1>1, <2>1 DEF Reads
  <2>3. lost' = (lost \/ rows # op[p].rows)
    BY <1>12 DEF UpdateWrite, WriteRows
  <2> QED BY <1>1, <1>7, <2>1, <2>2, <2>3, Free1
<1>13. ASSUME NEW p \in Procs, MeetCrash(p) PROVE Goal
  <2>1. Over(p) /\ UNCHANGED <<rows, lines, lost>>
    BY <1>13, Writes
  <2> QED BY <1>1, <2>1, Free1 DEF Over, Reads
<1>14. ASSUME NEW s \in Slots, Claim(s) PROVE Goal
  <2> DEFINE o == [do |-> "claim", slot |-> s, lines |-> lines]
  <2>1. /\ op'["worker"] = o /\ op'["daemon"] = op["daemon"]
        /\ UNCHANGED <<rows, lines, lost>>
    BY <1>14, Takes
  <2>2. o.do = "claim" /\ o.lines = lines
    OBVIOUS
  <2> HIDE DEF o
  <2> QED BY <1>1, <1>3, <2>1, <2>2, Free1 DEF Reads
<1>15. ASSUME NEW s \in Slots, EndTask(s) PROVE Goal
  BY <1>1, <1>2, <1>15, Frees
<1> QED
  BY Moves, <1>4, <1>5, <1>6, <1>8, <1>9, <1>10, <1>11, <1>12, <1>13, <1>14, <1>15

(* Until an operation of one process begins during one of the other, no     *)
(* write takes anything back, whatever crashes.                             *)
THEOREM SerialLosesNothing == MeetSpec => [](races = 0 => ~ lost)
<1>1. MeetInit => Serial
  BY Free1 DEF MeetInit, Serial, Reads
<1>2. IInv /\ Serial /\ [MeetNext]_meet => Serial'
  BY SerialStep DEF IInv
<1>3. Serial => (races = 0 => ~ lost)
  BY DEF Serial
<1> QED BY <1>1, <1>2, <1>3, MeetInvariance, PTL DEF MeetSpec
=============================================================================

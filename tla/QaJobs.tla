-------------------------------- MODULE QaJobs --------------------------------
(***************************************************************************)
(* QA scans: a queue file, a status file and one worker, which takes one   *)
(* job at a time and gives it 45 minutes.  A job is a scan of one branch,  *)
(* the review of a pull request, or a scan of a repository, which enqueues *)
(* a branch scan per branch.  A boot puts back what was running.           *)
(*                                                                         *)
(* Both files are written in place, so a crash may cut one: a status file  *)
(* that is cut is read as empty, and every row is lost; a queue file may    *)
(* lose its last lines, and end in half a line or half a character, which  *)
(* the loop does not survive.                                              *)
(*                                                                         *)
(* What runs in OS threads (clone, checks, GitHub) is one await here: it   *)
(* returns, raises or times out.                                           *)
(*                                                                         *)
(* Operators marked "mutant" are mistakes the code could have made.        *)
(***************************************************************************)
EXTENDS Naturals, Sequences, FiniteSets, SequencesExt

CONSTANTS MaxJobs,      \* bound on the jobs of a behaviour
          Branches,     \* how many branches a repository has
          Requests,     \* what is asked for: type, and whether a user waits for it
          MaxQaCrashes  \* bound on the crashes of the daemon

JobType == [type : {"branch", "review", "repo"}, user : BOOLEAN]

ASSUME QaConstants ==
  /\ MaxJobs \in Nat /\ Branches \in Nat /\ MaxQaCrashes \in Nat
  /\ Requests \subseteq JobType

VARIABLES
  jobs,      \* what each job is; its index is its id
  waiting,   \* job_queue.jsonl: ids, and 0 for a line that is no JSON
  cut,       \* its end: whole, without its newline, or half a character
  rows,      \* job_status.json: the status of each job
  up,        \* the daemon has recovered the jobs and started the loop
  current,   \* the job the worker processes, or 0
  step,      \* where the coroutine that processes it is
  heard,     \* what the chat that asked was told of each job
  comments,  \* comments posted on the pull request of each job
  reclaimed, \* jobs a boot has put back
  qaCrashes  \* history: how often the daemon crashed

store  == <<jobs, waiting, cut, rows, reclaimed>>
worker == <<up, current, step>>
said   == <<heard, comments>>
qa     == <<store, worker, said, qaCrashes>>

Jobs    == 1 .. MaxJobs
Ids    == DOMAIN jobs
Settled == {"completed", "failed"}
(* The jobs without a row: not made yet, or lost with a cut status file,    *)
(* when they waited for the worker ("unlisted") or later ("forgotten").     *)
NoRow   == {"none", "unlisted", "forgotten"}
Waits   == {"queued", "unlisted"}

\* A review that a user asked for in a chat is put first.
First(job)  == job.type = "review" /\ job.user
Priority(j) == First(jobs[j])

QaInit ==
  /\ jobs = <<>> /\ waiting = <<>> /\ cut = "no" /\ reclaimed = {}
  /\ rows = [j \in Jobs |-> "none"]
  /\ up = TRUE /\ current = 0 /\ step = "none"
  /\ heard = [j \in Jobs |-> <<>>] /\ comments = [j \in Jobs |-> 0]
  /\ qaCrashes = 0

-----------------------------------------------------------------------------
(* The store.  Each operation holds the lock, and writes two files.         *)

(* New jobs: their rows, then their lines.                                  *)
AddJobs(new) == Len(jobs) + Len(new) <= MaxJobs /\ jobs' = jobs \o new

RowsWith(n) == [j \in Jobs |-> IF j \in Len(jobs) + 1 .. Len(jobs) + n THEN "queued" ELSE rows[j]]

AddJob(job) == AddJobs(<<job>>) /\ rows' = RowsWith(1)

(* Behind a last line without its newline a line is part of that one, and   *)
(* together they are no JSON.                                               *)
Spoilt(q)   == [q EXCEPT ![Len(q)] = 0]
Appended(j) == IF cut = "line" THEN Spoilt(waiting) ELSE Append(waiting, j)

(* To put a line first the file is read, which raises at half a character.  *)
Behind(first, j) == Appended(j)                                   \* mutant
LineFor(first, j) ==
  IF ~first THEN Appended(j) ELSE IF cut = "garbled" THEN waiting ELSE <<j>> \o waiting

Enqueue(job) ==
  /\ AddJob(job)
  /\ waiting' = LineFor(First(job), Len(jobs) + 1)
  /\ cut' = IF cut = "line" /\ ~First(job) THEN "no" ELSE cut
  /\ UNCHANGED <<reclaimed, worker, said, qaCrashes>>

Update(j, status) == rows' = [rows EXCEPT ![j] = status]

AnythingUnsettled == {j \in Ids : rows[j] \in {"queued", "running"}}   \* mutant
AnyButQueued      == {j \in Ids : rows[j] # "queued"}             \* mutant
NoOrphans         == {}                                           \* mutant
Orphans           == {j \in Ids : rows[j] = "running"}

RowsReclaimed == [j \in Jobs |-> IF j \in Orphans THEN "queued" ELSE rows[j]]

(* A boot puts what was running before everything else, in the order of the *)
(* rows, and starts the loop.  (There is never more than one.)  It starts   *)
(* the loop too when the queue could not be read, the rows then written.    *)
Recover ==
  /\ ~up /\ up' = TRUE
  /\ rows' = RowsReclaimed
  /\ \E lines \in SetToSeqs(Orphans) :
       waiting' = IF cut = "garbled" THEN waiting ELSE lines \o waiting
  /\ reclaimed' = reclaimed \cup Orphans
  /\ UNCHANGED <<jobs, cut, current, step, said, qaCrashes>>

-----------------------------------------------------------------------------
(* The worker.                                                              *)

Readable == cut # "garbled" /\ waiting # <<>> /\ Head(waiting) # 0

(* The queue is rewritten without the line, then the row; a job that has no *)
(* row gets one from its line.                                              *)
MayClaim == up /\ step = "none" /\ Readable
TakeLine == MayClaim /\ waiting' = Tail(waiting) /\ cut' = "no"

Claim ==
  /\ TakeLine
  /\ current' = Head(waiting)
  /\ Update(Head(waiting), "running")
  /\ step' = IF jobs[Head(waiting)].type = "branch" THEN "scan" ELSE jobs[Head(waiting)].type
  /\ UNCHANGED <<jobs, reclaimed, up, said, qaCrashes>>

(* What cannot be read raises out of the loop, which ends until a boot.     *)
LoopDies ==
  /\ up /\ step = "none" /\ ~Readable
  /\ waiting # <<>> \/ cut = "garbled"
  /\ step' = "dead"
  /\ UNCHANGED <<store, up, current, said, qaCrashes>>

At(where) == current # 0 /\ step = where

Tell(what) == heard' = [heard EXCEPT ![current] = IF jobs[current].user THEN Append(@, what) ELSE @]

TellsFirst(status) == Update(current, status) /\ Tell(status) /\ step' = "notify" \* mutant
Settle(status)     == Update(current, status) /\ UNCHANGED heard /\ step' = "notify"

(* The job raised: it is failed.                                            *)
Raise ==
  /\ current # 0 /\ step \in {"repo", "review", "scan"}
  /\ step = "scan" => jobs[current].type = "branch"
  /\ Settle("failed")
  /\ UNCHANGED <<jobs, waiting, cut, reclaimed, up, current, comments, qaCrashes>>

LinesPastLast(n) == [i \in 1 .. n |-> Len(jobs) + i + 1]           \* mutant
ChildLines(n)    == [i \in 1 .. n |-> Len(jobs) + i]

(* A repository scan runs to its end without an await; without GitHub's     *)
(* leave it finds no branches.  Whom it tells, its children tell.           *)
AddChildren(n) == AddJobs([i \in 1 .. n |-> [type |-> "branch", user |-> jobs[current].user]])
Children(n)    == AddChildren(n) /\ waiting' = waiting \o ChildLines(n)

FanOut ==
  /\ At("repo") /\ step' = "notify"
  /\ \E n \in {0, Branches} :
       /\ Children(n)
       /\ rows' = [RowsWith(n) EXCEPT ![current] = "completed"]
  /\ UNCHANGED <<cut, reclaimed, up, current, said, qaCrashes>>

(* A review: assignee and model, the scan of its branch, the comment, the   *)
(* row; scan and comment may fail, which is only logged.                    *)
Review ==
  /\ At("review") /\ step' \in {"scan", "comment"}
  /\ UNCHANGED <<store, up, current, said, qaCrashes>>

Scan ==
  /\ At("scan")
  /\ IF jobs[current].type = "review" THEN step' = "comment" /\ UNCHANGED <<rows, heard>>
                                   ELSE Settle("completed")
  /\ UNCHANGED <<jobs, waiting, cut, reclaimed, up, current, comments, qaCrashes>>

Comment ==
  /\ At("comment") /\ step' = "settle"
  /\ \E posted \in {0, 1} : comments' = [comments EXCEPT ![current] = @ + posted]
  /\ UNCHANGED <<store, up, current, heard, qaCrashes>>

SettleReview ==
  /\ At("settle") /\ Settle("completed")
  /\ UNCHANGED <<jobs, waiting, cut, reclaimed, up, current, comments, qaCrashes>>

(* The chat is told after the row is written; sending may fail.             *)
Notify ==
  /\ At("notify")
  /\ Tell(rows[current]) \/ UNCHANGED heard
  /\ current' = 0 /\ step' = "none"
  /\ UNCHANGED <<store, up, comments, qaCrashes>>

TimedOut(j)    == Update(j, "failed")

(* Forty-five minutes: the coroutine is cancelled at its await, what the    *)
(* thread of that await does perhaps done; nobody is told.  That includes   *)
(* the await of the message that tells of a job that completed.             *)
JobTimeout ==
  /\ current # 0 /\ step \in {"review", "scan", "comment", "settle", "notify"}
  /\ TimedOut(current)
  /\ IF step = "notify" THEN Tell(rows[current]) \/ UNCHANGED heard ELSE UNCHANGED heard
  /\ \E posted \in {0, 1} :
       comments' = [comments EXCEPT ![current] = IF step = "comment" THEN @ + posted ELSE @]
  /\ current' = 0 /\ step' = "none"
  /\ UNCHANGED <<jobs, waiting, cut, reclaimed, up, qaCrashes>>

-----------------------------------------------------------------------------
(* A crash, also inside an operation of the store.                          *)

(* The status file is cut: no row is left.                                  *)
Lost(r) ==
  [j \in Jobs |-> IF r[j] \in Waits THEN "unlisted" ELSE IF r[j] \in NoRow THEN r[j] ELSE "forgotten"]

(* The queue file is cut while it is rewritten as q: behind a newline, or   *)
(* anywhere else, before or inside the characters of its last line.         *)
Cut(q) ==
  \/ \E n \in 0 .. Len(q) - 1 : waiting' = SubSeq(q, 1, n) /\ cut' = "no"
  \/ /\ \E n \in 1 .. Len(q) : waiting' \in {SubSeq(q, 1, n), Spoilt(SubSeq(q, 1, n))}
     /\ cut' \in {"line", "garbled"}

(* A new line at its end is cut.                                            *)
CutLine(j) == waiting' \in {Appended(j), Appended(0)} /\ cut' \in {"line", "garbled"}

(* Between the files the row of a new job is without its line.              *)
CutEnqueue ==
  /\ \E job \in Requests :
       /\ AddJob(job)
       /\ \/ UNCHANGED <<waiting, cut>>
          \/ /\ cut # "garbled"
             /\ IF First(job) THEN Cut(<<Len(jobs) + 1>> \o waiting) ELSE CutLine(Len(jobs) + 1)
  /\ UNCHANGED reclaimed

(* Between the files the line of a job is gone and its row as it was.       *)
CutClaim ==
  /\ TakeLine \/ (MayClaim /\ Cut(Tail(waiting)))
  /\ UNCHANGED <<jobs, rows, reclaimed>>

(* Between the files the rows are put back without their lines.             *)
CutRecover ==
  /\ ~up /\ Orphans # {}
  /\ rows' = RowsReclaimed /\ reclaimed' = reclaimed \cup Orphans
  /\ \/ UNCHANGED <<waiting, cut>>
     \/ cut # "garbled" /\ \E lines \in SetToSeqs(Orphans) : Cut(lines \o waiting)
  /\ UNCHANGED jobs

(* Part of a fan-out: its last branch has no line yet, or a cut one.        *)
CutFanOut ==
  /\ At("repo")
  /\ \E n \in 1 .. Branches :
       /\ AddChildren(n) /\ rows' = RowsWith(n)
       /\ LET lines == waiting \o ChildLines(n)
          IN  \/ waiting' \in {lines, SubSeq(lines, 1, Len(lines) - 1)} /\ UNCHANGED cut
              \/ waiting' \in {lines, Spoilt(lines)} /\ cut' \in {"line", "garbled"}
  /\ UNCHANGED reclaimed

(* A write of the status file: at any time one of a new job, or one of the  *)
(* worker, its claim and its fan-out included.                              *)
CutStatus ==
  /\ \/ UNCHANGED <<jobs, waiting, cut>> /\ rows' = Lost(rows)
     \/ TakeLine /\ rows' = Lost(rows) /\ UNCHANGED jobs
     \/ /\ At("repo")
        /\ \E n \in 1 .. Branches : Children(n) /\ rows' = Lost(RowsWith(n))
        /\ UNCHANGED cut
  /\ UNCHANGED reclaimed

QaCrash ==
  /\ qaCrashes < MaxQaCrashes /\ qaCrashes' = qaCrashes + 1
  /\ UNCHANGED store \/ CutEnqueue \/ CutClaim \/ CutRecover \/ CutFanOut \/ CutStatus
  /\ up' = FALSE /\ current' = 0 /\ step' = "none"
  /\ UNCHANGED said

(* Users, the schedule and GitHub; a daemon that has not recovered yet      *)
(* takes their jobs too.                                                    *)
QaEnvironment ==
  \/ \E job \in Requests : Enqueue(job)
  \/ QaCrash

QaSystem ==
  \/ Recover \/ Claim \/ LoopDies
  \/ Raise \/ FanOut \/ Review \/ Scan \/ Comment \/ SettleReview \/ Notify
  \/ JobTimeout

QaNext == QaSystem \/ QaEnvironment

QaSpec == QaInit /\ [][QaNext]_qa

-----------------------------------------------------------------------------
(* Properties.                                                              *)

(* Each variable has its type.                                              *)
QaTypeOK ==
  /\ jobs \in Seq(JobType) /\ Len(jobs) <= MaxJobs
  /\ waiting \in Seq(Ids \cup {0}) /\ cut \in {"no", "line", "garbled"}
  /\ rows \in [Jobs -> NoRow \cup {"queued", "running"} \cup Settled]
  /\ up \in BOOLEAN /\ current \in Ids \cup {0}
  /\ step \in {"none", "dead", "repo", "review", "scan", "comment", "settle", "notify"}
  /\ heard \in [Jobs -> Seq(Settled)] /\ comments \in [Jobs -> Nat]
  /\ reclaimed \subseteq Ids /\ qaCrashes \in 0 .. MaxQaCrashes

(* A line stands for a job that waits, and a job has one line at most, so   *)
(* none is run twice without a crash; job_store.py:126, "during a live poll *)
(* loop a running job is the one currently being processed": no row is left *)
(* running behind.  All this whatever file a crash cut: lines that are no   *)
(* JSON stand for nothing, and a job that waits may have lost its row.      *)
(* Until a crash every line is a job's, and the job's row says queued.      *)
QueueRows ==
  /\ \A i \in DOMAIN waiting :
       IF waiting[i] = 0 THEN qaCrashes > 0
       ELSE rows[waiting[i]] = "queued" \/ (rows[waiting[i]] = "unlisted" /\ qaCrashes > 0)
  /\ \A i, k \in DOMAIN waiting : waiting[i] = waiting[k] => i = k \/ waiting[i] = 0
  /\ up => \A j \in Ids : rows[j] = "running" => j = current
  /\ current # 0 => rows[current] \in {"running"} \cup Settled

(* scan_request.py:26, "User-requested PR reviews jump ahead of scheduled   *)
(* background scans": of jobs, only what a boot put back may be before one. *)
PriorityFirst ==
  \A i, k \in DOMAIN waiting :
    i < k /\ waiting[i] # 0 /\ waiting[k] # 0 /\ Priority(waiting[k]) =>
      Priority(waiting[i]) \/ waiting[i] \in reclaimed

(* A chat is told of its job once, through every crash, cut file and        *)
(* timeout, and a pull request gets one comment each time its review is run.*)
SaidOnce ==
  \A j \in Ids : Len(heard[j]) <= 1 /\ comments[j] <= 1 + qaCrashes

(* A job that has ended is not run again, and what its row says of its end  *)
(* stands, unless a crash cuts the status file; nor is a job run again that *)
(* was in hand, or had ended, when its row was lost.                        *)
OutcomeFinal ==
  [][\A j \in Ids :
       /\ rows[j] \in Settled =>
            rows'[j] \in Settled \/ (rows'[j] = "forgotten" /\ qaCrashes' > qaCrashes)
       /\ rows[j] = "forgotten" => rows'[j] = "forgotten" /\ current' # j]_qa

-----------------------------------------------------------------------------
(* Fairness.  The loop goes on, and its timer fires; a scan, a model or a   *)
(* message may hang.                                                        *)
QaFairness ==
  /\ WF_qa(Recover) /\ WF_qa(Claim)
  /\ WF_qa(SettleReview) /\ WF_qa(JobTimeout)
  /\ WF_qa(At("repo") /\ (FanOut \/ Raise))

QaFairSpec == QaSpec /\ QaFairness

(* A job that cannot end any more: its row was lost while it was in hand;   *)
(* its line was lost, and it waits without one; or the loop does not come   *)
(* to its line, the file being unreadable before it, or has ended there     *)
(* before a line was put first.                                             *)
Stranded(j) ==
  \/ rows[j] = "forgotten"
  \/ rows[j] \in Waits /\ \A i \in DOMAIN waiting : waiting[i] # j
  \/ cut = "garbled" \/ step = "dead"
  \/ \E i \in DOMAIN waiting : waiting[i] = 0 /\ \A k \in 1 .. i : waiting[k] # j

(* Every job ends, unless a crash strands it: a scan that hangs does not    *)
(* block those behind it, and a boot puts back what was in hand.            *)
EveryScanEnds ==
  \A j \in Jobs : j \in Ids ~> rows[j] \in Settled \/ (qaCrashes > 0 /\ Stranded(j))
=============================================================================

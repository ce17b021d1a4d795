------------------------------- MODULE MeetJobs -------------------------------
(***************************************************************************)
(* Meeting jobs where the daemon delegates them to the meet-worker         *)
(* container.  The daemon enqueues joins (calendar, dashboard), recovers   *)
(* and finalizes at its start and re-finalizes on request; the worker      *)
(* recovers and finalizes at its start, then claims jobs and records each  *)
(* one in a thread with a capture slot of its own.                         *)
(*                                                                         *)
(* Both processes work on job_queue.jsonl and job_status.json.  The lock   *)
(* of the store is a threading.Lock: inside a process one operation        *)
(* excludes the next, between processes nothing does.  So an operation is  *)
(* a step that reads the files and a later one that writes them, computed  *)
(* from what was read.  `lost' is set when a write takes back what the     *)
(* other process wrote in between: which properties survive that, and      *)
(* which do not, is what this module is about.                             *)
(*                                                                         *)
(* Operators marked "mutant" are mistakes the code could have made.        *)
(***************************************************************************)
EXTENDS Naturals, Sequences, FiniteSets, SequencesExt

CONSTANTS MaxJobs,      \* bound on the jobs of a behaviour
          Link,         \* the meet_url of each job
          Slots,        \* the pool: meet_max_concurrent capture slots
          NoSlot,
          MaxRequests,  \* bound on the requests to summarize or process a meeting
          MaxRaces,     \* bound on the operations begun during one of the other process
          MaxDeaths     \* bound on the crashes of the two processes

Jobs  == 1 .. MaxJobs   \* in the order in which they are enqueued
Procs == {"daemon", "worker"}

ASSUME MeetConstants ==
  /\ MaxJobs \in Nat /\ MaxRequests \in Nat /\ MaxRaces \in Nat /\ MaxDeaths \in Nat
  /\ DOMAIN Link = Jobs
  /\ IsFiniteSet(Slots) /\ Slots # {} /\ NoSlot \notin Slots

VARIABLES
  rows,      \* job_status.json: the status of a job, "absent" without a row
  lines,     \* job_queue.jsonl: queued jobs, oldest first
  joined,    \* how many jobs were enqueued
  asked,     \* how often the dashboard asked for a meeting to be finalized again
  op,        \* the store operation under way in each process
  races,     \* how many began while the other process had one under way
  phase,     \* how far each process has come since it started
  todo,      \* jobs each process listed as interrupted and has yet to finalize
  loop,      \* the worker's poll loop
  task,      \* the job that runs with each slot, and its progress
  free,      \* the slots in the pool
  inFlight,  \* the poll loop's in_flight: the task it knows a job by
  lost,      \* history: a write took back another process's write
  meddled,   \* history: jobs whose row someone else wrote while they ran
  deaths     \* history: crashes of the processes

files  == <<rows, lines>>
ops    == <<op, races>>
daemon == <<joined, asked>>
worker == <<loop, task, free, inFlight>>
meet   == <<files, daemon, ops, phase, todo, worker, lost, meddled, deaths>>

ActiveJobStatuses     == {"queued", "running", "finalizing", "interrupted"}
TerminalCovered       == {"completed"}    \* completed or empty: the two differ in speech
Settled               == TerminalCovered \cup {"failed", "skipped"}
Stages                == {"claimed", "running", "waiting_to_record", "recording",
                          "finalizing", "over"}

NoTask == [job |-> 0, at |-> "none"]
Free   == [do |-> "nothing"]

MeetInit ==
  /\ rows = [j \in Jobs |-> "absent"]
  /\ lines = <<>>
  /\ joined = 0 /\ asked = 0
  /\ op = [p \in Procs |-> Free]
  /\ races = 0
  /\ phase = [p \in Procs |-> "down"]
  /\ todo = [p \in Procs |-> {}]
  /\ loop = "sleep"
  /\ task = [s \in Slots |-> NoTask]
  /\ free = Slots
  /\ inFlight = [j \in Jobs |-> NoSlot]
  /\ lost = FALSE
  /\ meddled = {}
  /\ deaths = 0

Queued == {lines[i] : i \in DOMAIN lines}
Live(j) == \E s \in Slots : task[s].job = j

-----------------------------------------------------------------------------
(* Reading and writing the two files.                                       *)

Begin(p, o) ==
  /\ op[p] = Free /\ op' = [op EXCEPT ![p] = o]
  /\ races' = IF \E q \in Procs : op[q] # Free THEN races + 1 ELSE races
  /\ races' <= MaxRaces

End(p) == op' = [op EXCEPT ![p] = Free] /\ UNCHANGED races

(* A write of the rows puts back every row as it was read.                  *)
WriteRows(p, new) ==
  /\ rows' = new
  /\ lost' = (lost \/ rows # op[p].rows)

(* update_job_status: the new status is merged into the row as read.        *)
Update(p, j, st, s) ==
  Begin(p, [do |-> "update", job |-> j, to |-> st, slot |-> s, rows |-> rows])

UpdateWrite(p) ==
  LET o == op[p] IN
  /\ o.do = "update"
  /\ WriteRows(p, [o.rows EXCEPT ![o.job] = o.to])
  /\ task' = IF o.slot = NoSlot THEN task
             ELSE [task EXCEPT ![o.slot].at = IF o.to \in Settled THEN "over" ELSE o.to]
  /\ meddled' = IF o.slot = NoSlot /\ Live(o.job) THEN meddled \cup {o.job} ELSE meddled
  /\ End(p)
  /\ UNCHANGED <<lines, daemon, phase, todo, loop, free, inFlight, deaths>>

-----------------------------------------------------------------------------
(* Enqueue, in the daemon.                                                  *)

ActiveJobFor(link) == \E j \in Jobs : Link[j] = link /\ rows[j] \in ActiveJobStatuses

(* A link with an active job gets that job and no new one.                  *)
Join ==
  LET j == joined + 1 IN
  /\ phase["daemon"] # "down"
  /\ j \in Jobs /\ ~ ActiveJobFor(Link[j])
  /\ Begin("daemon", [do |-> "enqueue", job |-> j, rows |-> rows])
  /\ lines' = Append(lines, j)
  /\ joined' = j
  /\ UNCHANGED <<rows, asked, phase, todo, worker, lost, meddled, deaths>>

JoinWrite ==
  LET o == op["daemon"] IN
  /\ o.do = "enqueue"
  /\ WriteRows("daemon", [o.rows EXCEPT ![o.job] = "queued"])
  /\ End("daemon")
  /\ UNCHANGED <<lines, daemon, phase, todo, worker, meddled, deaths>>

-----------------------------------------------------------------------------
(* Recovery, at the start of either process and while the worker polls.     *)

(* Rows of a recovery: those it takes for orphans and what becomes of them. *)
StartupStatuses == {"running", "finalizing", "waiting_to_record"}

OrphansEvenIfOwned(r, aged)  == {j \in aged : r[j] \in {"running", "finalizing"}} \* mutant
PollOrphans(r, aged) ==
  {j \in aged : r[j] \in {"running", "finalizing"} /\ inFlight[j] = NoSlot}

StartOrphansOfAnyStatus(r) == {j \in Jobs : r[j] \notin {"absent", "queued"}}      \* mutant
StartOrphansWithoutLobby(r) == {j \in Jobs : r[j] \in {"running", "finalizing"}}   \* mutant
StartOrphans(r) == {j \in Jobs : r[j] \in StartupStatuses}

Recovered(o) ==
  [j \in Jobs |->
     IF j \notin o.orphans THEN o.rows[j]
     ELSE IF \E k \in o.queued : Link[k] = Link[j] THEN "failed"
     ELSE IF o.start \/ o.rows[j] = "finalizing" THEN "interrupted"
     ELSE "queued"]

(* Nothing is written when there is no orphan.                              *)
AfterRecovery(p, start) ==
  IF start THEN phase' = [phase EXCEPT ![p] = "list"] /\ UNCHANGED loop
           ELSE loop' = "claim" /\ UNCHANGED phase

Recovery(p, start, orphans) ==
  /\ IF orphans = {}
     THEN op[p] = Free /\ UNCHANGED ops /\ AfterRecovery(p, start)
     ELSE /\ Begin(p, [do |-> "recover", start |-> start, orphans |-> orphans,
                       queued |-> Queued, rows |-> rows, lines |-> lines])
          /\ UNCHANGED <<phase, loop>>
  /\ UNCHANGED <<files, daemon, todo, task, free, inFlight, lost, meddled, deaths>>

StartRecovery(p) == phase[p] = "recover" /\ Recovery(p, TRUE, StartOrphans(rows))

(* Every twentieth round.  `aged' are the jobs that started ten minutes ago *)
(* or earlier.                                                              *)
PollRecovery ==
  /\ phase["worker"] = "ready" /\ loop = "recover"
  /\ \E aged \in SUBSET {j \in Jobs : rows[j] \in {"running", "finalizing"}} :
       Recovery("worker", FALSE, PollOrphans(rows, aged))

RecoveryWrite(p) ==
  LET o   == op[p]
      new == Recovered(o)
      again == {j \in o.orphans : new[j] = "queued"}
  IN
  /\ o.do = "recover"
  /\ \E q \in SetToSeqs(again) : lines' = o.lines \o q
  /\ rows' = new
  /\ lost' = (lost \/ rows # o.rows \/ lines # o.lines)
  /\ meddled' = meddled \cup {j \in o.orphans : Live(j)}
  /\ End(p) /\ AfterRecovery(p, o.start)
  /\ UNCHANGED <<daemon, todo, task, free, inFlight, deaths>>

-----------------------------------------------------------------------------
(* Finalizing what was interrupted, and finalizing again on request.        *)

List(p) ==
  /\ phase[p] = "list" /\ op[p] = Free
  /\ phase' = [phase EXCEPT ![p] = "finalize"]
  /\ todo' = [todo EXCEPT ![p] = {j \in Jobs : rows[j] = "interrupted"}]
  /\ UNCHANGED <<files, daemon, ops, worker, lost, meddled, deaths>>

(* repair_meeting_finalize transcribes, uploads, archives and notifies, and *)
(* then writes the outcome; it fails when any of that does.                 *)
Finalize(p, j) ==
  /\ phase[p] = "finalize" /\ j \in todo[p]
  /\ \E st \in TerminalCovered \cup {"failed"} : Update(p, j, st, NoSlot)
  /\ todo' = [todo EXCEPT ![p] = @ \ {j}]
  /\ UNCHANGED <<files, daemon, phase, worker, lost, meddled, deaths>>

Finalized(p) ==
  /\ phase[p] = "finalize" /\ todo[p] = {} /\ op[p] = Free
  /\ phase' = [phase EXCEPT ![p] = "ready"]
  /\ UNCHANGED <<files, daemon, ops, todo, worker, lost, meddled, deaths>>

(* The dashboard's summarize and process requests, for a meeting that left  *)
(* something on disk.                                                       *)
Resummarize(j) ==
  /\ phase["daemon"] # "down"
  /\ rows[j] \in {"recording", "finalizing", "interrupted", "failed"} \cup TerminalCovered
  /\ asked < MaxRequests /\ asked' = asked + 1
  /\ \E st \in TerminalCovered : Update("daemon", j, st, NoSlot)
  /\ UNCHANGED <<files, joined, phase, todo, worker, lost, meddled, deaths>>

-----------------------------------------------------------------------------
(* The worker's poll loop.                                                  *)

(* A round starts by forgetting the tasks that are done.                    *)
Done(j)       == inFlight[j] \in Slots => task[inFlight[j]].job # j

Tick ==
  /\ phase["worker"] = "ready" /\ loop = "sleep"
  /\ inFlight' = [j \in Jobs |-> IF Done(j) THEN NoSlot ELSE inFlight[j]]
  /\ loop' \in {"recover", "claim"}
  /\ UNCHANGED <<files, daemon, ops, phase, todo, task, free, lost, meddled, deaths>>

InFlight == {j \in Jobs : inFlight[j] # NoSlot}
Capacity == Cardinality(InFlight) < Cardinality(Slots) /\ free # {}

(* The slot is taken first, and given back when there is no job.            *)
Claim(s) ==
  /\ phase["worker"] = "ready" /\ loop = "claim"
  /\ Capacity /\ s \in free
  /\ lines # <<>>
  /\ Begin("worker", [do |-> "claim", slot |-> s, lines |-> lines])
  /\ free' = free \ {s}
  /\ UNCHANGED <<files, daemon, phase, todo, loop, task, inFlight, lost, meddled, deaths>>

Sleep ==
  /\ phase["worker"] = "ready" /\ loop = "claim" /\ op["worker"] = Free
  /\ ~ Capacity \/ lines = <<>>
  /\ loop' = "sleep"
  /\ UNCHANGED <<files, daemon, ops, phase, todo, task, free, inFlight, lost, meddled, deaths>>

KeepsClaimed(q, link) == DOMAIN q                                 \* mutant
Others(q, link)       == {i \in DOMAIN q : Link[q[i]] # link}

(* The newest line is claimed; older ones with its link go with it, and the *)
(* others stay in their order.                                              *)
ClaimWrite ==
  LET o == op["worker"]
      j == o.lines[Len(o.lines)]
      dropped == {o.lines[i] : i \in {i \in DOMAIN o.lines : Link[o.lines[i]] = Link[j]}}
  IN
  /\ o.do = "claim"
  /\ \E kept \in SetToSeqs(Others(o.lines, Link[j])) :
       /\ \A m, n \in DOMAIN kept : m < n => kept[m] < kept[n]
       /\ lines' = [n \in DOMAIN kept |-> o.lines[kept[n]]]
  /\ lost' = (lost \/ lines # o.lines)
  /\ op' = [op EXCEPT !["worker"] = [do |-> "claimed", job |-> j, slot |-> o.slot,
                                     dropped |-> dropped, rows |-> rows]]
  /\ UNCHANGED races
  /\ UNCHANGED <<rows, daemon, phase, todo, worker, meddled, deaths>>

SupersedesAnyStatus(o, k) == k # o.job /\ Link[k] = Link[o.job]  \* mutant
Superseded(o, k) ==
  /\ k # o.job /\ Link[k] = Link[o.job]
  /\ \/ o.rows[k] = "queued"
     \/ o.rows[k] = "absent" /\ k \in o.dropped

ClaimedWrite ==
  LET o == op["worker"] IN
  /\ o.do = "claimed"
  /\ WriteRows("worker", [k \in Jobs |-> IF k = o.job THEN "running"
                                         ELSE IF Superseded(o, k) THEN "skipped"
                                         ELSE o.rows[k]])
  /\ task' = [task EXCEPT ![o.slot] = [job |-> o.job, at |-> "claimed"]]
  /\ inFlight' = [inFlight EXCEPT ![o.job] = o.slot]
  /\ End("worker")
  /\ UNCHANGED <<lines, daemon, phase, todo, loop, free, meddled, deaths>>

-----------------------------------------------------------------------------
(* A job's thread.  Each step ends in a write of its row.                   *)

(* What it may write next: the way to a recording, an early leave from the  *)
(* lobby, and what the exception handler leaves, which is an outcome when   *)
(* there was something to finalize.                                         *)
NextStatusLeft(at) == {"left", "failed"}                          \* mutant
NextStatuses(at) ==
  CASE at = "claimed"           -> {"running", "failed"}
    [] at = "running"           -> {"waiting_to_record", "failed"}
    [] at = "waiting_to_record" -> {"recording", "finalizing", "failed"} \cup TerminalCovered
    [] at = "recording"         -> {"finalizing", "failed"} \cup TerminalCovered
    [] at = "finalizing"        -> {"failed"} \cup TerminalCovered
    [] OTHER                    -> {}

Work(s) ==
  /\ task[s].at = "claimed" => loop = "sleep"
  /\ \E st \in NextStatuses(task[s].at) : Update("worker", task[s].job, st, s)
  /\ UNCHANGED <<files, daemon, phase, todo, worker, lost, meddled, deaths>>

(* The coroutine around the thread gives its slot back.  It runs on the     *)
(* loop's thread, so between two rounds.                                    *)
FreeTwice(s) == free' = free \cup {s, CHOOSE x \in Slots : TRUE}  \* mutant
Release(s)   == free' = free \cup {s}

EndTask(s) ==
  /\ task[s].at = "over" /\ loop = "sleep"
  /\ task' = [task EXCEPT ![s] = NoTask]
  /\ Release(s)
  /\ UNCHANGED <<files, daemon, ops, phase, todo, loop, inFlight, lost, meddled, deaths>>

-----------------------------------------------------------------------------
(* The processes.                                                           *)

Start(p) ==
  /\ phase[p] = "down"
  /\ phase' = [phase EXCEPT ![p] = "recover"]
  /\ UNCHANGED <<files, daemon, ops, todo, worker, lost, meddled, deaths>>

(* Killed: what it was doing is gone.                                       *)
MeetCrash(p) ==
  /\ phase[p] # "down" /\ deaths < MaxDeaths
  /\ deaths' = deaths + 1
  /\ phase' = [phase EXCEPT ![p] = "down"]
  /\ todo' = [todo EXCEPT ![p] = {}]
  /\ End(p)
  /\ IF p = "worker"
     THEN /\ loop' = "sleep"
          /\ task' = [s \in Slots |-> NoTask]
          /\ free' = Slots
          /\ inFlight' = [j \in Jobs |-> NoSlot]
     ELSE UNCHANGED worker
  /\ UNCHANGED <<files, daemon, lost, meddled>>

MeetEnvironment ==
  \/ Join
  \/ \E j \in Jobs : Resummarize(j)
  \/ \E p \in Procs : MeetCrash(p)

MeetSystem ==
  \/ JoinWrite \/ PollRecovery \/ Tick \/ Sleep \/ ClaimWrite \/ ClaimedWrite
  \/ \E p \in Procs : \/ Start(p) \/ StartRecovery(p) \/ RecoveryWrite(p)
                      \/ List(p) \/ Finalized(p) \/ UpdateWrite(p)
                      \/ \E j \in Jobs : Finalize(p, j)
  \/ \E s \in Slots : Claim(s) \/ Work(s) \/ EndTask(s)

MeetNext == MeetSystem \/ MeetEnvironment

MeetSpec == MeetInit /\ [][MeetNext]_meet

-----------------------------------------------------------------------------
(* Invariants.                                                              *)

JobStatuses == {"absent", "queued", "running", "waiting_to_record", "recording",
                "finalizing", "interrupted"} \cup Settled

Rows  == [Jobs -> JobStatuses]
Lines == Seq(Jobs)

(* What a process may have under way in the store.                          *)
Updates  == [do : {"update"}, job : Jobs, to : JobStatuses, slot : Slots \cup {NoSlot}, rows : Rows]
Enqueues == [do : {"enqueue"}, job : Jobs, rows : Rows]
Recovers == [do : {"recover"}, start : BOOLEAN, orphans : SUBSET Jobs, queued : SUBSET Jobs,
             rows : Rows, lines : Lines]
Claims   == [do : {"claim"}, slot : Slots, lines : Lines]
Claimed  == [do : {"claimed"}, job : Jobs, slot : Slots, dropped : SUBSET Jobs, rows : Rows]

Operations == {Free} \cup Updates \cup Enqueues \cup Recovers \cup Claims \cup Claimed

(* Each variable has its type.                                              *)
MeetTypeOK ==
  /\ rows \in Rows /\ lines \in Lines
  /\ joined \in 0 .. MaxJobs /\ asked \in 0 .. MaxRequests
  /\ op \in [Procs -> Operations]
  /\ op["daemon"].do \notin {"claim", "claimed"} /\ op["worker"].do # "enqueue"
  /\ phase \in [Procs -> {"down", "recover", "list", "finalize", "ready"}]
  /\ todo \in [Procs -> SUBSET Jobs]
  /\ loop \in {"sleep", "recover", "claim"}
  /\ task \in [Slots -> [job : Jobs \cup {0}, at : Stages \cup {"none"}]]
  /\ free \subseteq Slots
  /\ inFlight \in [Jobs -> Slots \cup {NoSlot}]
  /\ lost \in BOOLEAN /\ meddled \subseteq Jobs
  /\ races \in 0 .. MaxRaces /\ deaths \in 0 .. MaxDeaths

Held == IF op["worker"].do \in {"claim", "claimed"} THEN {op["worker"].slot} ELSE {}
Busy == {s \in Slots : task[s] # NoTask}

(* A slot is in the pool, in the claiming hand, or with one job, and with   *)
(* only one of them: no display is shared and none leaks, races or not.     *)
SlotsKept ==
  /\ free \cup Held \cup Busy = Slots
  /\ free \cap Held = {} /\ free \cap Busy = {} /\ Held \cap Busy = {}

(* While no write takes back another process's, no job runs twice.          *)
OneTask ==
  ~ lost => \A s, t \in Slots : s # t /\ task[s] # NoTask => task[s].job # task[t].job

(* Unless something was lost or someone else wrote its row while it ran, a  *)
(* running job's row says how far it is.                                    *)
RowOf(at) == IF at = "claimed" THEN {"running"} ELSE IF at = "over" THEN Settled ELSE {at}
LiveRows ==
  ~ lost => \A s \in Slots : task[s] # NoTask /\ task[s].job \notin meddled
                               => rows[task[s].job] \in RowOf(task[s].at)

Touches(o, j) ==
  \/ o.do \in {"update", "enqueue", "claimed"} /\ o.job = j
  \/ o.do = "claimed" /\ Superseded(o, j)
  \/ o.do = "recover" /\ j \in o.orphans

(* The queue and the rows name the same jobs, but for the operation under   *)
(* way: a job that waits can be claimed, and one that was claimed cannot be *)
(* claimed again.                                                           *)
QueueRows ==
  ~ lost /\ deaths = 0 =>
    \A j \in Jobs : \/ (rows[j] = "queued") <=> (j \in Queued)
                    \/ \E p \in Procs : Touches(op[p], j)

(* A settled job that is not running stays settled: no recovery, claim or   *)
(* late write brings it back.                                               *)
StaysSettled ==
  [][\A j \in Jobs : ~ lost' /\ rows[j] \in Settled /\ ~ Live(j) => rows'[j] \in Settled /\ ~ Live(j)']_meet

(* What the start of the worker promises (job_store.py:35): in-flight jobs  *)
(* whose process died are up for finalization.                              *)
InFlightStatuses == {"running", "waiting_to_record", "recording", "finalizing"}
OrphansInterrupted ==
  ~ lost /\ phase["worker"] = "list" =>
    \A j \in Jobs : rows[j] \in InFlightStatuses => Live(j)

-----------------------------------------------------------------------------
(* Fairness.  Both processes are restarted by compose and their loops go    *)
(* round; a thread goes on and ends, since a meeting has a longest duration;*)
(* the loop's thread gets to a finished coroutine between two rounds.       *)
MeetFairness ==
  /\ \A p \in Procs : /\ WF_meet(Start(p)) /\ WF_meet(StartRecovery(p))
                      /\ WF_meet(RecoveryWrite(p)) /\ WF_meet(List(p))
                      /\ WF_meet(\E j \in Jobs : Finalize(p, j))
                      /\ WF_meet(Finalized(p)) /\ WF_meet(UpdateWrite(p))
  /\ WF_meet(JoinWrite) /\ WF_meet(Tick) /\ WF_meet(Sleep) /\ WF_meet(PollRecovery)
  /\ WF_meet(\E s \in Slots : Claim(s)) /\ WF_meet(ClaimWrite) /\ WF_meet(ClaimedWrite)
  /\ \A s \in Slots : WF_meet(Work(s)) /\ SF_meet(EndTask(s))

MeetFairSpec == MeetSpec /\ MeetFairness

(* What no recovery looks at: a recording whose process died, and a queued  *)
(* row whose line is gone.                                                  *)
Stuck(j) ==
  \/ rows[j] = "recording" /\ ~ Live(j)
  \/ rows[j] = "queued" /\ j \notin Queued

(* Every meeting that was asked for is settled in the end, through any      *)
(* crash, unless a write was lost or it is stuck.                           *)
EveryMeetingEnds ==
  \A j \in Jobs : (rows[j] = "queued") ~> (rows[j] \in Settled \/ Stuck(j) \/ lost)
=============================================================================

------------------------------ MODULE VarysTicks ------------------------------
(***************************************************************************)
(* The Varys harness: a database of tickets, events and sessions, and the  *)
(* orchestrator's ticks, which poll for events and put those of each       *)
(* context to Claude.  Ticks of the daemon's loop and of the command line  *)
(* share a lock that lapses after half an hour.                            *)
(*                                                                         *)
(* A step is a commit, or commits that follow each other at once; a crash  *)
(* may come between them.  A poll is one step: it only inserts, and the    *)
(* failure of a source is caught where it happens.                         *)
(*                                                                         *)
(* Operators marked "mutant" are mistakes the code could have made.        *)
(***************************************************************************)
EXTENDS Naturals, FiniteSets

CONSTANTS Tickets,     \* bound on the tickets of a behaviour
          Threads,     \* threads a go-ahead can come from
          Items,       \* pages, issues and pull requests that are polled
          MaxGos,      \* bound on the different go-aheads of a thread
          MaxRevs,     \* bound on the revisions of an item
          Loop,        \* the tick of the daemon's loop
          Shells,      \* ticks of the command line
          None,        \* nobody, no context
          MaxFaults    \* bound on the crashes and overruns of a behaviour

Tickers  == {Loop} \cup Shells
Contexts == Tickets \cup Threads \cup Items

\* An event is about one context; its id makes it unique.
Events == [context : Tickets, n : {1}] \cup [context : Threads, n : 1 .. MaxGos]
            \cup [context : Items, n : 1 .. MaxRevs]
Created(ticket) == [context |-> ticket, n |-> 1]

ASSUME ConstantsAssumption ==
  /\ MaxGos \in Nat /\ MaxRevs \in Nat /\ MaxFaults \in Nat
  /\ IsFiniteSet(Shells) /\ Loop \notin Shells /\ None \notin Tickers \cup Contexts
  /\ Tickets \cap Threads = {} /\ Tickets \cap Items = {} /\ Threads \cap Items = {}

VARIABLES
  tickets,     \* the rows of tickets, none of which is ever closed
  status,      \* the status of each event
  sessions,    \* how many sessions of each context are running
  rev,         \* revisions of each item so far
  unsynced,    \* items updated later than last_sync_at
  lock,        \* who holds tick_lock
  lapsed,      \* the lock is older than half an hour
  run,         \* where each tick is
  prompts,     \* history: how often each event was put to Claude
  late,        \* history: events that came while their context was dispatched
  dropped,     \* history: events of a dispatch that failed
  overlooked,  \* history: updates during a tick, or that a failed poll missed
  overruns,    \* history: ticks that outlasted their lock
  crashes      \* history: ticks that were killed

db      == <<tickets, status, sessions, unsynced, lock>>
seen    == <<prompts, late, dropped, overlooked>>
vars    == <<db, rev, lapsed, run, seen, overruns, crashes>>

Idle    == [at |-> "idle", todo |-> {}, context |-> None, batch |-> {}]
Running == {t \in Tickers : run[t].at # "idle"}

Init ==
  /\ tickets = {} /\ unsynced = {} /\ lock = None /\ lapsed = FALSE
  /\ status = [e \in Events |-> "none"]
  /\ sessions = [c \in Contexts |-> 0]
  /\ rev = [i \in Items |-> 0]
  /\ run = [t \in Tickers |-> Idle]
  /\ prompts = [e \in Events |-> 0]
  /\ late = {} /\ dropped = {} /\ overlooked = {}
  /\ overruns = 0 /\ crashes = 0

-----------------------------------------------------------------------------
(* Events.  An id that is known is ignored.                                 *)

Dispatched(c) ==
  \E t \in Tickers : run[t].context = c /\ run[t].at \in {"open", "prompt"}

Insert(S) ==
  /\ status' = [e \in Events |-> IF e \in S /\ status[e] = "none" THEN "pending" ELSE status[e]]
  /\ late' = late \cup {e \in S : status[e] = "none" /\ Dispatched(e.context)}

Pending(c) == {e \in Events : e.context = c /\ status[e] = "pending"}

(* A work request is made a ticket; the ticket and its event are two        *)
(* commits, the second of which a crash may prevent.                        *)
Create(ticket) ==
  /\ ticket \notin tickets /\ tickets' = tickets \cup {ticket}
  /\ \E told \in {{}, {Created(ticket)}} : Insert(told)
  /\ UNCHANGED <<sessions, unsynced, lock, rev, lapsed, run, prompts, dropped,
                 overlooked, overruns, crashes>>

(* A go-ahead, in a chat or of a ticket on the dashboard.                   *)
Approve(e) ==
  /\ Insert({e})
  /\ UNCHANGED <<tickets, sessions, unsynced, lock, rev, lapsed, run, prompts,
                 dropped, overlooked, overruns, crashes>>

(* Notion, Jira and GitHub; a tick looks at them at its beginning.          *)
Update(i) ==
  /\ rev[i] < MaxRevs /\ rev' = [rev EXCEPT ![i] = @ + 1]
  /\ unsynced' = unsynced \cup {i}
  /\ overlooked' = IF \E t \in Running : run[t].at # "poll"
                   THEN overlooked \cup {[context |-> i, n |-> rev'[i]]} ELSE overlooked
  /\ UNCHANGED <<tickets, status, sessions, lock, lapsed, run, prompts, late,
                 dropped, overruns, crashes>>

-----------------------------------------------------------------------------
(* A tick.                                                                  *)
At(t, where) == run[t].at = where
Goto(t, where) == run' = [run EXCEPT ![t].at = where]

NeverLapses == lock = None                                        \* mutant
Free        == lock = None \/ lapsed

Acquire(t) ==
  /\ At(t, "idle") /\ Free
  /\ lock' = t /\ lapsed' = FALSE /\ Goto(t, "poll")
  /\ UNCHANGED <<tickets, status, sessions, unsynced, rev, seen, overruns, crashes>>

Latest(S) == {[context |-> i, n |-> rev[i]] : i \in S}

(* Every open ticket, and what was updated since the last sync.  A source   *)
(* that fails finds nothing.                                                *)
Poll(t) ==
  /\ At(t, "poll")
  /\ \E found \in SUBSET unsynced :
       /\ Insert({Created(k) : k \in tickets} \cup Latest(found))
       /\ overlooked' = overlooked \cup Latest(unsynced \ found)
  /\ run' = [run EXCEPT ![t].at = "next", ![t].todo = {c \in Contexts : Pending(c)' # {}}]
  /\ UNCHANGED <<tickets, sessions, unsynced, lock, rev, lapsed, prompts, dropped,
                 overruns, crashes>>

NextTurn(t) == run' = [run EXCEPT ![t] = [Idle EXCEPT !.at = "next", !.todo = run[t].todo]]
TakeAway    == lock' = None /\ lapsed' = FALSE
Released(t) == run' = [run EXCEPT ![t] = Idle] /\ TakeAway

(* The poll of the tickets itself raises: the tick ends.                    *)
PollRaises(t) ==
  /\ At(t, "poll") /\ Released(t)
  /\ UNCHANGED <<tickets, status, sessions, unsynced, rev, seen, overruns, crashes>>

NeverBusy(c) == FALSE                                             \* mutant
Busy(c)      == sessions[c] > 0

OnlyOne(c) == {CHOOSE e \in Pending(c) : TRUE}                    \* mutant
Batch(c)   == Pending(c)

NeverEmpty(c) == FALSE                                            \* mutant
Empty(c)      == Pending(c) = {}

(* The next of the contexts that had events when the poll was done.         *)
Look(t) ==
  /\ At(t, "next")
  /\ \E c \in run[t].todo :
       LET left == run[t].todo \ {c} IN
       IF Busy(c) \/ Empty(c)
       THEN run' = [run EXCEPT ![t].todo = left]
       ELSE run' = [run EXCEPT ![t] = [at |-> "open", todo |-> left, context |-> c,
                                       batch |-> Batch(c)]]
  /\ UNCHANGED <<db, rev, lapsed, seen, overruns, crashes>>

Advance(c, from, to) ==
  status' = [e \in Events |-> IF e.context = c /\ status[e] \in from THEN to ELSE status[e]]

(* A session, and the context's events are being processed.                 *)
Open(t) ==
  /\ At(t, "open") /\ Goto(t, "prompt")
  /\ sessions' = [sessions EXCEPT ![run[t].context] = @ + 1]
  /\ Advance(run[t].context, {"pending"}, "processing")
  /\ UNCHANGED <<tickets, unsynced, lock, rev, lapsed, seen, overruns, crashes>>

Shown(S) == prompts' = [e \in Events |-> IF e \in S THEN prompts[e] + 1 ELSE prompts[e]]
Closed(c) == sessions' = [sessions EXCEPT ![c] = @ - 1]
Done(c) == Advance(c, {"pending", "processing"}, "done")

(* Claude has answered: the events of the context are done, and the session.*)
Prompt(t) ==
  /\ At(t, "prompt") /\ NextTurn(t)
  /\ Shown(run[t].batch) /\ Done(run[t].context) /\ Closed(run[t].context)
  /\ UNCHANGED <<tickets, unsynced, lock, rev, lapsed, late, dropped, overlooked,
                 overruns, crashes>>

(* No Claude, a timeout or an error, before or after it read the prompt:    *)
(* the session is cancelled.                                                *)
PromptFails(t) ==
  /\ At(t, "prompt") /\ NextTurn(t)
  /\ Shown({}) \/ Shown(run[t].batch)
  /\ Closed(run[t].context)
  /\ dropped' = dropped \cup {e \in Events : e.context = run[t].context /\ status[e] = "processing"}
  /\ UNCHANGED <<tickets, status, unsynced, lock, rev, lapsed, late, overlooked,
                 overruns, crashes>>

(* last_sync_at becomes the time at the end of the tick, and the lock is    *)
(* taken away, whoever has it.                                              *)
Sync(t) ==
  /\ At(t, "next") /\ run[t].todo = {} /\ Released(t)
  /\ unsynced' = {}
  /\ UNCHANGED <<tickets, status, sessions, rev, seen, overruns, crashes>>

-----------------------------------------------------------------------------
(* The process of a tick is killed, which may be between two commits, or is *)
(* interrupted at the keyboard, and then gives the lock back.               *)
Crash(t) ==
  /\ t \in Running /\ crashes + overruns < MaxFaults /\ crashes' = crashes + 1
  /\ run' = [run EXCEPT ![t] = Idle]
  /\ UNCHANGED <<lock, lapsed>> \/ (t \in Shells /\ TakeAway)
  /\ \/ UNCHANGED <<status, sessions, prompts, unsynced>>
     \/ /\ At(t, "open")
        /\ sessions' = [sessions EXCEPT ![run[t].context] = @ + 1]
        /\ UNCHANGED <<status, prompts, unsynced>>
     \/ /\ At(t, "prompt")
        /\ Shown(run[t].batch) /\ (UNCHANGED status \/ Done(run[t].context))
        /\ UNCHANGED <<sessions, unsynced>>
     \/ /\ At(t, "next") /\ run[t].todo = {} /\ unsynced' = {}
        /\ UNCHANGED <<status, sessions, prompts>>
  /\ UNCHANGED <<tickets, rev, late, dropped, overlooked, overruns>>

(* Half an hour has gone by since the lock was taken: it goes by while a    *)
(* poll or a prompt runs, which are what takes time, or the tick that took  *)
(* it is dead.                                                              *)
Lapse ==
  /\ lock # None /\ ~lapsed /\ lapsed' = TRUE
  /\ \A t \in Running : run[t].at \in {"poll", "prompt"}
  /\ IF lock \notin Running THEN UNCHANGED overruns
     ELSE crashes + overruns < MaxFaults /\ overruns' = overruns + 1
  /\ UNCHANGED <<db, rev, run, seen, crashes>>

Step(t) ==
  \/ Poll(t) \/ PollRaises(t) \/ Look(t) \/ Open(t) \/ Prompt(t) \/ PromptFails(t)
  \/ Sync(t)

System == Acquire(Loop) \/ Lapse \/ \E t \in Tickers : Step(t)

Happens(c) ==
  \/ c \in Tickets /\ Create(c)
  \/ c \in Threads /\ \E e \in Events : e.context = c /\ Approve(e)
  \/ c \in Items /\ Update(c)

Others == (\E t \in Shells : Acquire(t)) \/ (\E t \in Tickers : Crash(t))

Next == System \/ Others \/ \E c \in Contexts : Happens(c)

Spec == Init /\ [][Next]_vars

-----------------------------------------------------------------------------
(* Properties.                                                              *)

Turn == [at : {"idle", "poll", "next", "open", "prompt"}, todo : SUBSET Contexts,
         context : Contexts \cup {None}, batch : SUBSET Events]

(* Each variable has its type; a session is opened for at least one event.  *)
TypeOK ==
  /\ lapsed \in BOOLEAN
  /\ tickets \subseteq Tickets
  /\ status \in [Events -> {"none", "pending", "processing", "done"}]
  /\ sessions \in [Contexts -> Nat] /\ rev \in [Items -> 0 .. MaxRevs]
  /\ unsynced \subseteq {i \in Items : rev[i] > 0}
  /\ lock \in Tickers \cup {None}
  /\ run \in [Tickers -> Turn]
  /\ \A t \in Tickers : run[t].at \in {"open", "prompt"} <=> run[t].batch # {}
  /\ prompts \in [Events -> Nat]
  /\ late \subseteq Events /\ dropped \subseteq Events /\ overlooked \subseteq Events
  /\ crashes \in 0 .. MaxFaults /\ overruns \in 0 .. MaxFaults

(* As long as no tick lasted longer than its lock there is one tick at a    *)
(* time, a context has one session, counting those a crash left behind, and *)
(* no event is put to Claude twice (acquire_tick_lock, has_running_session).*)
OneSession ==
  overruns = 0 =>
    /\ \A t, u \in Running : t = u
    /\ \A c \in Contexts : sessions[c] <= 1
    /\ \A e \in Events : prompts[e] <= 1

(* No event is lost but in three ways.  One that is done was put to Claude, *)
(* unless it came while its context was dispatched, or was left by a        *)
(* dispatch that failed: complete_events completes these with the others    *)
(* of the context.  And the latest revision of an item has its event, or    *)
(* the next poll will find it, unless it came during a tick or its source   *)
(* failed: set_last_sync_at skips over it.                                  *)
EventsAccounted ==
  /\ \A e \in Events : status[e] = "done" => prompts[e] > 0 \/ e \in late \cup dropped
  /\ \A i \in Items : LET e == [context |-> i, n |-> rev[i]] IN
       rev[i] > 0 /\ status[e] = "none" => i \in unsynced \/ e \in overlooked

-----------------------------------------------------------------------------
(* Fairness.  The loop ticks, again and again, and a prompt has its         *)
(* timeout; the tickets can be read once in a while; time passes.           *)
Fairness ==
  /\ SF_vars(Acquire(Loop)) /\ SF_vars(Poll(Loop)) /\ WF_vars(Lapse)
  /\ \A t \in Tickers : WF_vars(Step(t))

FairSpec == Spec /\ Fairness

(* Every ticket and every event comes to be put to Claude, in a tick that   *)
(* may fail, unless a tick died in its context and left a session running.  *)
Asked(e) == status[e] = "pending" \/ e.context \in tickets
EventGetsTurn ==
  \A e \in Events :
    Asked(e) ~>
      \/ status[e] \in {"processing", "done"}
      \/ crashes > 0 /\ sessions[e.context] > 0
=============================================================================

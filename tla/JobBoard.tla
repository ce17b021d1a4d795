------------------------------- MODULE JobBoard -------------------------------
(***************************************************************************)
(* What the coding job store and its worker promise a Slack thread, with   *)
(* the files, the pool and the stages of the work left out: a request is   *)
(* taken up once, by a task that dies with the process; an outcome that is *)
(* on record stays; it is announced once, after it was recorded; work      *)
(* that a stop or a boot reported as interrupted may only go on in the     *)
(* task that was already doing it.  A crash may lose the record, of all    *)
(* jobs at once: those taken up by then are not heard of again.            *)
(***************************************************************************)
CONSTANT Jobs

VARIABLES phase,   \* what the row says of the job
          held,    \* the jobs a living task is responsible for
          heard    \* the outcomes announced to the job's thread

board == <<phase, held, heard>>

Outcomes == {"completed", "needs_help", "failed"}
Phase    == {"absent", "accepted", "working", "stopped", "forgotten"} \cup Outcomes

Init ==
  /\ phase = [j \in Jobs |-> "absent"]
  /\ held = {}
  /\ heard = [j \in Jobs |-> {}]

Accept(j) ==
  /\ phase[j] = "absent"
  /\ phase' = [phase EXCEPT ![j] = "accepted"]
  /\ UNCHANGED <<held, heard>>

(* The worker takes up some accepted jobs at once.                         *)
TakeUp(S) ==
  /\ \A j \in S : phase[j] = "accepted"
  /\ phase' = [j \in Jobs |-> IF j \in S THEN "working" ELSE phase[j]]
  /\ held' = held \cup S
  /\ UNCHANGED heard

(* A task goes on although its row was marked interrupted.                 *)
GoOn(j) ==
  /\ j \in held /\ phase[j] = "stopped"
  /\ phase' = [phase EXCEPT ![j] = "working"]
  /\ UNCHANGED <<held, heard>>

Settle(j, o) ==
  /\ j \in held /\ phase[j] \in {"working", "stopped"}
  /\ phase' = [phase EXCEPT ![j] = o]
  /\ UNCHANGED <<held, heard>>

(* The task says what is on record; it may have nothing left to do.        *)
Announce(j) ==
  /\ j \in held /\ phase[j] \in Outcomes /\ heard[j] = {}
  /\ heard' = [heard EXCEPT ![j] = {phase[j]}]
  /\ held' \in {held, held \ {j}}
  /\ UNCHANGED phase

(* A task ends only when its outcome was announced.                        *)
LetGo(j) ==
  /\ j \in held /\ heard[j] # {}
  /\ held' = held \ {j}
  /\ UNCHANGED <<phase, heard>>

(* A stop or a boot marks everything in progress.                          *)
Interrupt ==
  /\ phase' = [j \in Jobs |-> IF phase[j] = "working" THEN "stopped" ELSE phase[j]]
  /\ UNCHANGED <<held, heard>>

Die == held' = {} /\ UNCHANGED <<phase, heard>>

LoseRecord ==
  /\ held' = {}
  /\ phase' = [j \in Jobs |-> IF phase[j] \in {"absent", "accepted"} THEN phase[j] ELSE "forgotten"]
  /\ UNCHANGED heard

Next ==
  \/ \E j \in Jobs : \/ Accept(j) \/ GoOn(j) \/ Announce(j) \/ LetGo(j)
                     \/ \E o \in Outcomes : Settle(j, o)
  \/ \E S \in SUBSET Jobs : TakeUp(S)
  \/ Interrupt
  \/ Die \/ LoseRecord

Spec == Init /\ [][Next]_board
===============================================================================

----------------------------- MODULE MCAgentTurns -----------------------------
(***************************************************************************)
(* Small instances of the daemon's services that share nothing but its     *)
(* process: turns in a Slack thread, turns in a WhatsApp chat, QA scans.   *)
(* A behaviour is one of each kind: `part' names the one whose             *)
(* environment moves, and the others rest.                                 *)
(***************************************************************************)
EXTENDS AgentTurns, QaJobs

CONSTANT Quiet          \* the part in which only QA scans happen

VARIABLE part

\* The schedule's scan, a review and a repository scan asked for in a chat.
MCRequests == {[type |-> "branch", user |-> FALSE], [type |-> "review", user |-> TRUE],
               [type |-> "repo", user |-> TRUE]}

MCInit == Init /\ QaInit /\ part \in Threads \cup {Quiet}

MCNext ==
  /\ UNCHANGED part
  /\ \/ /\ UNCHANGED qa
        /\ \/ System
           \/ part # Quiet /\ \E kind \in Kinds : Deliver(part, kind)
           \/ \E m \in Made : Redeliver(m)
           \/ part # Quiet /\ Crash
     \/ /\ UNCHANGED vars
        /\ \/ QaSystem
           \/ part = Quiet /\ QaEnvironment

MCSpec == MCInit /\ [][MCNext]_<<vars, qa, part>> /\ Fairness /\ QaFairness
=============================================================================

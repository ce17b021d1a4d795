------------------------------ MODULE MCStores ------------------------------
(***************************************************************************)
(* Small instances of two of the daemon's stores, which share nothing:     *)
(* the pending actions and the meeting jobs.  A behaviour is of the one    *)
(* that `part' names.                                                      *)
(***************************************************************************)
EXTENDS MCPendingActions, MeetJobs

CONSTANTS room, hall    \* two links of meetings

VARIABLE part

(* Two jobs for one link, and the jobs after them for another.              *)
MCLink == [j \in Jobs |-> IF j <= 2 THEN room ELSE hall]

MCInit == part \in {"actions", "meetings"} /\ Init /\ MeetInit

MCNext ==
  /\ UNCHANGED part
  /\ \/ part = "actions" /\ Next /\ UNCHANGED meet
     \/ part = "meetings" /\ MeetNext /\ UNCHANGED vars

MCSpec == MCInit /\ [][MCNext]_<<vars, meet, part>>

(* Slots differ in nothing but their name.                                  *)
Symmetry == Permutations(Slots)
=============================================================================

------------------------------ MODULE MCMeetJobs ------------------------------
(* Small instances of MeetJobs.                                             *)
EXTENDS MeetJobs

CONSTANTS room, hall    \* two links

(* Two jobs for one link, and the jobs after them for another.              *)
MCLink == [j \in Jobs |-> IF j <= 2 THEN room ELSE hall]

(* Slots differ in nothing but their name.                                  *)
Symmetry == Permutations(Slots)
=============================================================================

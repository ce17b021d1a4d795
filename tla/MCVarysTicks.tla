---------------------------- MODULE MCVarysTicks ----------------------------
(* Small instances of VarysTicks.  There is a context of each kind; in a    *)
(* behaviour nothing happens in the thread, or to the item.                 *)
EXTENDS VarysTicks

VARIABLE silent

MCInit == Init /\ silent \in Threads \cup Items

MCNext ==
  /\ UNCHANGED silent
  /\ System \/ Others \/ \E c \in Contexts \ {silent} : Happens(c)

MCSpec == MCInit /\ [][MCNext]_<<vars, silent>> /\ Fairness
=============================================================================

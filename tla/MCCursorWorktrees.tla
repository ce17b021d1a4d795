-------------------------- MODULE MCCursorWorktrees --------------------------
(* Small instances of CursorWorktrees.                                      *)
EXTENDS CursorWorktrees

CONSTANTS u1, u2,       \* the keys of two users of one thread
          x             \* a colleague's pull request

(* Two jobs meet everything.  A third one only follows two of the same user *)
(* that had nothing to do with the colleague's pull request, without a      *)
(* restart.                                                                 *)
OneThread ==
  /\ \A j \in Rows : key[j] = u1 /\ target[j] # x
  /\ prs[x] = "open" /\ restarts = 0

MCNext ==
  Next /\ (queued' = 3 /\ <<queued, prs, restarts>>' # <<queued, prs, restarts>> => OneThread')

MCSpec == Init /\ [][MCNext]_vars
=============================================================================

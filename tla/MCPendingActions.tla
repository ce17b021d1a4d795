-------------------------- MODULE MCPendingActions --------------------------
(* Small instances of PendingActions.                                       *)
EXTENDS PendingActions, TLC

CONSTANTS p1, p2,       \* two payloads
          card, tab     \* approve requests of the dashboard

(* Payloads are only compared.                                              *)
MCPayloads == {p1, p2}
PayloadSymmetry == Permutations(MCPayloads)
=============================================================================

------------------------- MODULE MCClearanceService -------------------------
(* Small instances of ClearanceService for TLC. *)
EXTENDS ClearanceService, TLC

CONSTANTS c1, c2, c3, p, k1, k2, x, y

Ask(k, plan, action, content) ==
    [key |-> k, plan |-> plan, action |-> action, content |-> content]

(* An approval, and two credentials that wait for it, which were given     *)
(* the same key.                                                           *)
Clearing ==
    c1 :> Ask(k1, p, Review, x) @@ c2 :> Ask(k2, p, Issue, x) @@ c3 :> Ask(k2, p, Issue, y)

=============================================================================

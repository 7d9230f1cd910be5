--------------------------- MODULE PointRelations ---------------------------
(***************************************************************************)
(* Suspension points refer to one another, by a primary and by a redundant *)
(* point.  A relation maps each registered point to the one it names.      *)
(***************************************************************************)

(* No point reaches itself along a relation: every non-empty set of points *)
(* has a member whose reference leads out of it.                           *)
Acyclic(relation) ==
    \A S \in SUBSET DOMAIN relation : S # {} => \E q \in S : relation[q] \notin S

=============================================================================

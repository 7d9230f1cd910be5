---------------------------- MODULE MCEventStore ----------------------------
(* Small instances of EventStore for TLC. *)
EXTENDS EventStore, TLC

Symmetry == Permutations(Plans) \cup Permutations(Keys)

=============================================================================

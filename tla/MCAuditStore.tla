---------------------------- MODULE MCAuditStore ----------------------------
(* Small instances of AuditStore for TLC. *)
EXTENDS AuditStore, TLC

Symmetry == Permutations(Plans)

=============================================================================

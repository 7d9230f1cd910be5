------------------------------ MODULE Payloads ------------------------------
(***************************************************************************)
(* What becomes of a command's payload in a log.  Both stores take a       *)
(* digest over the payload as the Go values they were given, and verify it *)
(* over what the JSON decodes to.  A map is encoded with its keys sorted,  *)
(* but a struct in the order of its fields, and a struct that was encoded  *)
(* comes back as a map.                                                    *)
(***************************************************************************)
EXTENDS Integers, Sequences

(* The fields of the struct in the payload of an action, each by its       *)
(* alphabetical rank: RetestConditions declares minimumTargetLoadKg,       *)
(* minimumHoldSeconds, maximumDeformationMm, requiredOutcome.              *)
StructFields(action) == IF action = "issue.remediated" THEN <<3, 2, 1, 4>> ELSE << >>

(* The decoded payload is encoded like the original. *)
KeepsDigest(action) ==
    LET fields == StructFields(action) IN
    \A i, j \in DOMAIN fields : i < j => fields[i] < fields[j]

=============================================================================

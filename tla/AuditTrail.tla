----------------------------- MODULE AuditTrail -----------------------------
(***************************************************************************)
(* What the audit store promises: a trail of records that is only added    *)
(* to, and credentials, each sealed by at most one record, which comes     *)
(* after it and names its plan.  Where the power is cut both may lose      *)
(* their ends, but no record that was returned, and no credential whose    *)
(* seal is left.                                                           *)
(***************************************************************************)
EXTENDS Integers, Sequences

CONSTANTS Plans, Actions, Sealed

VARIABLES
    records,      \* the records that a start would find, oldest first
    credentials,  \* the plans of the credentials that it would find
    returned      \* the numbers of the records that were returned

vars == <<records, credentials, returned>>

Init == records = << >> /\ credentials = << >> /\ returned = {}

Seals(i, n) == records[i].action = Sealed /\ records[i].credential = n

Record(p, a) ==
    /\ records' = Append(records, [plan |-> p, action |-> a, credential |-> 0])
    /\ UNCHANGED <<credentials, returned>>

Issue(p) ==
    /\ credentials' = Append(credentials, p)
    /\ UNCHANGED <<records, returned>>

Seal(n) ==
    /\ \A i \in DOMAIN records : ~ Seals(i, n)
    /\ records' = Append(records, [plan |-> credentials[n], action |-> Sealed, credential |-> n])
    /\ UNCHANGED <<credentials, returned>>

Return(i) ==
    /\ returned' = returned \cup {i}
    /\ UNCHANGED <<records, credentials>>

LoseTails(i, n) ==
    /\ returned \subseteq 1..i
    /\ \A j \in 1..i, m \in DOMAIN credentials : Seals(j, m) => m <= n
    /\ records' = SubSeq(records, 1, i)
    /\ credentials' = SubSeq(credentials, 1, n)
    /\ UNCHANGED returned

Next ==
    \/ \E p \in Plans, a \in Actions : Record(p, a)
    \/ \E p \in Plans : Issue(p)
    \/ \E n \in DOMAIN credentials : Seal(n)
    \/ \E i \in DOMAIN records : Return(i)
    \/ \E i \in 0..Len(records), n \in 0..Len(credentials) : LoseTails(i, n)

Spec == Init /\ [][Next]_vars

=============================================================================

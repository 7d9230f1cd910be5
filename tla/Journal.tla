------------------------------ MODULE Journal ------------------------------
(***************************************************************************)
(* What the event store promises the service: an append-only journal of    *)
(* commands.  A key is written once, the versions of a plan are            *)
(* consecutive, and a command that was confirmed is never lost.  A crash   *)
(* may take back what nobody was told of.                                  *)
(***************************************************************************)
EXTENDS Integers, Sequences, FiniteSets

CONSTANTS Plans, Keys, Actions

VARIABLES
    entries,   \* the commands that a start would find, oldest first
    acked      \* keys of the commands that were confirmed

vars == <<entries, acked>>

KeysOf(s) == {s[i].key : i \in DOMAIN s}

VersionOf(s, p) == Cardinality({i \in DOMAIN s : s[i].plan = p})

Init == entries = << >> /\ acked = {}

Record(p, k, a) ==
    /\ k \notin KeysOf(entries)
    /\ entries' = Append(entries,
          [plan |-> p, version |-> VersionOf(entries, p) + 1, key |-> k, action |-> a])
    /\ UNCHANGED acked

Confirm(k) ==
    /\ k \in KeysOf(entries)
    /\ acked' = acked \cup {k}
    /\ UNCHANGED entries

LoseTail(n) ==
    /\ entries' = SubSeq(entries, 1, n)
    /\ acked \subseteq KeysOf(entries')
    /\ UNCHANGED acked

Next ==
    \/ \E p \in Plans, k \in Keys, a \in Actions : Record(p, k, a)
    \/ \E k \in Keys : Confirm(k)
    \/ \E n \in 0..Len(entries) : LoseTail(n)

Spec == Init /\ [][Next]_vars

=============================================================================

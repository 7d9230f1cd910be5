----------------------------- MODULE MCRigPlan -----------------------------
(* Small instances of RigPlan for TLC: the inputs of the runs. *)
EXTENDS RigPlan, TLC

CONSTANT Hall   \* a venue

Symmetry == Permutations(Points) \cup Permutations(Labels)

(* The show is on day 1 or 2; the plan may carry 2 or 1. *)
OneHeader  == {[venue |-> Hall, date |-> 1, ratedTotal |-> 2]}
TwoHeaders == OneHeader \cup {[venue |-> Hall, date |-> 2, ratedTotal |-> 1]}

(* A point that is within its rating and certified for day 1, and one that *)
(* is overloaded.                                                          *)
Light       == [rated |-> 1, planned |-> 1, cert |-> 1]
Overloaded  == [rated |-> 1, planned |-> 2, cert |-> 1]
JustLight   == {Light}
LightOrOver == {Light, Overloaded}

(* A remediation that only adds a note, or references another point; one   *)
(* that takes load off, one that renews the certificate.                   *)
NoPatch  == {[planned |-> None, cert |-> None]}
AllPatch == NoPatch \cup {[planned |-> 1, cert |-> None], [planned |-> None, cert |-> 2]}

Good == [target |-> 2, measured |-> 2, hold |-> 60, deform |-> 2, outcome |-> "pass"]
Weak == [Good EXCEPT !.hold = 59]
JustGood == {Good}
GoodOrWeak == {Good, Weak}
=============================================================================

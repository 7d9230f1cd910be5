----------------------------- MODULE Clearance -----------------------------
(***************************************************************************)
(* What the clearance of a rigging plan promises, whatever the workflow    *)
(* behind it: the content of a plan is worked on freely until it is        *)
(* approved, only a content that is safe to fly is ever approved, it is    *)
(* frozen as it was approved, and every credential names that content.     *)
(*                                                                         *)
(* "Safe" is stated here over the content alone, without issues, tasks or  *)
(* rule findings, so that it is a reference for all of them.               *)
(***************************************************************************)
EXTENDS Integers, Sequences, FiniteSets, FiniteSetsExt

CONSTANT None

VARIABLES
    content,      \* [header, points, tests] of the plan
    frozen,       \* the content that was approved, or None
    credentials   \* the contents the issued credentials vouch for

vars == <<content, frozen, credentials>>

Hung(c) == {q \in DOMAIN c.points : c.points[q] # None}

(* A test on exactly the point as it is configured now.                    *)
About(t, q, config) == t.point = q /\ t.digest = config

Proven(t) == t.m.outcome = "pass" /\ t.m.measured >= t.m.target /\ t.m.hold >= 60 /\ t.m.deform <= 2

SafePoint(c, q) ==
    LET config == c.points[q].config IN
    /\ config.planned <= config.rated
    /\ config.cert >= c.header.date
    /\ {config.primary, config.redundant} \cap (Hung(c) \ {q}) # {}
    /\ \E i \in DOMAIN c.tests :
        /\ About(c.tests[i], q, config)
        /\ Proven(c.tests[i])
        /\ c.tests[i].m.target >= config.planned
        /\ \A j \in DOMAIN c.tests :
            About(c.tests[j], q, config) /\ ~ Proven(c.tests[j]) => c.tests[j].at <= c.tests[i].at

Safe(c) ==
    /\ Hung(c) # {}
    /\ ~ (MapThenSumSet(LAMBDA q : c.points[q].config.planned, Hung(c)) > c.header.ratedTotal)
    /\ \A q \in Hung(c) : SafePoint(c, q)

Init == frozen = None /\ credentials = << >>

Work ==
    /\ frozen = None
    /\ content' # content
    /\ UNCHANGED <<frozen, credentials>>

Approve ==
    /\ frozen = None
    /\ Safe(content)
    /\ frozen' = content
    /\ UNCHANGED <<content, credentials>>

Issue ==
    /\ frozen # None
    /\ credentials' = Append(credentials, frozen)
    /\ UNCHANGED <<content, frozen>>

Next == Work \/ Approve \/ Issue

Spec == Init /\ [][Next]_vars

=============================================================================

----------------------------- MODULE PointGraph -----------------------------
(***************************************************************************)
(* validatePointGraph (rigging/validation.go), the walk that AddPoint,     *)
(* UpdatePoint and Remediate trust: along each relation, and from each     *)
(* point, it follows the references until they end or until it meets a     *)
(* point for the second time.  RigPlan only knows what it is to find out,  *)
(* Acyclic; here is how it does, and that it comes to an end.              *)
(*                                                                         *)
(* The references are arbitrary, but for those to a point itself or to an  *)
(* unknown point, which validatePointUpdate has turned down before.        *)
(***************************************************************************)
EXTENDS PointRelations

CONSTANTS
    Ids,    \* identifiers of points
    None    \* no reference, no walk

Relations == {"primaryPointId", "redundantPointId"}

Walk == [relation : Relations, start : Ids, current : Ids, seen : SUBSET Ids]

ASSUME ConstantsAssumption == None \notin Ids \cup Walk

VARIABLES
    points,    \* the registered points
    next,      \* of each relation, the point that a point names, or None
    todo,      \* the walks still to be made, <<relation, start>>
    walk,      \* the walk being made, or None
    reported   \* the walks for which an error was reported

vars == <<points, next, todo, walk, reported>>

(* Wrong: the second relation is forgotten. *)
InitPrimaryOnly ==
    /\ points \in SUBSET Ids
    /\ next \in [Relations -> {f \in [points -> points \cup {None}] : \A q \in points : f[q] # q}]
    /\ todo = {"primaryPointId"} \X points
    /\ walk = None
    /\ reported = {}

Init ==
    /\ points \in SUBSET Ids
    /\ next \in [Relations -> {f \in [points -> points \cup {None}] : \A q \in points : f[q] # q}]
    /\ todo = Relations \X points
    /\ walk = None
    /\ reported = {}

(* The outer loops: a start for each point, first along the primaries. *)
Begin(r, q) ==
    /\ walk = None /\ <<r, q>> \in todo
    /\ r = "redundantPointId" => \A p \in points : <<"primaryPointId", p>> \notin todo
    /\ todo' = todo \ {<<r, q>>}
    /\ walk' = [relation |-> r, start |-> q, current |-> q, seen |-> {}]
    /\ UNCHANGED <<points, next, reported>>

Following == walk # None /\ walk.current \notin walk.seen

Reference == next[walk.relation][walk.current]

(* Wrong: the end of the references is not noticed. *)
FollowNothing ==
    /\ Following
    /\ walk' = [walk EXCEPT !.seen = @ \cup {walk.current}, !.current = Reference]
    /\ UNCHANGED <<points, next, todo, reported>>

Follow ==
    /\ Following /\ Reference \in points
    /\ walk' = [walk EXCEPT !.seen = @ \cup {walk.current}, !.current = Reference]
    /\ UNCHANGED <<points, next, todo, reported>>

End ==
    /\ Following /\ Reference \notin points
    /\ walk' = None
    /\ UNCHANGED <<points, next, todo, reported>>

(* Wrong: only the start is looked for. *)
ReportStart ==
    /\ walk # None /\ walk.seen # {} /\ walk.current = walk.start
    /\ reported' = reported \cup {<<walk.relation, walk.start>>}
    /\ walk' = None
    /\ UNCHANGED <<points, next, todo>>

(* Wrong: the error names the point that was met again. *)
ReportCurrent ==
    /\ walk # None /\ walk.current \in walk.seen
    /\ reported' = reported \cup {<<walk.relation, walk.current>>}
    /\ walk' = None
    /\ UNCHANGED <<points, next, todo>>

Report ==
    /\ walk # None /\ walk.current \in walk.seen
    /\ reported' = reported \cup {<<walk.relation, walk.start>>}
    /\ walk' = None
    /\ UNCHANGED <<points, next, todo>>

Next ==
    \/ \E r \in Relations, q \in points : Begin(r, q)
    \/ Follow
    \/ End
    \/ Report

Spec == Init /\ [][Next]_vars

(* It is a loop in one goroutine. *)
FairSpec == Spec /\ WF_vars(Next)

-----------------------------------------------------------------------------
(* Properties.                                                             *)

(* The variables have the types of validation.go. *)
TypeOK ==
    /\ points \subseteq Ids
    /\ next \in [Relations -> [points -> points \cup {None}]]
    /\ todo \subseteq Relations \X points
    /\ reported \subseteq Relations \X points
    /\ walk # None =>
          /\ walk \in Walk
          /\ walk.start \in points /\ walk.current \in points
          /\ walk.seen \subseteq points

Done == todo = {} /\ walk = None

(* The references from q along r never end. *)
RunsInCircles(r, q) ==
    \E S \in SUBSET points : q \in S /\ \A s \in S : next[r][s] \in S

Walked == {w \in Relations \X points :
              w \notin todo /\ (walk # None => w # <<walk.relation, walk.start>>)}

(* An error is reported for each point from which the references run in    *)
(* circles, be it on the circle or only on a way into it, and for no other.*)
ReportsExactly ==
    \A w \in Relations \X points : w \in reported <=> w \in Walked /\ RunsInCircles(w[1], w[2])

(* At the end there is no error iff both relations are acyclic, which is   *)
(* all that RigPlan says of validatePointGraph.                            *)
VerdictRight == Done => (reported = {} <=> \A r \in Relations : Acyclic(next[r]))

(* The inner loop has no bound of its own: it ends whatever the points     *)
(* refer to.                                                               *)
EveryWalkEnds == <>Done

=============================================================================

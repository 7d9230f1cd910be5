-------------------------- MODULE PointGraphProofs --------------------------
(***************************************************************************)
(* The walk of validatePointGraph decides whether the relations of the     *)
(* points are acyclic, however many points there are.                      *)
(***************************************************************************)
EXTENDS PointGraph, TLAPS

USE ConstantsAssumption

(* Where the walk is, every set of points that its start is in and no      *)
(* reference leads out of has it, too; and it has seen all there is        *)
(* between its start and where it is.                                      *)
OnTheWay ==
    walk # None =>
        LET f == next[walk.relation] IN
        /\ <<walk.relation, walk.start>> \notin todo
        /\ walk.start \in walk.seen \cup {walk.current}
        /\ \A q \in walk.seen : f[q] \in walk.seen \cup {walk.current}
        /\ \A S \in SUBSET points :
              walk.start \in S /\ (\A s \in S : f[s] \in S) => walk.current \in S

IInv == TypeOK /\ OnTheWay /\ ReportsExactly

LEMMA WalkStarts ==
    ASSUME IInv, NEW r \in Relations, NEW q \in points, Begin(r, q)
    PROVE  IInv'
<1>1. /\ UNCHANGED <<points, next, reported>> /\ walk = None
      /\ <<r, q>> \in todo /\ todo' = todo \ {<<r, q>>}
      /\ walk' = [relation |-> r, start |-> q, current |-> q, seen |-> {}]
  BY DEF Begin
<1>2. TypeOK'
  BY <1>1 DEF IInv, TypeOK, Walk
<1>3. OnTheWay'
  BY <1>1 DEF OnTheWay
<1>4. walk' # None
  <2>1. walk' \in Walk
    BY <1>1 DEF IInv, TypeOK, Walk
  <2> QED
    BY <2>1
<1>5. Walked' = Walked
  BY <1>1, <1>4 DEF Walked
<1>6. ReportsExactly'
  BY <1>1, <1>5 DEF IInv, ReportsExactly, RunsInCircles
<1> QED
  BY <1>2, <1>3, <1>6 DEF IInv

LEMMA WalkGoesOn == ASSUME IInv, Follow PROVE IInv'
<1> DEFINE f == next[walk.relation]
<1>1. /\ UNCHANGED <<points, next, todo, reported>>
      /\ walk # None /\ walk.current \notin walk.seen
      /\ f[walk.current] \in points
      /\ walk' = [walk EXCEPT !.seen = @ \cup {walk.current}, !.current = f[walk.current]]
  BY DEF Follow, Following, Reference
<1>2. /\ walk'.relation = walk.relation /\ walk'.start = walk.start
      /\ walk'.seen = walk.seen \cup {walk.current} /\ walk'.current = f[walk.current]
      /\ walk' \in Walk
  BY <1>1 DEF IInv, TypeOK, Walk
<1>3. TypeOK'
  BY <1>1, <1>2 DEF IInv, TypeOK
<1>4. OnTheWay'
  <2>1. /\ <<walk.relation, walk.start>> \notin todo
        /\ walk.start \in walk.seen \cup {walk.current}
        /\ \A q \in walk.seen : f[q] \in walk.seen \cup {walk.current}
        /\ \A S \in SUBSET points :
              walk.start \in S /\ (\A s \in S : f[s] \in S) => walk.current \in S
    BY <1>1 DEF IInv, OnTheWay
  <2>2. \A q \in walk'.seen : f[q] \in walk'.seen \cup {walk'.current}
    BY <1>2, <2>1
  <2>3. \A S \in SUBSET points :
           walk.start \in S /\ (\A s \in S : f[s] \in S) => walk'.current \in S
    BY <1>2, <2>1
  <2> QED
    BY <1>1, <1>2, <2>1, <2>2, <2>3 DEF OnTheWay
<1>5. walk' # None
  BY <1>2
<1>6. Walked' = Walked
  BY <1>1, <1>2, <1>5 DEF Walked
<1>7. ReportsExactly'
  BY <1>1, <1>6 DEF IInv, ReportsExactly, RunsInCircles
<1> QED
  BY <1>3, <1>4, <1>7 DEF IInv

(* A walk that ends started on no way into a circle: the set of points     *)
(* that shows the circle would have its last point, but no way out.        *)
LEMMA WalkEnds == ASSUME IInv, End PROVE IInv'
<1> DEFINE f == next[walk.relation]
           w == <<walk.relation, walk.start>>
<1>1. /\ UNCHANGED <<points, next, todo, reported>> /\ walk' = None
      /\ walk # None /\ f[walk.current] \notin points
  BY DEF End, Following, Reference
<1>2. ~ RunsInCircles(walk.relation, walk.start)
  <2> SUFFICES ASSUME NEW S \in SUBSET points, walk.start \in S, \A s \in S : f[s] \in S
               PROVE  FALSE
    BY DEF RunsInCircles
  <2>1. walk.current \in S
    BY <1>1 DEF IInv, OnTheWay
  <2> QED
    BY <1>1, <2>1
<1>3. w \in Relations \X points /\ w \notin todo
  BY <1>1 DEF IInv, TypeOK, OnTheWay, Walk
<1>4. Walked' = Walked \cup {w}
  BY <1>1, <1>3 DEF Walked
<1>5. ReportsExactly'
  BY <1>1, <1>2, <1>4 DEF IInv, ReportsExactly, RunsInCircles
<1>6. TypeOK' /\ OnTheWay'
  BY <1>1 DEF IInv, TypeOK, OnTheWay, Walk
<1> QED
  BY <1>5, <1>6 DEF IInv

(* What a walk saw when it meets a point again shows the circle.           *)
LEMMA WalkReports == ASSUME IInv, Report PROVE IInv'
<1> DEFINE f == next[walk.relation]
           w == <<walk.relation, walk.start>>
<1>1. /\ UNCHANGED <<points, next, todo>> /\ walk' = None
      /\ walk # None /\ walk.current \in walk.seen
      /\ reported' = reported \cup {w}
  BY DEF Report
<1>2. RunsInCircles(walk.relation, walk.start)
  <2>1. walk.seen \in SUBSET points /\ walk.start \in walk.seen
        /\ \A s \in walk.seen : f[s] \in walk.seen
    BY <1>1 DEF IInv, TypeOK, OnTheWay, Walk
  <2> QED
    BY <2>1 DEF RunsInCircles
<1>3. w \in Relations \X points /\ w \notin todo
  BY <1>1 DEF IInv, TypeOK, OnTheWay, Walk
<1>4. Walked' = Walked \cup {w}
  BY <1>1, <1>3 DEF Walked
<1>5. ReportsExactly'
  BY <1>1, <1>2, <1>3, <1>4 DEF IInv, ReportsExactly, RunsInCircles
<1>6. TypeOK' /\ OnTheWay'
  BY <1>1, <1>3 DEF IInv, TypeOK, OnTheWay
<1> QED
  BY <1>5, <1>6 DEF IInv

LEMMA WalksInvariant == Spec => []IInv
<1>1. Init => IInv
  <2> SUFFICES ASSUME Init PROVE IInv
    OBVIOUS
  <2>1. TypeOK /\ OnTheWay
    BY DEF Init, TypeOK, OnTheWay
  <2>2. Walked = {}
    BY DEF Init, Walked
  <2>3. ReportsExactly
    BY <2>2 DEF Init, ReportsExactly
  <2> QED
    BY <2>1, <2>3 DEF IInv
<1>2. IInv /\ [Next]_vars => IInv'
  <2>1. ASSUME IInv, UNCHANGED vars PROVE IInv'
    BY <2>1 DEF vars, IInv, TypeOK, OnTheWay, ReportsExactly, RunsInCircles, Walked
  <2> QED
    BY <2>1, WalkStarts, WalkGoesOn, WalkEnds, WalkReports DEF Next
<1> QED
  BY <1>1, <1>2, PTL DEF Spec

(* The variables keep the types of validation.go.                          *)
THEOREM TypeCorrect == Spec => []TypeOK
<1>1. IInv => TypeOK
  BY DEF IInv
<1> QED
  BY <1>1, WalksInvariant, PTL

(* validatePointGraph reports the points from which the references run in  *)
(* circles, and no others.                                                 *)
THEOREM ReportsAreExact == Spec => []ReportsExactly
<1>1. IInv => ReportsExactly
  BY DEF IInv
<1> QED
  BY <1>1, WalksInvariant, PTL

(* It returns no error iff both relations are acyclic.                     *)
THEOREM WalkDecidesAcyclic == Spec => []VerdictRight
<1>1. IInv => VerdictRight
  <2> SUFFICES ASSUME IInv, Done
               PROVE  reported = {} <=> \A r \in Relations : Acyclic(next[r])
    BY DEF VerdictRight
  <2>1. Walked = Relations \X points
    BY DEF Done, Walked
  <2>2. \A r \in Relations, q \in points : <<r, q>> \in reported <=> RunsInCircles(r, q)
    BY <2>1 DEF IInv, ReportsExactly
  <2>3. ASSUME NEW r \in Relations
        PROVE  Acyclic(next[r]) <=> \A q \in points : ~ RunsInCircles(r, q)
    <3>1. DOMAIN next[r] = points
      BY <2>3 DEF IInv, TypeOK
    <3> QED
      BY <3>1 DEF Acyclic, RunsInCircles
  <2>4. reported = {} <=> \A r \in Relations, q \in points : <<r, q>> \notin reported
    BY DEF IInv, TypeOK
  <2> QED
    BY <2>2, <2>3, <2>4
<1> QED
  BY <1>1, WalksInvariant, PTL

=============================================================================

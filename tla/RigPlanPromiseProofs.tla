----------------------- MODULE RigPlanPromiseProofs -----------------------
(***************************************************************************)
(* Theorems about what the stored plan is worth: the repository's checks   *)
(* never fail on what a command produced, an approved plan is backed up    *)
(* independently, and the plan implements Clearance.                       *)
(*                                                                         *)
(* They share one invariant, Sound: the parts of a plan name only parts    *)
(* that are there, and a plan is open or approved in every respect.        *)
(***************************************************************************)
EXTENDS RigPlanHistoryProofs

(* The parts of a plan that name others. *)
PointsRelated(p) ==
    /\ \A q, r \in Registered(p) : q # r => p.points[q].label # p.points[r].label
    /\ \A q \in Registered(p) :
        /\ p.points[q].config.redundant \in (Registered(p) \cup {None}) \ {q}
        /\ p.points[q].config.primary \in Registered(p) \cup {None}
    /\ Acyclic(PrimaryOf(p))

TestsRelated(p) == \A i \in DOMAIN p.tests : p.tests[i].point \in Registered(p)
TasksRelated(p) == \A i \in DOMAIN p.tasks : p.tasks[i].point \in Registered(p)

IssuesRelated(p) ==
    \A k \in IssueKeys : p.issues[k] # "none" => k.point \in Registered(p) \cup {None}

Related(p) == PointsRelated(p) /\ TestsRelated(p) /\ TasksRelated(p) /\ IssuesRelated(p)

(* Work goes on, or it is over. *)
OpenPlan(p) == p.status # "approved" /\ p.frozen = None /\ p.credentials = << >>

ApprovedPlan(p) ==
    /\ p.status = "approved" /\ p.frozen = Content(p)
    /\ Registered(p) # {}
    /\ \A i \in DOMAIN p.credentials : p.credentials[i] = p.frozen

Sound(p) == Related(p) /\ (OpenPlan(p) \/ ApprovedPlan(p))

(* What a command does to the promise of the plan p when it results in r. *)
Advances(p, r) ==
    \/ OpenPlan(p) /\ OpenPlan(r)
    \/ /\ OpenPlan(p) /\ ApprovedPlan(r)
       /\ Content(r) = Content(p) /\ r.credentials = p.credentials
    \/ /\ ApprovedPlan(p) /\ r.frozen = p.frozen
       /\ Content(r) = Content(p) /\ r.credentials = Append(p.credentials, p.frozen)

LEMMA SoundIsValid ==
    ASSUME NEW p, Sound(p)
    PROVE  ValidProjection(p)
<1>1. /\ \A q, r \in Registered(p) : q # r => p.points[q].label # p.points[r].label
      /\ \A q \in Registered(p) :
          /\ p.points[q].config.redundant \in (Registered(p) \cup {None}) \ {q}
          /\ p.points[q].config.primary \in Registered(p) \cup {None}
      /\ TestsRelated(p) /\ TasksRelated(p) /\ IssuesRelated(p)
  BY DEF Sound, Related, PointsRelated
<1>2. CASE OpenPlan(p)
  <2>1. DOMAIN p.credentials = {}
    BY <1>2 DEF OpenPlan
  <2> QED
    BY <1>1, <1>2, <2>1
       DEF OpenPlan, ValidProjection, TestsRelated, TasksRelated, IssuesRelated
<1>3. CASE ApprovedPlan(p)
  BY <1>1, <1>3
     DEF ApprovedPlan, ValidProjection, FrozenDigest, TestsRelated, TasksRelated, IssuesRelated
<1> QED
  BY <1>2, <1>3 DEF Sound

(* Soundness depends on neither the version nor which status of work. *)
LEMMA SameParts ==
    ASSUME NEW p, NEW r, p.header = r.header, SameWork(p, r), p.frozen = r.frozen,
           p.credentials = r.credentials, p.status = "approved" <=> r.status = "approved"
    PROVE  /\ Content(p) = Content(r) /\ Registered(p) = Registered(r)
           /\ Related(p) => Related(r)
           /\ OpenPlan(p) => OpenPlan(r)
           /\ ApprovedPlan(p) => ApprovedPlan(r)
           /\ Sound(p) => Sound(r)
           /\ Advances(plan, p) => Advances(plan, r)
<1>1. Content(p) = Content(r) /\ Registered(p) = Registered(r) /\ PrimaryOf(p) = PrimaryOf(r)
  BY DEF SameWork, Content, Registered, PrimaryOf
<1>2. Related(p) => Related(r)
  BY <1>1
     DEF SameWork, Related, PointsRelated, TestsRelated, TasksRelated, IssuesRelated
<1>3. (OpenPlan(p) => OpenPlan(r)) /\ (ApprovedPlan(p) => ApprovedPlan(r))
  BY <1>1 DEF OpenPlan, ApprovedPlan
<1> QED
  BY <1>1, <1>2, <1>3 DEF Sound, Advances

PInv == HInv /\ Sound(plan) /\ ~ refused

(* The command was accepted, and left the plan sound. *)
Kept == Sound(plan') /\ Advances(plan, plan') /\ ~ refused'

LEMMA CommitSound ==
    ASSUME PInv, NEW p \in Plan, Sound(p), Advances(plan, p), Commit(p)
    PROVE  Kept
<1> DEFINE next == [p EXCEPT !.version = @ + 1]
<1>1. /\ next.header = p.header /\ SameWork(p, next) /\ next.frozen = p.frozen
      /\ next.credentials = p.credentials /\ next.status = p.status
  BY DEF Plan, SameWork
<1>2. Sound(next) /\ Advances(plan, next)
  <2> HIDE DEF next
  <2> QED
    BY <1>1, SameParts
<1>3. ValidProjection(next)
  BY <1>2, SoundIsValid
<1> QED
  BY <1>2, <1>3 DEF Commit, PInv, Kept

LEMMA RefreshRelated ==
    ASSUME NEW p \in Plan, Related(p)
    PROVE  Related(RefreshIssues(p))
<1> DEFINE r == RefreshIssues(p)
<1>1. /\ r.points = p.points /\ r.tests = p.tests /\ r.tasks = p.tasks
      /\ \A k \in IssueKeys : r.issues[k] # "none" => p.issues[k] # "none" \/ k \in EvaluateRules(p)
  BY RefreshParts
<1> HIDE DEF r
<1>2. Registered(r) = Registered(p) /\ PrimaryOf(r) = PrimaryOf(p)
  BY <1>1 DEF Registered, PrimaryOf
<1>3. \A k \in EvaluateRules(p) : k.point \in Registered(p) \cup {None}
  BY DEF EvaluateRules, RuleHits, PlanOverload, Content, Registered
<1>4. IssuesRelated(r)
  BY <1>1, <1>2, <1>3 DEF IssuesRelated, Related
<1> QED
  BY <1>1, <1>2, <1>4 DEF Related, PointsRelated, TestsRelated, TasksRelated, r

(* Work that leaves the plan open. *)
LEMMA OpenSound ==
    ASSUME PInv, Mutable(plan), NEW p \in Plan, Related(p), OpenPlan(p),
           NEW s \in {p, Settle(p), Demote(p)}, Commit(s)
    PROVE  Kept
<1>1. OpenPlan(plan)
  BY DEF PInv, Sound, Mutable, ApprovedPlan
<1>2. s \in Plan /\ Related(s) /\ OpenPlan(s)
  <2>1. CASE s = p
    BY <2>1
  <2>2. CASE s \in {Settle(p), Demote(p)}
    <3>1. s \in Plan
      BY <2>2, SettleType
    <3>2. /\ s.header = p.header /\ SameWork(p, s) /\ s.frozen = p.frozen
          /\ s.credentials = p.credentials /\ s.status # "approved" /\ p.status # "approved"
      BY <2>2, SettleParts DEF OpenPlan
    <3> QED
      BY <3>1, <3>2, SameParts
  <2> QED
    BY <2>1, <2>2
<1> QED
  BY <1>1, <1>2, CommitSound DEF Sound, Advances

(* Work that ends in refreshing the issues. *)
LEMMA WorkSound ==
    ASSUME PInv, Mutable(plan), NEW p \in Plan, Related(p), p.status = plan.status,
           p.frozen = plan.frozen, p.credentials = plan.credentials,
           NEW s \in {RefreshIssues(p), Settle(RefreshIssues(p)), Demote(RefreshIssues(p))},
           Commit(s)
    PROVE  Kept
<1> DEFINE r == RefreshIssues(p)
<1>1. OpenPlan(plan)
  BY DEF PInv, Sound, Mutable, ApprovedPlan
<1>2. r \in Plan /\ Related(r) /\ OpenPlan(r)
  BY <1>1, RefreshType, RefreshRelated, RefreshParts DEF OpenPlan
<1> HIDE DEF r
<1>3. s \in {r, Settle(r), Demote(r)}
  BY DEF r
<1> QED
  BY <1>2, <1>3, OpenSound

(* A point may be set to one that fits among the others. *)
LEMMA SetPointRelated ==
    ASSUME NEW p \in Plan, Related(p), NEW q \in Points, NEW point \in Point,
           LabelFree(p, q, point.label),
           point.config.redundant \in (Registered(p) \cup {None}) \ {q},
           point.config.primary \in Registered(p) \cup {None},
           Acyclic(PrimaryOf([p EXCEPT !.points[q] = point]))
    PROVE  Related([p EXCEPT !.points[q] = point])
<1> DEFINE r == [p EXCEPT !.points[q] = point]
<1>1. /\ r.tests = p.tests /\ r.tasks = p.tasks /\ r.issues = p.issues
      /\ r.points = [p.points EXCEPT ![q] = point] /\ p.points \in [Points -> Point \cup {None}]
  BY DEF Plan
<1>2. point # None
  BY ConstantsAssumption
<1>3. Acyclic(PrimaryOf(r))
  OBVIOUS
<1> HIDE DEF r
<1>4. /\ Registered(r) = Registered(p) \cup {q} /\ r.points[q] = point
      /\ \A s \in Points \ {q} : r.points[s] = p.points[s]
  BY <1>1, <1>2 DEF Registered
<1>5. /\ \A s, t \in Registered(p) : s # t => p.points[s].label # p.points[t].label
      /\ \A s \in Registered(p) :
          /\ p.points[s].config.redundant \in (Registered(p) \cup {None}) \ {s}
          /\ p.points[s].config.primary \in Registered(p) \cup {None}
      /\ Registered(p) \subseteq Points
  BY DEF Related, PointsRelated, Registered
<1>6. \A s, t \in Registered(r) : s # t => r.points[s].label # r.points[t].label
  BY <1>4, <1>5 DEF LabelFree
<1>7. \A s \in Registered(r) :
        /\ r.points[s].config.redundant \in (Registered(r) \cup {None}) \ {s}
        /\ r.points[s].config.primary \in Registered(r) \cup {None}
  <2> TAKE s \in Registered(r)
  <2>1. CASE s = q
    BY <1>4, <2>1
  <2>2. CASE s # q
    BY <1>4, <1>5, <2>2
  <2> QED
    BY <2>1, <2>2
<1>8. PointsRelated(r)
  BY <1>3, <1>6, <1>7 DEF PointsRelated
<1>9. TestsRelated(r) /\ TasksRelated(r) /\ IssuesRelated(r)
  BY <1>1, <1>4 DEF Related, TestsRelated, TasksRelated, IssuesRelated
<1> QED
  BY <1>8, <1>9 DEF Related, r

(* A point that nothing refers to may go. *)
LEMMA ClearPointRelated ==
    ASSUME NEW p \in Plan, Related(p), NEW q \in Points, RemovalAllowed(p, q)
    PROVE  Related([p EXCEPT !.points[q] = None,
                             !.issues = [k \in IssueKeys |-> IF k.point = q THEN "none" ELSE @[k]]])
<1> DEFINE r == [p EXCEPT !.points[q] = None,
                          !.issues = [k \in IssueKeys |-> IF k.point = q THEN "none" ELSE @[k]]]
<1>1. /\ r.tests = p.tests /\ r.tasks = p.tasks
      /\ r.issues = [k \in IssueKeys |-> IF k.point = q THEN "none" ELSE p.issues[k]]
      /\ r.points = [p.points EXCEPT ![q] = None] /\ p.points \in [Points -> Point \cup {None}]
  BY DEF Plan
<1> HIDE DEF r
<1>2. /\ Registered(r) = Registered(p) \ {q} /\ Registered(r) \subseteq Points
      /\ \A s \in Registered(r) : r.points[s] = p.points[s]
  BY <1>1 DEF Registered
<1>3. /\ \A s, t \in Registered(r) : s # t => r.points[s].label # r.points[t].label
      /\ \A s \in Registered(r) :
          /\ r.points[s].config.redundant \in (Registered(r) \cup {None}) \ {s}
          /\ r.points[s].config.primary \in Registered(r) \cup {None}
  BY <1>2 DEF Related, PointsRelated, RemovalAllowed
<1>4. Acyclic(PrimaryOf(r))
  <2>1. DOMAIN PrimaryOf(r) = Registered(r) /\ DOMAIN PrimaryOf(p) = Registered(p)
    BY DEF PrimaryOf
  <2>2. \A s \in Registered(r) : PrimaryOf(r)[s] = PrimaryOf(p)[s]
    BY <1>2 DEF PrimaryOf
  <2>3. Acyclic(PrimaryOf(p))
    BY DEF Related, PointsRelated
  <2> QED
    BY <1>2, <2>1, <2>2, <2>3 DEF Acyclic
<1>5. TestsRelated(r) /\ TasksRelated(r)
  BY <1>1, <1>2 DEF Related, TestsRelated, TasksRelated, RemovalAllowed
<1>6. IssuesRelated(r)
  BY <1>1, <1>2 DEF Related, IssuesRelated
<1> QED
  BY <1>3, <1>4, <1>5, <1>6 DEF Related, PointsRelated, r

(* A plan that only has more tests, of its own points. *)
LEMMA MoreTestsRelated ==
    ASSUME NEW p \in Plan, Related(p), NEW r, NEW new \in Seq(Test), NewTests(p, r, new),
           r.tasks = p.tasks, r.issues = p.issues
    PROVE  Related(r)
<1>1. Registered(r) = Registered(p) /\ PrimaryOf(r) = PrimaryOf(p) /\ r.points = p.points
  BY DEF NewTests, Registered, PrimaryOf
<1>2. TestsRelated(r)
  <2> DEFINE a == p.tests
  <2>1. a \in Seq(Test) /\ \A i \in DOMAIN a : a[i].point \in Registered(p)
    BY DEF Plan, Related, TestsRelated
  <2>2. r.tests = a \o new /\ \A i \in DOMAIN new : new[i].point \in Registered(p)
    BY DEF NewTests, Current
  <2> HIDE DEF a
  <2>3. \A i \in DOMAIN (a \o new) : i \in DOMAIN a \/ \E j \in DOMAIN new : i = Len(a) + j
    BY <2>1, ConcatParts
  <2>4. /\ \A i \in DOMAIN a : (a \o new)[i] = a[i]
        /\ \A i \in DOMAIN new : (a \o new)[Len(a) + i] = new[i]
    BY <2>1, ConcatParts
  <2>5. \A i \in DOMAIN (a \o new) : (a \o new)[i].point \in Registered(p)
    <3> TAKE i \in DOMAIN (a \o new)
    <3>1. CASE i \in DOMAIN a
      BY <2>1, <2>4, <3>1
    <3>2. CASE \E j \in DOMAIN new : i = Len(a) + j
      BY <2>2, <2>4, <3>2
    <3> QED
      BY <2>3, <3>1, <3>2
  <2> QED
    BY <1>1, <2>2, <2>5 DEF TestsRelated
<1> QED
  BY <1>1, <1>2 DEF Related, PointsRelated, TasksRelated, IssuesRelated

-----------------------------------------------------------------------------
(* What each command does to a sound plan.                                 *)

LEMMA UpdatePlanKept ==
    ASSUME PInv, NEW h \in Headers, UpdatePlan(h)
    PROVE  Kept
<1> DEFINE p == [plan EXCEPT !.header = h]
<1>1. plan \in Plan /\ Related(plan)
  BY DEF PInv, HInv, IInv, TypeOK, Sound
<1>2. /\ p.points = plan.points /\ p.tests = plan.tests /\ p.tasks = plan.tasks
      /\ p.issues = plan.issues /\ p.status = plan.status /\ p.frozen = plan.frozen
      /\ p.credentials = plan.credentials
  BY <1>1 DEF Plan
<1>3. p \in Plan
  BY <1>1, ConstantsAssumption DEF Plan, Header
<1>4. Mutable(plan) /\ Commit(Demote(RefreshIssues(p)))
  BY DEF UpdatePlan
<1> HIDE DEF p
<1>5. Registered(p) = Registered(plan) /\ PrimaryOf(p) = PrimaryOf(plan)
  BY <1>2 DEF Registered, PrimaryOf
<1>6. Related(p)
  BY <1>1, <1>2, <1>5
     DEF Related, PointsRelated, TestsRelated, TasksRelated, IssuesRelated
<1> QED
  BY <1>2, <1>3, <1>4, <1>6, WorkSound

LEMMA AddPointKept ==
    ASSUME PInv, NEW q \in Points, NEW l \in Labels, NEW v \in AddValues,
           NEW a \in Points \cup {None}, NEW b \in Points \cup {None}, AddPoint(q, l, v, a, b)
    PROVE  Kept
<1> DEFINE config == PointConfig(v, a, b)
           point  == [label |-> l, config |-> config,
                      digest |-> PointConfigDigest(config), revision |-> 1]
           p      == [plan EXCEPT !.points[q] = point]
<1>1. plan \in Plan /\ Related(plan)
  BY DEF PInv, HInv, IInv, TypeOK, Sound
<1>2. config \in Config /\ config.primary = a /\ config.redundant = b
  BY ConfigType DEF PointConfig
<1>3. point \in Point /\ point.label = l /\ point.config = config
  BY <1>2 DEF Point, PointConfigDigest
<1>4. /\ Mutable(plan) /\ Commit(RefreshIssues(p))
      /\ LabelFree(plan, q, l) /\ Acyclic(PrimaryOf(p))
      /\ ReferenceValid(plan, q, a) /\ ReferenceValid(plan, q, b)
  BY DEF AddPoint, ValidPointGraph
<1>5. /\ a \in Registered(plan) \cup {None}
      /\ b \in (Registered(plan) \cup {None}) \ {q}
  BY <1>4, ConstantsAssumption DEF ReferenceValid
<1> HIDE DEF config, point
<1>6. p \in Plan /\ Related(p)
  BY <1>1, <1>2, <1>3, <1>4, <1>5, SetPointType, SetPointRelated
<1>7. p.status = plan.status /\ p.frozen = plan.frozen /\ p.credentials = plan.credentials
  BY <1>1 DEF Plan
<1> HIDE DEF p
<1> QED
  BY <1>4, <1>6, <1>7, WorkSound

LEMMA UpdatePointKept ==
    ASSUME PInv, NEW q \in Points, NEW l \in Labels, NEW v \in ReviseValues,
           NEW a \in Points \cup {None}, NEW b \in Points \cup {None}, UpdatePoint(q, l, v, a, b)
    PROVE  Kept
<1> DEFINE config == PointConfig(v, a, b)
           point  == [Revised(plan.points[q], config) EXCEPT !.label = l]
           p      == [plan EXCEPT !.points[q] = point]
<1>1. plan \in Plan /\ Related(plan)
  BY DEF PInv, HInv, IInv, TypeOK, Sound
<1>2. config \in Config /\ config.primary = a /\ config.redundant = b
  BY ConfigType DEF PointConfig
<1>3. point \in Point /\ point.label = l /\ point.config = config
  <2>1. plan.points[q] \in Point
    BY <1>1, PointType DEF UpdatePoint
  <2>2. Revised(plan.points[q], config) \in Point /\ Revised(plan.points[q], config).config = config
    BY <1>2, <2>1, RevisedType DEF Revised, Point
  <2> HIDE DEF config
  <2> QED
    BY <2>2 DEF Point
<1>4. /\ Mutable(plan) /\ Commit(Demote(RefreshIssues(p)))
      /\ LabelFree(plan, q, l) /\ Acyclic(PrimaryOf(p))
      /\ ReferenceValid(plan, q, a) /\ ReferenceValid(plan, q, b)
  BY DEF UpdatePoint, ValidPointGraph
<1>5. /\ a \in Registered(plan) \cup {None}
      /\ b \in (Registered(plan) \cup {None}) \ {q}
  BY <1>4, ConstantsAssumption DEF ReferenceValid
<1> HIDE DEF config, point
<1>6. p \in Plan /\ Related(p)
  BY <1>1, <1>2, <1>3, <1>4, <1>5, SetPointType, SetPointRelated
<1>7. p.status = plan.status /\ p.frozen = plan.frozen /\ p.credentials = plan.credentials
  BY <1>1 DEF Plan
<1> HIDE DEF p
<1> QED
  BY <1>4, <1>6, <1>7, WorkSound

LEMMA RemovePointKept ==
    ASSUME PInv, NEW q \in Points, RemovePoint(q)
    PROVE  Kept
<1> DEFINE p == [plan EXCEPT !.points[q] = None,
                     !.issues = [k \in IssueKeys |-> IF k.point = q THEN "none" ELSE @[k]]]
<1>1. plan \in Plan /\ Related(plan)
  BY DEF PInv, HInv, IInv, TypeOK, Sound
<1>2. Mutable(plan) /\ RemovalAllowed(plan, q) /\ Commit(RefreshIssues(p))
  BY DEF RemovePoint
<1>3. p \in Plan
  BY <1>1 DEF Plan, IssueStatus
<1>4. Related(p)
  BY <1>1, <1>2, ClearPointRelated
<1>5. p.status = plan.status /\ p.frozen = plan.frozen /\ p.credentials = plan.credentials
  BY <1>1 DEF Plan
<1> HIDE DEF p
<1> QED
  BY <1>2, <1>3, <1>4, <1>5, WorkSound

LEMMA RecordTestKept ==
    ASSUME PInv, NEW q \in Points, NEW m \in Measurements, RecordTest(q, m)
    PROVE  Kept
<1> DEFINE test == NewTest(plan, q, "initial", m, now', 0)
           p    == [plan EXCEPT !.tests = Append(@, test)]
<1>1. plan \in Plan /\ Related(plan) /\ now' \in Int
  BY ClockType DEF PInv, HInv, IInv, TypeOK, Sound, RecordTest
<1>2. /\ Mutable(plan) /\ ValidTest(plan, q, m) /\ q \in Registered(plan)
      /\ Commit(Settle(RefreshIssues(p)))
  BY DEF RecordTest, ValidTest
<1>3. test \in Test /\ Current(plan, test)
  BY <1>1, <1>2, NewTestType, NewTestCurrent
<1> HIDE DEF test
<1>4. p \in Plan /\ NewTests(plan, p, <<test>>) /\ <<test>> \in Seq(Test)
  BY <1>1, <1>3, AppendTestType, OneTest
<1>5. /\ p.status = plan.status /\ p.frozen = plan.frozen /\ p.credentials = plan.credentials
      /\ p.tasks = plan.tasks /\ p.issues = plan.issues
  BY <1>1 DEF Plan
<1> HIDE DEF p
<1>6. Related(p)
  BY <1>1, <1>4, <1>5, MoreTestsRelated
<1> QED
  BY <1>2, <1>4, <1>5, <1>6, WorkSound

LEMMA RecordTestBatchKept ==
    ASSUME PInv, NEW rows \in Batches, RecordTestBatch(rows)
    PROVE  Kept
<1> DEFINE p == [plan EXCEPT !.tests = @ \o [i \in DOMAIN rows |->
                    NewTest(plan, rows[i].point, "initial", rows[i].m, now', 0)]]
<1>1. plan \in Plan /\ Related(plan) /\ TypeOK
  BY DEF PInv, HInv, IInv, TypeOK, Sound
<1>2. Mutable(plan) /\ Commit(Settle(RefreshIssues(p)))
  BY DEF RecordTestBatch
<1>3. p \in Plan
  BY <1>1, BatchType
<1>4. PICK new \in Seq(Test) : NewTests(plan, p, new)
  BY BatchTests DEF PInv, HInv
<1>5. /\ p.status = plan.status /\ p.frozen = plan.frozen /\ p.credentials = plan.credentials
      /\ p.tasks = plan.tasks /\ p.issues = plan.issues
  BY <1>1 DEF Plan
<1> HIDE DEF p
<1>6. Related(p)
  BY <1>1, <1>4, <1>5, MoreTestsRelated
<1> QED
  BY <1>2, <1>3, <1>5, <1>6, WorkSound

LEMMA RecordRetestKept ==
    ASSUME PInv, NEW t \in DOMAIN plan.tasks, NEW m \in Measurements, RecordRetest(t, m)
    PROVE  Kept
<1> DEFINE task == plan.tasks[t]
           test == NewTest(plan, task.point, "retest", m, now', t)
           q    == [plan EXCEPT !.tests = Append(@, test)]
           p    == RefreshIssues(q)
           c    == CloseTask(p, t)
<1>1. /\ plan \in Plan /\ Related(plan) /\ now' \in Int /\ t \in Pending(plan) /\ t \in Nat
      /\ TaskPerRisk(plan) /\ task.issue \in IssueKeys
  BY ClockType, TaskParts
     DEF PInv, HInv, IInv, TypeOK, Sound, RecordRetest, ResolvesTo, Pending, InOrder, TasksInOrder
<1>2. /\ Mutable(plan) /\ ValidTest(plan, task.point, m) /\ task.point \in Registered(plan)
      /\ Commit(Settle(p)) \/ Commit(Settle(c))
  BY DEF RecordRetest, ValidTest
<1>3. test \in Test /\ Current(plan, test)
  BY <1>1, <1>2, NewTestType, NewTestCurrent
<1> HIDE DEF test
<1>4. q \in Plan /\ NewTests(plan, q, <<test>>) /\ <<test>> \in Seq(Test)
  BY <1>1, <1>3, AppendTestType, OneTest
<1>5. /\ q.status = plan.status /\ q.frozen = plan.frozen /\ q.credentials = plan.credentials
      /\ q.tasks = plan.tasks /\ q.issues = plan.issues
  BY <1>1 DEF Plan
<1> HIDE DEF q
<1>6. Related(q)
  BY <1>1, <1>4, <1>5, MoreTestsRelated
<1>7. CASE Commit(Settle(p))
  BY <1>2, <1>4, <1>5, <1>6, <1>7, WorkSound
<1>8. CASE Commit(Settle(c))
  <2>1. p \in Plan /\ Related(p) /\ p.tasks = plan.tasks
    BY <1>4, <1>5, <1>6, RefreshType, RefreshRelated, RefreshParts
  <2>2. OpenPlan(p)
    BY <1>2, <1>4, <1>5, RefreshParts DEF OpenPlan, PInv, Sound, Mutable, ApprovedPlan
  <2>3. p.issues[task.issue] = "retest_pending"
    BY <1>1, <1>4, <1>5, RefreshFrame DEF TaskPerRisk
  <2> HIDE DEF p
  <2>4. /\ c.header = p.header /\ c.points = p.points /\ c.tests = p.tests
        /\ c.tasks = [p.tasks EXCEPT ![t] = [task EXCEPT !.status = "closed"]]
        /\ c.issues = [p.issues EXCEPT ![task.issue] = "closed"]
        /\ c.status = p.status /\ c.frozen = p.frozen /\ c.credentials = p.credentials
    BY <2>1 DEF CloseTask, Plan
  <2>5. c \in Plan
    BY <2>1, CloseTaskType
  <2> HIDE DEF c
  <2>6. Registered(c) = Registered(p) /\ PrimaryOf(c) = PrimaryOf(p)
    BY <2>4 DEF Registered, PrimaryOf
  <2>7. IssuesRelated(c)
    BY <1>1, <2>1, <2>3, <2>4, <2>6 DEF Related, IssuesRelated, Plan
  <2>8. TasksRelated(c)
    <3>1. task \in Task /\ [task EXCEPT !.status = "closed"].point = task.point
      BY <1>1, TaskParts DEF Task
    <3>2. \A i \in DOMAIN c.tasks : i \in DOMAIN p.tasks /\ c.tasks[i].point = p.tasks[i].point
      BY <2>1, <2>4, <3>1
    <3> QED
      BY <2>1, <2>6, <3>2 DEF Related, TasksRelated
  <2>9. Related(c)
    BY <2>1, <2>4, <2>6, <2>7, <2>8 DEF Related, PointsRelated, TestsRelated
  <2> QED
    BY <1>2, <1>8, <2>2, <2>4, <2>5, <2>9, OpenSound DEF OpenPlan
<1> QED
  BY <1>2, <1>7, <1>8

(* A remediation of an issue of a registered point keeps the tasks of      *)
(* registered points.                                                      *)
LEMMA ReplacedRelated ==
    ASSUME NEW p \in Plan, Related(p), NEW k \in IssueKeys, NEW task \in Task,
           task.point \in Registered(p)
    PROVE  \A i \in DOMAIN Append(ReplaceTasks(p.tasks, k), task) :
             Append(ReplaceTasks(p.tasks, k), task)[i].point \in Registered(p)
<1> DEFINE a   == p.tasks
           new == Append(ReplaceTasks(a, k), task)
           n   == Len(a)
<1>1. a \in Seq(Task) /\ n \in Nat /\ \A i \in 1..n : a[i] \in Task /\ a[i].point \in Registered(p)
  BY TaskParts DEF Related, TasksRelated
<1> HIDE DEF a
<1>2. /\ DOMAIN new = 1..(n + 1) /\ new[n + 1] = task
      /\ \A i \in 1..n : new[i] = a[i] \/ new[i] = [a[i] EXCEPT !.status = "replaced"]
  BY <1>1, ReplacedParts
<1> HIDE DEF new, n
<1>3. ASSUME NEW i \in 1..(n + 1) PROVE new[i].point \in Registered(p)
  <2>1. CASE i = n + 1
    BY <1>2, <2>1
  <2>2. CASE i \in 1..n
    <3>1. [a[i] EXCEPT !.status = "replaced"].point = a[i].point
      BY <1>1, <2>2 DEF Task
    <3> QED
      BY <1>1, <1>2, <2>2, <3>1
  <2> QED
    BY <1>1, <2>1, <2>2
<1> QED
  BY <1>2, <1>3 DEF new, a

(* A patch leaves the primary point alone. *)
LEMMA PatchedParts ==
    ASSUME NEW config \in Config, NEW patch \in Patches, NEW b \in Points \cup {None}
    PROVE  /\ Patched(config, patch, b).primary = config.primary
           /\ Patched(config, patch, b).redundant \in {config.redundant, b}
BY DEF Patched, Config

LEMMA RemediateKept ==
    ASSUME PInv, NEW k \in IssueKeys, NEW q \in Points, NEW patch \in Patches,
           NEW b \in Points \cup {None}, Remediate(k, q, patch, b)
    PROVE  Kept
<1> DEFINE old    == plan.points[q]
           config == Patched(old.config, patch, b)
           point  == IF PointConfigDigest(config) = old.digest
                        THEN old ELSE Revised(old, config)
           task   == [issue |-> k, point |-> q, digest |-> point.digest,
                      minTarget |-> point.config.planned, createdAt |-> now', status |-> "pending"]
           p      == [plan EXCEPT !.points[q] = point]
           r      == [p EXCEPT !.tasks = Append(ReplaceTasks(@, k), task),
                               !.issues[k] = "retest_pending", !.status = "remediation"]
<1>1. /\ plan \in Plan /\ Related(plan) /\ now' \in Int /\ Mutable(plan) /\ Commit(r)
      /\ q \in Registered(plan) /\ k \in OpenIssues(plan) /\ ReferenceValid(plan, q, b)
      /\ Acyclic(PrimaryOf(p))
  BY ClockType DEF PInv, HInv, IInv, TypeOK, Sound, Remediate, ValidPointGraph
<1>2. r \in Plan
  BY RemediatedType DEF PInv, HInv, IInv
<1>3. old \in Point /\ old.config \in Config
  BY <1>1, PointType DEF Point
<1>4. /\ config \in Config /\ config.primary = old.config.primary
      /\ config.redundant \in {old.config.redundant, b}
  BY <1>3, PatchedType, PatchedParts
<1>5. /\ point \in Point /\ point.label = old.label
      /\ point.config.primary = old.config.primary
      /\ point.config.redundant \in {old.config.redundant, b}
  <2> HIDE DEF config, old
  <2>1. /\ Revised(old, config) \in Point /\ Revised(old, config).label = old.label
        /\ Revised(old, config).config = config
    BY <1>3, <1>4, RevisedType DEF Revised, Point
  <2> QED
    BY <1>3, <1>4, <2>1
<1>6. task \in Task /\ task.point = q
  BY <1>1, <1>5 DEF Task, Point, TaskStatus, Config
<1> HIDE DEF point, task
<1>7. /\ LabelFree(plan, q, point.label)
      /\ point.config.redundant \in (Registered(plan) \cup {None}) \ {q}
      /\ point.config.primary \in Registered(plan) \cup {None}
  <2>1. /\ old.config.redundant \in (Registered(plan) \cup {None}) \ {q}
        /\ old.config.primary \in Registered(plan) \cup {None}
        /\ LabelFree(plan, q, old.label)
    BY <1>1 DEF Related, PointsRelated, LabelFree
  <2>2. b \in (Registered(plan) \cup {None}) \ {q}
    BY <1>1, ConstantsAssumption DEF ReferenceValid
  <2> QED
    BY <1>5, <2>1, <2>2
<1>8. p \in Plan /\ Related(p)
  BY <1>1, <1>5, <1>7, SetPointType, SetPointRelated
<1>9. /\ p.tasks = plan.tasks /\ p.issues = plan.issues /\ p.frozen = plan.frozen
      /\ p.credentials = plan.credentials /\ p.points[q] = point
  BY <1>1 DEF Plan
<1> HIDE DEF p
<1>10. /\ r.tasks = Append(ReplaceTasks(p.tasks, k), task)
       /\ r.issues = [p.issues EXCEPT ![k] = "retest_pending"]
       /\ r.points = p.points /\ r.tests = p.tests /\ r.status = "remediation"
       /\ r.frozen = p.frozen /\ r.credentials = p.credentials
  BY <1>8 DEF Plan
<1> HIDE DEF r
<1>11. Registered(r) = Registered(p) /\ PrimaryOf(r) = PrimaryOf(p)
  BY <1>10 DEF Registered, PrimaryOf
<1>12. IssuesRelated(r)
  BY <1>1, <1>8, <1>9, <1>10, <1>11 DEF Related, IssuesRelated, Plan, OpenIssues
<1>13. TasksRelated(r)
  <2>1. q \in Registered(p)
    BY <1>5, <1>9, ConstantsAssumption DEF Registered
  <2> QED
    BY <1>6, <1>8, <1>10, <1>11, <2>1, ReplacedRelated DEF TasksRelated
<1>14. Related(r)
  BY <1>8, <1>10, <1>11, <1>12, <1>13 DEF Related, PointsRelated, TestsRelated
<1>15. OpenPlan(r)
  BY <1>1, <1>9, <1>10 DEF OpenPlan, PInv, Sound, Mutable, ApprovedPlan
<1> QED
  BY <1>1, <1>2, <1>14, <1>15, OpenSound

LEMMA ReviewKept ==
    ASSUME PInv, NEW d \in Decisions, Review(d)
    PROVE  Kept
<1> DEFINE p  == RefreshIssues(plan)
           ap == [p EXCEPT !.status = "approved", !.frozen = FrozenDigest(p)]
           re == [p EXCEPT !.status = "returned"]
<1>1. plan \in Plan /\ Related(plan) /\ Mutable(plan) /\ OpenPlan(plan)
  BY DEF PInv, HInv, IInv, TypeOK, Sound, Review, Mutable, ApprovedPlan
<1>2. p \in Plan /\ Related(p) /\ OpenPlan(p) /\ Content(p) = Content(plan)
  BY <1>1, RefreshType, RefreshRelated, RefreshParts DEF OpenPlan, Content
<1>3. ap \in Plan /\ re \in Plan
  BY <1>2, ManifestType DEF Plan, PlanStatus
<1> HIDE DEF p
<1>4. ASSUME NEW s \in {ap, re} PROVE Related(s) /\ Content(s) = Content(p) /\ Registered(s) = Registered(p)
  <2>1. /\ s.header = p.header /\ s.points = p.points /\ s.tests = p.tests
        /\ s.issues = p.issues /\ s.tasks = p.tasks
    BY <1>2 DEF Plan
  <2> HIDE DEF ap, re
  <2>2. Registered(s) = Registered(p) /\ PrimaryOf(s) = PrimaryOf(p) /\ Content(s) = Content(p)
    BY <2>1 DEF Registered, PrimaryOf, Content
  <2> QED
    BY <1>2, <2>1, <2>2
       DEF Related, PointsRelated, TestsRelated, TasksRelated, IssuesRelated
<1>5. /\ ap.status = "approved" /\ ap.frozen = Content(p) /\ ap.credentials = << >>
      /\ re.status = "returned" /\ re.frozen = None /\ re.credentials = << >>
  BY <1>2 DEF Plan, OpenPlan, FrozenDigest
<1>6. CASE Registered(p) # {} /\ Commit(ap)
  <2>1. Related(ap) /\ Content(ap) = Content(p) /\ Registered(ap) = Registered(p)
    BY <1>4
  <2> HIDE DEF ap
  <2>2. DOMAIN ap.credentials = {}
    BY <1>5
  <2>3. ApprovedPlan(ap)
    BY <1>5, <1>6, <2>1, <2>2 DEF ApprovedPlan
  <2>4. Advances(plan, ap)
    BY <1>1, <1>2, <1>5, <2>1, <2>3 DEF Advances, OpenPlan
  <2> QED
    BY <1>3, <1>6, <2>1, <2>3, <2>4, CommitSound DEF Sound
<1>7. CASE Commit(re)
  <2>1. Related(re)
    BY <1>4
  <2> HIDE DEF re
  <2>2. OpenPlan(re)
    BY <1>5 DEF OpenPlan
  <2> QED
    BY <1>1, <1>3, <1>7, <2>1, <2>2, OpenSound
<1> QED
  BY <1>6, <1>7 DEF Review, p

LEMMA IssueCredentialKept ==
    ASSUME PInv, IssueCredential
    PROVE  Kept
<1> DEFINE p == [plan EXCEPT !.credentials = Append(@, plan.frozen)]
<1>1. plan \in Plan /\ Related(plan) /\ ApprovedPlan(plan) /\ plan.frozen \in Manifest
  BY DEF PInv, HInv, IInv, TypeOK, Sound, IssueCredential, OpenPlan, Plan
<1>2. p \in Plan
  <2>1. Append(plan.credentials, plan.frozen) \in Seq(Manifest)
    BY <1>1 DEF Plan
  <2> QED
    BY <1>1, <2>1 DEF Plan
<1>3. /\ p.header = plan.header /\ SameWork(plan, p) /\ p.status = plan.status
      /\ p.frozen = plan.frozen /\ p.credentials = Append(plan.credentials, plan.frozen)
  BY <1>1 DEF Plan, SameWork
<1>4. Commit(p)
  BY DEF IssueCredential
<1> HIDE DEF p
<1>5. Registered(p) = Registered(plan) /\ PrimaryOf(p) = PrimaryOf(plan) /\ Content(p) = Content(plan)
  BY <1>3 DEF Registered, PrimaryOf, Content, SameWork
<1>6. Related(p)
  BY <1>1, <1>3, <1>5
     DEF SameWork, Related, PointsRelated, TestsRelated, TasksRelated, IssuesRelated
<1>7. \A i \in DOMAIN p.credentials : p.credentials[i] = p.frozen
  <2> DEFINE s == plan.credentials
             f == plan.frozen
  <2>1. s \in Seq(Manifest) /\ f \in Manifest /\ \A i \in DOMAIN s : s[i] = f
    BY <1>1 DEF Plan, ApprovedPlan
  <2>2. p.credentials = Append(s, f) /\ p.frozen = f
    BY <1>3
  <2> HIDE DEF s, f
  <2>3. \A i \in DOMAIN Append(s, f) : Append(s, f)[i] = f
    BY <2>1
  <2> QED
    BY <2>2, <2>3
<1>8. ApprovedPlan(p) /\ Advances(plan, p)
  BY <1>1, <1>3, <1>5, <1>7 DEF ApprovedPlan, Advances
<1> QED
  BY <1>2, <1>4, <1>6, <1>8, CommitSound DEF Sound

-----------------------------------------------------------------------------
(* The invariant, and what follows from it.                                *)

LEMMA InitSound == Init => Sound(plan) /\ ~ refused
<1> SUFFICES ASSUME Init PROVE Sound(plan) /\ ~ refused
  OBVIOUS
<1>1. PICK h \in Headers : plan = NewPlan(h)
  BY DEF Init
<1>2. /\ plan.tests = << >> /\ plan.tasks = << >> /\ plan.points = [q \in Points |-> None]
      /\ \A k \in IssueKeys : plan.issues[k] = "none"
      /\ plan.status = "draft" /\ plan.frozen = None /\ plan.credentials = << >>
  BY <1>1 DEF NewPlan
<1>3. /\ DOMAIN plan.tests = {} /\ DOMAIN plan.tasks = {} /\ Registered(plan) = {}
      /\ DOMAIN PrimaryOf(plan) = {}
  BY <1>2 DEF Registered, PrimaryOf
<1>4. Related(plan)
  BY <1>2, <1>3
     DEF Related, PointsRelated, TestsRelated, TasksRelated, IssuesRelated, Acyclic
<1> QED
  BY <1>2, <1>4 DEF Init, Sound, OpenPlan

LEMMA PromiseKept ==
    ASSUME PInv, [Next]_vars
    PROVE  PInv' /\ (plan' = plan \/ Advances(plan, plan'))
<1>1. HInv'
  BY HistoryKept DEF PInv
<1>2. CASE UNCHANGED vars
  BY <1>1, <1>2 DEF PInv, vars
<1>3. ASSUME Next PROVE Kept
  BY <1>3, UpdatePlanKept, AddPointKept, UpdatePointKept, RemovePointKept, RecordTestKept,
     RecordTestBatchKept, RecordRetestKept, RemediateKept, ReviewKept, IssueCredentialKept
     DEF Next
<1> QED
  BY <1>1, <1>2, <1>3 DEF PInv, Kept

LEMMA SoundnessHolds == Spec => []PInv
<1>1. Init => PInv
  BY InitType, InitOrder, InitHistory, InitSound DEF PInv, HInv, IInv
<1>2. PInv /\ [Next]_vars => PInv'
  BY PromiseKept
<1> QED
  BY <1>1, <1>2, PTL DEF Spec

(* What the commands check before they change a plan is enough for every   *)
(* check of validatePlanProjection on what they make of it.                *)
THEOREM CommandsFitProjection == Spec => []ProjectionAccepted
<1>1. PInv => ProjectionAccepted
  BY DEF PInv, ProjectionAccepted
<1> QED
  BY <1>1, SoundnessHolds, PTL

(* A plan without risks is one no rule is hit by. *)
LEMMA NoRuleHit ==
    ASSUME NEW p \in Plan, EvaluateRules(p) = {}, NEW q \in Registered(p), NEW code \in PointRules
    PROVE  ~ PointRuleHit(Content(p), q, code)
<1> DEFINE k == [point |-> q, code |-> code]
<1>1. k \in IssueKeys /\ k.point = q /\ k.code = code /\ q \in Registered(Content(p))
  BY DEF IssueKeys, Registered, Content
<1> HIDE DEF k
<1>2. ~ (k.point \in Registered(Content(p)) /\ PointRuleHit(Content(p), k.point, k.code))
  BY <1>1 DEF EvaluateRules, RuleHits
<1> QED
  BY <1>1, <1>2

(* A point without primary has another one for its redundancy. *)
LEMMA RedundantPoint ==
    ASSUME NEW p \in Plan, Related(p), EvaluateRules(p) = {}, NEW q \in Registered(p),
           p.points[q].config.primary = None
    PROVE  p.points[q].config.redundant \in Registered(p) \ {q}
<1>1. ~ PointRuleHit(Content(p), q, "REDUNDANCY_MISSING")
  BY NoRuleHit DEF PointRules
<1>2. p.points[q].config.redundant \notin {None, q}
  BY <1>1 DEF PointRuleHit, Content
<1> QED
  BY <1>2 DEF Related, PointsRelated

LEMMA ApprovedHasNoRisk ==
    ASSUME PInv, plan.status = "approved"
    PROVE  plan \in Plan /\ Related(plan) /\ ApprovedPlan(plan) /\ EvaluateRules(plan) = {}
BY DEF PInv, HInv, IInv, TypeOK, InOrder, RisksShown, ClearIfApproved, Sound, OpenPlan

(* Some point of an approved plan has no primary and another registered    *)
(* point for its redundancy: the primaries lead nowhere else.              *)
THEOREM ApprovedIsBackedUp == Spec => []IndependentRedundancy
<1>1. PInv => IndependentRedundancy
  <2> SUFFICES ASSUME PInv, plan.status = "approved"
               PROVE  \E q \in Registered(plan) :
                        /\ plan.points[q].config.primary = None
                        /\ plan.points[q].config.redundant \in Registered(plan) \ {q}
    BY DEF IndependentRedundancy
  <2>1. /\ plan \in Plan /\ Related(plan) /\ EvaluateRules(plan) = {}
        /\ Registered(plan) # {}
    BY ApprovedHasNoRisk DEF ApprovedPlan
  <2>2. DOMAIN PrimaryOf(plan) = Registered(plan) /\ Acyclic(PrimaryOf(plan))
    BY <2>1 DEF PrimaryOf, Related, PointsRelated
  <2>3. PICK q \in Registered(plan) : PrimaryOf(plan)[q] \notin Registered(plan)
    BY <2>1, <2>2 DEF Acyclic
  <2>4. plan.points[q].config.primary = None
    BY <2>1, <2>3 DEF PrimaryOf, Related, PointsRelated
  <2> QED
    BY <2>1, <2>4, RedundantPoint
<1> QED
  BY <1>1, SoundnessHolds, PTL

-----------------------------------------------------------------------------
(* The plan implements Clearance.                                          *)

(* The load that the rules add up is the one that Clearance does. *)
LEMMA SameLoad ==
    ASSUME NEW p \in Plan, EvaluateRules(p) = {}
    PROVE  LET c == Content(p) IN
           ~ (Promise!MapThenSumSet(LAMBDA q : c.points[q].config.planned, Promise!Hung(c))
                > c.header.ratedTotal)
<1> DEFINE c == Content(p)
           Load(S) == Promise!MapThenSumSet(LAMBDA q : c.points[q].config.planned, S)
<1>1. Promise!Hung(c) = Registered(c)
  BY DEF Promise!Hung, Registered, Content, Plan
<1>2. TotalPlanned(c) = Load(Registered(c))
  BY DEF TotalPlanned, MapThenSumSet, MapThenFoldSet, Promise!MapThenSumSet, Promise!MapThenFoldSet
<1>3. PlanOverload \in IssueKeys /\ PlanOverload \notin RuleHits(c)
  BY DEF IssueKeys, EvaluateRules
<1>4. ~ (Load(Registered(c)) > c.header.ratedTotal)
  <2> HIDE DEF Load
  <2> QED
    BY <1>2, <1>3 DEF RuleHits
<1>5. ~ (Load(Promise!Hung(c)) > c.header.ratedTotal)
  <2> HIDE DEF Load, c
  <2> QED
    BY <1>1, <1>4
<1> QED
  BY <1>5

LEMMA NoRiskIsSafe ==
    ASSUME NEW p \in Plan, TestsInOrder(p), Related(p), EvaluateRules(p) = {}, Registered(p) # {}
    PROVE  Promise!Safe(Content(p))
<1> DEFINE c == Content(p)
<1>1. c.points = p.points /\ c.tests = p.tests /\ c.header = p.header
  BY DEF Content
<1>2. Promise!Hung(c) = Registered(p) /\ Registered(c) = Registered(p)
  BY <1>1 DEF Promise!Hung, Registered, Plan
<1>3. ASSUME NEW q \in Registered(p) PROVE Promise!SafePoint(c, q)
  <2> DEFINE config == p.points[q].config
             E == Evidence(p, q)
             i == LatestTest(p, q)
  <2>1. q \in Points /\ p.points[q] \in Point /\ config \in Config
    BY PointType DEF Point
  <2>2. config.planned <= config.rated
    <3>1. ~ (config.planned > config.rated)
      BY <1>1, NoRuleHit DEF PointRules, PointRuleHit
    <3> QED
      BY <2>1, <3>1 DEF Config
  <2>3. config.cert >= c.header.date
    <3>1. ~ (config.cert < p.header.date)
      BY <1>1, NoRuleHit DEF PointRules, PointRuleHit, CertificateExpired
    <3>2. p.header.date \in Nat /\ config.cert \in Nat
      BY <2>1 DEF Plan, Header, Config
    <3> QED
      BY <1>1, <3>1, <3>2
  <2>4. {config.primary, config.redundant} \cap (Promise!Hung(c) \ {q}) # {}
    <3>1. CASE config.primary = None
      BY <1>2, <3>1, RedundantPoint
    <3>2. CASE config.primary # None
      <4>1. DOMAIN PrimaryOf(p) = Registered(p) /\ Acyclic(PrimaryOf(p))
        BY DEF PrimaryOf, Related, PointsRelated
      <4>2. PrimaryOf(p)[q] \notin {q}
        BY <4>1 DEF Acyclic
      <4>3. config.primary \in Registered(p) \ {q}
        BY <3>2, <4>2 DEF PrimaryOf, Related, PointsRelated
      <4> QED
        BY <1>2, <4>3
    <3> QED
      BY <3>1, <3>2
  <2>5. /\ i \in E /\ E \subseteq DOMAIN p.tests
        /\ \A j \in E : p.tests[j].at < p.tests[i].at \/ (p.tests[j].at = p.tests[i].at /\ i <= j)
    <3>1. Evidence(c, q) = E
      BY <1>1 DEF Evidence
    <3>2. E # {}
      BY <3>1, NoRuleHit DEF PointRules, PointRuleHit
    <3>3. IsLatest(p.tests, E, i)
      BY <3>2, LatestTestIsLatest
    <3> QED
      BY <3>3 DEF IsLatest, Evidence
  <2>6. Passes(p.tests[i].m)
    <3>1. [point |-> q, code |-> "TEST_FAILED"] \notin EvaluateRules(p)
      OBVIOUS
    <3> QED
      BY <2>5, <3>1, FailedTestRule
  <2>7. Promise!Proven(p.tests[i])
    BY <2>6 DEF Promise!Proven, Passes, MinimumHold, MaximumDeformation
  <2>8. p.points[q].digest = config
    BY DEF TestsInOrder, DigestsOwn
  <2>9. p.tests[i].digest = config /\ p.tests[i].point = q
    BY <2>5, <2>8 DEF Evidence
  <2>10. p.tests[i].m.target >= config.planned
    BY <2>5, <2>9 DEF TestsInOrder, TestsQuote
  <2>11. ASSUME NEW j \in DOMAIN p.tests, Promise!About(p.tests[j], q, config)
         PROVE  p.tests[j].at <= p.tests[i].at
    <3>1. j \in E
      BY <2>8, <2>11 DEF Promise!About, Evidence
    <3>2. p.tests[j].at \in Int /\ p.tests[i].at \in Int
      BY <2>5, <2>11, TestParts
    <3> QED
      BY <2>5, <3>1, <3>2
  <2> HIDE DEF config, i, c
  <2>12. Promise!About(p.tests[i], q, config)
    BY <2>9 DEF Promise!About
  <2> QED
    BY <1>1, <2>2, <2>3, <2>4, <2>5, <2>7, <2>10, <2>11, <2>12 DEF Promise!SafePoint, config
<1>4. ~ (Promise!MapThenSumSet(LAMBDA q : c.points[q].config.planned, Promise!Hung(c))
           > c.header.ratedTotal)
  BY SameLoad
<1>5. Promise!Hung(c) # {} /\ \A q \in Promise!Hung(c) : Promise!SafePoint(c, q)
  BY <1>2, <1>3
<1> HIDE DEF c
<1>6. Promise!Safe(c)
  BY <1>4, <1>5 DEF Promise!Safe
<1> QED
  BY <1>6 DEF c

(* Every step of a plan is a step of Clearance, or none of its business. *)
LEMMA AdvanceIsPromised ==
    ASSUME PInv, PInv', Advances(plan, plan')
    PROVE  [Promise!Next]_(Promise!vars)
<1>1. CASE OpenPlan(plan) /\ OpenPlan(plan')
  BY <1>1 DEF OpenPlan, Promise!Next, Promise!Work, Promise!vars
<1>2. CASE /\ OpenPlan(plan) /\ ApprovedPlan(plan')
           /\ Content(plan') = Content(plan) /\ plan'.credentials = plan.credentials
  <2>1. /\ plan' \in Plan /\ TestsInOrder(plan') /\ Related(plan') /\ EvaluateRules(plan') = {}
        /\ Registered(plan') # {}
    BY <1>2 DEF PInv, HInv, IInv, TypeOK, InOrder, RisksShown, ClearIfApproved, Sound, ApprovedPlan
  <2>2. Promise!Safe(Content(plan))
    BY <1>2, <2>1, NoRiskIsSafe
  <2> QED
    BY <1>2, <2>2 DEF OpenPlan, ApprovedPlan, Promise!Next, Promise!Approve
<1>3. CASE /\ ApprovedPlan(plan) /\ plan'.frozen = plan.frozen
           /\ Content(plan') = Content(plan)
           /\ plan'.credentials = Append(plan.credentials, plan.frozen)
  <2>1. plan.frozen # None
    BY <1>3, ManifestType, ConstantsAssumption
       DEF ApprovedPlan, FrozenDigest, PInv, HInv, IInv, TypeOK
  <2> QED
    BY <1>3, <2>1 DEF Promise!Next, Promise!Issue
<1> QED
  BY <1>1, <1>2, <1>3 DEF Advances

(* The workflow of rules, issues, tasks and reviews implements the promise *)
(* stated without any of them.                                             *)
THEOREM PlanKeepsPromise == Spec => KeepsPromise
<1>1. Init => Promise!Init
  BY DEF Init, NewPlan, Promise!Init
<1>2. PInv /\ PInv' /\ [Next]_vars => [Promise!Next]_(Promise!vars)
  <2> SUFFICES ASSUME PInv, [Next]_vars PROVE [Promise!Next]_(Promise!vars)
    OBVIOUS
  <2>1. CASE plan' = plan
    BY <2>1 DEF Promise!vars
  <2>2. CASE Advances(plan, plan')
    BY <2>2, PromiseKept, AdvanceIsPromised
  <2> QED
    BY <2>1, <2>2, PromiseKept
<1> QED
  BY <1>1, <1>2, SoundnessHolds, PTL DEF Spec, KeepsPromise, Promise!Spec

-----------------------------------------------------------------------------
(* What a credential is worth.                                             *)

(* What is frozen is the plan's content, and safe, and so is what every    *)
(* credential vouches for.                                                 *)
Cleared ==
    IF plan.frozen = None
       THEN plan.credentials = << >>
       ELSE /\ plan.frozen = Content(plan) /\ Promise!Safe(Content(plan))
            /\ \E n \in Nat : plan.credentials = [i \in 1..n |-> Content(plan)]

LEMMA InitCleared == Promise!Init => Cleared
BY DEF Promise!Init, Cleared

LEMMA NextCleared == ASSUME Cleared, [Promise!Next]_(Promise!vars) PROVE Cleared'
<1>1. CASE UNCHANGED Promise!vars
  <2>1. /\ Content(plan') = Content(plan) /\ plan'.frozen = plan.frozen
        /\ plan'.credentials = plan.credentials
    BY <1>1 DEF Promise!vars
  <2> QED
    BY <2>1 DEF Cleared
<1>2. CASE Promise!Work
  BY <1>2 DEF Promise!Work, Cleared
<1>3. CASE Promise!Approve
  <2>1. /\ plan.frozen = None /\ Promise!Safe(Content(plan)) /\ plan'.frozen = Content(plan)
        /\ Content(plan') = Content(plan) /\ plan'.credentials = << >>
    BY <1>3 DEF Promise!Approve, Cleared
  <2>2. << >> = [i \in 1..0 |-> Content(plan)]
    OBVIOUS
  <2> QED
    BY <2>1, <2>2 DEF Cleared
<1>4. CASE Promise!Issue
  <2> DEFINE C == Content(plan)
  <2>1. /\ plan.frozen = C /\ C # None /\ Promise!Safe(C) /\ Content(plan') = C
        /\ plan'.frozen = C /\ plan'.credentials = Append(plan.credentials, C)
    BY <1>4 DEF Promise!Issue, Cleared
  <2>2. PICK n \in Nat : plan.credentials = [i \in 1..n |-> C]
    BY <2>1 DEF Cleared
  <2> HIDE DEF C
  <2>3. Append([i \in 1..n |-> C], C) = [i \in 1..(n + 1) |-> C]
    OBVIOUS
  <2>4. n + 1 \in Nat
    OBVIOUS
  <2> QED
    BY <2>1, <2>2, <2>3, <2>4 DEF Cleared, C
<1> QED
  BY <1>1, <1>2, <1>3, <1>4 DEF Promise!Next

(* Every credential that was ever issued vouches for exactly what the plan *)
(* is now, and that is safe to fly.                                        *)
THEOREM CredentialsVouchForSafePlan ==
    Spec => [](\A i \in DOMAIN plan.credentials :
                  plan.credentials[i] = Content(plan) /\ Promise!Safe(Content(plan)))
<1>1. Cleared => \A i \in DOMAIN plan.credentials :
                    plan.credentials[i] = Content(plan) /\ Promise!Safe(Content(plan))
  <2> SUFFICES ASSUME Cleared, NEW i \in DOMAIN plan.credentials
               PROVE  plan.credentials[i] = Content(plan) /\ Promise!Safe(Content(plan))
    OBVIOUS
  <2> DEFINE C == Content(plan)
             F == Promise!Safe(C)
  <2>1. plan.credentials # << >> => F /\ \E n \in Nat : plan.credentials = [k \in 1..n |-> C]
    BY DEF Cleared
  <2> HIDE DEF C, F
  <2>2. plan.credentials # << >>
    OBVIOUS
  <2> QED
    BY <2>1, <2>2 DEF C, F
<1> QED
  BY <1>1, InitCleared, NextCleared, PlanKeepsPromise, PTL DEF KeepsPromise, Promise!Spec

=============================================================================

--------------------------- MODULE RigPlanProofs ---------------------------
(***************************************************************************)
(* Theorems about RigPlan for every value of its constants.                *)
(*                                                                         *)
(* Every command ends in Commit(p), so each invariant is shown in two      *)
(* parts: Commit keeps it if the plan p has it, and the plan each command  *)
(* builds has it.  Neither part looks into the rules: RefreshIssues moves  *)
(* an issue as RefreshedStatus says, whatever the rules find.              *)
(***************************************************************************)
EXTENDS RigPlan, TLAPS

-----------------------------------------------------------------------------
(* Types.                                                                  *)

LEMMA PointType ==
    ASSUME NEW p \in Plan, NEW q \in Registered(p)
    PROVE  q \in Points /\ p.points[q] \in Point
BY DEF Registered, Plan

(* Evaluating the rules touches nothing but the issues. *)
LEMMA RefreshType ==
    ASSUME NEW p \in Plan
    PROVE  RefreshIssues(p) \in Plan
<1>1. \A k \in IssueKeys :
         RefreshedStatus(p.issues[k], k, k \in EvaluateRules(p)) \in IssueStatus
  BY DEF RefreshedStatus, IssueStatus, Plan
<1>2. [k \in IssueKeys |-> RefreshedStatus(p.issues[k], k, k \in EvaluateRules(p))]
         \in [IssueKeys -> IssueStatus]
  BY <1>1
<1> QED
  BY <1>2 DEF RefreshIssues, Plan

(* The parts of a plan that commands change, each on its own. *)
LEMMA SetPointType ==
    ASSUME NEW p \in Plan, NEW q \in Points, NEW point \in Point \cup {None}
    PROVE  [p EXCEPT !.points[q] = point] \in Plan
BY DEF Plan

LEMMA AppendTestType ==
    ASSUME NEW p \in Plan, NEW test \in Test
    PROVE  [p EXCEPT !.tests = Append(@, test)] \in Plan
<1>1. Append(p.tests, test) \in Seq(Test)
  BY DEF Plan
<1> QED
  BY <1>1 DEF Plan

LEMMA SetVersionType ==
    ASSUME NEW p \in Plan, NEW version \in Nat
    PROVE  [p EXCEPT !.version = version] \in Plan
BY DEF Plan

LEMMA SettleType ==
    ASSUME NEW p \in Plan
    PROVE  Settle(p) \in Plan /\ Demote(p) \in Plan
BY DEF Settle, Demote, Plan, PlanStatus

LEMMA CommitType ==
    ASSUME TypeOK, NEW p \in Plan, Commit(p), now' \in Int
    PROVE  TypeOK'
<1>1. p.version + 1 \in Nat
  BY DEF Plan
<1>2. [p EXCEPT !.version = @ + 1] \in Plan
  BY <1>1, SetVersionType
<1> QED
  BY <1>2 DEF Commit, TypeOK

LEMMA ClockType ==
    ASSUME TypeOK, ReadClock
    PROVE  now' \in Int
BY ConstantsAssumption DEF TypeOK, ReadClock

LEMMA ConfigType ==
    ASSUME NEW values \in AddValues \cup ReviseValues,
           NEW primary \in Points \cup {None}, NEW redundant \in Points \cup {None}
    PROVE  PointConfig(values, primary, redundant) \in Config
BY ConstantsAssumption DEF PointConfig, Config

LEMMA RevisedType ==
    ASSUME NEW point \in Point, NEW config \in Config
    PROVE  Revised(point, config) \in Point
<1> DEFINE revision == IF point.revision < 1 THEN 2 ELSE point.revision + 1
<1>1. revision \in Nat
  BY DEF Point
<1> HIDE DEF revision
<1>2. [point EXCEPT !.config = config, !.digest = config, !.revision = revision] \in Point
  BY <1>1 DEF Point
<1> QED
  BY <1>2 DEF Revised, PointConfigDigest, revision

LEMMA PatchedType ==
    ASSUME NEW config \in Config, NEW patch \in Patches, NEW redundant \in Points \cup {None}
    PROVE  Patched(config, patch, redundant) \in Config
<1>1. /\ patch.planned = None \/ patch.planned \in Nat
      /\ patch.cert = None \/ patch.cert \in Nat
  BY ConstantsAssumption
<1> QED
  BY <1>1 DEF Patched, Config

LEMMA NewTestType ==
    ASSUME NEW p \in Plan, NEW q \in Registered(p), NEW kind \in {"initial", "retest"},
           NEW m \in Measurements, NEW at \in Int, NEW task \in Nat
    PROVE  NewTest(p, q, kind, m, at, task) \in Test
<1>1. m \in Measurement
  BY ConstantsAssumption
<1> QED
  BY <1>1, PointType DEF NewTest, Test, Point

LEMMA InitType == Init => TypeOK
<1> SUFFICES ASSUME Init PROVE TypeOK
  OBVIOUS
<1>1. PICK h \in Headers : plan = NewPlan(h)
  BY DEF Init
<1>2. h \in Header
  BY ConstantsAssumption DEF Header
<1>3. plan \in Plan
  BY <1>1, <1>2 DEF NewPlan, Plan, PlanStatus, IssueStatus
<1>4. now \in Int
  BY DEF Init
<1>5. refused \in BOOLEAN
  BY DEF Init
<1> QED
  BY <1>3, <1>4, <1>5 DEF TypeOK

LEMMA UpdatePlanType ==
    ASSUME TypeOK, NEW h \in Headers, UpdatePlan(h)
    PROVE  TypeOK'
<1> DEFINE p == [plan EXCEPT !.header = h]
<1>1. h \in Header
  BY ConstantsAssumption DEF Header
<1>2. p \in Plan
  BY <1>1 DEF TypeOK, Plan
<1> QED
  BY <1>2, RefreshType, SettleType, CommitType DEF UpdatePlan, TypeOK

LEMMA AddPointType ==
    ASSUME TypeOK, NEW q \in Points, NEW l \in Labels, NEW v \in AddValues,
           NEW a \in Points \cup {None}, NEW b \in Points \cup {None}, AddPoint(q, l, v, a, b)
    PROVE  TypeOK'
<1> DEFINE config == PointConfig(v, a, b)
           point  == [label |-> l, config |-> config,
                      digest |-> PointConfigDigest(config), revision |-> 1]
           p      == [plan EXCEPT !.points[q] = point]
<1>1. point \in Point
  BY ConfigType DEF Point, PointConfigDigest
<1>2. p \in Plan
  BY <1>1, SetPointType DEF TypeOK
<1> QED
  BY <1>2, RefreshType, CommitType DEF AddPoint, TypeOK

LEMMA UpdatePointType ==
    ASSUME TypeOK, NEW q \in Points, NEW l \in Labels, NEW v \in ReviseValues,
           NEW a \in Points \cup {None}, NEW b \in Points \cup {None}, UpdatePoint(q, l, v, a, b)
    PROVE  TypeOK'
<1> DEFINE config == PointConfig(v, a, b)
           point  == [Revised(plan.points[q], config) EXCEPT !.label = l]
           p      == [plan EXCEPT !.points[q] = point]
<1>1. Revised(plan.points[q], config) \in Point
  BY ConfigType, RevisedType, PointType DEF UpdatePoint, TypeOK
<1>2. point \in Point
  BY <1>1 DEF Point
<1>3. p \in Plan
  BY <1>2, SetPointType DEF TypeOK
<1>4. Commit(Demote(RefreshIssues(p))) /\ now' = now
  BY DEF UpdatePoint
<1> QED
  BY <1>3, <1>4, RefreshType, SettleType, CommitType DEF TypeOK

LEMMA RemovePointType ==
    ASSUME TypeOK, NEW q \in Points, RemovePoint(q)
    PROVE  TypeOK'
<1> DEFINE p == [plan EXCEPT !.points[q] = None,
                             !.issues = [k \in IssueKeys |-> IF k.point = q THEN "none" ELSE @[k]]]
<1>1. p \in Plan
  BY DEF TypeOK, Plan, IssueStatus
<1> QED
  BY <1>1, RefreshType, CommitType DEF RemovePoint, TypeOK

LEMMA RecordTestType ==
    ASSUME TypeOK, NEW q \in Points, NEW m \in Measurements, RecordTest(q, m)
    PROVE  TypeOK'
<1> DEFINE p == [plan EXCEPT !.tests = Append(@, NewTest(plan, q, "initial", m, now', 0))]
<1>1. now' \in Int
  BY ClockType DEF RecordTest
<1>2. NewTest(plan, q, "initial", m, now', 0) \in Test
  BY <1>1, NewTestType DEF RecordTest, ValidTest, TypeOK
<1>3. p \in Plan
  BY <1>2, AppendTestType DEF TypeOK
<1> QED
  BY <1>1, <1>3, RefreshType, SettleType, CommitType DEF RecordTest

(* The plan with the tests of a batch added. *)
LEMMA BatchType ==
    ASSUME TypeOK, NEW rows \in Batches, RecordTestBatch(rows)
    PROVE  [plan EXCEPT !.tests = @ \o [i \in DOMAIN rows |->
              NewTest(plan, rows[i].point, "initial", rows[i].m, now', 0)]] \in Plan
<1> DEFINE new == [i \in DOMAIN rows |->
                      NewTest(plan, rows[i].point, "initial", rows[i].m, now', 0)]
<1>1. now' \in Int
  BY ClockType DEF RecordTestBatch
<1>2. PICK n \in 1..MaxBatch : rows \in [1..n -> [point : Points, m : Measurements]]
  BY DEF Batches
<1>3. \A i \in 1..n : NewTest(plan, rows[i].point, "initial", rows[i].m, now', 0) \in Test
  BY <1>1, <1>2, NewTestType DEF RecordTestBatch, ValidTest, TypeOK
<1>4. new \in Seq(Test)
  <2>1. n \in Nat /\ new \in [1..n -> Test]
    BY <1>2, <1>3, ConstantsAssumption
  <2> QED
    BY <2>1
<1>5. plan.tests \o new \in Seq(Test)
  BY <1>4 DEF TypeOK, Plan
<1> QED
  BY <1>5 DEF TypeOK, Plan

LEMMA RecordTestBatchType ==
    ASSUME TypeOK, NEW rows \in Batches, RecordTestBatch(rows)
    PROVE  TypeOK'
<1>1. now' \in Int
  BY ClockType DEF RecordTestBatch
<1> QED
  BY <1>1, BatchType, RefreshType, SettleType, CommitType DEF RecordTestBatch

LEMMA CloseTaskType ==
    ASSUME NEW p \in Plan, NEW t \in DOMAIN p.tasks
    PROVE  CloseTask(p, t) \in Plan
<1>1. p.tasks[t] \in Task
  BY DEF Plan
<1>2. [p.tasks EXCEPT ![t] = [@ EXCEPT !.status = "closed"]] \in Seq(Task)
  <2>1. [p.tasks[t] EXCEPT !.status = "closed"] \in Task
    BY <1>1 DEF Task, TaskStatus
  <2> QED
    BY <2>1 DEF Plan
<1>3. [p.issues EXCEPT ![p.tasks[t].issue] = "closed"] \in [IssueKeys -> IssueStatus]
  BY DEF Plan, IssueStatus
<1> QED
  BY <1>2, <1>3 DEF CloseTask, Plan

LEMMA RecordRetestType ==
    ASSUME TypeOK, NEW t \in DOMAIN plan.tasks, NEW m \in Measurements, RecordRetest(t, m)
    PROVE  TypeOK'
<1> DEFINE task == plan.tasks[t]
           test == NewTest(plan, task.point, "retest", m, now', t)
           q    == [plan EXCEPT !.tests = Append(@, test)]
           p    == RefreshIssues(q)
<1>1. now' \in Int
  BY ClockType DEF RecordRetest
<1>2. t \in Nat
  BY DEF TypeOK, Plan
<1>3. test \in Test
  BY <1>1, <1>2, NewTestType DEF RecordRetest, ValidTest, TypeOK
<1>4. q \in Plan /\ q.tasks = plan.tasks
  BY <1>3, AppendTestType DEF TypeOK, Plan
<1>5. p \in Plan /\ p.tasks = plan.tasks
  BY <1>4, RefreshType DEF RefreshIssues, TypeOK, Plan
<1>6. CloseTask(p, t) \in Plan
  BY <1>5, CloseTaskType
<1>7. Commit(Settle(CloseTask(p, t))) \/ Commit(Settle(p))
  BY DEF RecordRetest
<1> QED
  BY <1>1, <1>5, <1>6, <1>7, SettleType, CommitType

LEMMA ReplaceTasksType ==
    ASSUME NEW tasks \in Seq(Task), NEW k \in IssueKeys
    PROVE  ReplaceTasks(tasks, k) \in Seq(Task)
<1>1. \A i \in DOMAIN tasks : ReplaceTasks(tasks, k)[i] \in Task
  <2> TAKE i \in DOMAIN tasks
  <2>1. tasks[i] \in Task
    OBVIOUS
  <2>2. [tasks[i] EXCEPT !.status = "replaced"] \in Task
    BY <2>1 DEF Task, TaskStatus
  <2> QED
    BY <2>1, <2>2 DEF ReplaceTasks
<1>2. ReplaceTasks(tasks, k) \in [1..Len(tasks) -> Task]
  BY <1>1 DEF ReplaceTasks
<1> QED
  BY <1>2

(* The plan a remediation leaves. *)
LEMMA RemediatedType ==
    ASSUME TypeOK, NEW k \in IssueKeys, NEW q \in Points, NEW patch \in Patches,
           NEW b \in Points \cup {None}, Remediate(k, q, patch, b)
    PROVE  LET config == Patched(plan.points[q].config, patch, b)
               point  == IF PointConfigDigest(config) = plan.points[q].digest
                            THEN plan.points[q] ELSE Revised(plan.points[q], config)
               task   == [issue |-> k, point |-> q, digest |-> point.digest,
                          minTarget |-> point.config.planned, createdAt |-> now',
                          status |-> "pending"]
           IN  [[plan EXCEPT !.points[q] = point] EXCEPT
                  !.tasks = Append(ReplaceTasks(@, k), task),
                  !.issues[k] = "retest_pending", !.status = "remediation"] \in Plan
<1> DEFINE config == Patched(plan.points[q].config, patch, b)
           point  == IF PointConfigDigest(config) = plan.points[q].digest
                        THEN plan.points[q] ELSE Revised(plan.points[q], config)
           task   == [issue |-> k, point |-> q, digest |-> point.digest,
                      minTarget |-> point.config.planned, createdAt |-> now', status |-> "pending"]
           tasks  == Append(ReplaceTasks(plan.tasks, k), task)
           p      == [plan EXCEPT !.points[q] = point]
           p2     == [p EXCEPT !.tasks = Append(ReplaceTasks(@, k), task),
                               !.issues[k] = "retest_pending", !.status = "remediation"]
<1>1. now' \in Int
  BY ClockType DEF Remediate
<1>2. plan.points[q] \in Point
  BY PointType DEF Remediate, TypeOK
<1>3. config \in Config
  BY <1>2, PatchedType DEF Point
<1>4. point \in Point
  BY <1>2, <1>3, RevisedType
<1>5. task \in Task
  BY <1>1, <1>4 DEF Task, Point, TaskStatus, Config
<1>6. tasks \in Seq(Task)
  BY <1>5, ReplaceTasksType DEF TypeOK, Plan
<1>7. p \in Plan /\ p.tasks = plan.tasks
  BY <1>4, SetPointType DEF TypeOK, Plan
<1>8. p2 \in Plan
  BY <1>6, <1>7 DEF Plan, IssueStatus, PlanStatus
<1> QED
  BY <1>8

LEMMA RemediateType ==
    ASSUME TypeOK, NEW k \in IssueKeys, NEW q \in Points, NEW patch \in Patches,
           NEW b \in Points \cup {None}, Remediate(k, q, patch, b)
    PROVE  TypeOK'
<1>1. now' \in Int
  BY ClockType DEF Remediate
<1> QED
  BY <1>1, RemediatedType, CommitType DEF Remediate

LEMMA ManifestType ==
    ASSUME NEW p \in Plan
    PROVE  FrozenDigest(p) \in Manifest
BY DEF FrozenDigest, Content, Manifest, Plan

LEMMA ReviewType ==
    ASSUME TypeOK, NEW d \in Decisions, Review(d)
    PROVE  TypeOK'
<1> DEFINE p == RefreshIssues(plan)
<1>1. p \in Plan
  BY RefreshType DEF TypeOK
<1>2. [p EXCEPT !.status = "approved", !.frozen = FrozenDigest(p)] \in Plan
  BY <1>1, ManifestType DEF Plan, PlanStatus
<1>3. [p EXCEPT !.status = "returned"] \in Plan
  BY <1>1 DEF Plan, PlanStatus
<1> QED
  BY <1>2, <1>3, CommitType DEF Review, TypeOK

LEMMA IssueCredentialType ==
    ASSUME TypeOK, IssueCredential
    PROVE  TypeOK'
<1> DEFINE p == [plan EXCEPT !.credentials = Append(@, plan.frozen)]
<1>1. plan.frozen \in Manifest
  BY DEF IssueCredential, TypeOK, Plan
<1>2. Append(plan.credentials, plan.frozen) \in Seq(Manifest)
  BY <1>1 DEF TypeOK, Plan
<1>3. p \in Plan
  BY <1>2 DEF TypeOK, Plan
<1> QED
  BY <1>3, CommitType DEF IssueCredential, TypeOK

LEMMA NextType ==
    ASSUME TypeOK, [Next]_vars
    PROVE  TypeOK'
<1>1. CASE UNCHANGED vars
  BY <1>1 DEF vars, TypeOK
<1>2. CASE Next
  BY <1>2, UpdatePlanType, AddPointType, UpdatePointType, RemovePointType, RecordTestType,
     RecordTestBatchType, RecordRetestType, RemediateType, ReviewType, IssueCredentialType
     DEF Next
<1> QED
  BY <1>1, <1>2

(* The stored plan always has its type. *)
THEOREM TypeCorrect == Spec => []TypeOK
<1>1. Init => TypeOK
  BY InitType
<1>2. TypeOK /\ [Next]_vars => TypeOK'
  BY NextType
<1> QED
  BY <1>1, <1>2, PTL DEF Spec

-----------------------------------------------------------------------------
(* Risks, tasks and approval.  The inductive invariant adds to what is to  *)
(* be shown that a task is on the point of its issue, so that removing a   *)
(* point that no task is on removes no issue that waits for a retest, and  *)
(* that an approved plan has no open issue.                                *)

Pending(p) == {i \in DOMAIN p.tasks : p.tasks[i].status = "pending"}

RisksShown(p) == OpenIssues(p) = {} => EvaluateRules(p) = {}

TaskPerRisk(p) ==
    /\ \A i, j \in Pending(p) : p.tasks[i].issue = p.tasks[j].issue => i = j
    /\ \A i \in Pending(p) : p.issues[p.tasks[i].issue] = "retest_pending"
    /\ \A k \in IssueKeys : p.issues[k] = "retest_pending"
                                 => \E i \in Pending(p) : p.tasks[i].issue = k

TaskOnIssuePoint(p) ==
    \A i \in DOMAIN p.tasks : p.tasks[i].issue.point \in {p.tasks[i].point, None}

TasksInOrder(p) == TaskPerRisk(p) /\ TaskOnIssuePoint(p)

ClearIfApproved(p) == p.status = "approved" => OpenIssues(p) = {}

InOrder(p) == RisksShown(p) /\ TasksInOrder(p) /\ ClearIfApproved(p)

IInv == TypeOK /\ InOrder(plan)

(* The rules look at the content only. *)
LEMMA SameContentSameRisks ==
    ASSUME NEW p, NEW r, p.header = r.header, p.points = r.points, p.tests = r.tests
    PROVE  EvaluateRules(p) = EvaluateRules(r)
BY DEF EvaluateRules, Content

LEMMA SettleFrame ==
    ASSUME NEW p \in Plan, NEW s \in {Settle(p), Demote(p)}
    PROVE  /\ s.issues = p.issues /\ s.tasks = p.tasks
           /\ EvaluateRules(s) = EvaluateRules(p)
           /\ OpenIssues(s) = OpenIssues(p)
           /\ s.status \in {"remediation", "testing", p.status}
<1>1. /\ s.header = p.header /\ s.points = p.points /\ s.tests = p.tests
      /\ s.issues = p.issues /\ s.tasks = p.tasks
      /\ s.status \in {"remediation", "testing", p.status}
  BY DEF Settle, Demote, Plan
<1> QED
  BY <1>1, SameContentSameRisks DEF OpenIssues

(* Refreshing the issues shows every risk and disturbs no task. *)
LEMMA RefreshFrame ==
    ASSUME NEW p \in Plan
    PROVE  LET r == RefreshIssues(p) IN
           /\ r.tasks = p.tasks /\ r.status = p.status
           /\ EvaluateRules(r) = EvaluateRules(p)
           /\ EvaluateRules(r) \subseteq OpenIssues(r)
           /\ \A k \in IssueKeys :
                r.issues[k] = "retest_pending" <=> p.issues[k] = "retest_pending"
<1> DEFINE r == RefreshIssues(p)
<1>1. /\ r.header = p.header /\ r.points = p.points /\ r.tests = p.tests
      /\ r.tasks = p.tasks /\ r.status = p.status
      /\ r.issues = [k \in IssueKeys |-> RefreshedStatus(p.issues[k], k, k \in EvaluateRules(p))]
  BY DEF RefreshIssues, Plan
<1>2. EvaluateRules(r) = EvaluateRules(p)
  BY <1>1, SameContentSameRisks
<1>3. ASSUME NEW k \in EvaluateRules(p) PROVE k \in OpenIssues(r)
  <2>1. k \in IssueKeys
    BY <1>3 DEF EvaluateRules, RuleHits
  <2>2. p.issues[k] \in IssueStatus
    BY <2>1 DEF Plan
  <2>3. r.issues[k] \in {"open", "retest_pending"}
    BY <1>1, <1>3, <2>1, <2>2 DEF RefreshedStatus, IssueStatus
  <2> QED
    BY <2>1, <2>3 DEF OpenIssues
<1>4. ASSUME NEW k \in IssueKeys
      PROVE  r.issues[k] = "retest_pending" <=> p.issues[k] = "retest_pending"
  BY <1>1 DEF RefreshedStatus
<1> QED
  BY <1>1, <1>2, <1>3, <1>4

(* A plan that shows every risk, with its tasks in order, is in order, and *)
(* stays so when its status is settled.                                    *)
LEMMA ShownInOrder ==
    ASSUME NEW p \in Plan, TasksInOrder(p), EvaluateRules(p) \subseteq OpenIssues(p),
           p.status # "approved"
    PROVE  InOrder(p) /\ InOrder(Demote(p)) /\ InOrder(Settle(p))
<1>1. ASSUME NEW s \in {Settle(p), Demote(p)} PROVE InOrder(s)
  BY <1>1, SettleFrame
     DEF InOrder, RisksShown, TasksInOrder, TaskPerRisk, TaskOnIssuePoint, Pending, ClearIfApproved
<1> QED
  BY <1>1 DEF InOrder, RisksShown, ClearIfApproved

(* So a command that leaves the tasks alone, and ends with refreshing the  *)
(* issues of a plan that has not been approved, keeps everything in order. *)
LEMMA RefreshKeepsOrder ==
    ASSUME NEW p \in Plan, TasksInOrder(p), p.status # "approved"
    PROVE  LET r == RefreshIssues(p) IN
           /\ TasksInOrder(r) /\ EvaluateRules(r) \subseteq OpenIssues(r) /\ r.status # "approved"
           /\ InOrder(r) /\ InOrder(Demote(r)) /\ InOrder(Settle(r))
<1> DEFINE r == RefreshIssues(p)
<1>1. TasksInOrder(r) /\ EvaluateRules(r) \subseteq OpenIssues(r) /\ r.status # "approved"
  <2>1. /\ r.tasks = p.tasks /\ r.status = p.status
        /\ EvaluateRules(r) \subseteq OpenIssues(r)
        /\ \A k \in IssueKeys :
              r.issues[k] = "retest_pending" <=> p.issues[k] = "retest_pending"
    BY RefreshFrame
  <2>2. Pending(r) = Pending(p)
    BY <2>1 DEF Pending
  <2>3. \A i \in Pending(p) : p.tasks[i].issue \in IssueKeys
    <3>1. \A i \in DOMAIN p.tasks : p.tasks[i] \in Task
      BY DEF Plan
    <3> QED
      BY <3>1 DEF Pending, Task
  <2>4. TaskPerRisk(r)
    BY <2>1, <2>2, <2>3 DEF TasksInOrder, TaskPerRisk
  <2>5. TaskOnIssuePoint(r)
    BY <2>1 DEF TasksInOrder, TaskOnIssuePoint
  <2> QED
    BY <2>1, <2>4, <2>5 DEF TasksInOrder
<1>2. r \in Plan
  BY RefreshType
<1> QED
  BY <1>1, <1>2, ShownInOrder

LEMMA CommitOrder ==
    ASSUME IInv, NEW p \in Plan, InOrder(p), Commit(p)
    PROVE  InOrder(plan')
<1> DEFINE next == [p EXCEPT !.version = @ + 1]
<1>1. /\ next.header = p.header /\ next.points = p.points /\ next.tests = p.tests
      /\ next.issues = p.issues /\ next.tasks = p.tasks /\ next.status = p.status
  BY DEF Plan
<1>2. EvaluateRules(next) = EvaluateRules(p) /\ OpenIssues(next) = OpenIssues(p)
  BY <1>1, SameContentSameRisks DEF OpenIssues
<1>3. InOrder(next)
  BY <1>1, <1>2
     DEF InOrder, RisksShown, TasksInOrder, TaskPerRisk, TaskOnIssuePoint, Pending, ClearIfApproved
<1>4. plan' \in {next, plan}
  BY DEF Commit
<1> QED
  BY <1>3, <1>4 DEF IInv

LEMMA SameTasksInOrder ==
    ASSUME NEW p \in Plan, NEW r \in Plan, InOrder(r), p.issues = r.issues, p.tasks = r.tasks
    PROVE  TasksInOrder(p)
BY DEF InOrder, TasksInOrder, TaskPerRisk, TaskOnIssuePoint, Pending
(* A plan without points carries no load. *)
LEMMA NoPointsNoLoad ==
    ASSUME NEW c, Registered(c) = {}
    PROVE  TotalPlanned(c) = 0
<1> DEFINE load(q) == c.points[q].config.planned
           Step(iter, s) == IF s = {} THEN 0
                            ELSE LET x == CHOOSE y \in s : TRUE IN load(x) + iter[s \ {x}]
           IsSum(iter) == iter = [s \in SUBSET {} |-> Step(iter, s)]
<1>1. IsSum([s \in SUBSET {} |-> 0])
  OBVIOUS
<1>2. IsSum(CHOOSE iter : IsSum(iter))
  <2> HIDE DEF IsSum
  <2> QED
    BY <1>1
<1>3. TotalPlanned(c) = (CHOOSE iter : IsSum(iter))[{}]
  BY DEF TotalPlanned, MapThenSumSet, MapThenFoldSet
<1>4. (CHOOSE iter : IsSum(iter))[{}] = 0
  BY <1>2
<1> QED
  BY <1>3, <1>4

LEMMA InitOrder == Init => InOrder(plan)
<1> SUFFICES ASSUME Init PROVE InOrder(plan)
  OBVIOUS
<1>1. PICK h \in Headers : plan = NewPlan(h)
  BY DEF Init
<1>2. plan.tasks = << >> /\ plan.status = "draft" /\ plan.points = [q \in Points |-> None]
  BY <1>1 DEF NewPlan
<1>3. \A k \in IssueKeys : plan.issues[k] = "none"
  BY <1>1 DEF NewPlan
<1>4. Pending(plan) = {} /\ DOMAIN plan.tasks = {}
  BY <1>2 DEF Pending
<1>5. TasksInOrder(plan)
  BY <1>3, <1>4 DEF TasksInOrder, TaskPerRisk, TaskOnIssuePoint
<1>6. EvaluateRules(plan) = {}
  <2>1. Registered(Content(plan)) = {}
    BY <1>2 DEF Registered, Content
  <2>2. plan.header.ratedTotal \in Nat
    BY <1>1, ConstantsAssumption DEF NewPlan
  <2>3. TotalPlanned(Content(plan)) = 0 /\ Content(plan).header = plan.header
    BY <2>1, NoPointsNoLoad DEF Content
  <2>4. ~ (TotalPlanned(Content(plan)) > Content(plan).header.ratedTotal)
    BY <2>2, <2>3
  <2> QED
    BY <2>1, <2>4 DEF EvaluateRules, RuleHits
<1> QED
  BY <1>2, <1>5, <1>6 DEF InOrder, RisksShown, ClearIfApproved

LEMMA UpdatePlanOrder ==
    ASSUME IInv, NEW h \in Headers, UpdatePlan(h)
    PROVE  InOrder(plan')
<1> DEFINE p == [plan EXCEPT !.header = h]
<1>1. h \in Header
  BY ConstantsAssumption DEF Header
<1>2. /\ p \in Plan /\ p.issues = plan.issues /\ p.tasks = plan.tasks
      /\ p.status = plan.status
  BY <1>1 DEF IInv, TypeOK, Plan
<1>3. InOrder(Demote(RefreshIssues(p)))
  BY <1>2, SameTasksInOrder, RefreshKeepsOrder DEF UpdatePlan, Mutable, IInv, TypeOK
<1> QED
  BY <1>2, <1>3, CommitOrder, RefreshType, SettleType DEF UpdatePlan

LEMMA AddPointOrder ==
    ASSUME IInv, NEW q \in Points, NEW l \in Labels, NEW v \in AddValues,
           NEW a \in Points \cup {None}, NEW b \in Points \cup {None}, AddPoint(q, l, v, a, b)
    PROVE  InOrder(plan')
<1> DEFINE config == PointConfig(v, a, b)
           point  == [label |-> l, config |-> config,
                      digest |-> PointConfigDigest(config), revision |-> 1]
           p      == [plan EXCEPT !.points[q] = point]
<1>1. point \in Point
  BY ConfigType DEF Point, PointConfigDigest
<1>2. p \in Plan
  BY <1>1, SetPointType DEF IInv, TypeOK
<1>3. p.issues = plan.issues /\ p.tasks = plan.tasks /\ p.status = plan.status
  BY DEF IInv, TypeOK, Plan
<1>4. InOrder(RefreshIssues(p))
  BY <1>2, <1>3, SameTasksInOrder, RefreshKeepsOrder DEF AddPoint, Mutable, IInv, TypeOK
<1> QED
  BY <1>2, <1>4, CommitOrder, RefreshType DEF AddPoint

LEMMA UpdatePointOrder ==
    ASSUME IInv, NEW q \in Points, NEW l \in Labels, NEW v \in ReviseValues,
           NEW a \in Points \cup {None}, NEW b \in Points \cup {None}, UpdatePoint(q, l, v, a, b)
    PROVE  InOrder(plan')
<1> DEFINE config == PointConfig(v, a, b)
           point  == [Revised(plan.points[q], config) EXCEPT !.label = l]
           p      == [plan EXCEPT !.points[q] = point]
<1>1. Revised(plan.points[q], config) \in Point
  BY ConfigType, RevisedType, PointType DEF UpdatePoint, IInv, TypeOK
<1>2. point \in Point
  BY <1>1 DEF Point
<1>3. p \in Plan
  BY <1>2, SetPointType DEF IInv, TypeOK
<1>4. p.issues = plan.issues /\ p.tasks = plan.tasks /\ p.status = plan.status
  BY DEF IInv, TypeOK, Plan
<1>5. Commit(Demote(RefreshIssues(p))) /\ plan.status # "approved"
  BY DEF UpdatePoint, Mutable
<1>6. InOrder(Demote(RefreshIssues(p)))
  BY <1>3, <1>4, <1>5, SameTasksInOrder, RefreshKeepsOrder DEF IInv, TypeOK
<1> QED
  BY <1>3, <1>5, <1>6, CommitOrder, RefreshType, SettleType

LEMMA RecordTestOrder ==
    ASSUME IInv, NEW q \in Points, NEW m \in Measurements, RecordTest(q, m)
    PROVE  InOrder(plan')
<1> DEFINE test == NewTest(plan, q, "initial", m, now', 0)
           p    == [plan EXCEPT !.tests = Append(@, test)]
<1>1. now' \in Int
  BY ClockType DEF RecordTest, IInv
<1>2. test \in Test
  BY <1>1, NewTestType DEF RecordTest, ValidTest, IInv, TypeOK
<1>3. p \in Plan
  BY <1>2, AppendTestType DEF IInv, TypeOK
<1>4. p.issues = plan.issues /\ p.tasks = plan.tasks /\ p.status = plan.status
  BY DEF IInv, TypeOK, Plan
<1>5. InOrder(Settle(RefreshIssues(p)))
  BY <1>3, <1>4, SameTasksInOrder, RefreshKeepsOrder DEF RecordTest, Mutable, IInv, TypeOK
<1> QED
  BY <1>3, <1>5, CommitOrder, RefreshType, SettleType DEF RecordTest
LEMMA RecordTestBatchOrder ==
    ASSUME IInv, NEW rows \in Batches, RecordTestBatch(rows)
    PROVE  InOrder(plan')
<1> DEFINE p == [plan EXCEPT !.tests = @ \o [i \in DOMAIN rows |->
                    NewTest(plan, rows[i].point, "initial", rows[i].m, now', 0)]]
<1>1. p \in Plan
  BY BatchType DEF IInv
<1>2. p.issues = plan.issues /\ p.tasks = plan.tasks /\ p.status = plan.status
  BY DEF IInv, TypeOK, Plan
<1>3. Commit(Settle(RefreshIssues(p))) /\ plan.status # "approved"
  BY DEF RecordTestBatch, Mutable
<1>4. InOrder(Settle(RefreshIssues(p)))
  BY <1>1, <1>2, <1>3, SameTasksInOrder, RefreshKeepsOrder DEF IInv, TypeOK
<1> QED
  BY <1>1, <1>3, <1>4, CommitOrder, RefreshType, SettleType

(* The issues that go with the point have no pending task, as a task is on *)
(* the point of its issue and no task is on the point.                     *)
LEMMA RemovePointOrder ==
    ASSUME IInv, NEW q \in Points, RemovePoint(q)
    PROVE  InOrder(plan')
<1> DEFINE p == [plan EXCEPT !.points[q] = None,
                             !.issues = [k \in IssueKeys |-> IF k.point = q THEN "none" ELSE @[k]]]
<1>1. p \in Plan
  BY DEF IInv, TypeOK, Plan, IssueStatus
<1>2. /\ p.tasks = plan.tasks /\ p.status = plan.status
      /\ p.issues = [k \in IssueKeys |-> IF k.point = q THEN "none" ELSE plan.issues[k]]
  BY DEF IInv, TypeOK, Plan
<1>3. \A i \in DOMAIN plan.tasks : plan.tasks[i].issue \in IssueKeys /\ plan.tasks[i].issue.point # q
  <2> TAKE i \in DOMAIN plan.tasks
  <2>1. plan.tasks[i] \in Task
    BY DEF IInv, TypeOK, Plan
  <2>2. plan.tasks[i].point # q
    BY DEF RemovePoint, RemovalAllowed
  <2>3. plan.tasks[i].issue.point \in {plan.tasks[i].point, None}
    BY DEF IInv, InOrder, TasksInOrder, TaskOnIssuePoint
  <2> QED
    BY <2>1, <2>2, <2>3, ConstantsAssumption DEF Task
<1>4. TasksInOrder(p)
  <2>1. Pending(p) = Pending(plan)
    BY <1>2 DEF Pending
  <2>2. TaskPerRisk(plan) /\ TaskOnIssuePoint(plan)
    BY DEF IInv, InOrder, TasksInOrder
  <2>3. \A i \in Pending(p) : p.issues[p.tasks[i].issue] = "retest_pending"
    BY <1>2, <1>3, <2>1, <2>2 DEF TaskPerRisk, Pending
  <2>4. ASSUME NEW k \in IssueKeys, p.issues[k] = "retest_pending"
        PROVE  \E i \in Pending(p) : p.tasks[i].issue = k
    <3>1. plan.issues[k] = "retest_pending"
      BY <1>2, <2>4
    <3> QED
      BY <1>2, <2>1, <2>2, <3>1 DEF TaskPerRisk
  <2>5. TaskPerRisk(p)
    BY <1>2, <2>1, <2>2, <2>3, <2>4 DEF TaskPerRisk
  <2> QED
    BY <1>2, <2>2, <2>5 DEF TasksInOrder, TaskOnIssuePoint
<1>5. InOrder(RefreshIssues(p))
  BY <1>1, <1>2, <1>4, RefreshKeepsOrder DEF RemovePoint, Mutable
<1> QED
  BY <1>1, <1>5, CommitOrder, RefreshType DEF RemovePoint

LEMMA ReviewOrder ==
    ASSUME IInv, NEW d \in Decisions, Review(d)
    PROVE  InOrder(plan')
<1> DEFINE p  == RefreshIssues(plan)
           ap == [p EXCEPT !.status = "approved", !.frozen = FrozenDigest(p)]
           re == [p EXCEPT !.status = "returned"]
<1>1. plan \in Plan /\ plan.status # "approved" /\ TasksInOrder(plan)
  BY DEF Review, Mutable, IInv, TypeOK, InOrder
<1>2. p \in Plan /\ InOrder(p)
  BY <1>1, RefreshType, RefreshKeepsOrder
<1>3. ap \in Plan /\ re \in Plan
  BY <1>2, ManifestType DEF Plan, PlanStatus
<1>4. ASSUME NEW s \in {ap, re} PROVE TasksInOrder(s) /\ RisksShown(s) /\ OpenIssues(s) = OpenIssues(p)
  <2>1. /\ s.header = p.header /\ s.points = p.points /\ s.tests = p.tests
        /\ s.issues = p.issues /\ s.tasks = p.tasks
    BY <1>2 DEF Plan
  <2>2. s \in Plan
    BY <1>3
  <2>3. EvaluateRules(s) = EvaluateRules(p) /\ OpenIssues(s) = OpenIssues(p)
    BY <2>1, SameContentSameRisks DEF OpenIssues
  <2> QED
    BY <1>2, <2>1, <2>2, <2>3, SameTasksInOrder DEF InOrder, RisksShown
<1>5. re.status = "returned"
  BY <1>2 DEF Plan
<1>6. CASE OpenIssues(p) = {} /\ Commit(ap)
  BY <1>3, <1>4, <1>6, CommitOrder DEF InOrder, ClearIfApproved
<1>7. CASE Commit(re)
  BY <1>3, <1>4, <1>5, <1>7, CommitOrder DEF InOrder, ClearIfApproved
<1> QED
  BY <1>6, <1>7 DEF Review

LEMMA IssueCredentialOrder ==
    ASSUME IInv, IssueCredential
    PROVE  InOrder(plan')
<1> DEFINE p == [plan EXCEPT !.credentials = Append(@, plan.frozen)]
<1>1. plan.frozen \in Manifest
  BY DEF IssueCredential, IInv, TypeOK, Plan
<1>2. Append(plan.credentials, plan.frozen) \in Seq(Manifest)
  BY <1>1 DEF IInv, TypeOK, Plan
<1>3. /\ p \in Plan
      /\ p.header = plan.header /\ p.points = plan.points /\ p.tests = plan.tests
      /\ p.issues = plan.issues /\ p.tasks = plan.tasks /\ p.status = plan.status
  BY <1>2 DEF IInv, TypeOK, Plan
<1>4. EvaluateRules(p) = EvaluateRules(plan) /\ OpenIssues(p) = OpenIssues(plan)
  BY <1>3, SameContentSameRisks DEF OpenIssues
<1>5. InOrder(p)
  BY <1>3, <1>4, SameTasksInOrder DEF InOrder, RisksShown, ClearIfApproved, IInv, TypeOK
<1> QED
  BY <1>3, <1>5, CommitOrder DEF IssueCredential
(* Closing the task of a risk that is no longer there. *)
LEMMA CloseTaskOrder ==
    ASSUME NEW p \in Plan, NEW t \in Pending(p), TasksInOrder(p),
           EvaluateRules(p) \subseteq OpenIssues(p), p.tasks[t].issue \notin EvaluateRules(p)
    PROVE  LET c == CloseTask(p, t) IN
           TasksInOrder(c) /\ EvaluateRules(c) \subseteq OpenIssues(c) /\ c.status = p.status
<1> DEFINE c == CloseTask(p, t)
           k == p.tasks[t].issue
<1>1. t \in DOMAIN p.tasks /\ p.tasks[t] \in Task /\ p.tasks[t].status = "pending"
  BY DEF Pending, Plan
<1>2. /\ c.header = p.header /\ c.points = p.points /\ c.tests = p.tests /\ c.status = p.status
      /\ c.tasks = [p.tasks EXCEPT ![t] = [@ EXCEPT !.status = "closed"]]
      /\ c.issues = [p.issues EXCEPT ![k] = "closed"]
  BY DEF CloseTask, Plan
<1>3. p.issues \in [IssueKeys -> IssueStatus] /\ k \in IssueKeys
  BY <1>1 DEF Plan, Task
<1>4. EvaluateRules(c) \subseteq OpenIssues(c)
  <2>1. EvaluateRules(c) = EvaluateRules(p)
    BY <1>2, SameContentSameRisks
  <2>2. OpenIssues(p) \ {k} \subseteq OpenIssues(c)
    BY <1>2, <1>3 DEF OpenIssues
  <2> QED
    BY <2>1, <2>2
<1>5. DOMAIN c.tasks = DOMAIN p.tasks
  BY <1>2
<1>6. \A i \in DOMAIN p.tasks :
        /\ c.tasks[i].issue = p.tasks[i].issue /\ c.tasks[i].point = p.tasks[i].point
        /\ i # t => c.tasks[i] = p.tasks[i]
        /\ i = t => c.tasks[i].status = "closed"
  BY <1>1, <1>2 DEF Task
<1>7. Pending(c) = Pending(p) \ {t}
  BY <1>5, <1>6 DEF Pending
<1>8. TaskPerRisk(p) /\ TaskOnIssuePoint(p)
  BY DEF TasksInOrder
<1>9. TaskOnIssuePoint(c)
  BY <1>5, <1>6, <1>8 DEF TaskOnIssuePoint
<1>10. \A i, j \in Pending(c) : c.tasks[i].issue = c.tasks[j].issue => i = j
  BY <1>6, <1>7, <1>8 DEF TaskPerRisk, Pending
<1>11. ASSUME NEW i \in Pending(c) PROVE c.issues[c.tasks[i].issue] = "retest_pending"
  <2>1. i \in Pending(p) /\ i # t /\ i \in DOMAIN p.tasks
    BY <1>7 DEF Pending
  <2>2. p.tasks[i].issue # k /\ p.issues[p.tasks[i].issue] = "retest_pending"
    BY <1>8, <2>1 DEF TaskPerRisk
  <2>3. p.tasks[i].issue \in IssueKeys
    <3>1. p.tasks[i] \in Task
      BY <2>1 DEF Plan
    <3> QED
      BY <3>1 DEF Task
  <2> QED
    BY <1>2, <1>3, <1>6, <2>1, <2>2, <2>3
<1>12. ASSUME NEW r \in IssueKeys, c.issues[r] = "retest_pending"
       PROVE  \E i \in Pending(c) : c.tasks[i].issue = r
  <2>1. r # k /\ p.issues[r] = "retest_pending"
    BY <1>2, <1>3, <1>12
  <2>2. PICK i \in Pending(p) : p.tasks[i].issue = r
    BY <1>8, <2>1 DEF TaskPerRisk
  <2>3. i \in Pending(c) /\ i \in DOMAIN p.tasks
    BY <1>7, <2>1, <2>2 DEF Pending
  <2> QED
    BY <1>6, <2>2, <2>3
<1> QED
  BY <1>2, <1>4, <1>9, <1>10, <1>11, <1>12 DEF TasksInOrder, TaskPerRisk

LEMMA RecordRetestOrder ==
    ASSUME IInv, NEW t \in DOMAIN plan.tasks, NEW m \in Measurements, RecordRetest(t, m)
    PROVE  InOrder(plan')
<1> DEFINE task == plan.tasks[t]
           test == NewTest(plan, task.point, "retest", m, now', t)
           q    == [plan EXCEPT !.tests = Append(@, test)]
           p    == RefreshIssues(q)
<1>1. now' \in Int
  BY ClockType DEF RecordRetest, IInv
<1>2. t \in Nat
  BY DEF IInv, TypeOK, Plan
<1>3. test \in Test
  BY <1>1, <1>2, NewTestType DEF RecordRetest, ValidTest, IInv, TypeOK
<1>4. q \in Plan
  BY <1>3, AppendTestType DEF IInv, TypeOK
<1>5. q.issues = plan.issues /\ q.tasks = plan.tasks /\ q.status = plan.status
  BY DEF IInv, TypeOK, Plan
<1>6. plan.status # "approved" /\ task.status = "pending"
  BY DEF RecordRetest, Mutable, ResolvesTo
<1>7. TasksInOrder(q)
  BY <1>4, <1>5, SameTasksInOrder DEF IInv, TypeOK
<1>8. /\ p \in Plan /\ TasksInOrder(p) /\ EvaluateRules(p) \subseteq OpenIssues(p)
      /\ p.status # "approved" /\ p.tasks = plan.tasks
      /\ InOrder(Settle(p))
  BY <1>4, <1>5, <1>6, <1>7, RefreshType, RefreshFrame, RefreshKeepsOrder
<1>9. CASE Commit(Settle(p))
  BY <1>8, <1>9, SettleType, CommitOrder
<1>10. CASE task.issue \notin EvaluateRules(p) /\ Commit(Settle(CloseTask(p, t)))
  <2>1. t \in Pending(p)
    BY <1>6, <1>8 DEF Pending
  <2>2. CloseTask(p, t) \in Plan
    BY <1>8, CloseTaskType
  <2>3. InOrder(Settle(CloseTask(p, t)))
    BY <1>8, <1>10, <2>1, <2>2, CloseTaskOrder, ShownInOrder
  <2> QED
    BY <1>10, <2>2, <2>3, SettleType, CommitOrder
<1> QED
  BY <1>9, <1>10 DEF RecordRetest
(* The new task takes the place of the pending one of its issue. *)
LEMMA RemediateOrder ==
    ASSUME IInv, NEW k \in IssueKeys, NEW q \in Points, NEW patch \in Patches,
           NEW b \in Points \cup {None}, Remediate(k, q, patch, b)
    PROVE  InOrder(plan')
<1> DEFINE config == Patched(plan.points[q].config, patch, b)
           point  == IF PointConfigDigest(config) = plan.points[q].digest
                        THEN plan.points[q] ELSE Revised(plan.points[q], config)
           task   == [issue |-> k, point |-> q, digest |-> point.digest,
                      minTarget |-> point.config.planned, createdAt |-> now', status |-> "pending"]
           old    == ReplaceTasks(plan.tasks, k)
           p      == [plan EXCEPT !.points[q] = point]
           r      == [p EXCEPT !.tasks = Append(ReplaceTasks(@, k), task),
                               !.issues[k] = "retest_pending", !.status = "remediation"]
           n      == Len(plan.tasks)
<1>1. r \in Plan
  BY RemediatedType DEF IInv
<1>2. /\ r.tasks = Append(old, task) /\ r.status = "remediation"
      /\ r.issues = [plan.issues EXCEPT ![k] = "retest_pending"]
  BY DEF IInv, TypeOK, Plan
<1>3. /\ plan.issues \in [IssueKeys -> IssueStatus] /\ plan.tasks \in Seq(Task)
      /\ n \in Nat /\ DOMAIN plan.tasks = 1..n
  BY DEF IInv, TypeOK, Plan
<1>4. k \in OpenIssues(r)
  BY <1>2, <1>3 DEF OpenIssues
<1>5. old \in Seq(Task) /\ Len(old) = n
  <2>1. old \in Seq(Task) /\ DOMAIN old = 1..n
    BY <1>3, ReplaceTasksType DEF ReplaceTasks
  <2> QED
    BY <1>3, <2>1
<1>6. /\ DOMAIN r.tasks = 1..(n + 1) /\ r.tasks[n + 1] = task
      /\ \A i \in 1..n : r.tasks[i] = old[i]
  BY <1>2, <1>3, <1>5
<1>7. \A i \in 1..n :
        /\ r.tasks[i].issue = plan.tasks[i].issue /\ r.tasks[i].point = plan.tasks[i].point
        /\ r.tasks[i].status = "pending"
             <=> plan.tasks[i].status = "pending" /\ plan.tasks[i].issue # k
  <2> TAKE i \in 1..n
  <2>1. plan.tasks[i] \in Task
    BY <1>3
  <2>2. r.tasks[i] = IF plan.tasks[i].issue = k /\ plan.tasks[i].status = "pending"
                        THEN [plan.tasks[i] EXCEPT !.status = "replaced"] ELSE plan.tasks[i]
    BY <1>3, <1>6 DEF ReplaceTasks
  <2>3. CASE plan.tasks[i].issue = k /\ plan.tasks[i].status = "pending"
    <3>1. r.tasks[i] = [plan.tasks[i] EXCEPT !.status = "replaced"]
      BY <2>2, <2>3
    <3>2. /\ r.tasks[i].issue = plan.tasks[i].issue /\ r.tasks[i].point = plan.tasks[i].point
          /\ r.tasks[i].status = "replaced"
      <4> HIDE DEF r
      <4> QED
        BY <2>1, <3>1 DEF Task
    <3> QED
      BY <2>3, <3>2
  <2>4. CASE ~(plan.tasks[i].issue = k /\ plan.tasks[i].status = "pending")
    <3>1. r.tasks[i] = plan.tasks[i]
      BY <2>2, <2>4
    <3> QED
      BY <2>4, <3>1
  <2> QED
    BY <2>3, <2>4
<1>8. /\ TaskPerRisk(plan) /\ TaskOnIssuePoint(plan)
      /\ k.point \in {q, None}
  BY DEF IInv, InOrder, TasksInOrder, Remediate
<1>9. Pending(r) = {i \in Pending(plan) : plan.tasks[i].issue # k} \cup {n + 1}
  BY <1>3, <1>6, <1>7 DEF Pending
<1>10. TaskOnIssuePoint(r)
  <2>1. ASSUME NEW i \in 1..n PROVE r.tasks[i].issue.point \in {r.tasks[i].point, None}
    BY <1>3, <1>7, <1>8 DEF TaskOnIssuePoint
  <2>2. r.tasks[n + 1].issue.point \in {r.tasks[n + 1].point, None}
    BY <1>6, <1>8
  <2>3. \A i \in 1..(n + 1) : i \in 1..n \/ i = n + 1
    BY <1>3
  <2> QED
    BY <1>6, <2>1, <2>2, <2>3 DEF TaskOnIssuePoint
<1>11. Pending(plan) \subseteq 1..n
  BY <1>3 DEF Pending
<1>12. \A i, j \in Pending(r) : r.tasks[i].issue = r.tasks[j].issue => i = j
  BY <1>6, <1>7, <1>8, <1>9, <1>11 DEF TaskPerRisk
<1>13. ASSUME NEW i \in Pending(r) PROVE r.issues[r.tasks[i].issue] = "retest_pending"
  <2>1. CASE i = n + 1
    BY <1>2, <1>3, <1>6, <2>1
  <2>2. CASE i \in Pending(plan) /\ plan.tasks[i].issue # k
    <3>1. plan.tasks[i] \in Task /\ r.tasks[i].issue = plan.tasks[i].issue
      BY <1>3, <1>7, <1>11, <2>2
    <3>2. plan.issues[plan.tasks[i].issue] = "retest_pending" /\ plan.tasks[i].issue \in IssueKeys
      BY <1>8, <2>2, <3>1 DEF TaskPerRisk, Task
    <3> QED
      BY <1>2, <1>3, <2>2, <3>1, <3>2
  <2> QED
    BY <1>9, <2>1, <2>2
<1>14. ASSUME NEW s \in IssueKeys, r.issues[s] = "retest_pending"
       PROVE  \E i \in Pending(r) : r.tasks[i].issue = s
  <2>1. CASE s = k
    BY <1>6, <1>9, <2>1
  <2>2. CASE s # k
    <3>1. plan.issues[s] = "retest_pending"
      BY <1>2, <1>3, <1>14, <2>2
    <3>2. PICK i \in Pending(plan) : plan.tasks[i].issue = s
      BY <1>8, <3>1 DEF TaskPerRisk
    <3> QED
      BY <1>7, <1>9, <1>11, <2>2, <3>2
  <2> QED
    BY <2>1, <2>2
<1>15. TasksInOrder(r)
  BY <1>10, <1>12, <1>13, <1>14 DEF TasksInOrder, TaskPerRisk
<1>16. InOrder(r)
  BY <1>2, <1>4, <1>15 DEF InOrder, RisksShown, ClearIfApproved
<1>17. Commit(r)
  BY DEF Remediate
<1> QED
  BY <1>1, <1>16, <1>17, CommitOrder

LEMMA NextOrder ==
    ASSUME IInv, [Next]_vars
    PROVE  InOrder(plan')
<1>1. CASE UNCHANGED vars
  BY <1>1 DEF vars, IInv
<1>2. CASE Next
  BY <1>2, UpdatePlanOrder, AddPointOrder, UpdatePointOrder, RemovePointOrder, RecordTestOrder,
     RecordTestBatchOrder, RecordRetestOrder, RemediateOrder, ReviewOrder, IssueCredentialOrder
     DEF Next
<1> QED
  BY <1>1, <1>2

LEMMA InvariantHolds == Spec => []IInv
<1>1. Init => IInv
  BY InitType, InitOrder DEF IInv
<1>2. IInv /\ [Next]_vars => IInv'
  <2> SUFFICES ASSUME IInv, [Next]_vars PROVE IInv'
    OBVIOUS
  <2>1. TypeOK'
    BY NextType DEF IInv
  <2>2. InOrder(plan')
    BY NextOrder
  <2> QED
    BY <2>1, <2>2 DEF IInv
<1> QED
  BY <1>1, <1>2, PTL DEF Spec

(* No risk is hidden behind a plan without open issues. *)
THEOREM RisksAreShown == Spec => []NoHiddenRisk
<1>1. IInv => NoHiddenRisk
  BY DEF IInv, InOrder, RisksShown, NoHiddenRisk
<1> QED
  BY <1>1, InvariantHolds, PTL

(* Every issue that waits for a retest has exactly one pending task, and   *)
(* every pending task belongs to such an issue.                            *)
THEOREM TasksMatchRisks == Spec => []OnePendingTaskPerRisk
<1>1. IInv => OnePendingTaskPerRisk
  <2> SUFFICES ASSUME IInv PROVE OnePendingTaskPerRisk
    OBVIOUS
  <2>1. TaskPerRisk(plan) /\ plan.tasks \in Seq(Task)
    BY DEF IInv, InOrder, TasksInOrder, TypeOK, Plan
  <2>2. \A i \in Pending(plan) : plan.tasks[i].issue \in IssueKeys
    <3>1. \A i \in DOMAIN plan.tasks : plan.tasks[i] \in Task
      BY <2>1
    <3> QED
      BY <3>1 DEF Pending, Task
  <2> QED
    BY <2>1, <2>2 DEF OnePendingTaskPerRisk, TaskPerRisk, Pending
<1> QED
  BY <1>1, InvariantHolds, PTL

(* The manifest of an approved plan is its content, as the repository      *)
(* stores no other approved plan.                                          *)
ApprovedFrozen == plan.status = "approved" => plan.frozen = Content(plan)

LEMMA CommitFrozen ==
    ASSUME NEW p, ApprovedFrozen, Commit(p)
    PROVE  ApprovedFrozen'
BY DEF ApprovedFrozen, Commit, ValidProjection, FrozenDigest

LEMMA ApprovedIsFrozen == Spec => []ApprovedFrozen
<1>1. Init => ApprovedFrozen
  BY DEF Init, NewPlan, ApprovedFrozen
<1>2. ApprovedFrozen /\ [Next]_vars => ApprovedFrozen'
  <2> SUFFICES ASSUME ApprovedFrozen, [Next]_vars PROVE ApprovedFrozen'
    OBVIOUS
  <2>1. CASE UNCHANGED vars
    BY <2>1 DEF vars, ApprovedFrozen, Content
  <2>2. ASSUME NEW h \in Headers, UpdatePlan(h) PROVE ApprovedFrozen'
    BY <2>2, CommitFrozen DEF UpdatePlan
  <2>3. ASSUME NEW q, NEW l, NEW v, NEW a, NEW b, AddPoint(q, l, v, a, b)
        PROVE  ApprovedFrozen'
    BY <2>3, CommitFrozen DEF AddPoint
  <2>4. ASSUME NEW q, NEW l, NEW v, NEW a, NEW b, UpdatePoint(q, l, v, a, b)
        PROVE  ApprovedFrozen'
    BY <2>4, CommitFrozen DEF UpdatePoint
  <2>5. ASSUME NEW q, RemovePoint(q) PROVE ApprovedFrozen'
    BY <2>5, CommitFrozen DEF RemovePoint
  <2>6. ASSUME NEW q, NEW m, RecordTest(q, m) PROVE ApprovedFrozen'
    BY <2>6, CommitFrozen DEF RecordTest
  <2>7. ASSUME NEW rows, RecordTestBatch(rows) PROVE ApprovedFrozen'
    BY <2>7, CommitFrozen DEF RecordTestBatch
  <2>8. ASSUME NEW t, NEW m, RecordRetest(t, m) PROVE ApprovedFrozen'
    BY <2>8, CommitFrozen DEF RecordRetest
  <2>9. ASSUME NEW k, NEW q, NEW patch, NEW b, Remediate(k, q, patch, b) PROVE ApprovedFrozen'
    BY <2>9, CommitFrozen DEF Remediate
  <2>10. ASSUME NEW d, Review(d) PROVE ApprovedFrozen'
    BY <2>10, CommitFrozen DEF Review
  <2>11. ASSUME IssueCredential PROVE ApprovedFrozen'
    BY <2>11, CommitFrozen DEF IssueCredential
  <2> QED
    BY <2>1, <2>2, <2>3, <2>4, <2>5, <2>6, <2>7, <2>8, <2>9, <2>10, <2>11 DEF Next
<1> QED
  BY <1>1, <1>2, PTL DEF Spec

(* An approved plan still holds what was approved, and no rule is hit.     *)
THEOREM ApprovalIsSound == Spec => []ApprovedIsClear
<1>1. IInv /\ ApprovedFrozen => ApprovedIsClear
  BY DEF ApprovedFrozen, IInv, InOrder, RisksShown, ClearIfApproved, ApprovedIsClear
<1> QED
  BY <1>1, InvariantHolds, ApprovedIsFrozen, PTL

=============================================================================

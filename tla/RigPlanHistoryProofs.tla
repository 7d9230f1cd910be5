----------------------- MODULE RigPlanHistoryProofs -----------------------
(***************************************************************************)
(* Theorems about what a plan has been through: tests, tasks, revisions,   *)
(* and what an approval promises because of them.                          *)
(*                                                                         *)
(* Most of them do not depend on which command was given, only on what it  *)
(* may do to points, tests, tasks and issues.  Effect says this; the first *)
(* half shows that every command has one of these effects, the second that *)
(* each effect keeps the invariants.                                       *)
(***************************************************************************)
EXTENDS RigPlanProofs

-----------------------------------------------------------------------------
(* What a command may do to a plan p, resulting in r.                      *)

(* A configuration that point q may get: its digest is its own, and its    *)
(* revision number has not been used for q.                                *)
Fresh(p, q, point) ==
    /\ point \in Point
    /\ point.digest = point.config
    /\ q \in Registered(p) => point.revision > p.points[q].revision

Configured(p, r) ==
    /\ r.tests = p.tests /\ r.tasks = p.tasks
    /\ \/ r.points = p.points
       \/ \E q \in Points, point \in Point :
            Fresh(p, q, point) /\ r.points = [p.points EXCEPT ![q] = point]
       \/ \E q \in Points :
            /\ r.points = [p.points EXCEPT ![q] = None]
            /\ \A i \in DOMAIN p.tests : p.tests[i].point # q

(* A test of a point as it is, with at least the load planned for it. *)
Current(p, test) ==
    LET q == test.point IN
    /\ q \in Registered(p)
    /\ test.digest = p.points[q].digest
    /\ test.revision = p.points[q].revision
    /\ test.m.target >= p.points[q].config.planned

NewTests(p, r, new) ==
    /\ new \in Seq(Test)
    /\ r.points = p.points
    /\ r.tests = p.tests \o new
    /\ \A i \in DOMAIN new : Current(p, new[i])
    /\ \A i, j \in DOMAIN new : new[i].point = new[j].point => i = j

Tested(p, r) == r.tasks = p.tasks /\ \E new \in Seq(Test) : NewTests(p, r, new)

(* A test that shows that task t, with which it is recorded, is done. *)
Resolves(test, task, t) ==
    /\ test.task = t /\ test.kind = "retest"
    /\ test.point = task.point /\ test.digest = task.digest
    /\ test.at > task.createdAt
    /\ test.m.target >= task.minTarget /\ Passes(test.m)

Retested(p, r, t) ==
    /\ t \in Pending(p)
    /\ r.tasks = [p.tasks EXCEPT ![t] = [p.tasks[t] EXCEPT !.status = "closed"]]
    /\ \E test \in Test : Resolves(test, p.tasks[t], t) /\ NewTests(p, r, <<test>>)

Remediated(p, r, k) ==
    /\ k \in IssueKeys /\ r.issues[k] = "retest_pending"
    /\ r.tests = p.tests
    /\ \E task \in Task :
        /\ task.issue = k /\ task.status = "pending"
        /\ r.tasks = Append(ReplaceTasks(p.tasks, k), task)
    /\ \/ r.points = p.points
       \/ \E q \in Points, point \in Point :
            Fresh(p, q, point) /\ r.points = [p.points EXCEPT ![q] = point]

(* Of the issues outside K only one about a missing test gets closed. *)
NoneClosed(p, r, K) ==
    \A k \in IssueKeys \ K :
        r.issues[k] = "closed" /\ k.code # "TEST_MISSING" => p.issues[k] = "closed"

Effect(p, r) ==
    \/ NoneClosed(p, r, {}) /\ (Configured(p, r) \/ Tested(p, r))
    \/ \E t \in Pending(p) : NoneClosed(p, r, {p.tasks[t].issue}) /\ Retested(p, r, t)
    \/ \E k \in IssueKeys : NoneClosed(p, r, {}) /\ Remediated(p, r, k)

SameWork(r, s) ==
    s.points = r.points /\ s.tests = r.tests /\ s.tasks = r.tasks /\ s.issues = r.issues

LEMMA SameWorkSameEffect ==
    ASSUME NEW p, NEW r, NEW s, Effect(p, r), SameWork(r, s)
    PROVE  Effect(p, s)
<1> USE DEF SameWork
<1>1. \A K : NoneClosed(p, r, K) => NoneClosed(p, s, K)
  BY DEF NoneClosed
<1>2. Configured(p, r) => Configured(p, s)
  BY DEF Configured
<1>3. \A new : NewTests(p, r, new) => NewTests(p, s, new)
  BY DEF NewTests
<1>4. Tested(p, r) => Tested(p, s)
  BY <1>3 DEF Tested
<1>5. \A t : Retested(p, r, t) => Retested(p, s, t)
  BY <1>3 DEF Retested
<1>6. \A k : Remediated(p, r, k) => Remediated(p, s, k)
  BY DEF Remediated
<1> QED
  BY <1>1, <1>2, <1>4, <1>5, <1>6 DEF Effect

LEMMA RefreshParts ==
    ASSUME NEW p \in Plan
    PROVE  LET r == RefreshIssues(p) IN
           /\ r.header = p.header /\ r.points = p.points /\ r.tests = p.tests
           /\ r.tasks = p.tasks /\ r.status = p.status
           /\ r.frozen = p.frozen /\ r.credentials = p.credentials
           /\ \A k \in IssueKeys :
                /\ r.issues[k] = "closed" /\ k.code # "TEST_MISSING" => p.issues[k] = "closed"
                /\ r.issues[k] # "none" => p.issues[k] # "none" \/ k \in EvaluateRules(p)
<1> DEFINE r == RefreshIssues(p)
<1>1. /\ r.header = p.header /\ r.points = p.points /\ r.tests = p.tests
      /\ r.tasks = p.tasks /\ r.status = p.status
      /\ r.frozen = p.frozen /\ r.credentials = p.credentials
      /\ r.issues = [k \in IssueKeys |-> RefreshedStatus(p.issues[k], k, k \in EvaluateRules(p))]
  BY DEF RefreshIssues, Plan
<1>2. \A k \in IssueKeys :
         /\ r.issues[k] = "closed" /\ k.code # "TEST_MISSING" => p.issues[k] = "closed"
         /\ r.issues[k] # "none" => p.issues[k] # "none" \/ k \in EvaluateRules(p)
  BY <1>1 DEF RefreshedStatus
<1> QED
  BY <1>1, <1>2

LEMMA SettleParts ==
    ASSUME NEW p \in Plan, NEW s \in {Settle(p), Demote(p)}
    PROVE  /\ s.header = p.header /\ SameWork(p, s)
           /\ s.frozen = p.frozen /\ s.credentials = p.credentials
           /\ s.status \in {"remediation", "testing", p.status}
BY DEF Settle, Demote, Plan, SameWork

LEMMA CommitParts ==
    ASSUME NEW p \in Plan, Commit(p), plan' # plan
    PROVE  /\ plan' = [p EXCEPT !.version = @ + 1]
           /\ plan'.header = p.header /\ SameWork(p, plan')
           /\ plan'.frozen = p.frozen /\ plan'.credentials = p.credentials
           /\ plan'.status = p.status
BY DEF Commit, Plan, SameWork

LEMMA CommitEffect ==
    ASSUME NEW p \in Plan, Effect(plan, p), Commit(p)
    PROVE  plan' = plan \/ Effect(plan, plan')
BY CommitParts, SameWorkSameEffect

(* Commands that refresh the issues of the plan p they have built. *)
LEMMA RefreshEffect ==
    ASSUME NEW p \in Plan, p.issues = plan.issues, Configured(plan, p) \/ Tested(plan, p)
    PROVE  LET r == RefreshIssues(p) IN
           Effect(plan, r) /\ Effect(plan, Settle(r)) /\ Effect(plan, Demote(r))
<1> DEFINE r == RefreshIssues(p)
<1>1. r \in Plan
  BY RefreshType
<1>2. NoneClosed(plan, r, {})
  BY RefreshParts DEF NoneClosed
<1>3. Configured(plan, r) \/ Tested(plan, r)
  <2>1. r.points = p.points /\ r.tests = p.tests /\ r.tasks = p.tasks
    BY RefreshParts
  <2>2. Configured(plan, p) => Configured(plan, r)
    BY <2>1 DEF Configured
  <2>3. Tested(plan, p) => Tested(plan, r)
    BY <2>1 DEF Tested, NewTests
  <2> QED
    BY <2>2, <2>3
<1>4. Effect(plan, r)
  BY <1>2, <1>3 DEF Effect
<1> QED
  BY <1>1, <1>4, SettleParts, SameWorkSameEffect

LEMMA UpdatePlanEffect ==
    ASSUME IInv, NEW h \in Headers, UpdatePlan(h)
    PROVE  plan' = plan \/ Effect(plan, plan')
<1> DEFINE p == [plan EXCEPT !.header = h]
<1>1. h \in Header
  BY ConstantsAssumption DEF Header
<1>2. p \in Plan /\ SameWork(plan, p)
  BY <1>1 DEF IInv, TypeOK, Plan, SameWork
<1>3. Configured(plan, p)
  BY <1>2 DEF Configured, SameWork
<1>4. Effect(plan, Demote(RefreshIssues(p))) /\ Demote(RefreshIssues(p)) \in Plan
  BY <1>2, <1>3, RefreshEffect, RefreshType, SettleType DEF SameWork
<1> QED
  BY <1>4, CommitEffect DEF UpdatePlan

LEMMA AddPointEffect ==
    ASSUME IInv, NEW q \in Points, NEW l \in Labels, NEW v \in AddValues,
           NEW a \in Points \cup {None}, NEW b \in Points \cup {None}, AddPoint(q, l, v, a, b)
    PROVE  plan' = plan \/ Effect(plan, plan')
<1> DEFINE config == PointConfig(v, a, b)
           point  == [label |-> l, config |-> config,
                      digest |-> PointConfigDigest(config), revision |-> 1]
           p      == [plan EXCEPT !.points[q] = point]
<1>1. point \in Point /\ point.digest = point.config
  BY ConfigType DEF Point, PointConfigDigest
<1>2. p \in Plan
  BY <1>1, SetPointType DEF IInv, TypeOK
<1>3. /\ p.issues = plan.issues /\ p.tasks = plan.tasks /\ p.tests = plan.tests
      /\ p.points = [plan.points EXCEPT ![q] = point]
  BY DEF IInv, TypeOK, Plan
<1>4. q \notin Registered(plan) /\ Commit(RefreshIssues(p))
  BY DEF AddPoint
<1>5. Configured(plan, p)
  BY <1>1, <1>3, <1>4 DEF Configured, Fresh
<1> HIDE DEF p
<1> QED
  BY <1>2, <1>3, <1>4, <1>5, RefreshEffect, RefreshType, CommitEffect

LEMMA UpdatePointEffect ==
    ASSUME IInv, NEW q \in Points, NEW l \in Labels, NEW v \in ReviseValues,
           NEW a \in Points \cup {None}, NEW b \in Points \cup {None}, UpdatePoint(q, l, v, a, b)
    PROVE  plan' = plan \/ Effect(plan, plan')
<1> DEFINE config == PointConfig(v, a, b)
           old    == plan.points[q]
           point  == [Revised(old, config) EXCEPT !.label = l]
           p      == [plan EXCEPT !.points[q] = point]
<1>1. old \in Point /\ config \in Config
  BY ConfigType, PointType DEF UpdatePoint, IInv, TypeOK
<1>2. Fresh(plan, q, point)
  <2>1. Revised(old, config) \in Point
    BY <1>1, RevisedType
  <2>2. /\ Revised(old, config).digest = Revised(old, config).config
        /\ Revised(old, config).revision > old.revision
    BY <1>1 DEF Revised, PointConfigDigest, Point
  <2>3. point \in Point /\ point.digest = point.config /\ point.revision > old.revision
    BY <2>1, <2>2 DEF Point
  <2> QED
    BY <2>3 DEF Fresh
<1>3. p \in Plan
  BY <1>2, SetPointType DEF Fresh, IInv, TypeOK
<1>4. /\ p.issues = plan.issues /\ p.tasks = plan.tasks /\ p.tests = plan.tests
      /\ p.points = [plan.points EXCEPT ![q] = point]
  BY DEF IInv, TypeOK, Plan
<1>5. Configured(plan, p)
  BY <1>2, <1>4 DEF Configured, Fresh
<1>6. Commit(Demote(RefreshIssues(p)))
  BY DEF UpdatePoint
<1> HIDE DEF p
<1> QED
  BY <1>3, <1>4, <1>5, <1>6, RefreshEffect, RefreshType, SettleType, CommitEffect

LEMMA RemovePointEffect ==
    ASSUME IInv, NEW q \in Points, RemovePoint(q)
    PROVE  plan' = plan \/ Effect(plan, plan')
<1> DEFINE p == [plan EXCEPT !.points[q] = None,
                             !.issues = [k \in IssueKeys |-> IF k.point = q THEN "none" ELSE @[k]]]
           r == RefreshIssues(p)
<1>1. p \in Plan
  BY DEF IInv, TypeOK, Plan, IssueStatus
<1>2. /\ p.tasks = plan.tasks /\ p.tests = plan.tests
      /\ p.points = [plan.points EXCEPT ![q] = None]
      /\ p.issues = [k \in IssueKeys |-> IF k.point = q THEN "none" ELSE plan.issues[k]]
  BY DEF IInv, TypeOK, Plan
<1>3. Commit(r) /\ \A i \in DOMAIN plan.tests : plan.tests[i].point # q
  BY DEF RemovePoint, RemovalAllowed
<1> HIDE DEF p
<1>4. r \in Plan
  BY <1>1, RefreshType
<1>5. Configured(plan, r)
  BY <1>1, <1>2, <1>3, RefreshParts DEF Configured
<1>6. NoneClosed(plan, r, {})
  BY <1>1, <1>2, RefreshParts DEF NoneClosed
<1> QED
  BY <1>3, <1>4, <1>5, <1>6, CommitEffect DEF Effect

LEMMA AppendIsConcat ==
    ASSUME NEW S, NEW s \in Seq(S), NEW e \in S
    PROVE  Append(s, e) = s \o <<e>>
OBVIOUS

(* A new test quotes the point as it is. *)
LEMMA NewTestCurrent ==
    ASSUME NEW p, NEW q, NEW kind, NEW m, NEW at, NEW task, ValidTest(p, q, m)
    PROVE  Current(p, NewTest(p, q, kind, m, at, task))
BY DEF ValidTest, Current, NewTest

(* One test added to the plan. *)
LEMMA OneTest ==
    ASSUME NEW p \in Plan, NEW test \in Test, Current(p, test)
    PROVE  NewTests(p, [p EXCEPT !.tests = Append(@, test)], <<test>>)
<1> DEFINE r == [p EXCEPT !.tests = Append(@, test)]
<1>1. r.points = p.points /\ r.tests = Append(p.tests, test)
  BY DEF Plan
<1>2. r.tests = p.tests \o <<test>>
  BY <1>1, AppendIsConcat DEF Plan
<1>3. <<test>> \in Seq(Test) /\ DOMAIN <<test>> = {1} /\ <<test>>[1] = test
  OBVIOUS
<1> HIDE DEF r
<1> QED
  BY <1>1, <1>2, <1>3 DEF NewTests

LEMMA RecordTestEffect ==
    ASSUME IInv, NEW q \in Points, NEW m \in Measurements, RecordTest(q, m)
    PROVE  plan' = plan \/ Effect(plan, plan')
<1> DEFINE test == NewTest(plan, q, "initial", m, now', 0)
           p    == [plan EXCEPT !.tests = Append(@, test)]
<1>1. now' \in Int /\ ValidTest(plan, q, m)
  BY ClockType DEF RecordTest, IInv
<1>2. test \in Test /\ Current(plan, test)
  BY <1>1, NewTestType, NewTestCurrent DEF ValidTest, IInv, TypeOK
<1>3. p \in Plan /\ p.issues = plan.issues /\ p.tasks = plan.tasks
  BY <1>2, AppendTestType DEF IInv, TypeOK, Plan
<1>4. NewTests(plan, p, <<test>>) /\ <<test>> \in Seq(Test)
  BY <1>2, OneTest DEF IInv, TypeOK
<1>5. Tested(plan, p)
  BY <1>3, <1>4 DEF Tested
<1>6. Commit(Settle(RefreshIssues(p)))
  BY DEF RecordTest
<1> HIDE DEF p
<1> QED
  BY <1>3, <1>5, <1>6, RefreshEffect, RefreshType, SettleType, CommitEffect

(* The rows of a batch become tests of different points. *)
LEMMA BatchTests ==
    ASSUME IInv, NEW rows \in Batches, RecordTestBatch(rows)
    PROVE  LET p == [plan EXCEPT !.tests = @ \o [i \in DOMAIN rows |->
                        NewTest(plan, rows[i].point, "initial", rows[i].m, now', 0)]]
           IN  \E new \in Seq(Test) : NewTests(plan, p, new)
<1> DEFINE new == [i \in DOMAIN rows |->
                      NewTest(plan, rows[i].point, "initial", rows[i].m, now', 0)]
           p   == [plan EXCEPT !.tests = @ \o new]
<1>1. p.points = plan.points /\ p.tests = plan.tests \o new
  BY DEF IInv, TypeOK, Plan
<1>2. /\ \A i, j \in DOMAIN rows : rows[i].point = rows[j].point => i = j
      /\ \A i \in DOMAIN rows : ValidTest(plan, rows[i].point, rows[i].m)
  BY DEF RecordTestBatch
<1>3. new \in Seq(Test)
  <2>1. PICK n \in 1..MaxBatch : rows \in [1..n -> [point : Points, m : Measurements]]
    BY DEF Batches
  <2>2. now' \in Int
    BY ClockType DEF RecordTestBatch, IInv
  <2>3. \A i \in 1..n : new[i] \in Test
    BY <1>2, <2>1, <2>2, NewTestType DEF ValidTest, IInv, TypeOK
  <2>4. n \in Nat /\ new \in [1..n -> Test]
    BY <2>1, <2>3, ConstantsAssumption
  <2> QED
    BY <2>4
<1>4. \A i \in DOMAIN new : Current(plan, new[i]) /\ new[i].point = rows[i].point
  BY <1>2, NewTestCurrent DEF NewTest
<1>5. NewTests(plan, p, new)
  BY <1>1, <1>2, <1>3, <1>4 DEF NewTests
<1> QED
  BY <1>3, <1>5

LEMMA RecordTestBatchEffect ==
    ASSUME IInv, NEW rows \in Batches, RecordTestBatch(rows)
    PROVE  plan' = plan \/ Effect(plan, plan')
<1> DEFINE p == [plan EXCEPT !.tests = @ \o [i \in DOMAIN rows |->
                    NewTest(plan, rows[i].point, "initial", rows[i].m, now', 0)]]
<1>1. p \in Plan
  BY BatchType DEF IInv
<1>2. p.issues = plan.issues /\ p.tasks = plan.tasks
  BY DEF IInv, TypeOK, Plan
<1>3. Commit(Settle(RefreshIssues(p)))
  BY DEF RecordTestBatch
<1>4. Tested(plan, p)
  BY <1>2, BatchTests DEF Tested
<1> HIDE DEF p
<1> QED
  BY <1>1, <1>2, <1>3, <1>4, RefreshEffect, RefreshType, SettleType, CommitEffect

LEMMA RecordRetestEffect ==
    ASSUME IInv, NEW t \in DOMAIN plan.tasks, NEW m \in Measurements, RecordRetest(t, m)
    PROVE  plan' = plan \/ Effect(plan, plan')
<1> DEFINE task == plan.tasks[t]
           test == NewTest(plan, task.point, "retest", m, now', t)
           q    == [plan EXCEPT !.tests = Append(@, test)]
           p    == RefreshIssues(q)
           c    == CloseTask(p, t)
<1>1. /\ now' \in Int /\ ValidTest(plan, task.point, m) /\ ResolvesTo(plan, t)
      /\ now' > task.createdAt
  BY ClockType DEF RecordRetest, IInv
<1>2. t \in Nat /\ task \in Task /\ t \in Pending(plan)
  BY <1>1 DEF IInv, TypeOK, Plan, ResolvesTo, Pending
<1>3. test \in Test /\ Current(plan, test)
  BY <1>1, <1>2, NewTestType, NewTestCurrent DEF ValidTest, IInv, TypeOK
<1>4. /\ q \in Plan /\ q.issues = plan.issues /\ q.tasks = plan.tasks
      /\ NewTests(plan, q, <<test>>) /\ <<test>> \in Seq(Test)
  <2> HIDE DEF test
  <2>1. plan \in Plan
    BY DEF IInv, TypeOK
  <2>2. NewTests(plan, q, <<test>>) /\ q \in Plan
    BY <1>3, <2>1, OneTest, AppendTestType
  <2>3. q.issues = plan.issues /\ q.tasks = plan.tasks
    BY <2>1 DEF Plan
  <2> QED
    BY <1>3, <2>2, <2>3
<1>5. Tested(plan, q)
  BY <1>4 DEF Tested
<1>6. \/ Commit(Settle(p))
      \/ Commit(Settle(c)) /\ MeetsConditions(m, task)
  BY DEF RecordRetest
<1>7. ASSUME MeetsConditions(m, task) PROVE Resolves(test, task, t)
  <2>1. /\ test.task = t /\ test.kind = "retest" /\ test.point = task.point
        /\ test.digest = plan.points[task.point].digest /\ test.at = now' /\ test.m = m
    BY DEF NewTest
  <2>2. plan.points[task.point].digest = task.digest
    BY <1>1 DEF ResolvesTo
  <2>3. m.target >= task.minTarget /\ Passes(m)
    BY <1>7 DEF MeetsConditions
  <2> HIDE DEF test, task
  <2> QED
    BY <1>1, <2>1, <2>2, <2>3 DEF Resolves
<1> HIDE DEF q, test
<1>8. CASE Commit(Settle(p))
  BY <1>4, <1>5, <1>8, RefreshEffect, RefreshType, SettleType, CommitEffect
<1>9. CASE Commit(Settle(c)) /\ MeetsConditions(m, task)
  <2>1. p \in Plan /\ p.tasks = plan.tasks /\ p.points = q.points /\ p.tests = q.tests
    BY <1>4, RefreshType, RefreshParts
  <2>2. /\ c.points = p.points /\ c.tests = p.tests
        /\ c.tasks = [plan.tasks EXCEPT ![t] = [task EXCEPT !.status = "closed"]]
        /\ c.issues = [p.issues EXCEPT ![task.issue] = "closed"]
    BY <2>1 DEF CloseTask, Plan
  <2>3. c \in Plan
    BY <2>1, CloseTaskType
  <2>4. Retested(plan, c, t)
    BY <1>2, <1>3, <1>4, <1>7, <1>9, <2>1, <2>2 DEF Retested, NewTests
  <2>5. NoneClosed(plan, c, {task.issue})
    <3>1. \A k \in IssueKeys \ {task.issue} : c.issues[k] = p.issues[k]
      BY <2>1, <2>2 DEF Plan
    <3>2. \A k \in IssueKeys :
             p.issues[k] = "closed" /\ k.code # "TEST_MISSING" => q.issues[k] = "closed"
      BY <1>4, RefreshParts
    <3> QED
      BY <1>4, <3>1, <3>2 DEF NoneClosed
  <2>6. Effect(plan, c)
    BY <1>2, <2>4, <2>5 DEF Effect
  <2>7. Effect(plan, Settle(c)) /\ Settle(c) \in Plan
    BY <2>3, <2>6, SettleType, SettleParts, SameWorkSameEffect
  <2> QED
    BY <1>9, <2>7, CommitEffect
<1> QED
  BY <1>6, <1>8, <1>9

LEMMA RemediateEffect ==
    ASSUME IInv, NEW k \in IssueKeys, NEW q \in Points, NEW patch \in Patches,
           NEW b \in Points \cup {None}, Remediate(k, q, patch, b)
    PROVE  plan' = plan \/ Effect(plan, plan')
<1> DEFINE old    == plan.points[q]
           config == Patched(old.config, patch, b)
           point  == IF PointConfigDigest(config) = old.digest
                        THEN old ELSE Revised(old, config)
           task   == [issue |-> k, point |-> q, digest |-> point.digest,
                      minTarget |-> point.config.planned, createdAt |-> now', status |-> "pending"]
           p      == [plan EXCEPT !.points[q] = point]
           r      == [p EXCEPT !.tasks = Append(ReplaceTasks(@, k), task),
                               !.issues[k] = "retest_pending", !.status = "remediation"]
<1>1. r \in Plan
  BY RemediatedType DEF IInv
<1>2. old \in Point /\ now' \in Int
  BY PointType, ClockType DEF Remediate, IInv, TypeOK
<1>3. config \in Config
  BY <1>2, PatchedType DEF Point
<1>4. point = old \/ Fresh(plan, q, point)
  <2>1. Revised(old, config) \in Point
    BY <1>2, <1>3, RevisedType
  <2>2. /\ Revised(old, config).digest = Revised(old, config).config
        /\ Revised(old, config).revision > old.revision
    BY <1>2, <1>3 DEF Revised, PointConfigDigest, Point
  <2> HIDE DEF config, old
  <2> QED
    BY <2>1, <2>2 DEF Fresh, old
<1>5. point \in Point
  BY <1>2, <1>4 DEF Fresh
<1>6. task \in Task
  BY <1>2, <1>5 DEF Task, Point, TaskStatus, Config
<1>7. /\ r.tasks = Append(ReplaceTasks(plan.tasks, k), task) /\ r.tests = plan.tests
      /\ r.issues = [plan.issues EXCEPT ![k] = "retest_pending"]
      /\ r.points = [plan.points EXCEPT ![q] = point]
  BY DEF IInv, TypeOK, Plan
<1>8. plan.issues \in [IssueKeys -> IssueStatus] /\ plan.points \in [Points -> Point \cup {None}]
  BY DEF IInv, TypeOK, Plan
<1>9. task.issue = k /\ task.status = "pending"
  OBVIOUS
<1> HIDE DEF r, p, task, point
<1>10. r.points = plan.points \/ (Fresh(plan, q, point) /\ r.points = [plan.points EXCEPT ![q] = point])
  BY <1>4, <1>7, <1>8
<1>11. Remediated(plan, r, k)
  BY <1>5, <1>6, <1>7, <1>8, <1>9, <1>10 DEF Remediated
<1>12. NoneClosed(plan, r, {})
  BY <1>7, <1>8 DEF NoneClosed
<1>13. Commit(r)
  BY DEF Remediate, r, p, task, point
<1> QED
  BY <1>1, <1>11, <1>12, <1>13, CommitEffect DEF Effect

LEMMA ReviewEffect ==
    ASSUME IInv, NEW d \in Decisions, Review(d)
    PROVE  plan' = plan \/ Effect(plan, plan')
<1> DEFINE p  == RefreshIssues(plan)
           ap == [p EXCEPT !.status = "approved", !.frozen = FrozenDigest(p)]
           re == [p EXCEPT !.status = "returned"]
<1>1. plan \in Plan /\ Configured(plan, plan)
  BY DEF IInv, TypeOK, Configured
<1>2. p \in Plan /\ Effect(plan, p)
  BY <1>1, RefreshType, RefreshEffect
<1>3. ap \in Plan /\ re \in Plan
  BY <1>2, ManifestType DEF Plan, PlanStatus
<1>4. SameWork(p, ap) /\ SameWork(p, re)
  BY <1>2 DEF SameWork, Plan
<1>5. Commit(ap) \/ Commit(re)
  BY DEF Review
<1> QED
  BY <1>2, <1>3, <1>4, <1>5, SameWorkSameEffect, CommitEffect

LEMMA IssueCredentialEffect ==
    ASSUME IInv, IssueCredential
    PROVE  plan' = plan \/ Effect(plan, plan')
<1> DEFINE p == [plan EXCEPT !.credentials = Append(@, plan.frozen)]
<1>1. plan.frozen \in Manifest
  BY DEF IssueCredential, IInv, TypeOK, Plan
<1>2. Append(plan.credentials, plan.frozen) \in Seq(Manifest)
  BY <1>1 DEF IInv, TypeOK, Plan
<1>3. p \in Plan /\ SameWork(plan, p)
  BY <1>2 DEF IInv, TypeOK, Plan, SameWork
<1>4. Effect(plan, p)
  BY <1>3 DEF Effect, Configured, NoneClosed, SameWork
<1> QED
  BY <1>3, <1>4, CommitEffect DEF IssueCredential

LEMMA NextEffect ==
    ASSUME IInv, [Next]_vars
    PROVE  plan' = plan \/ Effect(plan, plan')
<1>1. CASE UNCHANGED vars
  BY <1>1 DEF vars
<1>2. CASE Next
  BY <1>2, UpdatePlanEffect, AddPointEffect, UpdatePointEffect, RemovePointEffect,
     RecordTestEffect, RecordTestBatchEffect, RecordRetestEffect, RemediateEffect,
     ReviewEffect, IssueCredentialEffect DEF Next
<1> QED
  BY <1>1, <1>2

-----------------------------------------------------------------------------
(* What the effects keep.                                                  *)

(* Each test quotes a revision of its point that the point has had, with   *)
(* the configuration of that revision, and a sufficient load.              *)
TestsQuote(p) ==
    \A i \in DOMAIN p.tests :
        LET t == p.tests[i] IN
        /\ t.point \in Registered(p)
        /\ t.revision <= p.points[t.point].revision
        /\ t.revision = p.points[t.point].revision => t.digest = p.points[t.point].digest
        /\ t.m.target >= t.digest.planned

TestsAgree(p) ==
    \A i, j \in DOMAIN p.tests :
        p.tests[i].point = p.tests[j].point /\ p.tests[i].revision = p.tests[j].revision
            => p.tests[i].digest = p.tests[j].digest

DigestsOwn(p) == \A q \in Registered(p) : p.points[q].digest = p.points[q].config

(* The tests of one point on one configuration have a latest. *)
Made(tests, q, d) == {i \in DOMAIN tests : tests[i].point = q /\ tests[i].digest = d}

IsLatest(tests, E, i) ==
    /\ i \in E
    /\ \A j \in E : tests[j].at < tests[i].at \/ (tests[j].at = tests[i].at /\ i <= j)

LatestExists(p) ==
    \A q \in Points, d \in Config :
        Made(p.tests, q, d) # {} => \E i \in DOMAIN p.tests : IsLatest(p.tests, Made(p.tests, q, d), i)

TestsInOrder(p) == TestsQuote(p) /\ TestsAgree(p) /\ DigestsOwn(p) /\ LatestExists(p)

Moved(p, r) ==
    \/ r.points = p.points
    \/ \E q \in Points, point \in Point :
         Fresh(p, q, point) /\ r.points = [p.points EXCEPT ![q] = point]
    \/ \E q \in Points :
         /\ r.points = [p.points EXCEPT ![q] = None]
         /\ \A i \in DOMAIN p.tests : p.tests[i].point # q

LEMMA TestParts ==
    ASSUME NEW p \in Plan, NEW i \in DOMAIN p.tests
    PROVE  /\ p.tests[i] \in Test /\ i \in Nat /\ p.tests[i].at \in Int
           /\ p.tests[i].point \in Points /\ p.tests[i].revision \in Nat
           /\ p.tests[i].digest \in Config
<1>1. p.tests[i] \in Test /\ i \in Nat
  BY DEF Plan
<1> QED
  BY <1>1 DEF Test

LEMMA MovedKeepsTests ==
    ASSUME NEW p \in Plan, NEW r \in Plan, TestsInOrder(p), Moved(p, r), r.tests = p.tests
    PROVE  TestsInOrder(r)
<1>1. CASE r.points = p.points
  BY <1>1 DEF TestsInOrder, TestsQuote, TestsAgree, DigestsOwn, LatestExists, Registered
<1>2. ASSUME NEW q \in Points, NEW point \in Point, Fresh(p, q, point),
             r.points = [p.points EXCEPT ![q] = point]
      PROVE  TestsInOrder(r)
  <2>1. /\ p.points \in [Points -> Point \cup {None}] /\ r.points[q] = point /\ point # None
        /\ \A x \in Points \ {q} : r.points[x] = p.points[x]
    BY <1>2, ConstantsAssumption DEF Plan
  <2>2. Registered(r) = Registered(p) \cup {q}
    BY <2>1 DEF Registered
  <2>3. DigestsOwn(r)
    BY <1>2, <2>1, <2>2 DEF DigestsOwn, TestsInOrder, Fresh, Registered
  <2>4. TestsQuote(r)
    <3> SUFFICES ASSUME NEW i \in DOMAIN p.tests
                 PROVE  LET t == p.tests[i] IN
                        /\ t.point \in Registered(r)
                        /\ t.revision <= r.points[t.point].revision
                        /\ t.revision = r.points[t.point].revision
                              => t.digest = r.points[t.point].digest
                        /\ t.m.target >= t.digest.planned
      BY DEF TestsQuote
    <3> DEFINE t == p.tests[i]
    <3>1. /\ t.point \in Registered(p)
          /\ t.revision <= p.points[t.point].revision
          /\ t.revision = p.points[t.point].revision => t.digest = p.points[t.point].digest
          /\ t.m.target >= t.digest.planned
      BY DEF TestsInOrder, TestsQuote
    <3>2. t.point \in Points /\ t.revision \in Nat
      BY TestParts
    <3>3. CASE t.point # q
      BY <2>1, <2>2, <3>1, <3>2, <3>3
    <3>4. CASE t.point = q
      <4>1. p.points[q] \in Point /\ point.revision > p.points[q].revision
        BY <1>2, <3>1, <3>4, PointType DEF Fresh
      <4>2. p.points[q].revision \in Nat /\ point.revision \in Nat
        BY <4>1 DEF Point
      <4>3. t.revision < point.revision
        BY <3>1, <3>2, <3>4, <4>1, <4>2
      <4> QED
        BY <2>1, <2>2, <3>1, <3>2, <3>4, <4>2, <4>3
    <3> QED
      BY <3>3, <3>4
  <2> QED
    BY <2>3, <2>4 DEF TestsInOrder, TestsAgree, LatestExists
<1>3. ASSUME NEW q \in Points, r.points = [p.points EXCEPT ![q] = None],
             \A i \in DOMAIN p.tests : p.tests[i].point # q
      PROVE  TestsInOrder(r)
  <2>1. /\ r.points[q] = None /\ \A x \in Points \ {q} : r.points[x] = p.points[x]
    BY <1>3 DEF Plan
  <2>2. Registered(r) = Registered(p) \ {q}
    BY <2>1 DEF Registered
  <2>3. DigestsOwn(r)
    BY <2>1, <2>2 DEF DigestsOwn, TestsInOrder, Registered
  <2>4. TestsQuote(r)
    BY <1>3, <2>1, <2>2, TestParts DEF TestsQuote, TestsInOrder
  <2> QED
    BY <2>3, <2>4 DEF TestsInOrder, TestsAgree, LatestExists
<1> QED
  BY <1>1, <1>2, <1>3 DEF Moved

(* Where a test of the new sequence comes from. *)
LEMMA ConcatParts ==
    ASSUME NEW S, NEW a \in Seq(S), NEW b \in Seq(S)
    PROVE  /\ Len(a \o b) = Len(a) + Len(b)
           /\ DOMAIN (a \o b) = 1..(Len(a) + Len(b))
           /\ \A i \in DOMAIN a : i \in DOMAIN (a \o b) /\ (a \o b)[i] = a[i]
           /\ \A i \in DOMAIN b : /\ Len(a) + i \in DOMAIN (a \o b)
                                  /\ (a \o b)[Len(a) + i] = b[i]
           /\ \A i \in DOMAIN (a \o b) :
                i \in DOMAIN a \/ \E j \in DOMAIN b : i = Len(a) + j
<1>1. /\ Len(a \o b) = Len(a) + Len(b) /\ Len(a) \in Nat /\ Len(b) \in Nat
      /\ DOMAIN (a \o b) = 1..(Len(a) + Len(b))
      /\ DOMAIN a = 1..Len(a) /\ DOMAIN b = 1..Len(b)
  OBVIOUS
<1>2. \A i \in 1..Len(a) : (a \o b)[i] = a[i]
  BY <1>1
<1>3. \A i \in 1..Len(b) : Len(a) + i \in 1..(Len(a) + Len(b)) /\ (a \o b)[Len(a) + i] = b[i]
  BY <1>1
<1>4. ASSUME NEW i \in 1..(Len(a) + Len(b)), i \notin 1..Len(a)
      PROVE  \E j \in 1..Len(b) : i = Len(a) + j
  <2>1. i - Len(a) \in 1..Len(b) /\ i = Len(a) + (i - Len(a))
    BY <1>1, <1>4
  <2> QED
    BY <2>1
<1>5. 1..Len(a) \subseteq 1..(Len(a) + Len(b))
  BY <1>1
<1> QED
  BY <1>1, <1>2, <1>3, <1>4, <1>5

LEMMA NewTestsKeepLatest ==
    ASSUME NEW p \in Plan, NEW r \in Plan, LatestExists(p), NEW new \in Seq(Test), NewTests(p, r, new)
    PROVE  LatestExists(r)
<1> DEFINE n == Len(p.tests)
<1> SUFFICES ASSUME NEW q \in Points, NEW d \in Config, Made(r.tests, q, d) # {}
             PROVE  \E i \in DOMAIN r.tests : IsLatest(r.tests, Made(r.tests, q, d), i)
  BY DEF LatestExists
<1> DEFINE E == Made(p.tests, q, d)
           F == Made(r.tests, q, d)
           N == {i \in DOMAIN new : new[i].point = q /\ new[i].digest = d}
<1>1. p.tests \in Seq(Test) /\ r.tests = p.tests \o new
  BY DEF Plan, NewTests
<1>2. /\ \A i \in DOMAIN p.tests : i \in DOMAIN r.tests /\ r.tests[i] = p.tests[i]
      /\ \A i \in DOMAIN new : n + i \in DOMAIN r.tests /\ r.tests[n + i] = new[i]
      /\ \A i \in DOMAIN r.tests : i \in DOMAIN p.tests \/ \E j \in DOMAIN new : i = n + j
  <2> DEFINE a == p.tests
  <2>1. a \in Seq(Test) /\ r.tests = a \o new
    BY <1>1
  <2> HIDE DEF a
  <2>2. /\ \A i \in DOMAIN a : i \in DOMAIN (a \o new) /\ (a \o new)[i] = a[i]
        /\ \A i \in DOMAIN new : /\ Len(a) + i \in DOMAIN (a \o new)
                                  /\ (a \o new)[Len(a) + i] = new[i]
        /\ \A i \in DOMAIN (a \o new) :
             i \in DOMAIN a \/ \E j \in DOMAIN new : i = Len(a) + j
    BY <2>1, ConcatParts
  <2> QED
    BY <2>1, <2>2 DEF a
<1>3. F = E \cup {n + i : i \in N}
  BY <1>2 DEF Made
<1>4. \A i, j \in N : i = j
  BY DEF NewTests
<1>5. CASE N = {}
  <2>1. F = E /\ E # {}
    BY <1>3, <1>5
  <2>2. PICK i \in DOMAIN p.tests : IsLatest(p.tests, E, i)
    BY <2>1 DEF LatestExists
  <2>3. IsLatest(r.tests, F, i)
    BY <1>2, <2>1, <2>2 DEF IsLatest, Made
  <2> QED
    BY <1>2, <2>3
<1>6. ASSUME NEW x \in N PROVE \E i \in DOMAIN r.tests : IsLatest(r.tests, F, i)
  <2> DEFINE y == n + x
  <2>1. F = E \cup {y} /\ y \in DOMAIN r.tests
    BY <1>2, <1>3, <1>4
  <2>2. n \in Nat /\ x \in Nat \ {0} /\ DOMAIN p.tests = 1..n /\ E \subseteq 1..n
    BY <1>1 DEF Made
  <2>3. \A i \in E : i \in DOMAIN r.tests /\ i \in Nat /\ i <= y
    BY <1>2, <2>2 DEF Made
  <2>4. \A i \in DOMAIN r.tests : r.tests[i].at \in Int
    BY TestParts
  <2>5. y \in Nat
    BY <2>2
  <2> HIDE DEF y, n, N, E, F
  <2>6. CASE \A j \in E : r.tests[j].at < r.tests[y].at
    BY <2>1, <2>5, <2>6 DEF IsLatest
  <2>7. CASE \E j \in E : ~ (r.tests[j].at < r.tests[y].at)
    <3>1. E # {}
      BY <2>7
    <3>2. PICK i \in DOMAIN p.tests : IsLatest(p.tests, E, i)
      BY <3>1 DEF LatestExists, E
    <3>3. \A j \in E : r.tests[j] = p.tests[j]
      BY <1>2 DEF E, Made
    <3>4. /\ i \in E
          /\ \A j \in E : \/ r.tests[j].at < r.tests[i].at
                          \/ r.tests[j].at = r.tests[i].at /\ i <= j
      <4>1. i \in E
        BY <3>2 DEF IsLatest
      <4>2. \A j \in E : \/ p.tests[j].at < p.tests[i].at
                         \/ p.tests[j].at = p.tests[i].at /\ i <= j
        BY <3>2 DEF IsLatest
      <4>3. r.tests[i] = p.tests[i]
        BY <3>3, <4>1
      <4> QED
        BY <3>3, <4>1, <4>2, <4>3
    <3>5. PICK j \in E : ~ (r.tests[j].at < r.tests[y].at)
      BY <2>7
    <3>6. r.tests[y].at <= r.tests[i].at
      BY <2>1, <2>3, <2>4, <3>4, <3>5
    <3>7. r.tests[y].at < r.tests[i].at \/ (r.tests[y].at = r.tests[i].at /\ i <= y)
      BY <2>1, <2>3, <2>4, <3>4, <3>6
    <3> QED
      BY <2>1, <2>3, <3>4, <3>7 DEF IsLatest
  <2> QED
    BY <2>6, <2>7
<1> QED
  BY <1>5, <1>6

LEMMA NewTestsInOrder ==
    ASSUME NEW p \in Plan, NEW r \in Plan, TestsInOrder(p), NEW new \in Seq(Test), NewTests(p, r, new)
    PROVE  TestsInOrder(r)
<1> DEFINE n == Len(p.tests)
<1>1. p.tests \in Seq(Test) /\ r.tests = p.tests \o new /\ r.points = p.points
  BY DEF Plan, NewTests
<1>2. \A i \in DOMAIN r.tests :
         \/ i \in DOMAIN p.tests /\ r.tests[i] = p.tests[i]
         \/ \E j \in DOMAIN new : r.tests[i] = new[j]
  BY <1>1, ConcatParts
<1>3. Registered(r) = Registered(p)
  BY <1>1 DEF Registered
<1>4. DigestsOwn(r)
  BY <1>1, <1>3 DEF DigestsOwn, TestsInOrder
<1>5. \A j \in DOMAIN new :
        LET t == new[j] IN
        /\ t.point \in Registered(p)
        /\ t.revision = p.points[t.point].revision /\ t.digest = p.points[t.point].digest
        /\ t.m.target >= t.digest.planned
  BY DEF NewTests, Current, TestsInOrder, DigestsOwn
<1>6. TestsQuote(r)
  <2> SUFFICES ASSUME NEW i \in DOMAIN r.tests
               PROVE  LET t == r.tests[i] IN
                      /\ t.point \in Registered(p)
                      /\ t.revision <= p.points[t.point].revision
                      /\ t.revision = p.points[t.point].revision
                            => t.digest = p.points[t.point].digest
                      /\ t.m.target >= t.digest.planned
    BY <1>1, <1>3 DEF TestsQuote
  <2>1. CASE i \in DOMAIN p.tests /\ r.tests[i] = p.tests[i]
    BY <2>1 DEF TestsInOrder, TestsQuote
  <2>2. CASE \E j \in DOMAIN new : r.tests[i] = new[j]
    <3>1. r.tests[i].revision \in Nat
      BY TestParts
    <3> QED
      BY <1>5, <2>2, <3>1
  <2> QED
    BY <1>2, <2>1, <2>2
<1>7. TestsAgree(r)
  <2> SUFFICES ASSUME NEW i \in DOMAIN r.tests, NEW j \in DOMAIN r.tests,
                      r.tests[i].point = r.tests[j].point, r.tests[i].revision = r.tests[j].revision
               PROVE  r.tests[i].digest = r.tests[j].digest
    BY DEF TestsAgree
  <2> DEFINE Now(x) == \E k \in DOMAIN new : r.tests[x] = new[k]
             Old(x) == x \in DOMAIN p.tests /\ r.tests[x] = p.tests[x]
  <2>1. CASE Old(i) /\ Old(j)
    BY <2>1 DEF TestsInOrder, TestsAgree
  <2>2. ASSUME NEW x \in {i, j}, NEW y \in {i, j}, Now(x) PROVE r.tests[x].digest = r.tests[y].digest
    <3>1. /\ r.tests[x].revision = p.points[r.tests[x].point].revision
          /\ r.tests[x].digest = p.points[r.tests[x].point].digest
      BY <1>5, <2>2
    <3>2. r.tests[y].revision = p.points[r.tests[y].point].revision
            => r.tests[y].digest = p.points[r.tests[y].point].digest
      BY <1>1, <1>6 DEF TestsQuote
    <3>3. r.tests[x].point = r.tests[y].point /\ r.tests[x].revision = r.tests[y].revision
      OBVIOUS
    <3> QED
      BY <3>1, <3>2, <3>3
  <2> QED
    BY <1>2, <2>1, <2>2
<1> QED
  BY <1>4, <1>6, <1>7, NewTestsKeepLatest DEF TestsInOrder

LEMMA EffectKeepsTests ==
    ASSUME NEW p \in Plan, NEW r \in Plan, TestsInOrder(p), Effect(p, r)
    PROVE  TestsInOrder(r)
<1>1. CASE Configured(p, r)
  BY <1>1, MovedKeepsTests DEF Configured, Moved
<1>2. CASE Tested(p, r)
  BY <1>2, NewTestsInOrder DEF Tested
<1>3. ASSUME NEW t \in Pending(p), Retested(p, r, t) PROVE TestsInOrder(r)
  <2>1. PICK test \in Test : NewTests(p, r, <<test>>)
    BY <1>3 DEF Retested
  <2>2. <<test>> \in Seq(Test)
    OBVIOUS
  <2> QED
    BY <2>1, <2>2, NewTestsInOrder
<1>4. ASSUME NEW k \in IssueKeys, Remediated(p, r, k) PROVE TestsInOrder(r)
  BY <1>4, MovedKeepsTests DEF Remediated, Moved
<1> QED
  BY <1>1, <1>2, <1>3, <1>4 DEF Effect

(* Of the tasks of one issue only the last may be pending. *)
PendingIsLast(p) ==
    \A i \in Pending(p), j \in DOMAIN p.tasks : p.tasks[j].issue = p.tasks[i].issue => j <= i

ClosedTasksResolved(p) ==
    \A i \in DOMAIN p.tasks : p.tasks[i].status = "closed" =>
        \E n \in DOMAIN p.tests : Resolves(p.tests[n], p.tasks[i], i)

ClosedRisksRetested(p) ==
    \A k \in IssueKeys : p.issues[k] = "closed" /\ k.code # "TEST_MISSING" =>
        \E i \in DOMAIN p.tasks :
            /\ p.tasks[i].issue = k /\ p.tasks[i].status = "closed"
            /\ \A j \in DOMAIN p.tasks : p.tasks[j].issue = k => j <= i

RetestsInOrder(p) == PendingIsLast(p) /\ ClosedTasksResolved(p) /\ ClosedRisksRetested(p)

(* Tests stay, and a task that is not pending stays. *)
TestsGrow(p, r) ==
    /\ Len(p.tests) <= Len(r.tests)
    /\ \A i \in DOMAIN p.tests : i \in DOMAIN r.tests /\ r.tests[i] = p.tests[i]

TasksGrow(p, r) ==
    /\ Len(p.tasks) <= Len(r.tasks)
    /\ \A i \in DOMAIN p.tasks :
        /\ i \in DOMAIN r.tasks
        /\ \/ r.tasks[i] = p.tasks[i]
           \/ /\ p.tasks[i].status = "pending"
              /\ r.tasks[i] = [p.tasks[i] EXCEPT !.status = r.tasks[i].status]

LEMMA NewTestsGrow ==
    ASSUME NEW p \in Plan, NEW r \in Plan, NEW new \in Seq(Test), NewTests(p, r, new)
    PROVE  TestsGrow(p, r)
<1> DEFINE a == p.tests
<1>1. a \in Seq(Test) /\ r.tests = a \o new
  BY DEF Plan, NewTests
<1> HIDE DEF a
<1>2. /\ Len(a \o new) = Len(a) + Len(new)
      /\ \A i \in DOMAIN a : i \in DOMAIN (a \o new) /\ (a \o new)[i] = a[i]
  BY <1>1, ConcatParts
<1>3. Len(a) \in Nat /\ Len(new) \in Nat
  BY <1>1
<1> QED
  BY <1>1, <1>2, <1>3 DEF TestsGrow, a

LEMMA SameTestsGrow ==
    ASSUME NEW p \in Plan, NEW r, r.tests = p.tests
    PROVE  TestsGrow(p, r)
<1>1. Len(p.tests) \in Nat
  BY DEF Plan
<1> QED
  BY <1>1 DEF TestsGrow

LEMMA EffectGrowsTests ==
    ASSUME NEW p \in Plan, NEW r \in Plan, Effect(p, r)
    PROVE  TestsGrow(p, r)
<1>1. CASE Configured(p, r)
  BY <1>1, SameTestsGrow DEF Configured
<1>2. CASE Tested(p, r)
  BY <1>2, NewTestsGrow DEF Tested
<1>3. ASSUME NEW t \in Pending(p), Retested(p, r, t) PROVE TestsGrow(p, r)
  <2>1. PICK test \in Test : NewTests(p, r, <<test>>)
    BY <1>3 DEF Retested
  <2>2. <<test>> \in Seq(Test)
    OBVIOUS
  <2> QED
    BY <2>1, <2>2, NewTestsGrow
<1>4. ASSUME NEW k \in IssueKeys, Remediated(p, r, k) PROVE TestsGrow(p, r)
  BY <1>4, SameTestsGrow DEF Remediated
<1> QED
  BY <1>1, <1>2, <1>3, <1>4 DEF Effect

LEMMA TaskParts ==
    ASSUME NEW p \in Plan
    PROVE  /\ p.tasks \in Seq(Task) /\ Len(p.tasks) \in Nat /\ DOMAIN p.tasks = 1..Len(p.tasks)
           /\ \A i \in DOMAIN p.tasks : /\ i \in Nat /\ p.tasks[i] \in Task
                                        /\ p.tasks[i].issue \in IssueKeys
<1>1. p.tasks \in Seq(Task)
  BY DEF Plan
<1>2. \A i \in DOMAIN p.tasks : p.tasks[i] \in Task /\ i \in Nat
  BY <1>1
<1> QED
  BY <1>1, <1>2 DEF Task

(* A task that has not changed, or only its status, is resolved by what    *)
(* resolved it.                                                            *)
LEMMA StillResolved ==
    ASSUME NEW p \in Plan, NEW r \in Plan, TestsGrow(p, r), NEW i \in DOMAIN p.tasks,
           ClosedTasksResolved(p), p.tasks[i].status = "closed", r.tasks[i] = p.tasks[i]
    PROVE  \E n \in DOMAIN r.tests : Resolves(r.tests[n], r.tasks[i], i)
<1>1. PICK n \in DOMAIN p.tests : Resolves(p.tests[n], p.tasks[i], i)
  BY DEF ClosedTasksResolved
<1>2. n \in DOMAIN r.tests /\ r.tests[n] = p.tests[n]
  BY DEF TestsGrow
<1> QED
  BY <1>1, <1>2

LEMMA SameTasksKeepRetests ==
    ASSUME NEW p \in Plan, NEW r \in Plan, RetestsInOrder(p), TestsGrow(p, r),
           r.tasks = p.tasks, NoneClosed(p, r, {})
    PROVE  RetestsInOrder(r) /\ TasksGrow(p, r)
<1>1. PendingIsLast(r)
  BY DEF RetestsInOrder, PendingIsLast, Pending
<1>2. ClosedTasksResolved(r)
  BY StillResolved DEF RetestsInOrder, ClosedTasksResolved
<1>3. ClosedRisksRetested(r)
  BY DEF RetestsInOrder, ClosedRisksRetested, NoneClosed
<1>4. TasksGrow(p, r)
  BY TaskParts DEF TasksGrow
<1> QED
  BY <1>1, <1>2, <1>3, <1>4 DEF RetestsInOrder

LEMMA RetestKeepsRetests ==
    ASSUME NEW p \in Plan, NEW r \in Plan, RetestsInOrder(p), TestsGrow(p, r),
           NEW t \in Pending(p), Retested(p, r, t), NoneClosed(p, r, {p.tasks[t].issue})
    PROVE  RetestsInOrder(r) /\ TasksGrow(p, r)
<1> DEFINE k == p.tasks[t].issue
           n == Len(p.tests)
<1>1. /\ t \in DOMAIN p.tasks /\ p.tasks[t] \in Task /\ p.tasks[t].status = "pending"
      /\ k \in IssueKeys
  BY TaskParts DEF Pending
<1>2. r.tasks = [p.tasks EXCEPT ![t] = [p.tasks[t] EXCEPT !.status = "closed"]]
  BY DEF Retested
<1>3. DOMAIN r.tasks = DOMAIN p.tasks /\ Len(r.tasks) = Len(p.tasks)
  <2>1. DOMAIN r.tasks = DOMAIN p.tasks
    BY <1>2
  <2> QED
    BY <2>1, TaskParts
<1>4. /\ r.tasks[t] = [p.tasks[t] EXCEPT !.status = "closed"]
      /\ \A i \in DOMAIN p.tasks \ {t} : r.tasks[i] = p.tasks[i]
  BY <1>1, <1>2
<1>5. /\ r.tasks[t].status = "closed" /\ r.tasks[t].issue = k
      /\ r.tasks[t].point = p.tasks[t].point /\ r.tasks[t].digest = p.tasks[t].digest
      /\ r.tasks[t].minTarget = p.tasks[t].minTarget
      /\ r.tasks[t].createdAt = p.tasks[t].createdAt
  BY <1>1, <1>4 DEF Task
<1>6. Pending(r) = Pending(p) \ {t}
  BY <1>3, <1>4, <1>5 DEF Pending
<1>7. \A i \in DOMAIN p.tasks : r.tasks[i].issue = p.tasks[i].issue
  BY <1>4, <1>5
<1>8. PendingIsLast(r)
  <2>1. Pending(p) \subseteq DOMAIN p.tasks
    BY DEF Pending
  <2> QED
    BY <1>3, <1>6, <1>7, <2>1 DEF PendingIsLast, RetestsInOrder
<1>9. ClosedTasksResolved(r)
  <2>1. PICK test \in Test : Resolves(test, p.tasks[t], t) /\ NewTests(p, r, <<test>>)
    BY DEF Retested
  <2>2. n + 1 \in DOMAIN r.tests /\ r.tests[n + 1] = test
    <3> DEFINE a == p.tests
               b == <<test>>
    <3>1. a \in Seq(Test) /\ b \in Seq(Test) /\ 1 \in DOMAIN b /\ b[1] = test /\ r.tests = a \o b
      BY <2>1 DEF Plan, NewTests
    <3> HIDE DEF a, b
    <3>2. Len(a) + 1 \in DOMAIN (a \o b) /\ (a \o b)[Len(a) + 1] = b[1]
      BY <3>1, ConcatParts
    <3> QED
      BY <3>1, <3>2 DEF a
  <2>3. Resolves(test, r.tasks[t], t)
    BY <1>5, <2>1 DEF Resolves
  <2>4. \A i \in DOMAIN p.tasks \ {t} : r.tasks[i].status = "closed" =>
            \E m \in DOMAIN r.tests : Resolves(r.tests[m], r.tasks[i], i)
    BY <1>4, StillResolved DEF RetestsInOrder
  <2> QED
    BY <1>3, <2>2, <2>3, <2>4 DEF ClosedTasksResolved
<1>10. ClosedRisksRetested(r)
  <2> SUFFICES ASSUME NEW s \in IssueKeys, r.issues[s] = "closed", s.code # "TEST_MISSING"
               PROVE  \E i \in DOMAIN r.tasks :
                        /\ r.tasks[i].issue = s /\ r.tasks[i].status = "closed"
                        /\ \A j \in DOMAIN r.tasks : r.tasks[j].issue = s => j <= i
    BY DEF ClosedRisksRetested
  <2>1. CASE s = k
    <3>1. \A j \in DOMAIN p.tasks : p.tasks[j].issue = k => j <= t
      BY DEF RetestsInOrder, PendingIsLast
    <3> QED
      BY <1>1, <1>3, <1>5, <1>7, <2>1, <3>1
  <2>2. CASE s # k
    <3>1. p.issues[s] = "closed"
      BY <2>2 DEF NoneClosed
    <3>2. PICK i \in DOMAIN p.tasks :
            /\ p.tasks[i].issue = s /\ p.tasks[i].status = "closed"
            /\ \A j \in DOMAIN p.tasks : p.tasks[j].issue = s => j <= i
      BY <3>1 DEF RetestsInOrder, ClosedRisksRetested
    <3>3. i # t
      BY <2>2, <3>2
    <3> QED
      BY <1>3, <1>4, <1>7, <3>2, <3>3
  <2> QED
    BY <2>1, <2>2
<1>11. TasksGrow(p, r)
  <2>1. Len(r.tasks) >= Len(p.tasks)
    BY <1>3, TaskParts
  <2>2. r.tasks[t] = [p.tasks[t] EXCEPT !.status = r.tasks[t].status]
    BY <1>4, <1>5
  <2> QED
    BY <1>1, <1>3, <1>4, <2>1, <2>2 DEF TasksGrow
<1> QED
  BY <1>8, <1>9, <1>10, <1>11 DEF RetestsInOrder

(* What a new remediation of issue k leaves of the tasks before. *)
LEMMA ReplacedParts ==
    ASSUME NEW tasks \in Seq(Task), NEW k \in IssueKeys, NEW task \in Task
    PROVE  LET new == Append(ReplaceTasks(tasks, k), task)
               n   == Len(tasks)
           IN  /\ DOMAIN new = 1..(n + 1) /\ Len(new) = n + 1 /\ new[n + 1] = task
               /\ \A i \in 1..n :
                    /\ new[i].issue = tasks[i].issue
                    /\ \/ new[i] = tasks[i]
                       \/ /\ tasks[i].status = "pending" /\ new[i].status = "replaced"
                          /\ new[i] = [tasks[i] EXCEPT !.status = "replaced"]
                    /\ new[i].status = "pending" => tasks[i].issue # k
<1> DEFINE old == ReplaceTasks(tasks, k)
           new == Append(old, task)
           n   == Len(tasks)
<1>1. n \in Nat /\ DOMAIN tasks = 1..n /\ old \in Seq(Task) /\ DOMAIN old = 1..n
  BY ReplaceTasksType DEF ReplaceTasks
<1>2. Len(old) = n
  BY <1>1
<1>3. /\ DOMAIN new = 1..(n + 1) /\ Len(new) = n + 1 /\ new[n + 1] = task
      /\ \A i \in 1..n : new[i] = old[i]
  BY <1>1, <1>2
<1>4. ASSUME NEW i \in 1..n
      PROVE  /\ old[i].issue = tasks[i].issue
             /\ \/ old[i] = tasks[i]
                \/ /\ tasks[i].status = "pending" /\ old[i].status = "replaced"
                   /\ old[i] = [tasks[i] EXCEPT !.status = "replaced"]
             /\ old[i].status = "pending" => tasks[i].issue # k
  <2>1. tasks[i] \in Task
    BY <1>1
  <2>2. old[i] = IF tasks[i].issue = k /\ tasks[i].status = "pending"
                    THEN [tasks[i] EXCEPT !.status = "replaced"] ELSE tasks[i]
    BY <1>1 DEF ReplaceTasks
  <2> DEFINE x == [tasks[i] EXCEPT !.status = "replaced"]
  <2>3. x.issue = tasks[i].issue /\ x.status = "replaced"
    BY <2>1 DEF Task
  <2> HIDE DEF old, x
  <2>4. CASE tasks[i].issue = k /\ tasks[i].status = "pending"
    <3>1. old[i] = x
      BY <2>2, <2>4 DEF x
    <3> QED
      BY <2>3, <2>4, <3>1 DEF x
  <2>5. CASE ~ (tasks[i].issue = k /\ tasks[i].status = "pending")
    <3>1. old[i] = tasks[i]
      BY <2>2, <2>5
    <3> QED
      BY <2>5, <3>1
  <2> QED
    BY <2>4, <2>5
<1> HIDE DEF old, n
<1> QED
  BY <1>3, <1>4 DEF old, n

LEMMA RemediationKeepsRetests ==
    ASSUME NEW p \in Plan, NEW r \in Plan, RetestsInOrder(p), TestsGrow(p, r),
           NEW k \in IssueKeys, Remediated(p, r, k), NoneClosed(p, r, {})
    PROVE  RetestsInOrder(r) /\ TasksGrow(p, r)
<1> DEFINE n == Len(p.tasks)
<1>1. PICK task \in Task : /\ task.issue = k /\ task.status = "pending"
                           /\ r.tasks = Append(ReplaceTasks(p.tasks, k), task)
  BY DEF Remediated
<1>2. n \in Nat /\ DOMAIN p.tasks = 1..n
  BY TaskParts
<1>3. /\ DOMAIN r.tasks = 1..(n + 1) /\ Len(r.tasks) = n + 1 /\ r.tasks[n + 1] = task
      /\ \A i \in 1..n :
           /\ r.tasks[i].issue = p.tasks[i].issue
           /\ \/ r.tasks[i] = p.tasks[i]
              \/ /\ p.tasks[i].status = "pending" /\ r.tasks[i].status = "replaced"
                 /\ r.tasks[i] = [p.tasks[i] EXCEPT !.status = "replaced"]
           /\ r.tasks[i].status = "pending" => p.tasks[i].issue # k
  <2> DEFINE a == p.tasks
  <2>1. a \in Seq(Task)
    BY TaskParts
  <2> HIDE DEF a
  <2> DEFINE new == Append(ReplaceTasks(a, k), task)
  <2>2. /\ DOMAIN new = 1..(Len(a) + 1) /\ Len(new) = Len(a) + 1 /\ new[Len(a) + 1] = task
        /\ \A i \in 1..Len(a) :
             /\ new[i].issue = a[i].issue
             /\ \/ new[i] = a[i]
                \/ /\ a[i].status = "pending" /\ new[i].status = "replaced"
                   /\ new[i] = [a[i] EXCEPT !.status = "replaced"]
             /\ new[i].status = "pending" => a[i].issue # k
    BY <2>1, ReplacedParts
  <2>3. r.tasks = new
    BY <1>1 DEF a
  <2> HIDE DEF new
  <2> QED
    BY <2>2, <2>3 DEF a
<1>4. \A i \in 1..(n + 1) : i \in 1..n \/ i = n + 1
  BY <1>2
<1> HIDE DEF n
<1>5. PendingIsLast(r)
  <2> SUFFICES ASSUME NEW i \in Pending(r), NEW j \in DOMAIN r.tasks,
                      r.tasks[j].issue = r.tasks[i].issue
               PROVE  j <= i
    BY DEF PendingIsLast
  <2>1. i \in 1..(n + 1) /\ j \in 1..(n + 1)
    BY <1>3 DEF Pending
  <2>2. CASE i = n + 1
    BY <1>2, <2>1, <2>2
  <2>3. CASE i \in 1..n
    <3>1. i \in Pending(p) /\ p.tasks[i].issue # k
      BY <1>2, <1>3, <2>3 DEF Pending
    <3>2. j # n + 1
      BY <1>1, <1>3, <2>3, <3>1
    <3>3. j \in 1..n /\ p.tasks[j].issue = p.tasks[i].issue
      BY <1>3, <1>4, <2>1, <2>3, <3>2
    <3> QED
      BY <1>2, <3>1, <3>3 DEF RetestsInOrder, PendingIsLast
  <2> QED
    BY <1>4, <2>1, <2>2, <2>3
<1>6. \A i \in DOMAIN r.tasks : r.tasks[i].status = "closed" =>
         i \in 1..n /\ p.tasks[i].status = "closed" /\ r.tasks[i] = p.tasks[i]
  BY <1>1, <1>3, <1>4
<1>7. ClosedTasksResolved(r)
  BY <1>2, <1>6, StillResolved DEF ClosedTasksResolved, RetestsInOrder
<1>8. ClosedRisksRetested(r)
  <2> SUFFICES ASSUME NEW s \in IssueKeys, r.issues[s] = "closed", s.code # "TEST_MISSING"
               PROVE  \E i \in DOMAIN r.tasks :
                        /\ r.tasks[i].issue = s /\ r.tasks[i].status = "closed"
                        /\ \A j \in DOMAIN r.tasks : r.tasks[j].issue = s => j <= i
    BY DEF ClosedRisksRetested
  <2>1. s # k /\ p.issues[s] = "closed"
    BY DEF Remediated, NoneClosed
  <2>2. PICK i \in 1..n :
          /\ p.tasks[i].issue = s /\ p.tasks[i].status = "closed"
          /\ \A j \in DOMAIN p.tasks : p.tasks[j].issue = s => j <= i
    BY <1>2, <2>1 DEF RetestsInOrder, ClosedRisksRetested
  <2>3. i \in DOMAIN r.tasks /\ r.tasks[i] = p.tasks[i]
    <3>1. i \in 1..(n + 1) /\ p.tasks[i].status # "pending"
      BY <1>2, <2>2
    <3> QED
      BY <1>3, <2>2, <3>1
  <2>4. \A j \in DOMAIN r.tasks : r.tasks[j].issue = s => j <= i
    BY <1>1, <1>2, <1>3, <1>4, <2>1, <2>2
  <2> QED
    BY <2>2, <2>3, <2>4
<1>9. TasksGrow(p, r)
  <2>1. n <= Len(r.tasks) /\ 1..n \subseteq DOMAIN r.tasks
    BY <1>2, <1>3
  <2> QED
    BY <1>2, <1>3, <2>1 DEF TasksGrow, n
<1> QED
  BY <1>5, <1>7, <1>8, <1>9 DEF RetestsInOrder

LEMMA EffectKeepsRetests ==
    ASSUME NEW p \in Plan, NEW r \in Plan, RetestsInOrder(p), Effect(p, r)
    PROVE  RetestsInOrder(r) /\ TestsGrow(p, r) /\ TasksGrow(p, r)
BY EffectGrowsTests, SameTasksKeepRetests, RetestKeepsRetests, RemediationKeepsRetests
   DEF Effect, Configured, Tested

-----------------------------------------------------------------------------
(* The theorems about the history of a plan.                               *)

HInv == IInv /\ TestsInOrder(plan) /\ RetestsInOrder(plan)

LEMMA InitHistory == Init => TestsInOrder(plan) /\ RetestsInOrder(plan)
<1> SUFFICES ASSUME Init PROVE TestsInOrder(plan) /\ RetestsInOrder(plan)
  OBVIOUS
<1>1. PICK h \in Headers : plan = NewPlan(h)
  BY DEF Init
<1>2. /\ plan.tests = << >> /\ plan.tasks = << >> /\ plan.points = [q \in Points |-> None]
      /\ \A k \in IssueKeys : plan.issues[k] = "none"
  BY <1>1 DEF NewPlan
<1>3. DOMAIN plan.tests = {} /\ DOMAIN plan.tasks = {} /\ Registered(plan) = {}
  BY <1>2 DEF Registered
<1>4. TestsInOrder(plan)
  BY <1>3 DEF TestsInOrder, TestsQuote, TestsAgree, DigestsOwn, LatestExists, Made
<1>5. RetestsInOrder(plan)
  BY <1>2, <1>3 DEF RetestsInOrder, PendingIsLast, Pending, ClosedTasksResolved, ClosedRisksRetested
<1> QED
  BY <1>4, <1>5

LEMMA HistoryKept ==
    ASSUME HInv, [Next]_vars
    PROVE  HInv' /\ (plan' = plan \/ (TestsGrow(plan, plan') /\ TasksGrow(plan, plan')))
<1>1. IInv' /\ plan \in Plan /\ plan' \in Plan
  <2>1. TypeOK'
    BY NextType DEF HInv, IInv
  <2>2. InOrder(plan')
    BY NextOrder DEF HInv
  <2> QED
    BY <2>1, <2>2 DEF HInv, IInv, TypeOK
<1>2. CASE plan' = plan
  BY <1>1, <1>2 DEF HInv
<1>3. CASE Effect(plan, plan')
  BY <1>1, <1>3, EffectKeepsTests, EffectKeepsRetests DEF HInv
<1> QED
  BY <1>2, <1>3, NextEffect DEF HInv

LEMMA HistoryHolds == Spec => []HInv
<1>1. Init => HInv
  BY InitType, InitOrder, InitHistory DEF HInv, IInv
<1>2. HInv /\ [Next]_vars => HInv'
  BY HistoryKept
<1> QED
  BY <1>1, <1>2, PTL DEF Spec

(* A revision number names one configuration of its point, for all tests   *)
(* that quote it and for the point itself: no sequence of commands gives a *)
(* number twice, and none removes a point that tests quote.                *)
THEOREM RevisionsNameConfigs == Spec => []RevisionIdentifiesConfig
<1>1. HInv => RevisionIdentifiesConfig
  BY DEF HInv, TestsInOrder, TestsQuote, TestsAgree, RevisionIdentifiesConfig
<1> QED
  BY <1>1, HistoryHolds, PTL

(* No task is closed but by a retest that meets what it asks for.          *)
THEOREM TasksCloseByRetest == Spec => []ClosedTaskHasRetest
<1>1. HInv => ClosedTaskHasRetest
  BY DEF HInv, RetestsInOrder, ClosedTasksResolved, Resolves, ClosedTaskHasRetest
<1> QED
  BY <1>1, HistoryHolds, PTL

(* No risk but a missing test is closed other than by the retest of the    *)
(* last remediation it was given.                                          *)
THEOREM RisksCloseByRetest == Spec => []ClosedRiskWasRetested
<1>1. HInv => ClosedRiskWasRetested
  BY DEF HInv, RetestsInOrder, ClosedRisksRetested, ClosedRiskWasRetested
<1> QED
  BY <1>1, HistoryHolds, PTL

(* Tests are never changed or lost, and a remediation only leaves the      *)
(* pending state, once.                                                    *)
THEOREM HistoryIsKept == Spec => HistoryOnlyGrows
<1> DEFINE A == /\ Len(plan.tests) <= Len(plan'.tests)
                /\ \A i \in DOMAIN plan.tests : plan'.tests[i] = plan.tests[i]
                /\ Len(plan.tasks) <= Len(plan'.tasks)
                /\ \A i \in DOMAIN plan.tasks :
                     \/ plan'.tasks[i] = plan.tasks[i]
                     \/ /\ plan.tasks[i].status = "pending"
                        /\ plan'.tasks[i] = [plan.tasks[i] EXCEPT !.status = plan'.tasks[i].status]
<1>1. HInv /\ [Next]_vars => [A]_vars
  <2> SUFFICES ASSUME HInv, [Next]_vars PROVE A
    OBVIOUS
  <2>1. Len(plan.tests) \in Nat /\ Len(plan.tasks) \in Nat
    BY DEF HInv, IInv, TypeOK, Plan
  <2>2. CASE plan' = plan
    BY <2>1, <2>2
  <2>3. CASE TestsGrow(plan, plan') /\ TasksGrow(plan, plan')
    BY <2>3 DEF TestsGrow, TasksGrow
  <2> QED
    BY <2>2, <2>3, HistoryKept
<1>2. []HInv /\ [][Next]_vars => [][A]_vars
  BY <1>1, PTL
<1> QED
  BY <1>2, HistoryHolds, PTL DEF Spec, HistoryOnlyGrows

-----------------------------------------------------------------------------
(* What the rules read from the tests.                                     *)

(* The code's choice is the latest test, where there is one. *)
LEMMA LatestTestIsLatest ==
    ASSUME NEW p \in Plan, TestsInOrder(p), NEW q \in Registered(p), Evidence(p, q) # {}
    PROVE  IsLatest(p.tests, Evidence(p, q), LatestTest(p, q))
<1> DEFINE E == Evidence(p, q)
           d == p.points[q].digest
<1>1. q \in Points /\ d \in Config /\ E = Made(p.tests, q, d)
  BY PointType DEF Point, Evidence, Made
<1>2. PICK i \in DOMAIN p.tests : IsLatest(p.tests, E, i)
  BY <1>1 DEF TestsInOrder, LatestExists
<1>3. LatestTest(p, q) =
         CHOOSE x \in E : \A j \in E :
            \/ p.tests[j].at < p.tests[x].at
            \/ p.tests[j].at = p.tests[x].at /\ x <= j
  BY DEF LatestTest
<1> HIDE DEF E
<1>4. i \in E /\ \A j \in E : p.tests[j].at < p.tests[i].at \/ (p.tests[j].at = p.tests[i].at /\ i <= j)
  BY <1>2 DEF IsLatest
<1>5. \E x \in E : \A j \in E :
         \/ p.tests[j].at < p.tests[x].at
         \/ p.tests[j].at = p.tests[x].at /\ x <= j
  BY <1>4
<1> QED
  BY <1>3, <1>5 DEF IsLatest, E

(* Rules are evaluated on the content, which has the plan's own points and *)
(* tests.                                                                  *)
LEMMA FailedTestRule ==
    ASSUME NEW p \in Plan, NEW q \in Registered(p)
    PROVE  [point |-> q, code |-> "TEST_FAILED"] \in EvaluateRules(p)
              <=> Evidence(p, q) # {} /\ ~ Passes(p.tests[LatestTest(p, q)].m)
<1> DEFINE c == Content(p)
           k == [point |-> q, code |-> "TEST_FAILED"]
<1>1. c.points = p.points /\ c.tests = p.tests
  BY DEF Content
<1>2. /\ Registered(c) = Registered(p) /\ Evidence(c, q) = Evidence(p, q)
      /\ LatestTest(c, q) = LatestTest(p, q)
  BY <1>1 DEF Registered, Evidence, LatestTest
<1>3. k \in IssueKeys /\ k # PlanOverload /\ k.point = q /\ k.code = "TEST_FAILED"
  BY PointType, ConstantsAssumption DEF IssueKeys, PointRules, PlanOverload
<1>4. k \in EvaluateRules(p) <=> PointRuleHit(c, q, "TEST_FAILED")
  BY <1>2, <1>3 DEF EvaluateRules, RuleHits
<1> QED
  BY <1>1, <1>2, <1>4 DEF PointRuleHit

(* If the clock moved between any two tests, the last one recorded on the  *)
(* present configuration decides.                                          *)
THEOREM LatestEvidenceDecides == Spec => []LatestEvidenceGoverns
<1>1. HInv => LatestEvidenceGoverns
  <2> SUFFICES ASSUME HInv,
                      \A i, j \in DOMAIN plan.tests : i < j => plan.tests[i].at < plan.tests[j].at,
                      NEW q \in Registered(plan), Evidence(plan, q) # {}
               PROVE  Passes(plan.tests[Max(Evidence(plan, q))].m)
                        <=> [point |-> q, code |-> "TEST_FAILED"] \notin EvaluateRules(plan)
    BY DEF LatestEvidenceGoverns
  <2> DEFINE E == Evidence(plan, q)
             l == LatestTest(plan, q)
  <2>1. plan \in Plan /\ TestsInOrder(plan)
    BY DEF HInv, IInv, TypeOK
  <2>2. IsLatest(plan.tests, E, l)
    BY <2>1, LatestTestIsLatest
  <2>3. E \subseteq DOMAIN plan.tests /\ \A i \in E : i \in Nat /\ plan.tests[i].at \in Int
    BY <2>1, TestParts DEF Evidence
  <2>4. Max(E) = l
    <3> HIDE DEF E, l
    <3>1. /\ l \in E
          /\ \A j \in E :
               \/ plan.tests[j].at < plan.tests[l].at
               \/ plan.tests[j].at = plan.tests[l].at /\ l <= j
      BY <2>2 DEF IsLatest
    <3>2. \A j \in E : l >= j
      <4> SUFFICES ASSUME NEW j \in E, ~ (l >= j) PROVE FALSE
        OBVIOUS
      <4>1. l < j /\ l \in DOMAIN plan.tests /\ j \in DOMAIN plan.tests
        BY <2>3, <3>1
      <4>2. plan.tests[l].at < plan.tests[j].at
        BY <4>1
      <4> QED
        BY <2>3, <3>1, <4>2
    <3>3. \A x \in E : (\A y \in E : x >= y) => x = l
      BY <2>3, <3>1, <3>2
    <3> QED
      BY <3>1, <3>2, <3>3 DEF Max
  <2> QED
    BY <2>1, <2>4, FailedTestRule
<1> QED
  BY <1>1, HistoryHolds, PTL

=============================================================================

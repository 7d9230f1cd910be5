------------------------------ MODULE RigPlan ------------------------------
(***************************************************************************)
(* One rigging plan, the aggregate of internal/rigging, under every        *)
(* command of rigging.Service.                                             *)
(*                                                                         *)
(* A command of the service runs from its first to its last line under     *)
(* Service.mu: it clones the stored plan, checks its guards, changes the   *)
(* clone and hands it to Repository.Commit.  Here a command is one action  *)
(* that builds the changed plan p and ends in Commit(p).  Rejected         *)
(* requests change nothing, so a guard that fails disables the action.     *)
(* The version and idempotency checks of loadCommand and the failures of   *)
(* Commit belong to the service and its stores; a command here is one      *)
(* that carries the current version and a fresh key.                       *)
(*                                                                         *)
(* Data that no rule distinguishes is left out: names, notes, the device   *)
(* and cable of a point (two more values its digest covers, as it covers   *)
(* rated).  A digest is modelled by the value it is a digest of.           *)
(***************************************************************************)
EXTENDS Integers, Sequences, FiniteSets, FiniteSetsExt, PointRelations

CONSTANTS
    Points,        \* identifiers newID can give to a suspension point
    Labels,        \* point labels
    Headers,       \* [venue, date, ratedTotal] a plan can be created or revised with
    AddValues,     \* [rated, planned, cert] a point can be registered with
    ReviseValues,  \* [rated, planned, cert] a point can be revised to
    Patches,       \* [planned, cert] of a remediation; None leaves the value alone
    Measurements,  \* [target, measured, hold, deform, outcome] a test can report
    ClockSteps,    \* how far the wall clock may move before a command reads it
    Decisions,     \* what a reviewer can decide, "approve" or "return"
    MaxBatch,      \* rows of a batch of tests (maxTestBatchSize, 50 in the code)
    MaxVersion,    \* bound on the number of commands
    MaxTests,      \* bound on the number of recorded tests
    MaxTasks,      \* bound on the number of remediations
    None           \* the empty reference, the nil pointer

PointRules == {"POINT_OVERLOAD", "REDUNDANCY_MISSING", "CERTIFICATE_EXPIRED",
               "TEST_MISSING", "TEST_FAILED"}

PlanOverload == [point |-> None, code |-> "PLAN_OVERLOAD"]

(* The identity of an issue: deterministicID over plan, point and rule.    *)
IssueKeys == [point : Points, code : PointRules] \cup {PlanOverload}

PlanStatus  == {"draft", "testing", "remediation", "approved", "returned"}
IssueStatus == {"none", "open", "retest_pending", "closed"}
TaskStatus  == {"pending", "closed", "replaced"}

Header == [venue : {h.venue : h \in Headers}, date : Nat, ratedTotal : Nat]

Config == [rated : Nat, planned : Nat, cert : Nat,
           primary : Points \cup {None}, redundant : Points \cup {None}]

Point == [label : Labels, config : Config, digest : Config, revision : Nat]

Measurement == [target : Nat, measured : Nat, hold : Nat, deform : Nat,
                outcome : {"pass", "fail"}]

Test == [point : Points, kind : {"initial", "retest"}, m : Measurement, at : Int,
         digest : Config, revision : Nat, task : Nat]

(* A retest task stands for the remediation revision it was created with,  *)
(* too: a command creates both, and neither is ever removed.               *)
Task == [issue : IssueKeys, point : Points, digest : Config, minTarget : Nat,
         createdAt : Int, status : TaskStatus]

Manifest == [header : Header, points : [Points -> Point \cup {None}], tests : Seq(Test)]

(* A point that is not registered is None; an issue never raised is "none". *)
Plan == [header : Header, status : PlanStatus, version : Nat,
         points : [Points -> Point \cup {None}],
         tests : Seq(Test),
         issues : [IssueKeys -> IssueStatus],
         tasks : Seq(Task),
         frozen : Manifest \cup {None},
         credentials : Seq(Manifest)]

ASSUME ConstantsAssumption ==
    /\ None \notin Points
    /\ None \notin Point
    /\ None \notin Manifest
    /\ Headers \subseteq [venue : {h.venue : h \in Headers}, date : Nat, ratedTotal : Nat \ {0}]
    /\ AddValues \cup ReviseValues \subseteq [rated : Nat \ {0}, planned : Nat \ {0}, cert : Nat]
    /\ Patches \subseteq [planned : (Nat \ {0}) \cup {None}, cert : Nat \cup {None}]
    /\ Measurements \subseteq Measurement
    /\ \A m \in Measurements : m.target > 0 /\ m.measured > 0 /\ m.hold > 0
    /\ ClockSteps \subseteq Int
    /\ Decisions \subseteq {"approve", "return"}
    /\ MaxBatch \in Nat
    /\ MaxVersion \in Nat
    /\ MaxTests \in Nat
    /\ MaxTasks \in Nat

VARIABLES
    plan,     \* the stored aggregate
    now,      \* the last wall-clock reading a command recorded
    refused   \* Commit has turned down a plan that a command produced

vars == <<plan, now, refused>>

-----------------------------------------------------------------------------
(* The rules that find blocking risks (rules.go).  They look at a plan's   *)
(* content c, which is what an approval freezes.                           *)

Content(p) == [header |-> p.header, points |-> p.points, tests |-> p.tests]

Registered(p) == {q \in Points : p.points[q] # None}

PointConfigDigest(config) == config

MinimumHold == 60
MaximumDeformation == 2

(* Wrong: the hold time is not looked at. *)
PassesAnyHold(m) ==
    m.outcome = "pass" /\ m.measured >= m.target /\ m.deform <= MaximumDeformation

Passes(m) ==
    /\ m.outcome = "pass"
    /\ m.measured >= m.target
    /\ m.hold >= MinimumHold
    /\ m.deform <= MaximumDeformation

(* The tests of point q that were made on the configuration it has now.    *)
Evidence(c, q) ==
    {i \in DOMAIN c.tests : c.tests[i].point = q /\ c.tests[i].digest = c.points[q].digest}

(* Wrong: After and Before are mixed up. *)
EarliestTest(c, q) ==
    CHOOSE i \in Evidence(c, q) : \A j \in Evidence(c, q) :
        \/ c.tests[j].at > c.tests[i].at
        \/ c.tests[j].at = c.tests[i].at /\ i <= j

(* Of them the latest by the clock; the first recorded of equally late ones. *)
LatestTest(c, q) ==
    CHOOSE i \in Evidence(c, q) : \A j \in Evidence(c, q) :
        \/ c.tests[j].at < c.tests[i].at
        \/ c.tests[j].at = c.tests[i].at /\ i <= j

CertificateExpired(cert, date) == cert < date

TotalPlanned(c) ==
    MapThenSumSet(LAMBDA q : c.points[q].config.planned, Registered(c))

PointRuleHit(c, q, code) ==
    LET config == c.points[q].config IN
    \/ code = "POINT_OVERLOAD" /\ config.planned > config.rated
    \/ code = "REDUNDANCY_MISSING" /\ config.primary = None /\ config.redundant \in {None, q}
    \/ code = "CERTIFICATE_EXPIRED" /\ CertificateExpired(config.cert, c.header.date)
    \/ code = "TEST_MISSING" /\ Evidence(c, q) = {}
    \/ /\ code = "TEST_FAILED"
       /\ Evidence(c, q) # {}
       /\ ~ Passes(c.tests[LatestTest(c, q)].m)

RuleHits(c) ==
    {k \in IssueKeys :
        \/ k.point \in Registered(c) /\ PointRuleHit(c, k.point, k.code)
        \/ k = PlanOverload /\ TotalPlanned(c) > c.header.ratedTotal}

EvaluateRules(p) == RuleHits(Content(p))

(* Wrong: a closed issue whose rule is hit again stays closed. *)
NotReopenedStatus(status, key, active) ==
    CASE active /\ status = "none" -> "open"
      [] ~ active /\ status = "open" /\ key.code = "TEST_MISSING" -> "closed"
      [] OTHER -> status

(* Wrong: any issue closes once its rule is no longer hit. *)
ClosedByFixStatus(status, key, active) ==
    CASE active /\ status \in {"none", "closed"} -> "open"
      [] ~ active /\ status = "open" -> "closed"
      [] OTHER -> status

(* What becomes of an issue when the rules are evaluated again.  Only a    *)
(* TEST_MISSING issue that nobody remediated closes by itself: every       *)
(* caller passes allowClose = false.                                       *)
RefreshedStatus(status, key, active) ==
    CASE active /\ status \in {"none", "closed"} -> "open"
      [] ~ active /\ status = "open" /\ key.code = "TEST_MISSING" -> "closed"
      [] OTHER -> status

RefreshIssues(p) ==
    LET findings == EvaluateRules(p) IN
    [p EXCEPT !.issues = [k \in IssueKeys |-> RefreshedStatus(p.issues[k], k, k \in findings)]]

OpenIssues(p) == {k \in IssueKeys : p.issues[k] \in {"open", "retest_pending"}}

-----------------------------------------------------------------------------
(* Validation (validation.go).                                             *)

LabelFree(p, q, label) == \A r \in Registered(p) \ {q} : p.points[r].label # label

ReferenceValid(p, q, ref) == ref = None \/ ref \in Registered(p) \ {q}

PrimaryOf(p)   == [q \in Registered(p) |-> p.points[q].config.primary]
RedundantOf(p) == [q \in Registered(p) |-> p.points[q].config.redundant]

(* Wrong: only one of the relations is followed. *)
RedundantGraphOnly(p) == Acyclic(RedundantOf(p))

ValidPointGraph(p) == Acyclic(PrimaryOf(p)) /\ Acyclic(RedundantOf(p))

ValidTest(p, q, m) == q \in Registered(p) /\ m.target >= p.points[q].config.planned

-----------------------------------------------------------------------------
(* What the repository demands of a plan it is to store (invariants.go).   *)

FrozenDigest(p) == Content(p)

ValidProjection(p) ==
    /\ IF p.status = "approved" THEN p.frozen = FrozenDigest(p) ELSE p.frozen = None
    /\ \A q, r \in Registered(p) : q # r => p.points[q].label # p.points[r].label
    /\ \A q \in Registered(p) :
        /\ p.points[q].config.redundant \in (Registered(p) \cup {None}) \ {q}
        /\ p.points[q].config.primary \in Registered(p) \cup {None}
    /\ \A i \in DOMAIN p.tests : p.tests[i].point \in Registered(p)
    /\ \A i \in DOMAIN p.tasks : p.tasks[i].point \in Registered(p)
    /\ \A k \in IssueKeys : p.issues[k] # "none" => k.point \in Registered(p) \cup {None}
    /\ \A i \in DOMAIN p.credentials : p.credentials[i] = p.frozen

(* The end of every command: the next version is validated and stored.     *)
Commit(p) ==
    LET next == [p EXCEPT !.version = @ + 1] IN
    /\ plan.version < MaxVersion
    /\ IF ValidProjection(next)
          THEN plan' = next /\ refused' = refused
          ELSE plan' = plan /\ refused' = TRUE

Mutable(p) == p.status # "approved" /\ p.frozen = None

(* A command whose time is recorded reads the clock; of the others the     *)
(* reading is never compared with anything.                                *)
ReadClock == \E d \in ClockSteps : now' = now + d

(* Status after tests, and after a revision of the plan or of a point.     *)
Settle(p) ==
    [p EXCEPT !.status = IF OpenIssues(p) # {} THEN "remediation" ELSE "testing"]

Demote(p) ==
    [p EXCEPT !.status = IF OpenIssues(p) # {} THEN "remediation" ELSE @]

-----------------------------------------------------------------------------
(* The commands.                                                           *)

NewPlan(header) ==
    [header |-> header, status |-> "draft", version |-> 1,
     points |-> [q \in Points |-> None], tests |-> << >>,
     issues |-> [k \in IssueKeys |-> "none"], tasks |-> << >>,
     frozen |-> None, credentials |-> << >>]

(* CreatePlan has run. *)
Init ==
    /\ plan \in {NewPlan(h) : h \in Headers}
    /\ now = 0
    /\ refused = FALSE

(* The header a revision replaces must differ in something. *)
UpdatePlan(header) ==
    /\ Mutable(plan)
    /\ header # plan.header
    /\ Commit(Demote(RefreshIssues([plan EXCEPT !.header = header])))
    /\ UNCHANGED now

PointConfig(values, primary, redundant) ==
    [rated |-> values.rated, planned |-> values.planned, cert |-> values.cert,
     primary |-> primary, redundant |-> redundant]

(* A removed point leaves no trace in the plan, so its identifier is as    *)
(* good as a fresh one.                                                    *)
AddPoint(q, label, values, primary, redundant) ==
    LET config == PointConfig(values, primary, redundant)
        point  == [label |-> label, config |-> config,
                   digest |-> PointConfigDigest(config), revision |-> 1]
        p      == [plan EXCEPT !.points[q] = point]
    IN  /\ Mutable(plan)
        /\ q \notin Registered(plan)
        /\ LabelFree(plan, q, label)
        /\ ReferenceValid(plan, q, primary)
        /\ ReferenceValid(plan, q, redundant)
        /\ ValidPointGraph(p)
        /\ Commit(RefreshIssues(p))
        /\ UNCHANGED now

(* Wrong: the revision is raised to 2, never beyond. *)
RevisedOnce(point, config) ==
    [point EXCEPT !.config = config, !.digest = PointConfigDigest(config),
                  !.revision = IF @ < 2 THEN 2 ELSE @]

(* A new configuration gets a new revision and a new digest, at least 2.   *)
Revised(point, config) ==
    [point EXCEPT !.config = config, !.digest = PointConfigDigest(config),
                  !.revision = IF @ < 1 THEN 2 ELSE @ + 1]

UpdatePoint(q, label, values, primary, redundant) ==
    LET config == PointConfig(values, primary, redundant)
        point  == plan.points[q]
        p      == [plan EXCEPT !.points[q] = [Revised(point, config) EXCEPT !.label = label]]
    IN  /\ Mutable(plan)
        /\ q \in Registered(plan)
        /\ LabelFree(plan, q, label)
        /\ ReferenceValid(plan, q, primary)
        /\ ReferenceValid(plan, q, redundant)
        /\ <<label, config>> # <<point.label, point.config>>
        /\ ValidPointGraph(p)
        /\ Commit(Demote(RefreshIssues(p)))
        /\ UNCHANGED now

(* Wrong: a remediated point without tests can be removed. *)
RemovalIgnoresTasks(p, q) ==
    /\ \A r \in Registered(p) \ {q} :
        p.points[r].config.primary # q /\ p.points[r].config.redundant # q
    /\ \A i \in DOMAIN p.tests : p.tests[i].point # q

(* What keeps a point in the plan: a reference, a test, a remediation.     *)
RemovalAllowed(p, q) ==
    /\ \A r \in Registered(p) \ {q} :
        p.points[r].config.primary # q /\ p.points[r].config.redundant # q
    /\ \A i \in DOMAIN p.tests : p.tests[i].point # q
    /\ \A i \in DOMAIN p.tasks : p.tasks[i].point # q

RemovePoint(q) ==
    /\ Mutable(plan)
    /\ q \in Registered(plan)
    /\ RemovalAllowed(plan, q)
    /\ Commit(RefreshIssues(
          [plan EXCEPT !.points[q] = None,
                       !.issues = [k \in IssueKeys |-> IF k.point = q THEN "none" ELSE @[k]]]))
    /\ UNCHANGED now

NewTest(p, q, kind, m, at, task) ==
    [point |-> q, kind |-> kind, m |-> m, at |-> at,
     digest |-> p.points[q].digest, revision |-> p.points[q].revision, task |-> task]

(* An initial test; task 0 is no task. *)
RecordTest(q, m) ==
    /\ Mutable(plan)
    /\ ValidTest(plan, q, m)
    /\ Len(plan.tests) < MaxTests
    /\ ReadClock
    /\ Commit(Settle(RefreshIssues(
          [plan EXCEPT !.tests = Append(@, NewTest(plan, q, "initial", m, now', 0))])))

(* Initial tests of several points, all or none, in the order of the rows. *)
RecordTestBatch(rows) ==
    /\ Mutable(plan)
    /\ \A i, j \in DOMAIN rows : rows[i].point = rows[j].point => i = j
    /\ \A i \in DOMAIN rows : ValidTest(plan, rows[i].point, rows[i].m)
    /\ Len(plan.tests) + Len(rows) <= MaxTests
    /\ ReadClock
    /\ Commit(Settle(RefreshIssues(
          [plan EXCEPT !.tests = @ \o [i \in DOMAIN rows |->
              NewTest(plan, rows[i].point, "initial", rows[i].m, now', 0)]])))

MeetsConditions(m, task) == m.target >= task.minTarget /\ Passes(m)

(* The task and the risk it was created for are done with. *)
CloseTask(p, t) ==
    [p EXCEPT !.tasks[t].status = "closed", !.issues[p.tasks[t].issue] = "closed"]

(* Wrong: the configuration may have moved on since the remediation. *)
ResolvesAnyDigest(p, t) ==
    p.tasks[t].status = "pending" /\ p.tasks[t].point \in Registered(p)

(* resolveRetestTask finds the task that is named, or the only one that is *)
(* pending for the point.                                                  *)
ResolvesTo(p, t) ==
    /\ p.tasks[t].status = "pending"
    /\ p.tasks[t].point \in Registered(p)
    /\ p.points[p.tasks[t].point].digest = p.tasks[t].digest

(* The retest of task t. *)
RecordRetest(t, m) ==
    LET task  == plan.tasks[t]
        test  == NewTest(plan, task.point, "retest", m, now', t)
        p     == RefreshIssues([plan EXCEPT !.tests = Append(@, test)])
        close == MeetsConditions(m, task) /\ task.issue \notin EvaluateRules(p)
    IN  /\ Mutable(plan)
        /\ ResolvesTo(plan, t)
        /\ ValidTest(plan, task.point, m)
        /\ Len(plan.tests) < MaxTests
        /\ ReadClock
        /\ now' > task.createdAt
        /\ Commit(Settle(IF close THEN CloseTask(p, t) ELSE p))

(* Wrong: the load is applied although none was given. *)
PatchedUnasked(config, patch, redundant) ==
    [config EXCEPT !.planned   = patch.planned,
                   !.cert      = IF patch.cert = None THEN @ ELSE patch.cert,
                   !.redundant = IF redundant = None THEN @ ELSE redundant]

Patched(config, patch, redundant) ==
    [config EXCEPT !.planned   = IF patch.planned = None THEN @ ELSE patch.planned,
                   !.cert      = IF patch.cert = None THEN @ ELSE patch.cert,
                   !.redundant = IF redundant = None THEN @ ELSE redundant]

(* Wrong: the earlier task of the issue stays pending. *)
KeepTasks(tasks, k) == tasks

(* Wrong: closed tasks of the issue are replaced, too. *)
ReplaceAllTasks(tasks, k) ==
    [i \in DOMAIN tasks |->
        IF tasks[i].issue = k THEN [tasks[i] EXCEPT !.status = "replaced"] ELSE tasks[i]]

ReplaceTasks(tasks, k) ==
    [i \in DOMAIN tasks |->
        IF tasks[i].issue = k /\ tasks[i].status = "pending"
           THEN [tasks[i] EXCEPT !.status = "replaced"] ELSE tasks[i]]

(* The remediation of issue k on point q, which is the issue's own point   *)
(* unless the issue is the plan's.  The rules are not evaluated again.     *)
Remediate(k, q, patch, redundant) ==
    LET config == Patched(plan.points[q].config, patch, redundant)
        point  == IF PointConfigDigest(config) = plan.points[q].digest
                     THEN plan.points[q] ELSE Revised(plan.points[q], config)
        p      == [plan EXCEPT !.points[q] = point]
        task   == [issue |-> k, point |-> q, digest |-> point.digest,
                   minTarget |-> point.config.planned, createdAt |-> now', status |-> "pending"]
    IN  /\ Mutable(plan)
        /\ k \in OpenIssues(plan)
        /\ k.point \in {q, None}
        /\ q \in Registered(plan)
        /\ ReferenceValid(plan, q, redundant)
        /\ ValidPointGraph(p)
        /\ Len(plan.tasks) < MaxTasks
        /\ ReadClock
        /\ Commit([p EXCEPT !.tasks = Append(ReplaceTasks(@, k), task),
                            !.issues[k] = "retest_pending",
                            !.status = "remediation"])

(* Wrong: open issues do not stand in the way of an approval. *)
ReviewWaives(decision) ==
    LET p == RefreshIssues(plan) IN
    /\ Mutable(plan)
    /\ \/ /\ decision = "approve"
          /\ Registered(p) # {}
          /\ Commit([p EXCEPT !.status = "approved", !.frozen = FrozenDigest(p)])
       \/ /\ decision = "return"
          /\ Commit([p EXCEPT !.status = "returned"])
    /\ UNCHANGED now

(* The rules are evaluated once more; a plan is approved only if that      *)
(* leaves no risk open, and its points and tests are frozen.               *)
Review(decision) ==
    LET p == RefreshIssues(plan) IN
    /\ Mutable(plan)
    /\ \/ /\ decision = "approve"
          /\ Registered(p) # {}
          /\ OpenIssues(p) = {}
          /\ Commit([p EXCEPT !.status = "approved", !.frozen = FrozenDigest(p)])
       \/ /\ decision = "return"
          /\ Commit([p EXCEPT !.status = "returned"])
    /\ UNCHANGED now

IssueCredential ==
    /\ plan.status = "approved"
    /\ plan.frozen # None
    /\ Commit([plan EXCEPT !.credentials = Append(@, plan.frozen)])
    /\ UNCHANGED now

Batches == UNION {[1..n -> [point : Points, m : Measurements]] : n \in 1..MaxBatch}

Next ==
    \/ \E h \in Headers : UpdatePlan(h)
    \/ \E q \in Points, l \in Labels, v \in AddValues, a, b \in Points \cup {None} :
          AddPoint(q, l, v, a, b)
    \/ \E q \in Points, l \in Labels, v \in ReviseValues, a, b \in Points \cup {None} :
          UpdatePoint(q, l, v, a, b)
    \/ \E q \in Points : RemovePoint(q)
    \/ \E q \in Points, m \in Measurements : RecordTest(q, m)
    \/ \E rows \in Batches : RecordTestBatch(rows)
    \/ \E t \in DOMAIN plan.tasks, m \in Measurements : RecordRetest(t, m)
    \/ \E k \in IssueKeys, q \in Points, patch \in Patches, b \in Points \cup {None} :
          Remediate(k, q, patch, b)
    \/ \E d \in Decisions : Review(d)
    \/ IssueCredential

Spec == Init /\ [][Next]_vars

-----------------------------------------------------------------------------
(* Properties.                                                             *)

(* The stored plan always has the shape of types.go. *)
TypeOK == plan \in Plan /\ now \in Int /\ refused \in BOOLEAN

(* A plan without an open issue has no risk the rules would find: no       *)
(* command leaves a rule hit that nobody is told of while the plan looks   *)
(* ready for approval (refreshIssues, and Remediate, which skips it).      *)
NoHiddenRisk == OpenIssues(plan) = {} => EvaluateRules(plan) = {}

(* What was approved is what the plan still holds, and not one rule is hit *)
(* by it (Review evaluates the rules once more, then freezes).             *)
ApprovedIsClear ==
    plan.status = "approved" => plan.frozen = Content(plan) /\ EvaluateRules(plan) = {}

(* The repository never turns down a plan that a command made out of a     *)
(* stored one: the guards of the domain and validatePlanProjection agree.  *)
ProjectionAccepted == ~ refused

(* A revision number names one configuration of its point: a test that     *)
(* quotes a revision was made on what that revision was, however commands  *)
(* that bump it and commands that do not alternate.                        *)
RevisionIdentifiesConfig ==
    \A i \in DOMAIN plan.tests :
        LET t == plan.tests[i] IN
        /\ \A j \in DOMAIN plan.tests :
            plan.tests[j].point = t.point /\ plan.tests[j].revision = t.revision
                => plan.tests[j].digest = t.digest
        /\ plan.points[t.point].revision = t.revision
                => plan.points[t.point].digest = t.digest

(* "获得唯一复测任务": the issues that wait for a retest and the pending      *)
(* tasks are in one-to-one correspondence.                                 *)
OnePendingTaskPerRisk ==
    LET pending == {i \in DOMAIN plan.tasks : plan.tasks[i].status = "pending"} IN
    /\ \A i, j \in pending : plan.tasks[i].issue = plan.tasks[j].issue => i = j
    /\ {plan.tasks[i].issue : i \in pending}
          = {k \in IssueKeys : plan.issues[k] = "retest_pending"}

(* A closed task was closed by a retest recorded for it, on its point, on  *)
(* the very configuration the remediation left, made after the task was    *)
(* created and meeting its conditions.                                     *)
ClosedTaskHasRetest ==
    \A i \in DOMAIN plan.tasks : plan.tasks[i].status = "closed" =>
        \E n \in DOMAIN plan.tests :
            LET t == plan.tests[n] IN
            /\ t.task = i /\ t.kind = "retest"
            /\ t.point = plan.tasks[i].point /\ t.digest = plan.tasks[i].digest
            /\ t.at > plan.tasks[i].createdAt
            /\ t.m.target >= plan.tasks[i].minTarget /\ Passes(t.m)

(* An issue other than a missing test is only closed by way of a           *)
(* remediation whose retest closed its task, and that was the last one:    *)
(* a fix of the configuration alone never closes it.                       *)
ClosedRiskWasRetested ==
    \A k \in IssueKeys : plan.issues[k] = "closed" /\ k.code # "TEST_MISSING" =>
        \E i \in DOMAIN plan.tasks :
            /\ plan.tasks[i].issue = k /\ plan.tasks[i].status = "closed"
            /\ \A j \in DOMAIN plan.tasks : plan.tasks[j].issue = k => j <= i

(* In an approved plan somebody backs somebody up: some point with no      *)
(* primary has another registered point for its redundancy.  The points    *)
(* that are exempt from the redundancy rule because they name a primary    *)
(* cannot all lean on each other.                                          *)
IndependentRedundancy ==
    plan.status = "approved" =>
        \E q \in Registered(plan) :
            /\ plan.points[q].config.primary = None
            /\ plan.points[q].config.redundant \in Registered(plan) \ {q}

(* As long as the clock has moved forward between any two tests, what the  *)
(* rules judge a point by is the test that was recorded last on its        *)
(* configuration (latestTest), whatever was tested before on this          *)
(* configuration or on others.                                             *)
LatestEvidenceGoverns ==
    LET t == plan.tests IN
    (\A i, j \in DOMAIN t : i < j => t[i].at < t[j].at) =>
        \A q \in Registered(plan) : Evidence(plan, q) # {} =>
            (Passes(t[Max(Evidence(plan, q))].m)
                <=> [point |-> q, code |-> "TEST_FAILED"] \notin EvaluateRules(plan))

(* Tests are only ever appended, and a remediation only ever leaves the    *)
(* pending state: what it was bound to, and how it ended, is final.        *)
HistoryOnlyGrows ==
    [][/\ Len(plan.tests) <= Len(plan'.tests)
       /\ \A i \in DOMAIN plan.tests : plan'.tests[i] = plan.tests[i]
       /\ Len(plan.tasks) <= Len(plan'.tasks)
       /\ \A i \in DOMAIN plan.tasks :
            \/ plan'.tasks[i] = plan.tasks[i]
            \/ /\ plan.tasks[i].status = "pending"
               /\ plan'.tasks[i] = [plan.tasks[i] EXCEPT !.status = plan'.tasks[i].status]
      ]_vars

(* The workflow of issues, tasks and reviews keeps the promise that        *)
(* Clearance states: only safe content is approved, it stays as it was     *)
(* approved, and credentials vouch for it.                                 *)
Promise == INSTANCE Clearance
    WITH content <- Content(plan), frozen <- plan.frozen, credentials <- plan.credentials

KeepsPromise == Promise!Spec

=============================================================================

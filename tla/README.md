# Verification of stage-rig-clearance

TLA+ specifications of the clearance server, TLC runs that check them on small
instances, and TLAPS proofs of what matters most for instances of any size.
Source paths are relative to the repository (`src/...`); `rigging`, `store` and
`audit` are the packages under `src/internal/`.

## 1. The system

| Part | State it keeps | Operations |
|---|---|---|
| Plan aggregate (`rigging`) | one `RigPlan`: header, points, tests, issues, retest tasks, freeze, credentials | CreatePlan, UpdatePlan, AddPoint, UpdatePoint, RemovePoint, RecordTest (initial, retest), RecordTestBatch, Remediate, Review, IssueCredential |
| Command service (`rigging.Service`) | a mutex | looks up the key, checks the version, runs the command on a clone, commits, audits, answers |
| Event store (`store`) | `events.log`, `projection.json`; in memory sequence, plans, keys | Open (recover), Commit, Close; Get, List, FindCredential, LookupCommand read |
| Projection invariants (`store/invariants.go`) | none | validatePlanProjection, on every commit and at start |
| Audit store (`audit`) | `audit.chain`, `credentials.log`; records and credentials in memory | Open, Append, Issue, Close; Timeline and VerifyCredential read |
| HTTP API (`httpapi`) | none | translates requests and errors |
| Workbench (`httpapi/web`) | the browser's page | renders, sends forms |
| Server process (`cmd/server`) | the opened stores | start, graceful shutdown (5 s), self check |

Handlers run concurrently. A command holds `Service.mu` from its first to its
last line, so commands are serial; reads, the timeline and the verification of a
credential do not take it and only hold a store's own mutex while they copy.
Each store is a log that is appended to and fsynced, and memory that is advanced
afterwards; a start replays the logs and refuses to run on a damaged one.

What is hard about it, and what has to hold:

* **Aggregate.** Findings are derived, issues are remembered, and retest tasks
  are bound to issues, points and configuration digests. Long sequences of legal
  commands must not hide a risk, close one without a retest, leave an issue with
  no task or two, or approve what is not safe to fly. The redundancy rule exempts
  points that name a primary. The latest test is chosen by wall-clock time.
* **Domain and store.** Guards written in one package must imply the checks
  written in another, or a plan can no longer be changed or the server no longer
  started.
* **Event store.** A commit has five steps at which the process can die, the
  power can fail, or the call can return an error. Nothing confirmed may be lost,
  no key may be written twice, and no start may refuse an undamaged log.
* **Audit store.** Two files, each frame in two writes and a sync, a credential
  and its seal in one call: a seal must never outlive its credential, and the
  chain in memory must stay linked whatever could not be stored.
* **Service and audit.** The two stores are written one after the other, and the
  credential before the plan: partial failures, retries, requests that outlive
  their client, a shutdown under running handlers, and readers in between. A
  command must happen once and its answer be true; the chain of records and the
  log of events must not contradict each other; everybody is to be answered.

## 2. Modules

| Module | What it is |
|---|---|
| `Clearance` | what the clearance of a plan promises: free work, an approval of safe content only, a freeze, credentials for it. "Safe" is defined on points and tests alone |
| `RigPlan` | the plan aggregate under every command, with the store's projection checks; its properties |
| `PointRelations` | what it means for the references between points to be acyclic |
| `PointGraph` | the walk with which `validatePointGraph` finds that out |
| `MCRigPlan` | the inputs of the three runs of `RigPlan` |
| `RigPlanProofs` | theorems about `RigPlan`: types, risks and tasks, approval |
| `RigPlanHistoryProofs` | theorems about what a plan remembers: tests, revisions, closed tasks and risks |
| `RigPlanPromiseProofs` | theorems about what a plan is worth: the store's checks, redundancy, the refinement of `Clearance` |
| `PointGraphProofs` | theorems about `PointGraph` |
| `Payloads` | which payloads have the same digest before and after their way through a log |
| `Journal` | what the event store promises: an append-only journal with one entry per key, consecutive versions, and no confirmed entry lost |
| `EventStore` | the event store with files, memory, the steps of Commit, restarts and failures; its properties |
| `AuditTrail` | what the audit store promises: a trail of records, credentials each sealed by one record at most, and no returned record or sealed credential lost |
| `AuditStore` | the audit store, its two files, memory, writes, restarts and failures; its properties |
| `MCEventStore`, `MCAuditStore` | symmetry for the runs of the stores |
| `EventStoreProofs` | theorems about `EventStore` whatever fails |
| `EventStoreRecoveryProofs` | theorems about `EventStore` as long as fsyncs of the log succeed: restarts, keys, and the refinement of `Journal` |
| `AuditStoreProofs` | theorems about `AuditStore`, whatever fails and as long as fsyncs succeed: seals, restarts, and the refinement of `AuditTrail` |
| `CommandBook` | what the service promises its clients: a command takes effect at most once and on the version that was read, and what a client is told is true for good |
| `ClearanceService` | clients, handlers under the mutex, a verification beside them, both stores seen from outside, the server process; its properties |
| `MCClearanceService` | the requests of the two runs of `ClearanceService` |
| `ClearanceServiceProofs` | theorems about `ClearanceService`, among them that it implements `CommandBook` |

`RigPlan` refines `Clearance`, `EventStore` refines `Journal`, `AuditStore`
refines `AuditTrail` and `ClearanceService` refines `CommandBook`, by
`INSTANCE ... WITH` and a temporal property that the runs `approval`
and `redundancy`, `store_crash`, `audit_crash` and `issuing` check.
`ClearanceService` composes the components: of a plan it keeps the version and
whether it is approved, and its calls of the stores are the ones whose behaviour
`EventStore` and `AuditStore` establish.

Operators introduced by a comment that begins with "Wrong:" are not part of the
specifications. Each is a definition as a plausible bug would have it; put in the
place of the right one, TLC finds a property violated. They show that the
properties can fail. `PROJECT.json` lists them.

### RigPlan and the code

One action is one command, from `loadCommand` to `Service.commit`, for a request
that carries the current version and a fresh key; a rejected request changes
nothing and is no step. The action builds the changed clone `p` and ends in
`Commit(p)`, which raises the version and evaluates `ValidProjection`; a plan the
store turns down sets `refused`.

* `plan.points` is a function of identifiers, `None` where none is registered.
  A point has its label, its `config` (rated, planned, cert, primary, redundant),
  the digest and the revision. Device and cable are two more values under the
  digest and are left out, as are names and notes.
* A digest is the value it is a digest of: two digests are equal iff the values
  are. This assumes that SHA-256 does not collide.
* `plan.tests` and `plan.tasks` are sequences in the order of recording. A task
  stands for its `RemediationRevision`, too: `Remediate` creates both.
* `plan.issues` is a function of issue identities (`deterministicID` over point
  and rule); "none" is an issue that was never raised or went with its point.
* `currentConfiguration` of a test is derived from the digests at each commit and
  is not kept.
* `now` is the last reading of the clock a command recorded. `Time.UTC` drops the
  monotonic reading, so the clock is a wall clock: `ClockSteps` may hold 0 and
  negative steps.
* Loads are small integers, compared and added as the code does with floats; the
  rounding of sums of floats is not modelled.
* `hasPassingRetest` and `allowClose` are dead: every caller passes `false`.
* A batch is a sequence of rows with different points.
* Of `RecordTestRequest.PointConfigDigest` only the accepted case is kept: a
  caller who sends another digest is rejected.

### EventStore and the code

`log` is the sequence of frames a process reads, `Torn` a frame of which only the
beginning is there. `Begin` is Commit up to the encoded frame; `WriteFrame`,
`SyncLog`, `RenameSnapshot` and `SyncDirectory` follow, each with its failure
(`WriteFails`, `SyncFails`, `SnapshotFails`). The memory advances with the fsync,
as no one can see it in between. `Open` is `recover`: `ValidFrame` has the checks
of `decodeFrames` and of the visitor, `Replay` is what the frames amount to. The
snapshot is never read back into memory, only its sequence number is compared.

`RoundTrips` says whether a frame decodes to what its checksum was taken over, by
`KeepsDigest` of `Payloads`. It does unless the payload, a `map[string]any`, holds
a Go struct: a struct is encoded in the order of its fields, the map it decodes to
in the order of its keys. `RetestConditions` in the payload of `issue.remediated`
is the one case, and the audit record of the command has the same payload.

The file system is outside the code. Assumed: what was written is read back by
the next process; after a power cut the log is a prefix that covers at least the
last successful fsync, perhaps with a torn frame; a rename is atomic and durable
once its directory is synced. `AuditStore` assumes the same of its two files,
each of which loses what was not synced independently of the other.

### PointGraph and the code

`Begin` is the two outer loops, `Follow`, `End` and `Report` one turn of the inner
one. The points are visited in any order: theirs in the plan says nothing. The
code's branch for a reference to an unknown point is dead, since the callers have
checked the references before; `End` would cover it.

### AuditStore and the code

`file` and `memory` have the chain and the credentials. `BeginAppend` and
`BeginIssue` are the calls up to the first write, `WriteHeader`, `WriteBody` and
`Sync` the three steps of a frame. After the sync of a credential the write of its
seal follows (`AfterSync`), under the same hold of the mutex. Each step may fail
(`WriteFails`, `SyncFails`), and a kill or a power cut may fall anywhere. The
digest of a record stands for the record and all before it. `ChainLoads` is
`loadAudit` with `verifyRecords`, `CredentialsLoad` is `loadCredentials`.

### ClearanceService and the code

* A client has one command (`Request`). `Submit` is a first request, with the
  version that the client read; `Retry` is the same request again, also while an
  earlier one waits, as the handlers do not look at the request's context.
* `Lock` is a handler that gets `Service.mu`, with `loadCommand` and the command's
  look at the plan: `Decision` is their outcome, in the order of the code. The
  mutex is held until `Return`, in `Issue` and `Commit` of the stores, too.
* Then a handler does one step at a time: the credential, its seal, the frame of
  the event, the memory of the repository, the audit record. Every call may fail,
  and a commit may fail with the event in place (`SnapshotFails`).
* `FindCredential`, `VerifyCredential`, `VerifySeal` are the three reads of
  `VerifyCredentialGlobally`, between which anything may happen.
* `Shutdown`, `CloseRepository`, `CloseAudit` and `Exit` are the end of `run`: the
  stores are closed in this order, after five seconds even under a handler that
  still runs. `Kill` is the process ended at any point. `Start` reads the stores.
* An answer is a success, a rejection (4xx), or an error (5xx). Clients take the
  first two for final.
* What `CreatePlan` adds, a new identifier, is a command like any other here.

## 3. Runs

| Run | Instance | Checks |
|---|---|---|
| `approval` | 2 points, good and weak tests, batches of 2, 3 tests, 1 task, 8 versions | `TypeOK`, `KeepsPromise` |
| `redundancy` | 2 points with any references, revised and removed, 3 tests, 1 task, 9 versions | `NoHiddenRisk`, `ApprovedIsClear`, `IndependentRedundancy`, `ProjectionAccepted`, `KeepsPromise` |
| `closure` | 1 point, two headers, light and overloaded configurations, all patches, clock steps 0 and 1, 3 tests, 2 tasks, 6 versions | `RevisionIdentifiesConfig`, `OnePendingTaskPerRisk`, `ClosedTaskHasRetest`, `ClosedRiskWasRetested`, `LatestEvidenceGoverns`, `HistoryOnlyGrows` |
| `store_crash` | 2 plans, 3 keys, 4 frames; kills, power cuts, failing snapshots | `TypeOK`, `RefusesOnlyDamaged`, `MemoryIsReplay`, `KeyOnce`, `KeepsJournal` |
| `store_faults` | the same, with failing writes and fsyncs of the log | `SnapshotNotAhead`, `AckedOnDisk` |
| `store_remediated` | no fault, remediations | `RefusesOnlyDamaged`, **violated** |
| `store_failed_sync` | a failing fsync | `KeyOnce`, **violated** |
| `walks` | up to 3 points with any references to others | `TypeOK`, `ReportsExactly`, `VerdictRight`, `EveryWalkEnds` |
| `audit_crash` | 2 plans, 3 frames in each file; kills, power cuts | `TypeOK`, `RefusesOnlyDamaged`, `MemoryIsFile`, `KeepsTrail` |
| `audit_faults` | the same, with failing writes and fsyncs | `MemoryLinked`, `SealHasCredential`, `ReturnedOnDisk` |
| `issuing` | 3 clients: an approval, and two credentials that wait for it under one key; two failures of any kind, kills and shutdowns included | `TypeOK`, `StillCurrent`, `CredentialsVouched`, `NoFalseAlarm`, `AuditFollowsLog`, `GapsAreFaults`, `KeepsBook` |
| `answered` | 2 clients: an approval, a credential; two failures, fairness | `EveryoneAnswered` |

What the properties say is written above each definition. In short:

* `KeepsPromise` (`approval` reaches it by remediations and good and weak tests,
  `redundancy` by revisions that go back and forth under old tests): only content
  that is `Safe` is approved, it never changes afterwards, and every credential
  vouches for it. `Safe` asks for loads, certificates, another registered point as
  primary or redundancy, and a proven test on the present configuration that no
  later failed test contradicts.
* `NoHiddenRisk`: no open issue means no rule is hit, although `Remediate` does
  not evaluate the rules.
* `IndependentRedundancy`: an approved plan has a point without a primary that is
  backed by another. It holds because both reference graphs are acyclic.
* `ProjectionAccepted`: the guards of the domain imply the checks of the store.
* `RefusesOnlyDamaged`, `MemoryIsReplay`, `KeepsJournal`: a store that is stopped
  anywhere restarts to what it had, and loses nothing it confirmed.
* `KeepsTrail`: so does the audit store, whose two files, read together after a stop
  anywhere, have a seal for each credential at most once, behind it, for its plan.
* `SealHasCredential`: the order of the two files holds in every state a power cut
  can leave, although nothing ties them together but the sync in between.
* `KeepsBook`: the service is the abstract book. That the key is looked up before
  the version is compared, and the receipt against the whole request, is what it
  rests on, and that both happen under the mutex.
* `GapsAreFaults`: an event without audit record is the price of a failure, one
  per failure. The code accepts it: a retry is answered from the receipt and does
  not append the record. `AuditFollowsLog` says that nothing else goes wrong.
* `EveryoneAnswered`: each client that sent a command learns what became of it.

Bounds. The closing and reopening of an issue takes a raise, a remediation, a
retest and a revision; six commands on one point show it, with two tasks for a
replacement and three tests for a failed and a passed retest and a test before
or after them. Approval of two points takes two registrations, a revision of the
first (which cannot name the second before it exists), tests for both, a
remediation with its retest, and the review: eight versions; a ninth lets a
point be revised and revised back in between, and be approved on the test from
before. With two points every reference is to the other one; three points, the
least for a cycle longer than two, are in `walks`. Three keys and four frames
allow a commit after a crash after a commit, with a frame left over from a
failed one. Three frames in each audit file are two credentials with their seals
and a record before, between or after them, or a second attempt at what a stop
has taken back. The runs of the stores have no remediation but in
`store_remediated`: its payload and its audit record do not keep their digest.
Failing writes of an audit file are in `audit_faults`; that a start after them
refuses the torn frame only is proved, not run. Symmetry is used where points,
labels, plans and keys are interchangeable and only invariants, or a refinement
that treats them alike, are checked.

For the service, three clients are the least for two that compete and one whose
command comes between; two failures allow a failure during the recovery from
another, for instance a kill while a client retries what a failed snapshot left.
A request of each client may wait for the mutex while an earlier one of its runs
(`MaxHandlers`), so that the late one can overtake or follow the retry. The
theorems of `ClearanceServiceProofs` need none of these bounds.

Deadlock checking is off: an approved plan whose versions are used up, a log at
its bound, a refused start, a walk at its end, and clients that were all answered
really stop.

## 4. What the two violations show

1. `store_remediated`. After `Remediate` the server can never be started again:
   `issue.remediated` carries the struct `task.Conditions` in its payload
   (`rigging/remediation_commands.go:98`), so that the checksum does not match
   what the frame decodes to (`store/frame.go:85-91`). The audit record of the
   command has the same payload and the same fate (`audit/store.go:177`). The
   shipped self check remediates, but never restarts on its data.
2. `store_failed_sync`. After a failed fsync (`store/repository.go:148`) the frame
   is in the log and the memory does not know it. The retry the README invites
   appends the same key again, under the same sequence number, and the next start
   refuses the log.
   The credentials' log has the same flaw: a credential whose fsync failed
   (`audit/store.go:123`) stays in the file, the next one takes its number, and
   the next start refuses the log (`audit/store.go:226`). `audit_faults` goes
   through it: what had been returned is still on disk, and no seal is without
   its credential.

## 5. Fairness

`EveryoneAnswered` is checked under `FairSpec` of `ClearanceService`:

* strong fairness of `Lock(c)`: handlers queue for a `sync.Mutex`, whose
  starvation mode hands it to a waiter that has waited for a millisecond;
* weak fairness of `Work(c)`: a handler with the mutex waits for nobody but the
  stores' own locks, which are held for the length of one call;
* weak fairness of `CloseRepository`, `CloseAudit`, `Exit`: `Shutdown` returns
  after five seconds at the latest, and `run` then closes the stores and returns.

Not the code's, but needed for anybody to be answered: clients go on trying
(weak fairness of `Retry`), not every answer is lost (strong fairness of
`Deliver`), and somebody starts the server again (weak fairness of `Start`).
Failures have no fairness, and `MaxFaults` makes them finitely many.

`EveryWalkEnds` needs weak fairness of a loop in one goroutine.

## 6. Proofs

`tlapm` checks the modules whose names end in `Proofs`. The theorems hold for all
values of the constants that satisfy `ConstantsAssumption` of their module.

**RigPlan.** `TypeCorrect` is `Spec => []TypeOK`, by one lemma per command.
`RisksAreShown`, `TasksMatchRisks` and `ApprovalIsSound` rest on the inductive
invariant `IInv`: the types and `InOrder(plan)`. `NoHiddenRisk` alone is not
inductive: a retest closes an issue and its task, and nothing in `NoHiddenRisk`
says that no other open issue depends on that task. `InOrder` adds how tasks and
issues correspond (`TasksInOrder`), that a plan is shown to have its risks
(`RisksShown`) and that an approved plan has none open (`ClearIfApproved`). The
central lemma, `ShownInOrder`, says that whatever ends in `RefreshIssues` is in
order; `Remediate`, which does not, is in order because it leaves the issue it
worked on open. That the frozen content is the plan's (`ApprovedFrozen`) needs
neither: the store accepts no other approved plan (`CommitFrozen`).

`RigPlanHistoryProofs` first says in one formula what any command does to points,
tests and tasks (`Effect`: it configures one point, records tests of points as they
are, closes a pending task by its retest, or replaces a task by a new one), with a
lemma per command. All else is about `Effect` alone. `TestsInOrder` is that each
test quotes a revision that its point has had, of which the number is never given
again, and that of the tests on one configuration there is a latest;
`RetestsInOrder` that a pending task is the last of its issue and closed ones have
their retest. Without the former `RevisionIdentifiesConfig` is not inductive: a
revision that nobody has now could come back.

`RigPlanPromiseProofs` adds `Sound(plan)`: what points, tests, tasks and issues
name is registered, the primaries are acyclic, and the plan is open in every
respect or approved in every respect. Each command leads from a sound plan to a
sound plan, so that `ValidProjection` never fails (`CommandsFitProjection`); and
what it does to the promise is one of the three cases of `Advances`, each a step
of `Clearance` or none. That an approval is one of *safe* content (`NoRiskIsSafe`)
needs all of the invariant: no rule is hit, the latest test is one that passed, it
quotes the present configuration and its load, and a point that names a primary
does not name itself. `PlanKeepsPromise` is the refinement.

**EventStore.** `TypeCorrect`, `SnapshotBehindLog` and `AckedIsDurable` follow
from one `IInv`, whose part `StepInOrder` has the order of Commit: the frame in
the log before the fsync, the fsync before the memory, the memory before the
number of the snapshot, all before the answer. They hold for any `Faults`.

`EventStoreRecoveryProofs` is about restarts, and each theorem assumes of the
environment what it needs and no more:

* `StartsAgain` assumes `SyncsHold`: fsyncs of the log succeed, and each payload
  keeps its digest on its way through the log. Writes may fail, kills and power
  cuts fall anywhere. A store that goes on behind a failed write no longer knows
  its log, so the invariant `Legible` only speaks of what is before the first torn
  frame: the log is `Whole`, each frame valid after those before it, and then the
  memory is its replay, but for a frame not yet synced; or it is `Broken`, valid up
  to a torn frame. A start refuses the latter only.
* `KeysAreFresh` needs that fsyncs succeed, nothing else. `KeysKnown` is that a
  running store remembers the key of every frame in its log, also behind a torn one,
  but for the frame that is being synced.
* `RestartReadsSame` and `StoreKeepsJournal` assume `Reliable`, that writes succeed,
  too. `Recoverable` says that a running store's memory is the replay of its log but
  for the frame not yet synced, and that a store which is down has left a log that
  is whole or `Cut`, whole but for its last frame. For the refinement the journal is
  what a start would read: writing a frame is the entry, the answer its
  confirmation, and a power cut loses the entries from some place on, which no
  confirmed one is behind.

`store_failed_sync` and `store_remediated` show that the first two need what they
assume. Without successful writes the last two are false: what is confirmed behind
a torn frame is on disk (`AckedIsDurable`), but no start reads it.

**PointGraph.** `WalkDecidesAcyclic` is what entitles `RigPlan` to `Acyclic`. The
invariant `OnTheWay` says of a walk that whatever closed set of points has its
start also has its present point, and that no reference of a point it has seen
leads elsewhere than to such a point or to where it is. So a walk that ends started
in no closed set, and one that meets a point again has seen one.

**AuditStore.** `MemoryLinked` and `ReturnedOnDisk` need to know how far a write
has come (`WriteInOrder`): the frame that is being written continues the memory,
not the file. `SealHasCredential` also needs it: a seal is only written when its
credential is covered by a sync, which a power cut cannot take back. These and
the types hold for any `Faults`.

`StartsAgain` assumes `SyncsHold`, as for the event store. Its invariant `Readable`
says that each file is `Orderly`, every frame continuing those before it up to the
first torn one, and that a running store knows a file that has none. That the two
files are checked each by itself at the start is why one invariant serves both.
`RestartReadsSame` assumes that writes succeed, too: then a file of a running store
has no torn frame but the one being written (`Untorn`).

`StoreKeepsTrail`, under the same assumption, is the refinement of `AuditTrail`. The
trail is what a reader would get of the two files up to a torn frame. The body of a
frame adds to it, the sync of a record returns it, and a power cut takes the ends of
both files, independently. That it never takes a credential of which the seal is
left is `SealHasCredential`; that it takes no returned record is `ReturnedOnDisk`.
That a seal is the first of its credential (`OnTrail`, `FirstSeal`) rests on the
sync in between, too: every earlier seal has its credential in the synced part of
the log, and the new credential lies behind that.

**ClearanceService.** All of its safety properties are proved, for any clients and
requests, any number of failures and of waiting handlers, along these invariants:

* `Base`: the types, and that one handler at most has the mutex. `StillCurrent`
  follows (`DecisionsStayCurrent`), as no step of another client changes what the
  repository's memory says while a handler has the mutex.
* `Ledger`: no client has read a version the log has not reached; a handler that
  is to commit may, and one that is committing has the last event; who was or is
  being told of success finds its command in the log, and who is told of a
  rejection can no longer get there. With it, every step is one of `CommandBook`
  or none (`ServiceKeepsBook`).
* `Vouching`: the credential of the handler at work was issued for its plan, is
  the last one, and is sealed from the seal on; a verification has read a
  credential that the log vouches for.
* `Following`: the event that is being committed is the last one and has no
  record, so that its record can only come last.
* `Balance`, for `GapsAreCounted`: the events without a record are at most the
  failures and the event in commit, less one while a shutdown has not yet cost
  what it may cost. `GapsAreFaults` alone is not inductive: nothing in it says
  that a shutdown under a handler takes one record, and not one per store.

What the four refinements come to is stated about the code's own state, as an
invariant of the abstract specification that the refinement carries over:
`CredentialsVouchForSafePlan` (every credential names what the plan is, and that is
safe), `LogIsOneJournal` (a start reads every confirmed command, each key once, and
versions without a gap), `FilesAreOneTrail` (each seal has its credential, each
credential one seal at most) and `LogIsOneBook` (each command happened once, on the
version its client had read, and what clients were told stays true). None of the
four speaks of issues, tasks, steps of a write or handlers.

All safety properties of the runs and all four refinements are proved. Only
model-checked is liveness (`EveryoneAnswered`, `EveryWalkEnds`), as TLAPS proves
nothing under fairness or about ENABLED. What is defined by recursion over data,
such as the sum of the loads, has no proved value either: the proofs only use that
the rules and `Clearance` take the same one.

## 7. Not modelled

* In `ClearanceService`: power cuts, and failures that leave a damaged or longer
  file behind. `EventStore` and `AuditStore` have them; what they do to the other
  store is not examined. A kill between the two writes of an audit frame makes the
  next start refuse (`RefusesOnlyDamaged`), which `ClearanceService`, whose server
  can always be started again, leaves out.
* A rejection that depends on the clock: a retest is turned down when the clock
  has not moved since its remediation (`rigging/test_commands.go:44`), and a
  duplicate of the request may be accepted a moment later.
* `httpapi` beyond the classes of its answers, the workbench, flags and the self
  check: they keep no state that a property here is about. The workbench takes a
  new key for each submission and does not retry by itself.
* Text, formats, the sizes of requests and frames (16 MiB, 4 MiB) and the 64-bit
  counters, which no run of the program exhausts.
* That `newID` repeats an identifier (80 random bits).

## 8. Plan

Done: `RigPlan`, `Clearance`, `PointGraph`, `EventStore`, `Journal`, `AuditStore`,
`AuditTrail`, `ClearanceService`, `CommandBook`, their runs and the theorems above.
Left:

1. Power cuts in `ClearanceService`: what the loss of an unsynced end of one store
   does to what the other says.
2. A clock in `ClearanceService`, for rejections that turn with time.

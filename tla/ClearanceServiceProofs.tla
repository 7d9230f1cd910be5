----------------------- MODULE ClearanceServiceProofs -----------------------
(***************************************************************************)
(* Theorems about ClearanceService, for any number of clients, commands,   *)
(* retries and faults: the types, what the mutex is for, what the stores   *)
(* say of each other, and that each command is one of CommandBook.         *)
(***************************************************************************)
EXTENDS ClearanceService, FiniteSetTheorems, TLAPS

(* Service.mu has one holder, in a running process; who has a handler has  *)
(* read its plan.                                                          *)
Mutex ==
    /\ \A c, d \in Clients : job[c] # None /\ job[d] # None => c = d
    /\ phase = "down" => \A c \in Clients : job[c] = None /\ handlers[c] = 0
    /\ \A c \in Clients : expected[c] = None => job[c] = None /\ handlers[c] = 0

Base == TypeOK /\ Mutex

-----------------------------------------------------------------------------
(* The types and the mutex. *)

LEMMA StageAfter ==
    /\ After("issue") = "seal" /\ After("seal") = "write"
    /\ After("write") = "apply" /\ After("apply") = "append"
BY DEF After

(* Who has the mutex is alone with it. *)
LEMMA Holder ==
    ASSUME Base, NEW c \in Clients, job[c] # None
    PROVE  /\ job[c] \in Job /\ job[c].stage \in Stages /\ job[c].credential \in Nat
           /\ phase # "down" /\ expected[c] # None
           /\ \A d \in Clients \ {c} : job[d] = None
BY DEF Base, TypeOK, Mutex, Job

LEMMA VersionType ==
    ASSUME TypeOK, NEW p
    PROVE  Version(p) \in Nat \ {0}
<1>1. applied \in Nat
  BY DEF TypeOK
<1>2. IsFiniteSet(1..applied) /\ {i \in 1..applied : PlanAt(i) = p} \subseteq 1..applied
  BY <1>1, FS_Interval
<1>3. Cardinality({i \in 1..applied : PlanAt(i) = p}) \in Nat
  BY <1>2, FS_Subset, FS_CardinalityType
<1> QED
  BY <1>3 DEF Version

LEMMA SubmitBase == ASSUME Base, NEW c \in Clients, Submit(c) PROVE Base'
<1>1. expected'[c] \in Nat /\ expected'[c] # None
  BY VersionType, ConstantsAssumption DEF Base, TypeOK, Submit
<1>2. handlers'[c] = 1 /\ 1 \in 0..MaxHandlers
  BY ConstantsAssumption DEF Base, TypeOK, Mutex, Submit
<1>3. UNCHANGED <<told, answers, phase, job, reader, log, applied, creds, chain, faults>>
  BY DEF Submit, stores
<1>4. \A d \in Clients : /\ expected'[d] = IF d = c THEN expected'[c] ELSE expected[d]
                         /\ handlers'[d] = IF d = c THEN 1 ELSE handlers[d]
  BY <1>2 DEF Base, TypeOK, Submit
<1>5. TypeOK'
  <2>1. expected' \in [Clients -> Nat \cup {None}] /\ handlers' \in [Clients -> 0..MaxHandlers]
    BY <1>1, <1>2 DEF Base, TypeOK, Submit
  <2> QED
    BY <1>3, <2>1 DEF Base, TypeOK, At
<1>6. Mutex'
  BY <1>1, <1>3, <1>4 DEF Base, Mutex, Submit
<1> QED
  BY <1>5, <1>6 DEF Base

LEMMA LockBase == ASSUME Base, NEW c \in Clients, Lock(c) PROVE Base'
<1>1. /\ handlers' = [handlers EXCEPT ![c] = @ - 1] /\ handlers[c] > 0 /\ phase # "down"
      /\ \A d \in Clients : job[d] = None
      /\ UNCHANGED <<expected, told, phase, reader, log, applied, creds, chain, faults>>
  BY DEF Lock, MutexFree, Running, clients, stores
<1>2. handlers' \in [Clients -> 0..MaxHandlers]
  BY <1>1, ConstantsAssumption DEF Base, TypeOK
<1>3. \A d \in Clients : handlers'[d] = 0 \/ handlers[d] # 0
  BY <1>1 DEF Base, TypeOK
<1>4. applied = Len(log)
  BY <1>1 DEF Base, TypeOK, At
<1>5. CASE Decision(c) = "accepted"
  <2> DEFINE j == [stage |-> IF Request[c].action = Issue THEN "issue" ELSE "write",
                   credential |-> 0]
  <2>1. job' = [job EXCEPT ![c] = j] /\ answers' = answers
    BY <1>5 DEF Lock
  <2>2. j \in Job
    BY DEF Job, Stages
  <2> HIDE DEF j
  <2>3. TypeOK'
    BY <1>1, <1>2, <1>4, <2>1, <2>2 DEF Base, TypeOK
  <2>4. \A d \in Clients : job'[d] # None => d = c
    BY <1>1, <2>1 DEF Base, TypeOK
  <2>5. expected[c] # None
    BY <1>1 DEF Base, Mutex
  <2>6. Mutex'
    BY <1>1, <1>3, <2>4, <2>5 DEF Base, Mutex
  <2> QED
    BY <2>3, <2>6 DEF Base
<1>6. CASE Decision(c) # "accepted"
  <2>1. job' = job /\ answers' = answers \cup {<<c, Decision(c)>>}
    BY <1>6 DEF Lock, Answer
  <2>2. Decision(c) \in Results
    BY <1>6 DEF Decision, Results
  <2>3. TypeOK'
    BY <1>1, <1>2, <1>4, <2>1, <2>2 DEF Base, TypeOK
  <2>4. Mutex'
    BY <1>1, <1>3, <2>1 DEF Base, Mutex
  <2> QED
    BY <2>3, <2>4 DEF Base
<1> QED
  BY <1>5, <1>6

LEMMA IssueCredentialBase == ASSUME Base, NEW c \in Clients, IssueCredential(c) PROVE Base'
<1>1. /\ creds' = Append(creds, Request[c].plan)
      /\ job' = [job EXCEPT ![c] = [stage |-> "seal", credential |-> Len(creds) + 1]]
      /\ UNCHANGED <<expected, told, answers, phase, handlers, reader, log, applied, chain, faults>>
  BY StageAfter DEF IssueCredential, clients
<1>2. At(c, "issue") /\ job[c] # None
  BY DEF IssueCredential, At
<1>3. [stage |-> "seal", credential |-> Len(creds) + 1] \in Job
  BY DEF Base, TypeOK, Job, Stages
<1>4. creds' \in Seq(Plans)
  BY <1>1 DEF Base, TypeOK, Plans
<1>5. applied = Len(log) /\ phase # "down"
  BY <1>2, Holder DEF Base, TypeOK, At
<1>6. TypeOK'
  BY <1>1, <1>3, <1>4, <1>5 DEF Base, TypeOK
<1>7. \A d \in Clients : job'[d] # None => d = c
  BY <1>1, <1>2, Holder DEF Base, TypeOK
<1>8. Mutex'
  BY <1>1, <1>2, <1>5, <1>7, Holder DEF Base, Mutex
<1> QED
  BY <1>6, <1>8 DEF Base

LEMMA FindCredentialBase ==
    ASSUME Base, NEW n \in 1..Len(creds), FindCredential(n)
    PROVE  Base'
<1>1. PICK i \in 1..applied : reader' = [credential |-> n, plan |-> PlanAt(i), stage |-> "log"]
  BY DEF FindCredential
<1>2. log[i].client \in Clients
  <2>1. log \in Seq(Event) /\ applied \in 0..Len(log) /\ Len(log) \in Nat
    BY DEF Base, TypeOK
  <2>2. i \in 1..Len(log)
    BY <2>1
  <2>3. log[i] \in Event
    BY <2>1, <2>2
  <2> QED
    BY <2>3 DEF Event
<1>3. reader' \in Reading
  BY <1>1, <1>2 DEF Reading, PlanAt, Plans, Base, TypeOK
<1> QED
  BY <1>3 DEF Base, TypeOK, Mutex, FindCredential, At, clients, stores

LEMMA RetryBase == ASSUME Base, NEW c \in Clients, Retry(c) PROVE Base'
BY ConstantsAssumption, StageAfter DEF Base, TypeOK, Mutex, Retry, At, clients, stores

LEMMA DeliverBase == ASSUME Base, NEW c \in Clients, Deliver(c) PROVE Base'
BY ConstantsAssumption, StageAfter DEF Base, TypeOK, Mutex, Deliver, At, server, stores, Results

LEMMA SealCredentialBase == ASSUME Base, NEW c \in Clients, SealCredential(c) PROVE Base'
BY ConstantsAssumption, StageAfter DEF Base, TypeOK, Mutex, SealCredential, At, Proceed, clients, Stages, Job, Record

LEMMA WriteEventBase == ASSUME Base, NEW c \in Clients, WriteEvent(c) PROVE Base'
BY ConstantsAssumption, StageAfter DEF Base, TypeOK, Mutex, WriteEvent, At, Proceed, clients, Stages, Job, Event

LEMMA AppendRecordBase == ASSUME Base, NEW c \in Clients, AppendRecord(c) PROVE Base'
BY ConstantsAssumption, StageAfter DEF Base, TypeOK, Mutex, AppendRecord, At, Return, Answer, clients, Results, Job, Record

LEMMA StoreClosedBase == ASSUME Base, NEW c \in Clients, StoreClosed(c) PROVE Base'
BY ConstantsAssumption, StageAfter DEF Base, TypeOK, Mutex, StoreClosed, At, Return, Answer, clients, stores, Results, Job

LEMMA CallFailsBase == ASSUME Base, NEW c \in Clients, CallFails(c) PROVE Base'
BY ConstantsAssumption, StageAfter DEF Base, TypeOK, Mutex, CallFails, At, Return, Answer, Goes, clients, stores, Results, Job

LEMMA SnapshotFailsBase == ASSUME Base, NEW c \in Clients, SnapshotFails(c) PROVE Base'
BY ConstantsAssumption, StageAfter DEF Base, TypeOK, Mutex, SnapshotFails, At, Return, Answer, Goes, clients, Results, Job

LEMMA ApplyEventBase == ASSUME Base, NEW c \in Clients, ApplyEvent(c) PROVE Base'
<1>1. /\ job' = [job EXCEPT ![c].stage = "append"] /\ applied' = Len(log)
      /\ UNCHANGED <<expected, told, answers, phase, handlers, reader, log, creds, chain, faults>>
  BY StageAfter DEF ApplyEvent, Proceed, At, clients
<1>2. job[c] # None
  BY DEF ApplyEvent, At
<1>3. job'[c] \in Job
  BY <1>1, <1>2, Holder DEF Base, TypeOK, Job, Stages
<1>4. TypeOK'
  BY <1>1, <1>3 DEF Base, TypeOK
<1>5. Mutex'
  BY <1>1, <1>2 DEF Base, TypeOK, Mutex
<1> QED
  BY <1>4, <1>5 DEF Base

LEMMA LoseAnswerBase == ASSUME Base, LoseAnswer PROVE Base'
BY ConstantsAssumption DEF Base, TypeOK, Mutex, LoseAnswer, At, clients, server, stores

LEMMA VerifyCredentialBase == ASSUME Base, VerifyCredential PROVE Base'
BY ConstantsAssumption DEF Base, TypeOK, Mutex, VerifyCredential, At, clients, stores, Reading

LEMMA VerifySealBase == ASSUME Base, VerifySeal PROVE Base'
BY ConstantsAssumption DEF Base, TypeOK, Mutex, VerifySeal, At, clients, stores, Reading

LEMMA StartBase == ASSUME Base, Start PROVE Base'
BY ConstantsAssumption DEF Base, TypeOK, Mutex, Start, At, clients

LEMMA ShutdownBase == ASSUME Base, Shutdown PROVE Base'
BY ConstantsAssumption DEF Base, TypeOK, Mutex, Shutdown, At, Goes, clients, stores

LEMMA CloseRepositoryBase == ASSUME Base, CloseRepository PROVE Base'
BY ConstantsAssumption DEF Base, TypeOK, Mutex, CloseRepository, At, clients, stores

LEMMA CloseAuditBase == ASSUME Base, CloseAudit PROVE Base'
BY ConstantsAssumption DEF Base, TypeOK, Mutex, CloseAudit, At, clients, stores

LEMMA ExitBase == ASSUME Base, Exit PROVE Base'
BY ConstantsAssumption DEF Base, TypeOK, Mutex, Exit, At, Ends, clients, stores

LEMMA KillBase == ASSUME Base, Kill PROVE Base'
BY ConstantsAssumption DEF Base, TypeOK, Mutex, Kill, At, Ends, Running, Goes, clients, stores

LEMMA InitBase == Init => Base
BY ConstantsAssumption DEF Init, Base, TypeOK, Mutex, Job, Event, Record

LEMMA BaseStep == Base /\ [Next]_vars => Base'
<1> SUFFICES ASSUME Base, [Next]_vars PROVE Base'
  OBVIOUS
<1>1. CASE UNCHANGED vars
  BY <1>1 DEF Base, TypeOK, Mutex, At, vars
<1>2. ASSUME NEW c \in Clients,
             \/ Submit(c) \/ Retry(c) \/ Deliver(c)
             \/ Lock(c) \/ Work(c) \/ CallFails(c) \/ SnapshotFails(c)
      PROVE  Base'
  BY <1>2, SubmitBase, RetryBase, DeliverBase, LockBase, IssueCredentialBase, SealCredentialBase,
     WriteEventBase, ApplyEventBase, AppendRecordBase, StoreClosedBase, CallFailsBase,
     SnapshotFailsBase DEF Work
<1> QED
  BY <1>1, <1>2, LoseAnswerBase, FindCredentialBase, VerifyCredentialBase, VerifySealBase,
     StartBase, ShutdownBase, CloseRepositoryBase, CloseAuditBase, ExitBase, KillBase DEF Next

-----------------------------------------------------------------------------
(* What a log says, and what one more event changes of it. *)

PlanIn(l, i) == Request[l[i].client].plan

VersionIn(l, p) == 1 + Cardinality({i \in 1..Len(l) : PlanIn(l, i) = p})

ApprovedIn(l, p) ==
    \/ p \in Frozen
    \/ \E i \in 1..Len(l) : PlanIn(l, i) = p /\ Request[l[i].client].action = Review

HasKeyIn(l, k) == \E i \in 1..Len(l) : Request[l[i].client].key = k

LEMMA Longer ==
    ASSUME NEW S, NEW s \in Seq(S), NEW e \in S
    PROVE  /\ Len(s) \in Nat /\ Append(s, e) \in Seq(S)
           /\ Len(Append(s, e)) = Len(s) + 1 /\ Append(s, e)[Len(s) + 1] = e
           /\ \A j \in 1..Len(s) : Append(s, e)[j] = s[j]
OBVIOUS

LEMMA EventsAt ==
    ASSUME NEW l \in Seq(Event), NEW p
    PROVE  /\ {i \in 1..Len(l) : PlanIn(l, i) = p} \subseteq 1..Len(l)
           /\ IsFiniteSet({i \in 1..Len(l) : PlanIn(l, i) = p})
           /\ VersionIn(l, p) \in Nat \ {0}
<1>1. Len(l) \in Nat
  OBVIOUS
<1>2. IsFiniteSet(1..Len(l)) /\ {i \in 1..Len(l) : PlanIn(l, i) = p} \subseteq 1..Len(l)
  BY <1>1, FS_Interval
<1>3. IsFiniteSet({i \in 1..Len(l) : PlanIn(l, i) = p})
  BY <1>2, FS_Subset
<1>4. Cardinality({i \in 1..Len(l) : PlanIn(l, i) = p}) \in Nat
  BY <1>3, FS_CardinalityType
<1> QED
  BY <1>2, <1>3, <1>4 DEF VersionIn

LEMMA VersionAppend ==
    ASSUME NEW l \in Seq(Event), NEW e \in Event, NEW p
    PROVE  VersionIn(Append(l, e), p) =
              IF Request[e.client].plan = p THEN VersionIn(l, p) + 1 ELSE VersionIn(l, p)
<1> DEFINE m == Append(l, e)
           n == Len(l)
           old == {i \in 1..Len(l) : PlanIn(l, i) = p}
           new == {i \in 1..Len(m) : PlanIn(m, i) = p}
<1>1. /\ n \in Nat /\ Len(m) = n + 1 /\ m[n + 1] = e
      /\ \A j \in 1..n : m[j] = l[j]
  BY Longer
<1>2. IsFiniteSet(old) /\ old \subseteq 1..n /\ Cardinality(old) \in Nat
  BY EventsAt, FS_CardinalityType
<1>3. \A i \in 1..Len(m) : i \in 1..n \/ i = n + 1
  BY <1>1
<1>4. \A i \in 1..n : i \in 1..Len(m) /\ PlanIn(m, i) = PlanIn(l, i)
  BY <1>1 DEF PlanIn
<1>5. n + 1 \in 1..Len(m) /\ n + 1 \notin old /\ PlanIn(m, n + 1) = Request[e.client].plan
  BY <1>1 DEF PlanIn
<1> HIDE DEF m, n
<1>6. CASE Request[e.client].plan = p
  <2>1. new = old \cup {n + 1}
    BY <1>3, <1>4, <1>5, <1>6 DEF n
  <2>2. Cardinality(new) = Cardinality(old) + 1
    BY <1>2, <1>5, <2>1, FS_AddElement
  <2> QED
    BY <1>2, <1>6, <2>2 DEF VersionIn, m
<1>7. CASE Request[e.client].plan # p
  <2>1. new = old
    BY <1>3, <1>4, <1>5, <1>7 DEF n
  <2> QED
    BY <1>7, <2>1 DEF VersionIn, m
<1> QED
  BY <1>6, <1>7

LEMMA ApprovedAppend ==
    ASSUME NEW l \in Seq(Event), NEW e \in Event, NEW p, Request[e.client].plan # p
    PROVE  ApprovedIn(Append(l, e), p) <=> ApprovedIn(l, p)
<1>1. /\ Len(l) \in Nat /\ Len(Append(l, e)) = Len(l) + 1 /\ Append(l, e)[Len(l) + 1] = e
      /\ \A j \in 1..Len(l) : Append(l, e)[j] = l[j]
  BY Longer
<1> QED
  BY <1>1 DEF ApprovedIn, PlanIn

(* The memory of the repository when it is that of the whole log. *)
LEMMA MemoryOfLog ==
    ASSUME TypeOK, applied = Len(log), NEW p, NEW k
    PROVE  /\ Version(p) = VersionIn(log, p)
           /\ Approved(p) <=> ApprovedIn(log, p)
           /\ Receipts(k) # {} <=> HasKeyIn(log, k)
           /\ \A r : r \in Receipts(k) <=>
                 \E i \in 1..Len(log) : r = Request[log[i].client] /\ r.key = k
BY DEF Version, VersionIn, Approved, ApprovedIn, Receipts, HasKeyIn, PlanAt, PlanIn

LEMMA VersionOfMemory ==
    ASSUME TypeOK, NEW p
    PROVE  Version(p) <= VersionIn(log, p)
<1> DEFINE seen == {i \in 1..applied : PlanAt(i) = p}
           all == {i \in 1..Len(log) : PlanIn(log, i) = p}
<1>1. applied \in Nat /\ Len(log) \in Nat /\ applied <= Len(log) /\ log \in Seq(Event)
  BY DEF TypeOK
<1>2. seen \subseteq all
  BY <1>1 DEF PlanAt, PlanIn
<1>3. IsFiniteSet(all)
  BY <1>1, EventsAt
<1> HIDE DEF seen, all
<1>4. Cardinality(seen) <= Cardinality(all) /\ Cardinality(seen) \in Nat /\ Cardinality(all) \in Nat
  BY <1>2, <1>3, FS_Subset, FS_CardinalityType
<1> QED
  BY <1>4 DEF Version, VersionIn, seen, all

-----------------------------------------------------------------------------
(* What the mutex, the key and the version make of the log. *)

Deciding(c) == At(c, "issue") \/ At(c, "seal") \/ At(c, "write")
Entering(c) == At(c, "apply") \/ At(c, "append")

Told(c, r) == <<c, r>> \in answers \/ told[c] = r

StateAllowsIn(l, r) == ApprovedIn(l, r.plan) <=> r.action = Issue

Acceptable(c) ==
    /\ expected[c] # None
    /\ ~ HasKeyIn(log, Request[c].key)
    /\ VersionIn(log, Request[c].plan) = expected[c]
    /\ StateAllowsIn(log, Request[c])

(* Whatever is logged from now on, the command of c is not accepted. *)
Doomed(c) ==
    /\ expected[c] # None
    /\ \A i \in 1..Len(log) : log[i].client # c
    /\ \/ HasKeyIn(log, Request[c].key)
       \/ expected[c] < VersionIn(log, Request[c].plan)
       \/ ~ StateAllowsIn(log, Request[c])

(* Each handler, and each answer, is right about the log. *)
Ledger ==
    \A c \in Clients :
        /\ expected[c] # None => expected[c] <= VersionIn(log, Request[c].plan)
        /\ Deciding(c) => Acceptable(c)
        /\ Entering(c) => /\ Len(log) > 0
                          /\ log[Len(log)] = [client |-> c, credential |-> job[c].credential]
        /\ Told(c, "success") => \E i \in 1..Len(log) : Request[log[i].client] = Request[c]
        /\ Told(c, "rejected") => Doomed(c)

LEMMA LedgerKept ==
    ASSUME Ledger, UNCHANGED <<log, expected>>,
           \A c \in Clients :
               /\ Deciding(c)' => Deciding(c)
               /\ Entering(c)' => Entering(c) /\ job'[c].credential = job[c].credential
               /\ Told(c, "success")' => Told(c, "success")
               /\ Told(c, "rejected")' => Told(c, "rejected")
    PROVE  Ledger'
BY DEF Ledger, Acceptable, Doomed

LEMMA SubmitLedger == ASSUME Base, Ledger, NEW c \in Clients, Submit(c) PROVE Ledger'
<1>1. /\ UNCHANGED <<log, job, answers, told>>
      /\ expected[c] = None /\ expected' = [expected EXCEPT ![c] = Version(Request[c].plan)]
  BY DEF Submit, stores
<1>2. Version(Request[c].plan) <= VersionIn(log, Request[c].plan)
  BY VersionOfMemory DEF Base
<1>3. job[c] = None
  BY <1>1 DEF Base, Mutex
<1> SUFFICES ASSUME NEW d \in Clients
             PROVE  /\ expected'[d] # None => expected'[d] <= VersionIn(log, Request[d].plan)
                    /\ Deciding(d)' => Acceptable(d)'
                    /\ Entering(d)' => /\ Len(log') > 0
                                       /\ log'[Len(log')] = [client |-> d, credential |-> job'[d].credential]
                    /\ Told(d, "success")' => \E i \in 1..Len(log') : Request[log'[i].client] = Request[d]
                    /\ Told(d, "rejected")' => Doomed(d)'
  BY <1>1 DEF Ledger
<1>4. CASE d = c
  <2>1. ~ Deciding(c)' /\ ~ Entering(c)'
    BY <1>1, <1>3 DEF Deciding, Entering, At
  <2>2. expected'[c] = Version(Request[c].plan)
    BY <1>1 DEF Base, TypeOK
  <2>3. ~ Told(c, "rejected")
    BY <1>1 DEF Ledger, Doomed
  <2> QED
    BY <1>1, <1>2, <1>4, <2>1, <2>2, <2>3 DEF Ledger, Told
<1>5. CASE d # c
  <2>1. expected'[d] = expected[d]
    BY <1>1, <1>5 DEF Base, TypeOK
  <2> QED
    BY <1>1, <2>1 DEF Ledger, Told, Deciding, Entering, At, Acceptable, Doomed
<1> QED
  BY <1>4, <1>5

LEMMA DecisionRight ==
    ASSUME Base, Ledger, applied = Len(log), NEW c \in Clients, expected[c] # None
    PROVE  /\ Decision(c) = "accepted" <=> Acceptable(c)
           /\ Decision(c) = "success" => \E i \in 1..Len(log) : Request[log[i].client] = Request[c]
           /\ Decision(c) = "rejected" => Doomed(c)
           /\ Decision(c) \in {"accepted", "success", "rejected"}
<1> DEFINE r == Request[c]
<1>1. /\ Version(r.plan) = VersionIn(log, r.plan)
      /\ Approved(r.plan) <=> ApprovedIn(log, r.plan)
      /\ Receipts(r.key) # {} <=> HasKeyIn(log, r.key)
      /\ r \in Receipts(r.key) <=> \E i \in 1..Len(log) : r = Request[log[i].client]
  BY MemoryOfLog DEF Base
<1>2. StateAllows(r) <=> StateAllowsIn(log, r)
  BY <1>1 DEF StateAllows, StateAllowsIn
<1>3. /\ expected[c] <= VersionIn(log, r.plan)
      /\ expected[c] \in Nat /\ VersionIn(log, r.plan) \in Nat
  BY EventsAt DEF Ledger, Base, TypeOK
<1>4. ~ HasKeyIn(log, r.key) => \A i \in 1..Len(log) : log[i].client # c
  BY DEF HasKeyIn
<1>5. CASE Receipts(r.key) # {}
  <2>1. Decision(c) = IF r \in Receipts(r.key) THEN "success" ELSE "rejected"
    BY <1>5 DEF Decision
  <2>2. HasKeyIn(log, r.key)
    BY <1>1, <1>5
  <2>3. r \notin Receipts(r.key) => \A i \in 1..Len(log) : log[i].client # c
    BY <1>1
  <2> QED
    BY <1>1, <2>1, <2>2, <2>3 DEF Acceptable, Doomed
<1>6. CASE Receipts(r.key) = {} /\ Version(r.plan) # expected[c]
  <2>1. Decision(c) = "rejected"
    BY <1>6 DEF Decision
  <2>2. expected[c] < VersionIn(log, r.plan)
    BY <1>1, <1>3, <1>6
  <2> QED
    BY <1>1, <1>4, <1>6, <2>1, <2>2 DEF Acceptable, Doomed
<1>7. CASE Receipts(r.key) = {} /\ Version(r.plan) = expected[c]
  <2>1. Decision(c) = IF StateAllows(r) THEN "accepted" ELSE "rejected"
    BY <1>7 DEF Decision
  <2> QED
    BY <1>1, <1>2, <1>4, <1>7, <2>1 DEF Acceptable, Doomed
<1> QED
  BY <1>5, <1>6, <1>7

LEMMA LockLedger == ASSUME Base, Ledger, NEW c \in Clients, Lock(c) PROVE Ledger'
<1>1. /\ \A d \in Clients : job[d] = None
      /\ handlers[c] > 0 /\ phase # "down"
      /\ UNCHANGED <<expected, told, log>>
  BY DEF Lock, MutexFree, Running, clients, stores
<1>2. applied = Len(log)
  BY <1>1 DEF Base, TypeOK, At
<1>3. expected[c] # None
  BY <1>1 DEF Base, Mutex
<1>4. /\ Decision(c) = "accepted" <=> Acceptable(c)
      /\ Decision(c) = "success" => \E i \in 1..Len(log) : Request[log[i].client] = Request[c]
      /\ Decision(c) = "rejected" => Doomed(c)
      /\ Decision(c) \in {"accepted", "success", "rejected"}
  BY <1>2, <1>3, DecisionRight
<1>5. CASE Decision(c) = "accepted"
  <2>1. /\ answers' = answers
        /\ \A d \in Clients : job'[d] # None => d = c /\ job'[c].stage \in {"issue", "write"}
    BY <1>1, <1>5 DEF Lock, Base, TypeOK
  <2>2. \A d \in Clients : Deciding(d)' => d = c
    BY <2>1 DEF Deciding, At
  <2>3. \A d \in Clients : ~ Entering(d)'
    BY <2>1 DEF Entering, At
  <2> QED
    BY <1>1, <1>4, <1>5, <2>1, <2>2, <2>3 DEF Ledger, Told, Acceptable, Doomed
<1>6. CASE Decision(c) # "accepted"
  <2>1. job' = job /\ answers' = answers \cup {<<c, Decision(c)>>}
    BY <1>6 DEF Lock, Answer
  <2>2. \A d \in Clients : ~ Deciding(d)' /\ ~ Entering(d)'
    BY <1>1, <2>1 DEF Deciding, Entering, At
  <2>3. \A d \in Clients : \A r \in {"success", "rejected"} :
           Told(d, r)' => Told(d, r) \/ (d = c /\ r = Decision(c))
    BY <1>1, <2>1 DEF Told
  <2>4. Acceptable(c)' <=> Acceptable(c)
    BY <1>1 DEF Acceptable
  <2> QED
    BY <1>1, <1>4, <2>2, <2>3 DEF Ledger, Doomed
<1> QED
  BY <1>5, <1>6

LEMMA ReadVersion ==
    ASSUME Base, Ledger, NEW c \in Clients, expected[c] # None
    PROVE  /\ expected[c] \in Nat
           /\ expected[c] <= VersionIn(log, Request[c].plan)
<1>1. expected[c] \in Nat
  BY DEF Base, TypeOK
<1>2. expected[c] <= VersionIn(log, Request[c].plan)
  BY DEF Ledger
<1> QED
  BY <1>1, <1>2

LEMMA WriteEventLedger == ASSUME Base, Ledger, NEW c \in Clients, WriteEvent(c) PROVE Ledger'
<1> DEFINE e == [client |-> c, credential |-> job[c].credential]
<1>1. /\ log' = Append(log, e) /\ job' = [job EXCEPT ![c].stage = "apply"]
      /\ UNCHANGED <<expected, told, answers>>
  BY StageAfter DEF WriteEvent, Proceed, At, clients
<1>2. /\ job[c] # None /\ job[c] \in Job /\ \A d \in Clients \ {c} : job[d] = None
      /\ Acceptable(c)
  BY Holder DEF WriteEvent, At, Ledger, Deciding
<1>3. e \in Event /\ log \in Seq(Event)
  BY <1>2, Holder DEF Event, Base, TypeOK
<1>4. /\ Len(log) \in Nat /\ Len(log') = Len(log) + 1 /\ log'[Len(log) + 1] = e
      /\ \A j \in 1..Len(log) : log'[j] = log[j]
  BY <1>1, <1>3, Longer
<1> HIDE DEF e
<1>5. ASSUME NEW p
      PROVE  /\ VersionIn(log, p) \in Nat
             /\ VersionIn(log', p) = IF Request[e.client].plan = p THEN VersionIn(log, p) + 1
                                                                  ELSE VersionIn(log, p)
             /\ Request[e.client].plan # p => (ApprovedIn(log', p) <=> ApprovedIn(log, p))
  BY <1>1, <1>3, EventsAt, VersionAppend, ApprovedAppend
<1>6. ASSUME NEW d \in Clients, Doomed(d)
      PROVE  Doomed(d)'
  <2> DEFINE r == Request[d]
  <2>1. d # c
    BY <1>2, <1>6, <1>5 DEF Doomed, Acceptable
  <2>2. \A i \in 1..Len(log') : log'[i].client # d
    <3>1. e.client = c
      BY DEF e
    <3>2. \A i \in 1..Len(log') : i \in 1..Len(log) \/ i = Len(log) + 1
      BY <1>4
    <3> QED
      BY <1>4, <1>6, <2>1, <3>1, <3>2 DEF Doomed
  <2>3. HasKeyIn(log, r.key) => HasKeyIn(log', r.key)
    BY <1>4 DEF HasKeyIn
  <2>4. expected[d] <= VersionIn(log, r.plan) /\ expected[d] \in Nat
    BY <1>6, ReadVersion DEF Doomed
  <2>5. expected[d] < VersionIn(log, r.plan) => expected[d] < VersionIn(log', r.plan)
    BY <1>5, <2>4
  <2>6. CASE Request[e.client].plan = r.plan
    <3>1. expected[d] < VersionIn(log', r.plan)
      BY <1>5, <2>4, <2>6
    <3> QED
      BY <1>1, <1>6, <2>2, <3>1 DEF Doomed
  <2>7. CASE Request[e.client].plan # r.plan
    <3>1. StateAllowsIn(log', r) <=> StateAllowsIn(log, r)
      BY <1>5, <2>7 DEF StateAllowsIn
    <3> QED
      BY <1>1, <1>6, <2>2, <2>3, <2>5, <3>1 DEF Doomed
  <2> QED
    BY <2>6, <2>7
<1>7. ASSUME NEW d \in Clients, expected[d] # None
      PROVE  expected[d] <= VersionIn(log', Request[d].plan)
  <2>1. expected[d] \in Nat /\ expected[d] <= VersionIn(log, Request[d].plan)
    BY <1>7, ReadVersion
  <2> QED
    BY <1>5, <2>1
<1>8. \A d \in Clients : Deciding(d)' => FALSE
  BY <1>1, <1>2 DEF Deciding, At, Base, TypeOK, Job
<1>9. \A d \in Clients : Entering(d)' => d = c /\ job'[c].credential = job[c].credential
  BY <1>1, <1>2 DEF Entering, At, Base, TypeOK, Job
<1>10. \A d \in Clients :
          (\E i \in 1..Len(log) : Request[log[i].client] = Request[d])
             => \E i \in 1..Len(log') : Request[log'[i].client] = Request[d]
  BY <1>4
<1>11. Len(log') > 0 /\ log'[Len(log')] = [client |-> c, credential |-> job[c].credential]
  BY <1>4 DEF e
<1>12. \A d \in Clients : \A r : Told(d, r)' <=> Told(d, r)
  BY <1>1 DEF Told
<1> QED
  BY <1>1, <1>6, <1>7, <1>8, <1>9, <1>10, <1>11, <1>12 DEF Ledger

(* A handler that is done, or one step further, or a client that is told. *)

LEMMA DeliverLedger == ASSUME Ledger, NEW c \in Clients, Deliver(c) PROVE Ledger'
<1>1. UNCHANGED <<log, expected, job>>
  BY DEF Deliver, server, stores
<1>2. PICK r \in Results :
         /\ <<c, r>> \in answers /\ answers' = answers \ {<<c, r>>}
         /\ told' = IF told[c] = "nothing" /\ r # "error" THEN [told EXCEPT ![c] = r] ELSE told
  BY DEF Deliver
<1>3. \A d \in Clients : \A q \in {"success", "rejected"} : Told(d, q)' => Told(d, q)
  BY <1>2 DEF Told
<1> QED
  BY <1>1, <1>3, LedgerKept DEF Deciding, Entering, At

LEMMA IssueCredentialLedger ==
    ASSUME Base, Ledger, NEW c \in Clients, IssueCredential(c)
    PROVE  Ledger'
<1>1. /\ job' = [job EXCEPT ![c] = [stage |-> "seal", credential |-> Len(creds) + 1]]
      /\ UNCHANGED <<log, expected, told, answers>> /\ At(c, "issue")
  BY StageAfter DEF IssueCredential, clients
<1>2. \A d \in Clients : d # c => job'[d] = job[d]
  BY <1>1 DEF Base, TypeOK
<1>3. \A d \in Clients : (Deciding(d)' => Deciding(d)) /\ (Entering(d)' => Entering(d) /\ d # c)
  BY <1>1, <1>2 DEF Deciding, Entering, At, Base, TypeOK
<1> QED
  BY <1>1, <1>2, <1>3, LedgerKept DEF Told

LEMMA SealCredentialLedger ==
    ASSUME Base, Ledger, NEW c \in Clients, SealCredential(c)
    PROVE  Ledger'
<1>1. /\ job' = [job EXCEPT ![c].stage = "write"]
      /\ UNCHANGED <<log, expected, told, answers>> /\ At(c, "seal")
  BY StageAfter DEF SealCredential, Proceed, At, clients
<1>2. \A d \in Clients : d # c => job'[d] = job[d]
  BY <1>1 DEF Base, TypeOK
<1>3. job'[c].stage = "write"
  BY <1>1 DEF Base, TypeOK, At, Job
<1>4. \A d \in Clients : (Deciding(d)' => Deciding(d)) /\ (Entering(d)' => Entering(d) /\ d # c)
  BY <1>1, <1>2, <1>3 DEF Deciding, Entering, At
<1> QED
  BY <1>1, <1>2, <1>4, LedgerKept DEF Told

LEMMA ApplyEventLedger ==
    ASSUME Base, Ledger, NEW c \in Clients, ApplyEvent(c)
    PROVE  Ledger'
<1>1. /\ job' = [job EXCEPT ![c].stage = "append"]
      /\ UNCHANGED <<log, expected, told, answers>> /\ At(c, "apply")
  BY StageAfter DEF ApplyEvent, Proceed, At, clients
<1>2. \A d \in Clients : d # c => job'[d] = job[d]
  BY <1>1 DEF Base, TypeOK
<1>3. job'[c].stage = "append" /\ job'[c].credential = job[c].credential
  BY <1>1, Holder DEF Base, TypeOK, At, Job
<1>4. \A d \in Clients : /\ Deciding(d)' => Deciding(d) /\ d # c
                         /\ Entering(d)' => Entering(d) /\ job'[d].credential = job[d].credential
  BY <1>1, <1>2, <1>3 DEF Deciding, Entering, At
<1> QED
  BY <1>1, <1>4, LedgerKept DEF Told

(* A handler that returns. *)
LEMMA ReturnLedger ==
    ASSUME Base, Ledger, NEW c \in Clients, NEW r \in {"success", "error"}, Return(c, r),
           UNCHANGED <<log, expected, told>>,
           r = "success" => Entering(c)
    PROVE  Ledger'
<1>1. job' = [job EXCEPT ![c] = None] /\ answers' = answers \cup {<<c, r>>}
  BY DEF Return, Answer
<1>2. \A d \in Clients : job'[d] = None \/ job'[d] = job[d]
  BY <1>1 DEF Base, TypeOK
<1>3. \A d \in Clients : /\ Deciding(d)' => Deciding(d)
                         /\ Entering(d)' => Entering(d) /\ job'[d].credential = job[d].credential
  BY <1>2 DEF Deciding, Entering, At
<1>4. CASE r = "error"
  <2>1. \A d \in Clients : \A q \in {"success", "rejected"} : Told(d, q)' => Told(d, q)
    BY <1>1, <1>4 DEF Told
  <2> QED
    BY <1>3, <2>1, LedgerKept
<1>5. CASE r = "success"
  <2>1. \A d \in Clients : /\ Told(d, "success")' => Told(d, "success") \/ d = c
                           /\ Told(d, "rejected")' => Told(d, "rejected")
    BY <1>1, <1>5 DEF Told
  <2>2. \E i \in 1..Len(log) : Request[log[i].client] = Request[c]
    <3>1. Len(log) \in Nat
      BY DEF Base, TypeOK
    <3>2. Len(log) > 0 /\ log[Len(log)] = [client |-> c, credential |-> job[c].credential]
      BY <1>5 DEF Ledger
    <3>3. log[Len(log)].client = c
      BY <3>2
    <3> QED
      BY <3>1, <3>2, <3>3
  <2> QED
    BY <1>3, <2>1, <2>2 DEF Ledger, Acceptable, Doomed
<1> QED
  BY <1>4, <1>5

LEMMA HandlerReturnsLedger ==
    ASSUME Base, Ledger, NEW c \in Clients,
           AppendRecord(c) \/ StoreClosed(c) \/ CallFails(c) \/ SnapshotFails(c)
    PROVE  Ledger'
<1>1. CASE AppendRecord(c)
  BY <1>1, ReturnLedger DEF AppendRecord, Entering, clients
<1>2. CASE StoreClosed(c)
  BY <1>2, ReturnLedger DEF StoreClosed, clients, stores
<1>3. CASE CallFails(c)
  BY <1>3, ReturnLedger DEF CallFails, clients, stores
<1>4. CASE SnapshotFails(c)
  BY <1>4, ReturnLedger DEF SnapshotFails, clients
<1> QED
  BY <1>1, <1>2, <1>3, <1>4

(* Whatever else happens leaves clients and log alone. *)
Beside ==
    \/ LoseAnswer \/ \E n \in 1..Len(creds) : FindCredential(n)
    \/ VerifyCredential \/ VerifySeal
    \/ Start \/ Shutdown \/ CloseRepository \/ CloseAudit \/ Exit \/ Kill
    \/ \E c \in Clients : Retry(c)

LEMMA BesideKeeps ==
    ASSUME Base, Beside
    PROVE  /\ UNCHANGED <<log, expected, told, creds, chain>> /\ answers' \subseteq answers
           /\ \A c \in Clients : job'[c] = job[c] \/ job'[c] = None
BY DEF Beside, LoseAnswer, FindCredential, VerifyCredential, VerifySeal, Start, Shutdown,
   CloseRepository, CloseAudit, Exit, Kill, Retry, Ends, clients, server, stores

LEMMA BesideLedger == ASSUME Base, Ledger, Beside PROVE Ledger'
<1>1. /\ UNCHANGED <<log, expected, told>> /\ answers' \subseteq answers
      /\ \A c \in Clients : job'[c] = job[c] \/ job'[c] = None
  BY BesideKeeps
<1> QED
  BY <1>1, LedgerKept DEF Deciding, Entering, At, Told

LEMMA InitLedger == Init => Ledger
BY DEF Init, Ledger, Deciding, Entering, At, Told

LEMMA NextCases ==
    ASSUME Next
    PROVE  \/ Beside
           \/ \E c \in Clients :
                 \/ Submit(c) \/ Deliver(c) \/ Lock(c)
                 \/ IssueCredential(c) \/ SealCredential(c) \/ WriteEvent(c) \/ ApplyEvent(c)
                 \/ AppendRecord(c) \/ StoreClosed(c) \/ CallFails(c) \/ SnapshotFails(c)
BY DEF Next, Work, Beside

LEMMA LedgerStep == Base /\ Ledger /\ [Next]_vars => Ledger'
<1> SUFFICES ASSUME Base, Ledger, [Next]_vars PROVE Ledger'
  OBVIOUS
<1>1. CASE UNCHANGED vars
  BY <1>1, LedgerKept DEF vars, Deciding, Entering, At, Told
<1>2. CASE Next
  BY <1>2, NextCases, BesideLedger, SubmitLedger, DeliverLedger, LockLedger,
     IssueCredentialLedger, SealCredentialLedger, WriteEventLedger, ApplyEventLedger,
     HandlerReturnsLedger
<1> QED
  BY <1>1, <1>2

LEMMA InvariantHolds == Spec => [](Base /\ Ledger)
<1>1. Init => Base /\ Ledger
  BY InitBase, InitLedger
<1>2. Base /\ Ledger /\ [Next]_vars => Base' /\ Ledger'
  BY BaseStep, LedgerStep
<1> QED
  BY <1>1, <1>2, PTL DEF Spec

(* Clients, handlers and stores are always of the types that service.go    *)
(* and ports.go declare, and the memory of an idle server is its log.      *)
THEOREM TypeCorrect == Spec => []TypeOK
<1>1. Base => TypeOK
  BY DEF Base
<1> QED
  BY <1>1, InvariantHolds, PTL

(* What loadCommand found about key, version and state is still true when  *)
(* the credential is issued and when the event is committed.               *)
THEOREM DecisionsStayCurrent == Spec => []StillCurrent
<1>1. Base /\ Ledger => StillCurrent
  <2> SUFFICES ASSUME Base, Ledger, NEW c \in Clients, Deciding(c)
               PROVE  Decision(c) = "accepted"
    BY DEF StillCurrent, Deciding
  <2>1. job[c] # None /\ ~ At(c, "apply")
    BY DEF Deciding, At
  <2>2. phase # "down" /\ expected[c] # None /\ \A d \in Clients \ {c} : job[d] = None
    BY <2>1, Holder
  <2>3. applied = Len(log)
    BY <2>1, <2>2 DEF Base, TypeOK, At
  <2>4. Acceptable(c)
    BY DEF Ledger
  <2> QED
    BY <2>2, <2>3, <2>4, DecisionRight
<1> QED
  BY <1>1, InvariantHolds, PTL

-----------------------------------------------------------------------------
(* The refinement of CommandBook. *)

BookOf(l) == [i \in DOMAIN l |-> l[i].client]

LEMMA BookOfLog ==
    ASSUME NEW l \in Seq(Event)
    PROVE  /\ DOMAIN BookOf(l) = 1..Len(l) /\ Len(BookOf(l)) = Len(l)
           /\ BookOf(l) \in Seq(Clients)
           /\ \A p : Book!VersionIn(BookOf(l), p) = VersionIn(l, p)
           /\ \A k : Book!HasKey(BookOf(l), k) <=> HasKeyIn(l, k)
<1>1. DOMAIN l = 1..Len(l) /\ Len(l) \in Nat /\ \A i \in 1..Len(l) : l[i].client \in Clients
  <2>1. \A i \in 1..Len(l) : l[i] \in Event
    OBVIOUS
  <2> QED
    BY <2>1 DEF Event
<1>2. /\ BookOf(l) = [i \in 1..Len(l) |-> l[i].client]
      /\ DOMAIN BookOf(l) = 1..Len(l) /\ \A i \in 1..Len(l) : BookOf(l)[i] = l[i].client
  BY <1>1 DEF BookOf
<1>3. BookOf(l) \in Seq(Clients) /\ Len(BookOf(l)) = Len(l)
  BY <1>1, <1>2
<1>4. ASSUME NEW p PROVE Book!VersionIn(BookOf(l), p) = VersionIn(l, p)
  <2>1. {i \in DOMAIN BookOf(l) : Request[BookOf(l)[i]].plan = p} =
        {i \in 1..Len(l) : PlanIn(l, i) = p}
    BY <1>2 DEF PlanIn
  <2> QED
    BY <2>1 DEF Book!VersionIn, VersionIn, Cardinality, Book!Cardinality,
       IsFiniteSet, Book!IsFiniteSet
<1>5. ASSUME NEW k PROVE Book!HasKey(BookOf(l), k) <=> HasKeyIn(l, k)
  BY <1>2 DEF Book!HasKey, HasKeyIn
<1> QED
  BY <1>2, <1>3, <1>4, <1>5

LEMMA BookAppend ==
    ASSUME NEW l \in Seq(Event), NEW e \in Event
    PROVE  BookOf(Append(l, e)) = Append(BookOf(l), e.client)
<1> DEFINE m == Append(l, e)
           a == BookOf(m)
           b == Append(BookOf(l), e.client)
<1>1. /\ Len(l) \in Nat /\ m \in Seq(Event) /\ Len(m) = Len(l) + 1 /\ m[Len(l) + 1] = e
      /\ \A j \in 1..Len(l) : m[j] = l[j]
  BY Longer
<1>2. e.client \in Clients
  BY DEF Event
<1>3. /\ BookOf(l) \in Seq(Clients) /\ Len(BookOf(l)) = Len(l)
      /\ a \in Seq(Clients) /\ Len(a) = Len(m) /\ DOMAIN a = 1..Len(m)
  BY <1>1, BookOfLog
<1>4. /\ b \in Seq(Clients) /\ Len(b) = Len(l) + 1 /\ b[Len(l) + 1] = e.client
      /\ \A j \in 1..Len(l) : b[j] = BookOf(l)[j]
  BY <1>2, <1>3, Longer
<1>5. /\ \A i \in 1..Len(l) : BookOf(l)[i] = l[i].client
      /\ \A i \in 1..Len(m) : a[i] = m[i].client
  BY <1>1 DEF BookOf
<1> HIDE DEF m, a, b
<1>6. \A i \in 1..Len(l) + 1 : i \in 1..Len(l) \/ i = Len(l) + 1
  BY <1>1
<1>7. \A i \in 1..Len(l) + 1 : a[i] = b[i]
  BY <1>1, <1>4, <1>5, <1>6
<1>8. a = b
  BY <1>1, <1>3, <1>4, <1>7
<1> QED
  BY <1>8 DEF m, a, b

LEMMA BookInit == Init => Book!Init
BY DEF Init, Book!Init

LEMMA SubmitReads ==
    ASSUME Base, NEW c \in Clients, Submit(c)
    PROVE  Book!Read(c)
<1>1. /\ UNCHANGED <<log, told>> /\ expected[c] = None
      /\ expected' = [expected EXCEPT ![c] = Version(Request[c].plan)]
  BY DEF Submit, stores
<1>2. Version(Request[c].plan) \in 1..Book!VersionIn(BookOf(log), Request[c].plan)
  <2>1. /\ Version(Request[c].plan) \in Nat \ {0}
        /\ Version(Request[c].plan) <= VersionIn(log, Request[c].plan)
        /\ VersionIn(log, Request[c].plan) \in Nat
    BY VersionType, VersionOfMemory, EventsAt DEF Base, TypeOK
  <2>2. Book!VersionIn(BookOf(log), Request[c].plan) = VersionIn(log, Request[c].plan)
    BY BookOfLog DEF Base, TypeOK
  <2> QED
    BY <2>1, <2>2
<1> QED
  BY <1>1, <1>2 DEF Book!Read, BookOf

LEMMA WriteEnters ==
    ASSUME Base, Ledger, NEW c \in Clients, WriteEvent(c)
    PROVE  Book!Enter(c)
<1> DEFINE e == [client |-> c, credential |-> job[c].credential]
<1>1. log' = Append(log, e) /\ UNCHANGED <<expected, told>> /\ Acceptable(c) /\ job[c] # None
  BY DEF WriteEvent, clients, Ledger, Deciding, At
<1>2. e \in Event /\ log \in Seq(Event)
  BY <1>1, Holder DEF Event, Base, TypeOK
<1>3. BookOf(log') = Append(BookOf(log), c)
  BY <1>1, <1>2, BookAppend
<1>4. /\ ~ Book!HasKey(BookOf(log), Request[c].key)
      /\ expected[c] = Book!VersionIn(BookOf(log), Request[c].plan)
  BY <1>1, <1>2, BookOfLog DEF Acceptable
<1>5. told[c] = "nothing"
  <2>1. told[c] # "success"
    <3> SUFFICES ASSUME told[c] = "success" PROVE FALSE
      OBVIOUS
    <3>1. \E i \in 1..Len(log) : Request[log[i].client] = Request[c]
      BY DEF Ledger, Told
    <3> QED
      BY <1>1, <3>1 DEF Acceptable, HasKeyIn
  <2>2. told[c] # "rejected"
    <3> SUFFICES ASSUME told[c] = "rejected" PROVE FALSE
      OBVIOUS
    <3>1. Doomed(c)
      BY DEF Ledger, Told
    <3>2. VersionIn(log, Request[c].plan) \in Nat
      BY <1>2, EventsAt
    <3> QED
      BY <1>1, <3>1, <3>2 DEF Acceptable, Doomed
  <2>3. told[c] \in {"nothing", "success", "rejected"}
    BY DEF Base, TypeOK
  <2> QED
    BY <2>1, <2>2, <2>3
<1> QED
  BY <1>1, <1>3, <1>4, <1>5 DEF Book!Enter, BookOf

LEMMA DeliverTells ==
    ASSUME Base, Ledger, NEW c \in Clients, Deliver(c)
    PROVE  Book!TellSuccess(c) \/ Book!TellRejected(c) \/ UNCHANGED Book!vars
<1>1. UNCHANGED <<log, expected>>
  BY DEF Deliver, server, stores
<1>2. PICK r \in Results :
         /\ <<c, r>> \in answers
         /\ told' = IF told[c] = "nothing" /\ r # "error" THEN [told EXCEPT ![c] = r] ELSE told
  BY DEF Deliver
<1>3. /\ DOMAIN BookOf(log) = 1..Len(log)
      /\ \A i \in 1..Len(log) : BookOf(log)[i] = log[i].client
  BY DEF Base, TypeOK, BookOf
<1>4. CASE told[c] = "nothing" /\ r = "success"
  <2>1. \E i \in 1..Len(log) : Request[log[i].client] = Request[c]
    BY <1>2, <1>4 DEF Ledger, Told
  <2>2. \E i \in DOMAIN BookOf(log) : Request[BookOf(log)[i]] = Request[c]
    BY <1>3, <2>1
  <2> QED
    BY <1>1, <1>2, <1>4, <2>2 DEF Book!TellSuccess, BookOf
<1>5. CASE told[c] = "nothing" /\ r = "rejected"
  <2>1. \A i \in 1..Len(log) : log[i].client # c
    BY <1>2, <1>5 DEF Ledger, Told, Doomed
  <2>2. \A i \in DOMAIN BookOf(log) : BookOf(log)[i] # c
    BY <1>3, <2>1
  <2> QED
    BY <1>1, <1>2, <1>5, <2>2 DEF Book!TellRejected, BookOf
<1>6. CASE told[c] # "nothing" \/ r = "error"
  BY <1>1, <1>2, <1>6 DEF Book!vars
<1> QED
  BY <1>4, <1>5, <1>6 DEF Results

(* However answers are lost, handlers killed and requests repeated, each   *)
(* command takes effect at most once and on the version its client read,   *)
(* and a client is told of success or rejection only as the log has it.    *)
THEOREM ServiceKeepsBook == Spec => KeepsBook
<1>1. Base /\ Ledger /\ [Next]_vars => [Book!Next]_(Book!vars)
  <2> SUFFICES ASSUME Base, Ledger, [Next]_vars PROVE [Book!Next]_(Book!vars)
    OBVIOUS
  <2>1. CASE UNCHANGED vars
    BY <2>1 DEF vars, Book!vars
  <2>2. CASE Beside
    BY <2>2, BesideKeeps DEF Book!vars
  <2>3. ASSUME NEW c \in Clients,
               \/ Lock(c) \/ IssueCredential(c) \/ SealCredential(c) \/ ApplyEvent(c)
               \/ AppendRecord(c) \/ StoreClosed(c) \/ CallFails(c) \/ SnapshotFails(c)
        PROVE  UNCHANGED Book!vars
    BY <2>3 DEF Lock, IssueCredential, SealCredential, ApplyEvent, AppendRecord, StoreClosed,
       CallFails, SnapshotFails, clients, stores, Book!vars
  <2> QED
    BY <2>1, <2>2, <2>3, NextCases, SubmitReads, WriteEnters, DeliverTells DEF Book!Next
<1> QED
  BY <1>1, BookInit, InvariantHolds, PTL DEF Spec, KeepsBook, Book!Spec

-----------------------------------------------------------------------------
(* What the clients and the log have of each other.                        *)

Taken == BookOf(log)

(* The version that the plan of the i-th command had before it. *)
Before(i) == Book!VersionIn(SubSeq(Taken, 1, i - 1), Request[Taken[i]].plan)

OneBook ==
    /\ \A i, j \in DOMAIN Taken : Request[Taken[i]].key = Request[Taken[j]].key => i = j
    /\ \A i \in DOMAIN Taken : expected[Taken[i]] # None /\ expected[Taken[i]] = Before(i)
    /\ \A c \in Clients :
        /\ told[c] = "success" => \E i \in DOMAIN Taken : Request[Taken[i]] = Request[c]
        /\ told[c] = "rejected" => \A i \in DOMAIN Taken : Taken[i] # c

LEMMA TakenType ==
    ASSUME Base
    PROVE  /\ Taken \in Seq(Clients) /\ Len(Taken) \in Nat /\ DOMAIN Taken = 1..Len(Taken)
           /\ \A p : Book!VersionIn(Taken, p) \in Nat
<1>1. log \in Seq(Event)
  BY DEF Base, TypeOK
<1>2. \A p : Book!VersionIn(Taken, p) = VersionIn(log, p)
  BY <1>1, BookOfLog DEF Taken
<1>3. \A p : VersionIn(log, p) \in Nat
  BY <1>1, EventsAt
<1> QED
  BY <1>1, <1>2, <1>3, BookOfLog DEF Taken

LEMMA BookStepsInOrder ==
    ASSUME Base, OneBook, [Book!Next]_(Book!vars)
    PROVE  OneBook'
<1>1. /\ Taken \in Seq(Clients) /\ Len(Taken) \in Nat /\ DOMAIN Taken = 1..Len(Taken)
      /\ \A p : Book!VersionIn(Taken, p) \in Nat
      /\ DOMAIN expected = Clients /\ DOMAIN told = Clients /\ None \notin Nat
  BY TakenType, ConstantsAssumption DEF Base, TypeOK
<1>2. CASE UNCHANGED Book!vars
  <2>1. Taken' = Taken /\ expected' = expected /\ told' = told
    BY <1>2 DEF Book!vars, Taken, BookOf
  <2> QED
    BY <2>1 DEF OneBook, Before
<1>3. ASSUME NEW c \in Clients, Book!Read(c) PROVE OneBook'
  <2>1. /\ Taken' = Taken /\ told' = told /\ expected[c] = None
        /\ \A d \in Clients : d # c => expected'[d] = expected[d]
    BY <1>1, <1>3 DEF Book!Read, Taken, BookOf
  <2>2. \A i \in DOMAIN Taken : Taken[i] # c /\ expected'[Taken[i]] = expected[Taken[i]]
    BY <1>1, <2>1 DEF OneBook
  <2> QED
    BY <2>1, <2>2 DEF OneBook, Before
<1>4. ASSUME NEW c \in Clients, Book!Enter(c) PROVE OneBook'
  <2>0. PICK n \in Nat : n = Len(Taken)
    BY <1>1, Zenon
  <2>1. /\ Taken' = Append(Taken, c) /\ expected' = expected /\ told' = told
        /\ told[c] = "nothing" /\ expected[c] = Book!VersionIn(Taken, Request[c].plan)
        /\ \A i \in DOMAIN Taken : Request[Taken[i]].key # Request[c].key
    BY <1>4 DEF Book!Enter, Book!HasKey, Taken, BookOf
  <2>2. /\ Taken' \in Seq(Clients) /\ DOMAIN Taken' = 1..(n + 1) /\ Taken'[n + 1] = c /\ n \in Nat
        /\ \A i \in 1..n : Taken'[i] = Taken[i] /\ SubSeq(Taken', 1, i - 1) = SubSeq(Taken, 1, i - 1)
        /\ SubSeq(Taken', 1, (n + 1) - 1) = Taken
        /\ \A i \in 1..(n + 1) : i # n + 1 => i \in 1..n
    <3>1. /\ Taken' \in Seq(Clients) /\ DOMAIN Taken' = 1..(n + 1) /\ Taken'[n + 1] = c /\ n \in Nat
          /\ \A i \in 1..n : Taken'[i] = Taken[i]
          /\ \A i \in 1..(n + 1) : i # n + 1 => i \in 1..n
      BY <1>1, <2>0, <2>1
    <3>2. ASSUME NEW i \in 1..n PROVE SubSeq(Taken', 1, i - 1) = SubSeq(Taken, 1, i - 1)
      <4>1. SubSeq(Taken', 1, i - 1) = [j \in 1..(i - 1) |-> Taken'[j]]
        BY <3>1
      <4>2. SubSeq(Taken, 1, i - 1) = [j \in 1..(i - 1) |-> Taken[j]]
        BY <1>1, <2>0
      <4>3. \A j \in 1..(i - 1) : Taken'[j] = Taken[j]
        BY <3>1
      <4> QED
        BY <4>1, <4>2, <4>3
    <3>3. SubSeq(Taken', 1, (n + 1) - 1) = Taken
      BY <1>1, <2>0, <2>1, <3>1
    <3> QED
      BY <3>1, <3>2, <3>3
  <2>3. \A i \in 1..n : Taken'[i] = Taken[i] /\ Before(i)' = Before(i)
    BY <2>2 DEF Before
  <2>4. Before(n + 1)' = Book!VersionIn(Taken, Request[c].plan)
    BY <2>2 DEF Before
  <2>5. DOMAIN Taken = 1..n
    BY <1>1, <2>0
  <2>6. \A i, j \in DOMAIN Taken' : Request[Taken'[i]].key = Request[Taken'[j]].key => i = j
    BY <2>1, <2>2, <2>5 DEF OneBook
  <2>7. \A i \in DOMAIN Taken' : expected'[Taken'[i]] # None /\ expected'[Taken'[i]] = Before(i)'
    BY <1>1, <2>1, <2>2, <2>3, <2>4, <2>5 DEF OneBook
  <2>8. ASSUME NEW d \in Clients
        PROVE  /\ told'[d] = "success" => \E i \in DOMAIN Taken' : Request[Taken'[i]] = Request[d]
               /\ told'[d] = "rejected" => \A i \in DOMAIN Taken' : Taken'[i] # d
    BY <2>1, <2>2, <2>5 DEF OneBook
  <2> QED
    BY <2>6, <2>7, <2>8 DEF OneBook
<1>5. ASSUME NEW c \in Clients, Book!TellSuccess(c) \/ Book!TellRejected(c) PROVE OneBook'
  <2>1. Taken' = Taken /\ expected' = expected
    BY <1>5 DEF Book!TellSuccess, Book!TellRejected, Taken, BookOf
  <2>2. /\ \A d \in Clients : d # c => told'[d] = told[d]
        /\ told'[c] = "success" => \E i \in DOMAIN Taken : Request[Taken[i]] = Request[c]
        /\ told'[c] = "rejected" => \A i \in DOMAIN Taken : Taken[i] # c
    BY <1>1, <1>5 DEF Book!TellSuccess, Book!TellRejected, Taken, BookOf
  <2> QED
    BY <2>1, <2>2 DEF OneBook, Before
<1> QED
  BY <1>2, <1>3, <1>4, <1>5 DEF Book!Next

(* Through any failures, retries and restarts: no two events have a key in *)
(* common, each happened on the version that its client had read, and what *)
(* a client was told stays true.                                           *)
THEOREM LogIsOneBook == Spec => []OneBook
<1>1. Book!Init => OneBook
  <2> SUFFICES ASSUME Book!Init PROVE OneBook
    OBVIOUS
  <2>1. Taken = << >> /\ \A c \in Clients : told[c] = "nothing"
    BY DEF Book!Init, Taken, BookOf
  <2> QED
    BY <2>1 DEF OneBook
<1>2. Base /\ OneBook /\ [Book!Next]_(Book!vars) => OneBook'
  BY BookStepsInOrder
<1> QED
  BY <1>1, <1>2, InvariantHolds, ServiceKeepsBook, PTL DEF KeepsBook, Book!Spec

-----------------------------------------------------------------------------
(* Credentials, their seals and their verification. *)

Grows(new, old) == Len(new) >= Len(old) /\ \A i \in 1..Len(old) : new[i] = old[i]

SealedFor(ch, c, n) ==
    \E k \in DOMAIN ch : ch[k] = [action |-> Sealed, client |-> c, credential |-> n]

(* The credential of a handler is the last one, and new to the log. *)
Fresh(c) ==
    /\ Request[c].action = Issue
    /\ Len(creds) > 0 /\ job[c].credential = Len(creds)
    /\ creds[Len(creds)] = Request[c].plan
    /\ \A i \in 1..Len(log) : log[i].credential < Len(creds)

JobsVouched ==
    \A c \in Clients :
        /\ At(c, "issue") => Request[c].action = Issue
        /\ At(c, "seal") => Fresh(c)
        /\ At(c, "write") /\ Request[c].action = Issue =>
              Fresh(c) /\ SealedFor(chain, c, job[c].credential)
        /\ At(c, "write") /\ Request[c].action # Issue => job[c].credential = 0

ReaderRight ==
    reader # None =>
        /\ reader.stage # "invalid" /\ reader.credential # 0
        /\ \E i \in 1..Len(log) : log[i].credential = reader.credential /\ PlanAt(i) = reader.plan

Vouching == CredentialsVouched /\ JobsVouched /\ ReaderRight

(* The first half of CredentialsVouched, for one event. *)
EventVouched(i) ==
    LET n == log[i].credential IN
    /\ n # 0 <=> Request[log[i].client].action = Issue
    /\ n # 0 => n <= Len(creds) /\ creds[n] = PlanAt(i) /\ SealedFor(chain, log[i].client, n)

InOrder ==
    \A i, j \in DOMAIN log :
        i < j /\ log[i].credential # 0 /\ log[j].credential # 0 =>
            log[i].credential < log[j].credential

LEMMA VouchedParts == CredentialsVouched <=> (\A i \in DOMAIN log : EventVouched(i)) /\ InOrder
BY DEF CredentialsVouched, EventVouched, InOrder, SealedFor

(* Credentials and seals that are added disturb no event. *)
LEMMA VouchedKept ==
    ASSUME Base, CredentialsVouched, log' = log, Grows(creds', creds), Grows(chain', chain),
           creds' \in Seq(Plans), chain' \in Seq(Record)
    PROVE  CredentialsVouched'
<1>1. /\ log \in Seq(Event) /\ Len(creds) \in Nat /\ Len(creds') \in Nat
      /\ DOMAIN chain = 1..Len(chain) /\ DOMAIN chain' = 1..Len(chain')
      /\ Len(chain) \in Nat /\ Len(chain') \in Nat
  BY DEF Base, TypeOK
<1>2. ASSUME NEW c, NEW n, SealedFor(chain, c, n) PROVE SealedFor(chain', c, n)
  BY <1>1, <1>2 DEF SealedFor, Grows
<1>3. ASSUME NEW i \in DOMAIN log
      PROVE  EventVouched(i)'
  <2>1. EventVouched(i) /\ log[i] \in Event
    BY <1>1, VouchedParts
  <2>2. log[i].credential \in Nat
    BY <2>1 DEF Event
  <2> QED
    BY <1>1, <1>2, <2>1, <2>2 DEF EventVouched, PlanAt, Grows
<1>4. InOrder'
  BY VouchedParts DEF InOrder
<1>5. \A i \in DOMAIN log' : EventVouched(i)'
  BY <1>3
<1> QED
  BY <1>4, <1>5 DEF CredentialsVouched, EventVouched, InOrder, SealedFor

LEMMA ReaderKept ==
    ASSUME Base, ReaderRight, reader' = reader, Grows(log', log), log' \in Seq(Event)
    PROVE  ReaderRight'
<1>1. Len(log) \in Nat /\ Len(log') \in Nat
  BY DEF Base, TypeOK
<1> QED
  BY <1>1 DEF ReaderRight, Grows, PlanAt

(* A job that goes on unchanged, or ends. *)
LEMMA JobsKept ==
    ASSUME JobsVouched, UNCHANGED <<log, creds, chain>>,
           \A c \in Clients : job'[c] = job[c] \/ job'[c] = None
    PROVE  JobsVouched'
BY DEF JobsVouched, At, Fresh

LEMMA GrowsSame == ASSUME NEW S, NEW s \in Seq(S) PROVE Grows(s, s)
<1>1. Len(s) \in Nat
  OBVIOUS
<1> QED
  BY <1>1 DEF Grows

LEMMA GrowsAppend == ASSUME NEW S, NEW s \in Seq(S), NEW e \in S PROVE Grows(Append(s, e), s)
<1>1. /\ Len(s) \in Nat /\ Len(Append(s, e)) = Len(s) + 1
      /\ \A j \in 1..Len(s) : Append(s, e)[j] = s[j]
  BY Longer
<1> QED
  BY <1>1 DEF Grows

LEMMA StoresSame ==
    ASSUME Base, Vouching, UNCHANGED <<log, creds, chain>>
    PROVE  CredentialsVouched' /\ (reader' = reader => ReaderRight')
<1>1. log \in Seq(Event) /\ creds \in Seq(Plans) /\ chain \in Seq(Record)
  BY DEF Base, TypeOK
<1>2. Grows(log, log) /\ Grows(creds, creds) /\ Grows(chain, chain)
  BY <1>1, GrowsSame
<1> QED
  BY <1>1, <1>2, VouchedKept, ReaderKept DEF Vouching

LEMMA LockVouching == ASSUME Base, Vouching, NEW c \in Clients, Lock(c) PROVE Vouching'
<1>1. /\ UNCHANGED <<reader, log, creds, chain>>
      /\ \A d \in Clients : job[d] = None
      /\ \/ job' = job
         \/ job' = [job EXCEPT ![c] = [stage |-> IF Request[c].action = Issue THEN "issue" ELSE "write",
                                       credential |-> 0]]
  BY DEF Lock, MutexFree, clients, stores
<1>2. \A d \in Clients : job'[d] # None =>
         /\ d = c /\ job'[c].credential = 0
         /\ job'[c].stage = IF Request[c].action = Issue THEN "issue" ELSE "write"
  BY <1>1 DEF Base, TypeOK
<1>3. JobsVouched'
  BY <1>2 DEF JobsVouched, At
<1> QED
  BY <1>1, <1>3, StoresSame DEF Vouching

LEMMA IssueCredentialVouching ==
    ASSUME Base, Vouching, NEW c \in Clients, IssueCredential(c)
    PROVE  Vouching'
<1>1. /\ creds' = Append(creds, Request[c].plan)
      /\ job' = [job EXCEPT ![c] = [stage |-> "seal", credential |-> Len(creds) + 1]]
      /\ UNCHANGED <<reader, log, chain>> /\ At(c, "issue")
  BY StageAfter DEF IssueCredential, clients
<1>2. /\ log \in Seq(Event) /\ creds \in Seq(Plans) /\ chain \in Seq(Record)
      /\ Request[c].plan \in Plans
  BY DEF Base, TypeOK, Plans
<1>3. /\ Len(creds) \in Nat /\ creds' \in Seq(Plans) /\ Len(creds') = Len(creds) + 1
      /\ creds'[Len(creds) + 1] = Request[c].plan
      /\ Grows(creds', creds) /\ Grows(log, log) /\ Grows(chain, chain)
  BY <1>1, <1>2, Longer, GrowsAppend, GrowsSame
<1>4. CredentialsVouched' /\ ReaderRight'
  BY <1>1, <1>2, <1>3, VouchedKept, ReaderKept DEF Vouching
<1>5. \A i \in 1..Len(log) : log[i].credential < Len(creds')
  <2> TAKE i \in 1..Len(log)
  <2>1. EventVouched(i) /\ log[i] \in Event
    BY <1>2, VouchedParts DEF Vouching
  <2>2. log[i].credential \in Nat /\ log[i].credential <= Len(creds)
    BY <1>3, <2>1 DEF EventVouched, Event
  <2> QED
    BY <1>3, <2>2
<1>6. job[c] # None /\ Request[c].action = Issue
  BY <1>1 DEF At, Vouching, JobsVouched
<1>7. \A d \in Clients : job'[d] # None =>
         d = c /\ job'[c].stage = "seal" /\ job'[c].credential = Len(creds')
  BY <1>1, <1>3, <1>6, Holder DEF Base, TypeOK
<1>8. JobsVouched'
  BY <1>1, <1>3, <1>5, <1>6, <1>7 DEF JobsVouched, At, Fresh
<1> QED
  BY <1>4, <1>8 DEF Vouching

LEMMA SealCredentialVouching ==
    ASSUME Base, Vouching, NEW c \in Clients, SealCredential(c)
    PROVE  Vouching'
<1> DEFINE r == [action |-> Sealed, client |-> c, credential |-> job[c].credential]
<1>1. /\ chain' = Append(chain, r) /\ job' = [job EXCEPT ![c].stage = "write"]
      /\ UNCHANGED <<reader, log, creds>> /\ At(c, "seal") /\ job[c] # None
  BY StageAfter DEF SealCredential, Proceed, At, clients
<1>2. /\ log \in Seq(Event) /\ creds \in Seq(Plans) /\ chain \in Seq(Record) /\ r \in Record
  BY <1>1, Holder DEF Base, TypeOK, Record
<1>3. /\ chain' \in Seq(Record) /\ Len(chain) \in Nat /\ Len(chain') = Len(chain) + 1
      /\ chain'[Len(chain) + 1] = r
      /\ Grows(chain', chain) /\ Grows(log, log) /\ Grows(creds, creds)
  BY <1>1, <1>2, Longer, GrowsAppend, GrowsSame
<1>4. CredentialsVouched' /\ ReaderRight'
  BY <1>1, <1>2, <1>3, VouchedKept, ReaderKept DEF Vouching
<1>5. Fresh(c)
  BY <1>1 DEF Vouching, JobsVouched
<1>6. \A d \in Clients : job'[d] # None =>
         d = c /\ job'[c].stage = "write" /\ job'[c].credential = job[c].credential
  BY <1>1, Holder DEF Base, TypeOK, Job
<1>7. SealedFor(chain', c, job[c].credential)
  BY <1>3 DEF SealedFor
<1>8. Request[c].action = Issue
  BY <1>5 DEF Fresh
<1>9. job'[c] # None => job'[c].credential = Len(creds')
  BY <1>1, <1>5, <1>6 DEF Fresh
<1>10. JobsVouched'
  BY <1>1, <1>5, <1>6, <1>7, <1>8, <1>9 DEF JobsVouched, At, Fresh
<1> QED
  BY <1>4, <1>10 DEF Vouching

LEMMA WriteEventVouching ==
    ASSUME Base, Vouching, NEW c \in Clients, WriteEvent(c)
    PROVE  Vouching'
<1> DEFINE e == [client |-> c, credential |-> job[c].credential]
           n == Len(log) + 1
<1>1. /\ log' = Append(log, e) /\ job' = [job EXCEPT ![c].stage = "apply"]
      /\ UNCHANGED <<reader, creds, chain>> /\ At(c, "write") /\ job[c] # None
  BY StageAfter DEF WriteEvent, Proceed, At, clients
<1>2. log \in Seq(Event) /\ e \in Event
  BY <1>1, Holder DEF Base, TypeOK, Event
<1>3. /\ log' \in Seq(Event) /\ Len(log) \in Nat /\ Len(log') = n /\ log'[n] = e
      /\ \A i \in 1..Len(log) : log'[i] = log[i]
      /\ Grows(log', log)
  BY <1>1, <1>2, Longer, GrowsAppend
<1>4. ReaderRight'
  BY <1>1, <1>3, ReaderKept DEF Vouching
<1>5. \A d \in Clients : job'[d] # None => d = c /\ job'[c].stage = "apply"
  BY <1>1, Holder DEF Base, TypeOK, Job
<1>6. JobsVouched'
  BY <1>5 DEF JobsVouched, At
<1>7. DOMAIN log = 1..Len(log) /\ DOMAIN log' = 1..n /\ \A i \in 1..n : i \in 1..Len(log) \/ i = n
  BY <1>2, <1>3
<1>8. /\ Request[c].action = Issue => Fresh(c) /\ SealedFor(chain, c, job[c].credential)
      /\ Request[c].action # Issue => job[c].credential = 0
  BY <1>1 DEF Vouching, JobsVouched
<1>9. Len(creds) \in Nat
  BY DEF Base, TypeOK
<1>10. ASSUME NEW i \in 1..n PROVE EventVouched(i)'
  <2>1. CASE i \in 1..Len(log)
    <3>1. EventVouched(i)
      BY <1>7, <2>1, VouchedParts DEF Vouching
    <3> QED
      BY <1>1, <1>3, <2>1, <3>1 DEF EventVouched, PlanAt
  <2>2. CASE i = n
    <3>1. log'[i].client = c /\ log'[i].credential = job[c].credential
      BY <1>3, <2>2
    <3> QED
      BY <1>1, <1>8, <1>9, <3>1 DEF EventVouched, PlanAt, Fresh
  <2> QED
    BY <1>7, <2>1, <2>2
<1>11. ASSUME NEW i \in 1..n, NEW j \in 1..n, i < j,
              log'[i].credential # 0, log'[j].credential # 0
       PROVE  log'[i].credential < log'[j].credential
  <2>1. i \in 1..Len(log)
    BY <1>3, <1>11
  <2>2. CASE j \in 1..Len(log)
    BY <1>3, <1>7, <1>11, <2>1, <2>2, VouchedParts DEF Vouching, InOrder
  <2>3. CASE j = n
    <3>1. log'[j].credential = job[c].credential /\ job[c].credential # 0
      BY <1>3, <1>11, <2>3
    <3>2. Fresh(c)
      BY <1>8, <3>1
    <3> QED
      BY <1>3, <2>1, <3>1, <3>2 DEF Fresh
  <2> QED
    BY <1>7, <2>2, <2>3
<1>12. CredentialsVouched'
  BY <1>7, <1>10, <1>11 DEF CredentialsVouched, EventVouched, SealedFor
<1> QED
  BY <1>4, <1>6, <1>12 DEF Vouching

LEMMA AppendRecordVouching ==
    ASSUME Base, Vouching, NEW c \in Clients, AppendRecord(c)
    PROVE  Vouching'
<1> DEFINE r == [action |-> Request[c].action, client |-> c, credential |-> job[c].credential]
<1>1. /\ chain' = Append(chain, r) /\ job' = [job EXCEPT ![c] = None]
      /\ UNCHANGED <<reader, log, creds>> /\ At(c, "append") /\ job[c] # None
  BY DEF AppendRecord, Return, At, clients
<1>2. /\ log \in Seq(Event) /\ creds \in Seq(Plans) /\ chain \in Seq(Record) /\ r \in Record
  BY <1>1, Holder DEF Base, TypeOK, Record
<1>3. chain' \in Seq(Record) /\ Grows(chain', chain) /\ Grows(log, log) /\ Grows(creds, creds)
  BY <1>1, <1>2, Longer, GrowsAppend, GrowsSame
<1>4. CredentialsVouched' /\ ReaderRight'
  BY <1>1, <1>2, <1>3, VouchedKept, ReaderKept DEF Vouching
<1>5. \A d \in Clients : job'[d] = None
  BY <1>1, Holder DEF Base, TypeOK
<1>6. JobsVouched'
  BY <1>5 DEF JobsVouched, At
<1> QED
  BY <1>4, <1>6 DEF Vouching

LEMMA ApplyEventVouching ==
    ASSUME Base, Vouching, NEW c \in Clients, ApplyEvent(c)
    PROVE  Vouching'
<1>1. /\ job' = [job EXCEPT ![c].stage = "append"]
      /\ UNCHANGED <<reader, log, creds, chain>> /\ At(c, "apply") /\ job[c] # None
  BY StageAfter DEF ApplyEvent, Proceed, At, clients
<1>2. \A d \in Clients : job'[d] # None => d = c /\ job'[c].stage = "append"
  BY <1>1, Holder DEF Base, TypeOK, Job
<1>3. JobsVouched'
  BY <1>2 DEF JobsVouched, At
<1> QED
  BY <1>1, <1>3, StoresSame DEF Vouching

LEMMA HandlerReturnsVouching ==
    ASSUME Base, Vouching, NEW c \in Clients,
           StoreClosed(c) \/ CallFails(c) \/ SnapshotFails(c)
    PROVE  Vouching'
<1>1. job' = [job EXCEPT ![c] = None] /\ UNCHANGED <<reader, log, creds, chain>>
  BY DEF StoreClosed, CallFails, SnapshotFails, Return, clients, stores
<1>2. \A d \in Clients : job'[d] = job[d] \/ job'[d] = None
  BY <1>1 DEF Base, TypeOK
<1> QED
  BY <1>1, <1>2, StoresSame, JobsKept DEF Vouching

(* What a verification finds at each of its three steps. *)
LEMMA ReaderVouching ==
    ASSUME Base, Vouching,
           (\E n \in 1..Len(creds) : FindCredential(n)) \/ VerifyCredential \/ VerifySeal
    PROVE  Vouching'
<1>1. UNCHANGED <<job, log, creds, chain>>
  BY DEF FindCredential, VerifyCredential, VerifySeal, clients, stores
<1>2. CredentialsVouched' /\ JobsVouched'
  BY <1>1, StoresSame, JobsKept DEF Vouching
<1>3. log \in Seq(Event) /\ Len(log) \in Nat /\ applied \in Nat /\ applied <= Len(log)
      /\ DOMAIN log = 1..Len(log)
  BY DEF Base, TypeOK
<1>4. ReaderRight'
  <2>1. ASSUME NEW n \in 1..Len(creds), FindCredential(n) PROVE ReaderRight'
    <3>1. PICK i \in 1..applied :
             /\ log[i].credential = n
             /\ reader' = [credential |-> n, plan |-> PlanAt(i), stage |-> "log"]
      BY <2>1 DEF FindCredential
    <3>2. i \in 1..Len(log) /\ n # 0
      BY <1>3
    <3> QED
      BY <1>1, <3>1, <3>2 DEF ReaderRight, PlanAt
  <2>2. ASSUME reader # None
        PROVE  /\ reader.credential <= Len(creds) /\ creds[reader.credential] = reader.plan
               /\ \E i \in DOMAIN chain :
                     /\ chain[i].action = Sealed /\ chain[i].credential = reader.credential
                     /\ Request[chain[i].client].plan = reader.plan
    <3>1. PICK i \in 1..Len(log) :
             log[i].credential = reader.credential /\ PlanAt(i) = reader.plan
      BY <2>2 DEF Vouching, ReaderRight
    <3>2. EventVouched(i) /\ reader.credential # 0
      BY <1>3, <2>2, VouchedParts DEF Vouching, ReaderRight
    <3>3. SealedFor(chain, log[i].client, reader.credential)
      BY <3>1, <3>2 DEF EventVouched
    <3> QED
      BY <3>1, <3>2, <3>3 DEF EventVouched, SealedFor, PlanAt
  <2>3. CASE VerifyCredential
    <3>1. reader # None /\ reader' = [reader EXCEPT !.stage = "timeline"]
      BY <2>2, <2>3 DEF VerifyCredential
    <3>2. reader \in Reading
      BY <3>1 DEF Base, TypeOK
    <3>3. /\ reader'.stage = "timeline" /\ reader'.credential = reader.credential
          /\ reader'.plan = reader.plan
      BY <3>1, <3>2 DEF Reading
    <3> QED
      BY <1>1, <3>1, <3>3 DEF Vouching, ReaderRight, PlanAt
  <2>4. CASE VerifySeal
    <3>1. reader' = None
      BY <2>2, <2>4 DEF VerifySeal
    <3> QED
      BY <3>1 DEF ReaderRight
  <2> QED
    BY <2>1, <2>3, <2>4
<1> QED
  BY <1>2, <1>4 DEF Vouching

LEMMA VouchingStep == Base /\ Vouching /\ [Next]_vars => Vouching'
<1> SUFFICES ASSUME Base, Vouching, [Next]_vars PROVE Vouching'
  OBVIOUS
<1>1. ASSUME UNCHANGED <<log, creds, chain>>, reader' = reader \/ reader' = None,
             \A c \in Clients : job'[c] = job[c] \/ job'[c] = None
      PROVE  Vouching'
  BY <1>1, StoresSame, JobsKept DEF Vouching, ReaderRight
<1>2. CASE UNCHANGED vars
  BY <1>1, <1>2 DEF vars
<1>3. ASSUME NEW c \in Clients, Submit(c) \/ Retry(c) \/ Deliver(c)
      PROVE  Vouching'
  BY <1>1, <1>3 DEF Submit, Retry, Deliver, server, stores
<1>4. CASE LoseAnswer \/ Start \/ Shutdown \/ CloseRepository \/ CloseAudit \/ Exit \/ Kill
  <2>1. UNCHANGED <<log, creds, chain>> /\ (reader' = reader \/ reader' = None)
    BY <1>4 DEF LoseAnswer, Start, Shutdown, CloseRepository, CloseAudit, Exit, Kill, Ends,
       clients, server, stores
  <2>2. \A c \in Clients : job'[c] = job[c] \/ job'[c] = None
    BY <1>4, BesideKeeps DEF Beside
  <2> QED
    BY <1>1, <2>1, <2>2
<1> QED
  BY <1>2, <1>3, <1>4, LockVouching, IssueCredentialVouching, SealCredentialVouching,
     WriteEventVouching, ApplyEventVouching, AppendRecordVouching, HandlerReturnsVouching,
     ReaderVouching DEF Next, Work

LEMMA VouchingHolds == Spec => []Vouching
<1>1. Init => Vouching
  BY DEF Init, Vouching, CredentialsVouched, JobsVouched, ReaderRight, At
<1>2. (Base /\ Ledger) /\ Vouching /\ [Next]_vars => Vouching'
  BY VouchingStep
<1> QED
  BY <1>1, <1>2, InvariantHolds, PTL DEF Spec

(* A credential that a plan holds was issued for it and sealed before the  *)
(* plan was stored, whatever fails and however often commands are sent.    *)
THEOREM PlansCredentialsVouched == Spec => []CredentialsVouched
<1>1. Vouching => CredentialsVouched
  BY DEF Vouching
<1> QED
  BY <1>1, VouchingHolds, PTL

(* A verification beside the handlers, without their mutex, never calls a  *)
(* credential invalid that a plan holds.                                   *)
THEOREM VerificationRight == Spec => []NoFalseAlarm
<1>1. Vouching => NoFalseAlarm
  BY DEF Vouching, ReaderRight, NoFalseAlarm
<1> QED
  BY <1>1, VouchingHolds, PTL

-----------------------------------------------------------------------------
(* The chain of audit records and the log of events. *)

(* The event that is being committed has no record yet. *)
NotYetRecorded ==
    \A c \in Clients : Entering(c) =>
        \A k \in DOMAIN chain : Recorded(chain[k]) => chain[k].client # c

Following == AuditFollowsLog /\ NotYetRecorded

LEMMA FollowingKept ==
    ASSUME Following, UNCHANGED <<log, chain>>, \A c \in Clients : Entering(c)' => Entering(c)
    PROVE  Following'
BY DEF Following, AuditFollowsLog, NotYetRecorded

LEMMA SealCredentialFollowing ==
    ASSUME Base, Following, NEW c \in Clients, SealCredential(c)
    PROVE  Following'
<1> DEFINE r == [action |-> Sealed, client |-> c, credential |-> job[c].credential]
<1>1. /\ chain' = Append(chain, r) /\ job' = [job EXCEPT ![c].stage = "write"]
      /\ log' = log /\ job[c] # None
  BY StageAfter DEF SealCredential, Proceed, At, clients
<1>2. chain \in Seq(Record) /\ r \in Record /\ ~ Recorded(r)
  BY <1>1, Holder DEF Base, TypeOK, Record, Recorded
<1>3. /\ Len(chain) \in Nat /\ DOMAIN chain = 1..Len(chain)
      /\ DOMAIN chain' = 1..Len(chain) + 1 /\ chain'[Len(chain) + 1] = r
      /\ \A k \in 1..Len(chain) : chain'[k] = chain[k]
  BY <1>1, <1>2, Longer
<1> HIDE DEF r
<1>4. \A k \in DOMAIN chain' : Recorded(chain'[k]) => k \in DOMAIN chain /\ chain'[k] = chain[k]
  <2> TAKE k \in DOMAIN chain'
  <2>1. k \in 1..Len(chain) \/ k = Len(chain) + 1
    BY <1>3
  <2> QED
    BY <1>2, <1>3, <2>1
<1>5. AuditFollowsLog'
  BY <1>1, <1>4 DEF Following, AuditFollowsLog
<1>6. \A d \in Clients : ~ Entering(d)'
  BY <1>1, Holder DEF Entering, At, Base, TypeOK, Job
<1> QED
  BY <1>5, <1>6 DEF Following, NotYetRecorded

LEMMA WriteEventFollowing ==
    ASSUME Base, Ledger, Following, NEW c \in Clients, WriteEvent(c)
    PROVE  Following'
<1> DEFINE e == [client |-> c, credential |-> job[c].credential]
<1>1. /\ log' = Append(log, e) /\ job' = [job EXCEPT ![c].stage = "apply"]
      /\ chain' = chain /\ job[c] # None /\ Acceptable(c)
  BY StageAfter DEF WriteEvent, Proceed, At, clients, Ledger, Deciding
<1>2. log \in Seq(Event) /\ e \in Event
  BY <1>1, Holder DEF Base, TypeOK, Event
<1>3. /\ DOMAIN log = 1..Len(log) /\ Len(log) \in Nat /\ DOMAIN log' = 1..Len(log) + 1
      /\ \A i \in 1..Len(log) : log'[i] = log[i]
  BY <1>1, <1>2, Longer
<1>4. \A i \in DOMAIN log : i \in DOMAIN log' /\ log'[i] = log[i]
  BY <1>3
<1>5. AuditFollowsLog'
  BY <1>1, <1>4 DEF Following, AuditFollowsLog
<1>6. \A d \in Clients : Entering(d)' => d = c
  BY <1>1, Holder DEF Entering, At, Base, TypeOK, Job
<1>7. \A i \in DOMAIN log : log[i].client # c
  BY <1>1, <1>3 DEF Acceptable, HasKeyIn
<1>8. \A k \in DOMAIN chain : Recorded(chain[k]) => chain[k].client # c
  BY <1>7 DEF Following, AuditFollowsLog
<1> QED
  BY <1>1, <1>5, <1>6, <1>8 DEF Following, NotYetRecorded

LEMMA AppendRecordFollowing ==
    ASSUME Base, Ledger, Following, NEW c \in Clients, AppendRecord(c)
    PROVE  Following'
<1> DEFINE r == [action |-> Request[c].action, client |-> c, credential |-> job[c].credential]
           n == Len(chain) + 1
<1>1. /\ chain' = Append(chain, r) /\ job' = [job EXCEPT ![c] = None]
      /\ log' = log /\ job[c] # None /\ Entering(c)
  BY DEF AppendRecord, Return, At, clients, Entering
<1>2. chain \in Seq(Record) /\ r \in Record
  BY <1>1, Holder DEF Base, TypeOK, Record
<1>3. /\ Len(chain) \in Nat /\ DOMAIN chain = 1..Len(chain)
      /\ DOMAIN chain' = 1..n /\ chain'[n] = r
      /\ \A k \in 1..Len(chain) : chain'[k] = chain[k]
  BY <1>1, <1>2, Longer
<1>4. /\ Len(log) \in Nat /\ Len(log) > 0 /\ DOMAIN log = 1..Len(log)
      /\ log[Len(log)] = [client |-> c, credential |-> job[c].credential]
  <2>1. Len(log) \in Nat /\ DOMAIN log = 1..Len(log)
    BY DEF Base, TypeOK
  <2>2. Len(log) > 0 /\ log[Len(log)] = [client |-> c, credential |-> job[c].credential]
    BY <1>1 DEF Ledger
  <2> QED
    BY <2>1, <2>2
<1>5. ASSUME NEW k \in 1..Len(chain), Recorded(chain[k])
      PROVE  \E i \in DOMAIN log : i < Len(log) /\ log[i].client = chain[k].client
  <2>1. chain[k].client # c
    BY <1>1, <1>3, <1>5 DEF Following, NotYetRecorded
  <2>2. PICK i \in DOMAIN log : log[i] = [client |-> chain[k].client, credential |-> chain[k].credential]
    BY <1>3, <1>5 DEF Following, AuditFollowsLog
  <2>3. i # Len(log)
    BY <1>4, <2>1, <2>2
  <2> QED
    BY <1>4, <2>2, <2>3
<1>6. ASSUME NEW k \in 1..n, Recorded(chain'[k])
      PROVE  \E i \in DOMAIN log :
                log[i] = [client |-> chain'[k].client, credential |-> chain'[k].credential]
  <2>1. CASE k \in 1..Len(chain)
    BY <1>3, <1>6, <2>1 DEF Following, AuditFollowsLog
  <2>2. CASE k = n
    <3>1. chain'[k].client = c /\ chain'[k].credential = job[c].credential
      BY <1>3, <2>2
    <3> QED
      BY <1>4, <3>1
  <2> QED
    BY <1>3, <2>1, <2>2
<1>7. ASSUME NEW k \in 1..n, NEW l \in 1..n, k < l, Recorded(chain'[k]), Recorded(chain'[l])
      PROVE  \E i, j \in DOMAIN log :
                i < j /\ log[i].client = chain'[k].client /\ log[j].client = chain'[l].client
  <2>1. k \in 1..Len(chain) /\ chain'[k] = chain[k]
    BY <1>3, <1>7
  <2>2. CASE l \in 1..Len(chain)
    BY <1>3, <1>7, <2>1, <2>2 DEF Following, AuditFollowsLog
  <2>3. CASE l = n
    <3>1. chain'[l].client = c /\ log[Len(log)].client = c /\ Len(log) \in DOMAIN log
      BY <1>3, <1>4, <2>3
    <3> QED
      BY <1>5, <1>7, <2>1, <3>1
  <2> QED
    BY <1>3, <2>2, <2>3
<1>8. AuditFollowsLog'
  BY <1>1, <1>3, <1>6, <1>7 DEF AuditFollowsLog
<1>9. \A d \in Clients : ~ Entering(d)'
  BY <1>1, Holder DEF Entering, At, Base, TypeOK
<1> QED
  BY <1>8, <1>9 DEF Following, NotYetRecorded

LEMMA FollowingStep == Base /\ Ledger /\ Following /\ [Next]_vars => Following'
<1> SUFFICES ASSUME Base, Ledger, Following, [Next]_vars PROVE Following'
  OBVIOUS
<1>1. CASE UNCHANGED vars
  BY <1>1, FollowingKept DEF vars, Entering, At
<1>2. CASE Beside
  BY <1>2, BesideKeeps, FollowingKept DEF Entering, At
<1>3. ASSUME NEW c \in Clients, Submit(c) \/ Deliver(c)
      PROVE  Following'
  BY <1>3, FollowingKept DEF Submit, Deliver, server, stores, Entering, At
<1>4. ASSUME NEW c \in Clients,
             Lock(c) \/ IssueCredential(c) \/ ApplyEvent(c)
                \/ StoreClosed(c) \/ CallFails(c) \/ SnapshotFails(c)
      PROVE  Following'
  <2>1. UNCHANGED <<log, chain>>
    BY <1>4 DEF Lock, IssueCredential, ApplyEvent, StoreClosed, CallFails, SnapshotFails,
       clients, stores
  <2>2. \A d \in Clients : Entering(d)' => Entering(d)
    BY <1>4, StageAfter DEF Lock, IssueCredential, ApplyEvent, StoreClosed, CallFails,
       SnapshotFails, Proceed, Return, Entering, At, Base, TypeOK, Job
  <2> QED
    BY <2>1, <2>2, FollowingKept
<1> QED
  BY <1>1, <1>2, <1>3, <1>4, NextCases, SealCredentialFollowing, WriteEventFollowing,
     AppendRecordFollowing

LEMMA FollowingHolds == Spec => []Following
<1>1. Init => Following
  BY DEF Init, Following, AuditFollowsLog, NotYetRecorded, Entering, At
<1>2. (Base /\ Ledger) /\ Following /\ [Next]_vars => Following'
  BY FollowingStep
<1> QED
  BY <1>1, <1>2, InvariantHolds, PTL DEF Spec

(* The chain of records tells of commands that the log has, and in the     *)
(* log's order, whatever the chain lacks.                                  *)
THEOREM ChainFollowsLog == Spec => []AuditFollowsLog
<1>1. Following => AuditFollowsLog
  BY DEF Following
<1> QED
  BY <1>1, FollowingHolds, PTL

-----------------------------------------------------------------------------
(* How many events have no record. *)

Committing == \E c \in Clients : Entering(c)

Pending == IF Committing THEN 1 ELSE 0

(* A shutdown may cost one more record, until no event is being committed. *)
Spare == IF phase = "draining" \/ (phase \in {"stopping", "stopped"} /\ Committing) THEN 1 ELSE 0

Balance == Cardinality(Unrecorded) + Spare <= faults + Pending

LEMMA UnrecordedFinite ==
    ASSUME Base
    PROVE  IsFiniteSet(Unrecorded) /\ Cardinality(Unrecorded) \in Nat /\ faults \in Nat
<1>1. Len(log) \in Nat /\ DOMAIN log = 1..Len(log) /\ faults \in Nat
  BY ConstantsAssumption DEF Base, TypeOK
<1>2. Unrecorded \subseteq 1..Len(log) /\ IsFiniteSet(1..Len(log))
  BY <1>1, FS_Interval DEF Unrecorded
<1> QED
  BY <1>1, <1>2, FS_Subset, FS_CardinalityType

LEMMA CommittingHolder ==
    ASSUME Base, NEW c \in Clients, job[c] # None
    PROVE  Committing <=> Entering(c)
BY Holder DEF Committing, Entering, At

LEMMA CommittingNobody ==
    ASSUME \A c \in Clients : job[c] = None
    PROVE  ~ Committing
BY DEF Committing, Entering, At

(* A step that adds no event. *)
LEMMA BalanceKept ==
    ASSUME Base, Balance,
           Unrecorded' \subseteq Unrecorded,
           faults + Pending + Spare' <= faults' + Pending' + Spare, faults' \in Nat
    PROVE  Balance'
<1>1. /\ Cardinality(Unrecorded') <= Cardinality(Unrecorded)
      /\ Cardinality(Unrecorded) \in Nat /\ Cardinality(Unrecorded') \in Nat /\ faults \in Nat
  BY UnrecordedFinite, FS_Subset, FS_CardinalityType
<1>2. Pending \in Nat /\ Spare \in Nat /\ Pending' \in Nat /\ Spare' \in Nat
  BY DEF Pending, Spare
<1>3. Cardinality(Unrecorded) + Spare <= faults + Pending
  BY DEF Balance
<1> DEFINE u == Cardinality(Unrecorded)
           v == Cardinality(Unrecorded')
           p == Pending
           q == Pending'
           s == Spare
           t == Spare'
           f == faults
           g == faults'
<1>4. /\ {u, v, p, q, s, t, f, g} \subseteq Nat
      /\ v <= u /\ u + s <= f + p /\ f + p + t <= g + q + s
  BY <1>1, <1>2, <1>3
<1> HIDE DEF u, v, p, q, s, t, f, g
<1>5. v + t <= g + q
  <2>1. u \in Nat /\ v \in Nat /\ p \in Nat /\ q \in Nat
        /\ s \in Nat /\ t \in Nat /\ f \in Nat /\ g \in Nat
    BY <1>4
  <2> QED
    BY <1>4, <2>1
<1> QED
  BY <1>5 DEF Balance, v, t, g, q

LEMMA WriteEventBalance ==
    ASSUME Base, Balance, NEW c \in Clients, WriteEvent(c)
    PROVE  Balance'
<1> DEFINE e == [client |-> c, credential |-> job[c].credential]
           n == Len(log) + 1
<1>1. /\ log' = Append(log, e) /\ job' = [job EXCEPT ![c].stage = "apply"]
      /\ UNCHANGED <<chain, phase, faults>> /\ phase \in {"open", "draining"}
      /\ job[c] # None /\ At(c, "write")
  BY StageAfter DEF WriteEvent, Proceed, At, clients, RepositoryOpen
<1>2. /\ Len(log) \in Nat /\ DOMAIN log = 1..Len(log) /\ DOMAIN log' = 1..n
      /\ \A i \in 1..Len(log) : log'[i] = log[i]
  <2>1. log \in Seq(Event) /\ e \in Event
    BY <1>1, Holder DEF Base, TypeOK, Event
  <2> QED
    BY <1>1, <2>1, Longer
<1>3. Unrecorded' \subseteq Unrecorded \cup {n}
  <2>1. \A i \in 1..n : i \in 1..Len(log) \/ i = n
    BY <1>2
  <2> QED
    BY <1>1, <1>2, <2>1 DEF Unrecorded
<1>4. /\ IsFiniteSet(Unrecorded) /\ Cardinality(Unrecorded) \in Nat /\ faults \in Nat
  BY UnrecordedFinite
<1>5. /\ IsFiniteSet(Unrecorded \cup {n})
      /\ Cardinality(Unrecorded \cup {n}) \in Nat
      /\ Cardinality(Unrecorded \cup {n}) <= Cardinality(Unrecorded) + 1
  <2>1. /\ IsFiniteSet(Unrecorded \cup {n})
        /\ Cardinality(Unrecorded \cup {n}) =
              IF n \in Unrecorded THEN Cardinality(Unrecorded) ELSE Cardinality(Unrecorded) + 1
    BY <1>4, FS_AddElement
  <2> QED
    BY <1>4, <2>1
<1>6. /\ Cardinality(Unrecorded') \in Nat
      /\ Cardinality(Unrecorded') <= Cardinality(Unrecorded) + 1
  <2>1. /\ IsFiniteSet(Unrecorded')
        /\ Cardinality(Unrecorded') <= Cardinality(Unrecorded \cup {n})
    BY <1>3, <1>5, FS_Subset
  <2>2. Cardinality(Unrecorded') \in Nat
    BY <2>1, FS_CardinalityType
  <2> QED
    BY <1>4, <1>5, <2>1, <2>2
<1>7. ~ Committing
  BY <1>1, CommittingHolder DEF Entering, At
<1>8. Committing'
  <2>1. job'[c] \in Job /\ job'[c].stage = "apply"
    BY <1>1, Holder DEF Base, TypeOK, Job, Stages
  <2>2. job'[c] # None
    BY <2>1, ConstantsAssumption
  <2> QED
    BY <2>1, <2>2 DEF Committing, Entering, At
<1>9. Spare' = Spare /\ Pending' = 1 /\ Pending = 0 /\ Spare \in Nat
  BY <1>1, <1>7, <1>8 DEF Spare, Pending
<1> QED
  BY <1>1, <1>4, <1>6, <1>9 DEF Balance

LEMMA AppendRecordBalance ==
    ASSUME Base, Ledger, Following, Balance, NEW c \in Clients, AppendRecord(c)
    PROVE  Balance'
<1> DEFINE r == [action |-> Request[c].action, client |-> c, credential |-> job[c].credential]
           m == Len(log)
<1>1. /\ chain' = Append(chain, r) /\ job' = [job EXCEPT ![c] = None]
      /\ UNCHANGED <<log, phase, faults>> /\ job[c] # None /\ Entering(c)
  BY DEF AppendRecord, Return, At, clients, Entering
<1>2. chain \in Seq(Record) /\ r \in Record /\ Recorded(r)
  BY <1>1, Holder, ConstantsAssumption DEF Base, TypeOK, Record, Recorded
<1>3. /\ Len(chain) \in Nat /\ DOMAIN chain = 1..Len(chain)
      /\ DOMAIN chain' = 1..Len(chain) + 1 /\ chain'[Len(chain) + 1] = r
      /\ \A k \in 1..Len(chain) : chain'[k] = chain[k]
  BY <1>1, <1>2, Longer
<1>4. m \in DOMAIN log /\ log[m].client = c
  <2>1. m \in Nat /\ DOMAIN log = 1..m
    BY DEF Base, TypeOK
  <2>2. m > 0 /\ log[m] = [client |-> c, credential |-> job[c].credential]
    BY <1>1 DEF Ledger
  <2> QED
    BY <2>1, <2>2
<1>5. m \in Unrecorded
  BY <1>1, <1>4 DEF Following, NotYetRecorded, Unrecorded
<1>6. Unrecorded' \subseteq Unrecorded \ {m}
  <2>1. Len(chain) + 1 \in DOMAIN chain' /\ Recorded(chain'[Len(chain) + 1])
        /\ chain'[Len(chain) + 1].client = log[m].client
    BY <1>2, <1>3, <1>4
  <2>2. m \notin Unrecorded'
    BY <1>1, <2>1 DEF Unrecorded
  <2>3. Unrecorded' \subseteq Unrecorded
    BY <1>1, <1>3 DEF Unrecorded
  <2> QED
    BY <2>2, <2>3
<1>7. /\ Cardinality(Unrecorded') \in Nat /\ Cardinality(Unrecorded) \in Nat /\ faults \in Nat
      /\ Cardinality(Unrecorded') <= Cardinality(Unrecorded) - 1
  <2>1. IsFiniteSet(Unrecorded) /\ Cardinality(Unrecorded) \in Nat /\ faults \in Nat
    BY UnrecordedFinite
  <2>2. /\ IsFiniteSet(Unrecorded \ {m})
        /\ Cardinality(Unrecorded \ {m}) = Cardinality(Unrecorded) - 1
    BY <1>5, <2>1, FS_RemoveElement
  <2>3. IsFiniteSet(Unrecorded') /\ Cardinality(Unrecorded') <= Cardinality(Unrecorded \ {m})
    BY <1>6, <2>2, FS_Subset
  <2>4. Cardinality(Unrecorded') \in Nat
    BY <2>3, FS_CardinalityType
  <2> QED
    BY <2>1, <2>2, <2>3, <2>4
<1>8. Pending = 1 /\ Pending' = 0 /\ Spare' <= Spare /\ Spare \in Nat /\ Spare' \in Nat
  <2>1. Committing
    BY <1>1 DEF Committing
  <2>2. ~ Committing'
    BY <1>1, Holder DEF Committing, Entering, At, Base, TypeOK
  <2> QED
    BY <1>1, <2>1, <2>2 DEF Pending, Spare
<1> QED
  BY <1>1, <1>7, <1>8 DEF Balance

(* A handler that stores neither event nor record. *)
LEMMA HandlerBalance ==
    ASSUME Base, Balance, NEW c \in Clients,
           \/ Lock(c) \/ IssueCredential(c) \/ SealCredential(c) \/ ApplyEvent(c)
           \/ StoreClosed(c) \/ CallFails(c) \/ SnapshotFails(c)
    PROVE  Balance'
<1>1. faults \in Nat
  BY UnrecordedFinite
<1>2. CASE Lock(c)
  <2>1. /\ UNCHANGED <<log, chain, phase, faults>> /\ \A d \in Clients : job[d] = None
        /\ \A d \in Clients : job'[d] # None => job'[d].stage \in {"issue", "write"}
    BY <1>2 DEF Lock, MutexFree, clients, stores, Base, TypeOK
  <2>2. ~ Committing /\ ~ Committing'
    BY <2>1 DEF Committing, Entering, At
  <2>3. Unrecorded' = Unrecorded /\ Pending' = Pending /\ Spare' = Spare
    BY <2>1, <2>2 DEF Unrecorded, Pending, Spare
  <2> QED
    BY <1>1, <2>1, <2>3, BalanceKept DEF Pending, Spare
<1>3. CASE IssueCredential(c)
  <2>1. /\ UNCHANGED <<log, chain, phase, faults>> /\ At(c, "issue") /\ job[c] # None
        /\ job' = [job EXCEPT ![c] = [stage |-> "seal", credential |-> Len(creds) + 1]]
    BY <1>3, StageAfter DEF IssueCredential, clients, At
  <2>2. ~ Committing /\ ~ Committing'
    BY <2>1, Holder DEF Committing, Entering, At, Base, TypeOK
  <2>3. Unrecorded' = Unrecorded /\ Pending' = Pending /\ Spare' = Spare
    BY <2>1, <2>2 DEF Unrecorded, Pending, Spare
  <2> QED
    BY <1>1, <2>1, <2>3, BalanceKept DEF Pending, Spare
<1>4. CASE SealCredential(c)
  <2> DEFINE r == [action |-> Sealed, client |-> c, credential |-> job[c].credential]
  <2>1. /\ UNCHANGED <<log, phase, faults>> /\ At(c, "seal") /\ job[c] # None
        /\ job' = [job EXCEPT ![c].stage = "write"] /\ chain' = Append(chain, r)
    BY <1>4, StageAfter DEF SealCredential, Proceed, clients, At
  <2>2. ~ Committing /\ ~ Committing'
    BY <2>1, Holder DEF Committing, Entering, At, Base, TypeOK, Job
  <2>3. chain \in Seq(Record) /\ r \in Record
    BY <2>1, Holder DEF Base, TypeOK, Record
  <2>4. /\ Len(chain) \in Nat /\ DOMAIN chain = 1..Len(chain)
        /\ DOMAIN chain' = 1..Len(chain) + 1
        /\ \A k \in 1..Len(chain) : chain'[k] = chain[k]
    BY <2>1, <2>3, Longer
  <2>5. Unrecorded' \subseteq Unrecorded
    BY <2>1, <2>4 DEF Unrecorded
  <2>6. Pending' = Pending /\ Spare' = Spare
    BY <2>1, <2>2 DEF Pending, Spare
  <2> QED
    BY <1>1, <2>1, <2>5, <2>6, BalanceKept DEF Pending, Spare
<1>5. CASE ApplyEvent(c)
  <2>1. /\ UNCHANGED <<log, chain, phase, faults>> /\ At(c, "apply") /\ job[c] # None
        /\ job' = [job EXCEPT ![c].stage = "append"]
    BY <1>5, StageAfter DEF ApplyEvent, Proceed, clients, At
  <2>2. Committing
    BY <2>1 DEF Committing, Entering
  <2>3. job'[c] \in Job /\ job'[c].stage = "append"
    BY <2>1, Holder DEF Base, TypeOK, Job, Stages
  <2>4. Committing'
    BY <2>3, ConstantsAssumption DEF Committing, Entering, At
  <2>5. Unrecorded' = Unrecorded /\ Pending' = Pending /\ Spare' = Spare
    BY <2>1, <2>2, <2>4 DEF Unrecorded, Pending, Spare
  <2> QED
    BY <1>1, <2>1, <2>5, BalanceKept DEF Pending, Spare
<1>6. ASSUME job[c] # None, job' = [job EXCEPT ![c] = None], UNCHANGED <<log, chain, phase>>
      PROVE  /\ ~ Committing' /\ Unrecorded' = Unrecorded /\ Pending' = 0 /\ Spare' <= Spare
             /\ Pending \in Nat /\ Pending <= 1 /\ Spare \in Nat /\ Spare' \in Nat
  <2>1. ~ Committing'
    BY <1>6, Holder DEF Committing, Entering, At, Base, TypeOK
  <2> QED
    BY <1>6, <2>1 DEF Unrecorded, Pending, Spare
<1>7. CASE StoreClosed(c)
  <2>1. /\ job[c] # None /\ job' = [job EXCEPT ![c] = None]
        /\ UNCHANGED <<log, chain, phase, faults>>
    BY <1>7 DEF StoreClosed, Return, At, clients, stores
  <2>2. Committing => phase = "stopped"
    <3> SUFFICES ASSUME Committing PROVE phase = "stopped"
      OBVIOUS
    <3>1. Entering(c)
      BY <2>1, CommittingHolder
    <3>2. ~ AuditOpen
      BY <1>7, <3>1 DEF StoreClosed, Entering, At
    <3>3. phase # "down" /\ phase \in {"open", "draining", "stopping", "stopped", "down"}
      BY <2>1, Holder DEF Base, TypeOK
    <3> QED
      BY <3>2, <3>3 DEF AuditOpen
  <2>3. Unrecorded' = Unrecorded /\ ~ Committing'
    BY <1>6, <2>1
  <2>4. Pending + Spare' <= Pending' + Spare
    BY <2>1, <2>2, <2>3 DEF Pending, Spare
  <2> QED
    BY <1>1, <2>1, <2>3, <2>4, BalanceKept DEF Pending, Spare
<1>8. CASE CallFails(c) \/ SnapshotFails(c)
  <2>1. /\ job[c] # None /\ job' = [job EXCEPT ![c] = None] /\ faults' = faults + 1
        /\ UNCHANGED <<log, chain, phase>>
    BY <1>8 DEF CallFails, SnapshotFails, Goes, Return, At, clients, stores
  <2>2. /\ Unrecorded' = Unrecorded /\ Pending' = 0 /\ Spare' <= Spare
        /\ Pending \in Nat /\ Pending <= 1 /\ Spare \in Nat /\ Spare' \in Nat
    BY <1>6, <2>1
  <2>3. faults + Pending + Spare' <= faults' + Pending' + Spare /\ faults' \in Nat
    BY <1>1, <2>1, <2>2 DEF Pending, Spare
  <2> QED
    BY <2>2, <2>3, BalanceKept
<1> QED
  BY <1>2, <1>3, <1>4, <1>5, <1>7, <1>8

LEMMA ProcessBalance ==
    ASSUME Base, Balance,
           Start \/ Shutdown \/ CloseRepository \/ CloseAudit \/ Exit \/ Kill
    PROVE  Balance'
<1>1. faults \in Nat
  BY UnrecordedFinite
<1>2. Unrecorded' = Unrecorded
  BY DEF Unrecorded, Start, Shutdown, CloseRepository, CloseAudit, Exit, Kill, clients, stores
<1>3. CASE Start
  <2>1. UNCHANGED <<job, faults>> /\ phase' = "open" /\ phase = "down"
    BY <1>3 DEF Start, clients
  <2>2. Committing' <=> Committing
    BY <2>1 DEF Committing, Entering, At
  <2> QED
    BY <1>1, <1>2, <2>1, <2>2, BalanceKept DEF Pending, Spare
<1>4. CASE Shutdown
  <2>1. job' = job /\ faults' = faults + 1 /\ phase = "open" /\ phase' = "draining"
    BY <1>4 DEF Shutdown, Goes, clients, stores
  <2>2. Committing' <=> Committing
    BY <2>1 DEF Committing, Entering, At
  <2> QED
    BY <1>1, <1>2, <2>1, <2>2, BalanceKept DEF Pending, Spare
<1>5. CASE CloseRepository \/ CloseAudit
  <2>1. UNCHANGED <<job, faults>> /\ \/ phase = "draining" /\ phase' = "stopping"
                                     \/ phase = "stopping" /\ phase' = "stopped"
    BY <1>5 DEF CloseRepository, CloseAudit, clients, stores
  <2>2. Committing' <=> Committing
    BY <2>1 DEF Committing, Entering, At
  <2> QED
    BY <1>1, <1>2, <2>1, <2>2, BalanceKept DEF Pending, Spare
<1>6. CASE Exit
  <2>1. phase = "stopped" /\ phase' = "down" /\ faults' = faults
        /\ \A c \in Clients : job'[c] = None
    BY <1>6 DEF Exit, Ends, clients, stores
  <2>2. ~ Committing'
    BY <2>1 DEF Committing, Entering, At
  <2> QED
    BY <1>1, <1>2, <2>1, <2>2, BalanceKept DEF Pending, Spare
<1>7. CASE Kill
  <2>1. phase' = "down" /\ faults' = faults + 1 /\ \A c \in Clients : job'[c] = None
    BY <1>7 DEF Kill, Goes, Ends, clients, stores
  <2>2. ~ Committing'
    BY <2>1 DEF Committing, Entering, At
  <2> QED
    BY <1>1, <1>2, <2>1, <2>2, BalanceKept DEF Pending, Spare
<1> QED
  BY <1>3, <1>4, <1>5, <1>6, <1>7

LEMMA BalanceStep == Base /\ Ledger /\ Following /\ Balance /\ [Next]_vars => Balance'
<1> SUFFICES ASSUME Base, Ledger, Following, Balance, [Next]_vars PROVE Balance'
  OBVIOUS
<1>1. ASSUME UNCHANGED <<log, chain, job, phase, faults>> PROVE Balance'
  BY <1>1 DEF Balance, Unrecorded, Pending, Spare, Committing, Entering, At
<1>2. CASE UNCHANGED vars
  BY <1>1, <1>2 DEF vars
<1>3. ASSUME NEW c \in Clients, Submit(c) \/ Retry(c) \/ Deliver(c)
      PROVE  Balance'
  BY <1>1, <1>3 DEF Submit, Retry, Deliver, server, stores
<1>4. CASE LoseAnswer \/ VerifyCredential \/ VerifySeal \/ \E n \in 1..Len(creds) : FindCredential(n)
  BY <1>1, <1>4 DEF LoseAnswer, VerifyCredential, VerifySeal, FindCredential, clients, server, stores
<1> QED
  BY <1>2, <1>3, <1>4, WriteEventBalance, AppendRecordBalance, HandlerBalance, ProcessBalance
     DEF Next, Work

LEMMA InCommitSize ==
    ASSUME Base
    PROVE  Cardinality(InCommit) = Pending
<1>1. CASE Committing
  <2>1. PICK c \in Clients : Entering(c)
    BY <1>1 DEF Committing
  <2>2. InCommit = {c}
    BY <2>1 DEF InCommit, Entering, At, Base, Mutex
  <2> QED
    BY <1>1, <2>2, FS_Singleton DEF Pending
<1>2. CASE ~ Committing
  <2>1. InCommit = {}
    BY <1>2 DEF InCommit, Committing, Entering
  <2> QED
    BY <1>2, <2>1, FS_EmptySet DEF Pending
<1> QED
  BY <1>1, <1>2

(* Each fault, a shutdown included, costs the chain one record at most.    *)
THEOREM GapsAreCounted == Spec => []GapsAreFaults
<1>1. Init => Balance
  <2> SUFFICES ASSUME Init PROVE Balance
    OBVIOUS
  <2>1. Unrecorded = {} /\ ~ Committing /\ phase = "down" /\ faults = 0
    BY DEF Init, Unrecorded, Committing, Entering, At
  <2> QED
    BY <2>1, FS_EmptySet DEF Balance, Pending, Spare
<1>2. (Base /\ Ledger) /\ Following /\ Balance /\ [Next]_vars => Balance'
  BY BalanceStep
<1>3. Base /\ Balance => GapsAreFaults
  <2> SUFFICES ASSUME Base, Balance PROVE GapsAreFaults
    OBVIOUS
  <2>1. Cardinality(Unrecorded) \in Nat /\ faults \in Nat
    BY UnrecordedFinite
  <2> QED
    BY <2>1, InCommitSize DEF GapsAreFaults, Balance, Pending, Spare
<1> QED
  BY <1>1, <1>2, <1>3, InvariantHolds, FollowingHolds, PTL DEF Spec

=============================================================================

-------------------------- MODULE ClearanceService --------------------------
(***************************************************************************)
(* The service between its clients and its two stores: internal/rigging,   *)
(* service.go and the commands that call it, with the HTTP handlers and    *)
(* the server process around them.                                         *)
(*                                                                         *)
(* A client reads its plan, sends a command with the version it read, and  *)
(* sends it again, with the same key, as long as it has no answer.  Every  *)
(* request has a handler of its own.  A handler holds Service.mu from its  *)
(* first look at the plan until it has an answer; in between it writes to  *)
(* the stores, one after the other.  A verification of a credential reads  *)
(* both without that mutex.                                                *)
(*                                                                         *)
(* The stores are those of EventStore and AuditStore, seen from outside: a *)
(* call succeeds, or fails and leaves nothing, or, for a commit, fails     *)
(* after it has happened.  Failures that damage a file, which only a later *)
(* start notices, are the subject of those two modules.                    *)
(***************************************************************************)
EXTENDS Integers, Sequences, FiniteSets

CONSTANTS
    Clients,
    Request,      \* [Clients -> [key, plan, action, content]]
    Frozen,       \* plans that were approved before
    Faults,       \* what may go wrong in this instance, see AllFaults
    MaxFaults,    \* bound on how often something goes wrong
    MaxHandlers,  \* bound on a client's requests waiting for the mutex
    None          \* no handler, no reader, nothing read

AllFaults == {"kill", "shutdown", "issue", "commit", "snapshot", "append"}

Plans == {Request[c].plan : c \in Clients}

Review == "review.decided"
Issue  == "credential.issued"
Sealed == "credential.sealed"

Stages == {"issue", "seal", "write", "apply", "append"}
Results == {"success", "rejected", "error"}

(* What the handler with the mutex is at; what a verification is at; an    *)
(* event in the log; a record in the chain.                                *)
Job     == [stage : Stages, credential : Nat]
Reading == [credential : Nat, plan : Plans, stage : {"log", "timeline", "invalid"}]
Event   == [client : Clients, credential : Nat]
Record  == [action : {Request[c].action : c \in Clients} \cup {Sealed},
            client : Clients, credential : Nat]

ASSUME ConstantsAssumption ==
    /\ IsFiniteSet(Clients) /\ None \notin Clients
    /\ \A c \in Clients : /\ DOMAIN Request[c] = {"key", "plan", "action", "content"}
                           /\ Request[c].action # Sealed
    /\ Faults \subseteq AllFaults
    /\ MaxFaults \in Nat /\ MaxHandlers \in Nat \ {0}
    /\ None \notin Nat \cup Job

VARIABLES
    (* the clients *)
    expected,   \* the version of its plan a client read, or None
    told,       \* what it was told, "nothing" while it waits
    answers,    \* the answers on their way, <<client, result>>
    (* the server process *)
    phase,      \* open, draining, stopping (repository closed), stopped, down
    handlers,   \* of each client, how many wait for Service.mu
    job,        \* what the handler of a client that holds it is at, or None
    reader,     \* a verification in progress, or None
    (* the stores *)
    log,        \* the events: who caused them, the credential issued or 0
    applied,    \* how many of them the repository's memory knows
    creds,      \* the credentials issued: for which plan
    chain,      \* the audit records: action, who caused them, credential or 0
    (* the bound *)
    faults      \* how often something went wrong

clients == <<expected, told>>
server  == <<phase, handlers, job, reader>>
stores  == <<log, applied, creds, chain>>
vars    == <<expected, told, answers, phase, handlers, job, reader,
             log, applied, creds, chain, faults>>

-----------------------------------------------------------------------------
(* What the repository's memory says. *)

PlanAt(i) == Request[log[i].client].plan

Version(p) == 1 + Cardinality({i \in 1..applied : PlanAt(i) = p})

Approved(p) ==
    \/ p \in Frozen
    \/ \E i \in 1..applied : PlanAt(i) = p /\ Request[log[i].client].action = Review

(* The receipts of a key: there is at most one. *)
Receipts(k) == {Request[log[i].client] : i \in {j \in 1..applied : Request[log[j].client].key = k}}

(* What the command asks of the plan's state: an approved plan is frozen,  *)
(* and only its credentials can be issued.                                 *)
StateAllows(r) == Approved(r.plan) <=> r.action = Issue

-----------------------------------------------------------------------------
Init ==
    /\ expected = [c \in Clients |-> None]
    /\ told = [c \in Clients |-> "nothing"]
    /\ answers = {}
    /\ phase = "down" /\ job = [c \in Clients |-> None]
    /\ handlers = [c \in Clients |-> 0]
    /\ reader = None
    /\ log = << >> /\ applied = 0 /\ creds = << >> /\ chain = << >>
    /\ faults = 0

Running == phase # "down"
RepositoryOpen == phase \in {"open", "draining"}
AuditOpen == phase \in {"open", "draining", "stopping"}

MutexFree == \A c \in Clients : job[c] = None

(* Clients. *)

Submit(c) ==
    /\ phase = "open"
    /\ expected[c] = None
    /\ expected' = [expected EXCEPT ![c] = Version(Request[c].plan)]
    /\ handlers' = [handlers EXCEPT ![c] = @ + 1]
    /\ UNCHANGED <<told, answers, phase, job, reader, stores, faults>>

(* Also while an earlier request waits: the client's patience is over. *)
Retry(c) ==
    /\ phase = "open"
    /\ expected[c] # None /\ told[c] = "nothing"
    /\ handlers[c] < MaxHandlers
    /\ handlers' = [handlers EXCEPT ![c] = @ + 1]
    /\ UNCHANGED <<clients, answers, phase, job, reader, stores, faults>>

(* Success and a 4xx status are final; after a 5xx a client tries again. *)
Deliver(c) ==
    /\ \E r \in Results :
          /\ <<c, r>> \in answers
          /\ answers' = answers \ {<<c, r>>}
          /\ told' = IF told[c] = "nothing" /\ r # "error" THEN [told EXCEPT ![c] = r] ELSE told
    /\ UNCHANGED <<expected, server, stores, faults>>

(* The client hung up, or the write deadline has passed. *)
LoseAnswer ==
    /\ \E a \in answers : answers' = answers \ {a}
    /\ UNCHANGED <<clients, server, stores, faults>>

-----------------------------------------------------------------------------
(* A handler. *)

Answer(c, r) == answers' = answers \cup {<<c, r>>}

(* Wrong: the version is checked before the key is looked up. *)
VersionFirst(c) ==
    LET r == Request[c] IN
    CASE Version(r.plan) # expected[c] -> "rejected"
      [] Receipts(r.key) # {} -> IF r \in Receipts(r.key) THEN "success" ELSE "rejected"
      [] ~ StateAllows(r) -> "rejected"
      [] OTHER -> "accepted"

(* Wrong: the receipt of a key is taken for the command's own. *)
KeyOnly(c) ==
    LET r == Request[c] IN
    CASE Receipts(r.key) # {} -> "success"
      [] Receipts(r.key) = {} /\ Version(r.plan) # expected[c] -> "rejected"
      [] Receipts(r.key) = {} /\ Version(r.plan) = expected[c] ->
            IF StateAllows(r) THEN "accepted" ELSE "rejected"

(* loadCommand, and the command's own look at the plan. *)
Decision(c) ==
    LET r == Request[c] IN
    CASE Receipts(r.key) # {} -> IF r \in Receipts(r.key) THEN "success" ELSE "rejected"
      [] Receipts(r.key) = {} /\ Version(r.plan) # expected[c] -> "rejected"
      [] Receipts(r.key) = {} /\ Version(r.plan) = expected[c] ->
            IF StateAllows(r) THEN "accepted" ELSE "rejected"

(* Wrong: commands of different clients run side by side. *)
LockPerClient(c) ==
    /\ Running /\ handlers[c] > 0 /\ job[c] = None
    /\ handlers' = [handlers EXCEPT ![c] = @ - 1]
    /\ IF Decision(c) = "accepted"
          THEN /\ job' = [job EXCEPT ![c] =
                     [stage |-> IF Request[c].action = Issue THEN "issue" ELSE "write",
                      credential |-> 0]]
               /\ UNCHANGED answers
          ELSE Answer(c, Decision(c)) /\ UNCHANGED job
    /\ UNCHANGED <<clients, phase, reader, stores, faults>>

(* A handler gets the mutex and looks; it may have its answer at once. *)
Lock(c) ==
    /\ Running /\ handlers[c] > 0 /\ MutexFree
    /\ handlers' = [handlers EXCEPT ![c] = @ - 1]
    /\ IF Decision(c) = "accepted"
          THEN /\ job' = [job EXCEPT ![c] =
                     [stage |-> IF Request[c].action = Issue THEN "issue" ELSE "write",
                      credential |-> 0]]
               /\ UNCHANGED answers
          ELSE Answer(c, Decision(c)) /\ UNCHANGED job
    /\ UNCHANGED <<clients, phase, reader, stores, faults>>

At(c, stage) == job[c] # None /\ job[c].stage = stage

(* Wrong: the credential is sealed when its plan has been stored. *)
SealedLast(stage) ==
    CASE stage = "issue" -> "write"
      [] stage = "write" -> "apply"
      [] stage = "apply" -> "seal"
      [] stage = "seal"  -> "append"

After(stage) ==
    CASE stage = "issue" -> "seal"
      [] stage = "seal"  -> "write"
      [] stage = "write" -> "apply"
      [] stage = "apply" -> "append"

Proceed(c) == job' = [job EXCEPT ![c].stage = After(job[c].stage)] /\ UNCHANGED answers

(* Wrong: an early return on an error leaves the mutex locked. *)
ReturnLocked(c, r) ==
    /\ Answer(c, r)
    /\ job' = [job EXCEPT ![c] = IF r = "error" THEN [@ EXCEPT !.stage = "locked"] ELSE None]

(* The handler returns, and the mutex is free. *)
Return(c, r) == Answer(c, r) /\ job' = [job EXCEPT ![c] = None]

(* Issue in the audit store: first the credential, *)
IssueCredential(c) ==
    /\ At(c, "issue") /\ AuditOpen
    /\ creds' = Append(creds, Request[c].plan)
    /\ job' = [job EXCEPT ![c] = [stage |-> After("issue"), credential |-> Len(creds) + 1]]
    /\ UNCHANGED <<clients, answers, phase, handlers, reader, log, applied, chain, faults>>

(* then the record that seals it. *)
SealCredential(c) ==
    /\ At(c, "seal")
    /\ chain' = Append(chain, [action |-> Sealed, client |-> c, credential |-> job[c].credential])
    /\ Proceed(c)
    /\ UNCHANGED <<clients, phase, handlers, reader, log, applied, creds, faults>>

(* Commit: the frame is in the file.  Commit looks at key and version      *)
(* again; that both still hold is StillCurrent, below.                     *)
WriteEvent(c) ==
    /\ At(c, "write") /\ RepositoryOpen
    /\ log' = Append(log, [client |-> c, credential |-> job[c].credential])
    /\ Proceed(c)
    /\ UNCHANGED <<clients, phase, handlers, reader, applied, creds, chain, faults>>

(* then it is synced, and in memory. *)
ApplyEvent(c) ==
    /\ At(c, "apply")
    /\ applied' = Len(log)
    /\ Proceed(c)
    /\ UNCHANGED <<clients, phase, handlers, reader, log, creds, chain, faults>>

(* Wrong: the command is answered, its record left to be appended later. *)
AppendSkipped(c) ==
    /\ At(c, "append") /\ AuditOpen
    /\ Return(c, "success")
    /\ UNCHANGED <<clients, phase, handlers, reader, stores, faults>>

AppendRecord(c) ==
    /\ At(c, "append") /\ AuditOpen
    /\ chain' = Append(chain, [action |-> Request[c].action, client |-> c,
                               credential |-> job[c].credential])
    /\ Return(c, "success")
    /\ UNCHANGED <<clients, phase, handlers, reader, log, applied, creds, faults>>

(* A closed store returns an error. *)
StoreClosed(c) ==
    /\ \/ At(c, "write") /\ ~ RepositoryOpen
       \/ (At(c, "issue") \/ At(c, "append")) /\ ~ AuditOpen
    /\ Return(c, "error")
    /\ UNCHANGED <<clients, phase, handlers, reader, stores, faults>>

Goes(wrong) == wrong \in Faults /\ faults < MaxFaults /\ faults' = faults + 1

(* A call fails and leaves nothing behind. *)
CallFails(c) ==
    /\ \/ (At(c, "issue") \/ At(c, "seal")) /\ Goes("issue")
       \/ At(c, "write") /\ Goes("commit")
       \/ At(c, "append") /\ Goes("append")
    /\ Return(c, "error")
    /\ UNCHANGED <<clients, phase, handlers, reader, stores>>

(* Wrong: the memory follows projection.json. *)
SnapshotFirst(c) ==
    /\ At(c, "apply") /\ Goes("snapshot")
    /\ Return(c, "error")
    /\ UNCHANGED <<clients, phase, handlers, reader, stores>>

(* The event is stored and in memory, but projection.json is not. *)
SnapshotFails(c) ==
    /\ At(c, "apply") /\ Goes("snapshot")
    /\ applied' = Len(log)
    /\ Return(c, "error")
    /\ UNCHANGED <<clients, phase, handlers, reader, log, creds, chain>>

Work(c) ==
    \/ IssueCredential(c) \/ SealCredential(c)
    \/ WriteEvent(c) \/ ApplyEvent(c)
    \/ AppendRecord(c)
    \/ StoreClosed(c)

-----------------------------------------------------------------------------
(* A verification of a credential, beside the handlers. *)

FindCredential(n) ==
    /\ Running /\ reader = None
    /\ \E i \in 1..applied :
          /\ log[i].credential = n
          /\ reader' = [credential |-> n, plan |-> PlanAt(i), stage |-> "log"]
    /\ UNCHANGED <<clients, answers, phase, handlers, job, stores, faults>>

(* The audit store knows the credential as the plan has it. *)
VerifyCredential ==
    /\ reader # None /\ reader.stage = "log"
    /\ reader' = [reader EXCEPT !.stage =
          IF reader.credential <= Len(creds) /\ creds[reader.credential] = reader.plan
             THEN "timeline" ELSE "invalid"]
    /\ UNCHANGED <<clients, answers, phase, handlers, job, stores, faults>>

(* The plan's timeline has the seal. *)
VerifySeal ==
    /\ reader # None /\ reader.stage = "timeline"
    /\ reader' = IF \E i \in DOMAIN chain :
                       /\ chain[i].action = Sealed /\ chain[i].credential = reader.credential
                       /\ Request[chain[i].client].plan = reader.plan
                    THEN None ELSE [reader EXCEPT !.stage = "invalid"]
    /\ UNCHANGED <<clients, answers, phase, handlers, job, stores, faults>>

-----------------------------------------------------------------------------
(* The process. *)

Start ==
    /\ phase = "down"
    /\ phase' = "open"
    /\ applied' = Len(log)
    /\ UNCHANGED <<clients, answers, handlers, job, reader, log, creds, chain, faults>>

(* SIGTERM: no new requests; handlers go on. *)
Shutdown ==
    /\ phase = "open" /\ Goes("shutdown")
    /\ phase' = "draining"
    /\ UNCHANGED <<clients, answers, handlers, job, reader, stores>>

(* When the handlers are done or five seconds have passed.  Close waits    *)
(* for a commit in progress.                                               *)
CloseRepository ==
    /\ phase = "draining" /\ \A c \in Clients : ~ At(c, "apply")
    /\ phase' = "stopping"
    /\ UNCHANGED <<clients, answers, handlers, job, reader, stores, faults>>

(* Close waits for a credential to be sealed. *)
CloseAudit ==
    /\ phase = "stopping" /\ \A c \in Clients : ~ At(c, "seal")
    /\ phase' = "stopped"
    /\ UNCHANGED <<clients, answers, handlers, job, reader, stores, faults>>

(* With the process go its handlers, and the answers not yet sent. *)
Ends ==
    /\ phase' = "down"
    /\ handlers' = [c \in Clients |-> 0]
    /\ job' = [c \in Clients |-> None]
    /\ reader' = None
    /\ answers' = {}

Exit == phase = "stopped" /\ Ends /\ UNCHANGED <<clients, stores, faults>>

Kill == Running /\ Goes("kill") /\ Ends /\ UNCHANGED <<clients, stores>>

Next ==
    \/ \E c \in Clients :
          \/ Submit(c) \/ Retry(c) \/ Deliver(c)
          \/ Lock(c) \/ Work(c) \/ CallFails(c) \/ SnapshotFails(c)
    \/ LoseAnswer
    \/ \E n \in 1..Len(creds) : FindCredential(n)
    \/ VerifyCredential \/ VerifySeal
    \/ Start \/ Shutdown \/ CloseRepository \/ CloseAudit \/ Exit \/ Kill

Spec == Init /\ [][Next]_vars

(* Go's mutex hands itself to a waiter that starves, so that a handler     *)
(* that waits gets it; a handler with the mutex goes on.  Shutdown gives   *)
(* up after five seconds, and then the process exits.  Clients go on       *)
(* trying, not every answer is lost, and somebody starts the server again. *)
Fairness ==
    /\ \A c \in Clients :
          /\ SF_vars(Lock(c)) /\ WF_vars(Work(c))
          /\ WF_vars(Retry(c)) /\ SF_vars(Deliver(c))
    /\ WF_vars(CloseRepository) /\ WF_vars(CloseAudit) /\ WF_vars(Exit)
    /\ WF_vars(Start)

FairSpec == Spec /\ Fairness

-----------------------------------------------------------------------------
(* Properties.                                                             *)

(* Clients, handlers and stores have the shape of service.go and ports.go; *)
(* the memory of a running repository is a part of its log, and only what  *)
(* is being committed is missing from it.                                  *)
TypeOK ==
    /\ expected \in [Clients -> Nat \cup {None}]
    /\ told \in [Clients -> {"nothing", "success", "rejected"}]
    /\ answers \in SUBSET (Clients \X Results)
    /\ phase \in {"open", "draining", "stopping", "stopped", "down"}
    /\ handlers \in [Clients -> 0..MaxHandlers]
    /\ job \in [Clients -> Job \cup {None}]
    /\ reader \in Reading \cup {None}
    /\ log \in Seq(Event)
    /\ applied \in 0..Len(log)
    /\ creds \in Seq(Plans)
    /\ chain \in Seq(Record)
    /\ faults \in 0..MaxFaults
    /\ phase # "down" /\ (\A c \in Clients : ~ At(c, "apply")) => applied = Len(log)

(* What loadCommand found is still true when the credential is issued and  *)
(* when the event is committed: the key is new and the version current.    *)
(* Commit's own checks of both would come too late for the credential.     *)
StillCurrent ==
    \A c \in Clients :
        At(c, "issue") \/ At(c, "seal") \/ At(c, "write") =>
            Decision(c) = "accepted"

(* A credential that a plan holds was issued for that plan and sealed in   *)
(* the chain, before; no number is in two plans or twice in one, and the   *)
(* numbers increase in the order of the events.                            *)
CredentialsVouched ==
    /\ \A i \in DOMAIN log :
          LET n == log[i].credential IN
          /\ n # 0 <=> Request[log[i].client].action = Issue
          /\ n # 0 => /\ n <= Len(creds) /\ creds[n] = PlanAt(i)
                      /\ \E k \in DOMAIN chain :
                            chain[k] = [action |-> Sealed, client |-> log[i].client, credential |-> n]
    /\ \A i, j \in DOMAIN log :
          i < j /\ log[i].credential # 0 /\ log[j].credential # 0 =>
              log[i].credential < log[j].credential

(* A verification that reads the repository and then the audit store,      *)
(* beside commands, failures and a shutdown, never calls a credential      *)
(* invalid that a plan holds.                                              *)
NoFalseAlarm == reader # None => reader.stage # "invalid"

Recorded(r) == r.action # Sealed

(* The audit records of commands are in the order of the events, each for  *)
(* an event of its own: the chain tells no other story than the log.       *)
AuditFollowsLog ==
    /\ \A k \in DOMAIN chain : Recorded(chain[k]) =>
          \E i \in DOMAIN log : log[i] = [client |-> chain[k].client, credential |-> chain[k].credential]
    /\ \A k, l \in DOMAIN chain : k < l /\ Recorded(chain[k]) /\ Recorded(chain[l]) =>
          \E i, j \in DOMAIN log :
              i < j /\ log[i].client = chain[k].client /\ log[j].client = chain[l].client

Unrecorded == {i \in DOMAIN log :
    \A k \in DOMAIN chain : Recorded(chain[k]) => chain[k].client # log[i].client}

InCommit == {c \in Clients : At(c, "apply") \/ At(c, "append")}

(* An event has no audit record only if its handler was interrupted, or    *)
(* its append failed: each failure leaves one such event at most.          *)
GapsAreFaults == Cardinality(Unrecorded) <= faults + Cardinality(InCommit)

(* README: "同一幂等键重试不会重复追加业务事件".  Whatever is lost, killed or   *)
(* tried again, a client's command is a command of CommandBook.            *)
Book == INSTANCE CommandBook WITH
    book <- [i \in DOMAIN log |-> log[i].client], Unread <- None

KeepsBook == Book!Spec

(* Every client that sent a command is told what became of it, however     *)
(* often the server fails or stops meanwhile.                              *)
EveryoneAnswered == \A c \in Clients : expected[c] # None ~> told[c] # "nothing"

=============================================================================

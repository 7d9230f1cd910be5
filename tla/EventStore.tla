----------------------------- MODULE EventStore -----------------------------
(***************************************************************************)
(* The store of plans, internal/store: events.log, to which every command  *)
(* appends one frame; projection.json, a snapshot that is rewritten after  *)
(* each; and the process that holds both in memory.                        *)
(*                                                                         *)
(* Commit holds Repository.mu throughout, so that no reader sees it half   *)
(* done, but a kill or a power cut can: each write, fsync and rename is an *)
(* action.  An I/O error ends the commit with an error, and leaves the     *)
(* files and the memory as they are at that point.                         *)
(*                                                                         *)
(* A frame carries the whole aggregate; what a start checks of it is its   *)
(* place in the sequence of events, of its plan's versions and of the      *)
(* keys, and its checksum.  What validatePlanProjection makes of the       *)
(* aggregate is the subject of RigPlan.                                    *)
(*                                                                         *)
(* The file system is outside the code.  It keeps what was written unless  *)
(* the power is cut, and then at least what a successful fsync covered.    *)
(***************************************************************************)
EXTENDS Integers, Sequences, FiniteSets, FiniteSetsExt, Payloads

CONSTANTS
    Plans,     \* plan identifiers
    Keys,      \* idempotency keys
    Actions,   \* kinds of commands, "plan.created" the first of a plan
    Faults,    \* what may go wrong in this instance, see AllFaults
    MaxFrames, \* bound on the length of the log
    Torn,      \* the beginning of a frame, without its end
    None       \* no commit in progress

AllFaults == {"kill", "power", "write", "sync", "snapshot"}

(* The version a frame creates is the expected one plus one, as Commit and *)
(* recover both insist.                                                    *)
Frame == [seq : Nat, plan : Plans, expected : Nat, key : Keys, action : Actions]

ASSUME ConstantsAssumption ==
    /\ Faults \subseteq AllFaults
    /\ MaxFrames \in Nat
    /\ Torn \notin Frame
    /\ None \notin Frame
    /\ None \notin Actions

VARIABLES
    log,        \* the frames of events.log, as a process reads them
    synced,     \* how many of them the last successful fsync covered
    snap,       \* lastSequence of projection.json, 0 if there is no file
    snaps,      \* what projection.json may be after a power cut
    phase,      \* of the process
    memory,     \* [sequence, versions, commands] of the Repository
    step,       \* how far the Commit in progress is
    frame,      \* the frame it writes
    acked       \* keys of the commands whose Commit returned nil

files   == <<log, synced, snap, snaps>>
process == <<phase, memory, step, frame>>
vars    == <<log, synced, snap, snaps, phase, memory, step, frame, acked>>

Memory == [sequence : Nat, versions : [Plans -> Nat], commands : [Keys -> Actions \cup {None}]]

-----------------------------------------------------------------------------
(* Reading the log: decodeFrames and the visitor in recover.               *)

(* The checksum of the frame is that of what it decodes to. *)
RoundTrips(f) == KeepsDigest(f.action)

FramesOf(l, n, p) == {i \in 1..n : l[i].plan = p}

ValidFrame(l, i) ==
    /\ l[i] # Torn
    /\ RoundTrips(l[i])
    /\ l[i].seq = i
    /\ l[i].expected = Cardinality(FramesOf(l, i - 1, l[i].plan))
    /\ \A j \in 1..(i - 1) : l[j].key # l[i].key

ValidUpTo(l, n) == \A i \in 1..n : ValidFrame(l, i)

(* What the memory is after the frames of a valid log l.                   *)
Replay(l) ==
    [sequence |-> Len(l),
     versions |-> [p \in Plans |-> Cardinality(FramesOf(l, Len(l), p))],
     commands |-> [k \in Keys |->
        IF \E i \in DOMAIN l : l[i].key = k
           THEN l[CHOOSE i \in DOMAIN l : l[i].key = k].action ELSE None]]

EmptyMemory == Replay(<< >>)

-----------------------------------------------------------------------------
(* An empty data directory. *)
Init ==
    /\ log = << >> /\ synced = 0 /\ snap = 0 /\ snaps = {0}
    /\ phase = "down" /\ memory = EmptyMemory
    /\ step = "idle" /\ frame = None
    /\ acked = {}

(* The start of the server.  The snapshot is only compared, never used.    *)
Open ==
    /\ phase = "down"
    /\ IF ValidUpTo(log, Len(log)) /\ snap <= Len(log)
          THEN phase' = "open" /\ memory' = Replay(log)
          ELSE phase' = "refused" /\ UNCHANGED memory
    /\ UNCHANGED <<files, step, frame, acked>>

(* Wrong: the keys of earlier commands are not looked up. *)
AcceptsAnyKey(p, k, a) ==
    /\ phase = "open" /\ step = "idle"
    /\ a = "plan.created" <=> memory.versions[p] = 0
    /\ Len(log) < MaxFrames
    /\ frame' = [seq |-> memory.sequence + 1, plan |-> p, expected |-> memory.versions[p],
                 key |-> k, action |-> a]
    /\ step' = "write"
    /\ UNCHANGED <<files, phase, memory, acked>>

(* Commit up to the encoded frame.  The service has just read the version  *)
(* it expects, under its own mutex; a plan it creates has a fresh          *)
(* identifier.  A key that is known changes nothing.                       *)
Begin(p, k, a) ==
    /\ phase = "open" /\ step = "idle"
    /\ memory.commands[k] = None
    /\ a = "plan.created" <=> memory.versions[p] = 0
    /\ Len(log) < MaxFrames
    /\ frame' = [seq |-> memory.sequence + 1, plan |-> p, expected |-> memory.versions[p],
                 key |-> k, action |-> a]
    /\ step' = "write"
    /\ UNCHANGED <<files, phase, memory, acked>>

(* Wrong: the command is confirmed before it is durable. *)
WriteConfirmed ==
    /\ step = "write"
    /\ log' = Append(log, frame)
    /\ step' = "sync"
    /\ acked' = acked \cup {frame.key}
    /\ UNCHANGED <<synced, snap, snaps, phase, memory, frame>>

WriteFrame ==
    /\ step = "write"
    /\ log' = Append(log, frame)
    /\ step' = "sync"
    /\ UNCHANGED <<synced, snap, snaps, phase, memory, frame, acked>>

(* The commit in progress returns an error. *)
Fail == step' = "idle" /\ frame' = None /\ UNCHANGED <<phase, memory, acked>>

(* Nothing, or some of the frame, was written. *)
WriteFails ==
    /\ "write" \in Faults
    /\ step = "write"
    /\ log' \in {log, Append(log, Torn)}
    /\ Fail
    /\ UNCHANGED <<synced, snap, snaps>>

(* Wrong: the command is not remembered. *)
AppliedWithoutKey(m, f) ==
    [m EXCEPT !.sequence = f.seq, !.versions[f.plan] = f.expected + 1]

Applied(m, f) ==
    [m EXCEPT !.sequence = f.seq, !.versions[f.plan] = f.expected + 1,
              !.commands[f.key] = f.action]

(* Wrong: the file is not synced, or the error is ignored. *)
SyncSkipped ==
    /\ step = "sync"
    /\ memory' = Applied(memory, frame)
    /\ step' = "snapshot"
    /\ UNCHANGED <<log, synced, snap, snaps, phase, frame, acked>>

(* The frame is durable; from here on the command has happened. *)
SyncLog ==
    /\ step = "sync"
    /\ synced' = Len(log)
    /\ memory' = Applied(memory, frame)
    /\ step' = "snapshot"
    /\ UNCHANGED <<log, snap, snaps, phase, frame, acked>>

(* The frame stays in the file; the memory does not know it. *)
SyncFails ==
    /\ "sync" \in Faults
    /\ step = "sync"
    /\ Fail
    /\ UNCHANGED files

(* Wrong: the snapshot is numbered like the next event. *)
RenamedTooHigh ==
    /\ step = "snapshot"
    /\ snap' = memory.sequence + 1
    /\ snaps' = snaps \cup {snap'}
    /\ step' = "syncdir"
    /\ UNCHANGED <<log, synced, phase, memory, frame, acked>>

(* A temporary file is written, synced and renamed. *)
RenameSnapshot ==
    /\ step = "snapshot"
    /\ snap' = memory.sequence
    /\ snaps' = snaps \cup {snap'}
    /\ step' = "syncdir"
    /\ UNCHANGED <<log, synced, phase, memory, frame, acked>>

(* With the directory synced, Commit returns nil. *)
SyncDirectory ==
    /\ step = "syncdir"
    /\ snaps' = {snap}
    /\ step' = "idle" /\ frame' = None
    /\ acked' = acked \cup {frame.key}
    /\ UNCHANGED <<log, synced, snap, phase, memory>>

(* Wrong: a commit whose snapshot fails is taken back. *)
SnapshotRollsBack ==
    /\ "snapshot" \in Faults
    /\ step \in {"snapshot", "syncdir"}
    /\ memory' = [memory EXCEPT !.sequence = frame.seq - 1, !.versions[frame.plan] = frame.expected,
                                !.commands[frame.key] = None]
    /\ step' = "idle" /\ frame' = None
    /\ UNCHANGED <<files, phase, acked>>

(* Before or after the rename: the caller is told of an error although the *)
(* command has happened.                                                   *)
SnapshotFails ==
    /\ "snapshot" \in Faults
    /\ step \in {"snapshot", "syncdir"}
    /\ Fail
    /\ UNCHANGED files

(* Wrong: Close does not wait for the mutex. *)
CloseUnlocked ==
    /\ phase = "open"
    /\ phase' = "closed"
    /\ UNCHANGED <<files, memory, step, frame, acked>>

(* From here on Commit returns an error, and reads are still answered. *)
Close ==
    /\ phase = "open" /\ step = "idle"
    /\ phase' = "closed"
    /\ UNCHANGED <<files, memory, step, frame, acked>>

Stopped == phase' = "down" /\ memory' = EmptyMemory /\ step' = "idle" /\ frame' = None

(* After Close the process exits; a kill ends it anywhere, even in write.  *)
Exit ==
    /\ \/ phase = "closed"
       \/ phase = "open" /\ "kill" \in Faults
    /\ log' \in {log} \cup (IF step = "write" THEN {Append(log, Torn)} ELSE {})
    /\ Stopped
    /\ UNCHANGED <<synced, snap, snaps, acked>>

(* Of what was not synced, any part is lost. *)
PowerCut ==
    /\ "power" \in Faults
    /\ phase # "refused"
    /\ \E n \in synced..Len(log) :
        /\ log' \in {SubSeq(log, 1, n)}
                      \cup (IF n < Len(log) \/ step = "write"
                               THEN {Append(SubSeq(log, 1, n), Torn)} ELSE {})
        /\ synced' = Len(log')
    /\ snap' \in snaps
    /\ snaps' = {snap'}
    /\ Stopped
    /\ UNCHANGED acked

Next ==
    \/ Open
    \/ \E p \in Plans, k \in Keys, a \in Actions : Begin(p, k, a)
    \/ WriteFrame
    \/ WriteFails
    \/ SyncLog
    \/ SyncFails
    \/ RenameSnapshot
    \/ SyncDirectory
    \/ SnapshotFails
    \/ Close
    \/ Exit
    \/ PowerCut

Spec == Init /\ [][Next]_vars

-----------------------------------------------------------------------------
(* Properties.                                                             *)

(* The files and the memory have the shape of frame.go and repository.go,  *)
(* and a commit is in progress in a running process only.                  *)
TypeOK ==
    /\ log \in Seq(Frame \cup {Torn})
    /\ synced \in 0..Len(log)
    /\ snap \in Nat /\ snaps \in SUBSET Nat /\ snap \in snaps
    /\ phase \in {"down", "open", "closed", "refused"}
    /\ memory \in Memory
    /\ step \in {"idle", "write", "sync", "snapshot", "syncdir"}
    /\ frame \in IF step = "idle" THEN {None} ELSE Frame
    /\ step # "idle" => phase = "open"
    /\ acked \in SUBSET Keys

(* README: "发现截断、乱序或内容损坏时拒绝启动".  A start is refused for a      *)
(* damaged log only, and never for what the store itself wrote in full,    *)
(* wherever it was killed or the power was cut.                            *)
RefusesOnlyDamaged ==
    phase = "refused" => \E i \in DOMAIN log : log[i] = Torn

(* Between commands the memory is what a restart would read from the log:  *)
(* recover and Commit build the same plans, versions and keys.             *)
MemoryIsReplay ==
    phase \in {"open", "closed"} /\ step = "idle" => memory = Replay(log)

(* README: "同一幂等键重试不会重复追加业务事件".  No key has two frames in the   *)
(* log, however often a command is tried again.                            *)
KeyOnce ==
    \A i, j \in DOMAIN log : log[i] # Torn /\ log[j] # Torn /\ log[i].key = log[j].key => i = j

(* Whatever I/O fails and wherever the process ends, projection.json never *)
(* knows more than the durable part of the log, not even the version of it *)
(* that a power cut brings back.                                           *)
SnapshotNotAhead == \A s \in snaps : s <= synced

(* A command whose Commit returned nil has its frame in the part of the    *)
(* log that no power cut can take away.                                    *)
AckedOnDisk == \A k \in acked : \E i \in 1..synced : log[i] # Torn /\ log[i].key = k

(* The frames up to the first one that a start would refuse. *)
Readable(l) == SubSeq(l, 1, Max({n \in 0..Len(l) : ValidUpTo(l, n)}))

Entries(l) ==
    LET r == Readable(l) IN
    [i \in DOMAIN r |-> [plan |-> r[i].plan, version |-> r[i].expected + 1,
                         key |-> r[i].key, action |-> r[i].action]]

(* As long as reads and writes succeed, a store that is killed or loses    *)
(* power anywhere is a journal.                                            *)
Promise == INSTANCE Journal WITH entries <- Entries(log)

KeepsJournal == Promise!Spec

=============================================================================

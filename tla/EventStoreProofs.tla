-------------------------- MODULE EventStoreProofs --------------------------
(***************************************************************************)
(* Theorems about EventStore, for any number of plans, keys and kinds of   *)
(* commands and whatever goes wrong: the types, and what the log on disk   *)
(* keeps for the snapshot and for those who were answered.                 *)
(***************************************************************************)
EXTENDS EventStore, FiniteSetTheorems, TLAPS

(* What holds at each step of a commit: a frame is synced before it is     *)
(* counted, counted before the snapshot is numbered, and all of that       *)
(* before anybody is answered.                                             *)
StepInOrder ==
    /\ phase = "open" => memory.sequence <= Len(log)
    /\ step = "write" => frame.seq = memory.sequence + 1
    /\ step = "sync" => Len(log) > 0 /\ log[Len(log)] = frame /\ frame.seq <= Len(log)
    /\ step \in {"snapshot", "syncdir"} =>
          memory.sequence <= synced /\ \E i \in 1..synced : log[i] = frame

IInv == TypeOK /\ StepInOrder /\ SnapshotNotAhead /\ AckedOnDisk

LEMMA CountType ==
    ASSUME NEW l, NEW n \in Nat, NEW p
    PROVE  Cardinality(FramesOf(l, n, p)) \in Nat
<1>1. IsFiniteSet(1..n)
  BY FS_Interval
<1>2. FramesOf(l, n, p) \subseteq 1..n
  BY DEF FramesOf
<1> QED
  BY <1>1, <1>2, FS_Subset, FS_CardinalityType

LEMMA ReplayType ==
    ASSUME NEW l \in Seq(Frame \cup {Torn}), ValidUpTo(l, Len(l))
    PROVE  Replay(l) \in Memory
<1>1. Len(l) \in Nat /\ DOMAIN l = 1..Len(l)
  OBVIOUS
<1>2. [p \in Plans |-> Cardinality(FramesOf(l, Len(l), p))] \in [Plans -> Nat]
  BY <1>1, CountType
<1>3. \A i \in DOMAIN l : l[i] \in Frame
  BY <1>1 DEF ValidUpTo, ValidFrame
<1>4. \A i \in DOMAIN l : l[i].action \in Actions
  BY <1>3 DEF Frame
<1>5. ASSUME NEW k \in Keys
      PROVE  (IF \E i \in DOMAIN l : l[i].key = k
                 THEN l[CHOOSE i \in DOMAIN l : l[i].key = k].action ELSE None)
                \in Actions \cup {None}
  BY <1>4
<1> QED
  BY <1>1, <1>2, <1>5 DEF Replay, Memory

LEMMA EmptyMemoryType == EmptyMemory \in Memory
<1>1. << >> \in Seq(Frame \cup {Torn}) /\ ValidUpTo(<< >>, Len(<< >>))
  BY DEF ValidUpTo
<1> QED
  BY <1>1, ReplayType DEF EmptyMemory

LEMMA InitInvariant == Init => IInv
<1> SUFFICES ASSUME Init PROVE IInv
  OBVIOUS
<1>1. TypeOK
  BY EmptyMemoryType DEF Init, TypeOK
<1>2. StepInOrder /\ SnapshotNotAhead /\ AckedOnDisk
  BY DEF Init, StepInOrder, SnapshotNotAhead, AckedOnDisk
<1> QED
  BY <1>1, <1>2 DEF IInv

(* A commit in progress writes a frame. *)
LEMMA FrameInProgress ==
    ASSUME TypeOK, step # "idle"
    PROVE  frame \in Frame /\ frame # Torn /\ phase = "open"
BY ConstantsAssumption DEF TypeOK

(* A commit that fails leaves everything that was durable so. *)
LEMMA FailInvariant ==
    ASSUME IInv, Fail, UNCHANGED <<synced, snap, snaps>>,
           log' = log \/ log' = Append(log, Torn)
    PROVE  IInv'
<1>1. /\ log' \in Seq(Frame \cup {Torn})
      /\ Len(log') >= Len(log) /\ Len(log) \in Nat
      /\ \A i \in 1..Len(log) : log'[i] = log[i]
  BY DEF IInv, TypeOK
<1>2. TypeOK'
  BY <1>1 DEF IInv, TypeOK, Fail
<1>3. memory.sequence \in Nat
  BY DEF IInv, TypeOK, Memory
<1>4. StepInOrder'
  BY <1>1, <1>3 DEF IInv, StepInOrder, Fail
<1>5. SnapshotNotAhead' /\ AckedOnDisk'
  BY <1>1 DEF IInv, TypeOK, SnapshotNotAhead, AckedOnDisk, Fail
<1> QED
  BY <1>2, <1>4, <1>5 DEF IInv

LEMMA OpenInvariant == ASSUME IInv, Open PROVE IInv'
<1>1. log \in Seq(Frame \cup {Torn}) /\ Len(log) \in Nat
  BY DEF IInv, TypeOK
<1>2. memory' \in Memory /\ (phase' = "open" => memory'.sequence = Len(log))
  <2>1. CASE ValidUpTo(log, Len(log)) /\ snap <= Len(log)
    <3>1. memory' = Replay(log)
      BY <2>1 DEF Open
    <3>2. Replay(log) \in Memory
      BY <1>1, <2>1, ReplayType
    <3>3. Replay(log).sequence = Len(log)
      BY DEF Replay
    <3> QED
      BY <3>1, <3>2, <3>3
  <2>2. CASE ~ (ValidUpTo(log, Len(log)) /\ snap <= Len(log))
    BY <2>2 DEF Open, IInv, TypeOK
  <2> QED
    BY <2>1, <2>2
<1>3. TypeOK'
  BY <1>2 DEF IInv, TypeOK, Open, files
<1>4. step = "idle" /\ step' = "idle"
  BY DEF IInv, TypeOK, Open
<1>5. StepInOrder'
  BY <1>1, <1>2, <1>4 DEF StepInOrder, Open, files
<1>6. SnapshotNotAhead' /\ AckedOnDisk'
  BY DEF IInv, SnapshotNotAhead, AckedOnDisk, Open, files
<1> QED
  BY <1>3, <1>5, <1>6 DEF IInv

LEMMA BeginInvariant ==
    ASSUME IInv, NEW p \in Plans, NEW k \in Keys, NEW a \in Actions, Begin(p, k, a)
    PROVE  IInv'
<1>1. memory.sequence \in Nat /\ memory.versions[p] \in Nat
  BY DEF IInv, TypeOK, Memory
<1>2. frame' \in Frame /\ frame'.seq = memory.sequence + 1
  BY <1>1 DEF Begin, Frame
<1>3. TypeOK'
  BY <1>2 DEF IInv, TypeOK, Begin, files
<1>4. StepInOrder'
  BY <1>2 DEF IInv, StepInOrder, Begin, files
<1>5. SnapshotNotAhead' /\ AckedOnDisk'
  BY DEF IInv, SnapshotNotAhead, AckedOnDisk, Begin, files
<1> QED
  BY <1>3, <1>4, <1>5 DEF IInv

LEMMA WriteFrameInvariant == ASSUME IInv, WriteFrame PROVE IInv'
<1>1. frame \in Frame /\ frame # Torn /\ phase = "open"
  BY FrameInProgress DEF IInv, WriteFrame
<1>2. /\ log' \in Seq(Frame \cup {Torn}) /\ Len(log) \in Nat
      /\ Len(log') = Len(log) + 1 /\ log'[Len(log')] = frame
      /\ \A i \in 1..Len(log) : log'[i] = log[i]
  BY <1>1 DEF IInv, TypeOK, WriteFrame
<1>3. TypeOK'
  BY <1>1, <1>2 DEF IInv, TypeOK, WriteFrame
<1>4. memory.sequence \in Nat
  BY DEF IInv, TypeOK, Memory
<1>5. memory.sequence <= Len(log) /\ frame.seq = memory.sequence + 1
  BY <1>1 DEF IInv, StepInOrder, WriteFrame
<1>6. StepInOrder'
  BY <1>2, <1>4, <1>5 DEF StepInOrder, WriteFrame
<1>7. SnapshotNotAhead' /\ AckedOnDisk'
  BY <1>2 DEF IInv, TypeOK, SnapshotNotAhead, AckedOnDisk, WriteFrame
<1> QED
  BY <1>3, <1>6, <1>7 DEF IInv

LEMMA SyncLogInvariant == ASSUME IInv, SyncLog PROVE IInv'
<1>1. frame \in Frame /\ frame # Torn /\ phase = "open"
  BY FrameInProgress DEF IInv, SyncLog
<1>2. /\ Len(log) \in Nat /\ Len(log) > 0 /\ log[Len(log)] = frame /\ frame.seq <= Len(log)
      /\ synced <= Len(log) /\ synced \in Nat
  BY DEF IInv, TypeOK, StepInOrder, SyncLog
<1>3. memory' \in Memory /\ memory'.sequence = frame.seq
  <2>1. frame.seq \in Nat /\ frame.expected + 1 \in Nat /\ frame.action \in Actions
    BY <1>1 DEF Frame
  <2> QED
    BY <2>1 DEF IInv, TypeOK, Memory, SyncLog, Applied
<1>4. TypeOK'
  BY <1>1, <1>2, <1>3 DEF IInv, TypeOK, SyncLog
<1>5. StepInOrder'
  <2>1. \E i \in 1..synced' : log'[i] = frame'
    BY <1>2 DEF SyncLog
  <2> QED
    BY <1>1, <1>2, <1>3, <2>1 DEF StepInOrder, SyncLog
<1>6. SnapshotNotAhead'
  BY <1>2 DEF IInv, TypeOK, SnapshotNotAhead, SyncLog
<1>7. AckedOnDisk'
  BY <1>2 DEF IInv, AckedOnDisk, SyncLog
<1> QED
  BY <1>4, <1>5, <1>6, <1>7 DEF IInv

LEMMA RenameSnapshotInvariant == ASSUME IInv, RenameSnapshot PROVE IInv'
<1>1. frame \in Frame /\ phase = "open"
  BY FrameInProgress DEF IInv, RenameSnapshot
<1>2. memory.sequence \in Nat /\ memory.sequence <= synced
  BY DEF IInv, TypeOK, Memory, StepInOrder, RenameSnapshot
<1>3. TypeOK'
  BY <1>1, <1>2 DEF IInv, TypeOK, RenameSnapshot
<1>4. StepInOrder'
  BY DEF IInv, StepInOrder, RenameSnapshot
<1>5. SnapshotNotAhead' /\ AckedOnDisk'
  BY <1>2 DEF IInv, SnapshotNotAhead, AckedOnDisk, RenameSnapshot
<1> QED
  BY <1>3, <1>4, <1>5 DEF IInv

LEMMA SyncDirectoryInvariant == ASSUME IInv, SyncDirectory PROVE IInv'
<1>1. frame \in Frame /\ frame # Torn /\ phase = "open"
  BY FrameInProgress DEF IInv, SyncDirectory
<1>2. frame.key \in Keys
  BY <1>1 DEF Frame
<1>3. TypeOK'
  BY <1>1, <1>2 DEF IInv, TypeOK, SyncDirectory
<1>4. StepInOrder'
  BY DEF IInv, StepInOrder, SyncDirectory
<1>5. SnapshotNotAhead'
  BY DEF IInv, TypeOK, SnapshotNotAhead, SyncDirectory
<1>6. \E i \in 1..synced : log[i] = frame
  BY DEF IInv, StepInOrder, SyncDirectory
<1>7. AckedOnDisk'
  BY <1>1, <1>6 DEF IInv, AckedOnDisk, SyncDirectory
<1> QED
  BY <1>3, <1>4, <1>5, <1>7 DEF IInv

(* A stop keeps a prefix of the log with all that was synced. *)
LEMMA StopInvariant ==
    ASSUME IInv, Stopped, UNCHANGED acked,
           log' \in Seq(Frame \cup {Torn}), Len(log') >= synced,
           \A i \in 1..synced : log'[i] = log[i],
           synced' \in synced..Len(log'),
           snaps' \subseteq snaps, snap' \in snaps'
    PROVE  IInv'
<1>1. TypeOK'
  BY EmptyMemoryType DEF IInv, TypeOK, Stopped
<1>2. StepInOrder'
  BY DEF StepInOrder, Stopped
<1>3. synced \in Nat
  BY DEF IInv, TypeOK
<1>4. SnapshotNotAhead' /\ AckedOnDisk'
  BY <1>3 DEF IInv, TypeOK, SnapshotNotAhead, AckedOnDisk
<1> QED
  BY <1>1, <1>2, <1>4 DEF IInv

LEMMA ExitInvariant == ASSUME IInv, Exit PROVE IInv'
<1>1. log' = log \/ log' = Append(log, Torn)
  BY DEF Exit
<1>2. /\ log' \in Seq(Frame \cup {Torn}) /\ Len(log') \in Nat /\ Len(log') >= Len(log)
      /\ \A i \in 1..Len(log) : log'[i] = log[i]
  BY <1>1 DEF IInv, TypeOK
<1>3. synced \in Nat /\ synced <= Len(log) /\ snap \in snaps
  BY DEF IInv, TypeOK
<1>4. \A i \in 1..synced : log'[i] = log[i]
  BY <1>2, <1>3
<1> QED
  BY <1>2, <1>3, <1>4, StopInvariant DEF Exit

LEMMA PowerCutInvariant == ASSUME IInv, PowerCut PROVE IInv'
<1>1. PICK n \in synced..Len(log) :
         /\ log' = SubSeq(log, 1, n) \/ log' = Append(SubSeq(log, 1, n), Torn)
         /\ synced' = Len(log')
  BY DEF PowerCut
<1>2. synced \in Nat /\ n \in Nat /\ synced <= n /\ n <= Len(log)
  BY DEF IInv, TypeOK
<1>3. /\ SubSeq(log, 1, n) \in Seq(Frame \cup {Torn}) /\ Len(SubSeq(log, 1, n)) = n
      /\ \A i \in 1..n : SubSeq(log, 1, n)[i] = log[i]
  BY <1>2 DEF IInv, TypeOK
<1> DEFINE kept == SubSeq(log, 1, n)
<1> HIDE DEF kept
<1>4. /\ log' \in Seq(Frame \cup {Torn}) /\ Len(log') \in Nat /\ Len(log') >= n
      /\ \A i \in 1..n : log'[i] = log[i]
  BY <1>1, <1>2, <1>3 DEF kept
<1>5. \A i \in 1..synced : log'[i] = log[i]
  BY <1>2, <1>4
<1>6. snaps' \subseteq snaps /\ snap' \in snaps'
  BY DEF PowerCut
<1> QED
  BY <1>1, <1>2, <1>4, <1>5, <1>6, StopInvariant DEF PowerCut

LEMMA NextInvariant ==
    ASSUME IInv, [Next]_vars
    PROVE  IInv'
<1>1. CASE UNCHANGED vars
  BY <1>1 DEF vars, IInv, TypeOK, StepInOrder, SnapshotNotAhead, AckedOnDisk
<1>2. CASE WriteFails
  BY <1>2, FailInvariant DEF WriteFails
<1>3. CASE SyncFails
  BY <1>3, FailInvariant DEF SyncFails, files
<1>4. CASE SnapshotFails
  BY <1>4, FailInvariant DEF SnapshotFails, files
<1>5. CASE Close
  BY <1>5 DEF Close, files, IInv, TypeOK, StepInOrder, SnapshotNotAhead, AckedOnDisk
<1> QED
  BY <1>1, <1>2, <1>3, <1>4, <1>5, OpenInvariant, BeginInvariant, WriteFrameInvariant,
     SyncLogInvariant, RenameSnapshotInvariant, SyncDirectoryInvariant, ExitInvariant,
     PowerCutInvariant
     DEF Next

LEMMA InvariantHolds == Spec => []IInv
<1>1. IInv /\ [Next]_vars => IInv'
  BY NextInvariant
<1> QED
  BY <1>1, InitInvariant, PTL DEF Spec

(* The store is always of the types that frame.go and snapshot.go declare, *)
(* and a commit runs in an open store only (Close takes the mutex).        *)
THEOREM TypeCorrect == Spec => []TypeOK
<1>1. IInv => TypeOK
  BY DEF IInv
<1> QED
  BY <1>1, InvariantHolds, PTL

(* No snapshot is ever ahead of the log, which recover would refuse: the   *)
(* order of the steps of Commit is enough, whatever fails.                 *)
THEOREM SnapshotBehindLog == Spec => []SnapshotNotAhead
<1>1. IInv => SnapshotNotAhead
  BY DEF IInv
<1> QED
  BY <1>1, InvariantHolds, PTL

(* What Commit returned nil for is on disk for good.                       *)
THEOREM AckedIsDurable == Spec => []AckedOnDisk
<1>1. IInv => AckedOnDisk
  BY DEF IInv
<1> QED
  BY <1>1, InvariantHolds, PTL

=============================================================================

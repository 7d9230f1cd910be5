---------------------- MODULE EventStoreRecoveryProofs ----------------------
(****************************************************************************)
(* Theorems about EventStore as long as fsyncs of the log succeed: wherever *)
(* the process is killed, the power is cut or a write fails, the next start *)
(* refuses only what was cut off, and no key is written twice.  As long as  *)
(* writes succeed, too, it reads what was confirmed, and the store is a     *)
(* Journal.                                                                 *)
(****************************************************************************)
EXTENDS EventStoreProofs

Reliable ==
    /\ "write" \notin Faults /\ "sync" \notin Faults
    /\ \A a \in Actions : KeepsDigest(a)

(* A log that a start accepts, and one of which the last frame is cut off. *)
Whole(l) == ValidUpTo(l, Len(l))

Cut(l) == Len(l) > 0 /\ l[Len(l)] = Torn /\ ValidUpTo(l, Len(l) - 1)

(* The frame f is the next one of the log l. *)
Fits(l, f) ==
    /\ f \in Frame /\ RoundTrips(f)
    /\ f.seq = Len(l) + 1
    /\ f.expected = Cardinality(FramesOf(l, Len(l), f.plan))
    /\ \A j \in DOMAIN l : l[j].key # f.key

Logs == Seq(Frame \cup {Torn})

-----------------------------------------------------------------------------
(* What a log is worth.                                                    *)

(* A frame is judged by those before it. *)
LEMMA SamePrefix ==
    ASSUME NEW l, NEW r, NEW n \in Nat, \A i \in 1..n : r[i] = l[i]
    PROVE  /\ \A p : FramesOf(r, n, p) = FramesOf(l, n, p)
           /\ ValidUpTo(l, n) => ValidUpTo(r, n)
<1>1. \A m \in 0..n : \A p : FramesOf(r, m, p) = FramesOf(l, m, p)
  BY DEF FramesOf
<1>2. ASSUME ValidUpTo(l, n), NEW i \in 1..n PROVE ValidFrame(r, i)
  <2>1. i - 1 \in 0..n /\ \A j \in 1..(i - 1) : r[j] = l[j]
    OBVIOUS
  <2>2. ValidFrame(l, i)
    BY <1>2 DEF ValidUpTo
  <2>3. FramesOf(r, i - 1, r[i].plan) = FramesOf(l, i - 1, l[i].plan)
    BY <1>1, <2>1
  <2> QED
    BY <2>1, <2>2, <2>3 DEF ValidFrame
<1> QED
  BY <1>1, <1>2 DEF ValidUpTo

LEMMA Shorter ==
    ASSUME NEW l \in Logs, NEW n \in 0..Len(l), ValidUpTo(l, n)
    PROVE  Whole(SubSeq(l, 1, n)) /\ Len(SubSeq(l, 1, n)) = n /\ SubSeq(l, 1, n) \in Seq(Frame)
<1> DEFINE s == SubSeq(l, 1, n)
<1>1. n \in Nat /\ Len(s) = n /\ \A i \in 1..n : s[i] = l[i]
  BY DEF Logs
<1>2. \A i \in 1..n : l[i] \in Frame
  BY DEF ValidUpTo, ValidFrame, Logs
<1>3. s \in Seq(Frame)
  BY <1>2 DEF Logs
<1> HIDE DEF s
<1>4. ValidUpTo(s, n)
  BY <1>1, SamePrefix
<1> QED
  BY <1>1, <1>3, <1>4 DEF Whole, s

LEMMA WholeIsFrames ==
    ASSUME NEW l \in Logs, Whole(l)
    PROVE  l \in Seq(Frame)
<1>1. \A i \in 1..Len(l) : l[i] \in Frame
  BY DEF Whole, ValidUpTo, ValidFrame, Logs
<1> QED
  BY <1>1 DEF Logs

LEMMA AppendParts ==
    ASSUME NEW S, NEW l \in Seq(S), NEW f \in S
    PROVE  /\ Append(l, f) \in Seq(S) /\ Len(l) \in Nat /\ Len(Append(l, f)) = Len(l) + 1
           /\ DOMAIN l = 1..Len(l) /\ DOMAIN Append(l, f) = 1..(Len(l) + 1)
           /\ Append(l, f)[Len(l) + 1] = f
           /\ \A i \in 1..Len(l) : Append(l, f)[i] = l[i]
OBVIOUS

LEMMA SeqParts ==
    ASSUME NEW S, NEW l \in Seq(S)
    PROVE  Len(l) \in Nat /\ DOMAIN l = 1..Len(l)
OBVIOUS

(* The next frame makes a longer log of the same kind. *)
LEMMA FitsWhole ==
    ASSUME NEW l \in Seq(Frame), Whole(l), NEW f, Fits(l, f)
    PROVE  Whole(Append(l, f))
<1> DEFINE r == Append(l, f)
           n == Len(l)
<1>1. f \in Frame /\ n \in Nat
  BY DEF Fits
<1>2. /\ Len(r) = n + 1 /\ r[n + 1] = f /\ DOMAIN l = 1..n
      /\ \A i \in 1..n : r[i] = l[i]
  BY <1>1, AppendParts
<1> HIDE DEF r
<1>3. ValidUpTo(r, n)
  BY <1>1, <1>2, SamePrefix DEF Whole
<1>4. ValidFrame(r, n + 1)
  <2>1. f # Torn
    BY <1>1, ConstantsAssumption
  <2>2. FramesOf(r, n, f.plan) = FramesOf(l, n, f.plan)
    BY <1>1, <1>2, SamePrefix
  <2>3. \A j \in 1..n : r[j].key # f.key
    BY <1>2 DEF Fits
  <2>4. (n + 1) - 1 = n
    BY <1>1
  <2> HIDE DEF n
  <2> QED
    BY <1>2, <2>1, <2>2, <2>3, <2>4 DEF Fits, ValidFrame, n
<1>5. \A i \in 1..(n + 1) : i \in 1..n \/ i = n + 1
  BY <1>1
<1> QED
  BY <1>2, <1>3, <1>4, <1>5 DEF Whole, ValidUpTo, r

LEMMA TornCuts ==
    ASSUME NEW l \in Logs, Whole(l)
    PROVE  Cut(Append(l, Torn))
<1> DEFINE r == Append(l, Torn)
           n == Len(l)
<1>1. /\ n \in Nat /\ Len(r) = n + 1 /\ r[n + 1] = Torn /\ \A i \in 1..n : r[i] = l[i]
  BY AppendParts DEF Logs
<1> HIDE DEF r
<1>2. ValidUpTo(r, n)
  BY <1>1, SamePrefix DEF Whole
<1>3. (n + 1) - 1 = n /\ n + 1 > 0
  BY <1>1
<1> QED
  BY <1>1, <1>2, <1>3 DEF Cut, r

(* Each key of an accepted log names one frame. *)
LEMMA KeyNamesFrame ==
    ASSUME NEW l \in Logs, NEW n \in 0..Len(l), ValidUpTo(l, n),
           NEW i \in 1..n, NEW j \in 1..n, l[i].key = l[j].key
    PROVE  i = j
<1>1. ASSUME NEW x \in 1..n, NEW y \in 1..n, x < y PROVE l[x].key # l[y].key
  <2>1. x \in 1..(y - 1)
    BY <1>1
  <2> QED
    BY <2>1 DEF ValidUpTo, ValidFrame
<1> QED
  BY <1>1

LEMMA FramesAreLogs ==
    ASSUME NEW l \in Seq(Frame)
    PROVE  l \in Logs
<1>1. DOMAIN l = 1..Len(l) /\ Len(l) \in Nat /\ \A i \in DOMAIN l : l[i] \in Frame
  OBVIOUS
<1> QED
  BY <1>1 DEF Logs

LEMMA SameMemory ==
    ASSUME NEW m \in Memory, NEW r \in Memory, m.sequence = r.sequence,
           m.versions = r.versions, m.commands = r.commands
    PROVE  m = r
BY DEF Memory

LEMMA AppliedParts ==
    ASSUME NEW m \in Memory, NEW f \in Frame
    PROVE  /\ Applied(m, f) \in Memory
           /\ Applied(m, f).sequence = f.seq
           /\ Applied(m, f).versions = [m.versions EXCEPT ![f.plan] = f.expected + 1]
           /\ Applied(m, f).commands = [m.commands EXCEPT ![f.key] = f.action]
<1>1. /\ f.seq \in Nat /\ f.plan \in Plans /\ f.expected + 1 \in Nat
      /\ f.key \in Keys /\ f.action \in Actions
  BY DEF Frame
<1>2. Applied(m, f) \in Memory
  BY <1>1 DEF Applied, Memory
<1> QED
  BY <1>2 DEF Applied, Memory

(* What a start reads of the keys. *)
LEMMA ReplayKeys ==
    ASSUME NEW l \in Seq(Frame), Whole(l)
    PROVE  /\ \A i \in DOMAIN l : Replay(l).commands[l[i].key] = l[i].action
           /\ \A k \in Keys : (\A i \in DOMAIN l : l[i].key # k) <=> Replay(l).commands[k] = None
<1> DEFINE At(k) == CHOOSE i \in DOMAIN l : l[i].key = k
<1>1. /\ DOMAIN l = 1..Len(l) /\ Len(l) \in 0..Len(l) /\ l \in Logs
      /\ \A i \in DOMAIN l : l[i].key \in Keys /\ l[i].action \in Actions
  <2>1. DOMAIN l = 1..Len(l) /\ Len(l) \in Nat /\ \A i \in DOMAIN l : l[i] \in Frame
    OBVIOUS
  <2>2. \A x \in Frame : x.key \in Keys /\ x.action \in Actions
    BY DEF Frame
  <2>3. Len(l) \in 0..Len(l) /\ \A i \in DOMAIN l : l[i].key \in Keys /\ l[i].action \in Actions
    BY <2>1, <2>2
  <2> QED
    BY <2>1, <2>3, FramesAreLogs
<1>2. \A k \in Keys : Replay(l).commands[k] = IF \E i \in DOMAIN l : l[i].key = k
                                                 THEN l[At(k)].action ELSE None
  BY DEF Replay
<1>3. \A k : (\E i \in DOMAIN l : l[i].key = k) => At(k) \in DOMAIN l /\ l[At(k)].key = k
  OBVIOUS
<1> HIDE DEF At
<1>4. \A i \in DOMAIN l : At(l[i].key) = i
  <2> TAKE i \in DOMAIN l
  <2>1. At(l[i].key) \in DOMAIN l /\ l[At(l[i].key)].key = l[i].key
    BY <1>3
  <2> QED
    BY <1>1, <2>1, KeyNamesFrame DEF Whole
<1> QED
  BY <1>1, <1>2, <1>3, <1>4, ConstantsAssumption

(* One frame more, read at a start, is the frame applied to the memory.    *)
LEMMA ReplayNext ==
    ASSUME NEW l \in Seq(Frame), Whole(l), NEW f, Fits(l, f)
    PROVE  Replay(Append(l, f)) = Applied(Replay(l), f)
<1> DEFINE r == Append(l, f)
           n == Len(l)
<1>1. f \in Frame /\ n \in Nat /\ f.plan \in Plans /\ f.key \in Keys
  BY DEF Fits, Frame
<1>2. /\ r \in Seq(Frame) /\ Len(r) = n + 1 /\ r[n + 1] = f /\ DOMAIN l = 1..n
      /\ DOMAIN r = 1..(n + 1) /\ \A i \in 1..n : r[i] = l[i]
  BY <1>1, AppendParts
<1> HIDE DEF r
<1>3. Whole(r)
  BY FitsWhole DEF r
<1>4. \A i \in 1..(n + 1) : i \in 1..n \/ i = n + 1
  BY <1>1
<1>5. ASSUME NEW p \in Plans
      PROVE  Cardinality(FramesOf(r, n + 1, p))
               = IF p = f.plan THEN f.expected + 1 ELSE Cardinality(FramesOf(l, n, p))
  <2>1. FramesOf(r, n + 1, p) = FramesOf(l, n, p) \cup (IF p = f.plan THEN {n + 1} ELSE {})
    <3>1. 1..n \subseteq 1..(n + 1) /\ n + 1 \in 1..(n + 1)
      BY <1>1
    <3> QED
      BY <1>2, <1>4, <3>1 DEF FramesOf
  <2>2. IsFiniteSet(FramesOf(l, n, p)) /\ n + 1 \notin FramesOf(l, n, p)
    <3>1. FramesOf(l, n, p) \subseteq 1..n /\ IsFiniteSet(1..n) /\ n + 1 \notin 1..n
      BY <1>1, FS_Interval DEF FramesOf
    <3> QED
      BY <3>1, FS_Subset
  <2>3. Cardinality(FramesOf(l, n, p) \cup {n + 1}) = Cardinality(FramesOf(l, n, p)) + 1
    BY <2>2, FS_AddElement
  <2> QED
    BY <2>1, <2>3 DEF Fits
<1>6. ASSUME NEW k \in Keys
      PROVE  Replay(r).commands[k] = IF k = f.key THEN f.action ELSE Replay(l).commands[k]
  <2>1. CASE k = f.key
    <3>1. n + 1 \in DOMAIN r
      BY <1>1, <1>2
    <3> QED
      BY <1>2, <1>3, <2>1, <3>1, ReplayKeys
  <2>2. CASE k # f.key /\ \E i \in DOMAIN l : l[i].key = k
    <3>1. PICK i \in 1..n : l[i].key = k
      BY <1>2, <2>2
    <3>2. i \in DOMAIN r /\ r[i] = l[i]
      BY <1>1, <1>2
    <3> QED
      BY <1>2, <1>3, <2>2, <3>1, <3>2, ReplayKeys
  <2>3. CASE k # f.key /\ \A i \in DOMAIN l : l[i].key # k
    <3>1. \A i \in DOMAIN r : r[i].key # k
      BY <1>2, <1>4, <2>3
    <3> QED
      BY <1>2, <1>3, <2>3, <3>1, ReplayKeys
  <2> QED
    BY <2>1, <2>2, <2>3
<1> DEFINE m == Replay(l)
           a == Applied(m, f)
<1>7. m \in Memory /\ Replay(r) \in Memory /\ a \in Memory
  <2>1. r \in Logs /\ l \in Logs
    BY <1>2, FramesAreLogs
  <2>2. m \in Memory /\ Replay(r) \in Memory
    BY <1>3, <2>1, ReplayType DEF Logs, Whole
  <2> HIDE DEF m
  <2> QED
    BY <1>1, <2>2, AppliedParts
<1>8. /\ a.sequence = f.seq
      /\ a.versions = [m.versions EXCEPT ![f.plan] = f.expected + 1]
      /\ a.commands = [m.commands EXCEPT ![f.key] = f.action]
  <2> HIDE DEF m
  <2> QED
    BY <1>1, <1>7, AppliedParts
<1>9. /\ Replay(r).sequence = n + 1
      /\ Replay(r).versions = [p \in Plans |-> Cardinality(FramesOf(r, n + 1, p))]
      /\ m.versions = [p \in Plans |-> Cardinality(FramesOf(l, n, p))]
      /\ Replay(r).commands = [k \in Keys |-> Replay(r).commands[k]]
      /\ m.commands = [k \in Keys |-> m.commands[k]]
  BY <1>2 DEF Replay
<1> HIDE DEF a
<1>10. a.versions = Replay(r).versions
  BY <1>1, <1>5, <1>8, <1>9
<1>11. a.commands = Replay(r).commands
  BY <1>1, <1>6, <1>8, <1>9
<1>12. a.sequence = Replay(r).sequence
  BY <1>8, <1>9 DEF Fits
<1>13. a = Replay(r)
  BY <1>7, <1>10, <1>11, <1>12, SameMemory
<1> QED
  BY <1>13 DEF a, r

LEMMA TypedLog ==
    ASSUME IInv
    PROVE  /\ log \in Logs /\ Len(log) \in Nat /\ DOMAIN log = 1..Len(log)
           /\ phase \in {"down", "open", "closed", "refused"}
           /\ step \in {"idle", "write", "sync", "snapshot", "syncdir"}
           /\ step # "idle" => phase = "open" /\ frame \in Frame
BY FrameInProgress DEF IInv, TypeOK, Logs

-----------------------------------------------------------------------------
(* What holds while fsyncs succeed, and writes may fail.                   *)

SyncsHold == "sync" \notin Faults /\ \A a \in Actions : KeepsDigest(a)

(* A log with a torn frame, and nothing wrong before it. *)
Broken(l) == \E n \in 0..(Len(l) - 1) : l[n + 1] = Torn /\ ValidUpTo(l, n)

(* The store only goes wrong from a torn frame on; as long as there is     *)
(* none, it knows its log.                                                 *)
Legible ==
    /\ Whole(log) \/ Broken(log)
    /\ phase \in {"open", "closed"} /\ Whole(log) /\ step # "sync" => memory = Replay(log)
    /\ step = "write" /\ Whole(log) => Fits(log, frame)
    /\ step = "sync" /\ Whole(log) => \E l \in Seq(Frame) :
          Whole(l) /\ memory = Replay(l) /\ Fits(l, frame) /\ log = Append(l, frame)
    /\ phase = "refused" => Broken(log)

LEMMA BrokenIsNotWhole ==
    ASSUME NEW l \in Logs, Broken(l)
    PROVE  ~ Whole(l)
<1>1. PICK n \in 0..(Len(l) - 1) : l[n + 1] = Torn
  BY DEF Broken
<1>2. n + 1 \in 1..Len(l)
  BY DEF Logs
<1> QED
  BY <1>1, <1>2 DEF Whole, ValidUpTo, ValidFrame

(* Whatever follows a torn frame, it stays the first. *)
LEMMA BrokenAppend ==
    ASSUME NEW l \in Logs, NEW f \in Frame \cup {Torn}, Broken(l) \/ (Whole(l) /\ f = Torn)
    PROVE  Broken(Append(l, f))
<1> DEFINE r == Append(l, f)
<1>1. /\ Len(l) \in Nat /\ Len(r) = Len(l) + 1 /\ r[Len(l) + 1] = f
      /\ \A i \in 1..Len(l) : r[i] = l[i]
  BY AppendParts DEF Logs
<1> HIDE DEF r
<1>2. CASE Broken(l)
  <2>1. PICK n \in 0..(Len(l) - 1) : l[n + 1] = Torn /\ ValidUpTo(l, n)
    BY <1>2 DEF Broken
  <2>2. n \in Nat /\ n + 1 \in 1..Len(l) /\ n \in 0..(Len(r) - 1) /\ \A i \in 1..n : i \in 1..Len(l)
    BY <1>1, <2>1
  <2>3. r[n + 1] = Torn /\ ValidUpTo(r, n)
    BY <1>1, <2>1, <2>2, SamePrefix
  <2> QED
    BY <2>2, <2>3 DEF Broken, r
<1>3. CASE Whole(l) /\ f = Torn
  <2>1. ValidUpTo(r, Len(l))
    BY <1>1, <1>3, SamePrefix DEF Whole
  <2>2. Len(l) \in 0..(Len(r) - 1)
    BY <1>1
  <2> QED
    BY <1>1, <1>3, <2>1, <2>2 DEF Broken, r
<1> QED
  BY <1>2, <1>3

(* What is left of a log is as good as the log. *)
LEMMA LegiblePrefix ==
    ASSUME NEW l \in Logs, Whole(l) \/ Broken(l), NEW n \in 0..Len(l)
    PROVE  Whole(SubSeq(l, 1, n)) \/ Broken(SubSeq(l, 1, n))
<1> DEFINE s == SubSeq(l, 1, n)
<1>1. Len(l) \in Nat /\ n \in Nat /\ Len(s) = n /\ \A i \in 1..n : s[i] = l[i]
  BY DEF Logs
<1>2. CASE ValidUpTo(l, n)
  BY <1>2, Shorter
<1>3. CASE ~ ValidUpTo(l, n)
  <2>1. Broken(l)
    BY <1>1, <1>3 DEF Whole, ValidUpTo
  <2>2. PICK m \in 0..(Len(l) - 1) : l[m + 1] = Torn /\ ValidUpTo(l, m)
    BY <2>1 DEF Broken
  <2>3. m < n
    BY <1>1, <1>3, <2>2 DEF ValidUpTo
  <2>4. m \in Nat /\ m \in 0..(Len(s) - 1) /\ m + 1 \in 1..n /\ \A i \in 1..m : i \in 1..n
    BY <1>1, <2>2, <2>3
  <2> HIDE DEF s
  <2>5. s[m + 1] = Torn /\ ValidUpTo(s, m)
    BY <1>1, <2>2, <2>4, SamePrefix
  <2> QED
    BY <2>4, <2>5 DEF Broken, s
<1> QED
  BY <1>2, <1>3

LEMMA OpenLegible ==
    ASSUME IInv, Legible, Open
    PROVE  Legible'
<1>1. step = "idle" /\ snap <= Len(log)
  <2>1. step = "idle"
    BY TypedLog DEF Open
  <2>2. snap \in snaps /\ synced \in Nat /\ snap \in Nat /\ synced <= Len(log) /\ Len(log) \in Nat
    BY DEF IInv, TypeOK
  <2>3. snap <= synced
    BY <2>2 DEF IInv, SnapshotNotAhead
  <2> QED
    BY <2>1, <2>2, <2>3
<1>2. UNCHANGED <<log, step>>
  BY DEF Open, files
<1>3. CASE Whole(log)
  BY <1>1, <1>2, <1>3 DEF Open, Whole, Legible
<1>4. CASE ~ Whole(log)
  BY <1>1, <1>2, <1>4 DEF Open, Whole, Legible
<1> QED
  BY <1>3, <1>4

LEMMA BeginLegible ==
    ASSUME SyncsHold, IInv, Legible, NEW p \in Plans, NEW k \in Keys, NEW a \in Actions,
           Begin(p, k, a)
    PROVE  Legible'
<1>1. ASSUME Whole(log) PROVE Fits(log, frame')
  <2>1. memory = Replay(log)
    BY <1>1 DEF Legible, Begin
  <2>2. log \in Seq(Frame) /\ Len(log) \in Nat
    BY <1>1, TypedLog, WholeIsFrames
  <2>3. memory.sequence = Len(log) /\ memory.versions[p] = Cardinality(FramesOf(log, Len(log), p))
    BY <2>1 DEF Replay
  <2>4. frame' = [seq |-> Len(log) + 1, plan |-> p, expected |-> memory.versions[p],
                  key |-> k, action |-> a]
    BY <2>3 DEF Begin
  <2>5. frame' \in Frame
    BY <2>2, <2>3, <2>4, CountType DEF Frame
  <2>6. RoundTrips(frame')
    BY <2>4 DEF SyncsHold, RoundTrips
  <2>7. \A j \in DOMAIN log : log[j].key # k
    BY <1>1, <2>1, <2>2, ReplayKeys DEF Begin
  <2>8. /\ frame'.seq = Len(log) + 1 /\ frame'.plan = p /\ frame'.key = k
        /\ frame'.expected = Cardinality(FramesOf(log, Len(log), p))
    BY <2>3, <2>4
  <2> QED
    BY <2>5, <2>6, <2>7, <2>8 DEF Fits
<1>2. phase' = "open" /\ step = "idle" /\ step' = "write" /\ UNCHANGED <<log, memory>> /\ phase = "open"
  BY DEF Begin, files
<1> QED
  BY <1>1, <1>2 DEF Legible

LEMMA WriteFrameLegible ==
    ASSUME IInv, Legible, WriteFrame
    PROVE  Legible'
<1>1. /\ log \in Logs /\ frame \in Frame /\ phase = "open" /\ step = "write"
      /\ log' = Append(log, frame) /\ step' = "sync" /\ phase' = "open" /\ memory' = memory
      /\ frame' = frame
  BY TypedLog DEF WriteFrame
<1>2. CASE Whole(log)
  <2>1. log \in Seq(Frame) /\ Fits(log, frame) /\ memory = Replay(log)
    BY <1>1, <1>2, WholeIsFrames DEF Legible
  <2>2. Whole(log')
    BY <1>1, <1>2, <2>1, FitsWhole
  <2> QED
    BY <1>1, <1>2, <2>1, <2>2 DEF Legible
<1>3. CASE Broken(log)
  <2>1. Broken(log')
    BY <1>1, <1>3, BrokenAppend
  <2>2. log' \in Logs
    BY NextInvariant DEF Next, IInv, TypeOK, Logs
  <2>3. ~ Whole(log')
    BY <2>1, <2>2, BrokenIsNotWhole
  <2> QED
    BY <1>1, <2>1, <2>3 DEF Legible
<1> QED
  BY <1>2, <1>3 DEF Legible

LEMMA WriteFailsLegible ==
    ASSUME IInv, Legible, WriteFails
    PROVE  Legible'
<1>1. /\ log \in Logs /\ phase = "open" /\ step = "write" /\ step' = "idle"
      /\ UNCHANGED <<phase, memory>> /\ log' \in {log, Append(log, Torn)}
  BY TypedLog DEF WriteFails, Fail
<1>2. CASE log' = log
  BY <1>1, <1>2 DEF Legible
<1>3. CASE log' = Append(log, Torn)
  <2>1. Broken(log')
    BY <1>1, <1>3, BrokenAppend DEF Legible
  <2>2. log' \in Logs
    BY <1>1, <1>3, AppendParts DEF Logs
  <2>3. ~ Whole(log')
    BY <2>1, <2>2, BrokenIsNotWhole
  <2> QED
    BY <1>1, <2>1, <2>3 DEF Legible
<1> QED
  BY <1>1, <1>2, <1>3

LEMMA SyncLogLegible ==
    ASSUME IInv, Legible, SyncLog
    PROVE  Legible'
<1>1. phase = "open" /\ step = "sync" /\ step' = "snapshot" /\ UNCHANGED <<log, phase>>
      /\ memory' = Applied(memory, frame)
  BY TypedLog DEF SyncLog
<1>2. ASSUME Whole(log) PROVE memory' = Replay(log)
  <2>1. PICK l \in Seq(Frame) :
          Whole(l) /\ memory = Replay(l) /\ Fits(l, frame) /\ log = Append(l, frame)
    BY <1>1, <1>2 DEF Legible
  <2> QED
    BY <1>1, <2>1, ReplayNext
<1> QED
  BY <1>1, <1>2 DEF Legible

LEMMA SnapshotLegible ==
    ASSUME IInv, Legible, RenameSnapshot \/ SyncDirectory \/ SnapshotFails \/ Close
    PROVE  Legible'
<1>1. /\ phase = "open" /\ step \in {"idle", "snapshot", "syncdir"}
      /\ UNCHANGED <<log, memory>> /\ phase' \in {"open", "closed"}
      /\ step' \in {"idle", "snapshot", "syncdir"}
  BY TypedLog DEF RenameSnapshot, SyncDirectory, SnapshotFails, Close, Fail, files
<1> QED
  BY <1>1 DEF Legible

(* A process that ends leaves the log as it is, but for its end. *)
LEMMA StopLegible ==
    ASSUME IInv, Legible, Exit \/ PowerCut
    PROVE  Legible'
<1>1. /\ log \in Logs /\ Len(log) \in Nat /\ synced \in 0..Len(log)
      /\ SubSeq(log, 1, Len(log)) = log
  BY TypedLog DEF IInv, TypeOK, Logs
<1>2. \E n \in 0..Len(log) : log' \in {SubSeq(log, 1, n), Append(SubSeq(log, 1, n), Torn)}
  <2>1. CASE Exit
    <3>1. Len(log) \in 0..Len(log)
      BY <1>1
    <3> QED
      BY <1>1, <2>1, <3>1 DEF Exit
  <2>2. CASE PowerCut
    <3>1. synced..Len(log) \subseteq 0..Len(log)
      BY <1>1
    <3> QED
      BY <2>2, <3>1 DEF PowerCut
  <2> QED
    BY <2>1, <2>2
<1>3. PICK n \in 0..Len(log) : log' \in {SubSeq(log, 1, n), Append(SubSeq(log, 1, n), Torn)}
  BY <1>2
<1> DEFINE s == SubSeq(log, 1, n)
<1>4. Whole(s) \/ Broken(s)
  BY <1>1, LegiblePrefix DEF Legible
<1>5. s \in Logs
  BY <1>1 DEF Logs
<1> HIDE DEF s
<1>6. Whole(log') \/ Broken(log')
  BY <1>3, <1>4, <1>5, BrokenAppend DEF s
<1>7. phase' = "down" /\ step' = "idle"
  BY DEF Exit, PowerCut, Stopped
<1> QED
  BY <1>6, <1>7 DEF Legible

LEMMA LegibleHolds == ASSUME SyncsHold PROVE Spec => [](IInv /\ Legible)
<1>1. Init => IInv /\ Legible
  <2> SUFFICES ASSUME Init PROVE Legible
    BY InitInvariant
  <2>1. Whole(log)
    BY DEF Init, Whole, ValidUpTo
  <2> QED
    BY <2>1 DEF Init, Legible
<1>2. IInv /\ Legible /\ [Next]_vars => (IInv /\ Legible)'
  <2> SUFFICES ASSUME IInv, Legible, [Next]_vars PROVE Legible'
    BY NextInvariant
  <2>1. CASE UNCHANGED vars
    BY <2>1 DEF Legible, vars
  <2>2. ~ SyncFails
    BY DEF SyncsHold, SyncFails
  <2> QED
    BY <2>1, <2>2, OpenLegible, BeginLegible, WriteFrameLegible, WriteFailsLegible,
       SyncLogLegible, SnapshotLegible, StopLegible DEF Next
<1> QED
  BY <1>1, <1>2, PTL DEF Spec

(* Unless an fsync fails, no kill, no power cut and no failing write, at   *)
(* any step of any commit, makes the next start refuse what was written in *)
(* full.                                                                   *)
THEOREM StartsAgain == ASSUME SyncsHold PROVE Spec => []RefusesOnlyDamaged
<1>1. IInv /\ Legible => RefusesOnlyDamaged
  <2> SUFFICES ASSUME IInv, Legible, phase = "refused" PROVE \E i \in DOMAIN log : log[i] = Torn
    BY DEF RefusesOnlyDamaged
  <2>1. PICK n \in 0..(Len(log) - 1) : log[n + 1] = Torn
    BY DEF Legible, Broken
  <2>2. n + 1 \in DOMAIN log
    BY TypedLog
  <2> QED
    BY <2>1, <2>2
<1> QED
  BY <1>1, LegibleHolds, PTL

-----------------------------------------------------------------------------
(* Keys.                                                                   *)

(* A running store knows each key of its log, also behind a torn frame; of *)
(* the frame that is not yet synced it has the key in hand.                *)
KeysKnown ==
    /\ KeyOnce
    /\ phase \in {"open", "closed"} =>
          \A i \in DOMAIN log : log[i] # Torn =>
              \/ memory.commands[log[i].key] # None
              \/ step = "sync" /\ log[i].key = frame.key
    /\ step = "write" => memory.commands[frame.key] = None

LEMMA OpenKeys ==
    ASSUME IInv, KeysKnown, Open
    PROVE  KeysKnown'
<1>1. step = "idle" /\ UNCHANGED <<log, step>>
  BY TypedLog DEF Open, files
<1>2. CASE Whole(log)
  <2>1. memory' = Replay(log) \/ phase' = "refused"
    BY <1>2 DEF Open, Whole
  <2>2. log \in Seq(Frame) /\ \A i \in DOMAIN log : log[i] \in Frame
    BY <1>2, TypedLog, WholeIsFrames
  <2>3. \A i \in DOMAIN log : Replay(log).commands[log[i].key] = log[i].action /\ log[i].action # None
    BY <1>2, <2>2, ReplayKeys, ConstantsAssumption DEF Frame
  <2> QED
    BY <1>1, <2>1, <2>3 DEF KeysKnown, KeyOnce
<1>3. CASE ~ Whole(log)
  BY <1>1, <1>3 DEF Open, Whole, KeysKnown, KeyOnce
<1> QED
  BY <1>2, <1>3

LEMMA BeginKeys ==
    ASSUME IInv, KeysKnown, NEW p \in Plans, NEW k \in Keys, NEW a \in Actions, Begin(p, k, a)
    PROVE  KeysKnown'
<1>1. /\ phase' = phase /\ step = "idle" /\ memory' = memory /\ log' = log /\ step' = "write"
      /\ frame'.key = k /\ memory.commands[k] = None
  BY DEF Begin, files
<1> QED
  BY <1>1 DEF KeysKnown, KeyOnce

LEMMA WriteFrameKeys ==
    ASSUME IInv, KeysKnown, WriteFrame
    PROVE  KeysKnown'
<1> DEFINE n == Len(log)
<1>1. /\ log \in Logs /\ n \in Nat /\ DOMAIN log = 1..n /\ frame \in Frame
      /\ phase = "open" /\ step = "write" /\ step' = "sync"
      /\ UNCHANGED <<phase, memory, frame>> /\ log' = Append(log, frame)
  BY TypedLog DEF WriteFrame
<1>2. /\ DOMAIN log' = 1..(n + 1) /\ log'[n + 1] = frame /\ \A i \in 1..n : log'[i] = log[i]
  BY <1>1, AppendParts DEF Logs
<1>3. \A i \in 1..n : log[i] # Torn =>
         memory.commands[log[i].key] # None /\ log[i].key # frame.key
  BY <1>1 DEF KeysKnown
<1>4. \A i \in 1..(n + 1) : i \in 1..n \/ i = n + 1
  BY <1>1
<1> HIDE DEF n
<1>5. KeyOnce'
  BY <1>1, <1>2, <1>3, <1>4 DEF KeysKnown, KeyOnce
<1>6. \A i \in DOMAIN log' : log'[i] # Torn =>
         memory'.commands[log'[i].key] # None \/ log'[i].key = frame'.key
  BY <1>1, <1>2, <1>3, <1>4
<1> QED
  BY <1>1, <1>5, <1>6 DEF KeysKnown

LEMMA SyncLogKeys ==
    ASSUME IInv, KeysKnown, SyncLog
    PROVE  KeysKnown'
<1>1. /\ frame \in Frame /\ memory \in Memory /\ step = "sync" /\ step' = "snapshot"
      /\ phase = "open" /\ UNCHANGED <<log, phase>> /\ memory' = Applied(memory, frame)
      /\ log \in Logs
  BY TypedLog DEF SyncLog, IInv, TypeOK
<1>2. memory'.commands = [memory.commands EXCEPT ![frame.key] = frame.action]
  BY <1>1, AppliedParts
<1>3. memory.commands \in [Keys -> Actions \cup {None}] /\ frame.key \in Keys /\ frame.action # None
  BY <1>1, ConstantsAssumption DEF Memory, Frame
<1>4. ASSUME NEW i \in DOMAIN log, log[i] # Torn PROVE memory'.commands[log[i].key] # None
  <2>1. log[i] \in Frame
    BY <1>1, <1>4 DEF Logs
  <2>2. log[i].key \in Keys
    BY <2>1 DEF Frame
  <2> QED
    BY <1>1, <1>2, <1>3, <1>4, <2>2 DEF KeysKnown
<1> QED
  BY <1>1, <1>4 DEF KeysKnown, KeyOnce

(* A shorter log, or one with a torn frame more, has no other keys.        *)
LEMMA ShorterKeys ==
    ASSUME IInv, KeysKnown, NEW n \in 0..Len(log),
           log' \in {SubSeq(log, 1, n), Append(SubSeq(log, 1, n), Torn)}
    PROVE  /\ KeyOnce'
           /\ \A i \in DOMAIN log' : log'[i] # Torn => i \in DOMAIN log /\ log[i] = log'[i]
<1> DEFINE s == SubSeq(log, 1, n)
<1>1. /\ Len(log) \in Nat /\ DOMAIN log = 1..Len(log) /\ s \in Logs /\ Len(s) = n /\ n \in Nat
      /\ DOMAIN s = 1..n /\ \A i \in 1..n : s[i] = log[i] /\ i \in 1..Len(log)
  BY TypedLog DEF Logs
<1> HIDE DEF s
<1>2. /\ DOMAIN Append(s, Torn) = 1..(n + 1) /\ Append(s, Torn)[n + 1] = Torn
      /\ \A i \in 1..n : Append(s, Torn)[i] = s[i]
  BY <1>1, AppendParts DEF Logs
<1>3. \A i \in 1..(n + 1) : i \in 1..n \/ i = n + 1
  BY <1>1
<1>4. \A i \in DOMAIN log' : log'[i] # Torn => i \in DOMAIN log /\ log[i] = log'[i]
  BY <1>1, <1>2, <1>3 DEF s
<1> QED
  BY <1>4 DEF KeysKnown, KeyOnce

LEMMA StopKeys ==
    ASSUME IInv, KeysKnown, Exit \/ PowerCut
    PROVE  KeysKnown'
<1>1. Len(log) \in Nat /\ synced \in 0..Len(log) /\ SubSeq(log, 1, Len(log)) = log
  BY TypedLog DEF IInv, TypeOK, Logs
<1>2. Len(log) \in 0..Len(log) /\ synced..Len(log) \subseteq 0..Len(log)
  BY <1>1
<1>3. \E n \in 0..Len(log) : log' \in {SubSeq(log, 1, n), Append(SubSeq(log, 1, n), Torn)}
  BY <1>1, <1>2 DEF Exit, PowerCut
<1>4. KeyOnce'
  BY <1>3, ShorterKeys
<1> QED
  BY <1>4 DEF Exit, PowerCut, Stopped, KeysKnown

LEMMA WriteFailsKeys ==
    ASSUME IInv, KeysKnown, WriteFails
    PROVE  KeysKnown'
<1>1. /\ Len(log) \in Nat /\ SubSeq(log, 1, Len(log)) = log
      /\ step = "write" /\ step' = "idle" /\ UNCHANGED <<phase, memory>>
      /\ log' \in {log, Append(log, Torn)}
  BY TypedLog DEF WriteFails, Fail, Logs
<1>2. Len(log) \in 0..Len(log)
  BY <1>1
<1>3. KeyOnce' /\ \A i \in DOMAIN log' : log'[i] # Torn => i \in DOMAIN log /\ log[i] = log'[i]
  BY <1>1, <1>2, ShorterKeys
<1> QED
  BY <1>1, <1>3 DEF KeysKnown

(* Unless an fsync fails, no key is written twice, whatever else fails and *)
(* whatever the frames behind a torn one are.                              *)
THEOREM KeysAreFresh == ASSUME "sync" \notin Faults PROVE Spec => []KeyOnce
<1>1. Init => IInv /\ KeysKnown
  <2> SUFFICES ASSUME Init PROVE KeysKnown
    BY InitInvariant
  <2> QED
    BY DEF Init, KeysKnown, KeyOnce
<1>2. IInv /\ KeysKnown /\ [Next]_vars => (IInv /\ KeysKnown)'
  <2> SUFFICES ASSUME IInv, KeysKnown, [Next]_vars PROVE KeysKnown'
    BY NextInvariant
  <2>1. CASE UNCHANGED vars
    BY <2>1 DEF KeysKnown, KeyOnce, vars
  <2>2. CASE RenameSnapshot \/ SyncDirectory \/ SnapshotFails \/ Close
    <3>1. /\ phase = "open" /\ step \in {"idle", "snapshot", "syncdir"}
          /\ UNCHANGED <<log, memory>> /\ phase' \in {"open", "closed"}
          /\ step' \in {"idle", "snapshot", "syncdir"}
      BY <2>2, TypedLog DEF RenameSnapshot, SyncDirectory, SnapshotFails, Close, Fail, files
    <3> QED
      BY <3>1 DEF KeysKnown, KeyOnce
  <2>3. ~ SyncFails
    BY DEF SyncFails
  <2> QED
    BY <2>1, <2>2, <2>3, OpenKeys, BeginKeys, WriteFrameKeys, WriteFailsKeys, SyncLogKeys,
       StopKeys DEF Next
<1>3. KeysKnown => KeyOnce
  BY DEF KeysKnown
<1> QED
  BY <1>1, <1>2, <1>3, PTL DEF Spec

-----------------------------------------------------------------------------
(* What holds while writes and fsyncs succeed.                             *)

(* The memory is the log's, but for the frame that is written and not yet  *)
(* synced; a process that is not running has left a log that is whole, or  *)
(* cut off in its last frame.                                              *)
Recoverable ==
    /\ phase \in {"open", "closed"} /\ step # "sync" => Whole(log) /\ memory = Replay(log)
    /\ step = "write" => Fits(log, frame)
    /\ step = "sync" => \E l \in Seq(Frame) :
          Whole(l) /\ memory = Replay(l) /\ Fits(l, frame) /\ log = Append(l, frame)
    /\ phase = "down" => Whole(log) \/ Cut(log)
    /\ phase = "refused" => Cut(log)

RInv == IInv /\ Recoverable

LEMMA RunningOnWhole ==
    ASSUME RInv, phase \in {"open", "closed"}
    PROVE  Whole(log)
BY FitsWhole DEF RInv, Recoverable

LEMMA WholeOrCut ==
    ASSUME RInv
    PROVE  Whole(log) \/ Cut(log)
BY RunningOnWhole, TypedLog DEF RInv, Recoverable

LEMMA CutIsNotWhole ==
    ASSUME NEW l, Len(l) \in Nat, Cut(l)
    PROVE  ~ Whole(l)
<1>1. Len(l) \in 1..Len(l) /\ l[Len(l)] = Torn
  BY DEF Cut
<1> QED
  BY <1>1 DEF Whole, ValidUpTo, ValidFrame

LEMMA InitRecoverable == Init => Recoverable
<1> SUFFICES ASSUME Init PROVE Recoverable
  OBVIOUS
<1>1. Whole(log)
  BY DEF Init, Whole, ValidUpTo
<1> QED
  BY <1>1 DEF Init, Recoverable

LEMMA OpenRecoverable ==
    ASSUME RInv, Open
    PROVE  Recoverable'
<1>1. step = "idle" /\ snap <= Len(log)
  <2>1. step = "idle"
    BY TypedLog DEF RInv, Open
  <2>2. snap \in snaps /\ synced \in Nat /\ snap \in Nat /\ synced <= Len(log) /\ Len(log) \in Nat
    BY DEF RInv, IInv, TypeOK
  <2>3. snap <= synced
    BY <2>2 DEF RInv, IInv, SnapshotNotAhead
  <2> QED
    BY <2>1, <2>2, <2>3
<1>2. CASE Whole(log)
  BY <1>1, <1>2 DEF Open, Whole, Recoverable, files
<1>3. CASE ~ Whole(log)
  BY <1>1, <1>3, WholeOrCut DEF Open, Whole, Cut, Recoverable, files
<1> QED
  BY <1>2, <1>3

LEMMA BeginRecoverable ==
    ASSUME Reliable, RInv, NEW p \in Plans, NEW k \in Keys, NEW a \in Actions, Begin(p, k, a)
    PROVE  Recoverable'
<1>1. Whole(log) /\ memory = Replay(log) /\ phase = "open" /\ step = "idle"
  BY DEF RInv, Recoverable, Begin
<1>2. log \in Seq(Frame) /\ Len(log) \in Nat
  BY <1>1, TypedLog, WholeIsFrames DEF RInv
<1>3. memory.sequence = Len(log) /\ memory.versions[p] = Cardinality(FramesOf(log, Len(log), p))
  BY <1>1 DEF Replay
<1>4. frame' = [seq |-> Len(log) + 1, plan |-> p, expected |-> memory.versions[p],
                key |-> k, action |-> a]
  BY <1>3 DEF Begin
<1>5. frame' \in Frame
  BY <1>2, <1>3, <1>4, CountType DEF Frame
<1>6. RoundTrips(frame')
  BY <1>4 DEF Reliable, RoundTrips
<1>7. \A j \in DOMAIN log : log[j].key # k
  BY <1>1, <1>2, ReplayKeys DEF Begin
<1>8. Fits(log, frame')
  <2>1. /\ frame'.seq = Len(log) + 1 /\ frame'.plan = p /\ frame'.key = k
        /\ frame'.expected = Cardinality(FramesOf(log, Len(log), p))
    BY <1>3, <1>4
  <2> QED
    BY <1>5, <1>6, <1>7, <2>1 DEF Fits
<1> QED
  BY <1>1, <1>8 DEF Begin, Recoverable, files

LEMMA WriteFrameRecoverable ==
    ASSUME RInv, WriteFrame
    PROVE  Recoverable'
<1>1. /\ phase = "open" /\ step = "write" /\ Whole(log) /\ memory = Replay(log)
      /\ Fits(log, frame)
  BY TypedLog DEF RInv, Recoverable, WriteFrame
<1>2. log \in Seq(Frame)
  BY <1>1, TypedLog, WholeIsFrames DEF RInv
<1> QED
  BY <1>1, <1>2 DEF WriteFrame, Recoverable

LEMMA SyncLogRecoverable ==
    ASSUME RInv, SyncLog
    PROVE  Recoverable'
<1>1. PICK l \in Seq(Frame) :
        Whole(l) /\ memory = Replay(l) /\ Fits(l, frame) /\ log = Append(l, frame)
  BY DEF RInv, Recoverable, SyncLog
<1>2. phase = "open" /\ Whole(log) /\ Replay(log) = Applied(memory, frame)
  BY <1>1, FitsWhole, ReplayNext, TypedLog DEF RInv, SyncLog
<1> QED
  BY <1>2 DEF SyncLog, Recoverable

(* From the fsync on, log and memory stay as they are. *)
LEMMA SnapshotRecoverable ==
    ASSUME RInv, RenameSnapshot \/ SyncDirectory \/ SnapshotFails \/ Close
    PROVE  Recoverable'
<1>1. /\ phase = "open" /\ Whole(log) /\ memory = Replay(log)
      /\ step \in {"idle", "snapshot", "syncdir"}
  BY TypedLog DEF RInv, Recoverable, RenameSnapshot, SyncDirectory, SnapshotFails, Close
<1>2. /\ UNCHANGED <<log, memory>> /\ phase' \in {"open", "closed"}
      /\ step' \in {"idle", "snapshot", "syncdir"}
  BY <1>1 DEF RenameSnapshot, SyncDirectory, SnapshotFails, Close, Fail, files
<1> QED
  BY <1>1, <1>2 DEF Recoverable

(* What is left of a log that is cut at n, perhaps within the next frame.  *)
LEMMA Remains ==
    ASSUME NEW l \in Logs, Whole(l) \/ Cut(l), NEW n \in 0..Len(l)
    PROVE  /\ Whole(SubSeq(l, 1, n)) \/ Cut(SubSeq(l, 1, n))
           /\ n < Len(l) \/ Whole(l) => Cut(Append(SubSeq(l, 1, n), Torn))
<1>1. Len(l) \in Nat /\ SubSeq(l, 1, Len(l)) = l
  BY DEF Logs
<1>2. CASE n < Len(l) \/ Whole(l)
  <2>1. ValidUpTo(l, n)
    BY <1>1, <1>2 DEF Whole, Cut, ValidUpTo
  <2>2. Whole(SubSeq(l, 1, n)) /\ SubSeq(l, 1, n) \in Logs
    BY <2>1, Shorter, FramesAreLogs
  <2> QED
    BY <2>2, TornCuts
<1>3. CASE n = Len(l) /\ ~ Whole(l)
  <2>1. SubSeq(l, 1, n) = l /\ ~ (n < Len(l)) /\ Cut(l)
    BY <1>1, <1>3
  <2> QED
    BY <1>3, <2>1
<1>4. n < Len(l) \/ n = Len(l)
  <2>1. \A x \in Nat : \A y \in 0..x : y < x \/ y = x
    OBVIOUS
  <2> QED
    BY <1>1, <2>1
<1> QED
  BY <1>2, <1>3, <1>4

LEMMA ExitRecoverable ==
    ASSUME RInv, Exit
    PROVE  Recoverable'
<1>1. Whole(log) /\ log \in Logs
  BY RunningOnWhole, TypedLog DEF Exit, RInv
<1>2. Whole(log') \/ Cut(log')
  BY <1>1, TornCuts DEF Exit
<1> QED
  BY <1>2 DEF Exit, Stopped, Recoverable

LEMMA PowerCutRecoverable ==
    ASSUME RInv, PowerCut
    PROVE  Recoverable'
<1>1. log \in Logs /\ Len(log) \in Nat /\ synced \in 0..Len(log)
  BY TypedLog DEF RInv, IInv, TypeOK
<1>2. PICK n \in synced..Len(log) :
        log' \in {SubSeq(log, 1, n)}
                   \cup (IF n < Len(log) \/ step = "write"
                            THEN {Append(SubSeq(log, 1, n), Torn)} ELSE {})
  BY DEF PowerCut
<1>3. n \in 0..Len(log)
  BY <1>1
<1>4. step = "write" => Whole(log)
  BY RunningOnWhole, TypedLog DEF RInv
<1>5. Whole(log') \/ Cut(log')
  BY <1>1, <1>2, <1>3, <1>4, WholeOrCut, Remains
<1> QED
  BY <1>5 DEF PowerCut, Stopped, Recoverable

LEMMA NextRecoverable ==
    ASSUME Reliable, RInv, [Next]_vars
    PROVE  RInv'
<1>1. IInv'
  BY NextInvariant DEF RInv
<1>2. CASE UNCHANGED vars
  BY <1>1, <1>2 DEF RInv, Recoverable, vars
<1>3. ASSUME Next PROVE Recoverable'
  <2>1. ~ WriteFails /\ ~ SyncFails
    BY DEF Reliable, WriteFails, SyncFails
  <2> QED
    BY <1>3, <2>1, OpenRecoverable, BeginRecoverable, WriteFrameRecoverable, SyncLogRecoverable,
       SnapshotRecoverable, ExitRecoverable, PowerCutRecoverable
       DEF Next
<1> QED
  BY <1>1, <1>2, <1>3 DEF RInv

LEMMA RecoverableHolds == ASSUME Reliable PROVE Spec => []RInv
<1>1. Init => RInv
  BY InitInvariant, InitRecoverable DEF RInv
<1>2. RInv /\ [Next]_vars => RInv'
  BY NextRecoverable
<1> QED
  BY <1>1, <1>2, PTL DEF Spec

(* Commit and recover build the same memory. *)
THEOREM RestartReadsSame == ASSUME Reliable PROVE Spec => []MemoryIsReplay
<1>1. RInv => MemoryIsReplay
  BY DEF RInv, Recoverable, MemoryIsReplay
<1> QED
  BY <1>1, RecoverableHolds, PTL

-----------------------------------------------------------------------------
(* The store is a Journal.                                                 *)

(* The log l reads as the frames s. *)
Reads(l, s) == s \in Seq(Frame) /\ Whole(s) /\ l \in {s, Append(s, Torn)}

EntryOf(f) == [plan |-> f.plan, version |-> f.expected + 1, key |-> f.key, action |-> f.action]

EntriesOf(s) == [i \in DOMAIN s |-> EntryOf(s[i])]

LEMMA EntriesAreFrames ==
    ASSUME NEW l, NEW s, Reads(l, s)
    PROVE  Entries(l) = EntriesOf(s)
<1> DEFINE n == Len(s)
           V == {m \in 0..Len(l) : ValidUpTo(l, m)}
<1>1. s \in Seq(Frame) /\ n \in Nat /\ Whole(s) /\ s \in Logs /\ Torn \in Frame \cup {Torn}
  BY FramesAreLogs DEF Reads
<1>2. /\ l \in Logs /\ Len(l) \in Nat /\ n <= Len(l) /\ Len(l) <= n + 1
      /\ \A i \in 1..n : l[i] = s[i]
      /\ Len(l) = n + 1 => l[n + 1] = Torn
  <2>1. CASE l = s
    BY <1>1, <2>1
  <2>2. CASE l = Append(s, Torn)
    <3>1. /\ l \in Logs /\ Len(l) = n + 1 /\ l[n + 1] = Torn /\ \A i \in 1..n : l[i] = s[i]
      BY <1>1, <2>2, AppendParts DEF Logs
    <3> QED
      BY <1>1, <3>1
  <2> QED
    BY <2>1, <2>2 DEF Reads
<1> HIDE DEF n
<1>3. ValidUpTo(l, n)
  BY <1>1, <1>2, SamePrefix DEF Whole, n
<1>4. n \in V /\ \A m \in V : m \in Nat /\ n >= m
  <2>1. n \in V
    BY <1>1, <1>2, <1>3
  <2>2. ASSUME NEW m \in V, ~ (n >= m) PROVE FALSE
    <3>1. m = n + 1 /\ Len(l) = n + 1 /\ n + 1 \in 1..m
      BY <1>1, <1>2, <2>2
    <3> QED
      BY <1>2, <3>1 DEF ValidUpTo, ValidFrame
  <2> QED
    BY <1>2, <2>1, <2>2
<1>5. Max(V) = n
  <2> HIDE DEF V
  <2>1. \A x \in V : (\A y \in V : x >= y) => x = n
    BY <1>1, <1>4
  <2> QED
    BY <1>4, <2>1 DEF Max
<1>6. SubSeq(l, 1, n) = s
  <2>1. SubSeq(l, 1, n) \in Logs /\ Len(SubSeq(l, 1, n)) = n
        /\ \A i \in 1..n : SubSeq(l, 1, n)[i] = s[i]
    BY <1>1, <1>2 DEF Logs
  <2> QED
    BY <1>1, <2>1 DEF Logs, n
<1>7. Readable(l) = s
  BY <1>5, <1>6 DEF Readable
<1> QED
  BY <1>7 DEF Entries, EntriesOf, EntryOf

LEMMA LogReads ==
    ASSUME RInv
    PROVE  \E s : Reads(log, s)
<1>1. log \in Logs /\ Len(log) \in Nat
  BY TypedLog DEF RInv
<1>2. CASE Whole(log)
  BY <1>1, <1>2, WholeIsFrames DEF Reads
<1>3. CASE Cut(log)
  <2> DEFINE n == Len(log) - 1
             s == SubSeq(log, 1, n)
  <2>1. n \in 0..Len(log) /\ n \in Nat /\ ValidUpTo(log, n) /\ log[n + 1] = Torn /\ Len(log) = n + 1
    BY <1>1, <1>3 DEF Cut
  <2>2. Whole(s) /\ s \in Seq(Frame) /\ Len(s) = n
    BY <1>1, <2>1, Shorter
  <2>3. \A i \in 1..n : s[i] = log[i]
    BY <1>1, <2>1 DEF Logs
  <2> HIDE DEF n, s
  <2>4. log = Append(s, Torn)
    <3>1. s \in Logs
      BY <2>2, FramesAreLogs
    <3>2. /\ Append(s, Torn) \in Logs /\ Len(Append(s, Torn)) = n + 1
          /\ Append(s, Torn)[n + 1] = Torn /\ \A i \in 1..n : Append(s, Torn)[i] = s[i]
      BY <2>2, <3>1, AppendParts DEF Logs
    <3>3. \A i \in 1..(n + 1) : Append(s, Torn)[i] = log[i]
      <4>1. \A i \in 1..(n + 1) : i \in 1..n \/ i = n + 1
        BY <2>1
      <4> QED
        BY <2>1, <2>3, <3>2, <4>1
    <3> QED
      BY <1>1, <2>1, <3>2, <3>3 DEF Logs
  <2> QED
    BY <2>2, <2>4 DEF Reads
<1> QED
  BY <1>2, <1>3, WholeOrCut

LEMMA WholeReads ==
    ASSUME NEW l \in Logs, Whole(l)
    PROVE  Reads(l, l) /\ Reads(Append(l, Torn), l) /\ \A s : Reads(l, s) => s = l
<1>1. l \in Seq(Frame)
  BY WholeIsFrames
<1>2. ASSUME NEW s, Reads(l, s), l = Append(s, Torn) PROVE FALSE
  <2>1. s \in Logs /\ Len(l) \in Nat
    BY <1>2, FramesAreLogs DEF Reads, Logs
  <2> QED
    BY <1>2, <2>1, TornCuts, CutIsNotWhole DEF Reads
<1> QED
  BY <1>1, <1>2 DEF Reads

LEMMA EntryParts ==
    ASSUME NEW s \in Seq(Frame)
    PROVE  /\ EntriesOf(s) \in Seq({EntryOf(f) : f \in Frame}) /\ Len(EntriesOf(s)) = Len(s)
           /\ DOMAIN EntriesOf(s) = DOMAIN s
           /\ \A i \in DOMAIN s : /\ EntriesOf(s)[i] = EntryOf(s[i])
                                  /\ EntriesOf(s)[i].plan = s[i].plan
                                  /\ EntriesOf(s)[i].key = s[i].key
<1>1. Len(s) \in Nat /\ DOMAIN s = 1..Len(s) /\ \A i \in DOMAIN s : s[i] \in Frame
  OBVIOUS
<1>2. EntriesOf(s) = [i \in 1..Len(s) |-> EntryOf(s[i])]
  BY <1>1 DEF EntriesOf
<1>3. EntriesOf(s) \in [1..Len(s) -> {EntryOf(f) : f \in Frame}]
  BY <1>1, <1>2
<1>4. EntriesOf(s) \in Seq({EntryOf(f) : f \in Frame}) /\ Len(EntriesOf(s)) = Len(s)
  BY <1>1, <1>3
<1> QED
  BY <1>1, <1>2, <1>4 DEF EntryOf

(* Writing a frame records its command. *)
LEMMA WriteRecords ==
    ASSUME RInv, WriteFrame
    PROVE  Promise!Record(frame.plan, frame.key, frame.action)
<1> DEFINE e == EntriesOf(log)
           p == frame.plan
<1>1. log \in Seq(Frame) /\ log \in Logs /\ Whole(log) /\ Fits(log, frame) /\ frame \in Frame
  BY TypedLog, WholeIsFrames DEF RInv, Recoverable, WriteFrame, Fits
<1>2. log' = Append(log, frame) /\ Whole(log')
  BY <1>1, FitsWhole DEF WriteFrame
<1>3. log' \in Seq(Frame) /\ log' \in Logs
  <2>1. Append(log, frame) \in Seq(Frame)
    BY <1>1, AppendParts
  <2>2. Append(log, frame) \in Logs
    BY <2>1, FramesAreLogs
  <2> QED
    BY <1>2, <2>1, <2>2
<1>4. Entries(log) = e /\ Entries(log') = EntriesOf(log')
  BY <1>1, <1>2, <1>3, WholeReads, EntriesAreFrames
<1>5. /\ DOMAIN e = DOMAIN log /\ DOMAIN log = 1..Len(log) /\ Len(log) \in Nat
      /\ \A i \in DOMAIN log : e[i].plan = log[i].plan /\ e[i].key = log[i].key
  <2>1. DOMAIN log = 1..Len(log) /\ Len(log) \in Nat
    BY <1>1, SeqParts
  <2>2. /\ DOMAIN e = DOMAIN log
        /\ \A i \in DOMAIN log : e[i].plan = log[i].plan /\ e[i].key = log[i].key
    BY <1>1, EntryParts
  <2> QED
    BY <2>1, <2>2
<1>6. frame.key \notin Promise!KeysOf(e)
  <2> HIDE DEF e
  <2> QED
    BY <1>1, <1>5 DEF Promise!KeysOf, Fits
<1>7. Promise!VersionOf(e, p) = frame.expected
  <2> HIDE DEF e
  <2>1. {i \in DOMAIN e : e[i].plan = p} = FramesOf(log, Len(log), p)
    BY <1>5 DEF FramesOf
  <2>2. frame.expected = Cardinality(FramesOf(log, Len(log), p))
    BY <1>1 DEF Fits
  <2> HIDE DEF p
  <2>3. Promise!VersionOf(e, p) = Cardinality({i \in DOMAIN e : e[i].plan = p})
    BY DEF Promise!VersionOf, Promise!Cardinality, Cardinality
  <2> QED
    BY <2>1, <2>2, <2>3
<1>8. EntriesOf(log') = Append(e, EntryOf(frame))
  <2>1. /\ EntriesOf(log') \in Seq({EntryOf(f) : f \in Frame}) /\ Len(EntriesOf(log')) = Len(log')
        /\ \A i \in DOMAIN log' : EntriesOf(log')[i] = EntryOf(log'[i])
    BY <1>3, EntryParts
  <2>2. /\ e \in Seq({EntryOf(f) : f \in Frame}) /\ Len(e) = Len(log)
        /\ \A i \in DOMAIN log : e[i] = EntryOf(log[i])
    BY <1>1, EntryParts
  <2>3. /\ Len(log') = Len(log) + 1 /\ log'[Len(log) + 1] = frame /\ DOMAIN log' = 1..(Len(log) + 1)
        /\ \A i \in 1..Len(log) : log'[i] = log[i]
    BY <1>1, <1>2, AppendParts
  <2> DEFINE S == {EntryOf(f) : f \in Frame}
             a == Append(e, EntryOf(frame))
             b == EntriesOf(log')
  <2>4. EntryOf(frame) \in S
    BY <1>1
  <2> HIDE DEF S, e
  <2>5. /\ a \in Seq(S) /\ Len(a) = Len(log) + 1 /\ a[Len(log) + 1] = EntryOf(frame)
        /\ \A i \in 1..Len(log) : a[i] = e[i]
    BY <2>2, <2>4, AppendParts DEF S
  <2>6. b \in Seq(S) /\ Len(b) = Len(log) + 1
    BY <2>1, <2>3 DEF S
  <2>7. \A i \in 1..(Len(log) + 1) : b[i] = a[i]
    <3>1. \A i \in 1..(Len(log) + 1) : i \in 1..Len(log) \/ i = Len(log) + 1
      BY <1>5
    <3>2. \A i \in 1..Len(log) : i \in DOMAIN log' /\ i \in DOMAIN log
      BY <1>5, <2>3
    <3>3. Len(log) + 1 \in DOMAIN log'
      BY <1>5, <2>3
    <3> HIDE DEF a, b
    <3> QED
      BY <2>1, <2>2, <2>3, <2>5, <3>1, <3>2, <3>3 DEF b
  <2> HIDE DEF a, b
  <2>8. a = b
    BY <1>5, <2>5, <2>6, <2>7
  <2> QED
    BY <2>8 DEF a, b
<1> HIDE DEF e
<1> QED
  BY <1>4, <1>6, <1>7, <1>8 DEF Promise!Record, EntryOf, WriteFrame

(* What a start would find stays what it was. *)
LEMMA SameEntries ==
    ASSUME RInv, log' = log \/ (Whole(log) /\ log' = Append(log, Torn))
    PROVE  Entries(log') = Entries(log)
BY TypedLog, WholeReads, EntriesAreFrames DEF RInv

LEMMA SyncDirectoryConfirms ==
    ASSUME RInv, SyncDirectory
    PROVE  \E k \in Keys : Promise!Confirm(k)
<1>1. /\ log \in Logs /\ Whole(log) /\ log \in Seq(Frame) /\ frame \in Frame
      /\ Len(log) \in Nat /\ synced \in 0..Len(log) /\ DOMAIN log = 1..Len(log)
  BY TypedLog, WholeIsFrames DEF RInv, IInv, TypeOK, Recoverable, SyncDirectory
<1>2. PICK i \in 1..synced : log[i] = frame
  BY DEF RInv, IInv, StepInOrder, SyncDirectory
<1>3. i \in DOMAIN log /\ Entries(log) = EntriesOf(log)
  BY <1>1, WholeReads, EntriesAreFrames
<1>4. DOMAIN Entries(log) = DOMAIN log /\ Entries(log)[i].key = frame.key
  BY <1>1, <1>2, <1>3, EntryParts
<1>5. frame.key \in Promise!KeysOf(Entries(log)) /\ frame.key \in Keys
  BY <1>1, <1>3, <1>4 DEF Promise!KeysOf, Frame
<1>6. Entries(log') = Entries(log) /\ acked' = acked \cup {frame.key}
  BY DEF SyncDirectory
<1> QED
  BY <1>5, <1>6 DEF Promise!Confirm

(* A power cut takes the end of the journal. *)
LEMMA PowerCutReads ==
    ASSUME RInv, PowerCut, NEW s, Reads(log, s)
    PROVE  \E m \in 0..Len(s) : Reads(log', SubSeq(s, 1, m))
<1>1. /\ log \in Logs /\ Len(log) \in Nat /\ synced \in 0..Len(log)
      /\ s \in Seq(Frame) /\ s \in Logs /\ Whole(s) /\ Len(s) \in Nat
  BY TypedLog, FramesAreLogs DEF RInv, IInv, TypeOK, Reads
<1>2. PICK n \in synced..Len(log) :
        log' \in {SubSeq(log, 1, n)}
                   \cup (IF n < Len(log) \/ step = "write"
                            THEN {Append(SubSeq(log, 1, n), Torn)} ELSE {})
  BY DEF PowerCut
<1>3. n \in 0..Len(log) /\ (n < Len(log) \/ n = Len(log))
  <2>1. \A x \in Nat : \A z \in 0..x : \A y \in z..x : y \in 0..x /\ (y < x \/ y = x)
    OBVIOUS
  <2> QED
    BY <1>1, <2>1
<1>4. CASE n = Len(log)
  <2>1. SubSeq(log, 1, n) = log /\ ~ (n < Len(log)) /\ SubSeq(s, 1, Len(s)) = s
    BY <1>1, <1>4 DEF Logs
  <2>2. step = "write" => Whole(log) /\ log = s
    BY <1>1, WholeReads, RunningOnWhole, TypedLog DEF RInv
  <2>3. Reads(log', s)
    BY <1>1, <1>2, <2>1, <2>2, WholeReads
  <2>4. Len(s) \in 0..Len(s)
    BY <1>1
  <2> QED
    BY <2>1, <2>3, <2>4
<1>5. CASE n < Len(log)
  <2>1. n \in 0..Len(s) /\ SubSeq(log, 1, n) = SubSeq(s, 1, n)
    <3>1. CASE log = s
      BY <1>1, <1>3, <3>1
    <3>2. CASE log = Append(s, Torn)
      <4>1. Len(log) = Len(s) + 1 /\ \A i \in 1..Len(s) : log[i] = s[i]
        BY <1>1, <3>2, AppendParts DEF Logs
      <4>2. n \in 0..Len(s)
        BY <1>1, <1>3, <1>5, <4>1
      <4>3. SubSeq(log, 1, n) = [i \in 1..n |-> log[i]] /\ SubSeq(s, 1, n) = [i \in 1..n |-> s[i]]
        BY <1>1, <1>3, <4>2 DEF Logs
      <4>4. \A i \in 1..n : log[i] = s[i]
        BY <1>1, <4>1, <4>2
      <4> QED
        BY <4>2, <4>3, <4>4
    <3> QED
      BY <3>1, <3>2 DEF Reads
  <2>2. ValidUpTo(s, n)
    BY <1>1, <2>1 DEF Whole, ValidUpTo
  <2>3. Whole(SubSeq(s, 1, n)) /\ SubSeq(s, 1, n) \in Seq(Frame)
    BY <1>1, <2>1, <2>2, Shorter
  <2> QED
    BY <1>2, <2>1, <2>3 DEF Reads
<1> QED
  BY <1>3, <1>4, <1>5

LEMMA PowerCutLoses ==
    ASSUME RInv, RInv', PowerCut
    PROVE  \E n \in 0..Len(Entries(log)) : Promise!LoseTail(n)
<1>1. PICK s : Reads(log, s)
  BY LogReads
<1>2. s \in Seq(Frame) /\ s \in Logs /\ Len(s) \in Nat
  BY <1>1, FramesAreLogs DEF Reads
<1>3. PICK m \in 0..Len(s) : Reads(log', SubSeq(s, 1, m))
  BY <1>1, PowerCutReads
<1> DEFINE r == SubSeq(s, 1, m)
<1>4. /\ Entries(log) = EntriesOf(s) /\ Entries(log') = EntriesOf(r)
      /\ Len(Entries(log)) = Len(s)
  BY <1>1, <1>2, <1>3, EntriesAreFrames, EntryParts
<1>5. r \in Seq(Frame) /\ Len(r) = m /\ DOMAIN r = 1..m /\ \A i \in 1..m : r[i] = s[i]
  BY <1>2
<1>6. EntriesOf(r) = SubSeq(EntriesOf(s), 1, m)
  <2> DEFINE e == EntriesOf(s)
             S == {EntryOf(f) : f \in Frame}
  <2>1. /\ e \in Seq(S) /\ Len(e) = Len(s) /\ \A i \in 1..Len(s) : e[i] = EntryOf(s[i])
    <3>1. DOMAIN s = 1..Len(s)
      BY <1>2, SeqParts
    <3>2. /\ EntriesOf(s) \in Seq({EntryOf(f) : f \in Frame}) /\ Len(EntriesOf(s)) = Len(s)
      BY <1>2, EntryParts
    <3>3. \A i \in DOMAIN s : EntriesOf(s)[i] = EntryOf(s[i])
      BY <1>2, EntryParts
    <3> QED
      BY <3>1, <3>2, <3>3
  <2> HIDE DEF e, S
  <2>2. SubSeq(e, 1, m) = [i \in 1..m |-> e[i]]
    BY <1>2, <2>1
  <2>3. EntriesOf(r) = [i \in 1..m |-> EntryOf(r[i])]
    BY <1>5 DEF EntriesOf
  <2>4. \A i \in 1..m : e[i] = EntryOf(r[i])
    <3>1. 1..m \subseteq 1..Len(s)
      BY <1>2
    <3> QED
      BY <1>5, <2>1, <3>1
  <2> HIDE DEF r
  <2> QED
    BY <2>2, <2>3, <2>4 DEF e
<1> HIDE DEF r
<1>7. acked' = acked /\ acked \subseteq Promise!KeysOf(EntriesOf(r))
  <2> SUFFICES ASSUME NEW k \in acked PROVE k \in Promise!KeysOf(EntriesOf(r))
    BY DEF PowerCut
  <2>1. k \in acked' /\ synced' \in 0..Len(log') /\ log' \in Logs
    BY DEF PowerCut, RInv, IInv, TypeOK, Logs
  <2>2. PICK i \in 1..synced' : log'[i] # Torn /\ log'[i].key = k
    BY <2>1 DEF RInv, IInv, AckedOnDisk
  <2>3. i \in 1..m /\ log'[i] = r[i]
    <3>1. CASE log' = r
      BY <1>5, <2>1, <3>1
    <3>2. CASE log' = Append(r, Torn)
      <4>1. r \in Logs
        BY <1>5, FramesAreLogs
      <4>2. /\ Len(log') = m + 1 /\ log'[m + 1] = Torn /\ \A j \in 1..m : log'[j] = r[j]
        BY <1>5, <3>2, <4>1, AppendParts DEF Logs
      <4>3. i \in 1..(m + 1) /\ i # m + 1
        BY <1>2, <2>1, <2>2, <4>2
      <4>4. i \in 1..m
        BY <1>2, <4>3
      <4> QED
        BY <4>2, <4>4
    <3> QED
      BY <1>3, <3>1, <3>2 DEF Reads, r
  <2>4. i \in DOMAIN EntriesOf(r) /\ EntriesOf(r)[i].key = k
    BY <1>5, <2>2, <2>3, EntryParts
  <2> QED
    BY <2>4 DEF Promise!KeysOf
<1>8. m \in 0..Len(Entries(log))
  BY <1>4
<1>9. /\ Entries(log') = SubSeq(Entries(log), 1, m)
      /\ acked \subseteq Promise!KeysOf(Entries(log')) /\ acked' = acked
  BY <1>4, <1>6, <1>7 DEF r
<1> QED
  BY <1>8, <1>9 DEF Promise!LoseTail

LEMMA StepIsPromised ==
    ASSUME RInv, RInv', Reliable, [Next]_vars
    PROVE  [Promise!Next]_(Promise!vars)
<1>1. CASE WriteFrame
  <2>1. frame.plan \in Plans /\ frame.key \in Keys /\ frame.action \in Actions
    BY <1>1, TypedLog DEF WriteFrame, RInv, Frame
  <2> QED
    BY <1>1, <2>1, WriteRecords DEF Promise!Next
<1>2. CASE SyncDirectory
  BY <1>2, SyncDirectoryConfirms DEF Promise!Next
<1>3. CASE PowerCut
  BY <1>3, PowerCutLoses DEF Promise!Next
<1>4. CASE Exit
  <2>1. Whole(log) /\ (log' = log \/ log' = Append(log, Torn)) /\ acked' = acked
    BY <1>4, RunningOnWhole DEF Exit
  <2> QED
    BY <2>1, SameEntries DEF Promise!vars
<1>5. CASE /\ ~ (WriteFrame \/ SyncDirectory \/ PowerCut \/ Exit)
  <2>1. log' = log /\ acked' = acked
    BY <1>5 DEF Next, Open, Begin, WriteFails, SyncLog, SyncFails, RenameSnapshot, SnapshotFails,
       Close, Fail, files, vars, Reliable
  <2> QED
    BY <2>1 DEF Promise!vars
<1> QED
  BY <1>1, <1>2, <1>3, <1>4, <1>5

(* Where writes and fsyncs succeed, the store is an append-only journal    *)
(* that loses nothing it confirmed.                                        *)
THEOREM StoreKeepsJournal == ASSUME Reliable PROVE Spec => KeepsJournal
<1>1. Init => Promise!Init
  <2> SUFFICES ASSUME Init PROVE Promise!Init
    OBVIOUS
  <2>1. log = << >> /\ Whole(log) /\ log \in Logs
    BY DEF Init, Whole, ValidUpTo, Logs
  <2>2. Entries(log) = EntriesOf(<< >>)
    BY <2>1, WholeReads, EntriesAreFrames
  <2> QED
    BY <2>2 DEF Init, Promise!Init, EntriesOf
<1>2. RInv /\ RInv' /\ [Next]_vars => [Promise!Next]_(Promise!vars)
  BY StepIsPromised
<1> QED
  BY <1>1, <1>2, RecoverableHolds, PTL DEF Spec, KeepsJournal, Promise!Spec


-----------------------------------------------------------------------------
(* What a start finds of keys, versions and confirmed commands.            *)

Stored == Entries(log)

(* The versions that a plan has had, counted from the log. *)
VersionsInOrder ==
    \A i \in DOMAIN Stored :
        Stored[i].version = Promise!VersionOf(SubSeq(Stored, 1, i - 1), Stored[i].plan) + 1

OneJournal ==
    /\ Stored \in Seq([plan : Plans, version : Int, key : Keys, action : Actions])
    /\ \A i, j \in DOMAIN Stored : Stored[i].key = Stored[j].key => i = j
    /\ VersionsInOrder
    /\ acked \subseteq Promise!KeysOf(Stored)

LEMMA VersionIsInt ==
    ASSUME NEW S, NEW s \in Seq(S), NEW p
    PROVE  Promise!VersionOf(s, p) \in Nat
<1> DEFINE V == {i \in DOMAIN s : s[i].plan = p}
<1>1. DOMAIN s = 1..Len(s) /\ Len(s) \in Nat /\ V \subseteq 1..Len(s)
  OBVIOUS
<1>2. IsFiniteSet(1..Len(s))
  BY <1>1, FS_Interval
<1>3. Promise!VersionOf(s, p) = Cardinality(V)
  BY DEF Promise!VersionOf, Promise!Cardinality, Cardinality
<1> HIDE DEF V
<1>4. IsFiniteSet(V)
  BY <1>1, <1>2, FS_Subset
<1> QED
  BY <1>3, <1>4, FS_CardinalityType

(* Two sequences with the same beginning have the same versions there. *)
LEMMA VersionsOfPrefix ==
    ASSUME NEW S, NEW s \in Seq(S), NEW r \in Seq(S), NEW n \in 0..Len(s), n <= Len(r),
           \A i \in 1..n : r[i] = s[i]
    PROVE  \A i \in 1..n : SubSeq(r, 1, i - 1) = SubSeq(s, 1, i - 1)
<1> TAKE i \in 1..n
<1>1. SubSeq(r, 1, i - 1) = [j \in 1..(i - 1) |-> r[j]]
  OBVIOUS
<1>2. SubSeq(s, 1, i - 1) = [j \in 1..(i - 1) |-> s[j]]
  OBVIOUS
<1>3. \A j \in 1..(i - 1) : r[j] = s[j]
  OBVIOUS
<1> QED
  BY <1>1, <1>2, <1>3

LEMMA JournalStepsInOrder == ASSUME OneJournal, [Promise!Next]_(Promise!vars) PROVE OneJournal'
<1> DEFINE E == [plan : Plans, version : Int, key : Keys, action : Actions]
<1>1. /\ Stored \in Seq(E) /\ DOMAIN Stored = 1..Len(Stored) /\ Len(Stored) \in Nat
  BY DEF OneJournal
<1>2. CASE UNCHANGED Promise!vars
  <2>1. Stored' = Stored /\ acked' = acked
    BY <1>2 DEF Promise!vars, Stored
  <2> QED
    BY <2>1 DEF OneJournal, VersionsInOrder
<1>3. ASSUME NEW p \in Plans, NEW k \in Keys, NEW a \in Actions, Promise!Record(p, k, a)
      PROVE  OneJournal'
  <2> DEFINE n == Len(Stored)
             e == [plan |-> p, version |-> Promise!VersionOf(Stored, p) + 1, key |-> k, action |-> a]
  <2>1. Stored' = Append(Stored, e) /\ acked' = acked /\ k \notin Promise!KeysOf(Stored)
    BY <1>3 DEF Promise!Record, Stored
  <2>2. e \in E /\ e.key = k /\ e.plan = p /\ e.version = Promise!VersionOf(Stored, p) + 1
    BY <1>1, VersionIsInt
  <2> HIDE DEF e, E
  <2>3. /\ Stored' \in Seq(E) /\ DOMAIN Stored' = 1..(n + 1) /\ n \in Nat /\ Len(Stored') = n + 1
        /\ Stored'[n + 1] = e /\ \A i \in 1..n : Stored'[i] = Stored[i]
        /\ \A i \in 1..(n + 1) : i # n + 1 => i \in 1..n
    BY <1>1, <2>1, <2>2
  <2>4. \A i \in DOMAIN Stored : Stored[i].key # k
    BY <2>1 DEF Promise!KeysOf
  <2>5. \A i, j \in DOMAIN Stored' : Stored'[i].key = Stored'[j].key => i = j
    BY <1>1, <2>2, <2>3, <2>4 DEF OneJournal
  <2>6. VersionsInOrder'
    <3>1. \A i \in 1..n : SubSeq(Stored', 1, i - 1) = SubSeq(Stored, 1, i - 1)
      BY <1>1, <2>3, VersionsOfPrefix
    <3>2. SubSeq(Stored', 1, n) = Stored
      BY <1>1, <2>1, <2>2, <2>3
    <3> HIDE DEF n
    <3>3. ASSUME NEW i \in 1..n
          PROVE  Stored'[i].version = Promise!VersionOf(SubSeq(Stored', 1, i - 1), Stored'[i].plan) + 1
      BY <1>1, <2>3, <3>1 DEF OneJournal, VersionsInOrder, n
    <3>4. Stored'[n + 1].version
             = Promise!VersionOf(SubSeq(Stored', 1, (n + 1) - 1), Stored'[n + 1].plan) + 1
      <4>1. (n + 1) - 1 = n
        BY <2>3
      <4> QED
        BY <2>2, <2>3, <3>2, <4>1
    <3> QED
      BY <2>3, <3>3, <3>4 DEF VersionsInOrder
  <2>7. Promise!KeysOf(Stored) \subseteq Promise!KeysOf(Stored')
    BY <1>1, <2>3 DEF Promise!KeysOf
  <2> QED
    BY <2>1, <2>3, <2>5, <2>6, <2>7 DEF OneJournal, E
<1>4. ASSUME NEW k \in Keys, Promise!Confirm(k) PROVE OneJournal'
  <2>1. Stored' = Stored /\ acked' = acked \cup {k} /\ k \in Promise!KeysOf(Stored)
    BY <1>4 DEF Promise!Confirm, Stored
  <2> QED
    BY <2>1 DEF OneJournal, VersionsInOrder
<1>5. ASSUME NEW n \in 0..Len(Stored), Promise!LoseTail(n) PROVE OneJournal'
  <2>1. Stored' = SubSeq(Stored, 1, n) /\ acked' = acked /\ acked \subseteq Promise!KeysOf(Stored')
    BY <1>5 DEF Promise!LoseTail, Stored
  <2> HIDE DEF E
  <2>2. /\ Stored' \in Seq(E) /\ DOMAIN Stored' = 1..n /\ Len(Stored') = n /\ 1..n \subseteq DOMAIN Stored
        /\ \A i \in 1..n : Stored'[i] = Stored[i]
    BY <1>1, <2>1
  <2>3. \A i \in 1..n : SubSeq(Stored', 1, i - 1) = SubSeq(Stored, 1, i - 1)
    BY <1>1, <2>2, VersionsOfPrefix
  <2>4. VersionsInOrder'
    BY <2>2, <2>3 DEF OneJournal, VersionsInOrder
  <2>5. \A i, j \in DOMAIN Stored' : Stored'[i].key = Stored'[j].key => i = j
    BY <2>2 DEF OneJournal
  <2> QED
    BY <2>1, <2>2, <2>4, <2>5 DEF OneJournal, E
<1> QED
  BY <1>2, <1>3, <1>4, <1>5 DEF Promise!Next, Stored

(* Wherever the store was stopped, what a start reads has every confirmed  *)
(* command, each key once, and each plan's versions without a gap.         *)
THEOREM LogIsOneJournal == ASSUME Reliable PROVE Spec => []OneJournal
<1>1. Promise!Init => OneJournal
  <2> SUFFICES ASSUME Promise!Init PROVE OneJournal
    OBVIOUS
  <2>1. Stored = << >> /\ acked = {}
    BY DEF Promise!Init, Stored
  <2> QED
    BY <2>1 DEF OneJournal, VersionsInOrder
<1> QED
  BY <1>1, JournalStepsInOrder, StoreKeepsJournal, PTL DEF KeepsJournal, Promise!Spec

=============================================================================

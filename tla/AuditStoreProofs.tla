-------------------------- MODULE AuditStoreProofs --------------------------
(***************************************************************************)
(* Theorems about AuditStore, for any number of plans and kinds of         *)
(* commands, and files of any length.  Whatever goes wrong: the types, the *)
(* chain in memory, and what the files keep for a seal and for a caller.   *)
(* As long as fsyncs succeed: a restart, whose memory is that of the       *)
(* process before it if writes succeed, too; and then the refinement of    *)
(* AuditTrail.                                                             *)
(***************************************************************************)
EXTENDS AuditStore, TLAPS

(* What holds at each step of a write: only the unsynced end of a file is  *)
(* touched, a record continues the chain in memory, and a seal is written  *)
(* when its credential is durable.                                         *)
WriteInOrder ==
    write # None =>
        LET f == write.file IN
        /\ write.stage \in {"body", "sync"} => synced[f] < Len(file[f])
        /\ write.stage = "sync" => Len(file[f]) > 0 /\ file[f][Len(file[f])] = write.frame
        /\ f = "chain" =>
              /\ write.frame.seq = Len(memory["chain"]) + 1
              /\ write.frame.previous = LastDigest(memory["chain"])
              /\ write.frame.action = Sealed => HasCredential(write.frame)

IInv == TypeOK /\ WriteInOrder /\ MemoryLinked /\ SealHasCredential /\ ReturnedOnDisk

(* A step that changes no synced frame, and takes no sync back. *)
Kept ==
    \A f \in Files :
        /\ synced'[f] \in Nat /\ synced[f] <= synced'[f]
        /\ \A j \in 1..synced[f] : file'[f][j] = file[f][j]

-----------------------------------------------------------------------------
(* Facts about the data. *)

LEMMA FrameTypes ==
    /\ FrameOf["chain"] = Record /\ FrameOf["creds"] = Credential
    /\ \A f \in Files : FrameOf[f] = Record \/ FrameOf[f] = Credential
    /\ \A f \in Files : Torn \notin FrameOf[f]
BY ConstantsAssumption DEF FrameOf, Files

LEMMA Longer ==
    ASSUME NEW S, NEW s \in Seq(S), NEW e \in S
    PROVE  /\ Len(s) \in Nat /\ Append(s, e) \in Seq(S)
           /\ Len(Append(s, e)) = Len(s) + 1 /\ Append(s, e)[Len(s) + 1] = e
           /\ \A j \in 1..Len(s) : Append(s, e)[j] = s[j]
OBVIOUS

LEMMA DigestType ==
    ASSUME NEW records \in Seq(Record)
    PROVE  LastDigest(records) \in Seq(Entry)
<1>1. CASE records = << >>
  BY <1>1 DEF LastDigest
<1>2. CASE records # << >>
  <2> DEFINE r == records[Len(records)]
  <2>1. r \in Record
    BY <1>2
  <2> HIDE DEF r
  <2>2. <<r.seq, r.plan, r.action, r.credential>> \in Entry
    BY <2>1 DEF Record, Entry
  <2>3. r.previous \in Seq(Entry)
    BY <2>1 DEF Record
  <2>4. Digest(r) \in Seq(Entry)
    BY <2>2, <2>3 DEF Digest
  <2> QED
    BY <1>2, <2>4 DEF LastDigest, r
<1> QED
  BY <1>1, <1>2

(* A record that continues a chain leaves it linked. *)
LEMMA LinkedAppend ==
    ASSUME NEW records \in Seq(Record), NEW r \in Record, Linked(records),
           r.seq = Len(records) + 1, r.previous = LastDigest(records)
    PROVE  Linked(Append(records, r))
<1> DEFINE longer == Append(records, r)
<1>1. /\ Len(records) \in Nat /\ longer \in Seq(Record)
      /\ Len(longer) = Len(records) + 1 /\ DOMAIN longer = 1..Len(records) + 1
      /\ longer[Len(records) + 1] = r
      /\ \A i \in 1..Len(records) : longer[i] = records[i]
  OBVIOUS
<1> HIDE DEF longer
<1>2. ASSUME NEW i \in 1..Len(records) + 1
      PROVE  SubSeq(longer, 1, i - 1) = SubSeq(records, 1, i - 1)
  BY <1>1
<1>3. SubSeq(records, 1, Len(records)) = records
  OBVIOUS
<1>4. ASSUME NEW i \in DOMAIN longer
      PROVE  longer[i].seq = i /\ longer[i].previous = LastDigest(SubSeq(longer, 1, i - 1))
  <2>1. CASE i = Len(records) + 1
    <3>1. i \in 1..Len(records) + 1 /\ i - 1 = Len(records)
      BY <1>1, <2>1
    <3>2. SubSeq(longer, 1, i - 1) = records
      BY <1>2, <1>3, <3>1
    <3>3. longer[i] = r
      BY <1>1, <2>1
    <3> QED
      BY <2>1, <3>2, <3>3
  <2>2. CASE i # Len(records) + 1
    <3>1. i \in DOMAIN records /\ longer[i] = records[i] /\ i \in 1..Len(records) + 1
      BY <1>1, <2>2
    <3>2. SubSeq(longer, 1, i - 1) = SubSeq(records, 1, i - 1)
      BY <1>2, <3>1
    <3> QED
      BY <3>1, <3>2 DEF Linked
  <2> QED
    BY <2>1, <2>2
<1>5. Linked(longer)
  BY <1>4 DEF Linked
<1> QED
  BY <1>5 DEF longer

-----------------------------------------------------------------------------
(* What a step keeps. *)

LEMMA CredentialKept ==
    ASSUME IInv, Kept, NEW r, HasCredential(r)
    PROVE  \E j \in 1..synced'["creds"] :
              file'["creds"][j] = [seq |-> r.credential, plan |-> r.plan]
<1>1. /\ synced["creds"] \in Nat /\ synced'["creds"] \in Nat /\ synced["creds"] <= synced'["creds"]
      /\ \A j \in 1..synced["creds"] : file'["creds"][j] = file["creds"][j]
  BY DEF IInv, TypeOK, Files, Kept
<1> QED
  BY <1>1 DEF HasCredential

LEMMA ReturnedKept ==
    ASSUME IInv, Kept, returned' = returned
    PROVE  ReturnedOnDisk'
<1> SUFFICES ASSUME NEW r \in returned
             PROVE  /\ \E i \in 1..synced'["chain"] : file'["chain"][i] = r
                    /\ r.action = Sealed =>
                         \E j \in 1..synced'["creds"] :
                            file'["creds"][j] = [seq |-> r.credential, plan |-> r.plan]
  BY DEF ReturnedOnDisk, HasCredential
<1>1. /\ synced["chain"] \in Nat /\ synced'["chain"] \in Nat /\ synced["chain"] <= synced'["chain"]
      /\ \A j \in 1..synced["chain"] : file'["chain"][j] = file["chain"][j]
  BY DEF IInv, TypeOK, Files, Kept
<1>2. \E i \in 1..synced["chain"] : file["chain"][i] = r
  BY DEF IInv, ReturnedOnDisk
<1>3. \E i \in 1..synced'["chain"] : file'["chain"][i] = r
  BY <1>1, <1>2
<1>4. r.action = Sealed => HasCredential(r)
  BY DEF IInv, ReturnedOnDisk
<1> QED
  BY <1>3, <1>4, CredentialKept

(* Each record of the new chain was there before, or is the one written. *)
LEMMA SealsKept ==
    ASSUME IInv, Kept,
           \A i \in DOMAIN file'["chain"] :
               \/ file'["chain"][i] = Torn
               \/ \E k \in DOMAIN file["chain"] : file'["chain"][i] = file["chain"][k]
               \/ write # None /\ write.file = "chain" /\ file'["chain"][i] = write.frame
    PROVE  SealHasCredential'
<1> SUFFICES ASSUME NEW i \in DOMAIN file'["chain"],
                    file'["chain"][i] # Torn, file'["chain"][i].action = Sealed
             PROVE  \E j \in 1..synced'["creds"] :
                       file'["creds"][j] = [seq |-> file'["chain"][i].credential,
                                            plan |-> file'["chain"][i].plan]
  BY DEF SealHasCredential, HasCredential
<1>1. CASE \E k \in DOMAIN file["chain"] : file'["chain"][i] = file["chain"][k]
  <2>1. PICK k \in DOMAIN file["chain"] : file'["chain"][i] = file["chain"][k]
    BY <1>1
  <2>2. HasCredential(file["chain"][k])
    BY <2>1 DEF IInv, SealHasCredential
  <2> QED
    BY <2>1, <2>2, CredentialKept
<1>2. CASE write # None /\ write.file = "chain" /\ file'["chain"][i] = write.frame
  <2>1. HasCredential(write.frame)
    BY <1>2 DEF IInv, WriteInOrder
  <2> QED
    BY <1>2, <2>1, CredentialKept
<1> QED
  BY <1>1, <1>2

-----------------------------------------------------------------------------
(* Each action keeps the invariant. *)

LEMMA InitInvariant == Init => IInv
<1> SUFFICES ASSUME Init PROVE IInv
  OBVIOUS
<1>1. TypeOK
  BY DEF Init, TypeOK, EmptyMemory, Files
<1>2. MemoryLinked
  BY DEF Init, MemoryLinked, Linked, EmptyMemory, Files
<1>3. WriteInOrder /\ SealHasCredential /\ ReturnedOnDisk
  BY DEF Init, WriteInOrder, SealHasCredential, ReturnedOnDisk, EmptyMemory, Files
<1> QED
  BY <1>1, <1>2, <1>3 DEF IInv

(* A step that leaves the files, and what is known of them, alone. *)
LEMMA FilesUnchanged ==
    ASSUME IInv, UNCHANGED <<file, synced, returned>>
    PROVE  SealHasCredential' /\ ReturnedOnDisk'
BY DEF IInv, SealHasCredential, ReturnedOnDisk, HasCredential

LEMMA OpenInvariant == ASSUME IInv, Open PROVE IInv'
<1>1. write = None /\ write' = None
  BY DEF IInv, TypeOK, Open
<1>2. CASE ChainLoads(file["chain"]) /\ CredentialsLoad(file["creds"])
  <2>1. memory' = file
    BY <1>2 DEF Open
  <2>2. \A f \in Files : file[f] \in Seq(FrameOf[f])
    <3> SUFFICES ASSUME NEW f \in Files PROVE file[f] \in Seq(FrameOf[f])
      OBVIOUS
    <3>1. NoTear(file[f])
      BY <1>2 DEF ChainLoads, CredentialsLoad, Files
    <3>2. file[f] \in Seq(FrameOf[f] \cup {Torn})
      BY DEF IInv, TypeOK
    <3>3. \A i \in DOMAIN file[f] : file[f][i] \in FrameOf[f]
      BY <3>1, <3>2 DEF NoTear
    <3> QED
      BY <3>2, <3>3
  <2>3. TypeOK'
    BY <1>1, <1>2, <2>1, <2>2 DEF IInv, TypeOK, Open
  <2>4. MemoryLinked'
    BY <1>2, <2>1 DEF MemoryLinked, ChainLoads
  <2> QED
    BY <1>1, <2>3, <2>4, FilesUnchanged DEF IInv, WriteInOrder, Open
<1>3. CASE ~ (ChainLoads(file["chain"]) /\ CredentialsLoad(file["creds"]))
  <2>1. TypeOK' /\ MemoryLinked'
    BY <1>1, <1>3 DEF IInv, TypeOK, MemoryLinked, Open
  <2> QED
    BY <1>1, <2>1, FilesUnchanged DEF IInv, WriteInOrder, Open
<1> QED
  BY <1>2, <1>3

LEMMA BeginAppendInvariant ==
    ASSUME IInv, NEW p \in Plans, NEW a \in Actions, BeginAppend(p, a)
    PROVE  IInv'
<1> DEFINE r == NextRecord(p, a, 0)
<1>1. memory["chain"] \in Seq(Record)
  BY FrameTypes DEF IInv, TypeOK, Files
<1>2. r \in Record
  <2>1. LastDigest(memory["chain"]) \in Seq(Entry) /\ Len(memory["chain"]) + 1 \in Nat
    BY <1>1, DigestType
  <2> QED
    BY <2>1 DEF NextRecord, Record
<1>3. /\ r.seq = Len(memory["chain"]) + 1
      /\ r.previous = LastDigest(memory["chain"]) /\ r.action # Sealed
  BY ConstantsAssumption DEF NextRecord
<1> HIDE DEF r
<1>4. /\ write' = [file |-> "chain", stage |-> "header", frame |-> r]
      /\ phase' = "open" /\ UNCHANGED <<file, synced, memory, returned>>
  BY DEF BeginAppend, Start, Idle, r
<1>5. TypeOK'
  BY <1>2, <1>4, FrameTypes DEF IInv, TypeOK, Files, Write
<1>6. WriteInOrder'
  BY <1>4, <1>3 DEF WriteInOrder
<1> QED
  BY <1>4, <1>5, <1>6, FilesUnchanged DEF IInv, MemoryLinked

LEMMA BeginIssueInvariant ==
    ASSUME IInv, NEW p \in Plans, BeginIssue(p)
    PROVE  IInv'
<1> DEFINE c == [seq |-> Len(memory["creds"]) + 1, plan |-> p]
<1>1. c \in Credential
  BY FrameTypes DEF IInv, TypeOK, Files, Credential
<1> HIDE DEF c
<1>2. /\ write' = [file |-> "creds", stage |-> "header", frame |-> c]
      /\ phase' = "open" /\ UNCHANGED <<file, synced, memory, returned>>
  BY DEF BeginIssue, Start, Idle, c
<1>3. TypeOK'
  BY <1>1, <1>2, FrameTypes DEF IInv, TypeOK, Files, Write
<1>4. WriteInOrder'
  BY <1>2 DEF WriteInOrder
<1> QED
  BY <1>2, <1>3, <1>4, FilesUnchanged DEF IInv, MemoryLinked

(* A step that touches no file but by a torn frame at its end. *)
LEMMA TornAtEnd ==
    ASSUME IInv, UNCHANGED <<synced, returned>>,
           \A f \in Files : file'[f] = file[f] \/ file'[f] = Append(file[f], Torn)
    PROVE  /\ \A f \in Files : /\ file'[f] \in Seq(FrameOf[f] \cup {Torn})
                               /\ Len(file[f]) \in Nat /\ Len(file[f]) <= Len(file'[f])
                               /\ synced[f] \in Nat /\ synced[f] <= Len(file[f])
           /\ Kept /\ SealHasCredential' /\ ReturnedOnDisk'
<1>1. ASSUME NEW f \in Files
      PROVE  /\ file'[f] \in Seq(FrameOf[f] \cup {Torn})
             /\ Len(file[f]) \in Nat /\ Len(file[f]) <= Len(file'[f])
             /\ \A j \in 1..Len(file[f]) : file'[f][j] = file[f][j]
             /\ synced[f] \in Nat /\ synced[f] <= Len(file[f])
             /\ \A i \in DOMAIN file'[f] :
                   file'[f][i] = Torn \/ \E k \in DOMAIN file[f] : file'[f][i] = file[f][k]
  <2> DEFINE S == FrameOf[f] \cup {Torn}
  <2>1. file[f] \in Seq(S) /\ Torn \in S /\ synced[f] \in Nat /\ synced[f] <= Len(file[f])
    BY DEF IInv, TypeOK
  <2> HIDE DEF S
  <2>2. CASE file'[f] = file[f]
    BY <2>1, <2>2 DEF S
  <2>3. CASE file'[f] = Append(file[f], Torn)
    <3>1. /\ Len(file[f]) \in Nat /\ file'[f] \in Seq(S) /\ Len(file'[f]) = Len(file[f]) + 1
          /\ file'[f][Len(file[f]) + 1] = Torn
          /\ \A j \in 1..Len(file[f]) : file'[f][j] = file[f][j]
      BY <2>1, <2>3, Longer
    <3>2. DOMAIN file[f] = 1..Len(file[f]) /\ DOMAIN file'[f] = 1..Len(file[f]) + 1
      BY <2>1, <3>1
    <3>3. ASSUME NEW i \in DOMAIN file'[f]
          PROVE  file'[f][i] = Torn \/ \E k \in DOMAIN file[f] : file'[f][i] = file[f][k]
      BY <3>1, <3>2
    <3> QED
      BY <2>1, <3>1, <3>3 DEF S
  <2> QED
    BY <2>2, <2>3
<1>2. Kept
  <2> SUFFICES ASSUME NEW f \in Files
               PROVE  /\ synced[f] \in Nat /\ synced[f] <= synced[f]
                      /\ \A j \in 1..synced[f] : file'[f][j] = file[f][j]
    BY DEF Kept
  <2>1. /\ synced[f] \in Nat /\ Len(file[f]) \in Nat /\ synced[f] <= Len(file[f])
        /\ \A j \in 1..Len(file[f]) : file'[f][j] = file[f][j]
    BY <1>1
  <2> QED
    BY <2>1
<1>3. SealHasCredential'
  BY <1>1, <1>2, SealsKept DEF Files
<1> QED
  BY <1>1, <1>2, <1>3, ReturnedKept

(* A write that fails leaves everything that was durable so. *)
LEMMA FailInvariant ==
    ASSUME IInv, write # None, write' = None,
           UNCHANGED <<synced, phase, memory, returned>>,
           file' = file \/ file' = [file EXCEPT ![write.file] = Append(@, Torn)]
    PROVE  IInv'
<1>1. write.file \in Files /\ DOMAIN file = Files
  BY DEF IInv, TypeOK, Write
<1>2. DOMAIN file' = Files /\ \A f \in Files : file'[f] = file[f] \/ file'[f] = Append(file[f], Torn)
  BY <1>1
<1>3. SealHasCredential' /\ ReturnedOnDisk'
  BY <1>2, TornAtEnd
<1>4. \A f \in Files : file'[f] \in Seq(FrameOf[f] \cup {Torn}) /\ synced[f] <= Len(file'[f])
  <2> TAKE f \in Files
  <2>1. /\ file'[f] \in Seq(FrameOf[f] \cup {Torn}) /\ Len(file[f]) \in Nat /\ synced[f] \in Nat
        /\ Len(file[f]) <= Len(file'[f]) /\ synced[f] <= Len(file[f])
    BY <1>2, TornAtEnd
  <2>2. Len(file'[f]) \in Nat
    BY <2>1
  <2> QED
    BY <2>1, <2>2
<1>5. TypeOK'
  BY <1>2, <1>4 DEF IInv, TypeOK
<1> QED
  BY <1>3, <1>5 DEF IInv, WriteInOrder, MemoryLinked

LEMMA WriteHeaderInvariant == ASSUME IInv, WriteHeader PROVE IInv'
<1> DEFINE g == write.file
<1>1. write # None /\ g \in Files /\ DOMAIN file = Files
  BY DEF IInv, TypeOK, WriteHeader, At, Write
<1>2. /\ file'[g] = Append(file[g], Torn)
      /\ DOMAIN file' = Files
      /\ \A f \in Files : file'[f] = file[f] \/ file'[f] = Append(file[f], Torn)
  BY <1>1 DEF WriteHeader
<1>3. /\ write' = [file |-> g, stage |-> "body", frame |-> write.frame]
      /\ UNCHANGED <<synced, phase, memory, returned>>
  BY <1>1 DEF WriteHeader, IInv, TypeOK, Write
<1>4. Kept /\ SealHasCredential' /\ ReturnedOnDisk'
  BY <1>2, <1>3, TornAtEnd
<1>5. \A f \in Files : file'[f] \in Seq(FrameOf[f] \cup {Torn}) /\ synced[f] <= Len(file'[f])
  <2> TAKE f \in Files
  <2>1. /\ file'[f] \in Seq(FrameOf[f] \cup {Torn}) /\ Len(file[f]) \in Nat /\ synced[f] \in Nat
        /\ Len(file[f]) <= Len(file'[f]) /\ synced[f] <= Len(file[f])
    BY <1>2, <1>3, TornAtEnd
  <2>2. Len(file'[f]) \in Nat
    BY <2>1
  <2> QED
    BY <2>1, <2>2
<1>6. TypeOK'
  BY <1>1, <1>2, <1>3, <1>5 DEF IInv, TypeOK, Write
<1>7. WriteInOrder'
  <2>1. synced'[g] < Len(file'[g])
    <3>1. file[g] \in Seq(FrameOf[g] \cup {Torn}) /\ synced[g] \in Nat /\ synced[g] <= Len(file[g])
      BY <1>1 DEF IInv, TypeOK
    <3>2. Len(file'[g]) = Len(file[g]) + 1 /\ Len(file[g]) \in Nat
      BY <1>2, <3>1, Longer
    <3> QED
      BY <1>3, <3>1, <3>2
  <2>2. g = "chain" => /\ write.frame.seq = Len(memory'["chain"]) + 1
                       /\ write.frame.previous = LastDigest(memory'["chain"])
    BY <1>1, <1>3 DEF IInv, WriteInOrder
  <2>3. g = "chain" /\ write.frame.action = Sealed => HasCredential(write.frame)
    BY <1>1 DEF IInv, WriteInOrder
  <2>4. g = "chain" /\ write'.frame.action = Sealed => HasCredential(write.frame)'
    BY <2>3, <1>3, <1>4, CredentialKept DEF HasCredential
  <2> QED
    BY <1>3, <2>1, <2>2, <2>4 DEF WriteInOrder, HasCredential
<1> QED
  BY <1>3, <1>4, <1>6, <1>7 DEF IInv, MemoryLinked

LEMMA WriteFailsInvariant == ASSUME IInv, WriteFails PROVE IInv'
<1>1. write # None /\ (file' = file \/ file' = [file EXCEPT ![write.file] = Append(@, Torn)])
  BY DEF WriteFails, At
<1> QED
  BY <1>1, FailInvariant DEF WriteFails

LEMMA SyncFailsInvariant == ASSUME IInv, SyncFails PROVE IInv'
BY FailInvariant DEF SyncFails, At

(* The body takes the place of the torn frame that its length had left. *)
LEMMA WriteBodyInvariant == ASSUME IInv, WriteBody PROVE IInv'
<1> DEFINE g == write.file
           S == FrameOf[g] \cup {Torn}
           n == Len(file[g])
<1>1. write # None /\ g \in Files /\ DOMAIN file = Files /\ write.frame \in FrameOf[g]
  BY DEF IInv, TypeOK, WriteBody, At, Write
<1>2. /\ file'[g] = Append(Front(file[g]), write.frame)
      /\ DOMAIN file' = Files
      /\ \A f \in Files \ {g} : file'[f] = file[f]
  BY <1>1 DEF WriteBody
<1>3. /\ write' = [file |-> g, stage |-> "sync", frame |-> write.frame]
      /\ UNCHANGED <<synced, phase, memory, returned>>
  BY <1>1 DEF WriteBody, IInv, TypeOK, Write
<1>4. file[g] \in Seq(S) /\ n \in Nat /\ synced[g] \in Nat /\ synced[g] < n
  BY <1>1 DEF IInv, TypeOK, WriteInOrder, WriteBody, At
<1>5. /\ file'[g] \in Seq(S) /\ Len(file'[g]) = n /\ file'[g][n] = write.frame
      /\ \A j \in 1..n - 1 : file'[g][j] = file[g][j]
  <2> DEFINE front == SubSeq(file[g], 1, n - 1)
  <2>1. Front(file[g]) = front
    BY DEF Front
  <2>2. front \in Seq(S) /\ Len(front) = n - 1 /\ \A j \in 1..n - 1 : front[j] = file[g][j]
    BY <1>4
  <2>3. write.frame \in S
    BY <1>1
  <2> HIDE DEF front, S, n
  <2>4. /\ Append(front, write.frame) \in Seq(S)
        /\ Len(Append(front, write.frame)) = Len(front) + 1
        /\ Append(front, write.frame)[Len(front) + 1] = write.frame
        /\ \A j \in 1..Len(front) : Append(front, write.frame)[j] = front[j]
    BY <2>2, <2>3, Longer
  <2> QED
    BY <1>2, <1>4, <2>1, <2>2, <2>4
<1> HIDE DEF S, n
<1>6. Kept
  <2> SUFFICES ASSUME NEW f \in Files
               PROVE  /\ synced[f] \in Nat /\ synced[f] <= synced[f]
                      /\ \A j \in 1..synced[f] : file'[f][j] = file[f][j]
    BY <1>3 DEF Kept
  <2>1. CASE f = g
    BY <1>4, <1>5, <2>1
  <2>2. CASE f # g
    BY <1>2, <2>2 DEF IInv, TypeOK
  <2> QED
    BY <2>1, <2>2
<1>7. SealHasCredential'
  <2>1. CASE g = "chain"
    <3>1. ASSUME NEW i \in DOMAIN file'["chain"]
          PROVE  \/ \E k \in DOMAIN file["chain"] : file'["chain"][i] = file["chain"][k]
                 \/ file'["chain"][i] = write.frame
      <4>1. i \in 1..n /\ DOMAIN file["chain"] = 1..n
        BY <1>4, <1>5, <2>1 DEF n
      <4>2. i = n \/ i \in 1..n - 1
        BY <1>4, <4>1
      <4> QED
        BY <1>5, <2>1, <4>1, <4>2
    <3> QED
      BY <1>1, <1>6, <2>1, <3>1, SealsKept
  <2>2. CASE g # "chain"
    <3>1. file'["chain"] = file["chain"]
      BY <1>2, <2>2 DEF Files
    <3> QED
      BY <1>6, <3>1, SealsKept
  <2> QED
    BY <2>1, <2>2
<1>8. TypeOK'
  <2>1. ASSUME NEW f \in Files
        PROVE  file'[f] \in Seq(FrameOf[f] \cup {Torn}) /\ synced'[f] <= Len(file'[f])
    <3>1. CASE f = g
      BY <1>3, <1>4, <1>5, <3>1 DEF S
    <3>2. CASE f # g
      BY <1>2, <1>3, <3>2 DEF IInv, TypeOK
    <3> QED
      BY <3>1, <3>2
  <2> QED
    BY <1>1, <1>2, <1>3, <2>1 DEF IInv, TypeOK, Write
<1>9. WriteInOrder'
  <2>1. /\ Len(file'[g]) > 0 /\ file'[g][Len(file'[g])] = write.frame
        /\ synced'[g] < Len(file'[g])
    BY <1>3, <1>4, <1>5
  <2>2. g = "chain" => /\ write.frame.seq = Len(memory'["chain"]) + 1
                       /\ write.frame.previous = LastDigest(memory'["chain"])
    BY <1>1, <1>3 DEF IInv, WriteInOrder
  <2>3. g = "chain" /\ write.frame.action = Sealed => HasCredential(write.frame)
    BY <1>1 DEF IInv, WriteInOrder
  <2>4. g = "chain" /\ write'.frame.action = Sealed => HasCredential(write.frame)'
    BY <2>3, <1>3, <1>6, CredentialKept DEF HasCredential
  <2> QED
    BY <1>3, <2>1, <2>2, <2>4 DEF WriteInOrder, HasCredential
<1> QED
  BY <1>3, <1>6, <1>7, <1>8, <1>9, ReturnedKept DEF IInv, MemoryLinked

LEMMA SyncInvariant == ASSUME IInv, Sync PROVE IInv'
<1> DEFINE g == write.file
<1>1. /\ write # None /\ g \in Files /\ write.stage = "sync" /\ phase = "open"
      /\ write.frame \in FrameOf[g] /\ file[g] \in Seq(FrameOf[g] \cup {Torn})
  BY DEF IInv, TypeOK, Sync, At, Write
<1>2. Len(file[g]) \in Nat /\ Len(file[g]) > 0 /\ file[g][Len(file[g])] = write.frame
  BY <1>1 DEF IInv, WriteInOrder
<1>3. /\ UNCHANGED <<file, phase>>
      /\ synced' = [synced EXCEPT ![g] = Len(file[g])]
      /\ memory' = [memory EXCEPT ![g] = Append(@, write.frame)]
      /\ write' = AfterSync(g, write.frame)
  BY DEF Sync, Remembered
<1>4. Kept
  BY <1>1, <1>2, <1>3 DEF Kept, IInv, TypeOK
<1>5. SealHasCredential'
  BY <1>3, <1>4, SealsKept
<1>6. DOMAIN memory' = Files /\ \A f \in Files : memory'[f] \in Seq(FrameOf[f])
  BY <1>1, <1>3, Longer DEF IInv, TypeOK
<1>7. synced' \in [Files -> Nat] /\ \A f \in Files : synced'[f] <= Len(file'[f])
  <2>1. synced' \in [Files -> Nat]
    BY <1>1, <1>2, <1>3 DEF IInv, TypeOK
  <2>2. ASSUME NEW f \in Files PROVE synced'[f] <= Len(file'[f])
    <3>1. CASE f = g
      <4>1. synced'[f] = Len(file[f]) /\ file' = file /\ Len(file[f]) \in Nat
        BY <1>1, <1>2, <1>3, <3>1 DEF IInv, TypeOK
      <4> QED
        BY <4>1
    <3>2. CASE f # g
      BY <1>1, <1>3, <3>2 DEF IInv, TypeOK
    <3> QED
      BY <3>1, <3>2
  <2> QED
    BY <2>1, <2>2
<1>8. CASE g = "chain"
  <2>1. write' = None /\ returned' = returned \cup {write.frame}
    BY <1>3, <1>8 DEF AfterSync, Sync
  <2>2. write.frame \in Record /\ memory["chain"] \in Seq(Record)
    BY <1>1, <1>8, FrameTypes DEF IInv, TypeOK, Files
  <2>3. TypeOK'
    BY <1>3, <1>6, <1>7, <2>1, <2>2 DEF IInv, TypeOK
  <2>4. MemoryLinked'
    <3>1. memory'["chain"] = Append(memory["chain"], write.frame)
      BY <1>3, <1>8 DEF IInv, TypeOK, Files
    <3>2. /\ write.frame.seq = Len(memory["chain"]) + 1
          /\ write.frame.previous = LastDigest(memory["chain"])
      BY <1>1, <1>8 DEF IInv, WriteInOrder
    <3> QED
      BY <2>2, <3>1, <3>2, LinkedAppend DEF IInv, MemoryLinked
  <2>5. ReturnedOnDisk'
    <3> SUFFICES ASSUME NEW r \in returned'
                 PROVE  /\ \E i \in 1..synced'["chain"] : file'["chain"][i] = r
                        /\ r.action = Sealed =>
                             \E j \in 1..synced'["creds"] :
                                file'["creds"][j] = [seq |-> r.credential, plan |-> r.plan]
      BY DEF ReturnedOnDisk, HasCredential
    <3>1. CASE r \in returned
      <4>1. /\ synced["chain"] \in Nat /\ synced'["chain"] \in Nat
            /\ synced["chain"] <= synced'["chain"]
            /\ \A j \in 1..synced["chain"] : file'["chain"][j] = file["chain"][j]
        BY <1>4 DEF IInv, TypeOK, Files, Kept
      <4>2. \E i \in 1..synced["chain"] : file["chain"][i] = r
        BY <3>1 DEF IInv, ReturnedOnDisk
      <4>3. r.action = Sealed => HasCredential(r)
        BY <3>1 DEF IInv, ReturnedOnDisk
      <4>4. \E i \in 1..synced'["chain"] : file'["chain"][i] = r
        BY <4>1, <4>2
      <4> QED
        BY <1>4, <4>3, <4>4, CredentialKept
    <3>2. CASE r = write.frame
      <4>1. synced'["chain"] = Len(file["chain"])
        BY <1>3, <1>8 DEF IInv, TypeOK, Files
      <4>2. \E i \in 1..synced'["chain"] : file'["chain"][i] = r
        BY <1>2, <1>3, <1>8, <3>2, <4>1
      <4>3. r.action = Sealed => HasCredential(r)
        BY <1>1, <1>8, <3>2 DEF IInv, WriteInOrder
      <4> QED
        BY <1>4, <4>2, <4>3, CredentialKept
    <3> QED
      BY <2>1, <3>1, <3>2
  <2> QED
    BY <1>5, <2>1, <2>3, <2>4, <2>5 DEF IInv, WriteInOrder
<1>9. CASE g = "creds"
  <2> DEFINE c == write.frame
             r == NextRecord(c.plan, Sealed, c.seq)
  <2>1. returned' = returned /\ c \in Credential /\ memory["chain"] \in Seq(Record)
    BY <1>1, <1>9, FrameTypes DEF Sync, IInv, TypeOK, Files
  <2>2. write' = [file |-> "chain", stage |-> "header", frame |-> r]
    BY <1>3, <1>9 DEF AfterSync, Start
  <2>3. c.seq \in Nat /\ c.plan \in Plans
    BY <2>1 DEF Credential
  <2>4. r \in Record
    <3>1. LastDigest(memory["chain"]) \in Seq(Entry) /\ Len(memory["chain"]) + 1 \in Nat
      BY <2>1, DigestType
    <3> QED
      BY <2>3, <3>1 DEF NextRecord, Record
  <2>5. memory'["chain"] = memory["chain"]
    BY <1>3, <1>9 DEF IInv, TypeOK, Files
  <2>6. /\ r.seq = Len(memory'["chain"]) + 1 /\ r.previous = LastDigest(memory'["chain"])
        /\ r.credential = c.seq /\ r.plan = c.plan
    BY <2>5 DEF NextRecord
  <2> HIDE DEF r
  <2>7. \E j \in 1..synced'["creds"] :
           file'["creds"][j] = [seq |-> write'.frame.credential, plan |-> write'.frame.plan]
    <3>1. synced'["creds"] = Len(file["creds"]) /\ file'["creds"][Len(file["creds"])] = c
      BY <1>1, <1>2, <1>3, <1>9 DEF IInv, TypeOK
    <3>2. c = [seq |-> r.credential, plan |-> r.plan]
      BY <2>1, <2>6 DEF Credential
    <3>3. Len(file["creds"]) \in 1..synced'["creds"]
      BY <1>2, <1>9, <3>1
    <3> QED
      BY <2>2, <3>1, <3>2, <3>3
  <2>8. TypeOK'
    BY <1>1, <1>3, <1>6, <1>7, <2>1, <2>2, <2>4, FrameTypes DEF IInv, TypeOK, Files, Write
  <2>9. WriteInOrder'
    BY <2>2, <2>6, <2>7 DEF WriteInOrder, HasCredential
  <2> QED
    BY <1>4, <1>5, <2>1, <2>5, <2>8, <2>9, ReturnedKept DEF IInv, MemoryLinked
<1> QED
  BY <1>1, <1>8, <1>9 DEF Files

(* A stop keeps of each file what was synced, whole. *)
LEMMA StopInvariant ==
    ASSUME IInv, Stopped, UNCHANGED returned, DOMAIN file' = Files,
           synced' \in [Files -> Nat],
           \A f \in Files :
               /\ file'[f] \in Seq(FrameOf[f] \cup {Torn})
               /\ synced[f] <= synced'[f] /\ synced'[f] <= Len(file'[f])
               /\ \A j \in 1..synced[f] : file'[f][j] = file[f][j]
               /\ \A i \in DOMAIN file'[f] :
                     file'[f][i] = Torn \/ \E k \in DOMAIN file[f] : file'[f][i] = file[f][k]
    PROVE  IInv'
<1>1. Kept
  BY DEF Kept
<1>2. SealHasCredential'
  BY <1>1, SealsKept DEF Files
<1>3. \A f \in Files : memory'[f] = << >> /\ memory'[f] \in Seq(FrameOf[f])
  BY DEF Stopped, EmptyMemory
<1>4. TypeOK'
  BY <1>3 DEF IInv, TypeOK, Stopped, EmptyMemory
<1>5. MemoryLinked'
  BY <1>3 DEF MemoryLinked, Linked, Files
<1> QED
  BY <1>1, <1>2, <1>4, <1>5, ReturnedKept DEF IInv, WriteInOrder, Stopped

LEMMA ExitInvariant == ASSUME IInv, Exit PROVE IInv'
<1>1. DOMAIN file = Files
  BY DEF IInv, TypeOK
<1>2. DOMAIN file' = Files /\ \A f \in Files : file'[f] = file[f] \/ file'[f] = Append(file[f], Torn)
  BY <1>1 DEF Exit
<1>3. /\ \A f \in Files : file'[f] \in Seq(FrameOf[f] \cup {Torn}) /\ synced[f] <= Len(file'[f])
      /\ Kept /\ SealHasCredential' /\ ReturnedOnDisk'
  <2>1. \A f \in Files : /\ file'[f] \in Seq(FrameOf[f] \cup {Torn})
                         /\ Len(file[f]) \in Nat /\ Len(file[f]) <= Len(file'[f])
                         /\ synced[f] \in Nat /\ synced[f] <= Len(file[f])
    BY <1>2, TornAtEnd DEF Exit
  <2>2. \A f \in Files : Len(file'[f]) \in Nat
    BY <2>1
  <2>3. Kept /\ SealHasCredential' /\ ReturnedOnDisk'
    BY <1>2, TornAtEnd DEF Exit
  <2> QED
    BY <2>1, <2>2, <2>3
<1>4. \A f \in Files : memory'[f] = << >> /\ memory'[f] \in Seq(FrameOf[f])
  BY DEF Exit, Stopped, EmptyMemory
<1>5. TypeOK'
  BY <1>2, <1>3, <1>4 DEF IInv, TypeOK, Exit, Stopped, EmptyMemory
<1>6. MemoryLinked'
  BY <1>4 DEF MemoryLinked, Linked, Files
<1> QED
  BY <1>3, <1>5, <1>6 DEF IInv, WriteInOrder, Exit, Stopped

LEMMA RemainsKept ==
    ASSUME IInv, NEW f \in Files, NEW c \in Remains(f)
    PROVE  /\ c \in Seq(FrameOf[f] \cup {Torn})
           /\ synced[f] <= Len(c)
           /\ \A j \in 1..synced[f] : c[j] = file[f][j]
           /\ \A i \in DOMAIN c : c[i] = Torn \/ \E k \in DOMAIN file[f] : c[i] = file[f][k]
<1> DEFINE S == FrameOf[f] \cup {Torn}
<1>1. /\ file[f] \in Seq(S) /\ Torn \in S /\ synced[f] \in Nat
      /\ Len(file[f]) \in Nat /\ synced[f] <= Len(file[f])
  BY DEF IInv, TypeOK
<1> HIDE DEF S
<1>2. PICK n \in synced[f]..Len(file[f]) :
         c = file[f] \/ c = SubSeq(file[f], 1, n) \/ c = Append(SubSeq(file[f], 1, n), Torn)
  BY DEF Remains, Tears
<1>3. CASE c = file[f]
  BY <1>1, <1>3 DEF S
<1> DEFINE front == SubSeq(file[f], 1, n)
<1>4. /\ n \in Nat /\ synced[f] <= n /\ n <= Len(file[f])
      /\ front \in Seq(S) /\ Len(front) = n /\ \A j \in 1..n : front[j] = file[f][j]
  BY <1>1
<1>5. DOMAIN file[f] = 1..Len(file[f]) /\ DOMAIN front = 1..n
  BY <1>1, <1>4
<1> HIDE DEF front
<1>6. CASE c = front
  BY <1>1, <1>4, <1>5, <1>6 DEF S
<1>7. CASE c = Append(front, Torn)
  <2>1. /\ c \in Seq(S) /\ Len(c) = n + 1 /\ c[n + 1] = Torn
        /\ \A j \in 1..n : c[j] = front[j]
    BY <1>1, <1>4, <1>7, Longer
  <2>2. DOMAIN c = 1..n + 1
    BY <1>4, <2>1
  <2>3. ASSUME NEW i \in DOMAIN c
        PROVE  c[i] = Torn \/ \E k \in DOMAIN file[f] : c[i] = file[f][k]
    BY <1>4, <1>5, <2>1, <2>2
  <2> QED
    BY <1>1, <1>4, <2>1, <2>3 DEF S
<1> QED
  BY <1>2, <1>3, <1>6, <1>7 DEF front

LEMMA PowerCutInvariant == ASSUME IInv, PowerCut PROVE IInv'
<1>1. PICK c \in Remains("chain"), d \in Remains("creds") :
         file' = [f \in Files |-> IF f = "chain" THEN c ELSE d]
  BY DEF PowerCut
<1>2. \A f \in Files : file'[f] \in Remains(f)
  BY <1>1 DEF Files
<1>3. \A f \in Files :
         /\ file'[f] \in Seq(FrameOf[f] \cup {Torn})
         /\ synced[f] <= Len(file'[f])
         /\ \A j \in 1..synced[f] : file'[f][j] = file[f][j]
         /\ \A i \in DOMAIN file'[f] :
               file'[f][i] = Torn \/ \E k \in DOMAIN file[f] : file'[f][i] = file[f][k]
  BY <1>2, RemainsKept
<1>4. \A f \in Files : Len(file'[f]) \in Nat
  BY <1>3
<1>5. synced' \in [Files -> Nat] /\ \A f \in Files : synced'[f] = Len(file'[f])
  BY <1>4 DEF PowerCut
<1>6. \A f \in Files : synced[f] <= synced'[f] /\ synced'[f] <= Len(file'[f])
  <2> TAKE f \in Files
  <2>1. synced'[f] = Len(file'[f]) /\ Len(file'[f]) \in Nat /\ synced[f] <= Len(file'[f])
    BY <1>3, <1>4, <1>5
  <2> QED
    BY <2>1
<1>7. DOMAIN file' = Files /\ Stopped /\ UNCHANGED returned
  BY <1>1 DEF PowerCut
<1> QED
  BY <1>3, <1>5, <1>6, <1>7, StopInvariant

LEMMA NextInvariant == ASSUME IInv, [Next]_vars PROVE IInv'
<1>1. CASE UNCHANGED vars
  BY <1>1 DEF vars, IInv, TypeOK, WriteInOrder, MemoryLinked, SealHasCredential,
     ReturnedOnDisk, HasCredential
<1>2. CASE Close
  BY <1>2, FilesUnchanged DEF Close, Idle, IInv, TypeOK, WriteInOrder, MemoryLinked
<1> QED
  BY <1>1, <1>2, OpenInvariant, BeginAppendInvariant, BeginIssueInvariant,
     WriteHeaderInvariant, WriteBodyInvariant, WriteFailsInvariant, SyncInvariant,
     SyncFailsInvariant, ExitInvariant, PowerCutInvariant
     DEF Next

LEMMA InvariantHolds == Spec => []IInv
BY InitInvariant, NextInvariant, PTL DEF Spec

(* The store is always of the types that frame.go and store.go declare,    *)
(* and a frame is written by an open store only (Close takes the mutex).   *)
THEOREM TypeCorrect == Spec => []TypeOK
<1>1. IInv => TypeOK
  BY DEF IInv
<1> QED
  BY <1>1, InvariantHolds, PTL

(* Whatever I/O failed before, Timeline and VerifyCredential find the      *)
(* chain in memory without a gap.                                          *)
THEOREM ChainStaysLinked == Spec => []MemoryLinked
<1>1. IInv => MemoryLinked
  BY DEF IInv
<1> QED
  BY <1>1, InvariantHolds, PTL

(* Issue's order of its two frames is enough for a chain that seals only   *)
(* durable credentials, wherever a kill or a power cut falls.              *)
THEOREM SealsAreBacked == Spec => []SealHasCredential
<1>1. IInv => SealHasCredential
  BY DEF IInv
<1> QED
  BY <1>1, InvariantHolds, PTL

(* What Append and Issue returned nil for is on disk for good.             *)
THEOREM ReturnedIsDurable == Spec => []ReturnedOnDisk
<1>1. IInv => ReturnedOnDisk
  BY DEF IInv
<1> QED
  BY <1>1, InvariantHolds, PTL

-----------------------------------------------------------------------------
(* What a later start finds, as long as no fsync fails and each payload    *)
(* keeps its digest.  Writes may fail.                                     *)

SyncsHold == "sync" \notin Faults /\ \A a \in Actions : KeepsDigest(a)

(* The frame e is the next one of file f, of which s has been written. *)
Continues(f, s, e) ==
    /\ e.seq = Len(s) + 1
    /\ f = "chain" => e.previous = LastDigest(s) /\ KeepsDigest(e.action)

(* Each frame of s before its first torn one continues those before it. *)
Orderly(f, s) ==
    \A i \in DOMAIN s : (\A j \in 1..i : s[j] # Torn) => Continues(f, SubSeq(s, 1, i - 1), s[i])

(* File f without the frame that is being written. *)
Finished(f) ==
    IF write # None /\ write.file = f /\ write.stage \in {"body", "sync"}
       THEN Front(file[f]) ELSE file[f]

(* Up to its first torn frame a file is what the store meant to write; a   *)
(* running store knows it, unless it has torn frames.                      *)
Readable ==
    /\ \A f \in Files : Orderly(f, file[f])
    /\ phase \in {"open", "closed"} =>
          \A f \in Files : NoTear(Finished(f)) => memory[f] = Finished(f)
    /\ write # None =>
          /\ Continues(write.file, memory[write.file], write.frame)
          /\ write.stage = "body" => file[write.file][Len(file[write.file])] = Torn
    /\ phase = "refused" => \E f \in Files : ~ NoTear(file[f])

(* No torn frame but the one that is being written. *)
Untorn == phase \in {"open", "closed"} => \A f \in Files : NoTear(Finished(f))

-----------------------------------------------------------------------------
(* Facts about Orderly. *)

(* Two sequences that begin alike have the same prefixes. *)
LEMMA SamePrefixes ==
    ASSUME NEW S, NEW s \in Seq(S), NEW t \in Seq(S), NEW n \in Nat,
           n <= Len(s), n <= Len(t), \A j \in 1..n : t[j] = s[j]
    PROVE  \A m \in 0..n : SubSeq(t, 1, m) = SubSeq(s, 1, m)
<1> SUFFICES ASSUME NEW m \in 0..n PROVE SubSeq(t, 1, m) = SubSeq(s, 1, m)
  OBVIOUS
<1>1. SubSeq(t, 1, m) = [j \in 1..m |-> t[j]] /\ SubSeq(s, 1, m) = [j \in 1..m |-> s[j]]
  OBVIOUS
<1>2. \A j \in 1..m : t[j] = s[j]
  OBVIOUS
<1> QED
  BY <1>1, <1>2

(* What is left of an orderly file, torn at its end or not, is orderly. *)
LEMMA OrderlyBeginning ==
    ASSUME NEW f, NEW S, NEW s \in Seq(S), NEW t \in Seq(S), NEW n \in Nat,
           n <= Len(s), n <= Len(t), \A j \in 1..n : t[j] = s[j],
           \A i \in DOMAIN t : i > n => t[i] = Torn,
           Orderly(f, s)
    PROVE  Orderly(f, t)
<1> SUFFICES ASSUME NEW i \in DOMAIN t, \A j \in 1..i : t[j] # Torn
             PROVE  Continues(f, SubSeq(t, 1, i - 1), t[i])
  BY DEF Orderly
<1>1. /\ i \in Nat /\ i >= 1 /\ Len(t) \in Nat /\ Len(s) \in Nat
      /\ DOMAIN s = 1..Len(s)
  OBVIOUS
<1>2. i <= n
  BY <1>1
<1>3. i \in DOMAIN s /\ s[i] = t[i] /\ \A j \in 1..i : s[j] = t[j]
  BY <1>1, <1>2
<1>4. SubSeq(t, 1, i - 1) = SubSeq(s, 1, i - 1)
  <2>1. i - 1 \in 0..n
    BY <1>1, <1>2
  <2> QED
    BY <2>1, SamePrefixes
<1> QED
  BY <1>3, <1>4 DEF Orderly

LEMMA OrderlyNext ==
    ASSUME NEW f, NEW S, NEW s \in Seq(S), NEW e \in S,
           Orderly(f, s), NoTear(s) => Continues(f, s, e)
    PROVE  Orderly(f, Append(s, e))
<1> DEFINE t == Append(s, e)
           n == Len(s)
<1>1. /\ n \in Nat /\ t \in Seq(S) /\ Len(t) = n + 1 /\ t[n + 1] = e
      /\ \A j \in 1..n : t[j] = s[j]
  BY Longer
<1>2. DOMAIN s = 1..n /\ DOMAIN t = 1..n + 1
  BY <1>1
<1> HIDE DEF t
<1>3. \A m \in 0..n : SubSeq(t, 1, m) = SubSeq(s, 1, m)
  <2>1. n <= Len(s) /\ n <= Len(t)
    BY <1>1
  <2> HIDE DEF n
  <2> QED
    BY <1>1, <2>1, SamePrefixes
<1>4. SubSeq(s, 1, n) = s
  OBVIOUS
<1> HIDE DEF n
<1> SUFFICES ASSUME NEW i \in DOMAIN t, \A j \in 1..i : t[j] # Torn
             PROVE  Continues(f, SubSeq(t, 1, i - 1), t[i])
  BY DEF Orderly, t
<1>5. CASE i = n + 1
  <2>1. NoTear(s)
    BY <1>1, <1>2, <1>5 DEF NoTear
  <2>2. i - 1 = n /\ n \in 0..n
    BY <1>1, <1>5
  <2>3. SubSeq(t, 1, i - 1) = s
    BY <1>3, <1>4, <2>2
  <2> QED
    BY <1>1, <1>5, <2>1, <2>3
<1>6. CASE i # n + 1
  <2>1. i \in 1..n /\ i - 1 \in 0..n
    BY <1>1, <1>2, <1>6
  <2>2. \A j \in 1..i : s[j] # Torn
    BY <1>1, <2>1
  <2>3. Continues(f, SubSeq(s, 1, i - 1), s[i])
    BY <1>2, <2>1, <2>2 DEF Orderly
  <2> QED
    BY <1>1, <1>3, <2>1, <2>3
<1> QED
  BY <1>5, <1>6

(* An orderly file without a tear is one that a start accepts. *)
LEMMA OrderlyLoads ==
    ASSUME NEW S, NEW s \in Seq(S), NoTear(s)
    PROVE  /\ Orderly("chain", s) => ChainLoads(s)
           /\ Orderly("creds", s) => CredentialsLoad(s)
<1>1. ASSUME NEW f, Orderly(f, s), NEW i \in DOMAIN s
      PROVE  Continues(f, SubSeq(s, 1, i - 1), s[i]) /\ s[i].seq = i
  <2>1. i \in 1..Len(s) /\ Len(s) \in Nat /\ DOMAIN s = 1..Len(s)
    OBVIOUS
  <2>2. \A j \in 1..i : s[j] # Torn
    BY <2>1 DEF NoTear
  <2>3. Continues(f, SubSeq(s, 1, i - 1), s[i])
    BY <1>1, <2>2 DEF Orderly
  <2>4. Len(SubSeq(s, 1, i - 1)) = i - 1
    BY <2>1
  <2> QED
    BY <2>1, <2>3, <2>4 DEF Continues
<1> QED
  BY <1>1 DEF ChainLoads, CredentialsLoad, Linked, Continues

-----------------------------------------------------------------------------
(* Each action keeps what a start finds. *)

LEMMA TypedFiles ==
    ASSUME IInv
    PROVE  \A f \in Files :
              /\ file[f] \in Seq(FrameOf[f] \cup {Torn}) /\ memory[f] \in Seq(FrameOf[f])
              /\ Len(file[f]) \in Nat /\ DOMAIN file[f] = 1..Len(file[f])
<1> TAKE f \in Files
<1>1. file[f] \in Seq(FrameOf[f] \cup {Torn}) /\ memory[f] \in Seq(FrameOf[f])
  BY DEF IInv, TypeOK
<1> QED
  BY <1>1

LEMMA WriteTypes ==
    ASSUME IInv, write # None
    PROVE  /\ write.file \in Files /\ phase = "open"
           /\ write.frame \in FrameOf[write.file] /\ write.frame # Torn
           /\ write.stage \in {"header", "body", "sync"}
BY FrameTypes DEF IInv, TypeOK, Write

(* A sequence and its last element. *)
LEMMA FrontAndLast ==
    ASSUME NEW S, NEW s \in Seq(S), Len(s) > 0
    PROVE  /\ Front(s) \in Seq(S) /\ Len(Front(s)) = Len(s) - 1
           /\ \A j \in 1..Len(s) - 1 : Front(s)[j] = s[j]
           /\ s = Append(Front(s), s[Len(s)])
           /\ NoTear(s) => NoTear(Front(s)) /\ s[Len(s)] # Torn
<1> DEFINE n == Len(s) - 1
           front == SubSeq(s, 1, n)
<1>1. n \in Nat /\ Len(s) = n + 1 /\ DOMAIN s = 1..n + 1
  OBVIOUS
<1>2. front \in Seq(S) /\ Len(front) = n /\ \A j \in 1..n : front[j] = s[j]
  BY <1>1
<1>3. DOMAIN front = 1..n /\ s[n + 1] \in S
  BY <1>1, <1>2
<1> HIDE DEF front, n
<1> DEFINE t == Append(front, s[n + 1])
<1>4. /\ t \in Seq(S) /\ Len(t) = n + 1 /\ t[n + 1] = s[n + 1]
      /\ \A j \in 1..n : t[j] = front[j]
  BY <1>1, <1>2, <1>3, Longer
<1> HIDE DEF t
<1>5. s = t
  <2>1. \A j \in 1..n + 1 : j \in 1..n \/ j = n + 1
    BY <1>1
  <2>2. \A j \in 1..n + 1 : s[j] = t[j]
    BY <1>2, <1>4, <2>1
  <2> QED
    BY <1>1, <1>4, <2>2
<1>6. NoTear(s) => NoTear(front) /\ s[n + 1] # Torn
  BY <1>1, <1>2, <1>3 DEF NoTear
<1>7. Front(s) = front
  BY DEF Front, front, n
<1> QED
  BY <1>1, <1>2, <1>5, <1>6, <1>7 DEF t, n

LEMMA InitReadable == ASSUME Init PROVE Readable
BY DEF Init, Readable, Orderly, EmptyMemory, Files

LEMMA OpenReadable == ASSUME IInv, Readable, Open PROVE Readable'
<1>1. write = None /\ write' = None /\ file' = file
  BY DEF IInv, TypeOK, Open
<1>2. \A f \in Files : Finished(f)' = file[f] /\ Orderly(f, file[f])
  BY <1>1 DEF Finished, Readable
<1>3. CASE ChainLoads(file["chain"]) /\ CredentialsLoad(file["creds"])
  <2>1. memory' = file /\ phase' = "open"
    BY <1>3 DEF Open
  <2> QED
    BY <1>1, <1>2, <2>1 DEF Readable
<1>4. CASE ~ (ChainLoads(file["chain"]) /\ CredentialsLoad(file["creds"]))
  <2>1. phase' = "refused"
    BY <1>4 DEF Open
  <2>2. "chain" \in Files /\ "creds" \in Files
    BY DEF Files
  <2>3. ~ NoTear(file["chain"]) \/ ~ NoTear(file["creds"])
    BY <1>2, <1>4, <2>2, OrderlyLoads, TypedFiles
  <2> QED
    BY <1>1, <1>2, <2>1, <2>2, <2>3 DEF Readable
<1> QED
  BY <1>3, <1>4

(* The first look at what is to be written. *)
LEMMA BeginReadable ==
    ASSUME IInv, Readable, Idle, UNCHANGED <<file, phase, memory>>,
           write'.stage = "header",
           Continues(write'.file, memory[write'.file], write'.frame)
    PROVE  Readable'
<1>1. \A f \in Files : Finished(f)' = file[f] /\ Finished(f) = file[f]
  BY DEF Finished, Idle
<1>2. memory' = memory /\ file' = file /\ phase' = phase
  OBVIOUS
<1> QED
  BY <1>1, <1>2 DEF Readable

LEMMA NextRecordContinues ==
    ASSUME SyncsHold, NEW p, NEW a \in Actions \cup {Sealed}, NEW n
    PROVE  Continues("chain", memory["chain"], NextRecord(p, a, n))
<1>1. KeepsDigest(Sealed)
  BY DEF KeepsDigest, StructFields, Sealed
<1> QED
  BY <1>1 DEF Continues, NextRecord, SyncsHold

LEMMA BeginAppendReadable ==
    ASSUME SyncsHold, IInv, Readable, NEW p \in Plans, NEW a \in Actions, BeginAppend(p, a)
    PROVE  Readable'
<1>1. write'.file = "chain" /\ write'.stage = "header" /\ write'.frame = NextRecord(p, a, 0)
  BY DEF BeginAppend, Start
<1> QED
  BY <1>1, BeginReadable, NextRecordContinues DEF BeginAppend

LEMMA BeginIssueReadable ==
    ASSUME IInv, Readable, NEW p \in Plans, BeginIssue(p)
    PROVE  Readable'
<1>1. /\ write'.file = "creds" /\ write'.stage = "header"
      /\ write'.frame.seq = Len(memory["creds"]) + 1
  BY DEF BeginIssue, Start
<1> QED
  BY <1>1, BeginReadable DEF BeginIssue, Continues

(* A file of which no frame is lost, but which may have a torn one more. *)
LEMMA TornKeepsOrder ==
    ASSUME IInv, Readable, NEW f \in Files, file'[f] = file[f] \/ file'[f] = Append(file[f], Torn)
    PROVE  Orderly(f, file'[f])
<1> DEFINE S == FrameOf[f] \cup {Torn}
<1>1. file[f] \in Seq(S) /\ Torn \in S /\ Orderly(f, file[f])
  BY TypedFiles DEF Readable
<1> HIDE DEF S
<1>2. CASE file'[f] = file[f]
  BY <1>1, <1>2
<1>3. CASE file'[f] = Append(file[f], Torn)
  <2> DEFINE t == Append(file[f], Torn)
             n == Len(file[f])
  <2>1. /\ n \in Nat /\ t \in Seq(S) /\ Len(t) = n + 1 /\ t[n + 1] = Torn
        /\ \A j \in 1..n : t[j] = file[f][j]
    BY <1>1, Longer
  <2>2. n <= Len(t) /\ n <= Len(file[f]) /\ \A i \in DOMAIN t : i > n => t[i] = Torn
    BY <2>1
  <2> HIDE DEF t, n
  <2>3. Orderly(f, t)
    BY <1>1, <2>1, <2>2, OrderlyBeginning
  <2> QED
    BY <1>3, <2>3 DEF t
<1> QED
  BY <1>2, <1>3

(* Neither of a frame's two writes changes what is finished. *)
LEMMA WriteHeaderReadable ==
    ASSUME IInv, Readable, WriteHeader
    PROVE  Readable' /\ phase' = phase /\ \A f \in Files : Finished(f)' = Finished(f)
<1> DEFINE g == write.file
           S == FrameOf[g] \cup {Torn}
<1>1. write # None /\ g \in Files /\ phase = "open" /\ write.stage = "header" /\ DOMAIN file = Files
  BY WriteTypes DEF WriteHeader, At, IInv, TypeOK
<1>2. /\ file'[g] = Append(file[g], Torn) /\ \A f \in Files \ {g} : file'[f] = file[f]
      /\ write' = [file |-> g, stage |-> "body", frame |-> write.frame]
      /\ UNCHANGED <<phase, memory>>
  BY <1>1 DEF WriteHeader, IInv, TypeOK, Write
<1>3. \A f \in Files : Orderly(f, file'[f])
  BY <1>2, TornKeepsOrder
<1>4. Front(file'[g]) = file[g] /\ file'[g][Len(file'[g])] = Torn
  <2> HIDE DEF S
  <2>1. file[g] \in Seq(S) /\ Torn \in S
    BY <1>1, TypedFiles DEF S
  <2>2. /\ Len(file[g]) \in Nat /\ file'[g] \in Seq(S) /\ Len(file'[g]) = Len(file[g]) + 1
        /\ file'[g][Len(file[g]) + 1] = Torn
        /\ \A j \in 1..Len(file[g]) : file'[g][j] = file[g][j]
    BY <1>2, <2>1, Longer
  <2>3. Len(file'[g]) > 0 /\ Len(file'[g]) - 1 = Len(file[g])
    BY <2>2
  <2>4. /\ Front(file'[g]) \in Seq(S) /\ Len(Front(file'[g])) = Len(file[g])
        /\ \A j \in 1..Len(file[g]) : Front(file'[g])[j] = file'[g][j]
    BY <2>2, <2>3, FrontAndLast
  <2> HIDE DEF g
  <2> QED
    BY <2>1, <2>2, <2>4
<1>5. write' # None
  BY <1>1, <1>2, ConstantsAssumption DEF IInv, TypeOK, Write
<1>6. \A f \in Files : Finished(f) = file[f] /\ Finished(f)' = file[f]
  BY <1>1, <1>2, <1>4, <1>5 DEF Finished
<1>7. \A f \in Files : NoTear(Finished(f)') => memory'[f] = Finished(f)'
  BY <1>1, <1>2, <1>6 DEF Readable
<1>8. Continues(write'.file, memory'[write'.file], write'.frame)
  BY <1>1, <1>2 DEF Readable
<1> QED
  BY <1>1, <1>2, <1>3, <1>4, <1>6, <1>7, <1>8 DEF Readable

LEMMA WriteBodyReadable ==
    ASSUME IInv, Readable, WriteBody
    PROVE  Readable' /\ phase' = phase /\ \A f \in Files : Finished(f)' = Finished(f)
<1> DEFINE g == write.file
           S == FrameOf[g] \cup {Torn}
           front == Front(file[g])
<1>1. /\ write # None /\ g \in Files /\ phase = "open" /\ write.stage = "body"
      /\ DOMAIN file = Files /\ write.frame \in FrameOf[g]
  BY WriteTypes DEF WriteBody, At, IInv, TypeOK
<1>2. /\ file'[g] = Append(front, write.frame) /\ \A f \in Files \ {g} : file'[f] = file[f]
      /\ write' = [file |-> g, stage |-> "sync", frame |-> write.frame]
      /\ UNCHANGED <<phase, memory>>
  BY <1>1 DEF WriteBody, IInv, TypeOK, Write
<1>3. /\ file[g] \in Seq(S) /\ Len(file[g]) \in Nat /\ Len(file[g]) > 0
      /\ write.frame \in S /\ Torn \in S
  <2>1. synced[g] \in Nat /\ synced[g] < Len(file[g])
    BY <1>1 DEF IInv, TypeOK, WriteInOrder
  <2> QED
    BY <1>1, <2>1, TypedFiles
<1> HIDE DEF S
<1>4. /\ front \in Seq(S) /\ Len(front) = Len(file[g]) - 1
      /\ \A j \in 1..Len(file[g]) - 1 : front[j] = file[g][j]
  BY <1>3, FrontAndLast
<1>5. Finished(g) = front /\ (NoTear(front) => memory[g] = front)
  BY <1>1 DEF Finished, Readable
<1>6. Orderly(g, front)
  <2>1. /\ Len(front) \in Nat /\ Len(front) <= Len(file[g]) /\ Len(front) <= Len(front)
        /\ \A i \in DOMAIN front : i > Len(front) => front[i] = Torn
    BY <1>3, <1>4
  <2>2. Orderly(g, file[g])
    BY <1>1 DEF Readable
  <2> HIDE DEF front, g
  <2> QED
    BY <1>3, <1>4, <2>1, <2>2, OrderlyBeginning
<1>7. NoTear(front) => Continues(g, front, write.frame)
  BY <1>1, <1>5 DEF Readable
<1>8. Orderly(g, file'[g])
  <2> HIDE DEF front, g
  <2> QED
    BY <1>2, <1>3, <1>4, <1>6, <1>7, OrderlyNext
<1>9. \A f \in Files : Orderly(f, file'[f])
  BY <1>2, <1>8 DEF Readable
<1>10. Front(file'[g]) = front
  <2> DEFINE t == Append(front, write.frame)
  <2> HIDE DEF front, g
  <2>1. /\ Len(front) \in Nat /\ t \in Seq(S) /\ Len(t) = Len(front) + 1
        /\ \A j \in 1..Len(front) : t[j] = front[j]
    BY <1>3, <1>4, Longer
  <2> HIDE DEF t
  <2>2. Len(t) > 0 /\ Len(t) - 1 = Len(front)
    BY <2>1
  <2>3. /\ Front(t) \in Seq(S) /\ Len(Front(t)) = Len(front)
        /\ \A j \in 1..Len(front) : Front(t)[j] = t[j]
    BY <2>1, <2>2, FrontAndLast
  <2>4. Front(t) = front
    BY <1>4, <2>1, <2>3
  <2> QED
    BY <1>2, <2>4 DEF t
<1>11. write' # None
  BY <1>1, <1>2, ConstantsAssumption DEF IInv, TypeOK, Write
<1>12. \A f \in Files : Finished(f)' = Finished(f)
  BY <1>1, <1>2, <1>10, <1>11 DEF Finished
<1>13. \A f \in Files : NoTear(Finished(f)') => memory'[f] = Finished(f)'
  BY <1>1, <1>2, <1>12 DEF Readable
<1>14. Continues(write'.file, memory'[write'.file], write'.frame)
  BY <1>1, <1>2 DEF Readable
<1> QED
  BY <1>1, <1>2, <1>9, <1>12, <1>13, <1>14 DEF Readable

LEMMA WriteFailsReadable == ASSUME IInv, Readable, WriteFails PROVE Readable'
<1> DEFINE g == write.file
<1>1. /\ write # None /\ g \in Files /\ phase = "open" /\ DOMAIN file = Files
      /\ write' = None /\ UNCHANGED <<phase, memory>>
  BY WriteTypes DEF WriteFails, At, IInv, TypeOK
<1>2. \A f \in Files : file'[f] = file[f] \/ (f = g /\ file'[f] = Append(file[f], Torn))
  BY <1>1 DEF WriteFails
<1>3. \A f \in Files : Orderly(f, file'[f])
  BY <1>2, TornKeepsOrder
<1>4. ASSUME NEW f \in Files, NoTear(file'[f]) PROVE Finished(f) = file'[f]
  <2> DEFINE S == FrameOf[f] \cup {Torn}
             n == Len(file[f])
  <2>1. file[f] \in Seq(S) /\ n \in Nat /\ Torn \in S
    BY TypedFiles
  <2> HIDE DEF S
  <2>2. file'[f] = file[f]
    <3>1. ASSUME file'[f] = Append(file[f], Torn) PROVE FALSE
      <4> DEFINE t == Append(file[f], Torn)
      <4>1. t \in Seq(S) /\ Len(t) = n + 1 /\ t[n + 1] = Torn
        BY <2>1, Longer
      <4>2. n + 1 \in DOMAIN t
        BY <2>1, <4>1
      <4> QED
        BY <1>4, <3>1, <4>1, <4>2 DEF NoTear
    <3> QED
      BY <1>2, <3>1
  <2>3. CASE f = g /\ write.stage = "body"
    <3>1. file[f][n] = Torn /\ synced[f] \in Nat /\ synced[f] < n
      BY <1>1, <2>3 DEF Readable, IInv, TypeOK, WriteInOrder
    <3>2. n \in DOMAIN file[f]
      BY <2>1, <3>1
    <3> QED
      BY <1>4, <2>2, <3>1, <3>2 DEF NoTear
  <2>4. CASE ~ (f = g /\ write.stage = "body")
    <3>1. write.stage \in {"header", "body"}
      BY DEF WriteFails, At
    <3> QED
      BY <2>2, <2>4, <3>1 DEF Finished
  <2> QED
    BY <2>3, <2>4
<1>5. \A f \in Files : Finished(f)' = file'[f]
  BY <1>1 DEF Finished
<1> QED
  BY <1>1, <1>3, <1>4, <1>5 DEF Readable

LEMMA SyncReadable == ASSUME SyncsHold, IInv, Readable, Sync PROVE Readable'
<1> DEFINE g == write.file
           S == FrameOf[g] \cup {Torn}
<1>1. /\ write # None /\ g \in Files /\ phase = "open" /\ write.stage = "sync"
      /\ DOMAIN memory = Files
  BY WriteTypes DEF Sync, At, IInv, TypeOK
<1>2. /\ UNCHANGED <<file, phase>> /\ memory' = [memory EXCEPT ![g] = Append(@, write.frame)]
      /\ write' = AfterSync(g, write.frame)
  BY DEF Sync, Remembered
<1>3. \A f \in Files : Finished(f)' = file[f]
  BY <1>2, ConstantsAssumption DEF Finished, AfterSync, Start
<1>4. ASSUME NoTear(file[g]) PROVE memory'[g] = file[g]
  <2>1. file[g] \in Seq(S) /\ Len(file[g]) > 0 /\ file[g][Len(file[g])] = write.frame
    BY <1>1, TypedFiles DEF IInv, WriteInOrder
  <2> HIDE DEF S
  <2>2. file[g] = Append(Front(file[g]), write.frame) /\ NoTear(Front(file[g]))
    BY <1>4, <2>1, FrontAndLast
  <2>3. Finished(g) = Front(file[g])
    BY <1>1 DEF Finished
  <2>4. memory[g] = Front(file[g])
    BY <1>1, <2>2, <2>3 DEF Readable
  <2> QED
    BY <1>1, <1>2, <2>2, <2>4
<1>5. ASSUME NEW f \in Files \ {g}, NoTear(file[f]) PROVE memory'[f] = file[f]
  <2>1. Finished(f) = file[f]
    BY DEF Finished
  <2> QED
    BY <1>1, <1>2, <1>5, <2>1 DEF Readable
<1>6. ASSUME write' # None
      PROVE  /\ write'.stage = "header"
             /\ Continues(write'.file, memory'[write'.file], write'.frame)
  <2>1. g = "creds" /\ write' = Start("chain", NextRecord(write.frame.plan, Sealed, write.frame.seq))
    BY <1>2, <1>6 DEF AfterSync
  <2>2. memory'["chain"] = memory["chain"]
    BY <1>1, <1>2, <2>1 DEF Files
  <2>3. Continues("chain", memory["chain"], NextRecord(write.frame.plan, Sealed, write.frame.seq))
    BY NextRecordContinues
  <2> QED
    BY <2>1, <2>2, <2>3 DEF Start
<1> QED
  BY <1>1, <1>2, <1>3, <1>4, <1>5, <1>6 DEF Readable

LEMMA CloseReadable == ASSUME Readable, Close PROVE Readable'
<1>1. \A f \in Files : Finished(f)' = Finished(f)
  BY DEF Close, Finished
<1> QED
  BY <1>1 DEF Close, Idle, Readable

LEMMA ExitReadable == ASSUME IInv, Readable, Exit PROVE Readable'
<1>1. DOMAIN file = Files /\ phase' = "down" /\ write' = None
  BY DEF IInv, TypeOK, Exit, Stopped
<1>2. \A f \in Files : file'[f] = file[f] \/ file'[f] = Append(file[f], Torn)
  BY <1>1 DEF Exit
<1>3. \A f \in Files : Orderly(f, file'[f])
  BY <1>2, TornKeepsOrder
<1> QED
  BY <1>1, <1>3 DEF Readable

LEMMA RemainsOrderly ==
    ASSUME IInv, Readable, NEW f \in Files, NEW c \in Remains(f)
    PROVE  Orderly(f, c)
<1> DEFINE S == FrameOf[f] \cup {Torn}
<1>1. /\ file[f] \in Seq(S) /\ Torn \in S /\ synced[f] \in Nat
      /\ Len(file[f]) \in Nat /\ Orderly(f, file[f])
  BY TypedFiles DEF Readable, IInv, TypeOK
<1> HIDE DEF S
<1>2. PICK n \in synced[f]..Len(file[f]) :
         c = file[f] \/ c = SubSeq(file[f], 1, n) \/ c = Append(SubSeq(file[f], 1, n), Torn)
  BY DEF Remains, Tears
<1> DEFINE front == SubSeq(file[f], 1, n)
<1>3. /\ n \in Nat /\ n <= Len(file[f]) /\ n <= n
      /\ front \in Seq(S) /\ Len(front) = n /\ DOMAIN front = 1..n
      /\ \A j \in 1..n : front[j] = file[f][j]
  BY <1>1
<1> HIDE DEF front
<1>4. Orderly(f, front)
  <2>1. \A i \in DOMAIN front : i > n => front[i] = Torn
    BY <1>3
  <2> QED
    BY <1>1, <1>3, <2>1, OrderlyBeginning
<1>5. Orderly(f, Append(front, Torn))
  <2> DEFINE t == Append(front, Torn)
  <2>1. /\ t \in Seq(S) /\ Len(t) = n + 1 /\ t[n + 1] = Torn
        /\ \A j \in 1..n : t[j] = front[j]
    BY <1>1, <1>3, Longer
  <2>2. n <= Len(t) /\ n <= Len(front) /\ \A i \in DOMAIN t : i > n => t[i] = Torn
    BY <1>3, <2>1
  <2> HIDE DEF t
  <2>3. Orderly(f, t)
    BY <1>3, <1>4, <2>1, <2>2, OrderlyBeginning
  <2> QED
    BY <2>3 DEF t
<1> QED
  BY <1>1, <1>2, <1>4, <1>5 DEF front

LEMMA PowerCutReadable == ASSUME IInv, Readable, PowerCut PROVE Readable'
<1>1. PICK c \in Remains("chain"), d \in Remains("creds") :
         file' = [f \in Files |-> IF f = "chain" THEN c ELSE d]
  BY DEF PowerCut
<1>2. \A f \in Files : file'[f] \in Remains(f)
  BY <1>1 DEF Files
<1>3. \A f \in Files : Orderly(f, file'[f])
  BY <1>2, RemainsOrderly
<1>4. phase' = "down" /\ write' = None
  BY DEF PowerCut, Stopped
<1> QED
  BY <1>3, <1>4 DEF Readable

LEMMA NextReadable == ASSUME SyncsHold, IInv, Readable, [Next]_vars PROVE Readable'
<1>1. CASE UNCHANGED vars
  <2>1. \A f \in Files : Finished(f)' = Finished(f)
    BY <1>1 DEF vars, Finished
  <2> QED
    BY <1>1, <2>1 DEF vars, Readable
<1>2. ~ SyncFails
  BY DEF SyncsHold, SyncFails
<1> QED
  BY <1>1, <1>2, OpenReadable, BeginAppendReadable, BeginIssueReadable, WriteHeaderReadable,
     WriteBodyReadable, WriteFailsReadable, SyncReadable, CloseReadable, ExitReadable,
     PowerCutReadable DEF Next

LEMMA ReadableHolds == ASSUME SyncsHold PROVE Spec => [](IInv /\ Readable)
<1>1. Init => IInv /\ Readable
  BY InitInvariant, InitReadable
<1>2. IInv /\ Readable /\ [Next]_vars => (IInv /\ Readable)'
  BY NextInvariant, NextReadable
<1> QED
  BY <1>1, <1>2, PTL DEF Spec

(* Unless an fsync fails, a start refuses files only for a frame that was  *)
(* not written to its end, wherever a kill, a power cut or a failing write *)
(* came: a failed write does not make those after it unreadable.           *)
THEOREM StartsAgain == ASSUME SyncsHold PROVE Spec => []RefusesOnlyDamaged
<1>1. IInv /\ Readable => RefusesOnlyDamaged
  BY DEF Readable, RefusesOnlyDamaged, Files
<1> QED
  BY <1>1, ReadableHolds, PTL

LEMMA NextUntorn ==
    ASSUME SyncsHold, "write" \notin Faults, IInv, Readable, Untorn, [Next]_vars
    PROVE  Untorn'
<1> SUFFICES ASSUME phase' \in {"open", "closed"}, NEW f \in Files PROVE NoTear(Finished(f)')
  BY DEF Untorn
<1>1. CASE Open
  <2>1. write' = None /\ file' = file
    BY <1>1 DEF IInv, TypeOK, Open
  <2>2. ChainLoads(file["chain"]) /\ CredentialsLoad(file["creds"])
    BY <1>1 DEF Open
  <2> QED
    BY <2>1, <2>2 DEF ChainLoads, CredentialsLoad, Finished, Files
<1>2. CASE Sync
  <2>1. /\ file' = file /\ write' = AfterSync(write.file, write.frame)
        /\ write # None /\ write.stage = "sync" /\ phase = "open"
    BY <1>2, WriteTypes DEF Sync, At
  <2>2. Finished(f)' = file[f]
    BY <2>1 DEF Finished, AfterSync, Start
  <2>3. NoTear(Finished(f))
    BY <2>1 DEF Untorn
  <2>4. CASE f = write.file
    <3> DEFINE S == FrameOf[f] \cup {Torn}
               n == Len(file[f])
    <3>1. /\ file[f] \in Seq(S) /\ n \in Nat /\ n > 0 /\ file[f][n] # Torn
          /\ Finished(f) = Front(file[f]) /\ DOMAIN file[f] = 1..n
      BY <2>1, <2>4, TypedFiles, WriteTypes DEF IInv, WriteInOrder, Finished
    <3> HIDE DEF S
    <3>2. \A j \in 1..n - 1 : Front(file[f])[j] = file[f][j] /\ Len(Front(file[f])) = n - 1
      BY <3>1, FrontAndLast
    <3>3. Front(file[f]) \in Seq(S)
      BY <3>1, FrontAndLast
    <3>4. DOMAIN Front(file[f]) = 1..Len(Front(file[f])) /\ Len(Front(file[f])) = n - 1
      BY <3>1, <3>3, FrontAndLast
    <3>5. \A j \in 1..n : j \in 1..n - 1 \/ j = n
      BY <3>1
    <3> HIDE DEF n
    <3>6. NoTear(file[f])
      BY <2>3, <3>1, <3>2, <3>4, <3>5 DEF NoTear
    <3> QED
      BY <2>2, <3>6
  <2>5. CASE f # write.file
    BY <2>2, <2>3, <2>5 DEF Finished
  <2> QED
    BY <2>4, <2>5
<1>3. CASE WriteHeader \/ WriteBody
  BY <1>3, WriteHeaderReadable, WriteBodyReadable DEF Untorn
<1>4. CASE Close
  BY <1>4 DEF Close, Idle, Finished, Untorn
<1>5. CASE (\E p \in Plans, a \in Actions : BeginAppend(p, a)) \/ (\E p \in Plans : BeginIssue(p))
  BY <1>5 DEF BeginAppend, BeginIssue, Start, Idle, Finished, Untorn
<1>6. CASE UNCHANGED vars
  BY <1>6 DEF vars, Finished, Untorn
<1>7. ~ WriteFails /\ ~ SyncFails /\ ~ Exit /\ ~ PowerCut
  BY DEF SyncsHold, WriteFails, SyncFails, Exit, PowerCut, Stopped
<1> QED
  BY <1>1, <1>2, <1>3, <1>4, <1>5, <1>6, <1>7 DEF Next

(* Files and memory are known by the names of the files. *)
FilesByName == file = [f \in Files |-> file[f]] /\ memory = [f \in Files |-> memory[f]]

LEMMA NextByName == ASSUME IInv, FilesByName, [Next]_vars PROVE FilesByName'
<1>1. DOMAIN file = Files /\ DOMAIN memory = Files
  BY DEF IInv, TypeOK
<1>2. CASE Open
  BY <1>2 DEF Open, FilesByName
<1>3. CASE WriteHeader \/ WriteBody \/ WriteFails
  BY <1>1, <1>3 DEF WriteHeader, WriteBody, WriteFails, FilesByName
<1>4. CASE Sync
  BY <1>1, <1>4 DEF Sync, Remembered, FilesByName
<1>5. CASE Exit
  <2>1. file' = [f \in Files |-> file'[f]]
    BY <1>1, <1>5 DEF Exit, FilesByName
  <2>2. memory' = [f \in Files |-> memory'[f]]
    BY <1>5 DEF Exit, Stopped, EmptyMemory
  <2> QED
    BY <2>1, <2>2 DEF FilesByName
<1>6. CASE PowerCut
  BY <1>6 DEF PowerCut, Stopped, EmptyMemory, FilesByName
<1>7. CASE \/ \E p \in Plans, a \in Actions : BeginAppend(p, a)
           \/ \E p \in Plans : BeginIssue(p)
           \/ SyncFails \/ Close \/ UNCHANGED vars
  BY <1>7 DEF BeginAppend, BeginIssue, SyncFails, Close, vars, FilesByName
<1> QED
  BY <1>2, <1>3, <1>4, <1>5, <1>6, <1>7 DEF Next

(* If writes succeed, too, what Append and Issue leave in memory is what   *)
(* the next start reads from the files.                                    *)
THEOREM RestartReadsSame ==
    ASSUME SyncsHold, "write" \notin Faults
    PROVE  Spec => []MemoryIsFile
<1>1. Init => Untorn /\ FilesByName
  BY DEF Init, Untorn, FilesByName, EmptyMemory
<1>2. IInv /\ Readable /\ Untorn /\ FilesByName /\ [Next]_vars => (Untorn /\ FilesByName)'
  BY NextUntorn, NextByName
<1>3. IInv /\ Readable /\ Untorn /\ FilesByName => MemoryIsFile
  <2> SUFFICES ASSUME IInv, Readable, Untorn, FilesByName, Idle \/ phase = "closed" PROVE memory = file
    BY DEF MemoryIsFile
  <2>1. write = None /\ phase \in {"open", "closed"}
    BY DEF Idle, IInv, TypeOK
  <2>2. \A f \in Files : memory[f] = file[f]
    BY <2>1 DEF Finished, Readable, Untorn
  <2> QED
    BY <2>2 DEF FilesByName
<1> QED
  BY <1>1, <1>2, <1>3, ReadableHolds, PTL DEF Spec

-----------------------------------------------------------------------------
(* The two files are one trail.                                            *)

(* What a reader gets of s is w: s has nothing more, but for a torn frame. *)
Reads(s, w) == NoTear(w) /\ s \in Tears(w)

(* No file has a torn frame but at its end.  A record that is being        *)
(* written is that of a command, or the first seal of the last credential. *)
OnTrail ==
    /\ \A f \in Files : \E w \in Seq(FrameOf[f]) : Reads(file[f], w)
    /\ write # None /\ write.file = "chain" =>
          \/ write.frame.action \in Actions /\ write.frame.credential = 0
          \/ /\ write.frame.action = Sealed
             /\ \A i \in DOMAIN memory["chain"] :
                   memory["chain"][i].action = Sealed =>
                      memory["chain"][i].credential # write.frame.credential

TInv == IInv /\ Readable /\ Untorn /\ OnTrail

(* What the trail has of a record. *)
Summary == [plan : Plans, action : Actions \cup {Sealed}, credential : Nat]

SummaryOf == [r \in Record |-> [plan |-> r.plan, action |-> r.action, credential |-> r.credential]]

PlanOf == [c \in Credential |-> c.plan]

(* The images of the elements of s. *)
Images(g, s) == [i \in DOMAIN s |-> g[s[i]]]

LEMMA ImagesParts ==
    ASSUME NEW S, NEW T, NEW g \in [S -> T], NEW s \in Seq(S)
    PROVE  /\ Images(g, s) \in Seq(T) /\ Len(Images(g, s)) = Len(s)
           /\ DOMAIN Images(g, s) = DOMAIN s /\ DOMAIN s = 1..Len(s) /\ Len(s) \in Nat
           /\ \A i \in DOMAIN s : Images(g, s)[i] = g[s[i]]
<1>1. Len(s) \in Nat /\ DOMAIN s = 1..Len(s) /\ \A i \in DOMAIN s : s[i] \in S
  OBVIOUS
<1>2. Images(g, s) \in [1..Len(s) -> T] /\ \A i \in DOMAIN s : Images(g, s)[i] = g[s[i]]
  BY <1>1 DEF Images
<1> QED
  BY <1>1, <1>2

LEMMA ImagesAppend ==
    ASSUME NEW S, NEW T, NEW g \in [S -> T], NEW s \in Seq(S), NEW e \in S
    PROVE  Images(g, Append(s, e)) = Append(Images(g, s), g[e])
<1> DEFINE n == Len(s)
           a == Images(g, Append(s, e))
           b == Append(Images(g, s), g[e])
<1>1. /\ n \in Nat /\ Append(s, e) \in Seq(S) /\ Len(Append(s, e)) = n + 1
      /\ Append(s, e)[n + 1] = e /\ \A j \in 1..n : Append(s, e)[j] = s[j]
  BY Longer
<1>2. /\ Images(g, s) \in Seq(T) /\ Len(Images(g, s)) = n /\ DOMAIN s = 1..n
      /\ \A i \in DOMAIN s : Images(g, s)[i] = g[s[i]]
  BY ImagesParts
<1>3. /\ b \in Seq(T) /\ Len(b) = n + 1 /\ b[n + 1] = g[e]
      /\ \A i \in 1..n : b[i] = Images(g, s)[i]
  <2> DEFINE m == Images(g, s)
  <2>1. m \in Seq(T) /\ Len(m) = n /\ g[e] \in T
    BY <1>2
  <2> HIDE DEF m, n
  <2>2. /\ Append(m, g[e]) \in Seq(T) /\ Len(Append(m, g[e])) = Len(m) + 1
        /\ Append(m, g[e])[Len(m) + 1] = g[e]
        /\ \A j \in 1..Len(m) : Append(m, g[e])[j] = m[j]
    BY <2>1, Longer
  <2> QED
    BY <2>1, <2>2 DEF m
<1>4. /\ a \in Seq(T) /\ Len(a) = n + 1 /\ DOMAIN Append(s, e) = 1..(n + 1)
      /\ \A i \in DOMAIN Append(s, e) : a[i] = g[Append(s, e)[i]]
  <2> DEFINE t == Append(s, e)
  <2>1. t \in Seq(S) /\ Len(t) = n + 1
    BY <1>1
  <2> HIDE DEF t, n
  <2>2. /\ Images(g, t) \in Seq(T) /\ Len(Images(g, t)) = Len(t) /\ DOMAIN t = 1..Len(t)
        /\ \A i \in DOMAIN t : Images(g, t)[i] = g[t[i]]
    BY <2>1, ImagesParts
  <2> QED
    BY <2>1, <2>2 DEF t
<1> HIDE DEF a, b, n
<1>5. \A i \in 1..(n + 1) : i \in 1..n \/ i = n + 1
  BY <1>1
<1>6. n + 1 \in 1..(n + 1) /\ 1..n \subseteq 1..(n + 1)
  BY <1>1
<1>7. \A i \in 1..(n + 1) : a[i] = b[i]
  BY <1>1, <1>2, <1>3, <1>4, <1>5, <1>6
<1>8. a = b
  BY <1>1, <1>3, <1>4, <1>7
<1> QED
  BY <1>8 DEF a, b

LEMMA ImagesSubSeq ==
    ASSUME NEW S, NEW T, NEW g \in [S -> T], NEW s \in Seq(S)
    PROVE  \A n \in 0..Len(s) : Images(g, SubSeq(s, 1, n)) = SubSeq(Images(g, s), 1, n)
<1>1. /\ Images(g, s) \in Seq(T) /\ Len(Images(g, s)) = Len(s)
      /\ DOMAIN Images(g, s) = DOMAIN s /\ DOMAIN s = 1..Len(s) /\ Len(s) \in Nat
      /\ \A i \in DOMAIN s : Images(g, s)[i] = g[s[i]]
  BY ImagesParts DEF Images
<1> TAKE n \in 0..Len(s)
<1>2. SubSeq(Images(g, s), 1, n) = [i \in 1..n |-> Images(g, s)[i]]
  BY <1>1
<1>3. DOMAIN SubSeq(s, 1, n) = 1..n /\ \A i \in 1..n : SubSeq(s, 1, n)[i] = s[i]
  BY <1>1
<1>4. \A i \in 1..n : i \in 1..Len(s)
  BY <1>1
<1> QED
  BY <1>1, <1>2, <1>3, <1>4 DEF Images

LEMMA TrailTypes ==
    /\ SummaryOf \in [Record -> Summary] /\ PlanOf \in [Credential -> Plans]
    /\ \A s \in Seq(Record) : RecordsOf(s) = Images(SummaryOf, s)
    /\ \A s \in Seq(Credential) : PlansOf(s) = Images(PlanOf, s)
<1>1. SummaryOf \in [Record -> Summary] /\ PlanOf \in [Credential -> Plans]
  BY DEF SummaryOf, Summary, Record, PlanOf, Credential
<1>2. ASSUME NEW s \in Seq(Record) PROVE RecordsOf(s) = Images(SummaryOf, s)
  <2>1. \A i \in DOMAIN s : s[i] \in Record
    OBVIOUS
  <2> QED
    BY <2>1 DEF RecordsOf, Images, SummaryOf
<1>3. ASSUME NEW s \in Seq(Credential) PROVE PlansOf(s) = Images(PlanOf, s)
  <2>1. \A i \in DOMAIN s : s[i] \in Credential
    OBVIOUS
  <2> QED
    BY <2>1 DEF PlansOf, Images, PlanOf
<1> QED
  BY <1>1, <1>2, <1>3

(* A reader gets one sequence of a file. *)
LEMMA WholeOf ==
    ASSUME NEW S, Torn \notin S, NEW w \in Seq(S), NEW s, Reads(s, w)
    PROVE  /\ Whole(s) = w /\ s \in Seq(S \cup {Torn})
           /\ Len(w) \in Nat /\ Len(w) <= Len(s) /\ Len(s) <= Len(w) + 1
           /\ \A i \in 1..Len(w) : s[i] = w[i] /\ s[i] # Torn
           /\ Len(s) = Len(w) + 1 => s[Len(s)] = Torn
<1> DEFINE R == S \cup {Torn}
           n == Len(w)
           V == {m \in 0..Len(s) : \A i \in 1..m : s[i] # Torn}
<1>1. w \in Seq(R) /\ Torn \in R /\ n \in Nat /\ \A i \in 1..n : w[i] # Torn
  OBVIOUS
<1> HIDE DEF R
<1>2. /\ s \in Seq(R) /\ Len(s) \in Nat /\ n <= Len(s) /\ Len(s) <= n + 1
      /\ \A i \in 1..n : s[i] = w[i]
      /\ Len(s) = n + 1 => s[n + 1] = Torn
  <2>1. CASE s = w
    BY <1>1, <2>1
  <2>2. CASE s = Append(w, Torn)
    <3>1. /\ s \in Seq(R) /\ Len(s) = n + 1 /\ s[n + 1] = Torn /\ \A i \in 1..n : s[i] = w[i]
      BY <1>1, <2>2, Longer
    <3> QED
      BY <1>1, <3>1
  <2> QED
    BY <2>1, <2>2 DEF Reads, Tears
<1> HIDE DEF n
<1>3. n \in V /\ \A m \in V : m \in Nat /\ n >= m
  <2>1. n \in V
    BY <1>1, <1>2
  <2>2. ASSUME NEW m \in V, ~ (n >= m) PROVE FALSE
    <3>1. m = n + 1 /\ Len(s) = n + 1 /\ n + 1 \in 1..m
      BY <1>1, <1>2, <2>2
    <3> QED
      BY <1>2, <3>1
  <2> QED
    BY <1>2, <2>1, <2>2
<1>4. Max(V) = n
  <2> HIDE DEF V
  <2>1. \A x \in V : (\A y \in V : x >= y) => x = n
    BY <1>1, <1>3
  <2> QED
    BY <1>3, <2>1 DEF Max
<1>5. SubSeq(s, 1, n) = w
  <2>1. SubSeq(s, 1, n) = [i \in 1..n |-> s[i]] /\ w = [i \in 1..n |-> w[i]]
    BY <1>1, <1>2 DEF n
  <2> QED
    BY <1>2, <2>1
<1> QED
  BY <1>1, <1>2, <1>4, <1>5 DEF Whole, n, R

(* The frames that a reader gets are numbered through. *)
LEMMA Numbered ==
    ASSUME NEW S, Torn \notin S, NEW w \in Seq(S), NEW s, Reads(s, w), NEW f, Orderly(f, s)
    PROVE  \A i \in DOMAIN w : w[i].seq = i
<1>1. /\ s \in Seq(S \cup {Torn}) /\ Len(w) \in Nat /\ Len(w) <= Len(s) /\ DOMAIN w = 1..Len(w)
      /\ \A i \in 1..Len(w) : s[i] = w[i] /\ s[i] # Torn
  <2>1. DOMAIN w = 1..Len(w)
    OBVIOUS
  <2>2. /\ s \in Seq(S \cup {Torn}) /\ Len(w) \in Nat /\ Len(w) <= Len(s)
        /\ \A i \in 1..Len(w) : s[i] = w[i] /\ s[i] # Torn
    BY WholeOf DEF Reads, NoTear, Tears
  <2> QED
    BY <2>1, <2>2
<1> TAKE i \in DOMAIN w
<1>2. i \in DOMAIN s /\ i \in Nat /\ i >= 1 /\ i <= Len(s) /\ \A j \in 1..i : s[j] # Torn
  BY <1>1
<1>3. Continues(f, SubSeq(s, 1, i - 1), s[i])
  BY <1>2 DEF Orderly
<1>4. Len(SubSeq(s, 1, i - 1)) = i - 1
  BY <1>1, <1>2
<1> QED
  BY <1>1, <1>2, <1>3, <1>4 DEF Continues

(* What a file of a running store is. *)
LEMMA RunningFile ==
    ASSUME TInv, phase \in {"open", "closed"}, NEW f \in Files
    PROVE  /\ memory[f] \in Seq(FrameOf[f]) /\ NoTear(memory[f])
           /\ write = None \/ write.file # f \/ write.stage = "header" => file[f] = memory[f]
           /\ write # None /\ write.file = f /\ write.stage = "body" =>
                 file[f] = Append(memory[f], Torn)
           /\ write # None /\ write.file = f /\ write.stage = "sync" =>
                 file[f] = Append(memory[f], write.frame)
<1> DEFINE S == FrameOf[f] \cup {Torn}
<1>1. /\ file[f] \in Seq(S) /\ memory[f] \in Seq(FrameOf[f])
      /\ Finished(f) = memory[f] /\ NoTear(memory[f])
  BY TypedFiles DEF TInv, Readable, Untorn
<1> HIDE DEF S
<1>2. CASE write # None /\ write.file = f /\ write.stage \in {"body", "sync"}
  <2>1. /\ synced[f] \in Nat /\ synced[f] < Len(file[f]) /\ Len(file[f]) \in Nat
        /\ write.stage = "body" => file[f][Len(file[f])] = Torn
        /\ write.stage = "sync" => file[f][Len(file[f])] = write.frame
    BY <1>1, <1>2 DEF TInv, IInv, TypeOK, WriteInOrder, Readable
  <2>2. Len(file[f]) > 0
    BY <2>1
  <2>3. file[f] = Append(Front(file[f]), file[f][Len(file[f])]) /\ Front(file[f]) = memory[f]
    BY <1>1, <1>2, <2>2, FrontAndLast DEF Finished
  <2> QED
    BY <1>1, <1>2, <2>1, <2>3
<1>3. CASE ~ (write # None /\ write.file = f /\ write.stage \in {"body", "sync"})
  <2>1. file[f] = memory[f]
    BY <1>1, <1>3 DEF Finished
  <2> QED
    BY <1>1, <1>3, <2>1
<1> QED
  BY <1>2, <1>3

(* What a reader gets of a file of a running store. *)
Given(f) ==
    IF write # None /\ write.file = f /\ write.stage = "sync" THEN file[f] ELSE memory[f]

LEMMA RunningReads ==
    ASSUME TInv, phase \in {"open", "closed"}, NEW f \in Files
    PROVE  /\ Given(f) \in Seq(FrameOf[f]) /\ Torn \notin FrameOf[f]
           /\ Reads(file[f], Given(f)) /\ Whole(file[f]) = Given(f)
<1>1. Torn \notin FrameOf[f]
  BY FrameTypes
<1>2. ASSUME NEW w \in Seq(FrameOf[f]), file[f] \in Tears(w)
      PROVE  Reads(file[f], w) /\ Whole(file[f]) = w
  <2>1. NoTear(w)
    BY <1>1 DEF NoTear
  <2> QED
    BY <1>1, <1>2, <2>1, WholeOf DEF Reads
<1>3. CASE write # None /\ write.file = f /\ write.stage = "sync"
  <2>1. write.frame \in FrameOf[f]
    BY <1>3, WriteTypes DEF TInv
  <2>2. /\ file[f] = Append(memory[f], write.frame) /\ memory[f] \in Seq(FrameOf[f])
    BY <1>3, RunningFile
  <2>3. file[f] \in Seq(FrameOf[f])
    BY <2>1, <2>2, Longer
  <2> QED
    BY <1>1, <1>2, <1>3, <2>3 DEF Given, Tears
<1>4. CASE ~ (write # None /\ write.file = f /\ write.stage = "sync")
  <2>1. write # None => write.stage \in {"header", "body", "sync"}
    BY WriteTypes DEF TInv
  <2>2. memory[f] \in Seq(FrameOf[f]) /\ file[f] \in Tears(memory[f])
    BY <1>4, <2>1, RunningFile DEF Tears
  <2> QED
    BY <1>1, <1>2, <1>4, <2>2 DEF Given
<1> QED
  BY <1>3, <1>4

(* A step after which a reader gets what it got before. *)
SameReads ==
    \A f \in Files : \E w \in Seq(FrameOf[f]) : Reads(file[f], w) /\ Reads(file'[f], w)

LEMMA SameWhole ==
    ASSUME SameReads, NEW f \in Files
    PROVE  Whole(file'[f]) = Whole(file[f])
<1>1. PICK w \in Seq(FrameOf[f]) : Reads(file[f], w) /\ Reads(file'[f], w)
  BY DEF SameReads
<1>2. Torn \notin FrameOf[f]
  BY FrameTypes
<1>3. Whole(file[f]) = w
  BY <1>1, <1>2, WholeOf
<1>4. Whole(file'[f]) = w
  BY <1>1, <1>2, WholeOf
<1> QED
  BY <1>3, <1>4

LEMMA UnchangedReads == ASSUME TInv, file' = file PROVE SameReads
BY DEF TInv, OnTrail, SameReads

(* A running store that leaves a file alone or tears it where it ends. *)
LEMMA TearReads ==
    ASSUME TInv, phase \in {"open", "closed"}, At("header"),
           file' = [file EXCEPT ![write.file] = Append(@, Torn)]
    PROVE  SameReads
<1> SUFFICES ASSUME NEW f \in Files
             PROVE  \E w \in Seq(FrameOf[f]) : Reads(file[f], w) /\ Reads(file'[f], w)
  BY DEF SameReads
<1>1. DOMAIN file = Files /\ write # None /\ write.stage = "header"
  BY DEF TInv, IInv, TypeOK, At
<1>2. CASE f = write.file
  <2>1. file[f] = memory[f] /\ memory[f] \in Seq(FrameOf[f]) /\ NoTear(memory[f])
    BY <1>1, <1>2, RunningFile
  <2>2. file'[f] = Append(memory[f], Torn)
    BY <1>1, <1>2, <2>1
  <2> QED
    BY <2>1, <2>2 DEF Reads, Tears
<1>3. CASE f # write.file
  <2>1. file'[f] = file[f]
    BY <1>1, <1>3
  <2> QED
    BY <2>1, RunningReads
<1> QED
  BY <1>2, <1>3

(* The body completes what a reader gets. *)
LEMMA BodyReads ==
    ASSUME TInv, WriteBody
    PROVE  LET g == write.file IN
           /\ g \in Files /\ phase = "open" /\ write.frame \in FrameOf[g]
           /\ memory[g] \in Seq(FrameOf[g]) /\ Whole(file[g]) = memory[g]
           /\ Append(memory[g], write.frame) \in Seq(FrameOf[g])
           /\ Reads(file'[g], Append(memory[g], write.frame))
           /\ Whole(file'[g]) = Append(memory[g], write.frame)
           /\ \A f \in Files \ {g} : file'[f] = file[f]
<1> DEFINE g == write.file
           w == Append(memory[g], write.frame)
<1>1. /\ write # None /\ g \in Files /\ phase = "open" /\ write.stage = "body"
      /\ write.frame \in FrameOf[g] /\ Torn \notin FrameOf[g] /\ DOMAIN file = Files
  BY WriteTypes, FrameTypes DEF WriteBody, At, TInv, IInv, TypeOK
<1>2. /\ file'[g] = Append(Front(file[g]), write.frame)
      /\ \A f \in Files \ {g} : file'[f] = file[f]
  BY <1>1 DEF WriteBody
<1>3. memory[g] \in Seq(FrameOf[g]) /\ Finished(g) = memory[g]
  BY <1>1, TypedFiles DEF TInv, Readable, Untorn
<1>4. file'[g] = w
  BY <1>1, <1>2, <1>3 DEF Finished
<1>5. w \in Seq(FrameOf[g])
  BY <1>1, <1>3, Longer
<1>6. Whole(file[g]) = memory[g]
  BY <1>1, RunningReads DEF Given
<1> HIDE DEF w, g
<1>7. NoTear(w)
  BY <1>1, <1>5 DEF NoTear
<1>8. Reads(file'[g], w)
  BY <1>4, <1>7 DEF Reads, Tears
<1>9. Whole(file'[g]) = w
  BY <1>1, <1>5, <1>8, WholeOf
<1> QED
  BY <1>1, <1>2, <1>3, <1>5, <1>6, <1>8, <1>9 DEF g, w

(* A power cut takes the end of what a reader gets. *)
LEMMA RemainsReads ==
    ASSUME TInv, NEW f \in Files, NEW c \in Remains(f)
    PROVE  \E w \in Seq(FrameOf[f]) : \E m \in 0..Len(w) :
              Reads(file[f], w) /\ Reads(c, SubSeq(w, 1, m)) /\ SubSeq(w, 1, m) \in Seq(FrameOf[f])
<1>1. PICK w \in Seq(FrameOf[f]) : /\ Reads(file[f], w)
                                   /\ At("header") /\ write.file = f => file[f] = w
  <2>1. CASE At("header") /\ write.file = f
    <3>1. phase = "open" /\ write.stage = "header"
      BY <2>1, WriteTypes DEF At, TInv
    <3>2. file[f] = memory[f] /\ Given(f) = memory[f]
      BY <3>1, <2>1, RunningFile DEF Given
    <3> QED
      BY <3>1, <3>2, RunningReads
  <2>2. CASE ~ (At("header") /\ write.file = f)
    BY <2>2 DEF TInv, OnTrail
  <2> QED
    BY <2>1, <2>2
<1>2. Torn \notin FrameOf[f] /\ synced[f] \in Nat
  BY FrameTypes DEF TInv, IInv, TypeOK
<1>3. /\ file[f] \in Seq(FrameOf[f] \cup {Torn}) /\ Len(file[f]) \in Nat
      /\ Len(w) \in Nat /\ Len(w) <= Len(file[f]) /\ Len(file[f]) <= Len(w) + 1
      /\ \A i \in 1..Len(w) : file[f][i] = w[i]
  <2> DEFINE S == FrameOf[f]
             s == file[f]
  <2>1. w \in Seq(S) /\ Torn \notin S /\ Reads(s, w)
    BY <1>1, <1>2
  <2> HIDE DEF S, s
  <2>2. /\ s \in Seq(S \cup {Torn})
        /\ Len(w) \in Nat /\ Len(w) <= Len(s) /\ Len(s) <= Len(w) + 1
        /\ \A i \in 1..Len(w) : s[i] = w[i] /\ s[i] # Torn
    BY <2>1, WholeOf DEF Reads, NoTear, Tears
  <2> QED
    BY <2>2 DEF S, s
<1>4. PICK n \in synced[f]..Len(file[f]) :
         c \in (IF n < Len(file[f]) \/ (At("header") /\ write.file = f)
                   THEN Tears(SubSeq(file[f], 1, n)) ELSE {file[f]})
  BY DEF Remains
<1>5. n \in Nat /\ n <= Len(file[f])
  BY <1>2, <1>3
<1>6. ASSUME NEW m \in 0..Len(w)
      PROVE  SubSeq(w, 1, m) \in Seq(FrameOf[f]) /\ NoTear(SubSeq(w, 1, m))
  <2> DEFINE S == FrameOf[f]
  <2> HIDE DEF S
  <2>1. w \in Seq(S) /\ Len(w) \in Nat
    BY <1>3 DEF S
  <2>2. SubSeq(w, 1, m) \in Seq(S)
    BY <2>1
  <2> QED
    BY <1>2, <2>2 DEF NoTear, S
<1>7. CASE n < Len(file[f]) \/ (At("header") /\ write.file = f)
  <2>1. n \in 0..Len(w)
    BY <1>1, <1>3, <1>5, <1>7
  <2>2. SubSeq(file[f], 1, n) = SubSeq(w, 1, n)
    <3>1. SubSeq(file[f], 1, n) = [i \in 1..n |-> file[f][i]] /\ SubSeq(w, 1, n) = [i \in 1..n |-> w[i]]
      BY <1>3, <1>5, <2>1
    <3>2. \A i \in 1..n : i \in 1..Len(w)
      BY <1>3, <2>1
    <3> QED
      BY <1>3, <3>1, <3>2
  <2> QED
    BY <1>1, <1>4, <1>6, <1>7, <2>1, <2>2 DEF Reads
<1>8. CASE ~ (n < Len(file[f]) \/ (At("header") /\ write.file = f))
  <2>1. c = file[f] /\ SubSeq(w, 1, Len(w)) = w /\ Len(w) \in 0..Len(w)
    BY <1>3, <1>4, <1>8
  <2> QED
    BY <1>1, <2>1
<1> QED
  BY <1>7, <1>8

LEMMA PowerCutReads ==
    ASSUME TInv, PowerCut, NEW f \in Files
    PROVE  \E w \in Seq(FrameOf[f]) : \E m \in 0..Len(w) :
              Reads(file[f], w) /\ Reads(file'[f], SubSeq(w, 1, m)) /\ SubSeq(w, 1, m) \in Seq(FrameOf[f])
<1>1. file'[f] \in Remains(f)
  BY DEF PowerCut, Files
<1> QED
  BY <1>1, RemainsReads

(* What steps other than of a body or a power cut do not change. *)
LEMMA OtherReads ==
    ASSUME SyncsHold, "write" \notin Faults, TInv, [Next]_vars, ~ WriteBody, ~ PowerCut
    PROVE  SameReads
<1>1. CASE WriteHeader
  <2>1. At("header") /\ phase = "open" /\ file' = [file EXCEPT ![write.file] = Append(@, Torn)]
    BY <1>1, WriteTypes DEF WriteHeader, At, TInv
  <2> QED
    BY <2>1, TearReads
<1>2. CASE Exit
  <2>1. phase \in {"open", "closed"}
    BY <1>2 DEF Exit
  <2>2. \/ file' = file
        \/ At("header") /\ file' = [file EXCEPT ![write.file] = Append(@, Torn)]
    BY <1>2 DEF Exit
  <2> QED
    BY <2>1, <2>2, TearReads, UnchangedReads
<1>3. CASE \/ Open \/ Sync \/ Close \/ UNCHANGED vars
           \/ \E p \in Plans, a \in Actions : BeginAppend(p, a)
           \/ \E p \in Plans : BeginIssue(p)
  <2>1. file' = file
    BY <1>3 DEF Open, Sync, Close, vars, BeginAppend, BeginIssue
  <2> QED
    BY <2>1, UnchangedReads
<1>4. ~ WriteFails /\ ~ SyncFails
  BY DEF SyncsHold, WriteFails, SyncFails
<1> QED
  BY <1>1, <1>2, <1>3, <1>4 DEF Next

(* No credential is sealed before its seal is written. *)
LEMMA FirstSeal ==
    ASSUME TInv, Sync, write.file = "creds", NEW i \in DOMAIN memory["chain"],
           memory["chain"][i].action = Sealed
    PROVE  memory["chain"][i].credential # write.frame.seq
<1> DEFINE r == memory["chain"][i]
           n == Len(file["creds"])
<1>1. /\ write # None /\ write.stage = "sync" /\ phase = "open" /\ "creds" \in Files
      /\ "chain" \in Files /\ write.frame \in FrameOf["creds"]
  BY WriteTypes DEF Sync, At, TInv, Files
<1>2. /\ file["chain"] = memory["chain"] /\ memory["chain"] \in Seq(FrameOf["chain"])
      /\ memory["creds"] \in Seq(FrameOf["creds"])
      /\ file["creds"] = Append(memory["creds"], write.frame)
  BY <1>1, RunningFile
<1>3. r # Torn
  BY <1>1, <1>2, FrameTypes
<1>4. HasCredential(r)
  BY <1>2, <1>3 DEF TInv, IInv, SealHasCredential
<1>5. PICK j \in 1..synced["creds"] : file["creds"][j] = [seq |-> r.credential, plan |-> r.plan]
  BY <1>4 DEF HasCredential
<1>6. synced["creds"] \in Nat /\ synced["creds"] < n /\ n = Len(memory["creds"]) + 1 /\ n \in Nat
  <2>1. synced["creds"] \in Nat /\ synced["creds"] < n
    BY <1>1 DEF TInv, IInv, TypeOK, WriteInOrder
  <2>2. n = Len(memory["creds"]) + 1 /\ n \in Nat
    BY <1>1, <1>2, Longer
  <2> QED
    BY <2>1, <2>2
<1>7. Reads(file["creds"], file["creds"]) /\ file["creds"] \in Seq(FrameOf["creds"])
  BY <1>1, RunningReads DEF Given
<1>8. \A k \in DOMAIN file["creds"] : file["creds"][k].seq = k
  <2>1. Torn \notin FrameOf["creds"] /\ Orderly("creds", file["creds"])
    BY <1>1, FrameTypes DEF TInv, Readable
  <2> QED
    BY <1>7, <2>1, Numbered
<1>9. j \in DOMAIN file["creds"] /\ j # n
  BY <1>6, <1>7
<1>10. r.credential = j
  BY <1>5, <1>8, <1>9
<1>11. write.frame.seq = n
  <2>1. n \in DOMAIN file["creds"] /\ file["creds"][n] = write.frame
    BY <1>1, <1>2, <1>6, Longer
  <2> QED
    BY <1>8, <2>1
<1> QED
  BY <1>9, <1>10, <1>11

LEMMA NextOnTrail ==
    ASSUME SyncsHold, "write" \notin Faults, TInv, [Next]_vars
    PROVE  OnTrail'
<1>1. \A f \in Files : \E w \in Seq(FrameOf[f]) : Reads(file'[f], w)
  <2>1. CASE WriteBody
    <3> TAKE f \in Files
    <3>1. CASE f = write.file
      BY <2>1, <3>1, BodyReads
    <3>2. CASE f # write.file
      BY <2>1, <3>2, BodyReads DEF TInv, OnTrail
    <3> QED
      BY <3>1, <3>2
  <2>2. CASE PowerCut
    BY <2>2, PowerCutReads
  <2>3. CASE ~ WriteBody /\ ~ PowerCut
    BY <2>3, OtherReads DEF SameReads
  <2> QED
    BY <2>1, <2>2, <2>3
<1>2. ASSUME write' # None, write'.file = "chain"
      PROVE  \/ write'.frame.action \in Actions /\ write'.frame.credential = 0
             \/ /\ write'.frame.action = Sealed
                /\ \A i \in DOMAIN memory'["chain"] :
                      memory'["chain"][i].action = Sealed =>
                         memory'["chain"][i].credential # write'.frame.credential
  <2>1. CASE WriteHeader \/ WriteBody
    <3>1. /\ write # None /\ write'.frame = write.frame /\ write'.file = write.file
          /\ memory' = memory
      BY <2>1 DEF WriteHeader, WriteBody, At, TInv, IInv, TypeOK, Write
    <3> QED
      BY <1>2, <3>1 DEF TInv, OnTrail
  <2>2. CASE Sync
    <3>1. /\ write # None /\ write' = AfterSync(write.file, write.frame)
          /\ memory' = [memory EXCEPT ![write.file] = Append(@, write.frame)]
      BY <2>2 DEF Sync, At, Remembered
    <3>2. /\ write.file = "creds" /\ write'.frame.action = Sealed
          /\ write'.frame.credential = write.frame.seq
      BY <1>2, <3>1 DEF AfterSync, Start, NextRecord
    <3>3. memory'["chain"] = memory["chain"]
      BY <3>1, <3>2
    <3> QED
      BY <2>2, <3>2, <3>3, FirstSeal
  <2>3. CASE UNCHANGED <<write, memory>>
    BY <1>2, <2>3 DEF TInv, OnTrail
  <2>4. CASE \E p \in Plans, a \in Actions : BeginAppend(p, a)
    BY <2>4 DEF BeginAppend, Start, NextRecord
  <2>5. CASE \E p \in Plans : BeginIssue(p)
    BY <1>2, <2>5 DEF BeginIssue, Start
  <2>6. CASE Open \/ Close
    <3>1. write = None /\ write' = write
      BY <2>6 DEF Open, Close, Idle, TInv, IInv, TypeOK
    <3> QED
      BY <1>2, <3>1
  <2>7. ~ WriteFails /\ ~ SyncFails /\ ~ Exit /\ ~ PowerCut
    BY <1>2 DEF SyncsHold, WriteFails, SyncFails, Exit, PowerCut, Stopped
  <2> QED
    BY <2>1, <2>2, <2>3, <2>4, <2>5, <2>6, <2>7 DEF Next, vars
<1> QED
  BY <1>1, <1>2 DEF OnTrail

LEMMA TrailHolds ==
    ASSUME SyncsHold, "write" \notin Faults
    PROVE  Spec => []TInv
<1>1. Init => TInv
  <2>1. Init => Untorn /\ OnTrail
    <3> SUFFICES ASSUME Init PROVE Untorn /\ OnTrail
      OBVIOUS
    <3>1. \A f \in Files : << >> \in Seq(FrameOf[f]) /\ Reads(file[f], << >>)
      BY DEF Init, EmptyMemory, Reads, Tears, NoTear
    <3> QED
      BY <3>1 DEF Init, Untorn, OnTrail
  <2> QED
    BY <2>1, InitInvariant, InitReadable DEF TInv
<1>2. TInv /\ [Next]_vars => TInv'
  BY NextInvariant, NextReadable, NextUntorn, NextOnTrail DEF TInv
<1> QED
  BY <1>1, <1>2, PTL DEF Spec

(* Writing the body of a record adds it, or a seal, to the trail. *)
LEMMA RecordAdded ==
    ASSUME TInv, WriteBody, write.file = "chain"
    PROVE  /\ RecordsOf(Whole(file'["chain"])) =
                 Append(RecordsOf(Whole(file["chain"])), SummaryOf[write.frame])
           /\ Whole(file["chain"]) = memory["chain"] /\ memory["chain"] \in Seq(Record)
           /\ write.frame \in Record /\ UNCHANGED <<file["creds"], returned>>
<1> DEFINE w == memory["chain"]
<1>1. /\ phase = "open" /\ write.frame \in Record /\ w \in Seq(Record)
      /\ Whole(file["chain"]) = w
      /\ Append(w, write.frame) \in Seq(Record)
      /\ Whole(file'["chain"]) = Append(w, write.frame)
      /\ UNCHANGED <<file["creds"], returned>>
  BY BodyReads, FrameTypes DEF WriteBody, Files
<1> HIDE DEF w
<1>2. RecordsOf(w) = Images(SummaryOf, w)
      /\ RecordsOf(Append(w, write.frame)) = Images(SummaryOf, Append(w, write.frame))
  BY <1>1, TrailTypes
<1>3. Images(SummaryOf, Append(w, write.frame)) = Append(Images(SummaryOf, w), SummaryOf[write.frame])
  <2>1. SummaryOf \in [Record -> Summary]
    BY TrailTypes
  <2> QED
    BY <1>1, <2>1, ImagesAppend, Zenon
<1> QED
  BY <1>1, <1>2, <1>3 DEF w

LEMMA BodyOnTrail ==
    ASSUME TInv, WriteBody
    PROVE  Trail!Next
<1>1. /\ write # None /\ write.file \in Files /\ phase = "open" /\ write.stage = "body"
      /\ write.frame \in FrameOf[write.file] /\ "creds" \in Files
  BY WriteTypes DEF WriteBody, At, TInv, Files
<1> DEFINE e == write.frame
           R == RecordsOf(Whole(file["chain"]))
           C == PlansOf(Whole(file["creds"]))
<1>2. CASE write.file = "chain"
  <2>1. /\ RecordsOf(Whole(file["chain"]))' = Append(R, SummaryOf[e])
        /\ Whole(file["chain"]) = memory["chain"] /\ memory["chain"] \in Seq(Record)
        /\ e \in Record /\ PlansOf(Whole(file["creds"]))' = C /\ returned' = returned
    BY <1>2, RecordAdded
  <2>2. SummaryOf[e] = [plan |-> e.plan, action |-> e.action, credential |-> e.credential]
        /\ e.plan \in Plans
    BY <2>1 DEF SummaryOf, Record
  <2>3. CASE e.action \in Actions /\ e.credential = 0
    <3>1. Trail!Record(e.plan, e.action)
      BY <2>1, <2>2, <2>3 DEF Trail!Record
    <3> QED
      BY <2>2, <2>3, <3>1 DEF Trail!Next
  <2>4. CASE /\ e.action = Sealed
             /\ \A i \in DOMAIN memory["chain"] :
                   memory["chain"][i].action = Sealed => memory["chain"][i].credential # e.credential
    <3> DEFINE n == e.credential
               m == memory["creds"]
    <3>1. /\ file["creds"] = m /\ Given("creds") = m /\ m \in Seq(Credential)
      BY <1>1, <1>2, RunningFile, FrameTypes DEF Given
    <3>2. Whole(file["creds"]) = m /\ Reads(file["creds"], m)
      BY <1>1, <3>1, RunningReads
    <3>3. \A k \in DOMAIN m : m[k].seq = k
      <4>1. Torn \notin Credential /\ Orderly("creds", file["creds"])
        BY <1>1, FrameTypes DEF TInv, Readable
      <4> HIDE DEF m
      <4> QED
        BY <3>1, <3>2, <4>1, Numbered
    <3>4. HasCredential(e)
      BY <1>1, <1>2, <2>4 DEF TInv, IInv, WriteInOrder
    <3>5. PICK j \in 1..synced["creds"] : file["creds"][j] = [seq |-> n, plan |-> e.plan]
      BY <3>4 DEF HasCredential
    <3>6. j \in DOMAIN m
      <4>1. synced["creds"] \in Nat /\ synced["creds"] <= Len(file["creds"])
        BY <1>1 DEF TInv, IInv, TypeOK
      <4> QED
        BY <3>1, <4>1
    <3>7. j = n /\ m[j].plan = e.plan
      BY <3>1, <3>3, <3>5, <3>6
    <3>8. DOMAIN C = DOMAIN m /\ C[n] = e.plan
      BY <3>2, <3>6, <3>7 DEF PlansOf
    <3>9. \A i \in DOMAIN R : ~ (R[i].action = Sealed /\ R[i].credential = n)
      BY <2>1, <2>4 DEF RecordsOf
    <3>10. Trail!Seal(n)
      BY <2>1, <2>2, <2>4, <3>8, <3>9 DEF Trail!Seal, Trail!Seals
    <3> QED
      BY <3>6, <3>7, <3>8, <3>10 DEF Trail!Next
  <2> QED
    BY <1>1, <1>2, <2>3, <2>4 DEF TInv, OnTrail
<1>3. CASE write.file = "creds"
  <2> DEFINE w == memory["creds"]
  <2>1. /\ e \in Credential /\ w \in Seq(Credential) /\ Whole(file["creds"]) = w
        /\ Append(w, e) \in Seq(Credential) /\ Whole(file'["creds"]) = Append(w, e)
        /\ file'["chain"] = file["chain"] /\ returned' = returned
    BY <1>3, BodyReads, FrameTypes DEF WriteBody, Files
  <2> HIDE DEF w, e
  <2>2. PlansOf(Append(w, e)) = Append(PlansOf(w), PlanOf[e])
    <3>1. Images(PlanOf, Append(w, e)) = Append(Images(PlanOf, w), PlanOf[e])
      <4>1. PlanOf \in [Credential -> Plans]
        BY TrailTypes
      <4> QED
        BY <2>1, <4>1, ImagesAppend, Zenon
    <3> QED
      BY <2>1, <3>1, TrailTypes
  <2>3. PlanOf[e] = e.plan /\ e.plan \in Plans
    BY <2>1 DEF PlanOf, Credential
  <2>4. PlansOf(Whole(file["creds"]))' = Append(C, e.plan)
    BY <2>1, <2>2, <2>3
  <2>5. Trail!Issue(e.plan)
    BY <2>1, <2>4 DEF Trail!Issue
  <2> QED
    BY <2>3, <2>5 DEF Trail!Next
<1> QED
  BY <1>1, <1>2, <1>3 DEF Files

(* With its sync a record is returned, and it is on the trail. *)
LEMMA SyncOnTrail ==
    ASSUME TInv, Sync
    PROVE  Trail!Next \/ UNCHANGED Trail!vars
<1>1. /\ write # None /\ write.file \in Files /\ phase = "open" /\ write.stage = "sync"
      /\ write.frame \in FrameOf[write.file] /\ file' = file
  BY WriteTypes DEF Sync, At, TInv
<1>2. CASE write.file = "chain"
  <2> DEFINE w == file["chain"]
             e == write.frame
             n == Len(memory["chain"]) + 1
  <2>1. /\ memory["chain"] \in Seq(FrameOf["chain"]) /\ w = Append(memory["chain"], e)
        /\ e.seq = n
    BY <1>1, <1>2, RunningFile DEF TInv, IInv, WriteInOrder
  <2>2. Whole(w) = w /\ w \in Seq(Record)
    BY <1>1, <1>2, RunningReads, FrameTypes DEF Given
  <2>3. n \in DOMAIN w
    <3>1. Len(w) = n /\ n \in Nat /\ n > 0
      BY <1>1, <1>2, <2>1, Longer
    <3> HIDE DEF w, n
    <3> QED
      BY <2>2, <3>1
  <2>4. n \in DOMAIN RecordsOf(Whole(file["chain"]))
    BY <2>2, <2>3 DEF RecordsOf
  <2>5. returned' = returned \cup {e}
    BY <1>2 DEF Sync
  <2>6. {r.seq : r \in returned'} = {r.seq : r \in returned} \cup {n}
    BY <2>1, <2>5
  <2>7. Trail!Return(n)
    BY <1>1, <2>6 DEF Trail!Return
  <2> HIDE DEF w, e, n
  <2>8. \E i \in DOMAIN RecordsOf(Whole(file["chain"])) : Trail!Return(i)
    BY <2>4, <2>7 DEF Trail!Return
  <2> QED
    BY <2>8 DEF Trail!Next
<1>3. CASE write.file # "chain"
  <2>1. returned' = returned
    BY <1>3 DEF Sync
  <2>2. {r.seq : r \in returned'} = {r.seq : r \in returned}
    BY <2>1
  <2>3. UNCHANGED <<RecordsOf(Whole(file["chain"])), PlansOf(Whole(file["creds"]))>>
    BY <1>1
  <2>4. UNCHANGED Trail!vars
    BY <2>2, <2>3 DEF Trail!vars
  <2> QED
    BY <2>4
<1> QED
  BY <1>2, <1>3

(* What a reader gets after the power cut of a file is the beginning of    *)
(* what it got, and of the trail.                                          *)
LEMMA PowerCutWhole ==
    ASSUME TInv, PowerCut
    PROVE  /\ \E w \in Seq(Record) : \E m \in 0..Len(w) :
                 /\ Reads(file'["chain"], SubSeq(w, 1, m)) /\ SubSeq(w, 1, m) \in Seq(Record)
                 /\ RecordsOf(Whole(file["chain"])) = Images(SummaryOf, w)
                 /\ RecordsOf(Whole(file'["chain"])) = SubSeq(Images(SummaryOf, w), 1, m)
           /\ \E w \in Seq(Credential) : \E m \in 0..Len(w) :
                 /\ Reads(file'["creds"], SubSeq(w, 1, m)) /\ SubSeq(w, 1, m) \in Seq(Credential)
                 /\ PlansOf(Whole(file["creds"])) = Images(PlanOf, w)
                 /\ PlansOf(Whole(file'["creds"])) = SubSeq(Images(PlanOf, w), 1, m)
<1>1. /\ FrameOf["chain"] = Record /\ FrameOf["creds"] = Credential
      /\ Torn \notin Record /\ Torn \notin Credential
      /\ "chain" \in Files /\ "creds" \in Files
  BY FrameTypes DEF Files
<1>2. SummaryOf \in [Record -> Summary] /\ PlanOf \in [Credential -> Plans]
  BY TrailTypes
<1>3. PICK w \in Seq(Record) : \E m \in 0..Len(w) :
         /\ Reads(file["chain"], w) /\ Reads(file'["chain"], SubSeq(w, 1, m))
         /\ SubSeq(w, 1, m) \in Seq(Record)
  BY <1>1, PowerCutReads
<1>4. PICK m \in 0..Len(w) :
         /\ Reads(file["chain"], w) /\ Reads(file'["chain"], SubSeq(w, 1, m))
         /\ SubSeq(w, 1, m) \in Seq(Record)
  BY <1>3
<1>5. /\ RecordsOf(Whole(file["chain"])) = Images(SummaryOf, w)
      /\ RecordsOf(Whole(file'["chain"])) = SubSeq(Images(SummaryOf, w), 1, m)
  <2>1. Whole(file["chain"]) = w
    BY <1>1, <1>4, WholeOf
  <2>2. Whole(file'["chain"]) = SubSeq(w, 1, m)
    BY <1>1, <1>4, WholeOf
  <2>3. Images(SummaryOf, SubSeq(w, 1, m)) = SubSeq(Images(SummaryOf, w), 1, m)
    <3>1. \A k \in 0..Len(w) :
             Images(SummaryOf, SubSeq(w, 1, k)) = SubSeq(Images(SummaryOf, w), 1, k)
      BY <1>2, ImagesSubSeq DEF Images
    <3> QED
      BY <3>1
  <2> QED
    BY <1>4, <2>1, <2>2, <2>3, TrailTypes
<1>6. PICK v \in Seq(Credential) : \E n \in 0..Len(v) :
         /\ Reads(file["creds"], v) /\ Reads(file'["creds"], SubSeq(v, 1, n))
         /\ SubSeq(v, 1, n) \in Seq(Credential)
  BY <1>1, PowerCutReads
<1>7. PICK n \in 0..Len(v) :
         /\ Reads(file["creds"], v) /\ Reads(file'["creds"], SubSeq(v, 1, n))
         /\ SubSeq(v, 1, n) \in Seq(Credential)
  BY <1>6
<1>8. /\ PlansOf(Whole(file["creds"])) = Images(PlanOf, v)
      /\ PlansOf(Whole(file'["creds"])) = SubSeq(Images(PlanOf, v), 1, n)
  <2>1. Whole(file["creds"]) = v
    BY <1>1, <1>7, WholeOf
  <2>2. Whole(file'["creds"]) = SubSeq(v, 1, n)
    BY <1>1, <1>7, WholeOf
  <2>3. Images(PlanOf, SubSeq(v, 1, n)) = SubSeq(Images(PlanOf, v), 1, n)
    <3>1. \A k \in 0..Len(v) :
             Images(PlanOf, SubSeq(v, 1, k)) = SubSeq(Images(PlanOf, v), 1, k)
      BY <1>2, ImagesSubSeq DEF Images
    <3> QED
      BY <3>1
  <2> QED
    BY <1>7, <2>1, <2>2, <2>3, TrailTypes
<1> QED
  BY <1>4, <1>5, <1>7, <1>8

(* What was returned, and the credentials of the seals, are left. *)
LEMMA PowerCutOnTrail ==
    ASSUME TInv, TInv', PowerCut
    PROVE  Trail!Next
<1> DEFINE R == RecordsOf(Whole(file["chain"]))
           C == PlansOf(Whole(file["creds"]))
<1>1. /\ Torn \notin Record /\ Torn \notin Credential
      /\ "chain" \in Files /\ "creds" \in Files
  BY FrameTypes DEF Files
<1>2. PICK w \in Seq(Record) : \E m \in 0..Len(w) :
         /\ Reads(file'["chain"], SubSeq(w, 1, m)) /\ SubSeq(w, 1, m) \in Seq(Record)
         /\ R = Images(SummaryOf, w) /\ R' = SubSeq(Images(SummaryOf, w), 1, m)
  BY PowerCutWhole
<1>3. PICK m \in 0..Len(w) :
         /\ Reads(file'["chain"], SubSeq(w, 1, m)) /\ SubSeq(w, 1, m) \in Seq(Record)
         /\ R = Images(SummaryOf, w) /\ R' = SubSeq(Images(SummaryOf, w), 1, m)
  BY <1>2
<1>4. PICK v \in Seq(Credential) : \E n \in 0..Len(v) :
         /\ Reads(file'["creds"], SubSeq(v, 1, n)) /\ SubSeq(v, 1, n) \in Seq(Credential)
         /\ C = Images(PlanOf, v) /\ C' = SubSeq(Images(PlanOf, v), 1, n)
  BY PowerCutWhole
<1>5. PICK n \in 0..Len(v) :
         /\ Reads(file'["creds"], SubSeq(v, 1, n)) /\ SubSeq(v, 1, n) \in Seq(Credential)
         /\ C = Images(PlanOf, v) /\ C' = SubSeq(Images(PlanOf, v), 1, n)
  BY <1>4
<1> HIDE DEF R, C
<1> DEFINE q == SubSeq(w, 1, m)
           u == SubSeq(v, 1, n)
<1>6. /\ Len(q) = m /\ m \in Nat /\ DOMAIN q = 1..m /\ \A i \in 1..m : q[i] = w[i]
      /\ Len(u) = n /\ n \in Nat /\ DOMAIN u = 1..n
      /\ 1..m \subseteq DOMAIN w
  BY <1>3, <1>5
<1>7. q \in Seq(Record) /\ u \in Seq(Credential) /\ Reads(file'["chain"], q) /\ Reads(file'["creds"], u)
  BY <1>3, <1>5
<1> HIDE DEF q, u
<1>8. (\A i \in DOMAIN q : q[i].seq = i) /\ (\A i \in DOMAIN u : u[i].seq = i)
  <2>1. Orderly("chain", file'["chain"]) /\ Orderly("creds", file'["creds"])
    BY <1>1 DEF TInv, Readable
  <2> QED
    BY <1>1, <1>7, <2>1, Numbered
<1>9. /\ \A i \in 1..m : file'["chain"][i] = q[i] /\ file'["chain"][i] # Torn
      /\ m <= Len(file'["chain"]) /\ Len(file'["chain"]) <= m + 1
      /\ Len(file'["chain"]) = m + 1 => file'["chain"][Len(file'["chain"])] = Torn
      /\ file'["chain"] \in Seq(Record \cup {Torn})
  <2> DEFINE s == file'["chain"]
             S == Record
  <2>1. q \in Seq(S) /\ Reads(s, q) /\ Torn \notin S
    BY <1>1, <1>7
  <2> HIDE DEF s, S
  <2>2. /\ s \in Seq(S \cup {Torn}) /\ Len(q) \in Nat
        /\ Len(q) <= Len(s) /\ Len(s) <= Len(q) + 1
        /\ \A i \in 1..Len(q) : s[i] = q[i] /\ s[i] # Torn
    BY <2>1, WholeOf, SMTT(60) DEF Reads, NoTear, Tears
  <2>3. Len(s) = Len(q) + 1 => s[Len(s)] = Torn
    BY <2>1, <2>2 DEF Reads, Tears
  <2> QED
    BY <1>6, <2>2, <2>3 DEF s, S
<1>10. /\ \A i \in 1..n : file'["creds"][i] = u[i]
       /\ n <= Len(file'["creds"]) /\ Len(file'["creds"]) <= n + 1
       /\ Len(file'["creds"]) = n + 1 => file'["creds"][Len(file'["creds"])] = Torn
       /\ file'["creds"] \in Seq(Credential \cup {Torn})
  <2> DEFINE s == file'["creds"]
             S == Credential
  <2>1. u \in Seq(S) /\ Reads(s, u) /\ Torn \notin S
    BY <1>1, <1>7
  <2> HIDE DEF s, S
  <2>2. /\ s \in Seq(S \cup {Torn}) /\ Len(u) \in Nat
        /\ Len(u) <= Len(s) /\ Len(s) <= Len(u) + 1
        /\ \A i \in 1..Len(u) : s[i] = u[i] /\ s[i] # Torn
    BY <2>1, WholeOf, SMTT(60) DEF Reads, NoTear, Tears
  <2>3. Len(s) = Len(u) + 1 => s[Len(s)] = Torn
    BY <2>1, <2>2 DEF Reads, Tears
  <2> QED
    BY <1>6, <2>2, <2>3 DEF s, S
<1>11. /\ synced'["chain"] \in Nat /\ synced'["chain"] <= Len(file'["chain"])
       /\ synced'["creds"] \in Nat /\ synced'["creds"] <= Len(file'["creds"])
       /\ returned \in SUBSET Record /\ returned' = returned
  BY <1>1 DEF TInv, IInv, TypeOK, PowerCut
<1>12. ASSUME NEW r \in returned PROVE r.seq \in 1..m
  <2>1. PICK i \in 1..synced'["chain"] : file'["chain"][i] = r
    BY <1>11 DEF TInv, IInv, ReturnedOnDisk
  <2>2. r # Torn
    BY <1>1, <1>11
  <2>3. i \in 1..m
    BY <1>6, <1>9, <1>11, <2>1, <2>2
  <2> QED
    BY <1>6, <1>8, <1>9, <2>1, <2>3
<1>13. ASSUME NEW j \in 1..m, w[j].action = Sealed PROVE w[j].credential \in 1..n
  <2> DEFINE r == q[j]
  <2>1. /\ file'["chain"][j] = r /\ r # Torn /\ r.action = Sealed /\ r = w[j]
        /\ j \in DOMAIN file'["chain"]
    BY <1>6, <1>9, <1>13
  <2>2. PICK k \in 1..synced'["creds"] :
           file'["creds"][k] = [seq |-> r.credential, plan |-> r.plan]
    BY <2>1 DEF TInv, IInv, SealHasCredential, HasCredential
  <2>3. r.credential \in Nat /\ r.plan \in Plans
    <3>1. r \in Record
      BY <1>6, <1>7
    <3> HIDE DEF r
    <3> QED
      BY <3>1 DEF Record
  <2> HIDE DEF r
  <2>4. file'["creds"][k] \in Credential
    BY <2>2, <2>3 DEF Credential
  <2>5. k \in 1..n
    BY <1>1, <1>6, <1>10, <1>11, <2>2, <2>4
  <2>6. file'["creds"][k].seq = k
    BY <1>6, <1>8, <1>10, <2>5
  <2> QED
    BY <2>1, <2>2, <2>5, <2>6
<1>14. /\ DOMAIN R = DOMAIN w /\ Len(R) = Len(w) /\ Len(C) = Len(v)
       /\ \A j \in DOMAIN w : R[j].action = w[j].action /\ R[j].credential = w[j].credential
  <2>1. /\ Len(Images(SummaryOf, w)) = Len(w) /\ DOMAIN Images(SummaryOf, w) = DOMAIN w
        /\ \A i \in DOMAIN w : Images(SummaryOf, w)[i] = SummaryOf[w[i]]
    BY TrailTypes, ImagesParts DEF Images
  <2>2. Len(Images(PlanOf, v)) = Len(v)
    BY TrailTypes, ImagesParts DEF Images
  <2>3. \A j \in DOMAIN w : /\ SummaryOf[w[j]].action = w[j].action
                            /\ SummaryOf[w[j]].credential = w[j].credential
    BY DEF SummaryOf
  <2> QED
    BY <1>3, <1>5, <2>1, <2>2, <2>3
<1>15. m \in 0..Len(R) /\ n \in 0..Len(C) /\ R' = SubSeq(R, 1, m) /\ C' = SubSeq(C, 1, n)
  BY <1>3, <1>5, <1>14
<1>16. Trail!LoseTails(m, n)
  <2>1. {r.seq : r \in returned} \subseteq 1..m /\ {r.seq : r \in returned'} = {r.seq : r \in returned}
    BY <1>11, <1>12
  <2>2. \A j \in 1..m : R[j].action = Sealed => R[j].credential <= n
    BY <1>6, <1>13, <1>14
  <2> QED
    BY <1>15, <2>1, <2>2 DEF Trail!LoseTails, Trail!Seals, R, C
<1> QED
  BY <1>15, <1>16 DEF Trail!Next, R, C

(* If writes and syncs succeed, the two files together are one trail,      *)
(* wherever a kill or a power cut comes: also in between the credential    *)
(* and its seal.                                                           *)
THEOREM StoreKeepsTrail ==
    ASSUME SyncsHold, "write" \notin Faults
    PROVE  Spec => KeepsTrail
<1>1. Init => Trail!Init
  <2> SUFFICES ASSUME Init PROVE Trail!Init
    OBVIOUS
  <2>1. \A f \in Files : Whole(file[f]) = << >>
    <3> TAKE f \in Files
    <3>1. Torn \notin FrameOf[f] /\ << >> \in Seq(FrameOf[f]) /\ Reads(file[f], << >>)
      BY FrameTypes DEF Init, EmptyMemory, Reads, Tears, NoTear
    <3> QED
      BY <3>1, WholeOf
  <2> QED
    BY <2>1 DEF Init, Trail!Init, RecordsOf, PlansOf, Files
<1>2. TInv /\ TInv' /\ [Next]_vars => [Trail!Next]_(Trail!vars)
  <2> SUFFICES ASSUME TInv, TInv', [Next]_vars PROVE [Trail!Next]_(Trail!vars)
    OBVIOUS
  <2>1. CASE WriteBody
    BY <2>1, BodyOnTrail
  <2>2. CASE PowerCut
    BY <2>2, PowerCutOnTrail
  <2>3. CASE Sync
    BY <2>3, SyncOnTrail
  <2>4. CASE ~ WriteBody /\ ~ PowerCut /\ ~ Sync
    <3>1. UNCHANGED <<Whole(file["chain"]), Whole(file["creds"])>>
      BY <2>4, OtherReads, SameWhole DEF Files
    <3>2. returned' = returned
      BY <2>4 DEF Next, Open, BeginAppend, BeginIssue, WriteHeader, WriteFails, SyncFails,
         Close, Exit, vars
    <3>3. {r.seq : r \in returned'} = {r.seq : r \in returned}
      BY <3>2
    <3> QED
      BY <3>1, <3>3 DEF Trail!vars
  <2> QED
    BY <2>1, <2>2, <2>3, <2>4
<1> QED
  BY <1>1, <1>2, TrailHolds, PTL DEF Spec, KeepsTrail, Trail!Spec


-----------------------------------------------------------------------------
(* What a start finds of seals and credentials.                            *)

Chain == RecordsOf(Whole(file["chain"]))

Issued == PlansOf(Whole(file["creds"]))

Numbers == {r.seq : r \in returned}

SealsInOrder ==
    /\ \A i \in DOMAIN Chain : Chain[i].action = Sealed =>
          Chain[i].credential \in DOMAIN Issued /\ Issued[Chain[i].credential] = Chain[i].plan
    /\ \A i, j \in DOMAIN Chain :
          Chain[i].action = Sealed /\ Chain[j].action = Sealed
             /\ Chain[i].credential = Chain[j].credential => i = j

OneTrail ==
    /\ Chain \in Seq(Summary) /\ Issued \in Seq(Plans)
    /\ SealsInOrder
    /\ Numbers \subseteq DOMAIN Chain

LEMMA RecordedOnce ==
    ASSUME OneTrail, NEW e \in Summary, Chain' = Append(Chain, e), Issued' = Issued,
           Numbers' = Numbers,
           e.action = Sealed => /\ e.credential \in DOMAIN Issued /\ Issued[e.credential] = e.plan
                                /\ \A i \in DOMAIN Chain : Chain[i].action = Sealed =>
                                      Chain[i].credential # e.credential
    PROVE  OneTrail'
<1> DEFINE n == Len(Chain)
<1>1. /\ Chain \in Seq(Summary) /\ n \in Nat /\ DOMAIN Chain = 1..n
      /\ Chain' \in Seq(Summary) /\ DOMAIN Chain' = 1..(n + 1)
      /\ Chain'[n + 1] = e /\ \A i \in 1..n : Chain'[i] = Chain[i]
  BY DEF OneTrail
<1> HIDE DEF n
<1>2. \A i \in 1..(n + 1) : i # n + 1 => i \in 1..n
  BY <1>1
<1> QED
  BY <1>1, <1>2 DEF OneTrail, SealsInOrder

LEMMA TrailStepsInOrder == ASSUME OneTrail, [Trail!Next]_(Trail!vars) PROVE OneTrail'
<1>1. /\ Chain \in Seq(Summary) /\ Issued \in Seq(Plans)
      /\ DOMAIN Chain = 1..Len(Chain) /\ DOMAIN Issued = 1..Len(Issued)
      /\ Len(Chain) \in Nat /\ Len(Issued) \in Nat
  BY DEF OneTrail
<1>2. CASE UNCHANGED Trail!vars
  <2>1. Chain' = Chain /\ Issued' = Issued /\ Numbers' = Numbers
    BY <1>2 DEF Trail!vars, Chain, Issued, Numbers
  <2> QED
    BY <2>1 DEF OneTrail, SealsInOrder
<1>3. ASSUME NEW p \in Plans, NEW a \in Actions, Trail!Record(p, a) PROVE OneTrail'
  <2> DEFINE e == [plan |-> p, action |-> a, credential |-> 0]
  <2>1. Chain' = Append(Chain, e) /\ Issued' = Issued /\ Numbers' = Numbers
    BY <1>3 DEF Trail!Record, Chain, Issued, Numbers
  <2>2. e \in Summary /\ e.action # Sealed
    BY ConstantsAssumption DEF Summary
  <2> HIDE DEF e
  <2> QED
    BY <2>1, <2>2, RecordedOnce
<1>4. ASSUME NEW p \in Plans, Trail!Issue(p) PROVE OneTrail'
  <2>1. Chain' = Chain /\ Issued' = Append(Issued, p) /\ Numbers' = Numbers
    BY <1>4 DEF Trail!Issue, Chain, Issued, Numbers
  <2>2. /\ Issued' \in Seq(Plans) /\ \A n \in DOMAIN Issued : n \in DOMAIN Issued' /\ Issued'[n] = Issued[n]
    BY <1>1, <2>1
  <2> QED
    BY <2>1, <2>2 DEF OneTrail, SealsInOrder
<1>5. ASSUME NEW n \in DOMAIN Issued, Trail!Seal(n) PROVE OneTrail'
  <2> DEFINE e == [plan |-> Issued[n], action |-> Sealed, credential |-> n]
  <2>1. Chain' = Append(Chain, e) /\ Issued' = Issued /\ Numbers' = Numbers
    BY <1>5 DEF Trail!Seal, Chain, Issued, Numbers
  <2>2. \A i \in DOMAIN Chain : Chain[i].action = Sealed => Chain[i].credential # n
    BY <1>5 DEF Trail!Seal, Trail!Seals, Chain
  <2>3. e \in Summary /\ e.credential = n /\ Issued[e.credential] = e.plan
    BY <1>1 DEF Summary
  <2> HIDE DEF e
  <2> QED
    BY <2>1, <2>2, <2>3, RecordedOnce
<1>6. ASSUME NEW i \in DOMAIN Chain, Trail!Return(i) PROVE OneTrail'
  <2>1. Chain' = Chain /\ Issued' = Issued /\ Numbers' = Numbers \cup {i}
    BY <1>6 DEF Trail!Return, Chain, Issued, Numbers
  <2> QED
    BY <2>1, <1>6 DEF OneTrail, SealsInOrder
<1>7. ASSUME NEW k \in 0..Len(Chain), NEW n \in 0..Len(Issued), Trail!LoseTails(k, n) PROVE OneTrail'
  <2>1. /\ Chain' = SubSeq(Chain, 1, k) /\ Issued' = SubSeq(Issued, 1, n) /\ Numbers' = Numbers
        /\ Numbers \subseteq 1..k
    BY <1>7 DEF Trail!LoseTails, Chain, Issued, Numbers
  <2>2. \A j \in 1..k, m \in DOMAIN Issued :
           Chain[j].action = Sealed /\ Chain[j].credential = m => m <= n
    BY <1>7 DEF Trail!LoseTails, Trail!Seals, Chain, Issued
  <2>3. /\ Chain' \in Seq(Summary) /\ DOMAIN Chain' = 1..k /\ \A j \in 1..k : Chain'[j] = Chain[j]
        /\ Issued' \in Seq(Plans) /\ DOMAIN Issued' = 1..n /\ \A j \in 1..n : Issued'[j] = Issued[j]
        /\ 1..k \subseteq DOMAIN Chain
    BY <1>1, <2>1
  <2>4. SealsInOrder'
    <3>1. ASSUME NEW j \in 1..k, Chain[j].action = Sealed
          PROVE  Chain[j].credential \in 1..n /\ Issued'[Chain[j].credential] = Chain[j].plan
      BY <1>1, <2>2, <2>3, <3>1 DEF OneTrail, SealsInOrder
    <3>2. \A i, j \in 1..k : Chain[i].action = Sealed /\ Chain[j].action = Sealed
                                /\ Chain[i].credential = Chain[j].credential => i = j
      BY <2>3 DEF OneTrail, SealsInOrder
    <3> QED
      BY <2>3, <3>1, <3>2 DEF SealsInOrder
  <2> QED
    BY <2>1, <2>3, <2>4 DEF OneTrail
<1> QED
  BY <1>2, <1>3, <1>4, <1>5, <1>6, <1>7 DEF Trail!Next, Chain, Issued

(* Wherever the store was stopped, what a start finds has for each seal    *)
(* its credential, for the plan that the seal names, for each credential   *)
(* one seal at most, and in its place a record for each that was returned. *)
THEOREM FilesAreOneTrail ==
    ASSUME SyncsHold, "write" \notin Faults
    PROVE  Spec => []OneTrail
<1>1. Trail!Init => OneTrail
  <2> SUFFICES ASSUME Trail!Init PROVE OneTrail
    OBVIOUS
  <2>1. Chain = << >> /\ Issued = << >> /\ Numbers = {}
    BY DEF Trail!Init, Chain, Issued, Numbers
  <2> QED
    BY <2>1 DEF OneTrail, SealsInOrder
<1> QED
  BY <1>1, TrailStepsInOrder, StoreKeepsTrail, PTL DEF KeepsTrail, Trail!Spec

=============================================================================

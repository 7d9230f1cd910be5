----------------------------- MODULE AuditStore -----------------------------
(***************************************************************************)
(* The audit store, internal/audit: audit.chain, the chain of audit        *)
(* records, and credentials.log, the log of credentials, each with the     *)
(* process's memory of it.  Append adds a record to the chain; Issue adds  *)
(* a credential to its log, and then a record that seals it to the chain.  *)
(*                                                                         *)
(* A frame is written in two writes, its length and its body, and then     *)
(* synced; each is an action.  The memory follows the sync.  The store's   *)
(* mutex is held throughout, Issue's two frames included: no reader sees   *)
(* the store in between, but a kill or a power cut can fall there.         *)
(*                                                                         *)
(* A digest is represented by what it is a digest of.  Times, actors and   *)
(* what else a frame says about its plan are left out.                     *)
(***************************************************************************)
EXTENDS Integers, Sequences, SequencesExt, Payloads

CONSTANTS
    Plans,      \* plan identifiers
    Actions,    \* kinds of commands
    Faults,     \* what may go wrong in this instance, see AllFaults
    MaxFrames,  \* bound on the length of each file
    Torn,       \* the beginning of a frame, without its end
    None        \* no write in progress

AllFaults == {"kill", "power", "write", "sync"}

Files == {"chain", "creds"}

Sealed == "credential.sealed"

(* What a record says: its place, its plan, its action, the credential it  *)
(* seals or 0.                                                             *)
Entry == Nat \X Plans \X (Actions \cup {Sealed}) \X Nat

(* The digest of a record stands for the record and all before it. *)
Record == [seq : Nat, plan : Plans, action : Actions \cup {Sealed}, credential : Nat,
           previous : Seq(Entry)]

Credential == [seq : Nat, plan : Plans]

FrameOf == [f \in Files |-> IF f = "chain" THEN Record ELSE Credential]

(* A frame being written: to which file, how far, what. *)
Write == [file : Files, stage : {"header", "body", "sync"}, frame : Record \cup Credential]

ASSUME ConstantsAssumption ==
    /\ Sealed \notin Actions
    /\ Faults \subseteq AllFaults
    /\ MaxFrames \in Nat
    /\ Torn \notin Record \cup Credential
    /\ None \notin Write

VARIABLES
    file,      \* the frames of each file, as a process reads them
    synced,    \* how many of them the last successful fsync covered
    phase,     \* of the process
    memory,    \* records and credentials of the Store, in their order
    write,     \* the frame being written, or None
    returned   \* what Append and Issue returned without an error

vars == <<file, synced, phase, memory, write, returned>>

EmptyMemory == [f \in Files |-> << >>]

-----------------------------------------------------------------------------
(* The chain of digests. *)

Digest(r) == Append(r.previous, <<r.seq, r.plan, r.action, r.credential>>)

LastDigest(records) == IF records = << >> THEN << >> ELSE Digest(records[Len(records)])

(* verifyRecords, but for the records' own digests. *)
Linked(records) ==
    \A i \in DOMAIN records :
        /\ records[i].seq = i
        /\ records[i].previous = LastDigest(SubSeq(records, 1, i - 1))

NoTear(s) == \A i \in DOMAIN s : s[i] # Torn

(* readFrames and the checks of loadAudit: a record's own digest is taken  *)
(* again, over the payload as decoded.                                     *)
ChainLoads(s) ==
    /\ NoTear(s)
    /\ \A i \in DOMAIN s : KeepsDigest(s[i].action)
    /\ Linked(s)

CredentialsLoad(s) == NoTear(s) /\ \A i \in DOMAIN s : s[i].seq = i

-----------------------------------------------------------------------------
Init ==
    /\ file = EmptyMemory /\ synced = [f \in Files |-> 0]
    /\ phase = "down" /\ memory = EmptyMemory
    /\ write = None
    /\ returned = {}

(* Wrong: the credentials are checked, and not kept. *)
OpenedWithoutCredentials ==
    /\ phase = "down"
    /\ IF ChainLoads(file["chain"]) /\ CredentialsLoad(file["creds"])
          THEN phase' = "open" /\ memory' = [EmptyMemory EXCEPT !["chain"] = file["chain"]]
          ELSE phase' = "refused" /\ UNCHANGED memory
    /\ UNCHANGED <<file, synced, write, returned>>

Open ==
    /\ phase = "down"
    /\ IF ChainLoads(file["chain"]) /\ CredentialsLoad(file["creds"])
          THEN phase' = "open" /\ memory' = file
          ELSE phase' = "refused" /\ UNCHANGED memory
    /\ UNCHANGED <<file, synced, write, returned>>

(* Wrong: numbered after what the file holds, not after the memory. *)
NumberedByFile(p, a, n) ==
    [seq |-> Len(file["chain"]) + 1, plan |-> p, action |-> a, credential |-> n,
     previous |-> LastDigest(memory["chain"])]

NextRecord(p, a, n) ==
    [seq |-> Len(memory["chain"]) + 1, plan |-> p, action |-> a, credential |-> n,
     previous |-> LastDigest(memory["chain"])]

Start(f, frame) == [file |-> f, stage |-> "header", frame |-> frame]

Idle == phase = "open" /\ write = None

(* Append, from its call up to the first write. *)
BeginAppend(p, a) ==
    /\ Idle
    /\ Len(file["chain"]) < MaxFrames
    /\ write' = Start("chain", NextRecord(p, a, 0))
    /\ UNCHANGED <<file, synced, phase, memory, returned>>

(* Issue, up to the first write; its second frame needs room, too. *)
BeginIssue(p) ==
    /\ Idle
    /\ \A f \in Files : Len(file[f]) < MaxFrames
    /\ write' = Start("creds", [seq |-> Len(memory["creds"]) + 1, plan |-> p])
    /\ UNCHANGED <<file, synced, phase, memory, returned>>

At(stage) == write # None /\ write.stage = stage

(* The length: a reader would look for a body that is not there. *)
WriteHeader ==
    /\ At("header")
    /\ file' = [file EXCEPT ![write.file] = Append(@, Torn)]
    /\ write' = [write EXCEPT !.stage = "body"]
    /\ UNCHANGED <<synced, phase, memory, returned>>

WriteBody ==
    /\ At("body")
    /\ file' = [file EXCEPT ![write.file] = Append(Front(@), write.frame)]
    /\ write' = [write EXCEPT !.stage = "sync"]
    /\ UNCHANGED <<synced, phase, memory, returned>>

(* Either write: nothing, or a part of what it should, was written. *)
WriteFails ==
    /\ "write" \in Faults
    /\ \/ At("header") /\ file' \in {file, [file EXCEPT ![write.file] = Append(@, Torn)]}
       \/ At("body") /\ UNCHANGED file
    /\ write' = None
    /\ UNCHANGED <<synced, phase, memory, returned>>

(* Wrong: the credential is sealed with the number the next one will get.  *)
SealedOneAhead(f, frame) ==
    IF f = "creds" THEN Start("chain", NextRecord(frame.plan, Sealed, frame.seq + 1))
                   ELSE None

(* What follows a frame that is on disk: a credential's seal. *)
AfterSync(f, frame) ==
    IF f = "creds" THEN Start("chain", NextRecord(frame.plan, Sealed, frame.seq))
                   ELSE None

(* Wrong: the records are remembered, not the credentials. *)
RemembersRecords(m, f, frame) == [m EXCEPT !["chain"] = IF f = "chain" THEN Append(@, frame) ELSE @]

Remembered(m, f, frame) == [m EXCEPT ![f] = Append(@, frame)]

(* Wrong: without the sync, or with its error ignored. *)
SyncSkipped ==
    /\ At("sync")
    /\ memory' = Remembered(memory, write.file, write.frame)
    /\ write' = AfterSync(write.file, write.frame)
    /\ returned' = IF write.file = "chain" THEN returned \cup {write.frame} ELSE returned
    /\ UNCHANGED <<file, synced, phase>>

(* Wrong: Issue leaves the sync of the credential to that of the chain. *)
SyncsChainOnly ==
    /\ At("sync")
    /\ synced' = IF write.file = "chain" THEN [synced EXCEPT !["chain"] = Len(file["chain"])] ELSE synced
    /\ memory' = Remembered(memory, write.file, write.frame)
    /\ write' = AfterSync(write.file, write.frame)
    /\ returned' = IF write.file = "chain" THEN returned \cup {write.frame} ELSE returned
    /\ UNCHANGED <<file, phase>>

(* The frame is durable and remembered; after that of a record, the call   *)
(* returns.                                                                *)
Sync ==
    /\ At("sync")
    /\ synced' = [synced EXCEPT ![write.file] = Len(file[write.file])]
    /\ memory' = Remembered(memory, write.file, write.frame)
    /\ write' = AfterSync(write.file, write.frame)
    /\ returned' = IF write.file = "chain" THEN returned \cup {write.frame} ELSE returned
    /\ UNCHANGED <<file, phase>>

(* The frame stays in the file; the memory does not know it. *)
SyncFails ==
    /\ "sync" \in Faults
    /\ At("sync")
    /\ write' = None
    /\ UNCHANGED <<file, synced, phase, memory, returned>>

(* Wrong: Close does not take the store's mutex. *)
CloseUnlocked ==
    /\ phase = "open"
    /\ phase' = "closed"
    /\ UNCHANGED <<file, synced, memory, write, returned>>

(* Reads are still answered from memory. *)
Close ==
    /\ Idle
    /\ phase' = "closed"
    /\ UNCHANGED <<file, synced, memory, write, returned>>

Stopped == phase' = "down" /\ memory' = EmptyMemory /\ write' = None

Tears(s) == {s, Append(s, Torn)}

(* After Close the process exits; a kill ends it anywhere, even in write.  *)
Exit ==
    /\ phase = "closed" \/ (phase = "open" /\ "kill" \in Faults)
    /\ \/ UNCHANGED file
       \/ At("header") /\ file' = [file EXCEPT ![write.file] = Append(@, Torn)]
    /\ Stopped
    /\ UNCHANGED <<synced, returned>>

(* What a power cut may leave of file f. *)
Remains(f) ==
    UNION {IF n < Len(file[f]) \/ (At("header") /\ write.file = f)
              THEN Tears(SubSeq(file[f], 1, n)) ELSE {file[f]} : n \in synced[f]..Len(file[f])}

(* Of what was not synced, any part is lost, in each file by itself. *)
PowerCut ==
    /\ "power" \in Faults
    /\ phase # "refused"
    /\ \E c \in Remains("chain"), d \in Remains("creds") :
          file' = [f \in Files |-> IF f = "chain" THEN c ELSE d]
    /\ synced' = [f \in Files |-> Len(file'[f])]
    /\ Stopped
    /\ UNCHANGED returned

Next ==
    \/ Open
    \/ \E p \in Plans, a \in Actions : BeginAppend(p, a)
    \/ \E p \in Plans : BeginIssue(p)
    \/ WriteHeader
    \/ WriteBody
    \/ WriteFails
    \/ Sync
    \/ SyncFails
    \/ Close
    \/ Exit
    \/ PowerCut

Spec == Init /\ [][Next]_vars

-----------------------------------------------------------------------------
(* Properties.                                                             *)

(* The files and the memory have the shape of frame.go and store.go, and a *)
(* write is in progress in a running process only.                         *)
TypeOK ==
    /\ DOMAIN file = Files /\ DOMAIN memory = Files
    /\ synced \in [Files -> Nat]
    /\ \A f \in Files :
          /\ file[f] \in Seq(FrameOf[f] \cup {Torn})
          /\ memory[f] \in Seq(FrameOf[f])
          /\ synced[f] <= Len(file[f])
    /\ phase \in {"down", "open", "closed", "refused"}
    /\ write # None =>
          /\ phase = "open"
          /\ write \in Write
          /\ write.frame \in FrameOf[write.file]
    /\ returned \in SUBSET Record

(* README: "发现截断、乱序或内容损坏时拒绝启动".  A start is refused for a      *)
(* torn file only, and never for what the store itself wrote in full,      *)
(* wherever it was killed or the power was cut.                            *)
RefusesOnlyDamaged == phase = "refused" => ~ NoTear(file["chain"]) \/ ~ NoTear(file["creds"])

(* Between two calls the memory is what a restart would read.              *)
MemoryIsFile == Idle \/ phase = "closed" => memory = file

(* Whatever I/O fails, Timeline and VerifyCredential find the chain in     *)
(* memory linked: a record that could not be stored leaves no gap.         *)
MemoryLinked == Linked(memory["chain"])

(* The durable part of the log has the credential that r seals. *)
HasCredential(r) ==
    \E j \in 1..synced["creds"] : file["creds"][j] = [seq |-> r.credential, plan |-> r.plan]

(* Whatever fails, and wherever the process or the power ends, the chain   *)
(* seals only credentials that the durable part of their log holds, for    *)
(* the plan that the seal names.                                           *)
SealHasCredential ==
    \A i \in DOMAIN file["chain"] :
        LET r == file["chain"][i] IN
        r # Torn /\ r.action = Sealed => HasCredential(r)

(* What Append or Issue returned is on disk for good, and so is the        *)
(* credential it is the seal of.                                           *)
ReturnedOnDisk ==
    \A r \in returned :
        /\ \E i \in 1..synced["chain"] : file["chain"][i] = r
        /\ r.action = Sealed => HasCredential(r)

(* The frames of a file that a reader gets before the first torn one. *)
Whole(s) == SubSeq(s, 1, Max({n \in 0..Len(s) : \A i \in 1..n : s[i] # Torn}))

RecordsOf(s) ==
    [i \in DOMAIN s |-> [plan |-> s[i].plan, action |-> s[i].action, credential |-> s[i].credential]]

PlansOf(s) == [i \in DOMAIN s |-> s[i].plan]

(* As long as writes and syncs succeed, the two files of a store that is   *)
(* killed or loses power anywhere are one trail.                           *)
Trail == INSTANCE AuditTrail WITH
            records <- RecordsOf(Whole(file["chain"])), credentials <- PlansOf(Whole(file["creds"])),
            returned <- {r.seq : r \in returned}

KeepsTrail == Trail!Spec

=============================================================================

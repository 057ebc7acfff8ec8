--------------------------- MODULE PcasIndexProofs ---------------------------
(***************************************************************************)
(* What PcasIndex maintains for every set of processes, paths, inodes and  *)
(* digests, whatever the owner of the tree does, whatever calls fail and   *)
(* wherever a process dies.                                                *)
(***************************************************************************)
EXTENDS PcasIndex, TLAPS, FiniteSetTheorems

(* A job has the fields its label is about to use. *)
JobOK ==
    \A p \in Procs :
       /\ pc[p] \in {"hash", "apply", "create", "stage", "swap", "verify"} =>
             job[p].path \in Paths
       /\ pc[p] \in {"apply", "create", "rename", "drop", "stage", "swap",
                     "settle"} =>
             job[p].digest \in Digests
       /\ pc[p] = "apply" => job[p].inode \in Inodes
       /\ pc[p] \in {"rename", "drop", "swap", "verify", "settle",
                     "unlink"} =>
             job[p].entry \in Entry

TypeInv == TypeOK /\ JobOK

-----------------------------------------------------------------------------
(* The sentinels are no values, and the operators on ObjectIndex return an *)
(* ObjectIndex.                                                            *)

LEMMA Sentinels ==
    /\ NoPath \notin Paths /\ NoInode \notin Inodes /\ NoDigest \notin Digests
    /\ NoProc \notin Procs /\ NoEntry \notin Entry
    /\ 0 \in 0..MaxClock
BY SentinelAssumption, ModelAssumption DEF Entry

LEMMA InsertedType ==
    ASSUME NEW ix \in ObjectIndex, NEW r \in Entry
    PROVE  Inserted(ix, r) \in ObjectIndex
BY DEF Inserted, ObjectIndex, Entry

LEMMA RemovedType ==
    ASSUME NEW ix \in ObjectIndex, NEW r \in Entry
    PROVE  Removed(ix, r) \in ObjectIndex
BY DEF Removed, ObjectIndex, Entry

LEMMA NoJobType == NoJob \in Job /\ NoOpts \in Options /\ NoIndex \in ObjectIndex
BY Sentinels DEF NoJob, Job, NoOpts, Options, NoIndex, ObjectIndex

LEMMA InitTypeInv == Init => TypeInv
BY Sentinels, NoJobType, ModelAssumption
   DEF Init, TypeInv, TypeOK, JobOK, Labels

LEMMA ExitTypeInv ==
    ASSUME TypeInv, NEW p \in Procs, Exit(p), UNCHANGED <<userVars, entries>>,
           tmp' \subseteq tmp
    PROVE  TypeInv'
<1>1. TypeOK'
  BY NoJobType DEF TypeInv, TypeOK, Exit, GoTo, userVars, Labels
<1>2. JobOK'
  BY DEF TypeInv, TypeOK, JobOK, Exit, GoTo
<1> QED BY <1>1, <1>2 DEF TypeInv

LEMMA Phase1TypeInv ==
    ASSUME TypeInv, NEW p \in Procs, Acquire(p) \/ Phase1(p)
    PROVE  TypeInv'
<1> USE DEF TypeInv, TypeOK, JobOK, GoTo, Labels, userVars, diskVars
<1>1. CASE Acquire(p)
  BY <1>1 DEF Acquire, Options
<1>2. CASE CleanStaleTmp(p)
  BY <1>2 DEF CleanStaleTmp
<1>3. CASE ScanObjectIndex(p)
  <2>1. [records |-> entries,
         inodes  |-> [i \in Inodes |->
              IF \E e \in entries : e.inode = i
              THEN (CHOOSE e \in entries : e.inode = i).digest
              ELSE NoDigest]] \in ObjectIndex
    BY DEF ObjectIndex, Entry
  <2> QED BY <1>3, <2>1 DEF ScanObjectIndex
<1>4. CASE ScanRejects(p)
  BY <1>4, ExitTypeInv DEF ScanRejects
<1>5. CASE DiscoverFiles(p)
  BY <1>5 DEF DiscoverFiles, Options
<1>6. CASE SetupFails(p)
  BY <1>6, ExitTypeInv DEF SetupFails
<1> QED BY <1>1, <1>2, <1>3, <1>4, <1>5, <1>6 DEF Phase1

LEMMA VisitTypeInv ==
    ASSUME TypeInv, NEW p \in Procs, Visit(p)
    PROVE  TypeInv'
<1> USE DEF TypeInv, TypeOK, JobOK, GoTo, Note, Labels, userVars, diskVars
<1>0. NoJob \in Job
  BY NoJobType
<1>1. CASE \E q \in Paths :
            VisitGone(p, q) \/ VisitTrusted(p, q) \/ VisitUntrusted(p, q)
  <2>1. PICK q \in Paths :
           VisitGone(p, q) \/ VisitTrusted(p, q) \/ VisitUntrusted(p, q)
    BY <1>1
  <2>2. CASE VisitGone(p, q)
    BY <2>2 DEF VisitGone, Visiting
  <2>3. CASE VisitTrusted(p, q)
    BY <2>3 DEF VisitTrusted, Visiting
  <2>4. CASE VisitUntrusted(p, q)
    <3> DEFINE j == [NoJob EXCEPT !.path = q]
    <3>1. j \in Job /\ j.path \in Paths
      BY Sentinels DEF Job, NoJob
    <3>2. job' = [job EXCEPT ![p] = j]
      BY <2>4 DEF VisitUntrusted
    <3> HIDE DEF j
    <3> QED BY <2>4, <3>1, <3>2 DEF VisitUntrusted, Visiting
  <2> QED BY <2>1, <2>2, <2>3, <2>4
<1>2. CASE Hash(p)
  <2> DEFINE i == visible[job[p].path]
             j == [job[p] EXCEPT !.digest = content[i], !.inode = i]
  <2>1. i \in Inodes /\ job[p] \in Job
    BY <1>2 DEF Hash
  <2>2. /\ j \in Job /\ j.path = job[p].path
        /\ j.digest \in Digests /\ j.inode \in Inodes
    BY <2>1 DEF Job
  <2>3. job' = [job EXCEPT ![p] = j]
    BY <1>2 DEF Hash
  <2> HIDE DEF j, i
  <2>4. verified' \in [Procs -> SUBSET Inodes]
    BY <1>2, <2>1 DEF Hash, i
  <2>5. /\ GoTo(p, "apply") /\ pc[p] = "hash"
        /\ UNCHANGED <<userVars, diskVars, lock, opts, index, queue, pending,
                       failed>>
    BY <1>2 DEF Hash
  <2> QED BY <2>2, <2>3, <2>4, <2>5
<1>3. CASE HashFails(p)
  BY <1>0, <1>3 DEF HashFails, Resume
<1>4. CASE ApplyReused(p)
  BY <1>0, <1>4 DEF ApplyReused, Resume
<1>5. CASE ApplyNew(p)
  BY <1>0, <1>5 DEF ApplyNew, Job
<1>6. CASE ApplyChanged(p)
  <2>1. PICK old \in ForInode(p, job[p].inode) :
           job' = [job EXCEPT ![p].entry = old, ![p].ts = clock]
    BY <1>6 DEF ApplyChanged
  <2> DEFINE j == [job[p] EXCEPT !.entry = old, !.ts = clock]
  <2>2. old \in Entry
    BY <2>1 DEF ForInode, ObjectIndex
  <2>3. j \in Job /\ j.digest = job[p].digest /\ j.entry \in Entry
    BY <2>2 DEF Job
  <2>4. job' = [job EXCEPT ![p] = j]
    BY <2>1
  <2> HIDE DEF j
  <2> QED BY <1>6, <2>3, <2>4 DEF ApplyChanged
<1>7. CASE ApplyDuplicate(p)
  <2>1. CASE GoTo(p, "stage") /\ UNCHANGED job
    BY <1>7, <2>1 DEF ApplyDuplicate
  <2>2. CASE /\ GoTo(p, "drop")
             /\ \E old \in ForInode(p, job[p].inode) :
                   job' = [job EXCEPT ![p].entry = old]
    <3>1. PICK old \in ForInode(p, job[p].inode) :
             job' = [job EXCEPT ![p].entry = old]
      BY <2>2
    <3> DEFINE j == [job[p] EXCEPT !.entry = old]
    <3>2. old \in Entry
      BY <3>1 DEF ForInode, ObjectIndex
    <3>3. j \in Job /\ j.digest = job[p].digest /\ j.entry \in Entry
      BY <3>2 DEF Job
    <3>4. job' = [job EXCEPT ![p] = j]
      BY <3>1
    <3> HIDE DEF j
    <3> QED BY <1>7, <2>2, <3>3, <3>4 DEF ApplyDuplicate
  <2> QED BY <1>7, <2>1, <2>2 DEF ApplyDuplicate
<1>8. CASE FinishVisits(p)
  <2>1. UnverifiedRecords(p) \subseteq Entry /\ index[p].records \subseteq Entry
    BY DEF UnverifiedRecords, ObjectIndex
  <2>2. pending' \in [Procs -> SUBSET Entry]
    BY <1>8, <2>1 DEF FinishVisits
  <2>3. \E label \in {"retain", "prune"} : GoTo(p, label)
    BY <1>8 DEF FinishVisits
  <2>4. UNCHANGED <<userVars, diskVars, lock, opts, index, queue, verified,
                    job, failed>>
    BY <1>8 DEF FinishVisits
  <2> QED BY <2>2, <2>3, <2>4
<1> QED BY <1>1, <1>2, <1>3, <1>4, <1>5, <1>6, <1>7, <1>8 DEF Visit

LEMMA RepairTypeInv ==
    ASSUME TypeInv, NEW p \in Procs, Repair(p)
    PROVE  TypeInv'
<1> USE DEF TypeInv, TypeOK, JobOK, GoTo, Note, Labels, userVars, diskVars
<1>0. NoJob \in Job
  BY NoJobType
<1>1. CASE CreateObjectEntry(p)
  <2> DEFINE new == [digest |-> job[p].digest, ts |-> job[p].ts,
                     inode |-> visible[job[p].path]]
  <2>1. new \in Entry
    BY <1>1 DEF CreateObjectEntry, SourceExists, Entry, Job
  <2>2. Inserted(index[p], new) \in ObjectIndex
    BY <2>1, InsertedType
  <2> QED BY <1>0, <1>1, <2>1, <2>2 DEF CreateObjectEntry, Resume
<1>2. CASE CreateFails(p)
  <2>1. SourceExists(p) =>
           [digest |-> job[p].digest, ts |-> job[p].ts,
            inode |-> visible[job[p].path]] \in Entry
    BY <1>2 DEF CreateFails, SourceExists, Entry, Job
  <2> QED BY <1>0, <1>2, <2>1 DEF CreateFails, Resume
<1>3. CASE RenameObject(p)
  <2>1. Renamed(p) \in Entry
    BY <1>3 DEF RenameObject, Renamed, Entry, Job
  <2>2. Inserted(Removed(index[p], job[p].entry), Renamed(p)) \in ObjectIndex
    BY <1>3, <2>1, InsertedType, RemovedType DEF RenameObject
  <2> QED BY <1>0, <1>3, <2>1, <2>2 DEF RenameObject, AfterRename, Resume
<1>4. CASE RenameFails(p)
  <2>1. Renamed(p) \in Entry
    BY <1>4 DEF RenameFails, Renamed, Entry, Job
  <2>2. Removed(index[p], job[p].entry) \in ObjectIndex
    BY <1>4, RemovedType DEF RenameFails
  <2> QED BY <1>0, <1>4, <2>1, <2>2 DEF RenameFails, AfterRename, Resume
<1>5. CASE DropStale(p)
  <2>1. Removed(index[p], job[p].entry) \in ObjectIndex
    BY <1>5, RemovedType DEF DropStale
  <2>2. CASE job[p].path = NoPath /\ Resume(p, FALSE)
    BY <1>0, <1>5, <2>1, <2>2 DEF DropStale, Resume
  <2>3. CASE /\ job[p].path # NoPath
             /\ GoTo(p, "stage") /\ UNCHANGED <<job, failed>>
    <3>1. job[p].path \in Paths
      BY <2>3 DEF Job
    <3> QED BY <1>5, <2>1, <2>3, <3>1 DEF DropStale
  <2> QED BY <1>5, <2>2, <2>3 DEF DropStale
<1>6. CASE DropFails(p)
  <2>1. Removed(index[p], job[p].entry) \in ObjectIndex
    BY <1>6, RemovedType DEF DropFails
  <2> QED BY <1>0, <1>6, <2>1 DEF DropFails, Resume
<1>7. CASE StageLink(p)
  <2>1. PICK r \in ForDigest(p, job[p].digest) \cap entries :
           /\ tmp' = tmp \cup {[path |-> job[p].path, inode |-> r.inode]}
           /\ job' = [job EXCEPT ![p].entry = r]
    BY <1>7 DEF StageLink
  <2> DEFINE j == [job[p] EXCEPT !.entry = r]
  <2>2. r \in Entry
    BY <2>1
  <2>3. /\ j \in Job /\ j.digest = job[p].digest /\ j.entry \in Entry
        /\ j.path = job[p].path
    BY <2>2 DEF Job
  <2>4. job' = [job EXCEPT ![p] = j]
    BY <2>1
  <2>5. tmp' \subseteq [path : Paths, inode : Inodes]
    BY <1>7, <2>1, <2>2 DEF StageLink, Entry
  <2> HIDE DEF j
  <2> QED BY <1>7, <2>3, <2>4, <2>5 DEF StageLink
<1>8. CASE StageFails(p)
  BY <1>0, <1>8 DEF StageFails, Resume
<1>9. CASE SwapIn(p)
  BY <1>0, <1>9 DEF SwapIn, Staged, Entry
<1>10. CASE SwapFails(p)
  BY <1>0, <1>10 DEF SwapFails, Resume
<1>11. CASE VerifySwap(p)
  <2>1. \A failure : Resume(p, failure) =>
           /\ job' \in [Procs -> Job]
           /\ failed' \in [Procs -> BOOLEAN]
    BY <1>0 DEF Resume
  <2>2. \E label \in {"retain", "visit"} :
           GoTo(p, label) /\ job' = [job EXCEPT ![p] = NoJob]
    BY <1>11 DEF VerifySwap, Resume
  <2> QED BY <1>11, <2>1, <2>2 DEF VerifySwap
<1> QED BY <1>1, <1>2, <1>3, <1>4, <1>5, <1>6, <1>7, <1>8, <1>9, <1>10, <1>11 DEF Repair

LEMMA RetainedTypeInv ==
    ASSUME TypeInv, NEW p \in Procs, Retained(p)
    PROVE  TypeInv'
<1> USE DEF TypeInv, TypeOK, JobOK, GoTo, Note, Labels, userVars, diskVars
<1>0. NoJob \in Job
  BY NoJobType
<1>1. CASE \E r \in pending[p] :
            \/ RetainedSkip(p, r) \/ RetainedHash(p, r)
            \/ RetainedHashFails(p, r)
  <2>1. PICK r \in pending[p] :
           \/ RetainedSkip(p, r) \/ RetainedHash(p, r)
           \/ RetainedHashFails(p, r)
    BY <1>1
  <2>2. CASE RetainedSkip(p, r)
    BY <2>2 DEF RetainedSkip, Retaining
  <2>3. CASE RetainedHash(p, r)
    <3>1. r \in Entry
      BY DEF Retaining
    <3>2. \A known \in ForDigest(p, r.digest) :
             [NoJob EXCEPT !.digest = content[r.inode], !.inode = r.inode,
                           !.entry = known] \in Job
      BY <3>1, Sentinels DEF ForDigest, ObjectIndex, Entry, Job, NoJob
    <3>3. \A known \in ForDigest(p, r.digest) :
             [NoJob EXCEPT !.digest = content[r.inode], !.inode = r.inode,
                           !.entry = known].digest \in Digests
      BY <3>1 DEF Entry, NoJob
    <3>4. \A known \in ForDigest(p, r.digest) :
             [NoJob EXCEPT !.digest = content[r.inode], !.inode = r.inode,
                           !.entry = known].entry \in Entry
      BY DEF ForDigest, ObjectIndex, NoJob
    <3> QED BY <2>3, <3>2, <3>3, <3>4 DEF RetainedHash, Retaining
  <2>4. CASE RetainedHashFails(p, r)
    BY <2>4 DEF RetainedHashFails, Retaining
  <2> QED BY <2>1, <2>2, <2>3, <2>4
<1>2. CASE SettleSame(p)
  BY <1>0, <1>2 DEF SettleSame, Resume
<1>3. CASE SettleChanged(p)
  <2>1. CASE UNCHANGED job
    BY <1>3, <2>1 DEF SettleChanged
  <2>2. CASE job' = [job EXCEPT ![p].ts = clock]
    <3> DEFINE j == [job[p] EXCEPT !.ts = clock]
    <3>1. /\ j \in Job /\ j.digest = job[p].digest
          /\ j.entry = job[p].entry
      BY DEF Job
    <3>2. job' = [job EXCEPT ![p] = j]
      BY <2>2
    <3> HIDE DEF j
    <3> QED BY <1>3, <3>1, <3>2 DEF SettleChanged
  <2> QED BY <1>3, <2>1, <2>2 DEF SettleChanged
<1>4. CASE FinishRetained(p)
  BY <1>0, <1>4 DEF FinishRetained, ObjectIndex
<1> QED BY <1>1, <1>2, <1>3, <1>4 DEF Retained

LEMMA PruneTypeInv ==
    ASSUME TypeInv, NEW p \in Procs, Prune(p)
    PROVE  TypeInv'
<1> USE DEF TypeInv, TypeOK, JobOK, GoTo, Note, Labels, userVars, diskVars
<1>0. NoJob \in Job
  BY NoJobType
<1>1. CASE \E r \in pending[p] : PruneStat(p, r)
  <2>1. PICK r \in pending[p] : PruneStat(p, r)
    BY <1>1
  <2>2. [NoJob EXCEPT !.entry = r] \in Job
    BY Sentinels DEF Job, NoJob
  <2>3. [NoJob EXCEPT !.entry = r].entry \in Entry
    BY DEF NoJob
  <2>4. CASE /\ job' = [job EXCEPT ![p] = [NoJob EXCEPT !.entry = r]]
             /\ GoTo(p, "unlink") /\ UNCHANGED failed
    <3> DEFINE j == [NoJob EXCEPT !.entry = r]
    <3>1. j \in Job /\ j.entry \in Entry /\ job' = [job EXCEPT ![p] = j]
      BY <2>2, <2>3, <2>4
    <3> HIDE DEF j
    <3>2. /\ UNCHANGED <<userVars, diskVars, lock, opts, index, queue, verified, failed>>
          /\ pending' = [pending EXCEPT ![p] = @ \ {r}]
      BY <2>1, <2>4 DEF PruneStat
    <3>3. TypeOK'
      BY <2>4, <3>1, <3>2
    <3>4. JobOK'
      BY <2>4, <3>1
    <3> QED BY <3>3, <3>4
  <2>5. CASE UNCHANGED <<pc, job, failed>>
    BY <2>1, <2>5 DEF PruneStat
  <2>6. CASE Note(p, TRUE) /\ UNCHANGED <<pc, job>>
    BY <2>1, <2>6 DEF PruneStat
  <2> QED BY <2>1, <2>4, <2>5, <2>6 DEF PruneStat
<1>2. CASE PruneUnlink(p)
  BY <1>0, <1>2 DEF PruneUnlink
<1>3. CASE FinishPrune(p)
  BY <1>0, <1>3 DEF FinishPrune
<1>4. CASE Release(p)
  BY <1>4, ExitTypeInv DEF Release
<1> QED BY <1>1, <1>2, <1>3, <1>4 DEF Prune

LEMMA BackdatedType ==
    ASSUME NEW m \in Nat, NEW c \in 0..m, NEW lag \in Nat, lag <= c
    PROVE  c - lag \in 0..m
OBVIOUS

LEMMA StampedType ==
    ASSUME TypeInv, NEW i \in Inodes, Stamped(i)
    PROVE  clock' \in 0..MaxClock /\ mtime' \in [Inodes -> 0..MaxClock]
<1>1. clock' \in 0..MaxClock
  BY ModelAssumption DEF TypeInv, TypeOK, Stamped
<1>2. PICK lag \in 0..MtimeLag :
         lag <= clock' /\ mtime' = [mtime EXCEPT ![i] = clock' - lag]
  BY DEF Stamped
<1>3. lag \in Nat /\ MaxClock \in Nat /\ lag <= clock'
  BY <1>2, ModelAssumption
<1>4. clock' - lag \in 0..MaxClock
  BY <1>1, <1>3, BackdatedType
<1> QED BY <1>1, <1>2, <1>4 DEF TypeInv, TypeOK

LEMMA UserTypeInv ==
    ASSUME TypeInv, User
    PROVE  TypeInv'
<1> USE DEF TypeInv, TypeOK, JobOK, diskVars, procVars
<1>1. PICK q \in Paths :
         \/ UserReplaces(q) \/ UserWritesInPlace(q) \/ UserRemoves(q)
         \/ \E dest \in Paths : UserMoves(q, dest) \/ UserLinks(q, dest)
  BY DEF User
<1>2. CASE UserReplaces(q)
  <2>1. PICK i \in Inodes, d \in Digests :
           /\ Stamped(i)
           /\ visible' = [visible EXCEPT ![q] = i]
           /\ content' = [content EXCEPT ![i] = d]
    BY <1>2 DEF UserReplaces
  <2> QED BY <1>2, <2>1, StampedType DEF UserReplaces
<1>3. CASE UserWritesInPlace(q)
  BY <1>3, StampedType DEF UserWritesInPlace
<1>4. CASE UserRemoves(q)
  BY <1>4 DEF UserRemoves
<1>5. CASE \E dest \in Paths : UserMoves(q, dest) \/ UserLinks(q, dest)
  BY <1>5 DEF UserMoves, UserLinks
<1> QED BY <1>1, <1>2, <1>3, <1>4, <1>5

LEMMA TypeInvStep == TypeInv /\ [Next]_vars => TypeInv'
<1> SUFFICES ASSUME TypeInv, [Next]_vars PROVE TypeInv'
  OBVIOUS
<1>1. ASSUME NEW p \in Procs, Acquire(p) \/ RunStep(p) PROVE TypeInv'
  BY <1>1, Phase1TypeInv, VisitTypeInv, RepairTypeInv, RetainedTypeInv,
     PruneTypeInv DEF RunStep
<1>2. ASSUME NEW p \in Procs, Crash(p) PROVE TypeInv'
  BY <1>2, ExitTypeInv DEF Crash, diskVars
<1>3. CASE User
  BY <1>3, UserTypeInv
<1>4. CASE UNCHANGED vars
  BY <1>4 DEF TypeInv, TypeOK, JobOK, vars, userVars, diskVars, procVars
<1> QED BY <1>1, <1>2, <1>3, <1>4 DEF Next

\* Every variable keeps its type: nothing a run, a crash or the owner does
\* yields an entry, a record or a job outside its domain.
THEOREM TypeCorrect == Spec => []TypeOK
<1>1. Spec => []TypeInv
  BY InitTypeInv, TypeInvStep, PTL DEF Spec
<1> QED BY <1>1, PTL DEF TypeInv

-----------------------------------------------------------------------------
(* The inductive invariant.  Only the holder of the lock is past idle, so  *)
(* the disk changes under no one's feet; and what the holder remembers of  *)
(* it stays true from one of its calls to the next.                        *)

LockInv == \A p \in Procs : pc[p] # "idle" => lock = p

MapsAgree(ix) ==
    \A i \in Inodes : ix.inodes[i] # NoDigest =>
       \E r \in ix.records : r.digest = ix.inodes[i] /\ r.inode = i

\* An entry is only ever created under, or renamed to, a digest that
\* ObjectIndex lacks: insert never overwrites a record of another inode.
FreshDigest(p) ==
    pc[p] \in {"create", "rename"} => ForDigest(p, job[p].digest) = {}

DiskInv(p) ==
    /\ pc[p] \in Reconciling => index[p].records \subseteq entries
    /\ pc[p] \in {"prune", "unlink"} => pending[p] \subseteq entries
    /\ pc[p] \in {"rename", "drop", "settle"} =>
          job[p].entry \in index[p].records
    /\ pc[p] = "unlink" =>
          job[p].entry \in entries /\ job[p].entry \notin pending[p]
    /\ pc[p] = "swap" => Staged(p) \in tmp

Local(p) == MapsAgree(index[p]) /\ FreshDigest(p) /\ DiskInv(p)

IndexInv == LockInv /\ \A p \in Procs : Local(p)

LEMMA InitIndexInv == Init => IndexInv
<1> SUFFICES ASSUME Init PROVE IndexInv
  OBVIOUS
<1>1. LockInv
  BY DEF Init, LockInv
<1>2. \A p \in Procs : MapsAgree(index[p])
  BY DEF Init, MapsAgree, NoIndex
<1>3. \A p \in Procs : FreshDigest(p) /\ DiskInv(p)
  BY DEF Init, FreshDigest, DiskInv, Reconciling
<1> QED BY <1>1, <1>2, <1>3 DEF IndexInv, Local

\* A process touches its own memory only.
Others(p) ==
    \A q \in Procs \ {p} :
       /\ pc'[q] = pc[q] /\ index'[q] = index[q]
       /\ pending'[q] = pending[q] /\ job'[q] = job[q]

LEMMA StepFrame ==
    ASSUME TypeInv, NEW p \in Procs, Acquire(p) \/ RunStep(p) \/ Crash(p)
    PROVE  /\ Others(p)
           /\ \/ pc[p] = "idle" /\ lock = NoProc /\ lock' = p
              \/ pc[p] # "idle" /\ pc'[p] # "idle" /\ lock' = lock
              \/ pc[p] # "idle" /\ pc'[p] = "idle" /\ lock' = NoProc
<1> USE DEF TypeInv, TypeOK, Others, GoTo, Note, Resume
<1>1. CASE Acquire(p)
  BY <1>1 DEF Acquire, LockFree
<1>2. CASE Exit(p) /\ pc[p] # "idle"
  BY <1>2 DEF Exit
<1>3. CASE Phase1(p)
  BY <1>2, <1>3 DEF Phase1, CleanStaleTmp, ScanObjectIndex, ScanRejects,
     DiscoverFiles, SetupFails
<1>4. CASE Visit(p)
  <2>1. CASE \E q \in Paths :
                VisitGone(p, q) \/ VisitTrusted(p, q) \/ VisitUntrusted(p, q)
    BY <2>1 DEF VisitGone, VisitTrusted, VisitUntrusted, Visiting
  <2>2. CASE Hash(p)
    BY <2>2 DEF Hash
  <2>3. CASE HashFails(p) \/ ApplyReused(p) \/ ApplyNew(p)
    BY <2>3 DEF HashFails, ApplyReused, ApplyNew
  <2>4. CASE ApplyChanged(p) \/ ApplyDuplicate(p) \/ FinishVisits(p)
    BY <2>4 DEF ApplyChanged, ApplyDuplicate, FinishVisits
  <2> QED BY <1>4, <2>1, <2>2, <2>3, <2>4 DEF Visit
<1>5. CASE Repair(p)
  <2>1. CASE CreateObjectEntry(p) \/ CreateFails(p)
    BY <2>1 DEF CreateObjectEntry, CreateFails
  <2>2. CASE RenameObject(p) \/ RenameFails(p)
    BY <2>2 DEF RenameObject, RenameFails
  <2>3. CASE DropStale(p) \/ DropFails(p)
    BY <2>3 DEF DropStale, DropFails
  <2>4. CASE StageLink(p) \/ StageFails(p)
    BY <2>4 DEF StageLink, StageFails
  <2>5. CASE SwapIn(p) \/ SwapFails(p) \/ VerifySwap(p)
    BY <2>5 DEF SwapIn, SwapFails, VerifySwap
  <2> QED BY <1>5, <2>1, <2>2, <2>3, <2>4, <2>5 DEF Repair
<1>6. CASE Retained(p)
  BY <1>6 DEF Retained, RetainedSkip, RetainedHash, RetainedHashFails,
     Retaining, SettleSame, SettleChanged, FinishRetained
<1>7. CASE Prune(p)
  BY <1>2, <1>7 DEF Prune, PruneStat, PruneUnlink, FinishPrune, Release
<1>8. CASE Crash(p)
  BY <1>2, <1>8 DEF Crash
<1> QED BY <1>1, <1>3, <1>4, <1>5, <1>6, <1>7, <1>8 DEF RunStep

\* While one process is past idle, the others are idle: what they hold is
\* untouched, and they hold nothing the disk could contradict.
LEMMA OthersLocal ==
    ASSUME TypeInv, IndexInv, NEW p \in Procs,
           Acquire(p) \/ RunStep(p) \/ Crash(p)
    PROVE  LockInv' /\ \A q \in Procs \ {p} : Local(q)'
<1>1. \A q \in Procs \ {p} : pc[q] = "idle"
  BY StepFrame, Sentinels DEF IndexInv, LockInv
<1>2. \A q \in Procs \ {p} : pc'[q] = "idle" /\ index'[q] = index[q]
  BY <1>1, StepFrame DEF Others
<1>3. LockInv'
  BY <1>2, StepFrame DEF IndexInv, LockInv
<1>4. \A q \in Procs \ {p} : MapsAgree(index[q])'
  BY <1>2 DEF IndexInv, Local, MapsAgree
<1>5. \A q \in Procs \ {p} : FreshDigest(q)' /\ DiskInv(q)'
  BY <1>2 DEF FreshDigest, DiskInv, Reconciling
<1> QED BY <1>3, <1>4, <1>5 DEF Local

-----------------------------------------------------------------------------
(* insert and remove keep the maps in agreement *)

\* remove never strands an inode: the only one it could is the record's own.
LEMMA RemovedAgrees ==
    ASSUME NEW ix \in ObjectIndex, MapsAgree(ix), NEW r \in Entry
    PROVE  MapsAgree(Removed(ix, r))
<1> SUFFICES ASSUME NEW i \in Inodes, Removed(ix, r).inodes[i] # NoDigest
             PROVE  \E x \in Removed(ix, r).records :
                       x.digest = Removed(ix, r).inodes[i] /\ x.inode = i
  BY DEF MapsAgree
<1>1. i # r.inode /\ Removed(ix, r).inodes[i] = ix.inodes[i]
  BY DEF Removed, ObjectIndex
<1>2. PICK x \in ix.records : x.digest = ix.inodes[i] /\ x.inode = i
  BY <1>1 DEF MapsAgree
<1>3. x \in Removed(ix, r).records
  BY <1>1, <1>2 DEF Removed
<1> QED BY <1>1, <1>2, <1>3

\* insert keeps them in agreement provided the digest is new to the index.
LEMMA InsertedAgrees ==
    ASSUME NEW ix \in ObjectIndex, MapsAgree(ix), NEW r \in Entry,
           \A x \in ix.records : x.digest # r.digest
    PROVE  MapsAgree(Inserted(ix, r))
<1> SUFFICES ASSUME NEW i \in Inodes, Inserted(ix, r).inodes[i] # NoDigest
             PROVE  \E x \in Inserted(ix, r).records :
                       x.digest = Inserted(ix, r).inodes[i] /\ x.inode = i
  BY DEF MapsAgree
<1>1. CASE i = r.inode
  BY <1>1 DEF Inserted, ObjectIndex
<1>2. CASE i # r.inode
  <2>1. PICK x \in ix.records : x.digest = ix.inodes[i] /\ x.inode = i
    BY <1>2 DEF Inserted, ObjectIndex, MapsAgree
  <2>2. x \in Inserted(ix, r).records
    BY <2>1 DEF Inserted
  <2> QED BY <1>2, <2>1, <2>2 DEF Inserted, ObjectIndex
<1> QED BY <1>1, <1>2

-----------------------------------------------------------------------------
(* Each step keeps what the stepping process knows true *)

LEMMA Phase1Local ==
    ASSUME TypeInv, IndexInv, NEW p \in Procs, Acquire(p) \/ Phase1(p)
    PROVE  Local(p)'
<1> USE DEF TypeInv, TypeOK, GoTo, IndexInv, Local, FreshDigest, DiskInv,
            Reconciling
<1>1. CASE Acquire(p)
  BY <1>1 DEF Acquire, MapsAgree
<1>2. CASE CleanStaleTmp(p)
  BY <1>2 DEF CleanStaleTmp, MapsAgree
<1>3. CASE ScanObjectIndex(p)
  <2> DEFINE ix == [records |-> entries,
                    inodes  |-> [i \in Inodes |->
                       IF \E e \in entries : e.inode = i
                       THEN (CHOOSE e \in entries : e.inode = i).digest
                       ELSE NoDigest]]
  <2>1. MapsAgree(ix)
    BY DEF MapsAgree
  <2>2. index'[p] = ix /\ pc'[p] = "discover" /\ entries' = entries
    BY <1>3 DEF ScanObjectIndex, diskVars
  <2>3. ix.records = entries
    OBVIOUS
  <2> HIDE DEF ix
  <2>4. MapsAgree(index[p])'
    BY <2>1, <2>2 DEF MapsAgree
  <2> QED BY <2>2, <2>3, <2>4
<1>4. CASE Exit(p)
  BY <1>4 DEF Exit, NoIndex, MapsAgree
<1>5. CASE DiscoverFiles(p)
  BY <1>5 DEF DiscoverFiles, MapsAgree, diskVars
<1> QED BY <1>1, <1>2, <1>3, <1>4, <1>5 DEF Phase1, ScanRejects, SetupFails

\* Steps that change neither the disk nor ObjectIndex.
LEMMA QuietLocal ==
    ASSUME TypeInv, IndexInv, NEW p \in Procs,
           UNCHANGED <<index, entries, tmp>>,
           pc[p] \in Reconciling,
           pc'[p] \in {"discover", "visit", "hash", "apply", "stage",
                       "verify", "retain"}
    PROVE  Local(p)'
BY DEF TypeInv, IndexInv, Local, MapsAgree, FreshDigest, DiskInv, Reconciling

LEMMA VisitLocal ==
    ASSUME TypeInv, IndexInv, NEW p \in Procs, Visit(p)
    PROVE  Local(p)'
<1> USE DEF TypeInv, TypeOK, GoTo, IndexInv, diskVars
<1>1. CASE \E q \in Paths :
              VisitGone(p, q) \/ VisitTrusted(p, q) \/ VisitUntrusted(p, q)
  BY <1>1, QuietLocal DEF VisitGone, VisitTrusted, VisitUntrusted, Visiting,
     Reconciling
<1>2. CASE Hash(p)
  <2>1. /\ pc[p] = "hash" /\ pc'[p] = "apply"
        /\ UNCHANGED <<index, entries, tmp>>
    BY <1>2 DEF Hash
  <2> QED BY <2>1, QuietLocal DEF Reconciling
<1>3. CASE HashFails(p) \/ ApplyReused(p)
  BY <1>3, QuietLocal DEF HashFails, ApplyReused, Resume, Reconciling
<1>4. CASE ApplyNew(p)
  <2>1. /\ pc[p] = "apply" /\ pc'[p] = "create"
        /\ UNCHANGED <<index, entries, tmp>>
        /\ ForDigest(p, job[p].digest) = {}
    BY <1>4 DEF ApplyNew
  <2>2. job'[p].digest = job[p].digest
    BY <1>4 DEF ApplyNew, Job
  <2> QED BY <2>1, <2>2
          DEF Local, MapsAgree, FreshDigest, DiskInv, Reconciling, ForDigest
<1>5. CASE ApplyChanged(p)
  <2>1. PICK old \in ForInode(p, job[p].inode) :
           job' = [job EXCEPT ![p].entry = old, ![p].ts = clock]
    BY <1>5 DEF ApplyChanged
  <2>2. job'[p].digest = job[p].digest /\ job'[p].entry = old
    BY <2>1 DEF Job
  <2>3. old \in index[p].records
    BY DEF ForInode
  <2>4. /\ pc[p] = "apply" /\ pc'[p] = "rename"
        /\ UNCHANGED <<index, entries, tmp>>
        /\ ForDigest(p, job[p].digest) = {}
    BY <1>5 DEF ApplyChanged
  <2> QED BY <2>2, <2>3, <2>4
          DEF Local, MapsAgree, FreshDigest, DiskInv, Reconciling, ForDigest
<1>6. CASE ApplyDuplicate(p)
  <2>1. pc[p] = "apply" /\ UNCHANGED <<index, entries, tmp>>
    BY <1>6 DEF ApplyDuplicate
  <2>2. CASE GoTo(p, "stage")
    BY <2>1, <2>2, QuietLocal DEF Reconciling
  <2>3. CASE /\ GoTo(p, "drop")
             /\ \E old \in ForInode(p, job[p].inode) :
                   job' = [job EXCEPT ![p].entry = old]
    <3>1. job'[p].entry \in index[p].records
      BY <2>3 DEF ForInode, Job
    <3> QED BY <2>1, <2>3, <3>1
            DEF Local, MapsAgree, FreshDigest, DiskInv, Reconciling
  <2> QED BY <1>6, <2>2, <2>3 DEF ApplyDuplicate
<1>7. CASE FinishVisits(p)
  <2>1. /\ pc[p] = "visit" /\ pc'[p] \in {"retain", "prune"}
        /\ UNCHANGED <<index, entries, tmp>>
        /\ pc'[p] = "prune" => pending'[p] = index[p].records
    BY <1>7 DEF FinishVisits
  <2> QED BY <2>1 DEF Local, MapsAgree, FreshDigest, DiskInv, Reconciling
<1> QED BY <1>1, <1>2, <1>3, <1>4, <1>5, <1>6, <1>7 DEF Visit

\* Steps after which the process is back in one of its loops: all that is
\* left to show is that its maps agree and its records are on disk.
LEMMA ResumedLocal ==
    ASSUME TypeInv, NEW p \in Procs,
           pc'[p] \in {"visit", "retain", "stage"},
           MapsAgree(index'[p]), index'[p].records \subseteq entries'
    PROVE  Local(p)'
<1>1. MapsAgree(index[p])'
  BY DEF MapsAgree
<1>2. FreshDigest(p)' /\ DiskInv(p)'
  BY DEF FreshDigest, DiskInv, Reconciling
<1> QED BY <1>1, <1>2 DEF Local

LEMMA ResumeLabel ==
    ASSUME TypeInv, NEW p \in Procs, NEW f, Resume(p, f)
    PROVE  pc'[p] \in {"visit", "retain"}
BY DEF TypeInv, TypeOK, Resume, GoTo

LEMMA RepairLocal ==
    ASSUME TypeInv, IndexInv, NEW p \in Procs, Repair(p)
    PROVE  Local(p)'
<1>0. /\ index[p] \in ObjectIndex /\ MapsAgree(index[p])
      /\ pc[p] \in Reconciling => index[p].records \subseteq entries
      /\ index \in [Procs -> ObjectIndex]
  BY DEF TypeInv, TypeOK, IndexInv, Local, DiskInv
<1>1. CASE CreateObjectEntry(p)
  <2> DEFINE new == [digest |-> job[p].digest, ts |-> job[p].ts,
                     inode |-> visible[job[p].path]]
  <2>1. /\ pc[p] = "create" /\ Resume(p, FALSE)
        /\ entries' = entries \cup {new} /\ new.inode # NoInode
        /\ index' = [index EXCEPT ![p] = Inserted(@, new)]
    BY <1>1 DEF CreateObjectEntry, SourceExists
  <2>2. new \in Entry
    BY <2>1 DEF TypeInv, TypeOK, JobOK, Entry, Job
  <2>3. \A x \in index[p].records : x.digest # new.digest
    BY <2>1 DEF IndexInv, Local, FreshDigest, ForDigest
  <2> HIDE DEF new
  <2>4. index'[p] = Inserted(index[p], new)
    BY <1>0, <2>1
  <2>5. index'[p].records \subseteq entries'
    BY <1>0, <2>1, <2>4 DEF Inserted, Reconciling
  <2> QED BY <1>0, <2>1, <2>2, <2>3, <2>4, <2>5, InsertedAgrees, ResumeLabel,
             ResumedLocal
<1>2. CASE CreateFails(p)
  <2>1. /\ pc[p] = "create" /\ Resume(p, TRUE)
        /\ entries \subseteq entries' /\ index' = index
    BY <1>2 DEF CreateFails
  <2> QED BY <1>0, <2>1, ResumeLabel, ResumedLocal DEF Reconciling
<1>3. CASE RenameObject(p) \/ RenameFails(p)
  <2> DEFINE e == job[p].entry
  <2>1. pc[p] = "rename" /\ e \in index[p].records /\ e \in Entry
    BY <1>3 DEF RenameObject, RenameFails, IndexInv, Local, DiskInv, TypeInv,
                JobOK
  <2>2. /\ Removed(index[p], e) \in ObjectIndex
        /\ MapsAgree(Removed(index[p], e))
    BY <1>0, <2>1, RemovedType, RemovedAgrees
  <2>3. Removed(index[p], e).records = index[p].records \ {e}
    BY DEF Removed
  <2>4. CASE RenameObject(p)
    <3>1. Renamed(p) \in Entry
      BY <2>1, <2>4 DEF RenameObject, Renamed, TypeInv, TypeOK, JobOK, Entry,
                        Job
    <3>2. \A x \in Removed(index[p], e).records :
             x.digest # Renamed(p).digest
      BY <2>1, <2>3 DEF IndexInv, Local, FreshDigest, ForDigest, Renamed
    <3>3. MapsAgree(Inserted(Removed(index[p], e), Renamed(p)))
      BY <2>2, <3>1, <3>2, InsertedAgrees
    <3>4. /\ index'[p] = Inserted(Removed(index[p], e), Renamed(p))
          /\ entries' = (entries \ {e}) \cup {Renamed(p)}
          /\ Resume(p, FALSE)
      BY <1>0, <2>4 DEF RenameObject, AfterRename
    <3>5. index'[p].records \subseteq entries'
      BY <1>0, <2>1, <2>3, <3>4 DEF Inserted, Reconciling
    <3> QED BY <3>3, <3>4, <3>5, ResumeLabel, ResumedLocal
  <2>5. CASE RenameFails(p)
    <3>1. /\ index'[p] = Removed(index[p], e)
          /\ entries \ {e} \subseteq entries'
          /\ Resume(p, TRUE)
      BY <1>0, <2>5 DEF RenameFails, AfterRename
    <3>2. index'[p].records \subseteq entries'
      BY <1>0, <2>1, <2>3, <3>1 DEF Reconciling
    <3> QED BY <2>2, <3>1, <3>2, ResumeLabel, ResumedLocal
  <2> QED BY <1>3, <2>4, <2>5
<1>4. CASE DropStale(p) \/ DropFails(p)
  <2> DEFINE e == job[p].entry
  <2>1. pc[p] = "drop" /\ e \in Entry
    BY <1>4 DEF DropStale, DropFails, TypeInv, JobOK
  <2>2. /\ index'[p] = Removed(index[p], e)
        /\ entries \ {e} \subseteq entries'
    BY <1>0, <1>4 DEF DropStale, DropFails, diskVars
  <2>3. MapsAgree(index'[p]) /\ index'[p].records \subseteq entries'
    BY <1>0, <2>1, <2>2, RemovedAgrees DEF Removed, Reconciling
  <2>4. pc'[p] \in {"visit", "retain", "stage"}
    BY <1>4 DEF DropStale, DropFails, Resume, GoTo, TypeInv, TypeOK
  <2> QED BY <2>3, <2>4, ResumedLocal
<1>5. CASE StageLink(p)
  <2>1. PICK r \in ForDigest(p, job[p].digest) \cap entries :
           /\ tmp' = tmp \cup {[path |-> job[p].path, inode |-> r.inode]}
           /\ job' = [job EXCEPT ![p].entry = r]
    BY <1>5 DEF StageLink
  <2>2. job'[p].entry = r /\ job'[p].path = job[p].path
    BY <2>1 DEF TypeInv, TypeOK, Job
  <2>3. pc[p] = "stage" /\ pc'[p] = "swap" /\ UNCHANGED <<entries, index>>
    BY <1>5 DEF StageLink, GoTo, TypeInv, TypeOK
  <2>4. Staged(p)' \in tmp'
    BY <2>1, <2>2 DEF Staged
  <2> QED BY <1>0, <2>3, <2>4
          DEF Local, MapsAgree, FreshDigest, DiskInv, Reconciling
<1>6. CASE StageFails(p) \/ SwapFails(p) \/ VerifySwap(p)
  <2>1. /\ pc[p] \in {"stage", "swap", "verify"}
        /\ \E f : Resume(p, f)
        /\ UNCHANGED <<entries, index>>
    BY <1>6 DEF StageFails, SwapFails, VerifySwap, diskVars
  <2> QED BY <1>0, <2>1, ResumeLabel, ResumedLocal DEF Reconciling
<1>7. CASE SwapIn(p)
  <2>1. /\ pc[p] = "swap" /\ pc'[p] = "verify"
        /\ UNCHANGED <<entries, index>>
    BY <1>7 DEF SwapIn, GoTo, TypeInv, TypeOK
  <2> QED BY <1>0, <2>1
          DEF Local, MapsAgree, FreshDigest, DiskInv, Reconciling
<1> QED BY <1>1, <1>2, <1>3, <1>4, <1>5, <1>6, <1>7 DEF Repair

LEMMA RetainedLocal ==
    ASSUME TypeInv, IndexInv, NEW p \in Procs, Retained(p)
    PROVE  Local(p)'
<1> USE DEF TypeInv, TypeOK, GoTo, diskVars
<1>1. ASSUME NEW r \in pending[p], RetainedSkip(p, r) \/ RetainedHashFails(p, r)
      PROVE  Local(p)'
  BY <1>1, QuietLocal DEF RetainedSkip, RetainedHashFails, Retaining,
     Reconciling
<1>2. ASSUME NEW r \in pending[p], RetainedHash(p, r)
      PROVE  Local(p)'
  <2>1. PICK known \in ForDigest(p, r.digest) :
           job' = [job EXCEPT ![p] =
              [NoJob EXCEPT !.digest = content[r.inode], !.inode = r.inode,
                            !.entry = known]]
    BY <1>2 DEF RetainedHash
  <2>2. job'[p].entry \in index[p].records
    BY <2>1 DEF ForDigest, NoJob
  <2>3. /\ pc[p] = "retain" /\ pc'[p] = "settle"
        /\ UNCHANGED <<entries, tmp, index>>
    BY <1>2 DEF RetainedHash, Retaining
  <2> QED BY <2>2, <2>3 DEF IndexInv, Local, MapsAgree, FreshDigest, DiskInv,
             Reconciling
<1>3. CASE SettleSame(p)
  BY <1>3, QuietLocal, ResumeLabel DEF SettleSame, Reconciling
<1>4. CASE SettleChanged(p)
  <2>1. job'[p].digest = job[p].digest /\ job'[p].entry = job[p].entry
    BY <1>4 DEF SettleChanged, Job
  <2>2. /\ pc[p] = "settle" /\ pc'[p] \in {"rename", "drop"}
        /\ UNCHANGED <<entries, tmp, index>>
        /\ pc'[p] = "rename" => ForDigest(p, job[p].digest) = {}
    BY <1>4 DEF SettleChanged
  <2> QED BY <2>1, <2>2 DEF IndexInv, Local, MapsAgree, FreshDigest, DiskInv,
             Reconciling, ForDigest
<1>5. CASE FinishRetained(p)
  <2>1. /\ pc[p] = "retain" /\ pc'[p] = "prune"
        /\ pending'[p] = index[p].records
        /\ UNCHANGED <<entries, tmp, index>>
    BY <1>5 DEF FinishRetained
  <2> QED BY <2>1 DEF IndexInv, Local, MapsAgree, FreshDigest, DiskInv,
             Reconciling
<1> QED BY <1>1, <1>2, <1>3, <1>4, <1>5 DEF Retained

LEMMA PruneLocal ==
    ASSUME TypeInv, IndexInv, NEW p \in Procs, Prune(p)
    PROVE  Local(p)'
<1> USE DEF TypeInv, TypeOK, GoTo, Note, diskVars, IndexInv, Local, MapsAgree,
            FreshDigest, DiskInv, Reconciling
<1>1. CASE \E r \in pending[p] : PruneStat(p, r)
  <2>1. PICK r \in pending[p] : PruneStat(p, r)
    BY <1>1
  <2>2. /\ pc[p] = "prune" /\ pending'[p] = pending[p] \ {r}
        /\ UNCHANGED <<entries, index>>
    BY <2>1 DEF PruneStat
  <2>3. CASE pc'[p] = "unlink" /\ r \in entries /\ job'[p].entry = r
    BY <2>2, <2>3
  <2>4. CASE pc' = pc
    BY <2>2, <2>4
  <2>5. \/ pc'[p] = "unlink" /\ r \in entries /\ job'[p].entry = r
        \/ pc' = pc
    BY <2>1 DEF PruneStat, NoJob
  <2> QED BY <2>3, <2>4, <2>5
<1>2. CASE PruneUnlink(p)
  <2>1. /\ pc[p] = "unlink" /\ pc'[p] = "prune"
        /\ UNCHANGED <<pending, index>>
        /\ entries \ {job[p].entry} \subseteq entries'
    BY <1>2 DEF PruneUnlink
  <2> QED BY <2>1
<1>3. CASE FinishPrune(p)
  BY <1>3 DEF FinishPrune
<1>4. CASE Release(p)
  BY <1>4 DEF Release, Exit, NoIndex
<1> QED BY <1>1, <1>2, <1>3, <1>4 DEF Prune

-----------------------------------------------------------------------------

LEMMA IndexInvStep == TypeInv /\ IndexInv /\ [Next]_vars => IndexInv'
<1> SUFFICES ASSUME TypeInv, IndexInv, [Next]_vars PROVE IndexInv'
  OBVIOUS
<1>1. ASSUME NEW p \in Procs, Acquire(p) \/ RunStep(p) \/ Crash(p)
      PROVE  IndexInv'
  <2>1. ASSUME Acquire(p) \/ RunStep(p) PROVE Local(p)'
    BY <2>1, Phase1Local, VisitLocal, RepairLocal, RetainedLocal, PruneLocal
       DEF RunStep
  <2>2. ASSUME Crash(p) PROVE Local(p)'
    BY <2>2 DEF Crash, Exit, GoTo, NoIndex, TypeInv, TypeOK, Local, MapsAgree,
                FreshDigest, DiskInv, Reconciling
  <2>3. Local(p)'
    BY <1>1, <2>1, <2>2
  <2>4. LockInv' /\ \A q \in Procs \ {p} : Local(q)'
    BY <1>1, OthersLocal
  <2> QED BY <2>3, <2>4 DEF IndexInv
<1>2. ASSUME UNCHANGED <<diskVars, lock, procVars>>
      PROVE  IndexInv'
  BY <1>2 DEF diskVars, procVars, IndexInv, LockInv, Local, MapsAgree,
     FreshDigest, ForDigest, DiskInv, Staged
<1>3. CASE User
  BY <1>2, <1>3 DEF User, UserReplaces, UserWritesInPlace, UserRemoves,
     UserMoves, UserLinks
<1>4. CASE UNCHANGED vars
  BY <1>2, <1>4 DEF vars
<1> QED BY <1>1, <1>3, <1>4 DEF Next

LEMMA IndexInvariant == Spec => [](TypeInv /\ IndexInv)
<1>1. TypeInv /\ IndexInv /\ [Next]_vars => (TypeInv /\ IndexInv)'
  BY TypeInvStep, IndexInvStep
<1> QED BY <1>1, InitTypeInv, InitIndexInv, PTL DEF Spec

\* At most one process is inside the transaction of index_root: try_lock is
\* all that keeps two runs from racing.
THEOREM OneRunAtATime ==
    Spec => [](\A p, q \in Procs : pc[p] # "idle" /\ pc[q] # "idle" => p = q)
<1>1. IndexInv => \A p, q \in Procs : pc[p] # "idle" /\ pc[q] # "idle" => p = q
  BY DEF IndexInv, LockInv
<1> QED BY <1>1, IndexInvariant, PTL

\* by_inode never leads to a digest that by_digest has not on that very inode:
\* the expect() in reconcile_one_visible_file cannot fire.
THEOREM MapsAlwaysAgree == Spec => []IndexMapsAgree
<1>1. IndexInv => IndexMapsAgree
  BY DEF IndexInv, Local, MapsAgree, IndexMapsAgree
<1> QED BY <1>1, IndexInvariant, PTL

\* The records a run works on are on disk, under the names it knows them by.
THEOREM RecordsAlwaysOnDisk == Spec => []IndexOnDisk
<1>1. IndexInv => IndexOnDisk
  BY DEF IndexInv, Local, DiskInv, IndexOnDisk, Reconciling
<1> QED BY <1>1, IndexInvariant, PTL

\* No run's clean-up takes away a link another run has staged.
THEOREM StagedLinksStay == Spec => []StagedLinkIntact
<1>1. IndexInv => StagedLinkIntact
  BY DEF IndexInv, Local, DiskInv, StagedLinkIntact
<1> QED BY <1>1, IndexInvariant, PTL

-----------------------------------------------------------------------------
(* Pruning is safe whatever the owner does between its stat and its        *)
(* unlink: an inode whose only link is its object entry can gain no        *)
(* visible link, because a visible link is only ever made from another     *)
(* one, from a staged link of the same run, or to a free inode.            *)

FiniteDisk == IsFiniteSet(entries) /\ IsFiniteSet(tmp)

\* What PruneStat saw is still so when PruneUnlink acts on it.
PruneInv ==
    \A p \in Procs : pc[p] = "unlink" =>
       \A q \in Paths : visible[q] # job[p].entry.inode

SafeInv == TypeInv /\ IndexInv /\ FiniteDisk /\ PruneInv

\* An entry alone on its inode: st_nlink is 1 and the entry itself is the one.
LEMMA LoneEntry ==
    ASSUME FiniteDisk, NEW r \in entries, NLink(r.inode) = 1
    PROVE  \A q \in Paths : visible[q] # r.inode
<1> DEFINE V == {q \in Paths : visible[q] = r.inode}
           E == {e \in entries : e.inode = r.inode}
           T == {t \in tmp : t.inode = r.inode}
<1>1. IsFiniteSet(V) /\ IsFiniteSet(E) /\ IsFiniteSet(T)
  BY FS_Subset, ModelAssumption DEF FiniteDisk
<1>2. /\ Cardinality(V) \in Nat /\ Cardinality(E) \in Nat
      /\ Cardinality(T) \in Nat
  BY <1>1, FS_CardinalityType
<1>3. Cardinality(E) # 0
  BY <1>1, FS_EmptySet
<1>4. Cardinality(V) + Cardinality(E) + Cardinality(T) = 1
  BY DEF NLink
<1>5. Cardinality(V) = 0
  BY <1>2, <1>3, <1>4
<1>6. V = {}
  BY <1>1, <1>5, FS_EmptySet
<1> QED BY <1>6

LEMMA InitSafeInv == Init => SafeInv
<1>1. Init => FiniteDisk /\ PruneInv
  BY FS_EmptySet DEF Init, FiniteDisk, PruneInv
<1> QED BY <1>1, InitTypeInv, InitIndexInv DEF SafeInv

\* Every step adds at most one entry and one staged link.
LEMMA FiniteDiskStep ==
    ASSUME SafeInv, [Next]_vars
    PROVE  FiniteDisk'
<1>1. \/ entries' \subseteq entries
      \/ \E e : entries' \subseteq entries \cup {e}
  BY DEF Next, vars, diskVars, RunStep, Acquire, Crash, Exit, User,
     UserReplaces, UserWritesInPlace, UserRemoves, UserMoves, UserLinks,
     Phase1, CleanStaleTmp, ScanObjectIndex, ScanRejects, DiscoverFiles,
     SetupFails, Visit, VisitGone, VisitTrusted, VisitUntrusted, Hash,
     HashFails, ApplyReused, ApplyNew, ApplyChanged, ApplyDuplicate,
     FinishVisits, Repair, CreateObjectEntry, CreateFails, RenameObject,
     RenameFails, AfterRename, DropStale, DropFails, StageLink, StageFails,
     SwapIn, SwapFails, VerifySwap, Retained, RetainedSkip, RetainedHash,
     RetainedHashFails, SettleSame, SettleChanged, FinishRetained, Prune,
     PruneStat, PruneUnlink, FinishPrune, Release
<1>2. \/ tmp' \subseteq tmp
      \/ \E t : tmp' \subseteq tmp \cup {t}
  BY DEF Next, vars, diskVars, RunStep, Acquire, Crash, Exit, User,
     UserReplaces, UserWritesInPlace, UserRemoves, UserMoves, UserLinks,
     Phase1, CleanStaleTmp, ScanObjectIndex, ScanRejects, DiscoverFiles,
     SetupFails, Visit, VisitGone, VisitTrusted, VisitUntrusted, Hash,
     HashFails, ApplyReused, ApplyNew, ApplyChanged, ApplyDuplicate,
     FinishVisits, Repair, CreateObjectEntry, CreateFails, RenameObject,
     RenameFails, DropStale, DropFails, StageLink, StageFails,
     SwapIn, SwapFails, VerifySwap, Retained, RetainedSkip, RetainedHash,
     RetainedHashFails, SettleSame, SettleChanged, FinishRetained, Prune,
     PruneStat, PruneUnlink, FinishPrune, Release
<1>3. \A S, T : IsFiniteSet(S) /\ T \subseteq S => IsFiniteSet(T)
  BY FS_Subset
<1>4. \A S, x : IsFiniteSet(S) => IsFiniteSet(S \cup {x})
  BY FS_AddElement
<1> QED BY <1>1, <1>2, <1>3, <1>4 DEF SafeInv, FiniteDisk

\* The owner makes visible links from visible links, or to free inodes.
LEMMA UserPruneInv ==
    ASSUME SafeInv, User
    PROVE  PruneInv'
<1> USE DEF SafeInv, TypeInv, TypeOK
<1> SUFFICES ASSUME NEW p \in Procs, pc'[p] = "unlink"
             PROVE  \A q \in Paths : visible'[q] # job'[p].entry.inode
  BY DEF PruneInv
<1>1. UNCHANGED <<diskVars, procVars>>
  BY DEF User, UserReplaces, UserWritesInPlace, UserRemoves, UserMoves,
     UserLinks
<1>2. /\ job[p].entry \in entries /\ job[p].entry.inode \in Inodes
      /\ job' = job
      /\ \A q \in Paths : visible[q] # job[p].entry.inode
  BY <1>1 DEF procVars, PruneInv, IndexInv, Local, DiskInv, Entry
<1>3. \A q \in Paths :
         \/ visible'[q] = NoInode
         \/ \E s \in Paths : visible'[q] = visible[s]
         \/ Free(visible'[q])
  BY DEF User, UserReplaces, UserWritesInPlace, UserRemoves, UserMoves,
         UserLinks
<1> QED BY <1>2, <1>3, Sentinels DEF Free

LEMMA SafeInvStep == SafeInv /\ [Next]_vars => SafeInv'
<1> SUFFICES ASSUME SafeInv, [Next]_vars PROVE SafeInv'
  OBVIOUS
<1>1. TypeInv' /\ IndexInv' /\ FiniteDisk'
  BY TypeInvStep, IndexInvStep, FiniteDiskStep DEF SafeInv
<1>2. ASSUME NEW p \in Procs, Acquire(p) \/ RunStep(p) \/ Crash(p)
      PROVE  PruneInv'
  <2>1. \A q \in Procs \ {p} : pc'[q] = "idle"
    BY <1>2, StepFrame, Sentinels DEF SafeInv, IndexInv, LockInv, Others
  <2>2. CASE pc'[p] # "unlink"
    BY <2>1, <2>2 DEF PruneInv
  <2>3. CASE pc'[p] = "unlink"
    <3>1. PICK r \in pending[p] : PruneStat(p, r)
      BY <1>2, <2>3 DEF SafeInv, TypeInv, TypeOK, GoTo, Resume, RunStep,
         Acquire, Crash, Exit, Phase1, CleanStaleTmp, ScanObjectIndex,
         ScanRejects, DiscoverFiles, SetupFails, Visit, VisitGone,
         VisitTrusted, VisitUntrusted, Visiting, Hash, HashFails, ApplyReused,
         ApplyNew, ApplyChanged, ApplyDuplicate, FinishVisits, Repair,
         CreateObjectEntry, CreateFails, RenameObject, RenameFails, DropStale,
         DropFails, StageLink, StageFails, SwapIn, SwapFails, VerifySwap,
         Retained, RetainedSkip, RetainedHash, RetainedHashFails, Retaining,
         SettleSame, SettleChanged, FinishRetained, Prune, PruneUnlink,
         FinishPrune, Release
    <3>2. pc[p] = "prune" /\ visible' = visible
      BY <3>1 DEF PruneStat, userVars
    <3>3. /\ r \in entries /\ NLink(r.inode) = 1
          /\ job' = [job EXCEPT ![p] = [NoJob EXCEPT !.entry = r]]
      BY <2>3, <3>1, <3>2 DEF PruneStat, Unreferenced
    <3>4. job'[p].entry = r
      BY <3>3 DEF SafeInv, TypeInv, TypeOK, NoJob
    <3>5. \A q \in Paths : visible'[q] # job'[p].entry.inode
      BY <3>2, <3>3, <3>4, LoneEntry DEF SafeInv
    <3> QED BY <2>1, <3>5 DEF PruneInv
  <2> QED BY <2>2, <2>3
<1>3. ASSUME User PROVE PruneInv'
  BY <1>3, UserPruneInv
<1>4. ASSUME UNCHANGED vars PROVE PruneInv'
  BY <1>4 DEF SafeInv, PruneInv, vars, userVars, procVars
<1> QED BY <1>1, <1>2, <1>3, <1>4 DEF SafeInv, Next

\* The entry prune unlinks backs no visible path at the moment it goes.
THEOREM PruneAlwaysSafe == Spec => PruneSafe
<1>1. Spec => []SafeInv
  BY InitSafeInv, SafeInvStep, PTL DEF Spec
<1>2. SafeInv /\ [Next]_vars =>
         [\A p \in Procs :
             pc[p] = "unlink" /\ entries' # entries =>
                \A q \in Paths : visible[q] # job[p].entry.inode]_vars
  BY DEF SafeInv, PruneInv
<1> QED BY <1>1, <1>2, PTL DEF Spec, PruneSafe

-----------------------------------------------------------------------------
(***************************************************************************)
(* `pcas index` under the discipline the README asks for: indexed files    *)
(* are replaced, never written in place, and the owner leaves the tree     *)
(* alone while a run is in progress.  Then every object entry names the    *)
(* bytes it links, and no step of a run, no failing call and no crash      *)
(* changes what a visible path reads.                                      *)
(***************************************************************************)

\* The discipline of README, "Indexed content is immutable by contract".
Disciplined == UserWhileIndexing = FALSE /\ InPlaceWrites = FALSE

EntriesTrue == \A e \in entries : content[e.inode] = e.digest

\* What a process knows of the path it is reconciling is still so.  Without
\* in-place writes nothing is stale: no entry is ever renamed, and none is
\* dropped or repaired by the retained pass.
JobTrue(p) ==
    /\ pc[p] \in {"apply", "create", "drop", "stage", "swap"} =>
          /\ job[p].path \in Paths
          /\ job[p].inode \in Inodes
          /\ visible[job[p].path] = job[p].inode
          /\ content[job[p].inode] = job[p].digest
    /\ pc[p] = "swap" => content[job[p].entry.inode] = job[p].digest
    /\ pc[p] = "settle" => job[p].digest = job[p].entry.digest
    /\ pc[p] # "rename"

ContentInv == EntriesTrue /\ \A p \in Procs : JobTrue(p)

Inv == TypeInv /\ IndexInv /\ ContentInv

LEMMA InitContentInv == Init => ContentInv
BY DEF Init, ContentInv, EntriesTrue, JobTrue

\* A process that works on nothing, or has nothing to be wrong about.
LEMMA NoJobTrue ==
    ASSUME NEW p \in Procs,
           pc'[p] \in {"idle", "clean", "scan", "discover", "visit", "hash",
                       "verify", "retain", "prune", "unlink", "done"}
    PROVE  JobTrue(p)'
BY DEF JobTrue

LEMMA VisitContent ==
    ASSUME Inv, NEW p \in Procs, Visit(p)
    PROVE  JobTrue(p)' /\ UNCHANGED <<userVars, entries>>
<1> USE DEF Inv, TypeInv, TypeOK, GoTo, diskVars
<1>1. CASE \E q \in Paths :
              VisitGone(p, q) \/ VisitTrusted(p, q) \/ VisitUntrusted(p, q)
  BY <1>1, NoJobTrue DEF VisitGone, VisitTrusted, VisitUntrusted, Visiting
<1>2. CASE Hash(p)
  <2> DEFINE i == visible[job[p].path]
  <2>1. /\ pc[p] = "hash" /\ pc'[p] = "apply" /\ i # NoInode
        /\ job' = [job EXCEPT ![p].digest = content[i], ![p].inode = i]
        /\ UNCHANGED <<userVars, entries>>
    BY <1>2 DEF Hash
  <2>2. job[p].path \in Paths
    BY <2>1 DEF JobOK
  <2>3. /\ job'[p].path = job[p].path /\ job'[p].inode = i
        /\ job'[p].digest = content[i]
    BY <2>1 DEF Job
  <2> QED BY <2>1, <2>2, <2>3 DEF JobTrue, userVars
<1>3. CASE HashFails(p) \/ ApplyReused(p) \/ FinishVisits(p)
  <2>1. pc'[p] \in {"visit", "retain", "prune"} /\ UNCHANGED <<userVars, entries>>
    BY <1>3 DEF HashFails, ApplyReused, FinishVisits, Resume
  <2> QED BY <2>1, NoJobTrue
<1>4. CASE ApplyNew(p)
  <2>1. /\ pc[p] = "apply" /\ pc'[p] = "create"
        /\ UNCHANGED <<userVars, entries>>
    BY <1>4 DEF ApplyNew
  <2>2. /\ job'[p].path = job[p].path /\ job'[p].inode = job[p].inode
        /\ job'[p].digest = job[p].digest
    BY <1>4 DEF ApplyNew, Job
  <2> QED BY <2>1, <2>2 DEF ContentInv, JobTrue, userVars
<1>5. ~ApplyChanged(p)
  \* An indexed inode still has the digest of its entry, so that digest is
  \* not missing from the index.
  <2> SUFFICES ASSUME ApplyChanged(p) PROVE FALSE
    OBVIOUS
  <2>1. /\ pc[p] = "apply" /\ ForDigest(p, job[p].digest) = {}
        /\ ForInode(p, job[p].inode) # {}
    BY DEF ApplyChanged
  <2>2. job[p].inode \in Inodes /\ content[job[p].inode] = job[p].digest
    BY <2>1 DEF ContentInv, JobTrue
  <2>3. index[p].inodes[job[p].inode] # NoDigest
    BY <2>1, Sentinels DEF ForInode, ObjectIndex, Entry
  <2>4. PICK r \in index[p].records :
           r.digest = index[p].inodes[job[p].inode] /\ r.inode = job[p].inode
    BY <2>2, <2>3 DEF IndexInv, Local, MapsAgree
  <2>5. r \in entries
    BY <2>1, <2>4 DEF IndexInv, Local, DiskInv, Reconciling
  <2>6. r.digest = job[p].digest
    BY <2>2, <2>4, <2>5 DEF ContentInv, EntriesTrue
  <2> QED BY <2>1, <2>4, <2>6 DEF ForDigest
<1>6. CASE ApplyDuplicate(p)
  <2>1. /\ pc[p] = "apply" /\ pc'[p] \in {"stage", "drop"}
        /\ UNCHANGED <<userVars, entries>>
    BY <1>6 DEF ApplyDuplicate
  <2>2. /\ job'[p].path = job[p].path /\ job'[p].inode = job[p].inode
        /\ job'[p].digest = job[p].digest
    BY <1>6 DEF ApplyDuplicate, Job
  <2> QED BY <2>1, <2>2 DEF ContentInv, JobTrue, userVars
<1> QED BY <1>1, <1>2, <1>3, <1>4, <1>5, <1>6 DEF Visit

\* A new entry is linked to the inode whose content was hashed.
LEMMA RepairContent ==
    ASSUME Inv, NEW p \in Procs, Repair(p)
    PROVE  JobTrue(p)' /\ EntriesTrue' /\ content' = content /\ Tree' = Tree
<1> USE DEF Inv, TypeInv, TypeOK, GoTo, diskVars
<1>1. CASE CreateObjectEntry(p) \/ CreateFails(p)
  <2> DEFINE new == [digest |-> job[p].digest, ts |-> job[p].ts,
                     inode |-> visible[job[p].path]]
  <2>1. /\ pc[p] = "create" /\ \E f : Resume(p, f)
        /\ entries' \subseteq entries \cup {new}
        /\ UNCHANGED userVars
    BY <1>1 DEF CreateObjectEntry, CreateFails
  <2>2. content[new.inode] = new.digest
    BY <2>1 DEF ContentInv, JobTrue
  <2>3. EntriesTrue'
    BY <2>1, <2>2 DEF ContentInv, EntriesTrue, userVars
  <2> QED BY <2>1, <2>3, ResumeLabel, NoJobTrue DEF Tree, userVars
<1>2. ~RenameObject(p) /\ ~RenameFails(p)
  BY DEF RenameObject, RenameFails, ContentInv, JobTrue
<1>3. CASE DropStale(p) \/ DropFails(p)
  <2>1. /\ pc[p] = "drop"
        /\ entries' \subseteq entries /\ UNCHANGED userVars
        /\ \/ \E f : Resume(p, f)
           \/ pc'[p] = "stage" /\ job' = job
    BY <1>3 DEF DropStale, DropFails
  <2>2. EntriesTrue'
    BY <2>1 DEF ContentInv, EntriesTrue, userVars
  <2>3. CASE pc'[p] = "stage" /\ job' = job
    BY <2>1, <2>2, <2>3 DEF ContentInv, JobTrue, Tree, userVars
  <2>4. CASE \E f : Resume(p, f)
    BY <2>1, <2>2, <2>4, ResumeLabel, NoJobTrue DEF Tree, userVars
  <2> QED BY <2>1, <2>3, <2>4
<1>4. CASE StageLink(p)
  <2>1. PICK r \in ForDigest(p, job[p].digest) \cap entries :
           job' = [job EXCEPT ![p].entry = r]
    BY <1>4 DEF StageLink
  <2>2. /\ job'[p].path = job[p].path /\ job'[p].inode = job[p].inode
        /\ job'[p].digest = job[p].digest /\ job'[p].entry = r
    BY <2>1 DEF Job
  <2>3. /\ pc[p] = "stage" /\ pc'[p] = "swap"
        /\ UNCHANGED <<userVars, entries>>
    BY <1>4 DEF StageLink
  <2>4. content[r.inode] = job[p].digest
    BY <2>1 DEF ForDigest, ContentInv, EntriesTrue
  <2> QED BY <2>2, <2>3, <2>4 DEF ContentInv, EntriesTrue, JobTrue, Tree,
                                  userVars
<1>5. CASE StageFails(p) \/ SwapFails(p) \/ VerifySwap(p)
  <2>1. (\E f : Resume(p, f)) /\ UNCHANGED <<userVars, entries>>
    BY <1>5 DEF StageFails, SwapFails, VerifySwap
  <2> QED BY <2>1, ResumeLabel, NoJobTrue
          DEF ContentInv, EntriesTrue, Tree, userVars
<1>6. CASE SwapIn(p)
  \* The path leaves the inode that was hashed for one with the same bytes.
  <2> DEFINE q == job[p].path
             i == job[p].entry.inode
  <2>1. /\ pc[p] = "swap" /\ pc'[p] = "verify"
        /\ visible' = [visible EXCEPT ![q] = i]
        /\ UNCHANGED <<content, entries>>
    BY <1>6 DEF SwapIn, Staged
  <2>2. /\ q \in Paths /\ visible[q] \in Inodes
        /\ content[visible[q]] = content[i]
    BY <2>1 DEF ContentInv, JobTrue
  <2>3. i \in Inodes
    BY <2>1 DEF JobOK, Entry
  <2>4. Tree' = Tree
    BY <2>1, <2>2, <2>3, Sentinels DEF Tree
  <2> QED BY <2>1, <2>4, NoJobTrue DEF ContentInv, EntriesTrue
<1> QED BY <1>1, <1>2, <1>3, <1>4, <1>5, <1>6 DEF Repair

\* The retained pass finds every entry as its name says.
LEMMA RetainedContent ==
    ASSUME Inv, NEW p \in Procs, Retained(p)
    PROVE  JobTrue(p)' /\ UNCHANGED <<userVars, entries>>
<1> USE DEF Inv, TypeInv, TypeOK, GoTo, diskVars
<1>1. ASSUME NEW r \in pending[p], RetainedSkip(p, r) \/ RetainedHashFails(p, r)
      PROVE  JobTrue(p)' /\ UNCHANGED <<userVars, entries>>
  BY <1>1, NoJobTrue DEF RetainedSkip, RetainedHashFails, Retaining
<1>2. ASSUME NEW r \in pending[p], RetainedHash(p, r)
      PROVE  JobTrue(p)' /\ UNCHANGED <<userVars, entries>>
  <2>1. PICK known \in ForDigest(p, r.digest) :
           job' = [job EXCEPT ![p] =
              [NoJob EXCEPT !.digest = content[r.inode], !.inode = r.inode,
                            !.entry = known]]
    BY <1>2 DEF RetainedHash
  <2>2. job'[p].digest = content[r.inode] /\ job'[p].entry = known
    BY <2>1 DEF NoJob
  <2>3. /\ pc'[p] = "settle" /\ r \in entries
        /\ UNCHANGED <<userVars, entries>>
    BY <1>2 DEF RetainedHash, Retaining
  <2>4. content[r.inode] = known.digest
    BY <2>1, <2>3 DEF ForDigest, ContentInv, EntriesTrue
  <2> QED BY <2>2, <2>3, <2>4 DEF JobTrue
<1>3. CASE SettleSame(p) \/ FinishRetained(p)
  <2>1. /\ pc'[p] \in {"visit", "retain", "prune"}
        /\ UNCHANGED <<userVars, entries>>
    BY <1>3 DEF SettleSame, FinishRetained, Resume
  <2> QED BY <2>1, NoJobTrue
<1>4. ~SettleChanged(p)
  BY DEF SettleChanged, ContentInv, JobTrue
<1> QED BY <1>1, <1>2, <1>3, <1>4 DEF Retained

LEMMA OtherStepContent ==
    ASSUME Inv, NEW p \in Procs,
           Acquire(p) \/ Phase1(p) \/ Prune(p) \/ Crash(p)
    PROVE  JobTrue(p)' /\ entries' \subseteq entries /\ UNCHANGED userVars
<1> USE DEF Inv, TypeInv, TypeOK, GoTo, diskVars
<1>1. pc'[p] \in {"idle", "clean", "scan", "discover", "visit", "prune",
                  "unlink", "done"}
  BY DEF Acquire, Phase1, CleanStaleTmp, ScanObjectIndex, ScanRejects,
     DiscoverFiles, SetupFails, Prune, PruneStat, PruneUnlink, FinishPrune, Release,
     Crash, Exit
<1>2. entries' \subseteq entries /\ UNCHANGED userVars
  BY DEF Acquire, Phase1, CleanStaleTmp, ScanObjectIndex, ScanRejects,
     DiscoverFiles, SetupFails, Prune, PruneStat, PruneUnlink, FinishPrune, Release, Crash
<1> QED BY <1>1, <1>2, NoJobTrue

LEMMA RunContent ==
    ASSUME Inv, NEW p \in Procs, Acquire(p) \/ RunStep(p) \/ Crash(p)
    PROVE  JobTrue(p)' /\ EntriesTrue' /\ content' = content /\ Tree' = Tree
<1>1. CASE Repair(p)
  BY <1>1, RepairContent
<1>2. CASE Visit(p) \/ Retained(p)
  BY <1>2, VisitContent, RetainedContent
     DEF Inv, ContentInv, EntriesTrue, Tree, userVars
<1>3. CASE Acquire(p) \/ Phase1(p) \/ Prune(p) \/ Crash(p)
  BY <1>3, OtherStepContent DEF Inv, ContentInv, EntriesTrue, Tree, userVars
<1> QED BY <1>1, <1>2, <1>3 DEF RunStep

\* The owner only acts when every process is idle, and only gives content to
\* an inode no entry links.
LEMMA UserContent ==
    ASSUME Disciplined, Inv, User
    PROVE  ContentInv'
<1> USE DEF Disciplined, Inv, TypeInv, TypeOK
<1>1. /\ lock = NoProc
      /\ UNCHANGED <<diskVars, lock, procVars>>
  BY DEF User, UserReplaces, UserWritesInPlace, UserRemoves, UserMoves,
     UserLinks, UserMayAct
<1>2. \A p \in Procs : pc'[p] = "idle"
  BY <1>1, Sentinels DEF procVars, IndexInv, LockInv
<1>3. EntriesTrue'
  <2>1. PICK q \in Paths :
           \/ UserReplaces(q) \/ UserWritesInPlace(q) \/ UserRemoves(q)
           \/ \E dest \in Paths : UserMoves(q, dest) \/ UserLinks(q, dest)
    BY DEF User
  <2>2. CASE UserReplaces(q)
    <3>1. PICK i \in Inodes, d \in Digests :
             Free(i) /\ content' = [content EXCEPT ![i] = d]
      BY <2>2 DEF UserReplaces
    <3>2. \A e \in entries : e.inode \in Inodes /\ e.inode # i
      BY <3>1 DEF Free, Entry
    <3> QED BY <1>1, <3>1, <3>2 DEF diskVars, ContentInv, EntriesTrue
  <2>3. ~UserWritesInPlace(q)
    BY DEF UserWritesInPlace
  <2>4. CASE UNCHANGED content
    BY <1>1, <2>4 DEF diskVars, ContentInv, EntriesTrue
  <2> QED BY <2>1, <2>2, <2>3, <2>4 DEF UserRemoves, UserMoves, UserLinks
<1>4. \A p \in Procs : JobTrue(p)'
  BY <1>2, NoJobTrue
<1> QED BY <1>3, <1>4 DEF ContentInv

LEMMA InvStep ==
    ASSUME Disciplined
    PROVE  Inv /\ [Next]_vars => Inv'
<1> SUFFICES ASSUME Inv, [Next]_vars PROVE ContentInv'
  BY TypeInvStep, IndexInvStep DEF Inv
<1>1. ASSUME NEW p \in Procs, Acquire(p) \/ RunStep(p) \/ Crash(p)
      PROVE  ContentInv'
  <2>1. JobTrue(p)' /\ EntriesTrue'
    BY <1>1, RunContent
  <2>2. \A q \in Procs \ {p} : pc[q] = "idle" /\ pc'[q] = pc[q]
    BY <1>1, StepFrame, Sentinels DEF Inv, IndexInv, LockInv, Others
  <2>3. \A q \in Procs \ {p} : JobTrue(q)'
    BY <2>2, NoJobTrue
  <2> QED BY <2>1, <2>3 DEF ContentInv
<1>2. CASE User
  BY <1>2, UserContent
<1>3. CASE UNCHANGED vars
  BY <1>3 DEF vars, userVars, diskVars, procVars, Inv, ContentInv,
     EntriesTrue, JobTrue
<1> QED BY <1>1, <1>2, <1>3 DEF Next

\* Under the discipline, every object entry at every moment of every run, cut
\* short or not, is named after the bytes it links.
THEOREM EntriesAlwaysTrue ==
    ASSUME Disciplined
    PROVE  Spec => []EntriesTrue
<1>1. Init => Inv
  BY InitTypeInv, InitIndexInv, InitContentInv DEF Inv
<1>2. Spec => []Inv
  BY <1>1, InvStep, PTL DEF Spec
<1> QED BY <1>2, PTL DEF Inv, ContentInv

\* Under the discipline, no step of a run and no crash changes, creates or
\* removes what a visible path reads: deduplication swaps equal for equal.
THEOREM ContentAlwaysKept ==
    ASSUME Disciplined
    PROVE  Spec => VisibleContentKept
<1>1. Init => Inv
  BY InitTypeInv, InitIndexInv, InitContentInv DEF Inv
<1>2. Spec => []Inv
  BY <1>1, InvStep, PTL DEF Spec
<1>3. Inv /\ [Next]_vars =>
         [(\E p \in Procs : RunStep(p) \/ Crash(p)) => Tree' = Tree]_vars
  BY RunContent
<1> QED BY <1>2, <1>3, PTL DEF Spec, VisibleContentKept
=============================================================================

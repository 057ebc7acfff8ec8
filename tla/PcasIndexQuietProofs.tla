------------------------ MODULE PcasIndexQuietProofs -------------------------
(***************************************************************************)
(* `pcas index` on a tree whose owner may write indexed files in place,    *)
(* against the README's contract, but leaves the tree alone while a run is *)
(* in progress.  Entries may then lie about their bytes, calls may fail    *)
(* and processes die; what a complete run achieves, and what no run can    *)
(* lose unnoticed, is proved here.                                         *)
(***************************************************************************)
EXTENDS PcasIndexProofs

OwnerQuiet == UserWhileIndexing = FALSE

\* The walk over the visible paths: from a lock not yet taken to its last path.
InVisit(p) ==
    \/ pc[p] \in {"idle", "clean", "scan", "discover", "visit", "hash", "apply",
                  "create", "stage", "swap", "verify"}
    \/ pc[p] \in {"rename", "drop"} /\ job[p].path \in Paths

\* ObjectIndex is a bijection: by_digest and by_inode have the same records.
Bijective(ix) ==
    /\ \A r, s \in ix.records :
          (r.digest = s.digest \/ r.inode = s.inode) => r = s
    /\ \A r \in ix.records : ix.inodes[r.inode] = r.digest

\* The bytes hashed are those of the inode in hand, which the path in hand
\* still links; the entry about to be moved or dropped is that inode's.
HandTrue(p) ==
    /\ pc[p] \in {"apply", "create", "rename", "drop", "stage", "swap",
                  "settle"} =>
          job[p].inode \in Inodes /\ content[job[p].inode] = job[p].digest
    /\ (/\ pc[p] \in {"apply", "create", "rename", "drop", "stage", "swap"}
        /\ job[p].path \in Paths) =>
          visible[job[p].path] = job[p].inode
    /\ pc[p] \in {"rename", "drop", "settle"} =>
          job[p].entry.inode = job[p].inode
    /\ pc[p] = "settle" => job[p].path = NoPath

\* A new entry goes to an inode that has none, and a path is only ever swapped
\* to another inode than the one it links.
PlaceInv(p) ==
    /\ pc[p] = "create" => \A r \in index[p].records : r.inode # job[p].inode
    /\ (pc[p] = "stage" \/ (pc[p] = "drop" /\ job[p].path \in Paths)) =>
          \A r \in ForDigest(p, job[p].digest) : r.inode # job[p].inode
    /\ pc[p] = "swap" =>
          /\ job[p].entry \in entries /\ job[p].entry.digest = job[p].digest
          /\ job[p].entry.inode # job[p].inode

\* The retained pass never comes back to an entry it has dealt with.
PendingInv(p) ==
    /\ InVisit(p) => pending[p] = {}
    /\ pc[p] \in Reconciling => pending[p] \subseteq index[p].records
    /\ pc[p] \in {"rename", "drop", "settle"} => job[p].entry \notin pending[p]

Memory(p) == Bijective(index[p]) /\ HandTrue(p) /\ PlaceInv(p) /\ PendingInv(p)

MemInv == SafeInv /\ \A p \in Procs : Memory(p)

-----------------------------------------------------------------------------
(* ObjectIndex stays a bijection *)

LEMMA InsertedBijective ==
    ASSUME NEW ix \in ObjectIndex, Bijective(ix), NEW r \in Entry,
           \A x \in ix.records : x.digest # r.digest /\ x.inode # r.inode
    PROVE  Bijective(Inserted(ix, r))
<1>1. Inserted(ix, r).records = ix.records \cup {r}
  BY DEF Inserted
<1>2. /\ Inserted(ix, r).inodes[r.inode] = r.digest
      /\ \A x \in ix.records : Inserted(ix, r).inodes[x.inode] = x.digest
  BY DEF Inserted, Bijective, ObjectIndex, Entry
<1> QED BY <1>1, <1>2 DEF Bijective

LEMMA RemovedBijective ==
    ASSUME NEW ix \in ObjectIndex, Bijective(ix), NEW r \in ix.records
    PROVE  /\ Bijective(Removed(ix, r))
           /\ \A x \in Removed(ix, r).records : x.inode # r.inode
<1>1. Removed(ix, r).records = ix.records \ {r}
  BY DEF Removed
<1>2. \A x \in ix.records \ {r} : x.inode # r.inode
  BY DEF Bijective
<1>3. \A x \in ix.records \ {r} : Removed(ix, r).inodes[x.inode] = x.digest
  BY <1>2 DEF Removed, Bijective, ObjectIndex, Entry
<1> QED BY <1>1, <1>2, <1>3 DEF Bijective

\* by_inode of a bijection leads to the one record on that inode.
LEMMA ForInodeExact ==
    ASSUME TypeInv, NEW p \in Procs, MapsAgree(index[p]), Bijective(index[p]),
           NEW i \in Inodes
    PROVE  /\ \A r \in ForInode(p, i) : r \in index[p].records /\ r.inode = i
           /\ \A r \in index[p].records : r.inode = i => r \in ForInode(p, i)
<1>1. ASSUME NEW r \in ForInode(p, i) PROVE r.inode = i
  <2>1. r \in index[p].records /\ r.digest = index[p].inodes[i]
    BY DEF ForInode
  <2>2. r.digest \in Digests
    BY <2>1 DEF TypeInv, TypeOK, ObjectIndex, Entry
  <2>3. PICK s \in index[p].records : s.digest = r.digest /\ s.inode = i
    BY <2>1, <2>2, Sentinels DEF MapsAgree
  <2> QED BY <2>1, <2>3 DEF Bijective
<1> QED BY <1>1 DEF ForInode, Bijective

-----------------------------------------------------------------------------
(* Each step keeps what the stepping process remembers true *)

\* Back in one of the loops, or past them, with nothing in hand.
LEMMA EmptyHanded ==
    ASSUME NEW p \in Procs,
           pc'[p] \in {"idle", "clean", "scan", "discover", "visit", "hash",
                       "verify", "retain", "prune", "unlink", "done"},
           Bijective(index'[p]),
           pc'[p] \notin {"retain", "prune", "unlink", "done"} =>
              pending'[p] = {},
           pc'[p] = "retain" => pending'[p] \subseteq index'[p].records
    PROVE  Memory(p)'
<1>1. Bijective(index[p])'
  BY DEF Bijective
<1>2. HandTrue(p)' /\ PlaceInv(p)'
  BY DEF HandTrue, PlaceInv
<1>3. PendingInv(p)'
  BY DEF PendingInv, InVisit, Reconciling
<1> QED BY <1>1, <1>2, <1>3 DEF Memory

LEMMA Phase1Memory ==
    ASSUME MemInv, NEW p \in Procs, Acquire(p) \/ Phase1(p) \/ Crash(p)
    PROVE  Memory(p)'
<1> USE DEF MemInv, SafeInv, TypeInv, TypeOK, GoTo
<1>1. CASE Exit(p)
  BY <1>1, EmptyHanded DEF Exit, NoIndex, Bijective
<1>2. CASE Acquire(p) \/ CleanStaleTmp(p) \/ DiscoverFiles(p)
  <2>1. /\ pc[p] \in {"idle", "clean", "discover"}
        /\ pc'[p] \in {"clean", "scan", "visit"}
        /\ UNCHANGED <<index, pending>>
    BY <1>2 DEF Acquire, CleanStaleTmp, DiscoverFiles
  <2> QED BY <2>1, EmptyHanded DEF Memory, PendingInv, InVisit
<1>3. CASE ScanObjectIndex(p)
  <2> DEFINE ix == [records |-> entries,
                    inodes  |-> [i \in Inodes |->
                       IF \E e \in entries : e.inode = i
                       THEN (CHOOSE e \in entries : e.inode = i).digest
                       ELSE NoDigest]]
  <2>1. /\ pc[p] = "scan" /\ ScanIsValid /\ index'[p] = ix
        /\ pc'[p] = "discover" /\ pending' = pending
    BY <1>3 DEF ScanObjectIndex
  <2>2. \A e, f \in entries : (e.digest = f.digest \/ e.inode = f.inode) => e = f
    BY <2>1 DEF ScanIsValid
  <2>3. \A r \in entries : ix.inodes[r.inode] = r.digest
    BY <2>2 DEF Entry
  <2>4. Bijective(ix)
    BY <2>2, <2>3 DEF Bijective
  <2> HIDE DEF ix
  <2> QED BY <2>1, <2>4, EmptyHanded DEF Memory, PendingInv, InVisit
<1> QED BY <1>1, <1>2, <1>3 DEF Phase1, ScanRejects, SetupFails, Crash

LEMMA VisitMemory ==
    ASSUME MemInv, NEW p \in Procs, Visit(p)
    PROVE  Memory(p)'
<1>a. /\ MapsAgree(index[p]) /\ Bijective(index[p])
      /\ \A i \in Inodes : \A r \in ForInode(p, i) : r.inode = i
      /\ \A i \in Inodes : \A r \in index[p].records :
            r.inode = i => r \in ForInode(p, i)
  BY ForInodeExact DEF MemInv, SafeInv, IndexInv, Local, Memory
<1> USE DEF MemInv, SafeInv, TypeInv, TypeOK, GoTo, Memory
<1>0. pc[p] \in {"visit", "hash", "apply"} => pending[p] = {}
  BY DEF PendingInv, InVisit
<1>1. CASE \/ \E q \in Paths : \/ VisitGone(p, q) \/ VisitTrusted(p, q)
                               \/ VisitUntrusted(p, q)
           \/ HashFails(p) \/ ApplyReused(p)
  <2>1. /\ pc[p] \in {"visit", "hash", "apply"} /\ pc'[p] \in {"visit", "hash", "retain"}
        /\ UNCHANGED <<index, pending>>
    BY <1>1 DEF VisitGone, VisitTrusted, VisitUntrusted, Visiting, HashFails,
                ApplyReused, Resume
  <2> QED BY <1>0, <2>1, EmptyHanded
<1>2. CASE Hash(p)
  <2> DEFINE i == visible[job[p].path]
  <2>1. /\ pc[p] = "hash" /\ pc'[p] = "apply" /\ i # NoInode
        /\ job' = [job EXCEPT ![p].digest = content[i], ![p].inode = i]
        /\ UNCHANGED <<userVars, index, pending>>
    BY <1>2 DEF Hash
  <2>2. job[p].path \in Paths
    BY <2>1 DEF JobOK
  <2>3. /\ job'[p].path = job[p].path /\ job'[p].inode = i
        /\ job'[p].digest = content[i]
    BY <2>1 DEF Job
  <2>4. HandTrue(p)'
    BY <2>1, <2>2, <2>3 DEF HandTrue, userVars
  <2>5. PlaceInv(p)' /\ PendingInv(p)' /\ Bijective(index[p])'
    BY <1>0, <2>1 DEF PlaceInv, PendingInv, InVisit, Reconciling, Bijective
  <2> QED BY <2>4, <2>5
<1>3. CASE ApplyNew(p) \/ ApplyChanged(p) \/ ApplyDuplicate(p)
  <2>1. /\ pc[p] = "apply" /\ pc'[p] \in {"create", "rename", "stage", "drop"}
        /\ UNCHANGED <<userVars, index, pending>> /\ pending[p] = {}
    BY <1>0, <1>3 DEF ApplyNew, ApplyChanged, ApplyDuplicate
  <2>2. /\ job[p].path \in Paths /\ job[p].inode \in Inodes
        /\ visible[job[p].path] = job[p].inode
        /\ content[job[p].inode] = job[p].digest
    BY <2>1 DEF JobOK, HandTrue
  <2>3. /\ job'[p].path = job[p].path /\ job'[p].inode = job[p].inode
        /\ job'[p].digest = job[p].digest
        /\ pc'[p] \in {"rename", "drop"} =>
              job'[p].entry \in ForInode(p, job[p].inode)
    <3>1. CASE ApplyNew(p)
      BY <3>1 DEF ApplyNew, Job
    <3>2. CASE ApplyChanged(p)
      BY <3>2 DEF ApplyChanged, Job
    <3>3. CASE ApplyDuplicate(p)
      BY <3>3 DEF ApplyDuplicate, Job
    <3> QED BY <1>3, <3>1, <3>2, <3>3
  <2>5. pc'[p] \in {"rename", "drop"} => job'[p].entry.inode = job[p].inode
    BY <1>a, <2>2, <2>3
  <2>6. HandTrue(p)'
    BY <2>1, <2>2, <2>3, <2>5 DEF HandTrue, userVars
  <2>7. PlaceInv(p)'
    <3>1. pc'[p] = "create" => ForInode(p, job[p].inode) = {}
      BY <1>3 DEF ApplyNew, ApplyChanged, ApplyDuplicate
    <3>2. pc'[p] = "create" =>
             \A r \in index[p].records : r.inode # job[p].inode
      BY <1>a, <2>2, <3>1
    <3>3. pc'[p] \in {"stage", "drop"} =>
             \E r \in ForDigest(p, job[p].digest) : r.inode # job[p].inode
      BY <1>3 DEF ApplyNew, ApplyChanged, ApplyDuplicate
    <3>4. pc'[p] \in {"stage", "drop"} =>
             \A r \in ForDigest(p, job[p].digest) : r.inode # job[p].inode
      BY <1>a, <3>3 DEF Bijective, ForDigest
    <3> QED BY <2>1, <2>3, <3>2, <3>4 DEF PlaceInv, ForDigest
  <2>8. PendingInv(p)' /\ Bijective(index[p])'
    BY <2>1 DEF PendingInv, InVisit, Reconciling, Bijective
  <2> QED BY <2>6, <2>7, <2>8
<1>4. CASE FinishVisits(p)
  <2>1. /\ pc'[p] \in {"retain", "prune"} /\ index' = index
        /\ pending'[p] \subseteq index[p].records
    BY <1>4 DEF FinishVisits, UnverifiedRecords
  <2> QED BY <2>1, EmptyHanded
<1> QED BY <1>1, <1>2, <1>3, <1>4 DEF Visit

\* A repair that resumes its loop: what it removed from ObjectIndex is not
\* among the records the retained pass has yet to visit.
LEMMA ResumedMemory ==
    ASSUME MemInv, NEW p \in Procs, NEW f, Resume(p, f),
           pc[p] \in {"create", "rename", "drop", "stage", "swap", "verify",
                     "settle"},
           pending' = pending,
           Bijective(index'[p]),
           pending[p] \subseteq index'[p].records
    PROVE  Memory(p)'
<1> USE DEF MemInv, SafeInv, TypeInv, TypeOK, GoTo, Resume
<1>1. pc'[p] = IF job[p].path = NoPath THEN "retain" ELSE "visit"
  OBVIOUS
<1>2. pc'[p] = "visit" => job[p].path \in Paths
  BY <1>1 DEF Job
<1>3. pc'[p] = "visit" => pending[p] = {}
  BY <1>1, <1>2, Sentinels DEF Memory, HandTrue, PendingInv, InVisit
<1> QED BY <1>1, <1>3, EmptyHanded

LEMMA RepairMemory ==
    ASSUME MemInv, NEW p \in Procs, Repair(p)
    PROVE  Memory(p)'
<1>0. /\ index[p] \in ObjectIndex /\ index \in [Procs -> ObjectIndex]
      /\ Bijective(index[p])
      /\ pc[p] \in Reconciling => pending[p] \subseteq index[p].records
      /\ pc \in [Procs -> Labels]
  BY DEF MemInv, SafeInv, TypeInv, TypeOK, Memory, PendingInv
<1>1. CASE CreateObjectEntry(p)
  <2> DEFINE new == [digest |-> job[p].digest, ts |-> job[p].ts,
                     inode |-> visible[job[p].path]]
  <2>1. /\ pc[p] = "create" /\ Resume(p, FALSE) /\ new.inode # NoInode
        /\ pending' = pending
        /\ index' = [index EXCEPT ![p] = Inserted(@, new)]
    BY <1>1 DEF CreateObjectEntry, SourceExists
  <2>2. new \in Entry /\ new.inode = job[p].inode
    BY <2>1 DEF MemInv, SafeInv, TypeInv, TypeOK, JobOK, Memory, HandTrue,
                Entry, Job
  <2>3. \A x \in index[p].records : x.digest # new.digest /\ x.inode # new.inode
    BY <2>1, <2>2 DEF MemInv, SafeInv, IndexInv, Local, FreshDigest, ForDigest,
                      Memory, PlaceInv
  <2> HIDE DEF new
  <2>4. index'[p] = Inserted(index[p], new) /\ Bijective(index'[p])
    BY <1>0, <2>1, <2>2, <2>3, InsertedBijective
  <2>5. pending[p] \subseteq index'[p].records
    BY <1>0, <2>1, <2>3, <2>4 DEF Inserted, Reconciling
  <2> QED BY <2>1, <2>4, <2>5, ResumedMemory
<1>2. CASE \/ CreateFails(p) \/ StageFails(p) \/ SwapFails(p) \/ VerifySwap(p)
  <2>1. /\ pc[p] \in {"create", "stage", "swap", "verify"}
        /\ \E f : Resume(p, f)
        /\ UNCHANGED <<index, pending>>
    BY <1>2 DEF CreateFails, StageFails, SwapFails, VerifySwap
  <2> QED BY <1>0, <2>1, ResumedMemory DEF Reconciling
<1>3. CASE RenameObject(p) \/ RenameFails(p) \/ DropStale(p) \/ DropFails(p)
  <2> DEFINE e == job[p].entry
             ix == Removed(index[p], e)
  <2>1. /\ pc[p] \in {"rename", "drop"} /\ pending' = pending
        /\ e \in index[p].records /\ e \in Entry
    BY <1>3 DEF RenameObject, RenameFails, DropStale, DropFails, MemInv,
                SafeInv, IndexInv, Local, DiskInv, TypeInv, JobOK
  <2>2. /\ ix \in ObjectIndex /\ Bijective(ix)
        /\ \A x \in ix.records : x.inode # e.inode
    BY <1>0, <2>1, RemovedType, RemovedBijective
  <2>3. ix.records = index[p].records \ {e}
    BY DEF Removed
  <2>4. pending[p] \subseteq ix.records
    BY <1>0, <2>1, <2>3 DEF MemInv, Memory, PendingInv, Reconciling
  <2>5. CASE RenameObject(p)
    <3>1. Renamed(p) \in Entry /\ Renamed(p).inode = e.inode
      BY <2>1, <2>5 DEF RenameObject, Renamed, MemInv, SafeInv, TypeInv, TypeOK,
                        JobOK, Entry, Job
    <3>2. \A x \in ix.records :
             x.digest # Renamed(p).digest /\ x.inode # Renamed(p).inode
      BY <2>1, <2>2, <2>3, <2>5, <3>1
         DEF RenameObject, MemInv, SafeInv, IndexInv, Local, FreshDigest,
             ForDigest, Renamed
    <3> HIDE DEF ix
    <3>3. Bijective(Inserted(ix, Renamed(p)))
      BY <2>2, <3>1, <3>2, InsertedBijective
    <3>4. index'[p] = Inserted(ix, Renamed(p)) /\ Resume(p, FALSE)
      BY <1>0, <2>5 DEF RenameObject, ix
    <3>5. pending[p] \subseteq index'[p].records
      BY <2>4, <3>2, <3>4 DEF Inserted
    <3> QED BY <2>1, <3>3, <3>4, <3>5, ResumedMemory
  <2>6. CASE ~RenameObject(p)
    <3>1. index'[p] = ix
      BY <1>0, <1>3, <2>6 DEF RenameFails, DropStale, DropFails
    <3>2. CASE \E f : Resume(p, f)
      <4> HIDE DEF ix
      <4> QED BY <2>1, <2>2, <2>4, <3>1, <3>2, ResumedMemory
    <3>3. CASE pc[p] = "drop" /\ GoTo(p, "stage") /\ job[p].path # NoPath
               /\ UNCHANGED <<job, userVars>>
      <4>1. pc'[p] = "stage"
        BY <1>0, <3>3 DEF GoTo
      <4>2. job[p].path \in Paths
        BY <3>3 DEF MemInv, SafeInv, TypeInv, TypeOK, Job
      <4>3. HandTrue(p)'
        BY <3>3, <4>1 DEF MemInv, Memory, HandTrue, userVars
      <4>4. \A r \in ForDigest(p, job[p].digest) : r.inode # job[p].inode
        BY <3>3, <4>2 DEF MemInv, Memory, PlaceInv
      <4>5. PlaceInv(p)'
        BY <2>3, <3>1, <3>3, <4>1, <4>4 DEF PlaceInv, ForDigest
      <4>6. pending[p] = {}
        BY <3>3, <4>2 DEF MemInv, Memory, PendingInv, InVisit
      <4>7. PendingInv(p)'
        BY <2>1, <4>1, <4>6 DEF PendingInv
      <4>8. Bijective(index[p])'
        BY <2>2, <3>1 DEF Bijective
      <4> QED BY <4>3, <4>5, <4>7, <4>8 DEF Memory
    <3> QED BY <1>3, <2>6, <3>2, <3>3 DEF RenameFails, DropStale, DropFails
  <2> QED BY <2>5, <2>6
<1>4. CASE StageLink(p)
  <2>1. PICK r \in ForDigest(p, job[p].digest) \cap entries :
           job' = [job EXCEPT ![p].entry = r]
    BY <1>4 DEF StageLink
  <2>2. /\ job'[p].path = job[p].path /\ job'[p].inode = job[p].inode
        /\ job'[p].digest = job[p].digest /\ job'[p].entry = r
    BY <2>1 DEF MemInv, SafeInv, TypeInv, TypeOK, Job
  <2>3. /\ pc[p] = "stage" /\ pc'[p] = "swap"
        /\ UNCHANGED <<userVars, entries, index, pending>>
    BY <1>0, <1>4 DEF StageLink, GoTo
  <2>4. HandTrue(p)'
    BY <2>2, <2>3 DEF MemInv, Memory, HandTrue, userVars
  <2>5. PlaceInv(p)'
    BY <2>1, <2>2, <2>3 DEF MemInv, Memory, PlaceInv, ForDigest
  <2>6. PendingInv(p)' /\ Bijective(index[p])'
    BY <1>0, <2>3 DEF MemInv, Memory, PendingInv, InVisit, Reconciling, Bijective
  <2> QED BY <2>4, <2>5, <2>6 DEF Memory
<1>5. CASE SwapIn(p)
  <2>1. /\ pc[p] = "swap" /\ pc'[p] = "verify"
        /\ UNCHANGED <<index, pending>>
    BY <1>0, <1>5 DEF SwapIn, GoTo
  <2> QED BY <1>0, <2>1, EmptyHanded DEF MemInv, Memory, PendingInv, InVisit
<1> QED BY <1>1, <1>2, <1>3, <1>4, <1>5 DEF Repair

LEMMA RetainedMemory ==
    ASSUME MemInv, NEW p \in Procs, Retained(p)
    PROVE  Memory(p)'
<1>0. /\ Bijective(index[p])
      /\ pc[p] \in Reconciling => pending[p] \subseteq index[p].records
      /\ pc \in [Procs -> Labels] /\ job \in [Procs -> Job]
      /\ pending \in [Procs -> SUBSET Entry]
  BY DEF MemInv, SafeInv, TypeInv, TypeOK, Memory, PendingInv
<1>1. ASSUME NEW r \in pending[p], RetainedSkip(p, r) \/ RetainedHashFails(p, r)
      PROVE  Memory(p)'
  <2>1. /\ pc[p] = "retain" /\ pc' = pc /\ index' = index
        /\ pending'[p] \subseteq pending[p]
    BY <1>0, <1>1 DEF RetainedSkip, RetainedHashFails, Retaining
  <2> QED BY <1>0, <2>1, EmptyHanded DEF Reconciling
<1>2. ASSUME NEW r \in pending[p], RetainedHash(p, r)
      PROVE  Memory(p)'
  <2>1. PICK known \in ForDigest(p, r.digest) :
           job' = [job EXCEPT ![p] =
              [NoJob EXCEPT !.digest = content[r.inode], !.inode = r.inode,
                            !.entry = known]]
    BY <1>2 DEF RetainedHash
  <2>2. /\ pc[p] = "retain" /\ pc'[p] = "settle"
        /\ pending'[p] = pending[p] \ {r}
        /\ UNCHANGED <<userVars, index>>
    BY <1>0, <1>2 DEF RetainedHash, Retaining, GoTo
  <2>3. known = r
    BY <1>0, <2>1, <2>2 DEF ForDigest, Bijective, Reconciling
  <2>4. /\ job'[p].digest = content[r.inode] /\ job'[p].inode = r.inode
        /\ job'[p].entry = r /\ job'[p].path = NoPath
    BY <1>0, <2>1, <2>3 DEF NoJob
  <2>5. r.inode \in Inodes
    BY <1>0 DEF Entry
  <2>6. HandTrue(p)' /\ PlaceInv(p)'
    BY <2>2, <2>4, <2>5 DEF HandTrue, PlaceInv, userVars
  <2>7. PendingInv(p)' /\ Bijective(index[p])'
    BY <1>0, <2>2, <2>4, Sentinels
       DEF PendingInv, InVisit, Reconciling, Bijective
  <2> QED BY <2>6, <2>7 DEF Memory
<1>3. CASE SettleSame(p)
  <2>1. pc[p] = "settle" /\ Resume(p, FALSE) /\ UNCHANGED <<index, pending>>
    BY <1>3 DEF SettleSame
  <2> QED BY <1>0, <2>1, ResumedMemory DEF Reconciling
<1>4. CASE SettleChanged(p)
  <2>1. /\ job'[p].digest = job[p].digest /\ job'[p].entry = job[p].entry
        /\ job'[p].path = job[p].path /\ job'[p].inode = job[p].inode
    BY <1>0, <1>4 DEF SettleChanged, Job
  <2>2. /\ pc[p] = "settle" /\ pc'[p] \in {"rename", "drop"}
        /\ UNCHANGED <<userVars, index, pending>>
    BY <1>0, <1>4 DEF SettleChanged, GoTo
  <2>3. job[p].path = NoPath
    BY <2>2 DEF MemInv, Memory, HandTrue
  <2>4. HandTrue(p)' /\ PlaceInv(p)'
    BY <2>1, <2>2, <2>3, Sentinels
       DEF MemInv, Memory, HandTrue, PlaceInv, userVars
  <2>5. PendingInv(p)' /\ Bijective(index[p])'
    BY <1>0, <2>1, <2>2, <2>3, Sentinels
       DEF MemInv, Memory, PendingInv, InVisit, Reconciling, Bijective
  <2> QED BY <2>4, <2>5 DEF Memory
<1>5. CASE FinishRetained(p)
  <2>1. pc'[p] = "prune" /\ index' = index
    BY <1>0, <1>5 DEF FinishRetained, GoTo
  <2> QED BY <1>0, <2>1, EmptyHanded
<1> QED BY <1>1, <1>2, <1>3, <1>4, <1>5 DEF Retained

LEMMA PruneMemory ==
    ASSUME MemInv, NEW p \in Procs, Prune(p)
    PROVE  Memory(p)'
<1> USE DEF MemInv, SafeInv, TypeInv, TypeOK, GoTo
<1>1. CASE Release(p)
  BY <1>1, EmptyHanded DEF Release, Exit, NoIndex, Bijective
<1>2. CASE ~Release(p)
  <2>1. pc'[p] \in {"prune", "unlink", "done"} /\ index' = index
    BY <1>2 DEF Prune, PruneStat, PruneUnlink, FinishPrune
  <2> QED BY <2>1, EmptyHanded DEF Memory
<1> QED BY <1>1, <1>2

-----------------------------------------------------------------------------

LEMMA OthersIdle ==
    ASSUME TypeInv, IndexInv, NEW p \in Procs,
           Acquire(p) \/ RunStep(p) \/ Crash(p)
    PROVE  \A q \in Procs \ {p} : pc[q] = "idle" /\ pc'[q] = "idle"
BY StepFrame, Sentinels DEF IndexInv, LockInv, Others

\* A quiet owner acts only when nobody is indexing.
LEMMA OwnerFrame ==
    ASSUME OwnerQuiet, TypeInv, IndexInv, User
    PROVE  /\ \A p \in Procs : pc[p] = "idle"
           /\ UNCHANGED <<diskVars, lock, procVars>>
<1>1. lock = NoProc /\ UNCHANGED <<diskVars, lock, procVars>>
  BY DEF OwnerQuiet, User, UserReplaces, UserWritesInPlace, UserRemoves,
     UserMoves, UserLinks, UserMayAct
<1> QED BY <1>1, Sentinels DEF IndexInv, LockInv

LEMMA InitMemInv == Init => MemInv
<1> SUFFICES ASSUME Init PROVE \A p \in Procs : Memory(p)
  BY InitSafeInv DEF MemInv
<1>1. \A p \in Procs : pc[p] = "idle" /\ index[p] = NoIndex /\ pending[p] = {}
  BY DEF Init
<1> QED BY <1>1 DEF Memory, NoIndex, Bijective, HandTrue, PlaceInv, PendingInv,
           Reconciling

LEMMA MemInvStep ==
    ASSUME OwnerQuiet
    PROVE  MemInv /\ [Next]_vars => MemInv'
<1> SUFFICES ASSUME MemInv, [Next]_vars PROVE \A p \in Procs : Memory(p)'
  BY SafeInvStep DEF MemInv
<1>a. TypeInv /\ IndexInv
  BY DEF MemInv, SafeInv
<1>1. ASSUME NEW p \in Procs, Acquire(p) \/ RunStep(p) \/ Crash(p)
      PROVE  \A q \in Procs : Memory(q)'
  <2>1. Memory(p)'
    BY <1>1, Phase1Memory, VisitMemory, RepairMemory, RetainedMemory,
       PruneMemory DEF RunStep
  <2>2. ASSUME NEW q \in Procs \ {p} PROVE Memory(q)'
    <3>1. /\ pc[q] = "idle" /\ pc'[q] = "idle"
          /\ index'[q] = index[q] /\ pending'[q] = pending[q]
      BY <1>a, <1>1, OthersIdle, StepFrame DEF Others
    <3> QED BY <3>1, EmptyHanded DEF MemInv, Memory, PendingInv, InVisit
  <2> QED BY <2>1, <2>2
<1>2. ASSUME User PROVE \A q \in Procs : Memory(q)'
  <2>1. \A q \in Procs : /\ pc[q] = "idle" /\ pc'[q] = "idle"
                         /\ index'[q] = index[q] /\ pending'[q] = pending[q]
    BY <1>a, <1>2, OwnerFrame DEF procVars
  <2> QED BY <2>1, EmptyHanded DEF MemInv, Memory, PendingInv, InVisit
<1>3. CASE UNCHANGED vars
  <2> SUFFICES ASSUME NEW p \in Procs PROVE Memory(p)'
    OBVIOUS
  <2>1. Memory(p)
    BY DEF MemInv
  <2> QED BY <1>3, <2>1 DEF Memory, Bijective, HandTrue, PlaceInv, PendingInv,
             InVisit, ForDigest, vars, userVars, diskVars, procVars
<1> QED BY <1>1, <1>2, <1>3 DEF Next

-----------------------------------------------------------------------------
(* What a step does to the disk *)

\* The steps that change ObjectIndex once it is scanned.
Reindexes(p) ==
    \/ CreateObjectEntry(p) \/ CreateFails(p)
    \/ RenameObject(p) \/ RenameFails(p) \/ DropStale(p) \/ DropFails(p)

\* A run writes no file: it only links, renames and unlinks.
LEMMA RunWritesNothing ==
    ASSUME TypeInv, NEW p \in Procs, Acquire(p) \/ RunStep(p) \/ Crash(p)
    PROVE  /\ UNCHANGED <<content, mtime, clock>>
           /\ ~SwapIn(p) => visible' = visible
<1>1. UNCHANGED <<content, mtime, clock>>
  BY DEF userVars, RunStep, Acquire, Crash, Phase1, CleanStaleTmp,
     ScanObjectIndex, ScanRejects, DiscoverFiles, SetupFails, Visit, VisitGone,
     VisitTrusted, VisitUntrusted, Hash, HashFails, ApplyReused, ApplyNew,
     ApplyChanged, ApplyDuplicate, FinishVisits, Repair, CreateObjectEntry,
     CreateFails, RenameObject, RenameFails, DropStale, DropFails, StageLink,
     StageFails, SwapIn, SwapFails, VerifySwap, Retained, RetainedSkip,
     RetainedHash, RetainedHashFails, SettleSame, SettleChanged,
     FinishRetained, Prune, PruneStat, PruneUnlink, FinishPrune, Release
<1>2. ~SwapIn(p) => visible' = visible
  BY DEF userVars, RunStep, Acquire, Crash, Phase1, CleanStaleTmp,
     ScanObjectIndex, ScanRejects, DiscoverFiles, SetupFails, Visit, VisitGone,
     VisitTrusted, VisitUntrusted, Hash, HashFails, ApplyReused, ApplyNew,
     ApplyChanged, ApplyDuplicate, FinishVisits, Repair, CreateObjectEntry,
     CreateFails, RenameObject, RenameFails, DropStale, DropFails, StageLink,
     StageFails, SwapFails, VerifySwap, Retained, RetainedSkip,
     RetainedHash, RetainedHashFails, SettleSame, SettleChanged,
     FinishRetained, Prune, PruneStat, PruneUnlink, FinishPrune, Release
<1> QED BY <1>1, <1>2

\* Only these six steps and PruneUnlink touch the entries.
LEMMA EntriesFrame ==
    ASSUME NEW p \in Procs, Acquire(p) \/ RunStep(p) \/ Crash(p),
           ~Reindexes(p)
    PROVE  /\ entries' \subseteq entries
           /\ ~PruneUnlink(p) => entries' = entries
BY DEF Reindexes, diskVars, RunStep, Acquire, Crash, Phase1, CleanStaleTmp,
   ScanObjectIndex, ScanRejects, DiscoverFiles, SetupFails, Visit, VisitGone,
   VisitTrusted, VisitUntrusted, Hash, HashFails, ApplyReused, ApplyNew,
   ApplyChanged, ApplyDuplicate, FinishVisits, Repair, StageLink,
   StageFails, SwapIn, SwapFails, VerifySwap, Retained, RetainedSkip,
   RetainedHash, RetainedHashFails, SettleSame, SettleChanged,
   FinishRetained, Prune, PruneStat, PruneUnlink, FinishPrune, Release

\* Every entry a run adds is named after the bytes it links.
LEMMA NewEntryTrue ==
    ASSUME MemInv, NEW p \in Procs, Acquire(p) \/ RunStep(p) \/ Crash(p),
           NEW e \in entries' \ entries
    PROVE  /\ e.digest = content[e.inode] /\ e.ts = job[p].ts
           /\ Reindexes(p)
<1>1. CASE CreateObjectEntry(p) \/ CreateFails(p)
  <2>1. /\ pc[p] = "create" /\ SourceExists(p)
        /\ e = [digest |-> job[p].digest, ts |-> job[p].ts,
                inode |-> visible[job[p].path]]
    BY <1>1 DEF CreateObjectEntry, CreateFails
  <2>2. /\ visible[job[p].path] = job[p].inode
        /\ content[job[p].inode] = job[p].digest
    BY <2>1 DEF MemInv, Memory, HandTrue, SafeInv, TypeInv, JobOK
  <2> QED BY <1>1, <2>1, <2>2 DEF Reindexes
<1>2. CASE RenameObject(p) \/ RenameFails(p)
  <2>1. pc[p] = "rename" /\ e = Renamed(p)
    BY <1>2 DEF RenameObject, RenameFails, AfterRename
  <2>2. /\ job[p].entry.inode = job[p].inode
        /\ content[job[p].inode] = job[p].digest
    BY <2>1 DEF MemInv, Memory, HandTrue
  <2> QED BY <1>2, <2>1, <2>2 DEF Renamed, Reindexes
<1>3. ~DropStale(p) /\ ~DropFails(p)
  BY DEF DropStale, DropFails, diskVars
<1> QED BY <1>1, <1>2, <1>3, EntriesFrame DEF Reindexes

-----------------------------------------------------------------------------
(* Unless a failure was reported, ObjectIndex knows every entry, and nothing *)
(* is staged but the link about to be swapped in                             *)

Knowing == Reconciling \cup {"prune", "unlink", "done"}

KnownInv(p) == pc[p] \in Knowing /\ ~failed[p] => entries \subseteq index[p].records

TmpInv(p) ==
    pc[p] \notin {"idle", "clean"} =>
        tmp \subseteq IF pc[p] = "swap" THEN {Staged(p)} ELSE {}

\* The steps a run takes with its index scanned keep it and, once there, the
\* verdict that something failed.
LEMMA KnowingFrame ==
    ASSUME TypeInv, NEW p \in Procs, Acquire(p) \/ RunStep(p) \/ Crash(p),
           pc'[p] \in Knowing, ~ScanObjectIndex(p)
    PROVE  /\ pc[p] \in Knowing
           /\ ~failed'[p] => ~failed[p]
           /\ opts'[p] = opts[p]
           /\ ~Reindexes(p) => index'[p] = index[p]
<1> USE DEF TypeInv, TypeOK, GoTo, Note, Resume, Knowing, Reconciling
<1>1. ~Exit(p) /\ ~Acquire(p)
  BY DEF Exit, Acquire
<1>2. CASE Phase1(p)
  BY <1>1, <1>2 DEF Phase1, CleanStaleTmp, ScanRejects, DiscoverFiles,
     SetupFails
<1>3. CASE Visit(p)
  BY <1>3 DEF Visit, VisitGone, VisitTrusted, VisitUntrusted, Visiting, Hash,
     HashFails, ApplyReused, ApplyNew, ApplyChanged, ApplyDuplicate,
     FinishVisits
<1>4. CASE Repair(p)
  BY <1>4 DEF Reindexes, Repair, CreateObjectEntry, CreateFails, RenameObject,
     RenameFails, DropStale, DropFails, StageLink, StageFails, SwapIn,
     SwapFails, VerifySwap
<1>5. CASE Retained(p)
  BY <1>5 DEF Retained, RetainedSkip, RetainedHash, RetainedHashFails,
     Retaining, SettleSame, SettleChanged, FinishRetained
<1>6. CASE Prune(p)
  BY <1>1, <1>6 DEF Prune, PruneStat, PruneUnlink, FinishPrune, Release
<1> QED BY <1>1, <1>2, <1>3, <1>4, <1>5, <1>6 DEF RunStep, Crash

LEMMA FailureNoted ==
    ASSUME TypeInv, NEW p \in Procs,
           CreateFails(p) \/ RenameFails(p) \/ DropFails(p)
    PROVE  failed'[p]
BY DEF CreateFails, RenameFails, DropFails, Resume, Note, TypeInv, TypeOK

\* insert and remove follow what the calls did to the disk.
LEMMA ReindexedKnown ==
    ASSUME MemInv, NEW p \in Procs,
           CreateObjectEntry(p) \/ RenameObject(p) \/ DropStale(p),
           entries \subseteq index[p].records
    PROVE  entries' \subseteq index'[p].records
<1>1. index \in [Procs -> ObjectIndex]
  BY DEF MemInv, SafeInv, TypeInv, TypeOK
<1>2. CASE CreateObjectEntry(p)
  <2> DEFINE new == [digest |-> job[p].digest, ts |-> job[p].ts,
                     inode |-> visible[job[p].path]]
  <2>1. /\ pc[p] = "create" /\ entries' = entries \cup {new}
        /\ index'[p] = Inserted(index[p], new)
    BY <1>1, <1>2 DEF CreateObjectEntry
  <2>2. \A x \in index[p].records : x.digest # new.digest
    BY <2>1 DEF MemInv, SafeInv, IndexInv, Local, FreshDigest, ForDigest
  <2> HIDE DEF new
  <2> QED BY <2>1, <2>2 DEF Inserted
<1>3. CASE RenameObject(p)
  <2>1. /\ pc[p] = "rename"
        /\ entries' = (entries \ {job[p].entry}) \cup {Renamed(p)}
        /\ index'[p] = Inserted(Removed(index[p], job[p].entry), Renamed(p))
    BY <1>1, <1>3 DEF RenameObject, AfterRename
  <2>2. \A x \in index[p].records : x.digest # Renamed(p).digest
    BY <2>1 DEF MemInv, SafeInv, IndexInv, Local, FreshDigest, ForDigest,
                Renamed
  <2> QED BY <2>1, <2>2 DEF Inserted, Removed
<1>4. CASE DropStale(p)
  BY <1>1, <1>4 DEF DropStale, Removed
<1> QED BY <1>2, <1>3, <1>4

LEMMA KnownStep ==
    ASSUME MemInv, NEW p \in Procs, Acquire(p) \/ RunStep(p) \/ Crash(p),
           KnownInv(p)
    PROVE  KnownInv(p)'
<1> SUFFICES ASSUME pc'[p] \in Knowing, ~failed'[p]
             PROVE  entries' \subseteq index'[p].records
  BY DEF KnownInv
<1>a. TypeInv
  BY DEF MemInv, SafeInv
<1>1. CASE ScanObjectIndex(p)
  BY <1>1 DEF ScanObjectIndex, diskVars, MemInv, SafeInv, TypeInv, TypeOK
<1>2. CASE ~ScanObjectIndex(p)
  <2>1. entries \subseteq index[p].records
    BY <1>a, <1>2, KnowingFrame DEF KnownInv
  <2>2. CASE Reindexes(p)
    BY <1>a, <2>1, <2>2, FailureNoted, ReindexedKnown DEF Reindexes
  <2>3. CASE ~Reindexes(p)
    BY <1>a, <1>2, <2>1, <2>3, KnowingFrame, EntriesFrame
  <2> QED BY <2>2, <2>3
<1> QED BY <1>1, <1>2

LEMMA TmpStep ==
    ASSUME MemInv, NEW p \in Procs, Acquire(p) \/ RunStep(p) \/ Crash(p),
           TmpInv(p)
    PROVE  TmpInv(p)'
<1> USE DEF MemInv, SafeInv, TypeInv, TypeOK, GoTo, diskVars
<1>1. CASE pc'[p] \in {"idle", "clean"}
  BY <1>1 DEF TmpInv
<1>2. CASE CleanStaleTmp(p)
  BY <1>2 DEF CleanStaleTmp, TmpInv
<1>3. CASE StageLink(p)
  <2>1. PICK r \in ForDigest(p, job[p].digest) \cap entries :
           /\ tmp' = tmp \cup {[path |-> job[p].path, inode |-> r.inode]}
           /\ job' = [job EXCEPT ![p].entry = r]
    BY <1>3 DEF StageLink
  <2>2. Staged(p)' = [path |-> job[p].path, inode |-> r.inode]
    BY <2>1 DEF Staged, Job
  <2>3. pc[p] = "stage" /\ pc'[p] = "swap" /\ tmp \subseteq {}
    BY <1>3 DEF StageLink, TmpInv
  <2> QED BY <2>1, <2>2, <2>3 DEF TmpInv
<1>4. CASE SwapIn(p) \/ SwapFails(p)
  <2>1. /\ pc[p] = "swap" /\ pc'[p] # "swap"
        /\ tmp \subseteq {Staged(p)}
    BY <1>4 DEF SwapIn, SwapFails, Resume, TmpInv
  <2>2. visible[job[p].path] # Staged(p).inode
    BY <2>1 DEF JobOK, Memory, HandTrue, PlaceInv, Staged
  <2>3. tmp' = tmp \ {Staged(p)}
    BY <1>4, <2>2 DEF SwapIn, SwapFails
  <2> QED BY <2>1, <2>3 DEF TmpInv
<1>5. CASE /\ pc'[p] \notin {"idle", "clean"}
           /\ ~CleanStaleTmp(p) /\ ~StageLink(p) /\ ~SwapIn(p) /\ ~SwapFails(p)
  <2>1. /\ pc[p] \notin {"idle", "clean", "swap"} /\ pc'[p] # "swap"
        /\ tmp' = tmp
    <3>1. ~Exit(p) /\ ~Acquire(p)
      BY <1>5 DEF Exit, Acquire
    <3>2. CASE Phase1(p)
      BY <1>5, <3>1, <3>2 DEF Phase1, ScanObjectIndex, ScanRejects,
         DiscoverFiles, SetupFails
    <3>3. CASE Visit(p)
      BY <3>3 DEF Visit, VisitGone, VisitTrusted, VisitUntrusted, Visiting,
         Hash, HashFails, ApplyReused, ApplyNew, ApplyChanged, ApplyDuplicate,
         FinishVisits, Resume
    <3>4. CASE Repair(p)
      BY <1>5, <3>4 DEF Repair, CreateObjectEntry, CreateFails, RenameObject,
         RenameFails, DropStale, DropFails, StageFails, VerifySwap, Resume
    <3>5. CASE Retained(p)
      BY <3>5 DEF Retained, RetainedSkip, RetainedHash, RetainedHashFails,
         Retaining, SettleSame, SettleChanged, FinishRetained, Resume
    <3>6. CASE Prune(p)
      BY <3>1, <3>6 DEF Prune, PruneStat, PruneUnlink, FinishPrune, Release
    <3> QED BY <3>1, <3>2, <3>3, <3>4, <3>5, <3>6 DEF RunStep, Crash
  <2> QED BY <2>1 DEF TmpInv
<1> QED BY <1>1, <1>2, <1>3, <1>4, <1>5

-----------------------------------------------------------------------------
(* Clocks: an index time is never in the future, and a lie is always younger *)
(* than the entry it is told under                                           *)

TimeInv == /\ \A e \in entries : e.ts <= clock
           /\ \A p \in Procs : job[p].ts <= clock

MarginInv == \A e \in entries :
    mtime[e.inode] + MtimeLag <= e.ts => e.digest = content[e.inode]

ClockInv == TimeInv /\ MarginInv

\* IndexTimestamp::now() is read, at any moment, from the clock.
LEMMA JobTimes ==
    ASSUME TypeInv, NEW p \in Procs, Acquire(p) \/ RunStep(p) \/ Crash(p)
    PROVE  /\ job'[p].ts \in {job[p].ts, clock, 0}
           /\ \A q \in Procs \ {p} : job'[q] = job[q]
<1>1. \A q \in Procs \ {p} : job'[q] = job[q]
  BY StepFrame DEF Others
<1> USE DEF TypeInv, TypeOK, GoTo, Note, Resume, Job, NoJob
<1>2. CASE Exit(p) \/ Acquire(p) \/ Phase1(p)
  BY <1>2 DEF Exit, Acquire, Phase1, CleanStaleTmp, ScanObjectIndex,
     ScanRejects, DiscoverFiles, SetupFails
<1>3. CASE Visit(p)
  <2>1. CASE \E q \in Paths :
                VisitGone(p, q) \/ VisitTrusted(p, q) \/ VisitUntrusted(p, q)
    BY <2>1 DEF VisitGone, VisitTrusted, VisitUntrusted
  <2>2. CASE Hash(p) \/ HashFails(p) \/ ApplyReused(p) \/ FinishVisits(p)
    BY <2>2 DEF Hash, HashFails, ApplyReused, FinishVisits
  <2>3. CASE ApplyNew(p)
    BY <2>3 DEF ApplyNew
  <2>4. CASE ApplyChanged(p)
    BY <2>4 DEF ApplyChanged
  <2>5. CASE ApplyDuplicate(p)
    BY <2>5 DEF ApplyDuplicate
  <2> QED BY <1>3, <2>1, <2>2, <2>3, <2>4, <2>5 DEF Visit
<1>4. CASE Repair(p)
  BY <1>4 DEF Repair, CreateObjectEntry, CreateFails, RenameObject,
     RenameFails, DropStale, DropFails, StageLink, StageFails, SwapIn,
     SwapFails, VerifySwap
<1>5. CASE Retained(p)
  <2>1. CASE \E r \in pending[p] :
                \/ RetainedSkip(p, r) \/ RetainedHash(p, r)
                \/ RetainedHashFails(p, r)
    <3>1. CASE \E r \in pending[p] : RetainedHash(p, r)
      <4>1. PICK i, d, k : job' = [job EXCEPT ![p] =
               [NoJob EXCEPT !.digest = d, !.inode = i, !.entry = k]]
        BY <3>1 DEF RetainedHash
      <4> QED BY <4>1
    <3> QED BY <2>1, <3>1 DEF RetainedSkip, RetainedHashFails
  <2>2. CASE SettleSame(p) \/ FinishRetained(p)
    BY <2>2 DEF SettleSame, FinishRetained
  <2>3. CASE SettleChanged(p)
    BY <2>3 DEF SettleChanged
  <2> QED BY <1>5, <2>1, <2>2, <2>3 DEF Retained
<1>6. CASE Prune(p)
  BY <1>2, <1>6 DEF Prune, PruneStat, PruneUnlink, FinishPrune, Release
<1> QED BY <1>1, <1>2, <1>3, <1>4, <1>5, <1>6 DEF RunStep, Crash

LEMMA RunClock ==
    ASSUME MemInv, ClockInv, NEW p \in Procs,
           Acquire(p) \/ RunStep(p) \/ Crash(p)
    PROVE  ClockInv'
<1>1. UNCHANGED <<content, mtime, clock>>
  BY RunWritesNothing DEF MemInv, SafeInv
<1>2. \A e \in entries' \ entries :
         e.digest = content[e.inode] /\ e.ts = job[p].ts
  BY NewEntryTrue
<1>3. TimeInv'
  <2>1. clock \in Nat /\ 0 <= clock
    BY ModelAssumption DEF MemInv, SafeInv, TypeInv, TypeOK
  <2>2. \A q \in Procs : job'[q].ts <= clock
    BY <2>1, JobTimes DEF ClockInv, TimeInv, MemInv, SafeInv
  <2> QED BY <1>1, <1>2, <2>2 DEF ClockInv, TimeInv
<1>4. MarginInv'
  BY <1>1, <1>2 DEF ClockInv, MarginInv
<1> QED BY <1>3, <1>4 DEF ClockInv

\* A stamp that lags by at most MtimeLag, plus MtimeLag, is past every index
\* time taken before the write.
LEMMA StampedLate ==
    ASSUME NEW c \in Nat, NEW bound \in Nat, NEW lag \in 0..bound, lag <= c + 1,
           NEW ts \in Nat, ts <= c
    PROVE  ~(((c + 1) - lag) + bound <= ts)
OBVIOUS

LEMMA UserClock ==
    ASSUME OwnerQuiet, MemInv, ClockInv, User
    PROVE  ClockInv'
<1>a. TypeInv /\ IndexInv
  BY DEF MemInv, SafeInv
<1>b. UNCHANGED <<diskVars, lock, procVars>>
  BY <1>a, OwnerFrame
<1>1. clock \in Nat /\ MtimeLag \in Nat
  BY <1>a, ModelAssumption DEF TypeInv, TypeOK
<1>2. PICK q \in Paths :
         \/ UserReplaces(q) \/ UserWritesInPlace(q) \/ UserRemoves(q)
         \/ \E dest \in Paths : UserMoves(q, dest) \/ UserLinks(q, dest)
  BY DEF User
<1>3. CASE UserReplaces(q) \/ UserWritesInPlace(q)
  <2>1. PICK i \in Inodes, d \in Digests :
           Stamped(i) /\ content' = [content EXCEPT ![i] = d]
    <3>1. CASE UserReplaces(q)
      BY <3>1 DEF UserReplaces
    <3>2. CASE UserWritesInPlace(q)
      <4>1. visible[q] \in Inodes
        BY <1>a, <3>2 DEF UserWritesInPlace, TypeInv, TypeOK
      <4> QED BY <3>2, <4>1 DEF UserWritesInPlace
    <3> QED BY <1>3, <3>1, <3>2
  <2>2. PICK lag \in 0..MtimeLag :
           /\ lag <= clock' /\ clock' = clock + 1
           /\ mtime' = [mtime EXCEPT ![i] = clock' - lag]
    BY <2>1 DEF Stamped
  <2>3. TimeInv'
    BY <1>a, <1>b, <1>1, <2>2
       DEF ClockInv, TimeInv, diskVars, procVars, TypeInv, TypeOK, Entry, Job
  <2>4. ASSUME NEW e \in entries',
               mtime'[e.inode] + MtimeLag <= e.ts
        PROVE  e.digest = content'[e.inode]
    <3>1. /\ e \in entries /\ e.ts \in Nat /\ e.ts <= clock /\ e.inode \in Inodes
          /\ mtime \in [Inodes -> 0..MaxClock] /\ content \in [Inodes -> Digests]
      BY <1>a, <1>b, ModelAssumption
         DEF diskVars, ClockInv, TimeInv, TypeInv, TypeOK, Entry
    <3>2. e.inode # i
      <4> SUFFICES ASSUME e.inode = i PROVE FALSE
        OBVIOUS
      <4>1. mtime'[i] = (clock + 1) - lag
        BY <2>2, <3>1
      <4> QED BY <1>1, <2>2, <2>4, <3>1, <4>1, StampedLate
    <3>3. mtime'[e.inode] = mtime[e.inode] /\ content'[e.inode] = content[e.inode]
      BY <2>1, <2>2, <3>1, <3>2
    <3> QED BY <2>4, <3>1, <3>3 DEF ClockInv, MarginInv
  <2> QED BY <2>3, <2>4 DEF ClockInv, MarginInv
<1>4. CASE UNCHANGED <<content, mtime, clock>>
  BY <1>b, <1>4 DEF ClockInv, TimeInv, MarginInv, diskVars, procVars
<1> QED BY <1>2, <1>3, <1>4 DEF UserRemoves, UserMoves, UserLinks

LEMMA ClockInvStep ==
    ASSUME OwnerQuiet
    PROVE  MemInv /\ ClockInv /\ [Next]_vars => ClockInv'
<1>1. MemInv /\ ClockInv /\ UNCHANGED vars => ClockInv'
  BY DEF ClockInv, TimeInv, MarginInv, vars, userVars, diskVars, procVars
<1> QED BY <1>1, RunClock, UserClock DEF Next

\* An entry the fast path would trust by a margin as wide as mtimes may lag
\* is named after its bytes, whatever the owner wrote in place between runs,
\* whatever calls failed and wherever a run died.
THEOREM NeverSilentlyWrong ==
    ASSUME OwnerQuiet
    PROVE  Spec => []NoSilentlyWrongDigest
<1>1. Init => ClockInv
  BY ModelAssumption DEF Init, ClockInv, TimeInv, MarginInv, NoJob
<1>2. Spec => [](MemInv /\ ClockInv)
  BY <1>1, InitMemInv, MemInvStep, ClockInvStep, PTL DEF Spec
<1>3. ClockInv => NoSilentlyWrongDigest
  BY DEF ClockInv, MarginInv, NoSilentlyWrongDigest
<1> QED BY <1>2, <1>3, PTL

\* Deduplication can only lose bytes to an entry that lied before: a path is
\* swapped from the inode that was hashed to the entry of that very digest.
THEOREM LossAlwaysNeedsDamage ==
    ASSUME OwnerQuiet
    PROVE  Spec => LossNeedsDamage
<1>1. Spec => []MemInv
  BY InitMemInv, MemInvStep, PTL DEF Spec
<1>2. ASSUME MemInv, NEW p \in Procs, RunStep(p),
             \A e \in entries : e.digest = content[e.inode]
      PROVE  Tree' = Tree
  <2>a. TypeInv
    BY <1>2 DEF MemInv, SafeInv
  <2>1. content' = content
    BY <1>2, <2>a, RunWritesNothing
  <2>2. CASE ~SwapIn(p)
    BY <1>2, <2>a, <2>1, <2>2, RunWritesNothing DEF Tree
  <2>3. CASE SwapIn(p)
    <3> DEFINE q == job[p].path
               i == job[p].entry.inode
    <3>1. pc[p] = "swap" /\ visible' = [visible EXCEPT ![q] = i]
      BY <2>3 DEF SwapIn, Staged
    <3>2. /\ q \in Paths /\ visible[q] = job[p].inode
          /\ job[p].inode \in Inodes
          /\ content[job[p].inode] = job[p].digest
          /\ job[p].entry \in entries /\ job[p].entry.digest = job[p].digest
      BY <1>2, <2>a, <3>1 DEF MemInv, Memory, HandTrue, PlaceInv, TypeInv, JobOK
    <3>3. i \in Inodes /\ content[i] = job[p].digest
      BY <1>2, <2>a, <3>2 DEF TypeInv, TypeOK, Entry
    <3>4. visible \in [Paths -> Inodes \cup {NoInode}]
      BY <2>a DEF TypeInv, TypeOK
    <3> QED BY <2>1, <3>1, <3>2, <3>3, <3>4, Sentinels DEF Tree
  <2> QED BY <2>2, <2>3
<1>3. MemInv /\ [Next]_vars =>
         [(\E p \in Procs : RunStep(p)) /\ Tree' # Tree =>
             \E e \in entries : e.digest # content[e.inode]]_vars
  BY <1>2
<1> QED BY <1>1, <1>3, PTL DEF Spec, LossNeedsDamage

-----------------------------------------------------------------------------
(* --rehash: an entry that lies is one the run has yet to come to *)

\* A run starts with an empty set of verified inodes.
FreshInv(p) == pc[p] \in {"idle", "clean", "scan"} => verified[p] = {}

Unsettled(p, e) ==
    \/ InVisit(p) /\ e.inode \notin verified[p]
    \/ pc[p] \in Reconciling /\ e \in pending[p]
    \/ pc[p] = "apply" /\ e.inode = job[p].inode
    \/ pc[p] \in {"rename", "drop", "settle"} /\ e = job[p].entry

RehashInv(p) ==
    pc[p] \in Knowing /\ opts[p].rehash /\ ~failed[p] =>
        \A e \in entries : e.digest = content[e.inode] \/ Unsettled(p, e)

LEMMA VerifiedFrame ==
    ASSUME TypeInv, NEW p \in Procs, Acquire(p) \/ RunStep(p) \/ Crash(p)
    PROVE  \A q \in Procs \ {p} : verified'[q] = verified[q]
BY DEF TypeInv, TypeOK, RunStep, Acquire, Crash, Exit, Phase1, CleanStaleTmp,
   ScanObjectIndex, ScanRejects, DiscoverFiles, SetupFails, Visit, VisitGone,
   VisitTrusted, VisitUntrusted, Hash, HashFails, ApplyReused, ApplyNew,
   ApplyChanged, ApplyDuplicate, FinishVisits, Repair, CreateObjectEntry,
   CreateFails, RenameObject, RenameFails, DropStale, DropFails, StageLink,
   StageFails, SwapIn, SwapFails, VerifySwap, Retained, RetainedSkip,
   RetainedHash, RetainedHashFails, SettleSame, SettleChanged,
   FinishRetained, Prune, PruneStat, PruneUnlink, FinishPrune, Release

LEMMA FreshStep ==
    ASSUME TypeInv, NEW p \in Procs, Acquire(p) \/ RunStep(p) \/ Crash(p),
           FreshInv(p)
    PROVE  FreshInv(p)'
<1> USE DEF TypeInv, TypeOK, GoTo
<1>1. CASE Exit(p)
  BY <1>1 DEF Exit, FreshInv
<1>2. CASE Acquire(p) \/ CleanStaleTmp(p)
  BY <1>2 DEF Acquire, CleanStaleTmp, FreshInv
<1>3. CASE ~Exit(p) /\ ~Acquire(p) /\ ~CleanStaleTmp(p)
  <2>1. pc'[p] \notin {"idle", "clean", "scan"}
    BY <1>3 DEF RunStep, Crash, Phase1,
       ScanObjectIndex, ScanRejects, DiscoverFiles, SetupFails, Visit,
       VisitGone, VisitTrusted, VisitUntrusted, Visiting, Hash, HashFails,
       ApplyReused, ApplyNew, ApplyChanged, ApplyDuplicate, FinishVisits,
       Repair, CreateObjectEntry, CreateFails, RenameObject, RenameFails,
       DropStale, DropFails, StageLink, StageFails, SwapIn, SwapFails,
       VerifySwap, Retained, RetainedSkip, RetainedHash, RetainedHashFails,
       Retaining, SettleSame, SettleChanged, FinishRetained, Prune, PruneStat,
       PruneUnlink, FinishPrune, Release, Resume
  <2> QED BY <2>1 DEF FreshInv
<1> QED BY <1>1, <1>2, <1>3

\* The visit of one path: what it does not verify stays unverified, what it
\* hashes it goes on to compare, what it compares it finds true or repairs.
LEMMA VisitUnsettled ==
    ASSUME MemInv, NEW p \in Procs, Visit(p), opts[p].rehash,
           NEW e \in entries, e \in index[p].records, Unsettled(p, e)
    PROVE  e.digest = content[e.inode] \/ Unsettled(p, e)'
<1>a. /\ TypeInv /\ MapsAgree(index[p]) /\ Bijective(index[p])
      /\ e.inode \in Inodes
  BY DEF MemInv, SafeInv, IndexInv, Local, Memory, TypeInv, TypeOK, Entry
<1>b. e.inode = job[p].inode => e \in ForInode(p, job[p].inode)
  BY <1>a, ForInodeExact
<1>c. \A old \in ForInode(p, e.inode) : old = e
  BY <1>a, ForInodeExact DEF Bijective
<1> USE DEF GoTo
<1>d. pc \in [Procs -> Labels] /\ job \in [Procs -> Job]
      /\ verified \in [Procs -> SUBSET Inodes]
      /\ pending \in [Procs -> SUBSET Entry]
  BY <1>a DEF TypeInv, TypeOK
<1>0. pc[p] \in {"visit", "hash", "apply"} =>
         /\ pending[p] = {}
         /\ job[p].path \in Paths \/ pc[p] = "visit"
  BY <1>a DEF MemInv, Memory, PendingInv, InVisit, TypeInv, JobOK
<1>1. CASE \/ \E q \in Paths : VisitGone(p, q) \/ VisitUntrusted(p, q)
           \/ HashFails(p)
  <2>1. /\ pc[p] \in {"visit", "hash"} /\ verified' = verified
        /\ pc'[p] \in {"visit", "hash"}
    BY <1>0, <1>1, <1>d, Sentinels
       DEF VisitGone, VisitUntrusted, Visiting, HashFails, Resume
  <2> QED BY <1>0, <2>1 DEF Unsettled, InVisit, Reconciling
<1>2. ~\E q \in Paths : VisitTrusted(p, q)
  BY DEF VisitTrusted, Trusted
<1>3. CASE Hash(p)
  <2>1. /\ pc[p] = "hash" /\ pc'[p] = "apply"
        /\ verified'[p] = verified[p] \cup {job'[p].inode}
    BY <1>3, <1>d DEF Hash, Job
  <2> QED BY <1>0, <2>1 DEF Unsettled, InVisit, Reconciling
<1>4. CASE pc[p] = "apply"
  <2>1. /\ pending[p] = {} /\ job[p].path \in Paths /\ job[p].inode \in Inodes
        /\ content[job[p].inode] = job[p].digest
    BY <1>0, <1>4 DEF MemInv, Memory, HandTrue
  <2>2. CASE ApplyReused(p)
    <3>1. PICK r \in ForDigest(p, job[p].digest) : r.inode = job[p].inode
      BY <2>2 DEF ApplyReused, IndexedAlready
    <3>2. e.inode = job[p].inode => e.digest = content[e.inode]
      BY <1>a, <2>1, <3>1 DEF ForDigest, Bijective
    <3>3. pc'[p] = "visit" /\ verified' = verified
      BY <1>d, <2>1, <2>2, Sentinels DEF ApplyReused, Resume
    <3> QED BY <1>4, <2>1, <3>2, <3>3 DEF Unsettled, InVisit
  <2>3. CASE e.inode = job[p].inode /\ ~ApplyReused(p)
    <3>1. ForInode(p, job[p].inode) # {}
      BY <1>b, <2>3
    <3>2. CASE ApplyChanged(p)
      <4>1. PICK old \in ForInode(p, job[p].inode) :
               job' = [job EXCEPT ![p].entry = old, ![p].ts = clock]
        BY <3>2 DEF ApplyChanged
      <4>2. job'[p].entry = e /\ pc'[p] = "rename"
        BY <1>c, <1>d, <2>3, <3>2, <4>1 DEF ApplyChanged, Job
      <4> QED BY <4>2 DEF Unsettled
    <3>3. CASE ApplyDuplicate(p)
      <4>1. PICK old \in ForInode(p, job[p].inode) :
               job' = [job EXCEPT ![p].entry = old] /\ GoTo(p, "drop")
        BY <3>1, <3>3 DEF ApplyDuplicate
      <4>2. job'[p].entry = e /\ pc'[p] = "drop"
        BY <1>c, <1>d, <2>3, <3>3, <4>1 DEF ApplyDuplicate, Job
      <4> QED BY <4>2 DEF Unsettled
    <3> QED BY <1>4, <2>3, <3>1, <3>2, <3>3
            DEF Visit, VisitGone, VisitTrusted, VisitUntrusted, Visiting, Hash,
                HashFails, ApplyNew, FinishVisits
  <2>4. CASE e.inode # job[p].inode /\ ~ApplyReused(p)
    <3>1. e.inode \notin verified[p]
      BY <1>4, <2>1, <2>4 DEF Unsettled
    <3>2. CASE ApplyNew(p)
      BY <1>d, <3>1, <3>2 DEF ApplyNew, Unsettled, InVisit
    <3>3. CASE ApplyChanged(p)
      <4>1. pc'[p] = "rename" /\ job'[p].path = job[p].path
        BY <1>d, <3>3 DEF ApplyChanged, Job
      <4> QED BY <2>1, <3>1, <3>3, <4>1 DEF ApplyChanged, Unsettled, InVisit
    <3>4. CASE ApplyDuplicate(p)
      <4>1. pc'[p] \in {"stage", "drop"} /\ job'[p].path = job[p].path
        BY <1>d, <3>4 DEF ApplyDuplicate, Job
      <4> QED BY <2>1, <3>1, <3>4, <4>1 DEF ApplyDuplicate, Unsettled, InVisit
    <3> QED BY <1>4, <2>4, <3>2, <3>3, <3>4
            DEF Visit, VisitGone, VisitTrusted, VisitUntrusted, Visiting, Hash,
                HashFails, FinishVisits
  <2> QED BY <2>2, <2>3, <2>4
<1>5. CASE FinishVisits(p)
  <2>1. /\ pc[p] = "visit" /\ pc'[p] = "retain"
        /\ pending'[p] = UnverifiedRecords(p)
    BY <1>5, <1>d DEF FinishVisits
  <2>2. e.inode \notin verified[p]
    BY <1>0, <2>1 DEF Unsettled
  <2> QED BY <2>1, <2>2 DEF Unsettled, UnverifiedRecords, Reconciling
<1> QED BY <1>1, <1>2, <1>3, <1>4, <1>5
        DEF Visit, ApplyReused, ApplyNew, ApplyChanged, ApplyDuplicate

\* A repair that succeeds moves or drops the entry that lied; one that fails
\* is reported.
LEMMA RepairUnsettled ==
    ASSUME MemInv, NEW p \in Procs, Repair(p), ~failed'[p],
           NEW e \in entries, e \in entries', Unsettled(p, e)
    PROVE  e.digest = content[e.inode] \/ Unsettled(p, e)'
<1>a. TypeInv
  BY DEF MemInv, SafeInv
<1>b. pc \in [Procs -> Labels] /\ job \in [Procs -> Job]
      /\ failed \in [Procs -> BOOLEAN]
  BY <1>a DEF TypeInv, TypeOK
<1> USE DEF GoTo
<1>0. ~CreateFails(p) /\ ~RenameFails(p) /\ ~DropFails(p)
  BY <1>a, FailureNoted
<1>1. /\ pc[p] \in {"create", "rename", "drop", "stage", "swap", "verify"}
      /\ UNCHANGED <<verified, pending>>
  BY DEF Repair, CreateObjectEntry, CreateFails, RenameObject, RenameFails,
     DropStale, DropFails, StageLink, StageFails, SwapIn, SwapFails, VerifySwap
<1>2. pc[p] \in {"rename", "drop"} /\ e = job[p].entry =>
         e.digest = content[e.inode]
  <2> SUFFICES ASSUME pc[p] \in {"rename", "drop"}, e = job[p].entry
               PROVE  e.digest = content[e.inode]
    OBVIOUS
  <2>1. RenameObject(p)
    <3>1. ~DropStale(p)
      BY <1>1 DEF DropStale
    <3> QED BY <1>0, <3>1 DEF Repair, CreateObjectEntry, StageLink, StageFails,
               SwapIn, SwapFails, VerifySwap
  <2>2. pc[p] = "rename" /\ e = Renamed(p)
    BY <2>1 DEF RenameObject, AfterRename
  <2> QED BY <2>2 DEF Renamed, MemInv, Memory, HandTrue
<1>3. InVisit(p) => job[p].path \in Paths
  BY <1>a, <1>1 DEF InVisit, TypeInv, JobOK
<1>4. InVisit(p) => InVisit(p)'
  <2> SUFFICES ASSUME InVisit(p), job[p].path \in Paths,
                      job[p].path # NoPath
               PROVE  InVisit(p)'
    BY <1>3, Sentinels
  <2>1. pc'[p] \in {"visit", "stage", "swap", "verify"}
    BY <1>1, <1>b DEF Repair, CreateObjectEntry, CreateFails, RenameObject,
       RenameFails, DropStale, DropFails, StageLink, StageFails, SwapIn,
       SwapFails, VerifySwap, Resume
  <2> QED BY <2>1 DEF InVisit
<1>5. pc'[p] \in Reconciling
  BY <1>1, <1>b DEF Repair, CreateObjectEntry, CreateFails, RenameObject,
     RenameFails, DropStale, DropFails, StageLink, StageFails, SwapIn,
     SwapFails, VerifySwap, Resume, Reconciling
<1> QED BY <1>1, <1>2, <1>4, <1>5 DEF Unsettled

\* The retained pass comes to every entry left: what it hashes it settles.
LEMMA RetainedUnsettled ==
    ASSUME MemInv, NEW p \in Procs, Retained(p), ~failed'[p],
           NEW e \in entries, Unsettled(p, e)
    PROVE  e.digest = content[e.inode] \/ Unsettled(p, e)'
<1>a. /\ TypeInv /\ Bijective(index[p])
      /\ pc[p] = "retain" => pending[p] \subseteq index[p].records
  BY DEF MemInv, SafeInv, Memory, PendingInv, Reconciling
<1>b. /\ pc \in [Procs -> Labels] /\ job \in [Procs -> Job]
      /\ failed \in [Procs -> BOOLEAN] /\ pending \in [Procs -> SUBSET Entry]
  BY <1>a DEF TypeInv, TypeOK
<1> USE DEF GoTo, Reconciling
<1>1. ASSUME NEW r \in pending[p], RetainedSkip(p, r) PROVE FALSE
  BY <1>a, <1>1 DEF RetainedSkip, Retaining, ForDigest
<1>2. ASSUME NEW r \in pending[p], RetainedHash(p, r)
      PROVE  Unsettled(p, e)'
  <2>1. /\ pc[p] = "retain" /\ pc'[p] = "settle"
        /\ pending'[p] = pending[p] \ {r} /\ verified' = verified
    BY <1>2, <1>b DEF RetainedHash, Retaining
  <2>2. PICK known \in ForDigest(p, r.digest) :
           job' = [job EXCEPT ![p] =
              [NoJob EXCEPT !.digest = content[r.inode], !.inode = r.inode,
                            !.entry = known]]
    BY <1>2 DEF RetainedHash
  <2>3. job'[p].entry = r
    <3>1. known = r
      BY <1>a, <2>1, <2>2 DEF ForDigest, Bijective
    <3> QED BY <1>b, <2>2, <3>1 DEF NoJob
  <2>4. e \in pending[p]
    BY <2>1 DEF Unsettled, InVisit
  <2> QED BY <2>1, <2>3, <2>4 DEF Unsettled
<1>3. ASSUME NEW r \in pending[p], RetainedHashFails(p, r) PROVE FALSE
  BY <1>3, <1>b DEF RetainedHashFails, Note
<1>4. CASE SettleSame(p)
  <2>1. /\ pc[p] = "settle" /\ pc'[p] \in {"visit", "retain"}
        /\ pending' = pending
    BY <1>4, <1>b DEF SettleSame, Resume
  <2>2. job[p].entry.digest = content[job[p].entry.inode]
    BY <1>4, <2>1 DEF SettleSame, MemInv, Memory, HandTrue
  <2> QED BY <2>1, <2>2 DEF Unsettled, InVisit
<1>5. CASE SettleChanged(p)
  <2>1. /\ pc[p] = "settle" /\ pc'[p] \in {"rename", "drop"}
        /\ pending' = pending
    BY <1>5, <1>b DEF SettleChanged
  <2>2. job'[p].entry = job[p].entry
    BY <1>5, <1>b DEF SettleChanged, Job
  <2> QED BY <2>1, <2>2 DEF Unsettled, InVisit
<1>6. CASE FinishRetained(p)
  BY <1>6 DEF FinishRetained, Unsettled, InVisit
<1> QED BY <1>1, <1>2, <1>3, <1>4, <1>5, <1>6 DEF Retained

LEMMA RehashStep ==
    ASSUME MemInv, NEW p \in Procs, Acquire(p) \/ RunStep(p) \/ Crash(p),
           KnownInv(p), FreshInv(p), RehashInv(p)
    PROVE  RehashInv(p)'
<1>a. TypeInv
  BY DEF MemInv, SafeInv
<1>b. content' = content
  BY <1>a, RunWritesNothing
<1> SUFFICES ASSUME pc'[p] \in Knowing, opts'[p].rehash, ~failed'[p],
                    NEW e \in entries', e \in entries
             PROVE  e.digest = content[e.inode] \/ Unsettled(p, e)'
  BY <1>b, NewEntryTrue DEF RehashInv
<1>1. CASE ScanObjectIndex(p)
  BY <1>a, <1>1 DEF ScanObjectIndex, GoTo, FreshInv, Unsettled, InVisit,
                    TypeInv, TypeOK
<1>2. CASE ~ScanObjectIndex(p) /\ ~(e.digest = content[e.inode])
  <2>1. /\ pc[p] \in Knowing /\ ~failed[p] /\ opts[p].rehash
    BY <1>a, <1>2, KnowingFrame
  <2>2. Unsettled(p, e) /\ e \in index[p].records
    BY <1>2, <2>1 DEF RehashInv, KnownInv
  <2>3. CASE Visit(p)
    BY <2>1, <2>2, <2>3, VisitUnsettled
  <2>4. CASE Repair(p)
    BY <2>2, <2>4, RepairUnsettled
  <2>5. CASE Retained(p)
    BY <2>2, <2>5, RetainedUnsettled
  <2>6. ~Prune(p)
    <3>1. pc[p] \in Reconciling
      BY <2>1, <2>2 DEF Unsettled, InVisit, Knowing, Reconciling
    <3> QED BY <3>1 DEF Prune, PruneStat, PruneUnlink, FinishPrune, Release,
               Reconciling
  <2>7. CASE Phase1(p) \/ Acquire(p) \/ Crash(p)
    <3>1. DiscoverFiles(p)
      <4>1. ~Exit(p)
        BY <1>a DEF Exit, GoTo, TypeInv, TypeOK, Knowing, Reconciling
      <4> QED BY <1>2, <2>1, <2>7, <4>1
              DEF Phase1, CleanStaleTmp, ScanRejects, SetupFails, Acquire,
                  Crash, Knowing, Reconciling
    <3> QED BY <1>a, <2>2, <3>1 DEF DiscoverFiles, GoTo, TypeInv, TypeOK,
               Unsettled, InVisit, MemInv, Memory, PendingInv
  <2> QED BY <2>3, <2>4, <2>5, <2>6, <2>7 DEF RunStep
<1> QED BY <1>1, <1>2

-----------------------------------------------------------------------------
(* Prune: an entry it has been to and left has a visible link *)

PrunedInv(p) ==
    pc[p] \in {"prune", "unlink", "done"} /\ ~failed[p] =>
        \A e \in entries : \/ pc[p] # "done" /\ e \in pending[p]
                           \/ pc[p] = "unlink" /\ e = job[p].entry
                           \/ \E q \in Paths : visible[q] = e.inode

\* An inode that st_nlink says has a second link, when no other entry and no
\* staged link refers to it, is visible.
LEMMA SecondLinkVisible ==
    ASSUME FiniteDisk, NEW r \in entries, tmp = {}, NLink(r.inode) # 1,
           \A e \in entries : e.inode = r.inode => e = r
    PROVE  \E q \in Paths : visible[q] = r.inode
<1> SUFFICES ASSUME \A q \in Paths : visible[q] # r.inode PROVE FALSE
  OBVIOUS
<1> DEFINE V == {q \in Paths : visible[q] = r.inode}
           E == {e \in entries : e.inode = r.inode}
           T == {t \in tmp : t.inode = r.inode}
<1>1. V = {} /\ E = {r} /\ T = {}
  OBVIOUS
<1>2. NLink(r.inode) = Cardinality(V) + Cardinality(E) + Cardinality(T)
  BY DEF NLink
<1> HIDE DEF V, E, T
<1>3. Cardinality(V) = 0 /\ Cardinality(E) = 1 /\ Cardinality(T) = 0
  BY <1>1, FS_EmptySet, FS_Singleton
<1> QED BY <1>2, <1>3

LEMMA PrunedStep ==
    ASSUME MemInv, NEW p \in Procs, Acquire(p) \/ RunStep(p) \/ Crash(p),
           KnownInv(p), TmpInv(p), PrunedInv(p)
    PROVE  PrunedInv(p)'
<1>a. TypeInv /\ FiniteDisk /\ Bijective(index[p])
  BY DEF MemInv, SafeInv, Memory
<1>b. /\ pc \in [Procs -> Labels] /\ failed \in [Procs -> BOOLEAN]
      /\ pending \in [Procs -> SUBSET Entry] /\ job \in [Procs -> Job]
  BY <1>a DEF TypeInv, TypeOK
<1> SUFFICES ASSUME pc'[p] \in {"prune", "unlink", "done"}, ~failed'[p]
             PROVE  PrunedInv(p)'
  BY DEF PrunedInv
<1> USE DEF GoTo
<1>1. ~ScanObjectIndex(p)
  BY <1>b DEF ScanObjectIndex
<1>2. pc[p] \in Knowing /\ ~failed[p] /\ entries \subseteq index[p].records
  BY <1>a, <1>1, KnowingFrame DEF KnownInv, Knowing
<1>3. CASE FinishVisits(p) \/ FinishRetained(p)
  BY <1>2, <1>3, <1>b DEF FinishVisits, FinishRetained, PrunedInv, diskVars
<1>4. CASE Prune(p)
  <2>1. /\ ~Release(p) /\ pc[p] \in {"prune", "unlink"}
        /\ visible' = visible
    BY <1>4, <1>b DEF Prune, PruneStat, PruneUnlink, FinishPrune, Release, Exit,
       userVars
  <2>2. ASSUME NEW r \in pending[p], PruneStat(p, r) PROVE PrunedInv(p)'
    <3>1. /\ pc[p] = "prune" /\ pending'[p] = pending[p] \ {r}
          /\ entries' = entries
      BY <2>2, <1>b DEF PruneStat, diskVars
    <3>2. CASE pc'[p] = "unlink"
      <4>1. job'[p].entry = r
        BY <2>2, <3>1, <3>2, <1>b DEF PruneStat, NoJob
      <4> QED BY <1>2, <2>1, <3>1, <3>2, <4>1 DEF PrunedInv
    <3>3. CASE pc'[p] # "unlink"
      <4>1. r \in entries /\ NLink(r.inode) # 1 /\ pc'[p] = "prune"
        BY <2>2, <3>1, <3>3, <1>b DEF PruneStat, Note, Unreferenced
      <4>2. tmp = {}
        BY <3>1 DEF TmpInv
      <4>3. \A e \in entries : e.inode = r.inode => e = r
        BY <1>a, <1>2, <4>1 DEF Bijective
      <4>4. \E q \in Paths : visible[q] = r.inode
        BY <1>a, <4>1, <4>2, <4>3, SecondLinkVisible
      <4> QED BY <1>2, <2>1, <3>1, <4>1, <4>4 DEF PrunedInv
    <3> QED BY <3>2, <3>3
  <2>3. CASE PruneUnlink(p)
    <3>1. /\ pc[p] = "unlink" /\ pc'[p] = "prune" /\ pending' = pending
          /\ entries' = entries \ {job[p].entry}
      BY <2>3, <1>b DEF PruneUnlink, Note
    <3> QED BY <1>2, <2>1, <3>1 DEF PrunedInv
  <2>4. CASE FinishPrune(p)
    BY <1>2, <1>b, <2>1, <2>4 DEF FinishPrune, PrunedInv, diskVars
  <2> QED BY <1>4, <2>1, <2>2, <2>3, <2>4 DEF Prune
<1>5. CASE ~FinishVisits(p) /\ ~FinishRetained(p) /\ ~Prune(p)
  BY <1>5, <1>b DEF Acquire, RunStep, Crash, Exit, Phase1, CleanStaleTmp,
     ScanObjectIndex, ScanRejects, DiscoverFiles, SetupFails, Visit, VisitGone,
     VisitTrusted, VisitUntrusted, Visiting, Hash, HashFails, ApplyReused,
     ApplyNew, ApplyChanged, ApplyDuplicate, Repair, CreateObjectEntry,
     CreateFails, RenameObject, RenameFails, DropStale, DropFails, StageLink,
     StageFails, SwapIn, SwapFails, VerifySwap, Retained, RetainedSkip,
     RetainedHash, RetainedHashFails, Retaining, SettleSame, SettleChanged,
     Resume
<1> QED BY <1>3, <1>4, <1>5

-----------------------------------------------------------------------------

RunInv(p) == /\ KnownInv(p) /\ TmpInv(p) /\ FreshInv(p)
             /\ RehashInv(p) /\ PrunedInv(p)

QuietInv == MemInv /\ \A p \in Procs : RunInv(p)

LEMMA IdleRunInv ==
    ASSUME NEW p \in Procs, pc[p] = "idle", verified[p] = {}
    PROVE  RunInv(p)
BY DEF RunInv, KnownInv, TmpInv, FreshInv, RehashInv, PrunedInv, Knowing,
       Reconciling

LEMMA InitQuietInv == Init => QuietInv
<1> SUFFICES ASSUME Init PROVE \A p \in Procs : RunInv(p)
  BY InitMemInv DEF QuietInv
<1>1. \A p \in Procs : pc[p] = "idle" /\ verified[p] = {}
  BY DEF Init
<1> QED BY <1>1, IdleRunInv

LEMMA QuietInvStep ==
    ASSUME OwnerQuiet
    PROVE  QuietInv /\ [Next]_vars => QuietInv'
<1> SUFFICES ASSUME QuietInv, [Next]_vars PROVE \A p \in Procs : RunInv(p)'
  BY MemInvStep DEF QuietInv
<1>a. TypeInv /\ IndexInv /\ MemInv
  BY DEF QuietInv, MemInv, SafeInv
<1>b. ASSUME NEW q \in Procs, pc[q] = "idle", pc'[q] = "idle",
             verified'[q] = verified[q]
      PROVE  RunInv(q)'
  <2>1. verified'[q] = {}
    BY <1>b DEF QuietInv, RunInv, FreshInv
  <2> QED BY <1>b, <2>1 DEF RunInv, KnownInv, TmpInv, FreshInv, RehashInv,
             PrunedInv, Knowing, Reconciling
<1>1. ASSUME NEW p \in Procs, Acquire(p) \/ RunStep(p) \/ Crash(p)
      PROVE  \A q \in Procs : RunInv(q)'
  <2>1. RunInv(p)'
    BY <1>a, <1>1, KnownStep, TmpStep, FreshStep, RehashStep, PrunedStep
       DEF QuietInv, RunInv
  <2>2. ASSUME NEW q \in Procs \ {p} PROVE RunInv(q)'
    BY <1>a, <1>1, <1>b, OthersIdle, VerifiedFrame
  <2> QED BY <2>1, <2>2
<1>2. CASE User
  <2>1. \A q \in Procs : pc[q] = "idle"
    BY <1>a, <1>2, OwnerFrame
  <2>2. UNCHANGED procVars
    BY <1>a, <1>2, OwnerFrame
  <2> QED BY <1>b, <2>1, <2>2 DEF procVars
<1>3. CASE UNCHANGED vars
  BY <1>3 DEF QuietInv, RunInv, KnownInv, TmpInv, FreshInv, RehashInv,
     PrunedInv, Unsettled, InVisit, Staged, vars, userVars, diskVars, procVars
<1> QED BY <1>1, <1>2, <1>3 DEF Next

LEMMA QuietInvariant == ASSUME OwnerQuiet PROVE Spec => []QuietInv
BY InitQuietInv, QuietInvStep, PTL DEF Spec

\* A complete run that reports no failure leaves no object entry without a
\* visible link, although an earlier run may have died with links staged.
THEOREM PruneAlwaysComplete ==
    ASSUME OwnerQuiet
    PROVE  Spec => []PruneComplete
<1>1. QuietInv => PruneComplete
  BY DEF QuietInv, RunInv, PrunedInv, PruneComplete
<1> QED BY <1>1, QuietInvariant, PTL

\* A complete --rehash run that reports no failure has found every entry true
\* or made it so, whatever the owner wrote in place before it.
THEOREM RehashAlwaysVerifies ==
    ASSUME OwnerQuiet
    PROVE  Spec => []RehashVerifiesAll
<1>1. QuietInv => RehashVerifiesAll
  BY DEF QuietInv, RunInv, RehashInv, RehashVerifiesAll, Unsettled, InVisit,
         Knowing, Reconciling
<1> QED BY <1>1, QuietInvariant, PTL

-----------------------------------------------------------------------------
(* The next scan accepts what a run leaves behind *)

AllKnown(p) == pc[p] \in Reconciling => entries \subseteq index[p].records

ScanInv == ScanIsValid /\ \A p \in Procs : AllKnown(p)

\* While a run knows every entry, the disk is as good an index as its own.
LEMMA ScanStep ==
    ASSUME MemInv, NEW p \in Procs, Acquire(p) \/ RunStep(p) \/ Crash(p),
           Memory(p)', ScanIsValid, AllKnown(p),
           ~RenameFails(p), ~DropFails(p), CreateFails(p) => entries' = entries
    PROVE  ScanIsValid' /\ AllKnown(p)'
<1>a. TypeInv
  BY DEF MemInv, SafeInv
<1>1. AllKnown(p)'
  <2> SUFFICES ASSUME pc'[p] \in Reconciling
               PROVE  entries' \subseteq index'[p].records
    BY DEF AllKnown
  <2>1. CASE ScanObjectIndex(p)
    BY <1>a, <2>1 DEF ScanObjectIndex, diskVars, TypeInv, TypeOK
  <2>2. CASE ~ScanObjectIndex(p)
    <3>1. pc[p] \in Reconciling
      <4>1. pc[p] \in Knowing
        BY <1>a, <2>2, KnowingFrame DEF Knowing
      <4>2. pc[p] \notin {"prune", "unlink", "done"}
        BY <1>a DEF TypeInv, TypeOK, GoTo, Acquire, RunStep, Crash, Exit,
           Phase1, CleanStaleTmp, ScanObjectIndex, ScanRejects, DiscoverFiles,
           SetupFails, Visit, VisitGone, VisitTrusted, VisitUntrusted,
           Visiting, Hash, HashFails, ApplyReused, ApplyNew, ApplyChanged,
           ApplyDuplicate, FinishVisits, Repair, CreateObjectEntry,
           CreateFails, RenameObject, RenameFails, DropStale, DropFails,
           StageLink, StageFails, SwapIn, SwapFails, VerifySwap, Retained,
           RetainedSkip, RetainedHash, RetainedHashFails, Retaining,
           SettleSame, SettleChanged, FinishRetained, Prune, PruneStat,
           PruneUnlink, FinishPrune, Release, Reconciling
      <4> QED BY <4>1, <4>2 DEF Knowing
    <3>2. entries \subseteq index[p].records
      BY <3>1 DEF AllKnown
    <3>3. CASE Reindexes(p) /\ ~CreateFails(p)
      BY <3>2, <3>3, ReindexedKnown DEF Reindexes
    <3>4. CASE CreateFails(p)
      BY <1>a, <3>2, <3>4 DEF CreateFails
    <3>5. CASE ~Reindexes(p)
      <4>1. index'[p] = index[p]
        BY <1>a, <2>2, <3>5, KnowingFrame DEF Knowing
      <4> QED BY <3>2, <3>5, <4>1, EntriesFrame
    <3> QED BY <3>3, <3>4, <3>5
  <2> QED BY <2>1, <2>2
<1>2. CASE pc'[p] \in Reconciling
  <2>1. entries' \subseteq index'[p].records
    BY <1>1, <1>2 DEF AllKnown
  <2> QED BY <1>1, <2>1 DEF Memory, Bijective, ScanIsValid
<1>3. CASE pc'[p] \notin Reconciling
  <2>1. ~Reindexes(p)
    <3>1. ASSUME Reindexes(p) PROVE pc'[p] \in {"visit", "retain", "stage"}
      BY <1>a, <3>1 DEF Reindexes, CreateObjectEntry, CreateFails,
         RenameObject, RenameFails, DropStale, DropFails, Resume, GoTo,
         TypeInv, TypeOK
    <3> QED BY <1>3, <3>1 DEF Reconciling
  <2> QED BY <1>1, <2>1, EntriesFrame DEF ScanIsValid
<1> QED BY <1>2, <1>3

LEMMA InitScanInv == Init => ScanInv
BY DEF Init, ScanInv, ScanIsValid, AllKnown

\* The steps that are no run's, and the runs other than the one that steps.
LEMMA ScanInvStep ==
    ASSUME OwnerQuiet, MemInv, ScanInv, [Next]_vars,
           \A p \in Procs : /\ ~RenameFails(p) /\ ~DropFails(p)
                            /\ CreateFails(p) => entries' = entries
    PROVE  ScanInv'
<1>a. TypeInv /\ IndexInv /\ MemInv'
  BY MemInvStep DEF MemInv, SafeInv
<1>1. ASSUME NEW p \in Procs, Acquire(p) \/ RunStep(p) \/ Crash(p)
      PROVE  ScanInv'
  <2>1. Memory(p)'
    BY <1>a DEF MemInv
  <2>2. ScanIsValid' /\ AllKnown(p)'
    BY <1>1, <2>1, ScanStep DEF ScanInv
  <2>3. \A q \in Procs \ {p} : AllKnown(q)'
    BY <1>a, <1>1, OthersIdle DEF AllKnown, Reconciling
  <2> QED BY <2>2, <2>3 DEF ScanInv
<1>2. CASE User
  <2>1. UNCHANGED <<diskVars, lock, procVars>>
    BY <1>a, <1>2, OwnerFrame
  <2> QED BY <2>1 DEF ScanInv, ScanIsValid, AllKnown, diskVars, procVars
<1>3. CASE UNCHANGED vars
  BY <1>3 DEF ScanInv, ScanIsValid, AllKnown, vars, diskVars, procVars
<1> QED BY <1>1, <1>2, <1>3 DEF Next

\* Renaming and dropping need an entry that is on disk, so they only fail with
\* the call that makes them.
LEMMA LinkFaultsHarmless ==
    ASSUME MemInv, Faults \subseteq {"link"}, NEW p \in Procs
    PROVE  /\ ~RenameFails(p) /\ ~DropFails(p)
           /\ CreateFails(p) => entries' = entries
<1>1. pc[p] \in {"rename", "drop"} => job[p].entry \in entries
  BY DEF MemInv, SafeInv, IndexInv, Local, DiskInv, Reconciling
<1> QED BY <1>1 DEF RenameFails, DropFails, CreateFails

-----------------------------------------------------------------------------
(* Without in-place writes, entries are true: then no entry is ever dropped, *)
(* and a visited path stays linked to its entry                              *)

NoDrop == \A p \in Procs : pc[p] # "drop"

TrueInv == Inv /\ MemInv /\ NoDrop

\* The entry on the inode in hand has the digest just hashed, so it is the
\* digest's one entry, and the path needs no other.
LEMMA NoDropStep ==
    ASSUME TrueInv, [Next]_vars
    PROVE  NoDrop'
<1>a. /\ TypeInv /\ IndexInv /\ ContentInv
      /\ pc \in [Procs -> Labels]
  BY DEF TrueInv, Inv, TypeInv, TypeOK
<1> SUFFICES ASSUME NEW p \in Procs, pc'[p] = "drop" PROVE FALSE
  BY DEF NoDrop
<1>0. pc[p] # "drop"
  BY DEF TrueInv, NoDrop
<1>1. PICK r \in Procs : Acquire(r) \/ RunStep(r) \/ Crash(r)
  BY <1>0 DEF Next, vars, procVars, User, UserReplaces, UserWritesInPlace,
     UserRemoves, UserMoves, UserLinks
<1>2. r = p
  BY <1>0, <1>1, <1>a, StepFrame DEF Others
<1>3. ApplyDuplicate(p) \/ SettleChanged(p)
  BY <1>0, <1>1, <1>2, <1>a DEF GoTo, Acquire, RunStep, Crash, Exit, Phase1,
     CleanStaleTmp, ScanObjectIndex, ScanRejects, DiscoverFiles, SetupFails,
     Visit, VisitGone, VisitTrusted, VisitUntrusted, Hash, HashFails,
     ApplyReused, ApplyNew, ApplyChanged, FinishVisits, Repair,
     CreateObjectEntry, CreateFails, RenameObject, RenameFails, DropStale,
     DropFails, StageLink, StageFails, SwapIn, SwapFails, VerifySwap, Retained,
     RetainedSkip, RetainedHash, RetainedHashFails, SettleSame, FinishRetained,
     Prune, PruneStat, PruneUnlink, FinishPrune, Release, Resume
<1>4. ~SettleChanged(p)
  BY <1>a DEF SettleChanged, ContentInv, JobTrue
<1>5. CASE ApplyDuplicate(p)
  <2>1. PICK old \in ForInode(p, job[p].inode) : TRUE
    BY <1>5, <1>a DEF ApplyDuplicate, GoTo
  <2>2. /\ pc[p] = "apply" /\ job[p].inode \in Inodes
        /\ content[job[p].inode] = job[p].digest
    BY <1>5, <1>a DEF ApplyDuplicate, ContentInv, JobTrue
  <2>3. /\ old \in index[p].records /\ old.inode = job[p].inode
        /\ Bijective(index[p])
    BY <1>a, <2>1, <2>2, ForInodeExact
       DEF TrueInv, MemInv, Memory, IndexInv, Local
  <2>4. old \in entries
    BY <1>a, <2>2, <2>3 DEF IndexInv, Local, DiskInv, Reconciling
  <2>5. old.digest = job[p].digest
    BY <1>a, <2>2, <2>3, <2>4 DEF ContentInv, EntriesTrue
  <2>6. PICK s \in index[p].records :
           s.digest = job[p].digest /\ s.inode # job[p].inode
    BY <1>5 DEF ApplyDuplicate, ForDigest
  <2> QED BY <2>3, <2>5, <2>6 DEF Bijective
<1> QED BY <1>3, <1>4, <1>5

LEMMA TrueInvariant == ASSUME Disciplined PROVE Spec => []TrueInv
<1>a. OwnerQuiet
  BY DEF Disciplined, OwnerQuiet
<1>1. Init => TrueInv
  BY InitTypeInv, InitIndexInv, InitContentInv, InitMemInv
     DEF Inv, TrueInv, NoDrop, Init
<1>2. TrueInv /\ [Next]_vars => TrueInv'
  BY <1>a, InvStep, MemInvStep, NoDropStep DEF TrueInv
<1> QED BY <1>1, <1>2, PTL DEF Spec

LEMMA TrueFaultsHarmless ==
    ASSUME TrueInv, "stat" \notin Faults, NEW p \in Procs
    PROVE  /\ ~RenameFails(p) /\ ~DropFails(p)
           /\ CreateFails(p) => entries' = entries
BY DEF TrueInv, NoDrop, Inv, ContentInv, JobTrue, RenameFails, DropFails,
       CreateFails

\* Whatever a run, complete or cut short, leaves behind, the next scan
\* accepts, provided the owner stays out of it and either no call but a link
\* fails, or nothing indexed is written in place and no stat fails.
THEOREM NextRunAlwaysAccepts ==
    ASSUME OwnerQuiet,
           \/ Faults \subseteq {"link"}
           \/ InPlaceWrites = FALSE /\ "stat" \notin Faults
    PROVE  Spec => []NextRunAccepts
<1>1. ScanInv => NextRunAccepts
  BY DEF ScanInv, NextRunAccepts
<1>2. CASE Faults \subseteq {"link"}
  <2>1. MemInv /\ ScanInv /\ [Next]_vars => ScanInv'
    BY <1>2, LinkFaultsHarmless, ScanInvStep
  <2> QED BY <1>1, <2>1, InitMemInv, MemInvStep, InitScanInv, PTL DEF Spec
<1>3. CASE InPlaceWrites = FALSE /\ "stat" \notin Faults
  <2>1. Disciplined
    BY <1>3 DEF OwnerQuiet, Disciplined
  <2>2. TrueInv /\ ScanInv /\ [Next]_vars => ScanInv'
    BY <1>3, TrueFaultsHarmless, ScanInvStep DEF TrueInv
  <2> QED BY <1>1, <2>1, <2>2, TrueInvariant, InitScanInv, PTL DEF Spec
<1> QED BY <1>2, <1>3

-----------------------------------------------------------------------------
(* A selected path is linked to its entry, or the run has yet to see to it *)

Linked(q) ==
    visible[q] # NoInode =>
        \E e \in entries : e.inode = visible[q] /\ e.digest = content[e.inode]

ToLink(p, q) ==
    \/ pc[p] \in {"clean", "scan", "discover"}
    \/ pc[p] = "visit" /\ q \in queue[p]
    \/ pc[p] \in {"hash", "apply", "create", "stage", "swap"}
       /\ (q \in queue[p] \/ q = job[p].path)
    \/ pc[p] = "verify" /\ q \in queue[p]

ConvInv(p) ==
    pc[p] # "idle" /\ ~failed[p] =>
        \A q \in opts[p].select : Linked(q) \/ ToLink(p, q)

\* Only prune removes an entry, and never one that a visible path links.
LEMMA LinkedStays ==
    ASSUME TrueInv, NEW p \in Procs, Acquire(p) \/ RunStep(p) \/ Crash(p),
           NEW q \in Paths, Linked(q), ~(SwapIn(p) /\ q = job[p].path)
    PROVE  Linked(q)'
<1>a. TypeInv /\ ContentInv /\ PruneInv
  BY DEF TrueInv, Inv, MemInv, SafeInv
<1>1. content' = content
  BY <1>a, RunWritesNothing
<1>2. visible'[q] = visible[q]
  <2>1. CASE SwapIn(p)
    BY <1>a, <2>1 DEF SwapIn, TypeInv, TypeOK
  <2> QED BY <1>a, <2>1, RunWritesNothing
<1>3. ASSUME NEW e \in entries, e \notin entries' PROVE e.inode # visible[q]
  <2>1. PruneUnlink(p)
    <3>1. CASE Reindexes(p)
      BY <1>a, <1>3, <3>1 DEF Reindexes, CreateObjectEntry, CreateFails,
         RenameObject, RenameFails, DropStale, DropFails, ContentInv, JobTrue,
         TrueInv, NoDrop
      <3> QED BY <1>3, <3>1, EntriesFrame
  <2>2. pc[p] = "unlink" /\ e = job[p].entry
    BY <1>3, <2>1 DEF PruneUnlink
  <2> QED BY <1>a, <2>2 DEF PruneInv
<1> QED BY <1>1, <1>2, <1>3 DEF Linked

\* A path leaves the visit's hands linked, or with a failure reported.
LEMMA VisitLinks ==
    ASSUME TrueInv, NoDrop', NEW p \in Procs, Visit(p), ~failed'[p],
           NEW q \in Paths, ToLink(p, q)
    PROVE  Linked(q) \/ ToLink(p, q)'
<1>a. TypeInv /\ ContentInv
  BY DEF TrueInv, Inv
<1>b. /\ pc \in [Procs -> Labels] /\ job \in [Procs -> Job]
      /\ failed \in [Procs -> BOOLEAN] /\ queue \in [Procs -> SUBSET Paths]
  BY <1>a DEF TypeInv, TypeOK
<1>c. /\ index[p].records \subseteq entries \/ pc[p] \notin Reconciling
      /\ \A e \in entries : e.digest = content[e.inode]
  BY <1>a DEF TrueInv, Inv, IndexInv, Local, DiskInv, ContentInv, EntriesTrue
<1> USE DEF GoTo, Note, Resume
<1>1. ~\E s \in Paths : VisitGone(p, s)
  BY <1>b DEF VisitGone
<1>2. ASSUME NEW s \in Paths, VisitTrusted(p, s)
      PROVE  Linked(q) \/ ToLink(p, q)'
  <2>1. /\ pc[p] = "visit" /\ pc' = pc /\ queue'[p] = queue[p] \ {s}
        /\ visible[s] \in Inodes
    BY <1>2, <1>a, <1>b DEF VisitTrusted, Visiting, TypeInv, TypeOK
  <2>2. PICK r \in ForInode(p, visible[s]) : TRUE
    BY <1>2 DEF VisitTrusted, Trusted
  <2>3. r \in index[p].records /\ r.inode = visible[s]
    BY <1>a, <2>1, <2>2, ForInodeExact
       DEF TrueInv, MemInv, SafeInv, Memory, IndexInv, Local
  <2>4. Linked(s)
    BY <1>c, <2>1, <2>3 DEF Linked, Reconciling
  <2> QED BY <2>1, <2>4 DEF ToLink
<1>3. ASSUME NEW s \in Paths, VisitUntrusted(p, s)
      PROVE  ToLink(p, q)'
  <2>1. /\ pc[p] = "visit" /\ pc'[p] = "hash" /\ queue'[p] = queue[p] \ {s}
        /\ job'[p].path = s
    BY <1>3, <1>b DEF VisitUntrusted, Visiting, NoJob
  <2> QED BY <2>1 DEF ToLink
<1>4. ~HashFails(p)
  BY <1>b DEF HashFails
<1>5. CASE Hash(p) \/ ApplyNew(p)
  <2>1. /\ pc[p] \in {"hash", "apply"} /\ pc'[p] \in {"apply", "create"}
        /\ queue' = queue /\ job'[p].path = job[p].path
    BY <1>5, <1>b DEF Hash, ApplyNew, Job
  <2> QED BY <2>1 DEF ToLink
<1>6. CASE ApplyReused(p)
  <2>1. /\ pc[p] = "apply" /\ job[p].path \in Paths
        /\ visible[job[p].path] = job[p].inode
    BY <1>6, <1>a DEF ApplyReused, ContentInv, JobTrue
  <2>2. PICK r \in index[p].records : r.inode = job[p].inode
    BY <1>6 DEF ApplyReused, IndexedAlready, ForDigest
  <2>3. Linked(job[p].path)
    BY <1>c, <2>1, <2>2 DEF Linked, Reconciling
  <2>4. pc'[p] = "visit" /\ queue' = queue
    BY <1>6, <1>b, <2>1, Sentinels DEF ApplyReused
  <2> QED BY <2>1, <2>3, <2>4 DEF ToLink
<1>7. ~ApplyChanged(p)
  <2>1. ApplyChanged(p) => /\ pc[p] = "apply" /\ ForDigest(p, job[p].digest) = {}
                           /\ ForInode(p, job[p].inode) # {}
    BY DEF ApplyChanged
  <2>2. pc[p] = "apply" => job[p].inode \in Inodes
                           /\ content[job[p].inode] = job[p].digest
    BY <1>a DEF ContentInv, JobTrue
  <2>3. pc[p] = "apply" => \A r \in ForInode(p, job[p].inode) :
                              r \in index[p].records /\ r.inode = job[p].inode
    BY <1>a, <2>2, ForInodeExact
       DEF TrueInv, MemInv, SafeInv, Memory, IndexInv, Local
  <2> QED BY <1>c, <2>1, <2>2, <2>3 DEF ForDigest, Reconciling
<1>8. CASE ApplyDuplicate(p)
  <2>1. pc'[p] = "stage"
    BY <1>8, <1>b DEF ApplyDuplicate, NoDrop
  <2>2. queue' = queue /\ job'[p].path = job[p].path
    BY <1>8, <1>b DEF ApplyDuplicate, Job
  <2>3. q \in queue[p] \/ q = job[p].path
    BY <1>8 DEF ApplyDuplicate, ToLink
  <2> QED BY <2>1, <2>2, <2>3 DEF ToLink
<1>9. ~FinishVisits(p)
  BY DEF FinishVisits, ToLink
<1> QED BY <1>1, <1>2, <1>3, <1>4, <1>5, <1>6, <1>7, <1>8, <1>9 DEF Visit

LEMMA RepairLinks ==
    ASSUME TrueInv, NEW p \in Procs, Repair(p), ~failed'[p],
           NEW q \in Paths, ToLink(p, q)
    PROVE  Linked(q)' \/ ToLink(p, q)'
<1>a. TypeInv /\ ContentInv
  BY DEF TrueInv, Inv
<1>b. /\ pc \in [Procs -> Labels] /\ job \in [Procs -> Job]
      /\ failed \in [Procs -> BOOLEAN] /\ content \in [Inodes -> Digests]
      /\ visible \in [Paths -> Inodes \cup {NoInode}]
  BY <1>a DEF TypeInv, TypeOK
<1> USE DEF GoTo, Note, Resume
<1>1. CASE CreateObjectEntry(p)
  <2> DEFINE new == [digest |-> job[p].digest, ts |-> job[p].ts,
                     inode |-> visible[job[p].path]]
  <2>1. /\ pc[p] = "create" /\ new \in entries' /\ queue' = queue
        /\ UNCHANGED userVars
    BY <1>1 DEF CreateObjectEntry
  <2>2. /\ job[p].path \in Paths /\ visible[job[p].path] = job[p].inode
        /\ content[job[p].inode] = job[p].digest
    BY <1>a, <2>1 DEF ContentInv, JobTrue
  <2>3. q = job[p].path => Linked(q)'
    BY <2>1, <2>2 DEF Linked, userVars
  <2>4. pc'[p] = "visit"
    BY <1>1, <1>b, <2>2, Sentinels DEF CreateObjectEntry
  <2> QED BY <2>1, <2>3, <2>4 DEF ToLink
<1>2. CASE StageLink(p)
  <2>1. /\ pc[p] = "stage" /\ pc'[p] = "swap" /\ queue' = queue
        /\ job'[p].path = job[p].path
    BY <1>2, <1>b DEF StageLink, Job
  <2> QED BY <2>1 DEF ToLink
<1>3. CASE SwapIn(p)
  <2> DEFINE e == job[p].entry
  <2>1. /\ pc[p] = "swap" /\ pc'[p] = "verify" /\ queue' = queue
        /\ visible' = [visible EXCEPT ![job[p].path] = e.inode]
        /\ UNCHANGED <<content, entries>>
    BY <1>3, <1>b DEF SwapIn, Staged
  <2>2. job[p].path \in Paths /\ e \in entries /\ e.digest = content[e.inode]
    BY <1>a, <2>1 DEF TrueInv, MemInv, Memory, PlaceInv, TypeInv, JobOK,
                      ContentInv, EntriesTrue
  <2>3. q = job[p].path => Linked(q)'
    BY <1>b, <2>1, <2>2 DEF Linked
  <2> QED BY <2>1, <2>3 DEF ToLink
<1>4. CASE VerifySwap(p)
  <2>1. pc[p] = "verify" /\ job[p].path \in Paths /\ queue' = queue
    BY <1>4, <1>a DEF VerifySwap, TypeInv, JobOK
  <2>2. pc'[p] = "visit"
    BY <1>4, <1>b, <2>1, Sentinels DEF VerifySwap
  <2> QED BY <2>1, <2>2 DEF ToLink
<1>5. /\ ~CreateFails(p) /\ ~StageFails(p) /\ ~SwapFails(p)
      /\ ~RenameObject(p) /\ ~RenameFails(p) /\ ~DropStale(p) /\ ~DropFails(p)
  BY <1>b DEF CreateFails, StageFails, SwapFails, RenameObject, RenameFails,
     DropStale, DropFails, ToLink
<1> QED BY <1>1, <1>2, <1>3, <1>4, <1>5 DEF Repair

LEMMA ConvStep ==
    ASSUME OwnerQuiet, TrueInv, NoDrop', NEW p \in Procs,
           Acquire(p) \/ RunStep(p) \/ Crash(p), ConvInv(p)
    PROVE  ConvInv(p)'
<1>a. TypeInv
  BY DEF TrueInv, Inv
<1>b. /\ pc \in [Procs -> Labels] /\ failed \in [Procs -> BOOLEAN]
      /\ opts \in [Procs -> Options] /\ queue \in [Procs -> SUBSET Paths]
  BY <1>a DEF TypeInv, TypeOK
<1>c. pc'[p] \in Labels
  <2>1. TypeInv'
    BY <1>a, TypeInvStep DEF Next
  <2> QED BY <2>1 DEF TypeInv, TypeOK
<1> SUFFICES ASSUME pc'[p] # "idle", ~failed'[p], NEW q \in opts'[p].select
             PROVE  Linked(q)' \/ ToLink(p, q)'
  BY DEF ConvInv
<1>1. CASE pc'[p] \in {"clean", "scan", "discover"}
  BY <1>1 DEF ToLink
<1>2. CASE DiscoverFiles(p)
  <2>1. /\ pc[p] = "discover" /\ pc'[p] = "visit" /\ opts' = opts
        /\ queue'[p] = {s \in opts[p].select : visible[s] # NoInode}
        /\ visible' = visible
    BY <1>2, <1>b DEF DiscoverFiles, GoTo, userVars, OwnerQuiet
  <2> QED BY <2>1 DEF ToLink, Linked
<1>3. CASE pc'[p] \notin {"clean", "scan", "discover"} /\ ~DiscoverFiles(p)
  <2>1. pc'[p] \in Knowing /\ ~ScanObjectIndex(p)
    BY <1>3, <1>b, <1>c
       DEF ScanObjectIndex, GoTo, Knowing, Reconciling, Labels
  <2>2. /\ pc[p] \in Knowing /\ ~failed[p] /\ q \in opts[p].select
    BY <1>a, <2>1, KnowingFrame
  <2>3. q \in Paths /\ (Linked(q) \/ ToLink(p, q))
    BY <1>b, <2>2 DEF ConvInv, Knowing, Reconciling, Options
  <2>4. CASE ToLink(p, q)
    <3>1. CASE Repair(p)
      BY <2>3, <2>4, <3>1, RepairLinks
    <3>2. CASE Visit(p)
      <4>1. Linked(q) \/ ToLink(p, q)'
        BY <2>3, <2>4, <3>2, VisitLinks
      <4>2. ~SwapIn(p)
        BY <3>2 DEF SwapIn, Visit, VisitGone, VisitTrusted, VisitUntrusted,
           Visiting, Hash, HashFails, ApplyReused, ApplyNew, ApplyChanged,
           ApplyDuplicate, FinishVisits
      <4> QED BY <2>3, <4>1, <4>2, LinkedStays
    <3>3. CASE Retained(p) \/ Prune(p)
      BY <2>4, <3>3 DEF ToLink, Retained, RetainedSkip, RetainedHash,
         RetainedHashFails, Retaining, SettleSame, SettleChanged,
         FinishRetained, Prune, PruneStat, PruneUnlink, FinishPrune, Release
    <3>4. ~(Acquire(p) \/ Phase1(p) \/ Crash(p))
      BY <1>3, <1>b, <2>1 DEF Acquire, Phase1, Crash, Exit, CleanStaleTmp,
         ScanRejects, SetupFails, GoTo
    <3> QED BY <3>1, <3>2, <3>3, <3>4 DEF RunStep
  <2>5. CASE Linked(q) /\ ~ToLink(p, q)
    <3>1. ~(SwapIn(p) /\ q = job[p].path)
      BY <2>5 DEF SwapIn, ToLink
    <3> QED BY <2>3, <2>5, <3>1, LinkedStays
  <2> QED BY <2>3, <2>4, <2>5
<1> QED BY <1>1, <1>2, <1>3

Converging == \A p \in Procs : ConvInv(p)

LEMMA ConvInvStep ==
    ASSUME Disciplined, TrueInv, TrueInv', Converging, [Next]_vars
    PROVE  Converging'
<1> USE DEF Converging
<1>a. TypeInv /\ IndexInv /\ OwnerQuiet
  BY DEF TrueInv, Inv, Disciplined, OwnerQuiet
<1>1. ASSUME NEW p \in Procs, Acquire(p) \/ RunStep(p) \/ Crash(p)
      PROVE  \A q \in Procs : ConvInv(q)'
  <2>1. ConvInv(p)'
    BY <1>a, <1>1, ConvStep DEF TrueInv
  <2>2. \A q \in Procs \ {p} : ConvInv(q)'
    BY <1>a, <1>1, OthersIdle DEF ConvInv
  <2> QED BY <2>1, <2>2
<1>2. CASE User
  BY <1>a, <1>2, OwnerFrame DEF ConvInv, procVars
<1>3. CASE UNCHANGED vars
  BY <1>3 DEF ConvInv, Linked, ToLink, vars, userVars, diskVars, procVars
<1> QED BY <1>1, <1>2, <1>3 DEF Next

\* Under the discipline a complete run over the whole tree that reports no
\* failure leaves every visible path a hard link to the entry of its content,
\* whatever earlier runs died in the middle of and whatever calls may fail.
THEOREM RunAlwaysConverges ==
    ASSUME Disciplined
    PROVE  Spec => []RunConverges
<1>1. Init => Converging
  BY DEF Init, Converging, ConvInv
<1>2. TrueInv /\ TrueInv' /\ Converging /\ [Next]_vars => Converging'
  BY ConvInvStep
<1>3. Converging => RunConverges
  BY DEF Converging, ConvInv, ToLink, Linked, RunConverges
<1> QED BY <1>1, <1>2, <1>3, TrueInvariant, PTL DEF Spec
=============================================================================

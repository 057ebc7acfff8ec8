--------------------------- MODULE PcasServeProofs ---------------------------
(***************************************************************************)
(* Serving changes nothing an index run depends on; and what is served,    *)
(* while runs replace, unlink and die, is what an atomic reader could have *)
(* seen.                                                                    *)
(***************************************************************************)
EXTENDS PcasServe, PcasIndexProofs, FiniteSetTheorems

-----------------------------------------------------------------------------
(* `pcas serve` only reads.                                                *)

LEMMA ServeStepReads == [ServeNext]_serveVars => [Next]_vars
<1> SUFFICES ASSUME [ServeNext]_serveVars PROVE [Next]_vars
  OBVIOUS
<1>1. CASE IndexStep
  BY <1>1 DEF IndexStep, Next
<1>2. CASE OwnerStep
  BY <1>2 DEF OwnerStep, Next
<1>3. ASSUME NEW c \in Clients,
             \/ \E t \in Targets : Send(c, t)
             \/ HierarchyRoute(c) \/ DigestRoute(c) \/ RespondStep(c)
             \/ Receive(c)
      PROVE  UNCHANGED vars
  BY <1>3 DEF Send, HierarchyRoute, Canonicalize, Stat, OpenPath, DigestRoute,
     ListShard, OpenObject, RespondStep, Fstat, RespondNotModified, SendBody,
     Receive, ReadsOnly
<1>4. CASE UNCHANGED serveVars
  BY <1>4 DEF serveVars
<1> QED BY <1>1, <1>2, <1>3, <1>4 DEF ServeNext

\* A tree that is served behaves as one that is not: every theorem about
\* `pcas index` holds with any number of clients reading next to it.
THEOREM ServeOnlyReads == ServeSpec => Spec
<1>1. ServeInit => Init
  BY DEF ServeInit
<1> QED BY <1>1, ServeStepReads, PTL DEF ServeSpec, Spec

-----------------------------------------------------------------------------
(* At most one entry per digest: what is on disk is in ObjectIndex as long  *)
(* as entries are created.  A stat that fails after a link, or an unlink    *)
(* that fails, breaks this.                                                 *)

\* The discipline, mtimes that are never backdated, and no call failing in a
\* way that leaves an entry ObjectIndex does not know.
Undamaged ==
    /\ Disciplined
    /\ MtimeLag = 0
    /\ Faults \subseteq {"link", "rename"}

DigestsUnique == \A e, f \in entries : e.digest = f.digest => e = f

EntriesIndexed ==
    \A p \in Procs : pc[p] \in Reconciling => entries \subseteq index[p].records

UniqueInv == DigestsUnique /\ EntriesIndexed

LEMMA OneEntry ==
    ASSUME DigestsUnique, NEW d, ShardMatches(d) # {}
    PROVE  Cardinality(ShardMatches(d)) = 1
<1>1. PICK e \in entries : ShardMatches(d) = {e}
  BY DEF ShardMatches, DigestsUnique
<1> QED BY <1>1, FS_Singleton

LEMMA VisitUnique ==
    ASSUME Inv, NEW p \in Procs, Visit(p) \/ Retained(p)
    PROVE  pc[p] \in Reconciling /\ UNCHANGED <<entries, index>>
<1> USE DEF Reconciling, diskVars
<1>1. CASE Visit(p)
  BY <1>1 DEF Visit, VisitGone, VisitTrusted, VisitUntrusted, Visiting, Hash,
     HashFails, ApplyReused, ApplyNew, ApplyChanged, ApplyDuplicate, FinishVisits
<1>2. CASE Retained(p)
  BY <1>2 DEF Retained, RetainedSkip, RetainedHash, RetainedHashFails,
     Retaining, SettleSame, SettleChanged, FinishRetained
<1> QED BY <1>1, <1>2

\* The step that creates an entry tells ObjectIndex, and so does the one that
\* drops a duplicate's.
LEMMA RepairUnique ==
    ASSUME Undamaged, Inv, UniqueInv, NEW p \in Procs, Repair(p)
    PROVE  /\ entries' \subseteq entries \/ entries \subseteq entries'
           /\ DigestsUnique' /\ entries' \subseteq index'[p].records
<1> USE DEF Undamaged, Inv, TypeInv, TypeOK, UniqueInv, EntriesIndexed,
            DigestsUnique, Reconciling, diskVars
<1>1. CASE CreateObjectEntry(p)
  <2> DEFINE new == [digest |-> job[p].digest, ts |-> job[p].ts,
                     inode |-> visible[job[p].path]]
  <2>1. /\ pc[p] = "create" /\ entries' = entries \cup {new}
        /\ index' = [index EXCEPT ![p] = Inserted(@, new)]
    BY <1>1 DEF CreateObjectEntry
  <2>2. ForDigest(p, new.digest) = {}
    BY <2>1 DEF IndexInv, Local, FreshDigest
  <2>3. \A e \in entries : e.digest # new.digest
    BY <2>1, <2>2 DEF ForDigest
  <2>4. index'[p].records = {x \in index[p].records : x.digest # new.digest} \cup {new}
    BY <2>1 DEF Inserted
  <2> QED BY <2>1, <2>3, <2>4
<1>2. CASE DropStale(p)
  <2>1. /\ pc[p] = "drop" /\ entries' = entries \ {job[p].entry}
        /\ index' = [index EXCEPT ![p] = Removed(@, job[p].entry)]
    BY <1>2 DEF DropStale
  <2>2. index'[p].records = index[p].records \ {job[p].entry}
    BY <2>1 DEF Removed
  <2> QED BY <2>1, <2>2
<1>3. ~DropFails(p)
  BY DEF DropFails, IndexInv, Local, DiskInv
<1>4. ~RenameObject(p) /\ ~RenameFails(p)
  BY DEF RenameObject, RenameFails, ContentInv, JobTrue
<1>5. CASE CreateFails(p) \/ StageLink(p) \/ StageFails(p)
           \/ SwapIn(p) \/ SwapFails(p) \/ VerifySwap(p)
  <2>1. pc[p] \in Reconciling /\ UNCHANGED <<entries, index>>
    BY <1>5 DEF CreateFails, StageLink, StageFails, SwapIn, SwapFails,
       VerifySwap
  <2> QED BY <2>1
<1> QED BY <1>1, <1>2, <1>3, <1>4, <1>5 DEF Repair

LEMMA OtherStepUnique ==
    ASSUME Inv, UniqueInv, NEW p \in Procs,
           Acquire(p) \/ Phase1(p) \/ Prune(p) \/ Crash(p)
    PROVE  pc'[p] \in Reconciling => entries' \subseteq index'[p].records
<1> USE DEF Inv, TypeInv, TypeOK, GoTo, diskVars, Reconciling
<1>1. CASE ScanObjectIndex(p)
  BY <1>1 DEF ScanObjectIndex
<1>2. CASE DiscoverFiles(p)
  <2>1. pc[p] = "discover" /\ UNCHANGED <<entries, index>>
    BY <1>2 DEF DiscoverFiles
  <2> QED BY <2>1 DEF UniqueInv, EntriesIndexed
<1>3. CASE ~ScanObjectIndex(p) /\ ~DiscoverFiles(p)
  <2>1. pc'[p] \in {"idle", "clean", "scan", "prune", "unlink", "done"}
    BY <1>3 DEF Acquire, Phase1, CleanStaleTmp, ScanRejects, SetupFails, Prune,
       PruneStat, PruneUnlink, FinishPrune, Release, Crash, Exit
  <2> QED BY <2>1
<1> QED BY <1>1, <1>2, <1>3

\* One step of a run adds entries or takes them away, never both.
LEMMA RunUnique ==
    ASSUME Undamaged, Inv, UniqueInv,
           NEW p \in Procs, Acquire(p) \/ RunStep(p) \/ Crash(p)
    PROVE  UniqueInv' /\ (entries' \subseteq entries \/ entries \subseteq entries')
<1>1. /\ entries' \subseteq entries \/ entries \subseteq entries'
      /\ DigestsUnique'
      /\ pc'[p] \in Reconciling => entries' \subseteq index'[p].records
  <2>1. CASE Visit(p) \/ Retained(p)
    BY <2>1, VisitUnique DEF UniqueInv, DigestsUnique, EntriesIndexed
  <2>2. CASE Repair(p)
    BY <2>2, RepairUnique
  <2>3. CASE Acquire(p) \/ Phase1(p) \/ Prune(p) \/ Crash(p)
    BY <2>3, OtherStepUnique, OtherStepContent DEF UniqueInv, DigestsUnique
  <2> QED BY <2>1, <2>2, <2>3 DEF RunStep
<1>2. \A q \in Procs \ {p} : pc'[q] = "idle"
  BY StepFrame, Sentinels DEF Inv, IndexInv, LockInv, Others
<1>3. EntriesIndexed'
  BY <1>1, <1>2 DEF EntriesIndexed, Reconciling
<1> QED BY <1>1, <1>3 DEF UniqueInv

-----------------------------------------------------------------------------
(* What a request knows, and what the copies of the clients are.           *)

ClientTypes ==
    /\ req \in [Clients -> Request]
    /\ cache \in [Clients -> [target : Targets \cup {NoTarget},
                              tag : Tags \cup {NoTag},
                              body : Digests \cup {NoDigest}]]
    /\ seen \in [Clients -> SUBSET (Digests \cup {NoDigest})]

\* The answer a client has got.
AnswerTrue(c) ==
    /\ req[c].status \in {200, 304, 404, 500}
    /\ req[c].status = 200 => req[c].body \in seen[c]
    /\ req[c].status = 304 => cache[c].body \in seen[c]
    /\ req[c].status \in {404, 500} => NoDigest \in seen[c]
    /\ req[c].status = 500 => req[c].target \in Digests /\ req[c].target \in seen[c]

\* What the open descriptor reads is what the target held at some moment of
\* the request, and stays so although the path or the entry is gone.
DescriptorTrue(c) ==
    /\ req[c].fd \in Inodes
    /\ content[req[c].fd] \in seen[c]
    /\ req[c].target \in Digests => content[req[c].fd] = req[c].target

RequestTrue(c) ==
    /\ At(c, "idle") => req[c].target = NoTarget /\ seen[c] = {}
    /\ req[c].at \in {"canonicalize", "stat", "open"} => req[c].target \in Paths
    /\ req[c].at \in {"list", "openObject"} => req[c].target \in Digests
    /\ req[c].at \notin {"idle", "answered"} =>
          /\ req[c].target \in Targets
          /\ Held[req[c].target] \in seen[c]
          /\ \/ req[c].cond = NoTag
             \/ req[c].cond = cache[c].tag /\ req[c].target \in Paths
    /\ req[c].target \in Digests => seen[c] \subseteq {req[c].target, NoDigest}
    /\ At(c, "openObject") =>
          /\ req[c].found \in Entry /\ req[c].found.digest = req[c].target
          /\ req[c].target \in seen[c]
          /\ req[c].found \notin entries => NoDigest \in seen[c]
    /\ req[c].fd # NoInode <=> req[c].at \in {"fstat", "respond"}
    /\ req[c].at \in {"fstat", "respond"} => DescriptorTrue(c)
    /\ At(c, "respond") =>
          req[c].tag = IF req[c].target \in Paths THEN HierarchyTag(req[c].fd)
                       ELSE req[c].target
    /\ At(c, "answered") => AnswerTrue(c)

\* As long as the inode has the mtime the tag names, it has the bytes the
\* client keeps: a write in between is later than the tag.
CacheTrue(c) ==
    LET tag == cache[c].tag
    IN  /\ cache[c].target \in Paths \cup {NoTarget}
        /\ tag # NoTag =>
              /\ tag \in HierarchyTags
              /\ tag.mtime <= clock
              /\ mtime[tag.inode] = tag.mtime => content[tag.inode] = cache[c].body

MtimesPast == \A i \in Inodes : mtime[i] <= clock

ClientInv ==
    ClientTypes /\ MtimesPast /\ \A c \in Clients : RequestTrue(c) /\ CacheTrue(c)

ServeInv == Inv /\ UniqueInv /\ ClientInv

LEMMA ServeSentinels ==
    /\ NoTarget \notin Targets /\ NoTag \notin HierarchyTags
    /\ NoTag \notin Digests /\ HierarchyTags \cap Digests = {}
    /\ Paths \cap Digests = {}
BY ServeAssumption DEF HierarchyTags, Targets

LEMMA InitServeInv == ServeInit => ServeInv
<1> SUFFICES ASSUME ServeInit PROVE ServeInv
  OBVIOUS
<1> USE ServeSentinels, Sentinels, ModelAssumption
<1>1. Inv
  BY InitTypeInv, InitIndexInv, InitContentInv DEF Inv, ServeInit
<1>2. UniqueInv
  BY DEF ServeInit, Init, UniqueInv, DigestsUnique, EntriesIndexed, Reconciling
<1>3. ClientTypes
  BY DEF ServeInit, ClientTypes, Request, Idle, NotCached, Stages
<1>4. MtimesPast
  BY DEF ServeInit, Init, MtimesPast
<1>5. ASSUME NEW c \in Clients PROVE RequestTrue(c)
  BY DEF ServeInit, RequestTrue, Idle, At, Targets
<1>6. ASSUME NEW c \in Clients PROVE CacheTrue(c)
  BY DEF ServeInit, CacheTrue, NotCached
<1> QED BY <1>1, <1>2, <1>3, <1>4, <1>5, <1>6 DEF ServeInv, ClientInv

LEMMA HeldIsValue ==
    ASSUME TypeOK, NEW t \in Targets
    PROVE  Held[t] \in Digests \cup {NoDigest}
<1>1. CASE t \in Paths
  BY <1>1 DEF Held, Tree, TypeOK
<1>2. CASE t \notin Paths
  BY <1>2 DEF Held, Targets
<1> QED BY <1>1, <1>2

\* What the others do is noticed: a reader has seen all its target has held.
LEMMA ObservedSeen ==
    ASSUME ClientTypes, TypeOK', NEW targets \in SUBSET Targets, Observe(targets),
           UNCHANGED req,
           \A t \in Targets \ targets : Held'[t] = Held[t],
           NEW c \in Clients, RequestTrue(c), req[c].at \notin {"idle", "answered"}
    PROVE  /\ seen' \in [Clients -> SUBSET (Digests \cup {NoDigest})]
           /\ seen[c] \subseteq seen'[c]
           /\ Held'[req[c].target] \in seen'[c]
           /\ seen'[c] \subseteq seen[c] \cup {Held'[req[c].target]}
<1>1. \A t \in Targets : Held'[t] \in Digests \cup {NoDigest}
  <2> SUFFICES ASSUME NEW t \in Targets
               PROVE  Held'[t] \in Digests \cup {NoDigest}
    OBVIOUS
  <2>1. CASE t \in Paths
    BY <2>1 DEF Held, Tree, TypeOK
  <2>2. CASE t \notin Paths
    BY <2>2 DEF Held, Targets
  <2> QED BY <2>1, <2>2
<1>2. seen' \in [Clients -> SUBSET (Digests \cup {NoDigest})]
  BY <1>1 DEF Observe, ClientTypes
<1>3. seen'[c] = IF req[c].target \in targets
                 THEN seen[c] \cup {Held'[req[c].target]} ELSE seen[c]
  BY DEF Observe
<1> QED BY <1>2, <1>3 DEF RequestTrue

\* A step of an index run or of the owner disturbs no request, provided the
\* open descriptor keeps its bytes and a digest's entry is not merely replaced.
LEMMA Undisturbed ==
    ASSUME ClientTypes, TypeOK', NEW targets \in SUBSET Targets, Observe(targets),
           UNCHANGED <<req, cache>>,
           \A t \in Targets \ targets : Held'[t] = Held[t],
           NEW c \in Clients, RequestTrue(c), ~At(c, "answered"),
           req[c].fd # NoInode =>
              /\ content'[req[c].fd] = content[req[c].fd]
              /\ mtime'[req[c].fd] = mtime[req[c].fd],
           /\ At(c, "openObject")
           /\ req[c].found \in entries /\ req[c].found \notin entries'
           => Held'[req[c].target] = NoDigest
    PROVE  RequestTrue(c)' /\ seen'[c] \in SUBSET (Digests \cup {NoDigest})
<1> USE ServeSentinels
<1>1. CASE At(c, "idle")
  <2>1. seen'[c] = seen[c]
    BY <1>1 DEF Observe, RequestTrue
  <2> QED BY <1>1, <2>1 DEF RequestTrue, At, ClientTypes, Targets
<1>2. CASE ~At(c, "idle")
  <2>1. /\ seen'[c] \in SUBSET (Digests \cup {NoDigest})
        /\ seen[c] \subseteq seen'[c]
        /\ Held'[req[c].target] \in seen'[c]
        /\ seen'[c] \subseteq seen[c] \cup {Held'[req[c].target]}
    BY <1>2, ObservedSeen DEF At
  <2>2. req[c].target \in Digests => Held'[req[c].target] \in {req[c].target, NoDigest}
    BY DEF Held, Targets
  <2>3. req[c].target \in Digests => seen'[c] \subseteq {req[c].target, NoDigest}
    BY <2>1, <2>2 DEF RequestTrue
  <2>4. At(c, "openObject") =>
           /\ req[c].found \in Entry /\ req[c].found.digest = req[c].target
           /\ req[c].target \in seen'[c]
           /\ req[c].found \notin entries' => NoDigest \in seen'[c]
    BY <2>1 DEF RequestTrue
  <2>5. req[c].at \in {"fstat", "respond"} => DescriptorTrue(c)'
    BY <2>1 DEF RequestTrue, DescriptorTrue
  <2>6. At(c, "respond") =>
           req[c].tag = IF req[c].target \in Paths THEN HierarchyTag(req[c].fd)'
                        ELSE req[c].target
    BY DEF RequestTrue, HierarchyTag, At
  <2>7. req[c].at \notin {"idle", "answered"} =>
          /\ req[c].target \in Targets
          /\ Held'[req[c].target] \in seen'[c]
          /\ \/ req[c].cond = NoTag
             \/ req[c].cond = cache[c].tag /\ req[c].target \in Paths
    BY <2>1 DEF RequestTrue
  <2>8. /\ req[c].at \in {"canonicalize", "stat", "open"} => req[c].target \in Paths
        /\ req[c].at \in {"list", "openObject"} => req[c].target \in Digests
        /\ req[c].fd # NoInode <=> req[c].at \in {"fstat", "respond"}
    BY DEF RequestTrue
  <2> QED BY <1>2, <2>1, <2>3, <2>4, <2>5, <2>6, <2>7, <2>8 DEF RequestTrue, At
<1> QED BY <1>1, <1>2

LEMMA RunKeepsTimes ==
    ASSUME Inv, NEW p \in Procs, Acquire(p) \/ RunStep(p) \/ Crash(p)
    PROVE  UNCHANGED <<mtime, clock>>
<1>1. CASE Repair(p)
  BY <1>1 DEF Repair, CreateObjectEntry, CreateFails, RenameObject, RenameFails,
     DropStale, DropFails, StageLink, StageFails, SwapIn, SwapFails, VerifySwap,
     userVars
<1>2. CASE Visit(p) \/ Retained(p)
  BY <1>2, VisitContent, RetainedContent DEF userVars
<1>3. CASE Acquire(p) \/ Phase1(p) \/ Prune(p) \/ Crash(p)
  BY <1>3, OtherStepContent DEF userVars
<1> QED BY <1>1, <1>2, <1>3 DEF RunStep

LEMMA IndexStepServe ==
    ASSUME Undamaged, ServeInv, Inv', IndexStep
    PROVE  UniqueInv' /\ ClientInv'
<1> USE DEF ServeInv, ClientInv
<1>1. PICK p \in Procs : Acquire(p) \/ RunStep(p) \/ Crash(p)
  BY DEF IndexStep
<1>2. UniqueInv' /\ (entries' \subseteq entries \/ entries \subseteq entries')
  BY <1>1, RunUnique
<1>3. UNCHANGED <<content, mtime, clock>> /\ Tree' = Tree
  BY <1>1, RunContent, RunKeepsTimes DEF Undamaged
<1>4. \A t \in Targets \ Digests : Held'[t] = Held[t]
  BY <1>3 DEF Held, Targets
<1>5. /\ Observe(Digests) /\ Digests \in SUBSET Targets
      /\ UNCHANGED <<req, cache>> /\ TypeOK'
      /\ \A c \in Clients : ~At(c, "answered")
  BY DEF IndexStep, Unanswered, Inv, TypeInv, Targets
<1>6. ASSUME NEW c \in Clients, At(c, "openObject"),
             req[c].found \in entries, req[c].found \notin entries'
      PROVE  Held'[req[c].target] = NoDigest
  <2>1. req[c].found.digest = req[c].target /\ req[c].target \in Digests
    BY <1>6 DEF RequestTrue, At
  <2>2. \A e \in entries' : e.digest # req[c].target
    BY <1>2, <1>6, <2>1 DEF UniqueInv, DigestsUnique
  <2> QED BY <2>1, <2>2, ServeSentinels DEF Held, Targets
<1>7. \A c \in Clients :
         RequestTrue(c)' /\ seen'[c] \in SUBSET (Digests \cup {NoDigest})
  BY <1>3, <1>4, <1>5, <1>6, Undisturbed
<1>8. ClientTypes'
  BY <1>5, <1>7 DEF ClientTypes, Observe
<1>9. MtimesPast' /\ \A c \in Clients : CacheTrue(c)'
  BY <1>3, <1>5 DEF MtimesPast, CacheTrue
<1> QED BY <1>2, <1>7, <1>8, <1>9

\* The owner writes only inodes that were free, which no descriptor reads; and
\* a write is later than every tag.
LEMMA OwnerStepServe ==
    ASSUME Undamaged, ServeInv, Inv', OwnerStep
    PROVE  UniqueInv' /\ ClientInv'
<1> USE DEF ServeInv, ClientInv
<1> USE Sentinels, ServeSentinels, ModelAssumption
<1>1. PICK q \in Paths :
         \/ UserReplaces(q) \/ UserWritesInPlace(q) \/ UserRemoves(q)
         \/ \E dest \in Paths : UserMoves(q, dest) \/ UserLinks(q, dest)
  BY DEF OwnerStep, User
<1>2. UNCHANGED <<diskVars, lock, procVars>>
  BY <1>1 DEF UserReplaces, UserWritesInPlace, UserRemoves, UserMoves, UserLinks
<1>3. UniqueInv'
  BY <1>2 DEF UniqueInv, DigestsUnique, EntriesIndexed, diskVars, procVars
<1>4. \A t \in Targets \ Paths : Held'[t] = Held[t]
  BY <1>2 DEF Held, diskVars
<1>5. /\ Observe(Paths) /\ Paths \in SUBSET Targets
      /\ UNCHANGED <<req, cache>> /\ TypeOK /\ TypeOK'
      /\ \A c \in Clients : ~At(c, "answered")
      /\ \A c \in Clients :
            req[c].fd # NoInode /\ Free(req[c].fd) => Free(req[c].fd)'
  BY DEF OwnerStep, Unanswered, Inv, TypeInv, Targets
<1>6. /\ MtimesPast'
      /\ \A c \in Clients : CacheTrue(c)'
      /\ \A c \in Clients : req[c].fd # NoInode =>
            /\ content'[req[c].fd] = content[req[c].fd]
            /\ mtime'[req[c].fd] = mtime[req[c].fd]
  <2>1. CASE UserReplaces(q)
    <3>1. PICK i \in Inodes, d \in Digests :
             /\ Free(i) /\ Stamped(i)
             /\ visible' = [visible EXCEPT ![q] = i]
             /\ content' = [content EXCEPT ![i] = d]
      BY <2>1 DEF UserReplaces
    <3>2. /\ clock \in Nat /\ clock' = clock + 1
          /\ mtime' = [mtime EXCEPT ![i] = clock']
      <4>1. clock \in Nat /\ clock' = clock + 1
        BY <1>5, <3>1 DEF Stamped, TypeOK
      <4>2. PICK lag \in 0..MtimeLag : mtime' = [mtime EXCEPT ![i] = clock' - lag]
        BY <3>1 DEF Stamped
      <4>3. lag = 0
        BY <4>2 DEF Undamaged
      <4> QED BY <4>1, <4>2, <4>3
    <3>3. ~Free(i)'
      <4>1. visible'[q] = i
        BY <1>5, <3>1 DEF TypeOK
      <4> QED BY <4>1 DEF Free
    <3>4. \A c \in Clients : req[c].fd # NoInode => req[c].fd # i
      BY <1>5, <3>1, <3>3
    <3>5. \A c \in Clients : req[c].fd # NoInode => req[c].fd \in Inodes
      BY DEF ClientTypes, Request
    <3>6. \A j \in Inodes : mtime[j] \in Nat /\ mtime[j] <= clock
      BY <1>5 DEF MtimesPast, TypeOK
    <3>7. MtimesPast'
      BY <1>5, <3>2, <3>6 DEF MtimesPast, TypeOK
    <3>8. ASSUME NEW c \in Clients PROVE CacheTrue(c)'
      <4>1. CASE cache[c].tag = NoTag
        BY <1>5, <4>1 DEF CacheTrue
      <4>2. CASE cache[c].tag # NoTag
        <5> DEFINE tag == cache[c].tag
        <5>1. /\ tag \in HierarchyTags /\ tag.inode \in Inodes
              /\ tag.mtime \in Nat /\ tag.mtime <= clock
          BY <4>2 DEF CacheTrue, HierarchyTags
        <5>2. CASE tag.inode = i
          BY <1>5, <3>2, <5>1, <5>2 DEF CacheTrue, TypeOK
        <5>3. CASE tag.inode # i
          BY <1>5, <3>1, <3>2, <5>1, <5>3 DEF CacheTrue, TypeOK
        <5> QED BY <5>2, <5>3
      <4> QED BY <4>1, <4>2
    <3> QED BY <1>5, <3>1, <3>2, <3>4, <3>5, <3>7, <3>8 DEF TypeOK
  <2>2. CASE UNCHANGED <<content, mtime, clock>>
    BY <1>5, <2>2 DEF MtimesPast, CacheTrue
  <2>3. ~UserWritesInPlace(q)
    BY DEF UserWritesInPlace, Undamaged, Disciplined
  <2> QED BY <1>1, <2>1, <2>2, <2>3 DEF UserRemoves, UserMoves, UserLinks
<1>7. \A c \in Clients :
         RequestTrue(c)' /\ seen'[c] \in SUBSET (Digests \cup {NoDigest})
  BY <1>2, <1>4, <1>5, <1>6, Undisturbed DEF diskVars
<1>8. ClientTypes'
  BY <1>5, <1>7 DEF ClientTypes, Observe
<1> QED BY <1>3, <1>6, <1>7, <1>8

-----------------------------------------------------------------------------
(* The steps of a request.                                                 *)

\* A step of client c leaves the requests and copies of the others alone.
LEMMA OthersServe ==
    ASSUME ClientInv, NEW c \in Clients, NEW r \in Request,
           req' = [req EXCEPT ![c] = r],
           \A d \in Clients \ {c} : cache'[d] = cache[d] /\ seen'[d] = seen[d],
           UNCHANGED vars,
           NEW d \in Clients \ {c}
    PROVE  RequestTrue(d)' /\ CacheTrue(d)'
<1>1. req'[d] = req[d] /\ cache'[d] = cache[d] /\ seen'[d] = seen[d]
  BY DEF ClientInv, ClientTypes
<1>2. RequestTrue(d)'
  BY <1>1 DEF ClientInv, RequestTrue, DescriptorTrue, AnswerTrue, Held, Tree,
     HierarchyTag, At, vars, userVars, diskVars
<1>3. CacheTrue(d)'
  BY <1>1 DEF ClientInv, CacheTrue, vars, userVars
<1> QED BY <1>2, <1>3

\* One request goes from r0 to r, and nothing else changes.
LEMMA ReadStep ==
    ASSUME ClientInv, NEW c \in Clients, NEW r \in Request,
           req' = [req EXCEPT ![c] = r], ReadsOnly(c), RequestTrue(c)'
    PROVE  ClientInv'
<1>1. \A d \in Clients \ {c} : RequestTrue(d)' /\ CacheTrue(d)'
  BY OthersServe DEF ReadsOnly
<1>2. CacheTrue(c)' /\ MtimesPast'
  BY DEF ClientInv, CacheTrue, MtimesPast, ReadsOnly, vars, userVars
<1>3. ClientTypes'
  BY DEF ClientInv, ClientTypes, ReadsOnly
<1> QED BY <1>1, <1>2, <1>3 DEF ClientInv

LEMMA FieldTypes ==
    ASSUME NEW r \in Request
    PROVE  /\ \A stage \in Stages : [r EXCEPT !.at = stage] \in Request
           /\ \A t \in Targets \cup {NoTarget} : [r EXCEPT !.target = t] \in Request
           /\ \A i \in Inodes : [r EXCEPT !.fd = i] \in Request
           /\ \A e \in Entry : [r EXCEPT !.found = e] \in Request
           /\ \A tag \in Tags \cup {NoTag} : [r EXCEPT !.tag = tag] \in Request
           /\ \A status \in {0, 200, 304, 404, 500} : [r EXCEPT !.status = status] \in Request
           /\ \A body \in Digests \cup {NoDigest} : [r EXCEPT !.body = body] \in Request
<1>1. \A stage \in Stages : [r EXCEPT !.at = stage] \in Request
  BY DEF Request
<1>2. \A t \in Targets \cup {NoTarget} : [r EXCEPT !.target = t] \in Request
  BY DEF Request
<1>3. \A i \in Inodes : [r EXCEPT !.fd = i] \in Request
  BY DEF Request
<1>4. \A tag \in Tags \cup {NoTag} : [r EXCEPT !.tag = tag] \in Request
  BY DEF Request
<1>5. \A status \in {0, 200, 304, 404, 500} : [r EXCEPT !.status = status] \in Request
  BY DEF Request
<1>6. \A body \in Digests \cup {NoDigest} : [r EXCEPT !.body = body] \in Request
  BY DEF Request
<1>7. \A e \in Entry : [r EXCEPT !.found = e] \in Request
  BY DEF Request
<1> QED BY <1>1, <1>2, <1>3, <1>4, <1>5, <1>6, <1>7

Answered(r, stage, target, status, body) ==
    [r EXCEPT !.at = stage, !.target = target, !.status = status, !.body = body]

Opened(r, stage, i) == [r EXCEPT !.at = stage, !.fd = i]

Found(r, stage, e) == [r EXCEPT !.at = stage, !.found = e]

Tagged(r, stage, tag) == [r EXCEPT !.at = stage, !.tag = tag]

LEMMA AnsweredFields ==
    ASSUME NEW r \in Request, NEW stage \in Stages,
           NEW target \in Targets \cup {NoTarget},
           NEW status \in {0, 200, 304, 404, 500}, NEW body \in Digests \cup {NoDigest}
    PROVE  LET s == Answered(r, stage, target, status, body)
           IN  /\ s \in Request
               /\ s.at = stage /\ s.target = target /\ s.fd = r.fd
               /\ s.status = status /\ s.body = body
<1> DEFINE s == [r EXCEPT !.at = stage, !.target = target, !.status = status,
                          !.body = body]
<1>1. s \in Request
  <2>1. \A x \in Request : [x EXCEPT !.at = stage] \in Request
    BY DEF Request
  <2>2. \A x \in Request : [x EXCEPT !.target = target] \in Request
    BY DEF Request
  <2>3. \A x \in Request : [x EXCEPT !.status = status] \in Request
    BY DEF Request
  <2>4. \A x \in Request : [x EXCEPT !.body = body] \in Request
    BY DEF Request
  <2> DEFINE a == [r EXCEPT !.at = stage]
             b == [a EXCEPT !.target = target]
             c == [b EXCEPT !.status = status]
             d == [c EXCEPT !.body = body]
  <2>5. s = d
    OBVIOUS
  <2>6. a \in Request
    BY <2>1
  <2> HIDE DEF a, s
  <2>7. b \in Request
    BY <2>2, <2>6
  <2> HIDE DEF b
  <2>8. c \in Request
    BY <2>3, <2>7
  <2> HIDE DEF c
  <2>9. d \in Request
    BY <2>4, <2>8
  <2> QED BY <2>5, <2>9
<1>2. s.at = stage
  BY DEF Request
<1>3. s.target = target
  BY DEF Request
<1>4. s.fd = r.fd
  BY DEF Request
<1>5. s.status = status
  BY DEF Request
<1>6. s.body = body
  BY DEF Request
<1> HIDE DEF s
<1>7. s = Answered(r, stage, target, status, body)
  BY DEF s, Answered
<1> QED BY <1>1, <1>2, <1>3, <1>4, <1>5, <1>6, <1>7

LEMMA OpenedFields ==
    ASSUME NEW r \in Request, NEW stage \in Stages, NEW i \in Inodes
    PROVE  LET s == Opened(r, stage, i)
           IN  /\ s \in Request
               /\ s.at = stage /\ s.fd = i
               /\ s.target = r.target /\ s.cond = r.cond
<1> DEFINE s == [r EXCEPT !.at = stage, !.fd = i]
<1>1. s \in Request
  <2>1. [r EXCEPT !.at = stage] \in Request
    BY FieldTypes
  <2> QED BY <2>1, FieldTypes
<1>2. s.at = stage
  BY DEF Request
<1>3. s.fd = i
  BY DEF Request
<1>4. s.target = r.target
  BY DEF Request
<1>5. s.cond = r.cond
  BY DEF Request
<1> HIDE DEF s
<1>6. s = Opened(r, stage, i)
  BY DEF s, Opened
<1> QED BY <1>1, <1>2, <1>3, <1>4, <1>5, <1>6

LEMMA FoundFields ==
    ASSUME NEW r \in Request, NEW stage \in Stages, NEW e \in Entry
    PROVE  LET s == Found(r, stage, e)
           IN  /\ s \in Request
               /\ s.at = stage /\ s.found = e
               /\ s.fd = r.fd
               /\ s.target = r.target /\ s.cond = r.cond
<1> DEFINE s == [r EXCEPT !.at = stage, !.found = e]
<1>1. s \in Request
  <2>1. [r EXCEPT !.at = stage] \in Request
    BY FieldTypes
  <2> QED BY <2>1, FieldTypes
<1>2. s.at = stage
  BY DEF Request
<1>3. s.found = e
  BY DEF Request
<1>4. s.fd = r.fd
  BY DEF Request
<1>5. s.target = r.target
  BY DEF Request
<1>6. s.cond = r.cond
  BY DEF Request
<1> HIDE DEF s
<1>7. s = Found(r, stage, e)
  BY DEF s, Found
<1> QED BY <1>1, <1>2, <1>3, <1>4, <1>5, <1>6, <1>7

LEMMA TaggedFields ==
    ASSUME NEW r \in Request, NEW stage \in Stages, NEW tag \in Tags
    PROVE  LET s == Tagged(r, stage, tag)
           IN  /\ s \in Request
               /\ s.at = stage /\ s.tag = tag
               /\ s.fd = r.fd
               /\ s.target = r.target /\ s.cond = r.cond
<1> DEFINE s == [r EXCEPT !.at = stage, !.tag = tag]
<1>1. s \in Request
  <2>1. [r EXCEPT !.at = stage] \in Request
    BY FieldTypes
  <2> QED BY <2>1, FieldTypes
<1>2. s.at = stage
  BY DEF Request
<1>3. s.tag = tag
  BY DEF Request
<1>4. s.fd = r.fd
  BY DEF Request
<1>5. s.target = r.target
  BY DEF Request
<1>6. s.cond = r.cond
  BY DEF Request
<1> HIDE DEF s
<1>7. s = Tagged(r, stage, tag)
  BY DEF s, Tagged
<1> QED BY <1>1, <1>2, <1>3, <1>4, <1>5, <1>6, <1>7

LEMMA IdleFields == Idle \in Request /\ Idle.fd = NoInode
BY DEF Idle, Request, Stages

LEMMA AnswerRecord ==
    ASSUME ClientTypes, NEW c \in Clients, NEW status \in {200, 304, 404, 500},
           NEW body \in Digests \cup {NoDigest}, Answer(c, status, body)
    PROVE  /\ req'[c] \in Request /\ req' = [req EXCEPT ![c] = req'[c]]
           /\ req'[c].at = "answered" /\ req'[c].target = req[c].target
           /\ req'[c].fd = NoInode
           /\ req'[c].status = status /\ req'[c].body = body
<1>1. /\ req'[c] = Answered(Idle, "answered", req[c].target, status, body)
      /\ req' = [req EXCEPT ![c] = req'[c]]
  <2>1. req' = [req EXCEPT ![c] = Answered(Idle, "answered", req[c].target, status, body)]
    BY DEF Answer, Answered
  <2> QED BY <2>1 DEF ClientTypes
<1>2. req[c].target \in Targets \cup {NoTarget}
  BY DEF ClientTypes, Request
<1>3. "answered" \in Stages /\ status \in {0, 200, 304, 404, 500}
  BY DEF Stages
<1>4. /\ req'[c] \in Request
      /\ req'[c].at = "answered" /\ req'[c].target = req[c].target
      /\ req'[c].fd = Idle.fd
      /\ req'[c].status = status /\ req'[c].body = body
  <2> DEFINE target == req[c].target
             s == Answered(Idle, "answered", target, status, body)
  <2>1. target \in Targets \cup {NoTarget} /\ req'[c] = s
    BY <1>1, <1>2
  <2> HIDE DEF target
  <2>2. /\ s \in Request
        /\ s.at = "answered" /\ s.target = target /\ s.fd = Idle.fd
        /\ s.status = status /\ s.body = body
    BY <2>1, <1>3, IdleFields, AnsweredFields
  <2> HIDE DEF s
  <2>3. /\ req'[c] \in Request
        /\ req'[c].at = "answered" /\ req'[c].target = target
        /\ req'[c].fd = Idle.fd
        /\ req'[c].status = status /\ req'[c].body = body
    BY <2>1, <2>2
  <2> QED BY <2>3 DEF target
<1> QED BY <1>1, <1>4, IdleFields

\* An answer that is true of what was seen keeps the invariant.
LEMMA AnswerStep ==
    ASSUME ClientInv, NEW c \in Clients, NEW status \in {304, 404, 500},
           Answer(c, status, NoDigest), ReadsOnly(c),
           status = 304 => cache[c].body \in seen[c],
           status \in {404, 500} => NoDigest \in seen[c],
           status = 500 => req[c].target \in Digests /\ req[c].target \in seen[c]
    PROVE  ClientInv'
<1>1. /\ req'[c] \in Request /\ req' = [req EXCEPT ![c] = req'[c]]
      /\ req'[c].at = "answered" /\ req'[c].target = req[c].target
      /\ req'[c].fd = NoInode /\ req'[c].status = status
  BY AnswerRecord DEF ClientInv
<1>2. RequestTrue(c)
  BY DEF ClientInv
<1>3. RequestTrue(c)'
  BY <1>1, <1>2 DEF RequestTrue, AnswerTrue, At, ReadsOnly
<1> QED BY <1>1, <1>3, ReadStep

LEMMA SendServe ==
    ASSUME ServeInv, NEW c \in Clients, NEW t \in Targets, Send(c, t)
    PROVE  ClientInv'
<1> USE DEF ServeInv
<1> USE ServeSentinels, Sentinels
<1>1. PICK cond \in {NoTag, Kept(c, t)} :
         req' = [req EXCEPT ![c] =
                   [Idle EXCEPT !.at = IF t \in Paths THEN "canonicalize" ELSE "list",
                                !.target = t, !.cond = cond]]
  BY DEF Send
<1> DEFINE r == req'[c]
<1>2. /\ r.at = IF t \in Paths THEN "canonicalize" ELSE "list"
      /\ r.target = t /\ r.cond = cond /\ r.fd = NoInode
      /\ r.found = NoEntry /\ r.tag = NoTag /\ r.status = 0 /\ r.body = NoDigest
      /\ req' = [req EXCEPT ![c] = r]
  BY <1>1 DEF ClientInv, ClientTypes, Idle
<1>3. cond = NoTag \/ (cond = cache[c].tag /\ t \in Paths)
  <2>1. cache[c].target \in Paths \cup {NoTarget}
    BY DEF ClientInv, CacheTrue
  <2> QED BY <2>1 DEF Kept, Targets
<1>4. r \in Request
  <2>1. cond \in Tags \cup {NoTag}
    BY <1>3 DEF ClientInv, ClientTypes
  <2>2. r = [Idle EXCEPT !.at = IF t \in Paths THEN "canonicalize" ELSE "list",
                         !.target = t, !.cond = cond]
    BY <1>1 DEF ClientInv, ClientTypes
  <2>3. r = [at |-> IF t \in Paths THEN "canonicalize" ELSE "list",
             target |-> t, cond |-> cond, found |-> NoEntry, fd |-> NoInode,
             tag |-> NoTag, status |-> 0, body |-> NoDigest]
    BY <2>2 DEF Idle
  <2> QED BY <2>1, <2>3 DEF Request, Stages
<1>5. Held[t] \in Digests \cup {NoDigest}
  BY HeldIsValue DEF Inv, TypeInv
<1>6. /\ seen' = [seen EXCEPT ![c] = {Held[t]}] /\ seen'[c] = {Held[t]}
      /\ UNCHANGED <<vars, cache>>
  BY DEF Send, ClientInv, ClientTypes
<1>7. Held' = Held
  BY <1>6 DEF Held, Tree, vars, userVars, diskVars
<1>8. t \in Digests => Held[t] \in {t, NoDigest}
  BY DEF Held, Targets
<1>9. RequestTrue(c)'
  BY <1>2, <1>3, <1>6, <1>7, <1>8 DEF RequestTrue, At, Targets
<1>10. \A d \in Clients \ {c} : RequestTrue(d)' /\ CacheTrue(d)'
  <2>1. \A d \in Clients \ {c} : cache'[d] = cache[d] /\ seen'[d] = seen[d]
    BY <1>6 DEF ClientInv, ClientTypes
  <2> QED BY <1>2, <1>4, <1>6, <2>1, OthersServe
<1>11. CacheTrue(c)' /\ MtimesPast'
  BY <1>6 DEF ClientInv, CacheTrue, MtimesPast, vars, userVars
<1>12. ClientTypes'
  BY <1>2, <1>4, <1>5, <1>6 DEF ClientInv, ClientTypes
<1> QED BY <1>9, <1>10, <1>11, <1>12 DEF ClientInv

LEMMA HierarchyServe ==
    ASSUME ServeInv, NEW c \in Clients, HierarchyRoute(c)
    PROVE  ClientInv'
<1> USE DEF ServeInv
<1> USE ServeSentinels, Sentinels
<1>1. /\ req[c].target \in Paths /\ req[c].at \notin {"idle", "answered", "fstat", "respond"}
      /\ RequestTrue(c) /\ req[c] \in Request /\ ReadsOnly(c)
      /\ Held[req[c].target] \in seen[c]
  BY DEF HierarchyRoute, Canonicalize, Stat, OpenPath, ClientInv, RequestTrue,
     At, ClientTypes
<1>2. Held[req[c].target] = IF visible[req[c].target] = NoInode THEN NoDigest
                            ELSE content[visible[req[c].target]]
  BY <1>1 DEF Held, Tree, Targets
<1>3. Held' = Held
  BY <1>1 DEF Held, Tree, ReadsOnly, vars, userVars, diskVars
<1>4. CASE visible[req[c].target] = NoInode /\ Answer(c, 404, NoDigest)
  BY <1>1, <1>2, <1>4, AnswerStep
<1>5. ASSUME NEW stage \in {"stat", "open"}, Goes(c, stage)
      PROVE  ClientInv'
  <2>1. /\ req'[c] = [req[c] EXCEPT !.at = stage] /\ req'[c] \in Request
        /\ req' = [req EXCEPT ![c] = req'[c]]
    BY <1>1, <1>5 DEF Goes, ClientInv, ClientTypes, Request, Stages
  <2>2. RequestTrue(c)'
    BY <1>1, <1>3, <2>1 DEF RequestTrue, At, Request, ReadsOnly
  <2> QED BY <1>1, <2>1, <2>2, ReadStep
<1>6. ASSUME visible[req[c].target] # NoInode, Opens(c, visible[req[c].target])
      PROVE  ClientInv'
  <2> DEFINE i == visible[req[c].target]
  <2>1. i \in Inodes
    BY <1>1, <1>6 DEF Inv, TypeInv, TypeOK
  <2> DEFINE r == req'[c]
  <2>2. r = Opened(req[c], "fstat", i) /\ req' = [req EXCEPT ![c] = r]
    <3>1. r = [req[c] EXCEPT !.at = "fstat", !.fd = i] /\ req' = [req EXCEPT ![c] = r]
      BY <1>6 DEF Opens, ClientInv, ClientTypes
    <3> QED BY <3>1 DEF Opened
  <2>3. /\ r \in Request /\ r.at = "fstat" /\ r.fd = i
        /\ r.target = req[c].target /\ r.cond = req[c].cond
    <3>1. "fstat" \in Stages /\ req[c] \in Request
      BY <1>1 DEF Stages
    <3> QED BY <2>1, <2>2, <3>1, OpenedFields
  <2>4. UNCHANGED <<content, seen, cache>>
    BY <1>1 DEF ReadsOnly, vars, userVars
  <2>5. content[i] \in seen[c]
    BY <1>1, <1>2, <1>6
  <2>6. DescriptorTrue(c)'
    BY <1>1, <2>1, <2>2, <2>3, <2>4, <2>5 DEF RequestTrue, DescriptorTrue
  <2>7. RequestTrue(c)'
    BY <1>1, <1>3, <2>1, <2>2, <2>3, <2>4, <2>6 DEF RequestTrue, At
  <2> QED BY <1>1, <2>2, <2>3, <2>7, ReadStep
<1> QED BY <1>4, <1>5, <1>6 DEF HierarchyRoute, Canonicalize, Stat, OpenPath

\* A digest that went away between the listing and the open was seen to.
LEMMA DigestServe ==
    ASSUME ServeInv, NEW c \in Clients, DigestRoute(c)
    PROVE  ClientInv'
<1> USE DEF ServeInv
<1> USE ServeSentinels, Sentinels
<1> DEFINE t == req[c].target
<1>1. /\ t \in Digests /\ t \in Targets /\ RequestTrue(c) /\ req[c] \in Request
      /\ ReadsOnly(c) /\ Held[t] \in seen[c]
      /\ req[c].at \in {"list", "openObject"}
  BY DEF DigestRoute, ListShard, OpenObject, ClientInv, RequestTrue, At,
     ClientTypes, Targets
<1>2. Held[t] = IF \E e \in entries : e.digest = t THEN t ELSE NoDigest
  BY <1>1 DEF Held
<1>3. Held' = Held /\ UNCHANGED <<content, entries, seen, cache>>
  BY <1>1 DEF Held, Tree, ReadsOnly, vars, userVars, diskVars
<1>4. CASE ListShard(c)
  <2>1. ASSUME NEW e \in ShardMatches(t),
               req' = [req EXCEPT ![c].at = "openObject", ![c].found = e]
        PROVE  ClientInv'
    <3>1. e \in Entry /\ e \in entries /\ e.digest = t
      BY <2>1 DEF ShardMatches, Inv, TypeInv, TypeOK
    <3> DEFINE r == req'[c]
    <3>2. r = Found(req[c], "openObject", e) /\ req' = [req EXCEPT ![c] = r]
      <4>1. /\ r = [req[c] EXCEPT !.at = "openObject", !.found = e]
            /\ req' = [req EXCEPT ![c] = r]
        BY <2>1 DEF ClientInv, ClientTypes
      <4> QED BY <4>1 DEF Found
    <3>3. /\ r \in Request /\ r.at = "openObject" /\ r.found = e
          /\ r.fd = req[c].fd /\ r.target = t /\ r.cond = req[c].cond
      <4>1. "openObject" \in Stages
        BY DEF Stages
      <4> QED BY <1>1, <3>1, <3>2, <4>1, FoundFields
    <3>4. t \in seen[c]
      BY <1>1, <1>2, <3>1
    <3>5. req[c].fd = NoInode
      BY <1>1 DEF RequestTrue
    <3>6. RequestTrue(c)'
      BY <1>1, <1>3, <3>1, <3>3, <3>4, <3>5 DEF RequestTrue, At
    <3> QED BY <1>1, <3>2, <3>3, <3>6, ReadStep
  <2>2. ASSUME Cardinality(ShardMatches(t)) # 1,
               Answer(c, IF ShardMatches(t) = {} THEN 404 ELSE 500, NoDigest)
        PROVE  ClientInv'
    <3>1. ShardMatches(t) = {} /\ Answer(c, 404, NoDigest)
      BY <2>2, OneEntry DEF UniqueInv
    <3>2. NoDigest \in seen[c]
      BY <1>1, <1>2, <3>1 DEF ShardMatches
    <3> QED BY <1>1, <3>1, <3>2, AnswerStep
  <2> QED BY <1>4, <2>1, <2>2 DEF ListShard
<1>5. CASE OpenObject(c)
  <2>1. /\ req[c].found \in Entry /\ req[c].found.digest = t /\ t \in seen[c]
        /\ req[c].found \notin entries => NoDigest \in seen[c]
    BY <1>1, <1>5 DEF RequestTrue, OpenObject
  <2>2. CASE req[c].found \notin entries /\ Answer(c, 500, NoDigest)
    BY <1>1, <2>1, <2>2, AnswerStep
  <2>3. CASE req[c].found \in entries /\ Opens(c, req[c].found.inode)
    <3> DEFINE i == req[c].found.inode
               r == req'[c]
    <3>1. i \in Inodes /\ content[i] = t
      BY <2>1, <2>3 DEF Entry, Inv, ContentInv, EntriesTrue
    <3>2. r = Opened(req[c], "fstat", i) /\ req' = [req EXCEPT ![c] = r]
      <4>1. r = [req[c] EXCEPT !.at = "fstat", !.fd = i] /\ req' = [req EXCEPT ![c] = r]
        BY <2>3 DEF Opens, ClientInv, ClientTypes
      <4> QED BY <4>1 DEF Opened
    <3>3. /\ r \in Request /\ r.at = "fstat" /\ r.fd = i
          /\ r.target = t /\ r.cond = req[c].cond
      <4>1. "fstat" \in Stages
        BY DEF Stages
      <4> QED BY <1>1, <3>1, <3>2, <4>1, OpenedFields
    <3>4. DescriptorTrue(c)'
      BY <1>1, <1>3, <2>1, <3>1, <3>3 DEF DescriptorTrue
    <3>5. RequestTrue(c)'
      BY <1>1, <1>3, <3>1, <3>3, <3>4 DEF RequestTrue, At
    <3> QED BY <1>1, <3>2, <3>3, <3>5, ReadStep
  <2> QED BY <1>5, <2>2, <2>3 DEF OpenObject
<1> QED BY <1>4, <1>5 DEF DigestRoute

\* A weak tag names the bytes of the copy kept under it.
LEMMA TagInv ==
    ASSUME ServeInv, NEW c \in Clients, NEW other \in Clients,
           At(c, "respond"), req[c].tag = cache[other].tag
    PROVE  req[c].target \in Paths /\ content[req[c].fd] = cache[other].body
<1> USE DEF ServeInv, ClientInv
<1> USE ServeSentinels
<1>1. /\ req[c].fd \in Inodes /\ req[c].target \in Targets
      /\ req[c].tag = IF req[c].target \in Paths THEN HierarchyTag(req[c].fd)
                      ELSE req[c].target
  BY DEF RequestTrue, DescriptorTrue, At
<1>2. cache[other].tag # NoTag => cache[other].tag \in HierarchyTags
  BY DEF CacheTrue
<1>3. HierarchyTag(req[c].fd) \in HierarchyTags
  BY <1>1 DEF HierarchyTag, HierarchyTags, Inv, TypeInv, TypeOK
<1>4. req[c].target \in Paths /\ cache[other].tag = HierarchyTag(req[c].fd)
      /\ cache[other].tag # NoTag
  BY <1>1, <1>2, <1>3 DEF Targets
<1>5. LET tag == cache[other].tag
      IN  mtime[tag.inode] = tag.mtime => content[tag.inode] = cache[other].body
  BY <1>4 DEF CacheTrue
<1> QED BY <1>4, <1>5 DEF HierarchyTag

LEMMA RespondServe ==
    ASSUME ServeInv, NEW c \in Clients, RespondStep(c)
    PROVE  ClientInv'
<1> USE DEF ServeInv
<1> USE ServeSentinels, Sentinels
<1> DEFINE t == req[c].target
           i == req[c].fd
           r == req'[c]
<1>1. /\ req[c].at \in {"fstat", "respond"} /\ RequestTrue(c)
      /\ req[c] \in Request /\ UNCHANGED <<vars, seen>>
      /\ DescriptorTrue(c) /\ t \in Targets
      /\ req[c].cond = NoTag \/ (req[c].cond = cache[c].tag /\ t \in Paths)
  BY DEF RespondStep, Fstat, RespondNotModified, SendBody, ReadsOnly, ClientInv,
     ClientTypes, RequestTrue, At
<1>2. Held' = Held /\ UNCHANGED <<content, entries, mtime, clock, seen>>
  BY <1>1 DEF Held, Tree, vars, userVars, diskVars
<1>3. CASE Fstat(c)
  <2> DEFINE tag == IF t \in Paths THEN HierarchyTag(i) ELSE t
  <2>1. tag \in Tags
    BY <1>1 DEF DescriptorTrue, HierarchyTag, HierarchyTags, Tags, Targets,
       Inv, TypeInv, TypeOK
  <2> HIDE DEF tag
  <2>2. r = Tagged(req[c], "respond", tag) /\ req' = [req EXCEPT ![c] = r]
    <3>1. r = [req[c] EXCEPT !.at = "respond", !.tag = tag] /\ req' = [req EXCEPT ![c] = r]
      BY <1>3 DEF Fstat, ClientInv, ClientTypes, tag
    <3> QED BY <3>1 DEF Tagged
  <2>3. /\ r \in Request /\ r.at = "respond" /\ r.tag = tag
        /\ r.fd = i /\ r.target = t /\ r.cond = req[c].cond
    <3>1. "respond" \in Stages
      BY DEF Stages
    <3> QED BY <1>1, <2>1, <2>2, <3>1, TaggedFields
  <2>4. cache' = cache /\ ReadsOnly(c)
    BY <1>3 DEF Fstat, ReadsOnly
  <2>5. DescriptorTrue(c)'
    BY <1>1, <1>2, <2>3 DEF DescriptorTrue
  <2>6. r.tag = IF t \in Paths THEN [inode |-> r.fd, mtime |-> mtime'[r.fd]] ELSE t
    BY <1>2, <2>3 DEF tag, HierarchyTag
  <2>7. RequestTrue(c)'
    BY <1>1, <1>2, <2>3, <2>4, <2>5, <2>6 DEF RequestTrue, At, HierarchyTag
  <2> QED BY <2>2, <2>3, <2>4, <2>7, ReadStep
<1>4. CASE RespondNotModified(c)
  <2>1. /\ At(c, "respond") /\ req[c].cond = req[c].tag
        /\ Answer(c, 304, NoDigest) /\ ReadsOnly(c)
    BY <1>4 DEF RespondNotModified
  <2>2. req[c].tag # NoTag
    <3>1. HierarchyTag(i) \in HierarchyTags
      BY <1>1 DEF DescriptorTrue, HierarchyTag, HierarchyTags, Inv, TypeInv, TypeOK
    <3> QED BY <1>1, <2>1, <3>1 DEF RequestTrue, Targets
  <2>3. req[c].tag = cache[c].tag
    BY <1>1, <2>1, <2>2
  <2>4. content[i] = cache[c].body
    BY <2>1, <2>3, TagInv
  <2>5. cache[c].body \in seen[c]
    BY <1>1, <2>4 DEF DescriptorTrue
  <2> QED BY <2>1, <2>5, AnswerStep
<1>5. CASE SendBody(c)
  <2> DEFINE copy == IF t \in Digests THEN cache[c]
                     ELSE [target |-> t, tag |-> req[c].tag, body |-> content[i]]
  <2>1. /\ At(c, "respond") /\ Answer(c, 200, content[i])
        /\ cache' = [cache EXCEPT ![c] = copy]
    BY <1>5 DEF SendBody, BodyFile, ClientInv, ClientTypes
  <2>2. content[i] \in Digests \cup {NoDigest} /\ content[i] \in seen[c]
    BY <1>1 DEF DescriptorTrue, ClientInv, ClientTypes
  <2>3. /\ r \in Request /\ req' = [req EXCEPT ![c] = r]
        /\ r.at = "answered" /\ r.target = t /\ r.fd = NoInode
        /\ r.status = 200 /\ r.body = content[i]
    BY <2>1, <2>2, AnswerRecord DEF ClientInv
  <2>4. cache'[c] = copy /\ \A d \in Clients \ {c} : cache'[d] = cache[d] /\ seen'[d] = seen[d]
    BY <1>2, <2>1 DEF ClientInv, ClientTypes
  <2>5. RequestTrue(c)'
    BY <1>1, <1>2, <2>2, <2>3 DEF RequestTrue, AnswerTrue, At
  <2>6. t \in Paths => req[c].tag = HierarchyTag(i)
    BY <1>1, <2>1 DEF RequestTrue
  <2>7. CacheTrue(c)'
    <3>1. CASE t \in Digests
      BY <1>2, <2>4, <3>1 DEF ClientInv, CacheTrue
    <3>2. CASE t \notin Digests
      <4>1. t \in Paths
        BY <1>1, <3>2 DEF Targets
      <4>2. /\ cache'[c].target = t /\ cache'[c].tag = HierarchyTag(i)
            /\ cache'[c].body = content[i]
        BY <2>4, <2>6, <3>2, <4>1
      <4>3. /\ HierarchyTag(i) \in HierarchyTags
            /\ HierarchyTag(i).inode = i /\ HierarchyTag(i).mtime = mtime[i]
            /\ mtime[i] <= clock
        BY <1>1 DEF DescriptorTrue, HierarchyTag, HierarchyTags, Inv, TypeInv,
           TypeOK, ClientInv, MtimesPast
      <4> QED BY <1>2, <4>1, <4>2, <4>3 DEF CacheTrue
    <3> QED BY <3>1, <3>2
  <2>8. copy \in [target : Targets \cup {NoTarget}, tag : Tags \cup {NoTag},
                  body : Digests \cup {NoDigest}]
    <3>1. req[c].tag \in Tags \cup {NoTag}
      BY <1>1 DEF Request
    <3> QED BY <1>1, <2>2, <3>1 DEF ClientInv, ClientTypes
  <2>9. ClientTypes'
    BY <1>2, <2>1, <2>3, <2>8 DEF ClientInv, ClientTypes
  <2>10. \A d \in Clients \ {c} : RequestTrue(d)' /\ CacheTrue(d)'
    BY <1>1, <2>3, <2>4, OthersServe
  <2>11. MtimesPast'
    BY <1>2 DEF ClientInv, MtimesPast
  <2> QED BY <2>5, <2>7, <2>9, <2>10, <2>11 DEF ClientInv
<1> QED BY <1>3, <1>4, <1>5 DEF RespondStep

LEMMA ReceiveServe ==
    ASSUME ServeInv, NEW c \in Clients, Receive(c)
    PROVE  ClientInv'
<1> USE DEF ServeInv
<1> USE ServeSentinels
<1>1. /\ req' = [req EXCEPT ![c] = Idle] /\ req'[c] = Idle
      /\ seen' = [seen EXCEPT ![c] = {}] /\ seen'[c] = {}
      /\ UNCHANGED <<vars, cache>>
  BY DEF Receive, ClientInv, ClientTypes
<1>2. RequestTrue(c)'
  BY <1>1 DEF RequestTrue, At, Idle, Targets
<1>3. \A d \in Clients \ {c} : RequestTrue(d)' /\ CacheTrue(d)'
  <2>1. \A d \in Clients \ {c} : cache'[d] = cache[d] /\ seen'[d] = seen[d]
    BY <1>1 DEF ClientInv, ClientTypes
  <2> QED BY <1>1, <2>1, IdleFields, OthersServe
<1>4. CacheTrue(c)' /\ MtimesPast'
  BY <1>1 DEF ClientInv, CacheTrue, MtimesPast, vars, userVars
<1>5. ClientTypes'
  BY <1>1, IdleFields DEF ClientInv, ClientTypes
<1> QED BY <1>2, <1>3, <1>4, <1>5 DEF ClientInv

LEMMA ServeInvStep ==
    ASSUME Undamaged
    PROVE  ServeInv /\ [ServeNext]_serveVars => ServeInv'
<1> SUFFICES ASSUME ServeInv, [ServeNext]_serveVars PROVE ServeInv'
  OBVIOUS
<1>1. Inv'
  BY ServeStepReads, InvStep DEF ServeInv, Undamaged
<1>2. CASE IndexStep
  BY <1>1, <1>2, IndexStepServe DEF ServeInv
<1>3. CASE OwnerStep
  BY <1>1, <1>3, OwnerStepServe DEF ServeInv
<1>4. ASSUME NEW c \in Clients,
             \/ \E t \in Targets : Send(c, t)
             \/ HierarchyRoute(c) \/ DigestRoute(c) \/ RespondStep(c)
             \/ Receive(c)
      PROVE  UniqueInv' /\ ClientInv'
  <2>1. ClientInv'
    BY <1>4, SendServe, HierarchyServe, DigestServe, RespondServe, ReceiveServe
  <2>2. UNCHANGED vars
    BY <1>4 DEF Send, HierarchyRoute, Canonicalize, Stat, OpenPath, DigestRoute,
       ListShard, OpenObject, RespondStep, Fstat, RespondNotModified, SendBody,
       Receive, ReadsOnly
  <2>3. UniqueInv'
    BY <2>2 DEF ServeInv, UniqueInv, DigestsUnique, EntriesIndexed, vars,
       diskVars, procVars
  <2> QED BY <2>1, <2>3
<1>5. CASE UNCHANGED serveVars
  BY <1>1, <1>5 DEF serveVars, vars, userVars, diskVars, procVars, ServeInv,
     UniqueInv, DigestsUnique, EntriesIndexed, ClientInv, ClientTypes, MtimesPast,
     RequestTrue, DescriptorTrue, AnswerTrue, CacheTrue, Held, Tree, HierarchyTag, At
<1> QED BY <1>1, <1>2, <1>3, <1>4, <1>5 DEF ServeNext, ServeInv

LEMMA ServeInvAlways ==
    ASSUME Undamaged
    PROVE  ServeSpec => []ServeInv
<1>1. ServeInit => ServeInv
  BY InitServeInv
<1> QED BY <1>1, ServeInvStep, PTL DEF ServeSpec

\* Requests, copies and what was seen keep their types, and a descriptor is
\* open exactly while a response needs it.
THEOREM ServeTypeCorrect ==
    ASSUME Undamaged
    PROVE  ServeSpec => []ServeTypeOK
<1>1. ServeInv => ServeTypeOK
  BY DEF ServeInv, Inv, TypeInv, ClientInv, ClientTypes, RequestTrue, ServeTypeOK
<1> QED BY <1>1, ServeInvAlways, PTL

\* For any number of clients, paths, inodes and index runs: each answer is one
\* that an atomic reader could have had while the request was under way.
THEOREM ServeLinearizable ==
    ASSUME Undamaged
    PROVE  ServeSpec => []AnswersLinearizable
<1>1. ServeInv => AnswersLinearizable
  <2> SUFFICES ASSUME ServeInv, NEW c \in Clients, At(c, "answered")
               PROVE  CASE req[c].status = 200 -> req[c].body \in seen[c]
                        [] req[c].status = 304 -> cache[c].body \in seen[c]
                        [] req[c].status \in {404, 500} -> NoDigest \in seen[c]
    BY DEF AnswersLinearizable
  <2>1. AnswerTrue(c)
    BY DEF ServeInv, ClientInv, RequestTrue
  <2>2. CASE req[c].status = 200
    BY <2>1, <2>2 DEF AnswerTrue
  <2>3. CASE req[c].status = 304
    BY <2>1, <2>3 DEF AnswerTrue
  <2>4. CASE req[c].status \in {404, 500}
    BY <2>1, <2>4 DEF AnswerTrue
  <2> QED BY <2>1, <2>2, <2>3, <2>4 DEF AnswerTrue
<1> QED BY <1>1, ServeInvAlways, PTL

\* 500 only answers a digest that a prune took away between listing and open.
THEOREM ServeErrorsNeedRemoval ==
    ASSUME Undamaged
    PROVE  ServeSpec => []ErrorsNeedRemoval
<1>1. ServeInv => ErrorsNeedRemoval
  BY DEF ServeInv, ClientInv, RequestTrue, AnswerTrue, ErrorsNeedRemoval
<1> QED BY <1>1, ServeInvAlways, PTL

\* A weak tag never names two sequences of bytes, at whatever path and for
\* whichever client, although inode numbers are reused.
THEOREM TagsNameBytes ==
    ASSUME Undamaged
    PROVE  ServeSpec => []TagNamesBytes
<1>1. ServeInv => TagNamesBytes
  BY TagInv DEF TagNamesBytes, BodyFile
<1> QED BY <1>1, ServeInvAlways, PTL
=============================================================================

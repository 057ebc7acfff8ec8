------------------------------ MODULE PcasIndex ------------------------------
(***************************************************************************)
(* `pcas index`: the transaction index_root runs over a root directory,    *)
(* one action per file-system call, interleaved with the owner of the      *)
(* visible tree, other `pcas index` processes and crashes.                 *)
(*                                                                         *)
(* A digest stands for the bytes that hash to it (SHA-256 is taken to be   *)
(* collision free).  The file system is a set of inodes, each with its     *)
(* content and its mtime, and three kinds of hard links to them: visible   *)
(* paths, object entries .pcas/sha256/<xx>/<digest>--<ts>, and staged      *)
(* links in .pcas/tmp.  Suffixes, shards and directories are left out.     *)
(***************************************************************************)
EXTENDS Naturals, FiniteSets

CONSTANTS
    Procs,     \* processes that may run `pcas index`
    Paths,     \* visible paths under the root, .pcas excluded
    Inodes,    \* inodes of the file system that holds the root
    Digests,   \* SHA-256 digests, each standing for the bytes behind it
    NoProc,    \* nobody holds .pcas/index.lock
    NoPath,    \* no visible path is being reconciled
    NoInode,   \* what an absent path refers to
    NoDigest,  \* no digest
    NoEntry    \* no object entry

CONSTANTS
    MaxClock,            \* bound: how many writes the owner makes in all
    MtimeLag,            \* how far behind its write an mtime may be (0: honest)
    UserWhileIndexing,   \* does the owner touch the tree during a run?
    InPlaceWrites,       \* does the owner write files in place?
    Faults,              \* calls that may fail: subset of FaultKinds
    Crashes              \* may a process die in the middle of a run?

FaultKinds == {"link", "rename", "unlink", "stat"}

ASSUME SentinelAssumption ==
    /\ NoProc \notin Procs /\ NoPath \notin Paths
    /\ NoInode \notin Inodes /\ NoDigest \notin Digests
    /\ NoEntry \notin [digest : Digests, ts : 0..MaxClock, inode : Inodes]

ASSUME ModelAssumption ==
    /\ IsFiniteSet(Paths)
    /\ MaxClock \in Nat /\ MtimeLag \in Nat
    /\ {UserWhileIndexing, InPlaceWrites, Crashes} \subseteq BOOLEAN
    /\ Faults \subseteq FaultKinds

VARIABLES
    visible,   \* what each visible path is a link to
    content,   \* the bytes of each inode
    mtime,     \* the mtime of each inode
    entries,   \* the object entries on disk
    tmp,       \* the links staged in .pcas/tmp
    clock,     \* the wall clock: it ticks at every write of the owner
    lock,      \* who holds .pcas/index.lock
    pc,        \* where each process stands in index_root
    opts,      \* its command line: --rehash, and the paths PATTERN matches
    index,     \* its ObjectIndex: records (by_digest) and inodes (by_inode)
    queue,     \* selected visible paths it has not reconciled yet
    pending,   \* records its retained pass, then its prune, has yet to visit
    verified,  \* the inodes it hashed or trusted through a visible path
    job,       \* what it knows of the one path or object it is working on
    failed     \* has it recorded a path-local failure?

userVars == <<visible, content, mtime, clock>>
diskVars == <<entries, tmp>>
procVars == <<pc, opts, index, queue, pending, verified, job, failed>>
vars     == <<userVars, diskVars, lock, procVars>>

-----------------------------------------------------------------------------
(* Data *)

\* An object entry: its packed name (digest and index time) and the inode it
\* links.  An ObjectRecord is the same triple, held in memory: its path is the
\* name.  Real index times are nanoseconds, so no two entries share a name.
Entry == [digest : Digests, ts : 0..MaxClock, inode : Inodes]

Labels == {"idle", "clean", "scan", "discover", "visit", "hash", "apply",
           "create", "rename", "drop", "stage", "swap", "verify",
           "retain", "settle", "prune", "unlink", "done"}

Options == [rehash : BOOLEAN, select : SUBSET Paths]

ObjectIndex == [records : SUBSET Entry,
                inodes : [Inodes -> Digests \cup {NoDigest}]]

\* The path being reconciled (none in the retained pass and in prune), what
\* its hash came to, the object entry operated on, the index time taken.
Job == [path : Paths \cup {NoPath}, digest : Digests \cup {NoDigest},
        inode : Inodes \cup {NoInode}, entry : Entry \cup {NoEntry},
        ts : 0..MaxClock]

NoOpts  == [rehash |-> FALSE, select |-> {}]
NoIndex == [records |-> {}, inodes |-> [i \in Inodes |-> NoDigest]]
NoJob   == [path |-> NoPath, digest |-> NoDigest, inode |-> NoInode,
            entry |-> NoEntry, ts |-> 0]

TypeOK ==
    /\ visible \in [Paths -> Inodes \cup {NoInode}]
    /\ content \in [Inodes -> Digests]
    /\ mtime \in [Inodes -> 0..MaxClock]
    /\ entries \subseteq Entry
    /\ tmp \subseteq [path : Paths, inode : Inodes]
    /\ clock \in 0..MaxClock
    /\ lock \in Procs \cup {NoProc}
    /\ pc \in [Procs -> Labels]
    /\ opts \in [Procs -> Options]
    /\ index \in [Procs -> ObjectIndex]
    /\ queue \in [Procs -> SUBSET Paths]
    /\ pending \in [Procs -> SUBSET Entry]
    /\ verified \in [Procs -> SUBSET Inodes]
    /\ job \in [Procs -> Job]
    /\ failed \in [Procs -> BOOLEAN]

-----------------------------------------------------------------------------
(* The file system *)

\* st_nlink: every link counts, staged ones included.
NLink(i) ==
    Cardinality({q \in Paths : visible[q] = i})
    + Cardinality({e \in entries : e.inode = i})
    + Cardinality({t \in tmp : t.inode = i})

\* An inode no link refers to: the file system may hand it out again.
Free(i) ==
    /\ \A q \in Paths : visible[q] # i
    /\ \A e \in entries : e.inode # i
    /\ \A t \in tmp : t.inode # i

\* What a reader of the visible tree sees.
Tree == [q \in Paths |->
            IF visible[q] = NoInode THEN NoDigest ELSE content[visible[q]]]

\* The stable state Phase 1 insists on.
ScanIsValid ==
    \A e, f \in entries : e # f => e.digest # f.digest /\ e.inode # f.inode

-----------------------------------------------------------------------------
(* ObjectIndex: two maps kept in step *)

Inserted(ix, r) ==
    [records |-> {x \in ix.records : x.digest # r.digest} \cup {r},
     inodes  |-> [ix.inodes EXCEPT ![r.inode] = r.digest]]

\* Seeded bug: by_inode is forgotten.
RemovedByDigestOnly(ix, r) == [ix EXCEPT !.records = @ \ {r}]

\* Seeded bug: by_digest is.
RemovedByInodeOnly(ix, r) ==
    [ix EXCEPT !.inodes = [@ EXCEPT ![r.inode] = NoDigest]]

Removed(ix, r) ==
    [records |-> ix.records \ {r},
     inodes  |-> [ix.inodes EXCEPT ![r.inode] = NoDigest]]

ForDigest(p, d) == {r \in index[p].records : r.digest = d}

ForInode(p, i) == {r \in index[p].records : r.digest = index[p].inodes[i]}

-----------------------------------------------------------------------------
(* Control *)

GoTo(p, label) == pc' = [pc EXCEPT ![p] = label]

Note(p, failure) == failed' = [failed EXCEPT ![p] = @ \/ failure]

\* One path or object is dealt with: the loop that visited it goes on.
Resume(p, failure) ==
    /\ GoTo(p, IF job[p].path = NoPath THEN "retain" ELSE "visit")
    /\ job' = [job EXCEPT ![p] = NoJob]
    /\ Note(p, failure)

\* The process leaves index_root: its memory is gone, its lock released.
Exit(p) ==
    /\ lock' = NoProc
    /\ GoTo(p, "idle")
    /\ opts' = [opts EXCEPT ![p] = NoOpts]
    /\ index' = [index EXCEPT ![p] = NoIndex]
    /\ queue' = [queue EXCEPT ![p] = {}]
    /\ pending' = [pending EXCEPT ![p] = {}]
    /\ verified' = [verified EXCEPT ![p] = {}]
    /\ job' = [job EXCEPT ![p] = NoJob]
    /\ failed' = [failed EXCEPT ![p] = FALSE]

-----------------------------------------------------------------------------
(* Lock, clean-up, scan, discovery *)

\* Seeded bug: the outcome of try_lock is ignored.
LockIgnored == TRUE

LockFree == lock = NoProc

\* IndexLock::acquire: try_lock, which never waits.  A process that loses
\* leaves at once with nothing changed, so only the winner is an action.
Acquire(p) ==
    /\ pc[p] = "idle" /\ LockFree
    /\ lock' = p
    /\ \E rehash \in BOOLEAN, select \in SUBSET Paths :
          opts' = [opts EXCEPT ![p] = [rehash |-> rehash, select |-> select]]
    /\ GoTo(p, "clean")
    /\ UNCHANGED <<userVars, diskVars, index, queue, pending, verified, job,
                   failed>>

\* Seeded bug: links staged by a run that died stay.
CleanNothing(p) ==
    /\ pc[p] = "clean"
    /\ GoTo(p, "scan")
    /\ UNCHANGED <<userVars, diskVars, lock, opts, index, queue, pending,
                   verified, job, failed>>

CleanStaleTmp(p) ==
    /\ pc[p] = "clean"
    /\ tmp' = {}
    /\ GoTo(p, "scan")
    /\ UNCHANGED <<userVars, entries, lock, opts, index, queue, pending,
                   verified, job, failed>>

ScanObjectIndex(p) ==
    /\ pc[p] = "scan" /\ ScanIsValid
    /\ index' = [index EXCEPT ![p] =
          [records |-> entries,
           inodes  |-> [i \in Inodes |->
              IF \E e \in entries : e.inode = i
              THEN (CHOOSE e \in entries : e.inode = i).digest
              ELSE NoDigest]]]
    /\ GoTo(p, "discover")
    /\ UNCHANGED <<userVars, diskVars, lock, opts, queue, pending, verified,
                   job, failed>>

\* A duplicate digest or an inode with two digests aborts the run, --rehash
\* or not, before anything is changed.
ScanRejects(p) ==
    /\ pc[p] = "scan" /\ ~ScanIsValid
    /\ Exit(p)
    /\ UNCHANGED <<userVars, diskVars>>

\* A walk the owner interferes with may miss paths; one that was listed and is
\* gone is VisitGone's.
DiscoverFiles(p) ==
    /\ pc[p] = "discover"
    /\ \E found \in SUBSET {q \in opts[p].select : visible[q] # NoInode} :
          /\ queue' = [queue EXCEPT ![p] = found]
          /\ UserWhileIndexing
                \/ found = {q \in opts[p].select : visible[q] # NoInode}
    /\ GoTo(p, "visit")
    /\ UNCHANGED <<userVars, diskVars, lock, opts, index, pending, verified,
                   job, failed>>

\* An I/O error before Phase 2 aborts the run; the clean-up may have removed
\* part of what it was to remove.
SetupFails(p) ==
    /\ \/ pc[p] = "clean" /\ "unlink" \in Faults /\ tmp' \in SUBSET tmp
       \/ pc[p] \in {"scan", "discover"} /\ "stat" \in Faults /\ tmp' = tmp
    /\ Exit(p)
    /\ UNCHANGED <<userVars, entries>>

-----------------------------------------------------------------------------
(* Phases 2-3: one selected visible file at a time, in the order walkdir    *)
(* happened to list them, which nothing fixes                               *)

Visiting(p, q) == pc[p] = "visit" /\ q \in queue[p]

\* The mtime fast path: the inode is indexed and not younger than its entry.
Trusted(p, i) == ~opts[p].rehash /\ \E r \in ForInode(p, i) : mtime[i] <= r.ts

VisitGone(p, q) ==
    /\ Visiting(p, q)
    /\ visible[q] = NoInode \/ "stat" \in Faults
    /\ queue' = [queue EXCEPT ![p] = @ \ {q}]
    /\ Note(p, TRUE)
    /\ UNCHANGED <<userVars, diskVars, lock, pc, opts, index, pending,
                   verified, job>>

VisitTrusted(p, q) ==
    /\ Visiting(p, q)
    /\ visible[q] # NoInode /\ Trusted(p, visible[q])
    /\ queue' = [queue EXCEPT ![p] = @ \ {q}]
    /\ verified' = [verified EXCEPT ![p] = @ \cup {visible[q]}]
    /\ UNCHANGED <<userVars, diskVars, lock, pc, opts, index, pending, job,
                   failed>>

VisitUntrusted(p, q) ==
    /\ Visiting(p, q)
    /\ visible[q] # NoInode /\ ~Trusted(p, visible[q])
    /\ queue' = [queue EXCEPT ![p] = @ \ {q}]
    /\ job' = [job EXCEPT ![p] = [NoJob EXCEPT !.path = q]]
    /\ GoTo(p, "hash")
    /\ UNCHANGED <<userVars, diskVars, lock, opts, index, pending, verified,
                   failed>>

\* hash_file_stable answers with the content of the inode it opened, provided
\* nobody wrote that inode between its two fstat calls; its attempts are one
\* step because a write in between changes the mtime and voids the attempt.
Hash(p) ==
    /\ pc[p] = "hash"
    /\ LET i == visible[job[p].path]
       IN  /\ i # NoInode
           /\ job' = [job EXCEPT ![p].digest = content[i], ![p].inode = i]
           /\ verified' = [verified EXCEPT ![p] = @ \cup {i}]
    /\ GoTo(p, "apply")
    /\ UNCHANGED <<userVars, diskVars, lock, opts, index, queue, pending,
                   failed>>

\* Seeded bug: an unstable file goes back to the queue.
HashFailsRequeues(p) ==
    /\ pc[p] = "hash"
    /\ \/ visible[job[p].path] = NoInode
       \/ UserWhileIndexing
       \/ "stat" \in Faults
    /\ queue' = [queue EXCEPT ![p] = @ \cup {job[p].path}]
    /\ Resume(p, TRUE)
    /\ UNCHANGED <<userVars, diskVars, lock, opts, index, pending, verified>>

\* The path is gone, or every attempt met a writer.
HashFails(p) ==
    /\ pc[p] = "hash"
    /\ \/ visible[job[p].path] = NoInode
       \/ UserWhileIndexing
       \/ "stat" \in Faults
    /\ Resume(p, TRUE)
    /\ UNCHANGED <<userVars, diskVars, lock, opts, index, queue, pending,
                   verified>>

\* Seeded bug: a known digest counts as reused whatever inode it is on.
DigestKnown(p) == ForDigest(p, job[p].digest) # {}

\* apply_digest_for_visible_path: which of its five cases this is.  The name
\* of a new entry, with IndexTimestamp::now() in it, is composed here, after
\* the hash and before the link or rename that uses it.
IndexedAlready(p) ==
    \E r \in ForDigest(p, job[p].digest) : r.inode = job[p].inode

ApplyReused(p) ==
    /\ pc[p] = "apply"
    /\ IndexedAlready(p)
    /\ Resume(p, FALSE)
    /\ UNCHANGED <<userVars, diskVars, lock, opts, index, queue, pending,
                   verified>>

ApplyNew(p) ==
    /\ pc[p] = "apply"
    /\ ForDigest(p, job[p].digest) = {}
    /\ ForInode(p, job[p].inode) = {}
    /\ job' = [job EXCEPT ![p].ts = clock]
    /\ GoTo(p, "create")
    /\ UNCHANGED <<userVars, diskVars, lock, opts, index, queue, pending,
                   verified, failed>>

ApplyChanged(p) ==
    /\ pc[p] = "apply"
    /\ ForDigest(p, job[p].digest) = {}
    /\ \E old \in ForInode(p, job[p].inode) :
          job' = [job EXCEPT ![p].entry = old, ![p].ts = clock]
    /\ GoTo(p, "rename")
    /\ UNCHANGED <<userVars, diskVars, lock, opts, index, queue, pending,
                   verified, failed>>

ApplyDuplicate(p) ==
    /\ pc[p] = "apply"
    /\ \E r \in ForDigest(p, job[p].digest) : r.inode # job[p].inode
    /\ \/ /\ ForInode(p, job[p].inode) = {}
          /\ GoTo(p, "stage")
          /\ UNCHANGED job
       \/ \E old \in ForInode(p, job[p].inode) :
             /\ job' = [job EXCEPT ![p].entry = old]
             /\ GoTo(p, "drop")
    /\ UNCHANGED <<userVars, diskVars, lock, opts, index, queue, pending,
                   verified, failed>>

-----------------------------------------------------------------------------
(* Repairs, each a call on the disk and its echo in ObjectIndex *)

\* Seeded bug: a missing source goes unnoticed.
SourceAssumed(p) == TRUE

SourceExists(p) == visible[job[p].path] # NoInode

\* create_object_entry, then insert: the link is made by path, so it takes
\* whatever inode the path names now.
CreateObjectEntry(p) ==
    /\ pc[p] = "create"
    /\ LET new == [digest |-> job[p].digest, ts |-> job[p].ts,
                   inode |-> visible[job[p].path]]
       IN  /\ SourceExists(p)
           /\ entries' = entries \cup {new}
           /\ index' = [index EXCEPT ![p] = Inserted(@, new)]
    /\ Resume(p, FALSE)
    /\ UNCHANGED <<userVars, tmp, lock, opts, queue, pending, verified>>

\* The link fails, or the metadata of the entry just linked cannot be read:
\* then the entry is on disk and ObjectIndex does not know it.
CreateFails(p) ==
    /\ pc[p] = "create"
    /\ \/ /\ ~SourceExists(p) \/ "link" \in Faults
          /\ UNCHANGED entries
       \/ /\ SourceExists(p) /\ "stat" \in Faults
          /\ entries' = entries \cup
                {[digest |-> job[p].digest, ts |-> job[p].ts,
                  inode |-> visible[job[p].path]]}
    /\ Resume(p, TRUE)
    /\ UNCHANGED <<userVars, tmp, lock, opts, index, queue, pending, verified>>

\* Seeded bug: only the index time of the stale entry is renewed.
RenamedTouch(p) == [job[p].entry EXCEPT !.ts = job[p].ts]

Renamed(p) == [digest |-> job[p].digest, ts |-> job[p].ts,
               inode |-> job[p].entry.inode]

\* Seeded bug: the entry is linked to its new name and keeps the old one.
AfterLink(p) == entries \cup {Renamed(p)}

AfterRename(p) == (entries \ {job[p].entry}) \cup {Renamed(p)}

\* rename_object_in_place.
RenameObject(p) ==
    /\ pc[p] = "rename" /\ job[p].entry \in entries
    /\ entries' = AfterRename(p)
    /\ index' = [index EXCEPT ![p] =
          Inserted(Removed(@, job[p].entry), Renamed(p))]
    /\ Resume(p, FALSE)
    /\ UNCHANGED <<userVars, tmp, lock, opts, queue, pending, verified>>

\* The record left ObjectIndex before the rename was tried.
RenameFails(p) ==
    /\ pc[p] = "rename"
    /\ \/ /\ job[p].entry \notin entries \/ "rename" \in Faults
          /\ UNCHANGED entries
       \/ /\ job[p].entry \in entries /\ "stat" \in Faults
          /\ entries' = AfterRename(p)
    /\ index' = [index EXCEPT ![p] = Removed(@, job[p].entry)]
    /\ Resume(p, TRUE)
    /\ UNCHANGED <<userVars, tmp, lock, opts, queue, pending, verified>>

\* remove_stale_object_entry: from a visible path the duplicate is then
\* replaced, in the retained pass there is nothing more to do.
DropStale(p) ==
    /\ pc[p] = "drop" /\ job[p].entry \in entries
    /\ entries' = entries \ {job[p].entry}
    /\ index' = [index EXCEPT ![p] = Removed(@, job[p].entry)]
    /\ IF job[p].path = NoPath
       THEN Resume(p, FALSE)
       ELSE GoTo(p, "stage") /\ UNCHANGED <<job, failed>>
    /\ UNCHANGED <<userVars, tmp, lock, opts, queue, pending, verified>>

DropFails(p) ==
    /\ pc[p] = "drop"
    /\ job[p].entry \notin entries \/ "unlink" \in Faults
    /\ index' = [index EXCEPT ![p] = Removed(@, job[p].entry)]
    /\ Resume(p, TRUE)
    /\ UNCHANGED <<userVars, diskVars, lock, opts, queue, pending, verified>>

-----------------------------------------------------------------------------
(* dedup_visible_onto_canonical: stage, rename over, verify *)

Staged(p) == [path |-> job[p].path, inode |-> job[p].entry.inode]

\* Seeded bug: the visible path is unlinked before its replacement is staged.
StageLinkUnlinks(p) ==
    /\ pc[p] = "stage"
    /\ visible' = [visible EXCEPT ![job[p].path] = NoInode]
    /\ \E r \in ForDigest(p, job[p].digest) \cap entries :
          /\ tmp' = tmp \cup {[path |-> job[p].path, inode |-> r.inode]}
          /\ job' = [job EXCEPT ![p].entry = r]
    /\ GoTo(p, "swap")
    /\ UNCHANGED <<content, mtime, clock, entries, lock, opts, index, queue,
                   pending, verified, failed>>

StageLink(p) ==
    /\ pc[p] = "stage"
    /\ \E r \in ForDigest(p, job[p].digest) \cap entries :
          /\ tmp' = tmp \cup {[path |-> job[p].path, inode |-> r.inode]}
          /\ job' = [job EXCEPT ![p].entry = r]
    /\ GoTo(p, "swap")
    /\ UNCHANGED <<userVars, entries, lock, opts, index, queue, pending,
                   verified, failed>>

StageFails(p) ==
    /\ pc[p] = "stage"
    /\ ForDigest(p, job[p].digest) \cap entries = {} \/ "link" \in Faults
    /\ Resume(p, TRUE)
    /\ UNCHANGED <<userVars, diskVars, lock, opts, index, queue, pending,
                   verified>>

\* rename(2) of one link over another link to the same inode does nothing,
\* and leaves the staged link behind.
SwapIn(p) ==
    /\ pc[p] = "swap" /\ Staged(p) \in tmp
    /\ visible' = [visible EXCEPT ![job[p].path] = Staged(p).inode]
    /\ tmp' = IF visible[job[p].path] = Staged(p).inode
              THEN tmp ELSE tmp \ {Staged(p)}
    /\ GoTo(p, "verify")
    /\ UNCHANGED <<content, mtime, clock, entries, lock, opts, index, queue,
                   pending, verified, job, failed>>

\* Seeded bug: the clean-up removes the visible path, not the staged link.
SwapFailsUnlinks(p) ==
    /\ pc[p] = "swap"
    /\ Staged(p) \notin tmp \/ "rename" \in Faults
    /\ visible' = [visible EXCEPT ![job[p].path] = NoInode]
    /\ Resume(p, TRUE)
    /\ UNCHANGED <<content, mtime, clock, diskVars, lock, opts, index, queue,
                   pending, verified>>

SwapFails(p) ==
    /\ pc[p] = "swap"
    /\ Staged(p) \notin tmp \/ "rename" \in Faults
    /\ tmp' = tmp \ {Staged(p)}
    /\ Resume(p, TRUE)
    /\ UNCHANGED <<userVars, entries, lock, opts, index, queue, pending,
                   verified>>

VerifySwap(p) ==
    /\ pc[p] = "verify"
    /\ \/ Resume(p, \/ visible[job[p].path] # job[p].entry.inode
                    \/ job[p].entry \notin entries)
       \/ "stat" \in Faults /\ Resume(p, TRUE)
    /\ UNCHANGED <<userVars, diskVars, lock, opts, index, queue, pending,
                   verified>>

\* Seeded bug: the filter on the verified inodes is inverted.
VerifiedRecords(p) == {r \in index[p].records : r.inode \in verified[p]}

UnverifiedRecords(p) == {r \in index[p].records : r.inode \notin verified[p]}

FinishVisits(p) ==
    /\ pc[p] = "visit" /\ queue[p] = {}
    /\ IF opts[p].rehash
       THEN /\ pending' = [pending EXCEPT ![p] = UnverifiedRecords(p)]
            /\ GoTo(p, "retain")
       ELSE /\ pending' = [pending EXCEPT ![p] = index[p].records]
            /\ GoTo(p, "prune")
    /\ UNCHANGED <<userVars, diskVars, lock, opts, index, queue, verified,
                   job, failed>>

-----------------------------------------------------------------------------
(* --rehash: the retained objects no visible path vouched for *)

Retaining(p, r) ==
    /\ pc[p] = "retain" /\ r \in pending[p]
    /\ pending' = [pending EXCEPT ![p] = @ \ {r}]

\* An earlier candidate of this pass repaired this entry away.
RetainedSkip(p, r) ==
    /\ Retaining(p, r)
    /\ ForDigest(p, r.digest) = {}
    /\ UNCHANGED <<userVars, diskVars, lock, pc, opts, index, queue, verified,
                   job, failed>>

RetainedHash(p, r) ==
    /\ Retaining(p, r)
    /\ r \in entries
    /\ \E known \in ForDigest(p, r.digest) :
          job' = [job EXCEPT ![p] =
             [NoJob EXCEPT !.digest = content[r.inode], !.inode = r.inode,
                           !.entry = known]]
    /\ GoTo(p, "settle")
    /\ UNCHANGED <<userVars, diskVars, lock, opts, index, queue, verified,
                   failed>>

RetainedHashFails(p, r) ==
    /\ Retaining(p, r)
    /\ ForDigest(p, r.digest) # {}
    /\ r \notin entries \/ UserWhileIndexing \/ "stat" \in Faults
    /\ Note(p, TRUE)
    /\ UNCHANGED <<userVars, diskVars, lock, pc, opts, index, queue, verified,
                   job>>

\* reconcile_retained_object: untouched, renamed, or dropped as a duplicate.
SettleSame(p) ==
    /\ pc[p] = "settle" /\ job[p].digest = job[p].entry.digest
    /\ Resume(p, FALSE)
    /\ UNCHANGED <<userVars, diskVars, lock, opts, index, queue, pending,
                   verified>>

SettleChanged(p) ==
    /\ pc[p] = "settle" /\ job[p].digest # job[p].entry.digest
    /\ \/ /\ ForDigest(p, job[p].digest) = {}
          /\ job' = [job EXCEPT ![p].ts = clock]
          /\ GoTo(p, "rename")
       \/ /\ ForDigest(p, job[p].digest) # {}
          /\ GoTo(p, "drop")
          /\ UNCHANGED job
    /\ UNCHANGED <<userVars, diskVars, lock, opts, index, queue, pending,
                   verified, failed>>

FinishRetained(p) ==
    /\ pc[p] = "retain" /\ pending[p] = {}
    /\ pending' = [pending EXCEPT ![p] = index[p].records]
    /\ GoTo(p, "prune")
    /\ UNCHANGED <<userVars, diskVars, lock, opts, index, queue, verified,
                   job, failed>>

-----------------------------------------------------------------------------
(* Phase 4: prune *)

\* Seeded bug: the entry and one visible link count as no reference.
LooselyUnreferenced(i) == NLink(i) <= 2

Unreferenced(i) == NLink(i) = 1

PruneStat(p, r) ==
    /\ pc[p] = "prune" /\ r \in pending[p]
    /\ pending' = [pending EXCEPT ![p] = @ \ {r}]
    /\ \/ /\ r \in entries /\ Unreferenced(r.inode)
          /\ job' = [job EXCEPT ![p] = [NoJob EXCEPT !.entry = r]]
          /\ GoTo(p, "unlink")
          /\ UNCHANGED failed
       \/ /\ r \in entries /\ ~Unreferenced(r.inode)
          /\ UNCHANGED <<pc, job, failed>>
       \/ /\ r \notin entries \/ "stat" \in Faults
          /\ Note(p, TRUE)
          /\ UNCHANGED <<pc, job>>
    /\ UNCHANGED <<userVars, diskVars, lock, opts, index, queue, verified>>

\* The decision and the unlink are two calls.
PruneUnlink(p) ==
    /\ pc[p] = "unlink"
    /\ \/ /\ job[p].entry \in entries
          /\ entries' = entries \ {job[p].entry}
          /\ UNCHANGED failed
       \/ /\ job[p].entry \notin entries \/ "unlink" \in Faults
          /\ Note(p, TRUE)
          /\ UNCHANGED entries
    /\ GoTo(p, "prune")
    /\ job' = [job EXCEPT ![p] = NoJob]
    /\ UNCHANGED <<userVars, tmp, lock, opts, index, queue, pending, verified>>

FinishPrune(p) ==
    /\ pc[p] = "prune" /\ pending[p] = {}
    /\ GoTo(p, "done")
    /\ UNCHANGED <<userVars, diskVars, lock, opts, index, queue, pending,
                   verified, job, failed>>

Release(p) ==
    /\ pc[p] = "done"
    /\ Exit(p)
    /\ UNCHANGED <<userVars, diskVars>>

\* The operating system drops the advisory lock of a dead process.
Crash(p) ==
    /\ Crashes /\ pc[p] # "idle"
    /\ Exit(p)
    /\ UNCHANGED <<userVars, diskVars>>

-----------------------------------------------------------------------------
(* The owner of the visible tree, who knows nothing of the lock *)

UserMayAct == UserWhileIndexing \/ lock = NoProc

\* A write is stamped with the time it is made, or up to MtimeLag earlier: a
\* tool that backdates mtimes, or a coarse kernel clock.
Stamped(i) ==
    /\ clock < MaxClock
    /\ clock' = clock + 1
    /\ \E lag \in 0..MtimeLag :
          /\ lag <= clock'
          /\ mtime' = [mtime EXCEPT ![i] = clock' - lag]

\* A new file, or write-to-temp-then-rename over an old one.
UserReplaces(q) ==
    /\ UserMayAct
    /\ \E i \in Inodes, d \in Digests :
          /\ Free(i)
          /\ Stamped(i)
          /\ visible' = [visible EXCEPT ![q] = i]
          /\ content' = [content EXCEPT ![i] = d]
    /\ UNCHANGED <<diskVars, lock, procVars>>

UserWritesInPlace(q) ==
    /\ InPlaceWrites /\ UserMayAct
    /\ visible[q] # NoInode
    /\ Stamped(visible[q])
    /\ \E d \in Digests : content' = [content EXCEPT ![visible[q]] = d]
    /\ UNCHANGED <<visible, diskVars, lock, procVars>>

UserRemoves(q) ==
    /\ UserMayAct
    /\ visible[q] # NoInode
    /\ visible' = [visible EXCEPT ![q] = NoInode]
    /\ UNCHANGED <<content, mtime, clock, diskVars, lock, procVars>>

\* mv, which keeps the inode and its mtime.
UserMoves(q, dest) ==
    /\ UserMayAct
    /\ visible[q] # NoInode /\ visible[q] # visible[dest]
    /\ visible' = [visible EXCEPT ![dest] = visible[q], ![q] = NoInode]
    /\ UNCHANGED <<content, mtime, clock, diskVars, lock, procVars>>

\* ln.
UserLinks(q, dest) ==
    /\ UserMayAct
    /\ visible[q] # NoInode /\ visible[dest] = NoInode
    /\ visible' = [visible EXCEPT ![dest] = visible[q]]
    /\ UNCHANGED <<content, mtime, clock, diskVars, lock, procVars>>

-----------------------------------------------------------------------------

\* Any tree, before `pcas index` has ever run on it.
Init ==
    /\ visible \in [Paths -> Inodes \cup {NoInode}]
    /\ content \in [Inodes -> Digests]
    /\ mtime = [i \in Inodes |-> 0]
    /\ entries = {} /\ tmp = {}
    /\ clock = 0
    /\ lock = NoProc
    /\ pc = [p \in Procs |-> "idle"]
    /\ opts = [p \in Procs |-> NoOpts]
    /\ index = [p \in Procs |-> NoIndex]
    /\ queue = [p \in Procs |-> {}]
    /\ pending = [p \in Procs |-> {}]
    /\ verified = [p \in Procs |-> {}]
    /\ job = [p \in Procs |-> NoJob]
    /\ failed = [p \in Procs |-> FALSE]

\* What a process does once it holds the lock, one call after the other.
Phase1(p) ==
    \/ CleanStaleTmp(p) \/ ScanObjectIndex(p) \/ ScanRejects(p)
    \/ DiscoverFiles(p) \/ SetupFails(p)

Visit(p) ==
    \/ \E q \in Paths :
          VisitGone(p, q) \/ VisitTrusted(p, q) \/ VisitUntrusted(p, q)
    \/ Hash(p) \/ HashFails(p)
    \/ ApplyReused(p) \/ ApplyNew(p) \/ ApplyChanged(p) \/ ApplyDuplicate(p)
    \/ FinishVisits(p)

Repair(p) ==
    \/ CreateObjectEntry(p) \/ CreateFails(p)
    \/ RenameObject(p) \/ RenameFails(p)
    \/ DropStale(p) \/ DropFails(p)
    \/ StageLink(p) \/ StageFails(p)
    \/ SwapIn(p) \/ SwapFails(p) \/ VerifySwap(p)

Retained(p) ==
    \/ \E r \in pending[p] :
          RetainedSkip(p, r) \/ RetainedHash(p, r) \/ RetainedHashFails(p, r)
    \/ SettleSame(p) \/ SettleChanged(p) \/ FinishRetained(p)

Prune(p) ==
    \/ \E r \in pending[p] : PruneStat(p, r)
    \/ PruneUnlink(p) \/ FinishPrune(p) \/ Release(p)

RunStep(p) == Phase1(p) \/ Visit(p) \/ Repair(p) \/ Retained(p) \/ Prune(p)

User ==
    \E q \in Paths :
       \/ UserReplaces(q) \/ UserWritesInPlace(q) \/ UserRemoves(q)
       \/ \E dest \in Paths : UserMoves(q, dest) \/ UserLinks(q, dest)

Next ==
    \/ \E p \in Procs : Acquire(p) \/ RunStep(p) \/ Crash(p)
    \/ User

Spec == Init /\ [][Next]_vars

\* A run is a sequential thread making system calls: nothing but a crash
\* keeps it from making the next one.  Nobody is obliged to start a run.
Fairness == \A p \in Procs : WF_vars(RunStep(p))

FairSpec == Spec /\ Fairness
-----------------------------------------------------------------------------
(* What every run maintains, whatever the owner does meanwhile *)

\* ObjectIndex's two maps agree: an inode that leads to a digest leads to a
\* record with that digest and that inode.  reconcile_one_visible_file and
\* rename_object_in_place panic or fail on the first inode that does not.
IndexMapsAgree ==
    \A p \in Procs, i \in Inodes :
       index[p].inodes[i] # NoDigest =>
          \E r \in index[p].records :
             r.digest = index[p].inodes[i] /\ r.inode = i

\* Labels at which the records of ObjectIndex are the entries to work on.
Reconciling == {"discover", "visit", "hash", "apply", "create", "rename",
                "drop", "stage", "swap", "verify", "retain", "settle"}

\* ObjectIndex never remembers an entry the disk no longer has: no rename,
\* unlink or link of a record's path ever meets a missing file, although
\* other processes and the owner run between any two calls.
IndexOnDisk ==
    \A p \in Procs :
       /\ pc[p] \in Reconciling => index[p].records \subseteq entries
       /\ pc[p] = "prune" => pending[p] \subseteq entries
       /\ pc[p] \in {"rename", "drop", "unlink"} => job[p].entry \in entries

\* A link staged in .pcas/tmp stays there until the run that staged it renames
\* it, although every run begins by emptying that directory.
StagedLinkIntact ==
    \A p \in Procs : pc[p] = "swap" => Staged(p) \in tmp

\* Pruning, whose stat and unlink are two calls, never takes away the object
\* entry of an inode that some visible path links, selected or not.
PruneSafe ==
    [][\A p \in Procs :
          pc[p] = "unlink" /\ entries' # entries =>
             \A q \in Paths : visible[q] # job[p].entry.inode]_vars

\* Whoever starts a run gets out of it: every loop of reconcile and prune
\* ends, however the owner keeps changing the tree.
Terminates == \A p \in Procs : pc[p] # "idle" ~> pc[p] = "idle"

-----------------------------------------------------------------------------
(* What a run achieves *)

\* No step of a run changes the bytes any visible path reads, and none makes
\* one appear or disappear: deduplication only swaps equal for equal, also
\* when the process dies between any two calls.
VisibleContentKept ==
    [][(\E p \in Procs : RunStep(p) \/ Crash(p)) => Tree' = Tree]_vars

\* Whatever a run, complete or cut short, leaves behind, the next run's scan
\* accepts: one entry per digest, one digest per inode.
NextRunAccepts == lock = NoProc => ScanIsValid

\* A complete run over the whole tree that reports no failure leaves every
\* visible path a hard link to the object entry of the content it has.
RunConverges ==
    \A p \in Procs :
       pc[p] = "done" /\ ~failed[p] /\ opts[p].select = Paths =>
          \A q \in Paths : visible[q] # NoInode =>
             \E e \in entries :
                e.inode = visible[q] /\ e.digest = content[e.inode]

\* A complete run that reports no failure, whatever its PATTERN, leaves no
\* object entry without a visible link, also after an earlier run died with
\* links staged in .pcas/tmp.
PruneComplete ==
    \A p \in Procs : pc[p] = "done" /\ ~failed[p] =>
       \A e \in entries : \E q \in Paths : visible[q] = e.inode

\* A complete `--rehash` run that reports no failure leaves no entry whose
\* digest is not that of its bytes, selected or not, mtimes honest or not.
RehashVerifiesAll ==
    \A p \in Procs : pc[p] = "done" /\ ~failed[p] /\ opts[p].rehash =>
       \A e \in entries : e.digest = content[e.inode]

\* An entry the fast path would trust, by a margin that covers how far an
\* mtime may lag, tells the truth: with honest mtimes a wrong digest is never
\* trusted silently.
NoSilentlyWrongDigest ==
    lock = NoProc => \A e \in entries :
       mtime[e.inode] + MtimeLag <= e.ts => e.digest = content[e.inode]

\* If a run changes what a visible path reads, an object was damaged in place
\* beforehand: deduplication trusts the canonical entry without reading it.
LossNeedsDamage ==
    [][(\E p \in Procs : RunStep(p)) /\ Tree' # Tree =>
          \E e \in entries : e.digest # content[e.inode]]_vars

\* No inode claims two digests: what is wrong is duplicate entries, if anything.
OnlyDuplicates ==
    \A e, f \in entries : e.inode = f.inode => e.digest = f.digest

\* `pcas index --rehash` repairs duplicate entries for a digest, as the README
\* and the error message of `pcas path` promise: its scan does not refuse a
\* store that has nothing else wrong with it.
RehashRepairsDuplicates ==
    [][\A p \in Procs : opts[p].rehash /\ OnlyDuplicates => ~ScanRejects(p)]_vars
=============================================================================

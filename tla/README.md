# TLA+ verification of purecas

purecas (`pcas`) keeps a directory tree of ordinary files content-addressed:
every distinct content gets one hard link under `.pcas/sha256`, named by its
SHA-256 digest, and files with equal content are made links to one inode.  This
directory holds TLA+ specifications of that program, the TLC configurations that
check them on small instances, and theorems about them that TLAPS checks for
every value of the constants.

## 1. Inventory

| Component | Source | State | Operations | Status |
|---|---|---|---|---|
| index lock | `purecas/src/index/lock.rs` | `.pcas/index.lock` (advisory, dies with its process) | `IndexLock::acquire`, drop | modelled |
| object scan, `ObjectIndex` | `index/scan.rs` | `by_digest`, `by_inode` in memory; `.pcas/sha256` on disk | `scan_object_index`, `insert`, `remove`, `records` | modelled |
| discovery | `index/discover.rs` | none | `discover_files`, `Pattern` | partly: glob matching is an arbitrary subset |
| stable hashing | `index/hash.rs`, `FileSnapshot` of `index/types.rs` | one open descriptor | `hash_file_stable` | modelled |
| reconciliation | `index/reconcile.rs` | `ObjectIndex`, set of verified inodes, `.pcas/tmp` | create, rename, drop stale, dedup, retained pass | modelled |
| pruning | `index/prune.rs` | none of its own | `prune` | modelled |
| transaction | `index/mod.rs` | all of the above | `index_root`, `clean_stale_tmp` | modelled |
| digest resolution | `index/mod.rs` | none (reads one shard) | `resolve_digest` | modelled |
| names and timestamps | `index/types.rs` | none | parse and print packed names | not modelled: straight-line parsing |
| HTTP routes | `serve/router.rs`, `serve/path.rs`, `serve/resolve.rs` | none between requests | classify, decode, resolve inside the visible tree | modelled |
| digest route | `serve/digest.rs` | one open descriptor | resolve, open, stat, respond | modelled |
| preconditions | `serve/precondition.rs` | none | evaluation order of RFC 9110 | modelled |
| ranges, responses | `serve/range.rs`, `serve/respond.rs` | one open descriptor, position in the body | `select`, `clamp`, `coalesce`, streaming | modelled |
| representation, listing | `serve/representation.rs`, `serve/listing.rs` | none | entity tags, dates, links | partly: no MIME types, no HTML layout |
| legacy store | `store.rs`, `lib.rs`, `fetch.rs` | `sha256/<xx>/<digest>` files | store, verify, fetch, unzip | modelled |
| legacy database | `db.rs` | SQLite tables | blobs, names, packages, tags, metadata, relations | modelled |
| export and import | `transfer.rs` | an export directory and its manifest | export, import | modelled |
| LFS agent | `lfs.rs` | line protocol on stdin and stdout | init, upload, download, terminate | modelled |
| CLI | `pcas/src/main.rs` | none | every command that changes something | partly: no listings, no argument parsing |
| Python bindings | `purecas-python` | a mutex around one `Store` | every method that changes something | partly: no getters |
| build | `Cargo.toml`, `flake.nix` | none | none | not modelled |

**How they interact.**  `index_root` is one sequential transaction.  Its parts
share `ObjectIndex` by reference, and share the disk with three parties they do
not control: other `pcas index` processes (kept out by the lock), the owner of
the visible tree, who knows nothing of the lock, and the readers `pcas path` and
`pcas serve`, who take no lock either.  The legacy store is a separate root
layout; `index_root` refuses a root that has its database.  Its commands share
blob files and the database with other commands, other processes and, through
the Python bindings, other threads; only SQLite statements are atomic.  An HTTP
response goes on reading its descriptor while anybody changes the file.

**What is hard.**

* Between any two system calls of a run the owner may replace, edit, move, link
  or remove files; a path is hashed under one inode and linked under another.
* The process may die between any two calls; what it leaves on disk is the only
  state the next run has.
* Every call may fail on its own path, and the run goes on with an `ObjectIndex`
  that was already updated, or not yet.
* Decisions are made on one call and carried out in a later one: link counts in
  `prune`, record paths in `reconcile`, the digest in `create_object_entry`.
* In-place writes damage an object behind its digest; mtimes may lie about it.
* A request names its path in several calls and reads the file after it has
  promised length and entity tag; the entry a digest resolved to may be gone.
* A blob is copied straight to its final name, and rows and files of a command
  are written by separate calls, next to other commands that do the same.

**What makes each component correct.**  The lock: one run at a time, released
by death.  `ObjectIndex`: its two maps agree with each other and with the disk.
Reconciliation: no visible byte changes; a clean run links every selected file
to the entry of its content; `--rehash` leaves no wrong digest.  Pruning: never
unlinks what a visible path uses, and leaves no garbage.  The transaction:
whatever it leaves, the next scan accepts; it ends.  The server: every answer is
the truth of one moment, a complete response has exactly the bytes asked for, an
entity tag names one sequence of bytes.  The legacy store: a damaged blob has a
known cause, rows have files, an interrupted command can be repeated, a
successful import is complete, the agent answers each request once.

## 2. Plan

1. `PcasIndex`: the transaction of `pcas index` (done in this version), with
   its proofs in `PcasIndexProofs`, and in `PcasIndexQuietProofs` those for an
   owner who leaves the tree alone while a run is in progress (done).
2. `StableHash`: `hash_file_stable` call by call, with block-wise reads, the
   attempt limit and coarse mtimes, implementing the abstract `AtomicHash`
   (done in this version), with the refinement proved in `StableHashProofs`.
3. `PcasServe`: both file-serving routes next to `PcasIndex` (done), with its
   proofs in `PcasServeProofs`.
4. `HttpPath`, `Preconditions`, `ByteRanges` and `Respond`: a request from raw
   path to last byte (done), with its proofs in `RespondProofs` (done).
5. `LegacyStore`: the database-backed store with all its commands (done), with
   its invariant and its blobs in `LegacyStoreProofs`, what its commands achieve in
   `LegacyStoreCommandProofs`, and what they are never refused for in
   `LegacyStoreRetryProofs` (done).

Every module keeps the same shape: parameters and their assumptions, one action
per call, invariants as conjunctions of named parts, no RECURSIVE operator.

## 3. The model of `pcas index`

### `PcasIndex`

The file system is a set of inodes, each with `content` and `mtime`, and three
kinds of hard links: `visible` paths, object `entries` (digest, index time,
inode; the shard directory and the suffix are left out) and links staged in
`tmp`.  A digest stands for the bytes that hash to it.  `NLink` counts links of
all three kinds, and an inode nobody links is free to be handed out again.

Each process has a program counter and the local variables of the code:

| Variable | Code |
|---|---|
| `lock` | the advisory lock on `.pcas/index.lock` |
| `opts` | the arguments of `index_root`: `rehash`, and the paths PATTERN selects |
| `index[p].records`, `.inodes` | `ObjectIndex::by_digest`, `by_inode` |
| `queue` | the part of `selected` still to visit; any order, as walkdir's is unspecified |
| `pending` | the candidates of the retained pass, then the records to prune |
| `verified` | the set of verified inodes |
| `job` | the locals of the path or object in hand: hashed digest and inode, entry, index time |
| `failed` | whether `outcome.failures` is non-empty |

One action is one system call together with the memory updates up to the next:

| Actions | Code |
|---|---|
| `Acquire`, `CleanStaleTmp`, `ScanObjectIndex`, `ScanRejects`, `DiscoverFiles`, `SetupFails` | `index_root` up to phase 2 |
| `VisitGone`, `VisitTrusted`, `VisitUntrusted`, `Hash`, `HashFails` | `reconcile_one_visible_file` |
| `ApplyReused`, `ApplyNew`, `ApplyChanged`, `ApplyDuplicate` | the cases of `apply_digest_for_visible_path` |
| `CreateObjectEntry`, `RenameObject`, `DropStale` and their failures | the three repairs |
| `StageLink`, `SwapIn`, `VerifySwap` and their failures | `dedup_visible_onto_canonical` |
| `RetainedSkip`, `RetainedHash`, `SettleSame`, `SettleChanged`, ... | the `--rehash` pass over retained objects |
| `PruneStat`, `PruneUnlink`, `FinishPrune`, `Release` | `prune` and the return |
| `Crash` | death of the process at any point |
| `UserReplaces`, `UserWritesInPlace`, `UserRemoves`, `UserMoves`, `UserLinks` | the owner (external) |

Points where the model follows the code rather than its comments: a record
leaves `ObjectIndex` before the rename or unlink is tried; `hard_link` takes the
inode the path names at that moment, not the hashed one; a failed metadata read
after a successful link or rename leaves an entry on disk that `ObjectIndex`
does not know; rename(2) over a link to the same inode does nothing and leaves
the staged link; a duplicate entry aborts the run also under `--rehash`.

Abstractions: SHA-256 has no collisions; index times are distinct whenever two
entries' names must be (the code has nanoseconds); the scan is one step, since
only the lock holder changes `entries`; the removal of `.pcas/tmp` is one step
unless it fails; one hash is one step, which `StableHash` justifies; failure
kinds and counters are one flag.

Definitions marked `Seeded bug` are not part of the specification.  Each is a
plausible mistake in the definition that follows it, kept to confirm that the
property it is paired with in `PROJECT.json` detects that mistake.

### `AtomicHash` and `StableHash`

`AtomicHash` is the promise `PcasIndex` builds on: a hash opens what the path
names and answers with the bytes that inode has at one instant, or with an
error.  `StableHash` is the code: `Open`, `PreStat`, `ReadBlock` until
`ReadEnd`, `PostStat`, with the attempt loop around them, while `Write` changes
any file to any other and `Rename` makes the path name any file or none.  The
variables are the locals of `hash_file_stable` and `hash_open_file`: `attempt`,
`fd`, `pre`, and `got`, the blocks fed to the hasher, whose length is the file
offset.  The refinement mapping is the identity on `named`, `bytes`, `fd` and
`answer`; the successful `PostStat` is the instant.  `Honest` says whether every
write advances the clock its mtime is taken from; without it the mapping fails.

`PcasIndex` merges opening and answering into `Hash`.  Between the two the path
may come to name another inode; there, the same state is reached by the owner
replacing the path after `Hash`.

### `PcasServe`

`PcasServe` EXTENDS `PcasIndex` with clients and their requests; an index step
(`IndexStep`) and an owner step (`OwnerStep`) are those of `PcasIndex`.  `req[c]`
is the handler of a client's request: where it is, the entry it resolved, its
one descriptor, the entity tag, the answer.

| Actions | Code |
|---|---|
| `Canonicalize`, `Stat`, `OpenPath` | the three calls of `resolve::finalize` |
| `ListShard`, `OpenObject` | `resolve_digest`, then `open_resolved_object` by name |
| `Fstat` | the metadata of the descriptor, and the representation made of it |
| `RespondNotModified`, `SendBody` | `If-None-Match`, and the body |
| `Send`, `Receive`, `cache` | the client (external): it keeps the copies of visible paths and revalidates them |

`seen[c]` records what the target has held since the request was sent; it is
what "an atomic reader could have had" means.  A file is served by its inode, and
an inode some descriptor has open is not handed out again.  An answer is
received before anything else happens, so that `seen` ends with the answer.
Failing calls of the server itself are left out, and a body is read in one
step: what rewriting a file under its stream does is `Respond`'s subject.

### `HttpPath`, `Preconditions`, `ByteRanges` and `Respond`

`HttpPath` maps a raw path to one outcome (`Route`): the digest route on the raw
text, percent-decoding segment by segment, reserved names, canonical form,
directory, `index.html` and trailing-slash rules; and the links of a listing
back to raw paths (`LinkTo`).  A name is a sequence of atoms, as file systems
allow them (`IsName`: not empty, neither `.` nor `..`, no slash or NUL); a raw segment is
a sequence of atoms each encoded or not, so decoding and encoding are what they
do rather than the identity.  `Preconditions` has `evaluate` and the `If-Range`
test, with the comparisons the `headers` crate makes: strong for `If-Match` and
`If-Range`, weak for `If-None-Match`, so that a tag matches its own weakened form.
`ByteRanges` has the grammar of `Range`, `clamp` and one round of `coalesce`,
next to what they mean on sets of byte positions (`Wanted`, `Separated`).  An
outcome names its `target`, the directory or file that is answered with, so that a
link can be held to its own entry.  A segment "." is dropped as `realpath` drops
it, which fails below anything that is not a directory (`DotsInDirs`).

`Respond` puts them together for one connection.  `Request` is every request
there is; `Requests`, a subset, those an instance sends.  `Handle` routes and opens,
`PreconditionBlocks`, `RangeRejected`, `FullResponse`, `ClampRanges`, `Coalesce`,
`SingleRange`, `Multipart` and `TooManyRanges` are the branches of `respond` in
its order, `ReadChunk` and `StreamEnds` are `ReaderStream`, and `NextPart`,
`PartBody`, `PartTrailer`, `FinalBoundary` the states of `multipart_stream`.
Meanwhile `Rewrite` changes the file in place and `Replace` renames another over
its path; `Disconnect` breaks a download off, after which the client may ask for its
rest under `If-Range` (`Resume`) or whether what it has is still good, by its
tag, by the tag as a proxy may have weakened it, both with the date, or by the date alone
(`Revalidate`);
a 304 leaves it its copy.  A byte is its position and the version of the file it is of.  A
part header, a line break and the last boundary count one each towards
Content-Length.  Every regular file of the site is a link to one file.
`resolve` and `open` are one step here, since `PcasServe` takes them apart.

### `LegacyStore`

A command is the list of library calls it makes (`Calls`); each process has a
script of commands and executes one system call or one SQL statement at a time.
Loops whose length is only known later put their calls at the head of the list;
a command without calls (no file, no tag) ends at once.  `Commands` is every
command a user can give, `Scenarios` those an instance gives: `ScenarioAssumption`
asks only that they are such commands, that the files there at first are whole,
that those the databases know, or an export left in its directory lists, are
there, and that a manifest there at first is a finished one (half a manifest is
what a run's own exports leave).

| Definitions | Code |
|---|---|
| `InsertBlob` ... `AllRelations`, `ForeignKeys`, `Rejected` | the statements, constraints and queries of `db.rs` |
| `AddPath`, `AddVerifiedPath`, `AddUrl`, `UnzipAndStore`, ... | the methods of `lib.rs`, the functions of `fetch.rs` |
| `AddPathCommand`, `AddUrlCommand`, `PackageCommand`, `Calls` | the commands of `main.rs` |
| `StoreLocked`, `PythonCall` | the Python classes and their mutex |
| `HashFile`, `StoreBlob`, `Seal` | `store_blob`; its `fs::copy` is `OpenCopy`, `CopyChunk`, `EndCopy` (external) |
| `ReadUpload`, `StoreBlobWithProgress`, `Persist` | `store_blob_with_progress` |
| `ExportPackage`, `CopyBlobTo`, `Collect`, `WriteExportMetadata` | `export_package` |
| `ImportBlobs`, `ImportBlob`, `ImportManifest`, `MergeMetadata`, `EnsurePackage` | `import_from` |
| `AgentLine`, `Mismatch`, `Register`, `CompleteUpload`, `UploadFails`, `HandleDownload` | `lfs.rs` |
| `Crash`, `CallFails`, `UploadCallFails`, `Edit` | death, failing calls, the owner overwriting a chunk in place (external) |

A digest is the sequence of chunks itself, so bytes and digests can be compared
and a torn file is visible.  `copied` and `doubtful` are history variables: which
files `fs::copy` has opened, and of which of them a copy was cut short or had a
source that did not hold its digest when it was opened or at any moment while it
was read.  `kept` is the metadata a command finds when it starts, `found` what it
found when it was started for the first time, before any crash, and `before` how
the last command ended.  A crashed process runs its command again.
A response that is not the zip asked for is refused where a missing one is, before
anything is stored, and is the body `Absent`.
Abstractions: listing the export directory is atomic; `Collect` reads one table in
one step, where `db.rs` asks for tags, metadata and relations one identifier at a
time (only an export next to writers could tell, and none of the properties is
about what such an export holds); a copy reads the file now
at its source path; the owner only overwrites single chunks; an agent whose pipe
breaks ends like one that crashed; temporary files left by a crash, notes of
relations, logical paths and descriptions are not represented; a manifest's maps
are gone through in one fixed order; blobs are read-only for their owner, too
(the process is not root).

### Configuration parameters

`UserWhileIndexing` says whether the owner may act while the lock is held,
`InPlaceWrites` whether the owner breaks the immutability contract of the
repository's README, `MtimeLag` by how many ticks an mtime may be older than
its write, `Faults` which calls may fail, `Crashes` whether processes may die.

## 4. Runs

| Run | Instance | Properties | Shows |
|---|---|---|---|
| `IndexConcurrent` | 2 processes, 2 paths, 3 inodes, 2 digests, 1 write; concurrent owner, all faults, crashes | `TypeOK`, `IndexMapsAgree`, `IndexOnDisk`, `PruneSafe` | the run's own bookkeeping survives everything at once |
| `IndexReplace` | 2 processes, quiet owner, replacement only, 2 writes; failing link, rename, unlink; crashes | `StagedLinkIntact`, `RunConverges`, `PruneComplete`, `VisibleContentKept` | under the documented contract nothing is lost and a clean run is complete |
| `IndexDamage` | 1 process, quiet owner, in-place writes with mtimes up to 1 tick old, 2 writes; crashes | `NextRunAccepts`, `RehashVerifiesAll`, `NoSilentlyWrongDigest`, `LossNeedsDamage` | damage is found, repaired by `--rehash`, and the only way to lose content |
| `IndexTermination` | 1 process, 2 inodes, concurrent owner with in-place writes; weak fairness | `Terminates` | every run ends |
| `IndexInPlaceLoss` | as `IndexDamage`, no crash | `VisibleContentKept` violated | finding 1 |
| `IndexDuplicate` | failing rename | `RehashRepairsDuplicates` violated | finding 2 |
| `IndexHashRace` | concurrent owner, replacement only | `NoSilentlyWrongDigest` violated | finding 3 |
| `StableHash` | 2 files of up to 2 blocks over 2 contents, 3 attempts as in the code, 3 writes; weak fairness | `TypeOK`, `UnstableOnlyWhenWritten`, `HashesOneInstant`, `LeavesOpenFile` | the stable hash implements the atomic one |
| `ServeWhileIndexing` | 1 client, 1 index process, 2 paths, 2 inodes, 2 digests, 1 write; failing rename, crashes, owner quiet during runs | `ServeTypeOK`, `AnswersLinearizable`, `ErrorsNeedRemoval`, `TagNamesBytes` | readers see one moment's truth although runs replace, rename, unlink and die |
| `Respond` | 22 paths, 540 combinations of preconditions, 70 range headers; file of 5, then 0, 3 or 6 bytes, chunks of 2, 1 write; weak fairness of the server | `RespondTypeOK`, `BodyExact`, `UnsatisfiableExact`, `UndisturbedComplete`, `ResumeOneVersion`, `RevalidationTrue`, `ListingLinksLive`, `Answered` | a response the client takes for complete is what it asked for, a copy is completed or confirmed only if it is of the version that is there, and a listing leads to its entries |
| `LegacyStore` | 2 processes, 2 roots, files of 2 chunks over 2 values, 16 scenarios, 1 fault, 1 edit; weak fairness | `LegacyTypeOK`, `DamageNeedsCause`, `AgentBlobsWhole`, `RowsBackedByFiles`, `AgentReplies`, `RetrySucceeds`, `ImportComplete`, `ImportKeepsValues`, `VerifiedAnswers`, `RoundTrip`, `CommandsEnd` | commands next to each other, crashed and repeated, keep the store usable |
| `StableHashCoarse` | as `StableHash`, 2 attempts, mtimes that need not move | `AnswerIsSnapshot` violated | finding 4 |

**Bounds.**  Two paths and three inodes are what one deduplication involves: the
duplicate, its canonical inode, and one more inode for a replacement in the
middle.  Two digests are an old and a new content.  `MaxClock` bounds only the
owner's *writes*; removals, moves and links are not bounded, nor are runs, so
every instance contains arbitrarily long sequences of runs.  One write in the
concurrent instance is enough to change or replace a file at every step of a
run, and its initial states already hold every tree over the inodes; two writes
elsewhere allow damage followed by a second one.  Two processes are there for
the lock; all other interaction goes through the disk, which crashes and later
runs of one process already exercise.  Symmetry is used on all sets of model
values in the safety runs and never in the liveness run.  The mtime of an
untouched file is 0 and an index time is the clock, so equality of mtime and
index time, the boundary of the fast path, occurs in every instance.  In `StableHash`, two blocks are
the least a torn read needs, two files the least a renamed path needs, and three
writes are as many as exhaust the three attempts.

`ServeWhileIndexing` has one client because clients only read and meet in
nothing but the tags they keep, of which one client's cache from an earlier
request already is another's; two inodes are enough for an inode number to be
reused while a copy with its tag is cached.  In `Respond`, five bytes and chunks
of two give chunks that are full, partial and at the end; three ranges are as
many as the raw limit, two as the coalesced one, so each limit is met and
exceeded; `MaxU64` is 9 so that a number can overflow; two ticks per second make
two writes of one second.  One write shrinks the file, empties it, grows it or
replaces it at any step of a response, between a download and its resumption
included.  The tags sent as conditions are those the server gives, the weak one's
counterpart without `W/`, the strong one's with it, and one of nothing.
In `LegacyStore`, two chunks are the least a torn file needs; the
scenarios pair the commands that meet in a blob, a row, a package or the export
directory, with the inputs that take each branch (missing file, wrong digest,
directory and nameless zip entries, a body that is missing or no zip, unparsable
line, absent manifest); the round trip is made into a root with nothing and into
one with metadata of its own.

**Deadlock.**  Checked in every run but `LegacyStore`, whose scripts end:
elsewhere a process can always start another run, or a client send a request.

**Fairness.**  `FairSpec` asks for weak fairness of each process's next step.  A
run is one thread making system calls one after the other; nothing it waits for
exists (`try_lock` does not wait), so only a crash keeps it from going on, and
crashes are off in the liveness run.  Starting a run is not part of the fair
action, nor is anything the owner does.  In `StableHash` the fair action leaves
out `CallFails`, which may but need not happen, and `Open` is fair only while
the path names a file.  `RespondSpec` asks for weak fairness of the server's
step: the runtime polls a handler or body for as long as its client reads; no
client need send, resume, revalidate, disconnect or be prompt.  `LegacySpec` asks for weak
fairness of a step of *some* running process, not of each one: the operating
system runs a process that is ready, and none waits for another (a statement
that finds the database busy fails, which is `CallFails`).

## 5. Findings

1. **Deduplication onto a damaged object loses the good copy**
   (`IndexInPlaceLoss`).  Two files have equal bytes; one is indexed, then edited
   in place.  The next `pcas index` that visits the *other* file first finds an
   entry with its digest, does not read it, and replaces the file by a link to
   the edited inode.  The repository's README calls in-place edits damage
   "repaired by the next `pcas index`".  `LossNeedsDamage` shows that this is the
   only way: without a damaged entry no run changes a visible byte.
2. **`--rehash` does not repair duplicate entries** (`IndexDuplicate`), though
   the README and the error text of `pcas path` send users there: the scan
   aborts first.  A failed rename inside a run is enough to create one.  In the
   trace, `v1` and `v2` are two inodes with the same bytes, and a run on `v1`
   alone indexes it; the owner then writes other bytes into `v1` in place.  The
   next run, on both, visits `v1` first and finds its digest changed: it forgets
   the record, the rename of the entry fails, and the old entry stays on disk.
   The run goes on to `v2`, whose digest the index no longer knows, and makes a
   second entry for it.  Every later run is refused by the scan, also one with
   `--rehash`.  The property leaves out a store in which one inode has
   entries for two digests, which the same failed rename can leave when another
   hard link of the inode is visited next, and which the scan refuses as well:
   the repository's README promises a repair for duplicates only.
3. **A path replaced between its hash and its hard link gets the old digest**
   (`IndexHashRace`), and the mtime fast path trusts it from then on, though
   all mtimes are honest.
4. **A write that moves neither size nor mtime is not noticed by the stable
   hash** (`StableHashCoarse`), though the comment on `FileSnapshot` says any
   in-place mutation is, and `--rehash` relies on it.

## 6. Proofs

`tlapm` checks all of these.  Those on `PcasIndex` hold for any number of processes, paths,
inodes and digests (paths finite) and any bounds, from `SentinelAssumption` and
`ModelAssumption` only.

* **`PcasIndexProofs`.**  `TypeCorrect`, `OneRunAtATime`, `MapsAlwaysAgree`,
  `RecordsAlwaysOnDisk`, `StagedLinksStay`.  None of the last four is inductive
  alone.  The invariant is `TypeInv` (the type invariant and, in `JobOK`, what
  `job` holds at each label) with `IndexInv`: only the lock holder is away from
  "idle" (`LockInv`), and for each process `MapsAgree` (the two maps are
  inverse on the record's inodes, which `Removed` needs), `FreshDigest` (at
  "create" and "rename" no record has the new digest, which `Inserted` needs)
  and `DiskInv` (records and the entry in hand are on disk, the staged link is
  in `tmp`).  Mutual exclusion carries `DiskInv`: another process would need
  the lock to touch `entries` or `tmp`, and the owner touches neither.
  Under `Disciplined` (no in-place writes, no owner activity during a run),
  `EntriesAlwaysTrue`: every entry has the digest of its bytes, and
  `ContentAlwaysKept`: `VisibleContentKept` holds.  `ContentInv` adds that what a
  process has in hand is true as well: the hashed digest is that of the path's
  content and the staged link has it.  An inode cannot change under an entry
  because the owner writes free inodes only.  Finding 1 is what happens without
  this assumption.  `PruneAlwaysSafe` needs no discipline: between the stat and
  the unlink the owner may do anything, but visible links are only made from
  visible links, or to free inodes, and the process itself stages none, so an
  inode with the entry as its only link stays without a visible one.
* **`PcasIndexQuietProofs`**, for an owner who may write indexed files in place,
  but not during a run (`OwnerQuiet`).  `NeverSilentlyWrong`,
  `LossAlwaysNeedsDamage`, `PruneAlwaysComplete` and `RehashAlwaysVerifies` assume
  nothing else.  `NextRunAlwaysAccepts` also asks that only links fail, or that
  nothing is written in place and no stat fails: otherwise finding 2 is how the
  next scan comes to refuse.  `RunAlwaysConverges` is for a `Disciplined` owner.
  The invariants say what a run may rely on in the middle of its work:
  `MemInv` (`ObjectIndex` is a bijection, the bytes hashed are those of the inode
  in hand and are still there, the retained pass never returns to an entry it
  settled), `ClockInv` (an index time is never in the future, and an entry older
  than its inode's mtime by the margin is true), `RunInv` (a run without a failure
  knows every entry on disk, has only its own staged link, and every entry left
  unverified or unlinked is one it will still come to), `ScanInv` (the disk is
  always an index a scan accepts) and, for convergence, `Converging` (every
  selected path is linked, or still to be visited, or the one in hand).
* **`StableHashProofs`.**  `HashTypeCorrect`, `UnstableNeedsWriters` and the
  refinement `HashingIsAtomic`, all for honest mtimes.  The invariant: while the
  open file's mtime is the one in the first snapshot, the blocks hashed so far
  are a prefix of the file (`PrefixInv`), because a write stamps a time that no
  snapshot can hold yet (`ClockInv`); each attempt given up was voided by a
  write of its own (`AttemptInv`).
* **`PcasServeProofs`**, for any number of clients.  `ServeOnlyReads`: a step of
  the server leaves `PcasIndex` as it is, so everything above holds while the
  tree is served.  `ServeTypeCorrect`, `ServeLinearizable`,
  `ServeErrorsNeedRemoval` and `TagsNameBytes` hold under `Undamaged`: the owner
  is `Disciplined`, mtimes do not lag their writes, and only `link` and `rename`
  fail.  The invariant adds two parts to the `ContentInv` of `PcasIndexProofs`.
  `UniqueInv`: while a run reconciles, `ObjectIndex` knows every entry on disk,
  so no digest has two entries, and a failed listing can only be a missing
  digest; a stat that fails after a link, or an unlink that fails, breaks this
  (finding 2), which is why those faults are excluded.  `ClientInv`: no mtime is
  in the future, what a request holds at each stage was true of its target at
  some moment in `seen`, and the bytes a client keeps under a weak tag are those
  of the tag's inode as long as it has the tag's mtime.

* **`RespondProofs`**, for every site, every set of requests, every length, chunk
  size, limit and number of writes, from `SiteAssumption`, `RangeAssumption`,
  `HeaderAssumption` and `RespondAssumption`.  `RespondTypeCorrect`, `BodiesAreExact`, `RefusalsAreExact`
  and `UndisturbedIsComplete` follow from `BodyInv`, which ties what is sent, what
  is ahead and what was promised together at every stage: merged ranges and
  those still to merge are the bytes asked for (`CoalesceInv`), bytes sent come
  before all those ahead and Content-Length is the sum of both (`StreamInv`,
  `PartInv`), an unwritten file keeps the length that was promised (`LengthInv`).
  `ResumedIsOneVersion` adds `VersionInv`: what a descriptor and a half download
  hold, and which writes their tag and date can tell apart; `CopiesRevalidate`
  follows from it, with what it says of the tag and date a copy was sent under
  (`TagInv`).  `TagsDecide` is about
  the order of evaluation for every combination of conditions
  (`TagsOutrankDates`), of which the run has a client's tag with its date.
  `LinksAreLive`, that a link is answered with its own entry and no other, rests
  on two lemmas about `HttpPath`: what a link encodes decodes to the name, and is
  in canonical form.
* **`LegacyStoreProofs`**, for any processes, roots, scripts, files and faults, from
  `LegacyAssumption` and `ScenarioAssumption`.  `RowsAlwaysBacked` is not
  inductive: a statement inserts a row whose file an earlier call of the same
  command made, perhaps long before.  `LegacyInv` therefore says of the calls a
  command has *left* that none inserts a row before the call that gets its file
  (`Remaining`; a fact about `Calls` that every command list is shown to have),
  of the call in progress how far it can be (`Position`, `Stage`) and that its
  files are there (`Footing`).  `LegacyTypeCorrect` comes with it.
  `AgentNeverLeavesPart` and `DamageHasCause` are about the blobs.  Several copies
  may write one blob at once, so `SoundCopies` says of a file nobody has reason to
  doubt that every open copy reads the bytes of its digest and every chunk that is
  not right yet lies ahead of one of them; `CopiedOnly` that a file `fs::copy` never
  opened is whole.
* **`LegacyStoreCommandProofs`.**  A frame (`Move`, `SamePlace`) says how one step
  moves its process through its list of calls and that it moves no other.
  `AnswersVerified`: `VerifyInv` follows the digest from the pass that checks it to
  the pass that stores it.  `ImportsComplete`: `ImportInv` says that everything the
  manifest lists is in the database, or is left to a call the import still has to
  make, or was in a package some command removes; it needs that no statement of
  another process takes anything else away (`DatabaseKept`).
  `ImportsKeepValues`, an action property: `MergeInv` says that what was set when
  an import started stays set, and that its `set_metadata` calls are for other
  identifiers.  (An identifier without a value then can be set by another command
  between the query and the statement of the import; the property leaves it out.)
  `EveryRequestAnswered`: `AgentInv` pairs the requests read with the answers
  written, in their order (`Dealt`), says that an upload in progress has last
  reported exactly what it has read (`Uploading`) and that no object whose success
  was reported leaves the store (`Succeeds`).  That requests and answers are as
  many, and correspond by rank, is derived once from such a pairing.
  `ImportsMirrorExports`: with nobody else at work, `TransferInv` says of an export
  that what it has collected is exactly what the database holds of the package
  (`Exact`) and that the manifest file has it in the end (`Recorded`), of the
  import that follows that the exported root's entries of the package are all in
  the manifest (`Synced`), also while a crashed import is run again, also when both
  roots are one; with `ImportsComplete` for that manifest, everything is there.  For
  the values, `ValuesOK` follows them: those in the manifest are those of the
  exporting root, every call left sets what the manifest lists, where nothing was
  found when the import was first started, and the importing root has what was
  found and otherwise only what the manifest lists.

* **`LegacyStoreRetryProofs`.**  `RetriesSucceed`, in two invariants.  `CarryInv`, whoever
  runs and dies: a blob a manifest lists is in the export directory, or left to a
  copy the export makes before it writes the manifest; a manifest is cut short
  only if some command exports.  `RetryInv`: as long as nobody has interfered with
  a command that has what it is given (`Welcome`), every call it has left `Fits`,
  that is, it finds what it needs, or a call before it brings it: a name comes
  right after its blob, a package is emptied right before it is deleted and made
  before it is filled, and a blob of the import is in its directory and gets its
  row before the manifest is read.  It says nothing of blobs, rows or packages that
  are there already, so whatever a crash left cannot break it.  The steps of other
  processes are harmless because they stop the command from being alone; under
  the mutex of a shared Python `Store` only one process runs at all.  A command's
  own step keeps it, which needs one lemma for every call that puts others at the
  head of the list (`ExpandingFits`, `BlobsFit`, `ManifestFits`).

Two techniques recur.  Induction over the length of a sequence is stated for a
set of numbers (`SetInduction`), because the library's induction theorems take an
operator; what `FlattenSeq` and `SetToSeq` return is derived from it.  And what a
list of calls, or a record, looks like after an update is a lemma of its own, so
that the steps only cite it.

**Model-checked only.**  `Terminates`, `LeavesOpenFile`, `Answered` and
`CommandsEnd`: liveness is outside the prover's reach.  Every safety invariant and
every action property of a passing run is a theorem.

## 7. Not modelled

The components marked so in the inventory, with the reasons given in
`PROJECT.json`.  Within `pcas index`: legacy-root refusal and name parsing
(they only refuse a root before anything happens), glob matching, suffixes,
symbolic links and special files (never candidates), device boundaries (a
failing link), counters and the printed report.  Within `pcas serve`: symbolic
links, a tree that changes between the listing of a directory and its `stat`s,
failing calls of the server (each becomes a 500 or a broken connection), MIME
types, HTML layout, the socket and hyper.  Within the legacy store: read-only
listings, and what `LegacyStore` above names as abstractions.

Two behaviours the models show and no property forbids, because no document
promises otherwise: a blob truncated by a crash in `fs::copy` stays under its
name and later adds take it for complete (`DamageNeedsCause` says what causes
it); and an export cannot be repeated onto the same directory, because the
copies are read-only.

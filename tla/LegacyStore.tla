----------------------------- MODULE LegacyStore -----------------------------
(***************************************************************************)
(* The older, database-backed store: blob files under <root>/sha256 and    *)
(* the rows of purecas.db, used by the commands add-path, add-url, pkg,     *)
(* tag, meta, rel, export, import and lfs-agent and by the Python classes.  *)
(*                                                                         *)
(* A command is a list of library calls (Calls); a process executes the    *)
(* list one system call or SQL statement at a time, next to other           *)
(* processes, and may fail or die between any two.  Calls whose work is     *)
(* only known when they run (a zip, an export, an import) put the calls     *)
(* they make at the head of the list.                                      *)
(*                                                                         *)
(* A file is a sequence of chunks; its digest is the sequence itself, so    *)
(* two files have one digest exactly when they have the same bytes.         *)
(* Notes of relations, logical paths and descriptions are left out.         *)
(***************************************************************************)
EXTENDS Naturals, Sequences, SequencesExt, FiniteSets

CONSTANTS
    Procs, Roots, Sources, Atoms, Packages, Names, Tags, Values,
    Size,           \* chunks of a file
    ExportDir,      \* the directory given to --to and --from
    Scenarios,      \* what the processes are asked to do, and where they start
    MaxFaults,      \* bound on crashes and failing calls
    MaxEdits,       \* bound on the chunks the owner overwrites
    Hole, Absent, NoFile, NoValue, NoManifest, Torn, Added

Digest == [1..Size -> Atoms]
Places == Roots \cup {ExportDir}
Ids == Digest \cup Packages

(* A local file is named in the database by its path.                      *)
ASSUME LegacyAssumption ==
    /\ ExportDir \notin Roots
    /\ {Size, MaxFaults, MaxEdits} \subseteq Nat
    /\ \A S \in {Atoms, Packages, Names, Tags} : IsFiniteSet(S)
    /\ Sources \subseteq Names
    /\ Sources \cap Digest = {} /\ Absent \notin Sources \cup Digest
    /\ Added \notin Ids
    /\ NoValue \notin Values \cup Digest /\ NoManifest # Torn
    /\ NoFile \notin [data : Seq(Atoms \cup {Hole}), readonly : BOOLEAN]

VARIABLES
    source,     \* the owner's files
    files,      \* sha256/<prefix>/<hash> in every root and the export directory
    db,         \* purecas.db of every root
    manifest,   \* purecas-export.json
    run,        \* what each process is doing
    out,        \* what each transfer agent has written
    threads,    \* the processes are threads sharing one Python Store
    edits, faults,
    copied,     \* history: files fs::copy has opened
    doubtful    \* history: files of which a copy was cut short, or whose
                \* source did not have the digest while it was copied

vars == <<source, files, db, manifest, run, out, threads, edits, faults,
          copied, doubtful>>

-----------------------------------------------------------------------------
(* purecas.db.  Every statement commits by itself; foreign keys are on.    *)

EmptyDb ==
    [rows |-> {}, names |-> {}, packages |-> {}, members |-> {}, tags |-> {},
     metadata |-> [id \in Ids |-> NoValue], relations |-> {}]

ForeignKeys(d) ==
    /\ \A row \in d.names : row[1] \in d.rows
    /\ \A row \in d.members : row[1] \in d.packages /\ row[2] \in d.rows

InsertBlob(d, c) == [d EXCEPT !.rows = @ \cup {c.hash}]
InsertBlobName(d, c) == [d EXCEPT !.names = @ \cup {<<c.hash, c.name>>}]
CreatePackage(d, c) == [d EXCEPT !.packages = @ \cup {c.name}]
AddBlobToPackage(d, c) == [d EXCEPT !.members = @ \cup {<<c.name, c.hash>>}]
DeleteMembers(d, c) == [d EXCEPT !.members = {m \in @ : m[1] # c.name}]
DeletePackage(d, c) == [d EXCEPT !.packages = @ \ {c.name}]
AddTag(d, c) == [d EXCEPT !.tags = @ \cup {<<c.hash, c.tag>>}]
SetMetadata(d, c) == [d EXCEPT !.metadata[c.hash] = c.value]
AddRelation(d, c) == [d EXCEPT !.relations = @ \cup {<<c.hash, c.target>>}]

PackageExists(d, name) == name \in d.packages
ShowPackage(d, name) == {m[2] : m \in {m \in d.members : m[1] = name}}
AllBlobNames(d, hashes) == {n \in d.names : n[1] \in hashes}
AllTags(d, ids) == {t \in d.tags : t[1] \in ids}
AllMetadata(d, ids) == [id \in Ids |-> IF id \in ids THEN d.metadata[id] ELSE NoValue]
AllRelations(d, hashes) == {r \in d.relations : r[1] \in hashes}

Statements ==
    {"insert_blob", "insert_blob_name", "create_package", "add_blob_to_package",
     "delete_members", "delete_package", "add_tag", "set_metadata", "add_relation"}

Execute(d, c) ==
    CASE c.op = "insert_blob" -> InsertBlob(d, c)
      [] c.op = "insert_blob_name" -> InsertBlobName(d, c)
      [] c.op = "create_package" -> CreatePackage(d, c)
      [] c.op = "add_blob_to_package" -> AddBlobToPackage(d, c)
      [] c.op = "delete_members" -> DeleteMembers(d, c)
      [] c.op = "delete_package" -> DeletePackage(d, c)
      [] c.op = "add_tag" -> AddTag(d, c)
      [] c.op = "set_metadata" -> SetMetadata(d, c)
      [] c.op = "add_relation" -> AddRelation(d, c)

(* Seeded bug: foreign keys are off. *)
RejectedDuplicates(d, c) == c.op = "create_package" /\ PackageExists(d, c.name)

Rejected(d, c) ==
    \/ c.op = "create_package" /\ PackageExists(d, c.name)
    \/ ~ForeignKeys(Execute(d, c))

-----------------------------------------------------------------------------
(* What the library functions and the commands call, in order.  The hash   *)
(* Added stands for the digest of the blob stored last.  fetch and          *)
(* fetch-unzip are the public functions of fetch.rs: they write no rows.    *)

Stores(input) == << [op |-> "store", input |-> input] >>
Stored(input, name) ==
    Stores(input)
    \o << [op |-> "insert_blob", hash |-> Added],
          [op |-> "insert_blob_name", hash |-> Added, name |-> name] >>

AddPath(file) == Stored(file, file)
AddVerifiedPath(file, expected) ==
    << [op |-> "verify_path", input |-> file, expected |-> expected] >> \o AddPath(file)

Download(body, expected) ==
    << [op |-> "download", body |-> body, expected |-> expected] >>
AddUrl(body, name) == Download(body, NoValue) \o Stored(body, name)
AddVerifiedUrl(body, name, expected) == Download(body, expected) \o Stored(body, name)

Skipped(entry) == entry.dir \/ entry.name = NoValue
UnzipAndStore(archive) ==
    FlattenSeq([i \in 1..Len(archive) |->
        IF Skipped(archive[i]) THEN <<>> ELSE Stored(archive[i].body, archive[i].name)])
FetchAndStore(body, expected) == Download(body, expected) \o Stores(body)
FetchUnzipAndStore(body, archive, expected) ==
    Download(body, expected)
    \o FlattenSeq([i \in 1..Len(archive) |->
           IF Skipped(archive[i]) THEN <<>> ELSE Stores(archive[i].body)])
AddUrlUnzip(body, archive) == Download(body, NoValue) \o UnzipAndStore(archive)
AddVerifiedUrlUnzip(body, archive, expected) ==
    Download(body, expected) \o UnzipAndStore(archive)

AddTags(id, tags) == [i \in 1..Len(tags) |-> [op |-> "add_tag", hash |-> id, tag |-> tags[i]]]
BlobMetadata(id, value) == << [op |-> "set_metadata", hash |-> id, value |-> value] >>

AddPathCommand(c) ==
    FlattenSeq([i \in 1..Len(c.files) |->
        AddPath(c.files[i]) \o AddTags(Added, c.tags)
        \o (IF c.meta = NoValue THEN <<>> ELSE BlobMetadata(Added, c.meta))])

AddUrlCommand(c) ==
    CASE c.expected # NoValue /\ c.unzip -> AddVerifiedUrlUnzip(c.body, c.archive, c.expected)
      [] c.expected # NoValue /\ ~c.unzip -> AddVerifiedUrl(c.body, c.name, c.expected)
      [] c.expected = NoValue /\ c.unzip -> AddUrlUnzip(c.body, c.archive)
      [] OTHER -> AddUrl(c.body, c.name)

RemovePackage(name) ==
    << [op |-> "delete_members", name |-> name], [op |-> "delete_package", name |-> name] >>

PackageCommand(c) ==
    CASE c.cmd = "pkg-create" -> << [op |-> "create_package", name |-> c.name] >>
      [] c.cmd = "pkg-add" ->
            [i \in 1..Len(c.hashes) |->
                [op |-> "add_blob_to_package", name |-> c.name, hash |-> c.hashes[i]]]
      [] c.cmd = "pkg-rm" -> RemovePackage(c.name)

Calls(c) ==
    CASE c.cmd = "add-path" -> AddPathCommand(c)
      [] c.cmd = "add-verified-path" -> AddVerifiedPath(c.file, c.expected)
      [] c.cmd = "add-url" -> AddUrlCommand(c)
      [] c.cmd = "fetch" -> FetchAndStore(c.body, c.expected)
      [] c.cmd = "fetch-unzip" -> FetchUnzipAndStore(c.body, c.archive, c.expected)
      [] c.cmd \in {"pkg-create", "pkg-add", "pkg-rm"} -> PackageCommand(c)
      [] c.cmd = "export" -> << [op |-> "export", name |-> c.name] >>
      [] c.cmd = "import" -> << [op |-> "import_blobs"], [op |-> "import_manifest"] >>
      [] c.cmd = "tag" -> AddTags(c.id, c.tags)
      [] c.cmd = "meta" -> BlobMetadata(c.id, c.value)
      [] c.cmd = "rel" -> << [op |-> "add_relation", hash |-> c.id, target |-> c.target] >>
      [] c.cmd = "lfs-agent" -> c.input

(* The methods of the Python classes; each holds the Store's mutex until   *)
(* it returns.                                                             *)
StoreMethod(c) ==
    c.cmd \in {"add-path", "add-verified-path", "add-url", "pkg-create", "import"}
BlobMethod(c) == c.cmd \in {"tag", "meta", "rel"}
PackageMethod(c) == c.cmd \in {"pkg-add", "pkg-rm", "export"}
PythonCall(c) == StoreMethod(c) \/ BlobMethod(c) \/ PackageMethod(c)

StoreLocked == threads /\ \E q \in Procs : run[q].status = "running"

-----------------------------------------------------------------------------
(* What can be asked of a process, and what it can start from.             *)

Lines ==
    [op : {"upload"}, oid : Digest, input : Sources] \cup [op : {"fetch"}, oid : Digest]
    \cup [op : {"init", "blank", "unparsable", "terminate"}]

Archives ==
    Seq([dir : {TRUE}, name : Names \cup {NoValue}, body : {NoValue}]
        \cup [dir : {FALSE}, name : Names \cup {NoValue}, body : Digest])

Urls(cmd, expected) ==
    [cmd : cmd, root : Roots, body : Digest \cup {Absent}, name : Names,
     expected : expected, unzip : BOOLEAN, archive : Archives]

Commands ==
    [cmd : {"add-path"}, root : Roots, files : Seq(Sources), tags : Seq(Tags),
     meta : Values \cup {NoValue}]
    \cup [cmd : {"add-verified-path"}, root : Roots, file : Sources, expected : Digest]
    \cup Urls({"add-url"}, Digest \cup {NoValue})
    \cup Urls({"fetch", "fetch-unzip"}, Digest)
    \cup [cmd : {"pkg-create", "pkg-rm", "export"}, root : Roots, name : Packages]
    \cup [cmd : {"pkg-add"}, root : Roots, name : Packages, hashes : Seq(Digest)]
    \cup [cmd : {"import"}, root : Roots]
    \cup [cmd : {"tag"}, root : Roots, id : Ids, tags : Seq(Tags)]
    \cup [cmd : {"meta"}, root : Roots, id : Ids, value : Values]
    \cup [cmd : {"rel"}, root : Roots, id : Digest, target : Digest]
    \cup [cmd : {"lfs-agent"}, root : Roots, input : Seq(Lines)]

Metadata == [Ids -> Values \cup {NoValue}]

Databases ==
    [rows : SUBSET Digest, names : SUBSET (Digest \X Names), packages : SUBSET Packages,
     members : SUBSET (Packages \X Digest), tags : SUBSET (Ids \X Tags),
     metadata : Metadata, relations : SUBSET (Digest \X Digest)]

Manifests ==
    [package : Packages, hashes : SUBSET Digest, names : SUBSET (Digest \X Names),
     tags : SUBSET (Ids \X Tags), metadata : Metadata, relations : SUBSET (Digest \X Digest)]

(* The files that are there are whole, those the databases know are there, *)
(* and a manifest that is there is one export_package finished: it is       *)
(* written after the blobs it lists.                                        *)
ASSUME ScenarioAssumption ==
    \A s \in Scenarios :
        /\ s.scripts \in [Procs -> Seq(Commands)]
        /\ s.source \in [Sources -> Digest \cup {Absent}]
        /\ s.db \in [Roots -> Databases]
        /\ s.manifest \in (Manifests \cup {NoManifest}) \ {Torn}
        /\ s.manifest # NoManifest =>
             /\ \A h \in s.manifest.hashes : s.files[<<ExportDir, h>>] # NoFile
             /\ \A row \in s.manifest.names : row[1] \in s.manifest.hashes
        /\ s.files = [t \in Places \X Digest |-> s.files[t]]
        /\ \A t \in Places \X Digest :
             s.files[t] \in {NoFile} \cup [data : {t[2]}, readonly : BOOLEAN]
        /\ \A r \in Roots : /\ ForeignKeys(s.db[r])
                            /\ \A h \in s.db[r].rows : s.files[<<r, h>>] # NoFile

-----------------------------------------------------------------------------
(* A process.                                                              *)

Command(p) == run[p].script[run[p].next]
Root(p) == Command(p).root
Call(p) == Head(run[p].calls)

At(p, pc, ops) ==
    run[p].status = "running" /\ run[p].pc = pc /\ Call(p).op \in ops

(* The current call with Added replaced by the digest stored last.          *)
Resolved(p) ==
    IF "hash" \in DOMAIN Call(p) /\ Call(p).hash = Added
    THEN [Call(p) EXCEPT !.hash = run[p].digest] ELSE Call(p)

(* The call of process record r returns after putting calls before the     *)
(* remaining ones; the command succeeds when none is left.                  *)
Returns(r, calls) ==
    [r EXCEPT !.calls = calls \o Tail(@), !.pc = "call", !.buf = <<>>,
              !.status = IF calls \o Tail(r.calls) = <<>> THEN "ok" ELSE "running"]
(* The command ends without having done everything.                         *)
Ends(r, status) ==
    [r EXCEPT !.calls = <<>>, !.pc = "call", !.buf = <<>>, !.status = status]

(* Process p goes to record r; its steps are seen by the running commands. *)
Goes(p, r) ==
    run' = [q \in Procs |->
              IF q = p THEN r
              ELSE [run[q] EXCEPT !.alone = @ /\ run[q].status # "running"]]

ReadsOnly == UNCHANGED <<source, files, db, manifest, out, threads, edits, faults, copied, doubtful>>
KeepsRest == UNCHANGED <<source, db, manifest, out, threads, edits, faults>>

Exists(place, hash) == files[<<place, hash>>] # NoFile

(* Command line or Python call: a command that crashed is run again, the   *)
(* next one is run when it ended.  History: `before` is how the last one    *)
(* ended, `kept` is the metadata the root has when the command starts, and  *)
(* `found` the metadata it had when it was started for the first time.      *)
Start(p) ==
    LET next == IF run[p].status \in {"ok", "err", "fault"}
                THEN run[p].next + 1 ELSE run[p].next
        c == run[p].script[next]
    IN  /\ run[p].status # "running"
        /\ next <= Len(run[p].script)
        /\ threads => PythonCall(c) /\ ~StoreLocked
        /\ run' = [run EXCEPT ![p] =
                     [@ EXCEPT !.next = next, !.calls = Calls(c),
                               !.before = IF next = run[p].next THEN run[p].before
                                          ELSE run[p].status,
                               !.status = IF Calls(c) = <<>> THEN "ok" ELSE "running",
                               !.pc = "call", !.alone = TRUE, !.manifest = NoManifest,
                               !.kept = db[c.root].metadata,
                               !.found = IF run[p].status = "crashed" THEN run[p].found
                                         ELSE db[c.root].metadata]]
        /\ out' = [out EXCEPT ![p] = <<>>]
        /\ UNCHANGED <<source, files, db, manifest, threads, edits, faults, copied, doubtful>>

Statement(p) ==
    /\ At(p, "call", Statements)
    /\ LET d == db[Root(p)] IN
       IF Rejected(d, Resolved(p))
       THEN Goes(p, Ends(run[p], "err")) /\ UNCHANGED db
       ELSE /\ db' = [db EXCEPT ![Root(p)] = Execute(d, Resolved(p))]
            /\ Goes(p, Returns(run[p], <<>>))
    /\ UNCHANGED <<source, files, manifest, out, threads, edits, faults, copied, doubtful>>

-----------------------------------------------------------------------------
(* store.rs.                                                               *)

Bytes(input) == IF input \in Sources THEN source[input] ELSE input

(* read, until the end of the file.                                         *)
HashFile(p) ==
    LET bytes == Bytes(Call(p).input) IN
    /\ At(p, "call", {"store", "verify_path"})
    /\ bytes # Absent => Len(run[p].buf) < Len(bytes)
    /\ Goes(p, IF bytes = Absent THEN Ends(run[p], "err")
               ELSE [run[p] EXCEPT !.buf = Append(@, bytes[Len(@) + 1])])
    /\ ReadsOnly

Hashed(p) ==
    /\ Bytes(Call(p).input) # Absent
    /\ Len(run[p].buf) = Len(Bytes(Call(p).input))

StoreBlob(p) ==
    LET hash == run[p].buf
        found == [run[p] EXCEPT !.digest = hash]
    IN  /\ At(p, "call", {"store"})
        /\ Hashed(p)
        /\ Goes(p, IF Exists(Root(p), hash) THEN Returns(found, <<>>)
                   ELSE [found EXCEPT !.pc = "open", !.buf = <<>>])
        /\ ReadsOnly

VerifyPath(p) ==
    /\ At(p, "call", {"verify_path"})
    /\ Hashed(p)
    /\ Goes(p, IF run[p].buf = Call(p).expected THEN Returns(run[p], <<>>)
               ELSE Ends(run[p], "err"))
    /\ ReadsOnly

(* fs::copy: the calls it serves, what they read and what they write.       *)
Copies == {"store", "import_blob", "export_blob"}

From(p) ==
    CASE Call(p).op = "store" -> [data |-> Bytes(Call(p).input), readonly |-> FALSE]
      [] Call(p).op = "import_blob" -> files[<<ExportDir, Call(p).hash>>]
      [] Call(p).op = "export_blob" -> files[<<Root(p), Call(p).hash>>]

Target(p) ==
    CASE Call(p).op \in {"store", "upload"} -> <<Root(p), run[p].digest>>
      [] Call(p).op = "import_blob" -> <<Root(p), Call(p).hash>>
      [] Call(p).op = "export_blob" -> <<ExportDir, Call(p).hash>>

Reads(p) ==
    CASE Call(p).op = "store" -> Call(p).input
      [] Call(p).op = "import_blob" -> <<ExportDir, Call(p).hash>>
      [] Call(p).op = "export_blob" -> <<Root(p), Call(p).hash>>

Writing(p, t) == At(p, "write", Copies) /\ run[p].linked /\ Target(p) = t

(* The files being copied from x.                                           *)
CopiesOf(x) ==
    {t \in Places \X Digest : \E p \in Procs : Writing(p, t) /\ Reads(p) = x}

(* The destination is truncated, and gets the mode of the source, before   *)
(* the first byte; a read-only one cannot be opened.                        *)
OpenCopy(p) ==
    LET t == Target(p) IN
    /\ At(p, "open", Copies)
    /\ IF From(p) = NoFile \/ (files[t] # NoFile /\ files[t].readonly)
       THEN Goes(p, Ends(run[p], "err")) /\ UNCHANGED <<files, copied, doubtful>>
       ELSE /\ files' = [files EXCEPT ![t] = [data |-> <<>>, readonly |-> From(p).readonly]]
            /\ Goes(p, [run[p] EXCEPT !.pc = "write", !.linked = TRUE])
            /\ copied' = copied \cup {t}
            /\ doubtful' = doubtful \cup CopiesOf(t)
                           \cup {u \in {t} : From(p).data # t[2]}
    /\ KeepsRest

(* Seeded bug: the destination is opened to append. *)
Appended(data, k, chunk) == Append(data, chunk)

Overwritten(data, k, chunk) ==
    [i \in 1..(IF k > Len(data) THEN k ELSE Len(data)) |->
        IF i = k THEN chunk ELSE IF i <= Len(data) THEN data[i] ELSE Hole]

CopyChunk(p) ==
    LET k == Len(run[p].buf) + 1
        t == Target(p)
        chunk == From(p).data[k]
    IN  /\ At(p, "write", Copies)
        /\ k <= Len(From(p).data)
        /\ files' = IF run[p].linked
                    THEN [files EXCEPT ![t].data = Overwritten(@, k, chunk)] ELSE files
        /\ Goes(p, [run[p] EXCEPT !.buf = Append(@, chunk)])
        /\ doubtful' = doubtful \cup {u \in CopiesOf(t) : files'[t].data # u[2]}
        /\ UNCHANGED copied /\ KeepsRest

(* Seeded bug: copies until the size it expects. *)
EndOfSize(p) == Len(run[p].buf) >= Size

EndOfFile(p) == Len(run[p].buf) >= Len(From(p).data)

EndCopy(p) ==
    /\ At(p, "write", Copies)
    /\ EndOfFile(p)
    /\ Goes(p, IF Call(p).op = "export_blob" THEN Returns(run[p], <<>>)
               ELSE [run[p] EXCEPT !.pc = "seal"])
    /\ ReadsOnly

(* set_permissions(0o444), by path.                                         *)
Seal(p) ==
    /\ At(p, "seal", {"store", "import_blob", "upload"})
    /\ files' = [files EXCEPT ![Target(p)].readonly = TRUE]
    /\ Goes(p, IF Call(p).op = "upload" THEN [run[p] EXCEPT !.pc = "register"]
               ELSE Returns(run[p], <<>>))
    /\ UNCHANGED <<copied, doubtful>> /\ KeepsRest

(* Seeded bug: the expected digest is not looked at. *)
FetchUnverified(p) ==
    /\ At(p, "call", {"download"})
    /\ Goes(p, IF Call(p).body = Absent THEN Ends(run[p], "err") ELSE Returns(run[p], <<>>))
    /\ ReadsOnly

(* The download and its verification work on a private temporary file.  A   *)
(* response that is not the zip the command asks for is refused before      *)
(* anything is stored: as a missing one, it is the body Absent.             *)
Fetch(p) ==
    /\ At(p, "call", {"download"})
    /\ Goes(p, IF Call(p).body = Absent \/ Call(p).expected \notin {NoValue, Call(p).body}
               THEN Ends(run[p], "err") ELSE Returns(run[p], <<>>))
    /\ ReadsOnly

-----------------------------------------------------------------------------
(* transfer.rs.                                                            *)

Prefixed(op, hashes) == [i \in 1..Len(hashes) |-> [op |-> op, hash |-> hashes[i]]]

ExportPackage(p) ==
    LET hashes == ShowPackage(db[Root(p)], Call(p).name) IN
    /\ At(p, "call", {"export"})
    /\ Goes(p, Returns([run[p] EXCEPT !.manifest =
                          [package |-> Call(p).name, hashes |-> hashes, names |-> {},
                           tags |-> {}, metadata |-> EmptyDb.metadata, relations |-> {}]],
                       Prefixed("export_blob", SetToSeq(hashes))
                       \o [i \in 1..4 |->
                             [op |-> "collect",
                              part |-> <<"names", "tags", "metadata", "relations">>[i]]]
                       \o << [op |-> "create_manifest"], [op |-> "write_manifest"] >>))
    /\ ReadsOnly

CopyBlobTo(p) ==
    /\ At(p, "call", {"export_blob"})
    /\ Goes(p, [run[p] EXCEPT !.pc = "open"])
    /\ ReadsOnly

(* Seeded bug: the tags and metadata of the package itself are forgotten. *)
CollectedOfBlobs(d, m, part) ==
    CASE part = "names" -> AllBlobNames(d, m.hashes)
      [] part = "tags" -> AllTags(d, m.hashes)
      [] part = "metadata" -> AllMetadata(d, m.hashes)
      [] part = "relations" -> AllRelations(d, m.hashes)

Collected(d, m, part) ==
    CASE part = "names" -> AllBlobNames(d, m.hashes)
      [] part = "tags" -> AllTags(d, m.hashes \cup {m.package})
      [] part = "metadata" -> AllMetadata(d, m.hashes \cup {m.package})
      [] part = "relations" -> AllRelations(d, m.hashes)

Collect(p) ==
    LET m == run[p].manifest
        part == Call(p).part
    IN  /\ At(p, "call", {"collect"})
        /\ Goes(p, Returns([run[p] EXCEPT !.manifest =
                              [m EXCEPT ![part] = Collected(db[Root(p)], m, part)]], <<>>))
        /\ ReadsOnly

(* fs::write truncates the file, then writes it.                            *)
WriteExportMetadata(p) ==
    /\ At(p, "call", {"create_manifest", "write_manifest"})
    /\ manifest' = IF Call(p).op = "create_manifest" THEN Torn ELSE run[p].manifest
    /\ Goes(p, Returns(run[p], <<>>))
    /\ UNCHANGED <<source, files, db, out, threads, edits, faults, copied, doubtful>>

(* Seeded bug: the row before the file. *)
RowThenBlob(hash) ==
    << [op |-> "insert_blob", hash |-> hash], [op |-> "import_blob", hash |-> hash] >>

BlobThenRow(hash) ==
    << [op |-> "import_blob", hash |-> hash], [op |-> "insert_blob", hash |-> hash] >>

(* read_dir, in any order.                                                  *)
ImportBlobs(p) ==
    /\ At(p, "call", {"import_blobs"})
    /\ \E order \in SetToSeqs({h \in Digest : Exists(ExportDir, h)}) :
         Goes(p, Returns(run[p],
             FlattenSeq([i \in 1..Len(order) |-> BlobThenRow(order[i])])))
    /\ ReadsOnly

(* Seeded bug: goes on with the next entry when the blob is there. *)
ImportBlobContinues(p) ==
    /\ At(p, "call", {"import_blob"})
    /\ Goes(p, IF Exists(Root(p), Call(p).hash)
               THEN Returns([run[p] EXCEPT !.calls = Tail(@)], <<>>)
               ELSE [run[p] EXCEPT !.pc = "open"])
    /\ ReadsOnly

ImportBlob(p) ==
    /\ At(p, "call", {"import_blob"})
    /\ Goes(p, IF Exists(Root(p), Call(p).hash) THEN Returns(run[p], <<>>)
               ELSE [run[p] EXCEPT !.pc = "open"])
    /\ ReadsOnly

(* The statements of an import, in the order of its loops.                  *)
ImportCalls(m) ==
    LET ids == {id \in Ids : m.metadata[id] # NoValue}
        names == SetToSeq(m.names)
        tags == SetToSeq(m.tags)
        values == SetToSeq({<<id, m.metadata[id]>> : id \in ids})
        relations == SetToSeq(m.relations)
        hashes == SetToSeq(m.hashes)
    IN  [i \in 1..Len(names) |->
            [op |-> "insert_blob_name", hash |-> names[i][1], name |-> names[i][2]]]
        \o [i \in 1..Len(tags) |->
            [op |-> "add_tag", hash |-> tags[i][1], tag |-> tags[i][2]]]
        \o [i \in 1..Len(values) |->
            [op |-> "merge_metadata", hash |-> values[i][1], value |-> values[i][2]]]
        \o [i \in 1..Len(relations) |->
            [op |-> "add_relation", hash |-> relations[i][1], target |-> relations[i][2]]]
        \o << [op |-> "ensure_package", name |-> m.package] >>
        \o [i \in 1..Len(hashes) |->
            [op |-> "add_blob_to_package", name |-> m.package, hash |-> hashes[i]]]

ImportManifest(p) ==
    /\ At(p, "call", {"import_manifest"})
    /\ Goes(p, CASE manifest = NoManifest -> Returns(run[p], <<>>)
                 [] manifest = Torn -> Ends(run[p], "err")
                 [] OTHER -> Returns([run[p] EXCEPT !.manifest = manifest],
                                     ImportCalls(manifest)))
    /\ ReadsOnly

(* Seeded bug: sets every value. *)
OverwriteMetadata(p) ==
    /\ At(p, "call", {"merge_metadata"})
    /\ Goes(p, Returns(run[p], BlobMetadata(Call(p).hash, Call(p).value)))
    /\ ReadsOnly

(* Only set what is not present: a query, then the statement.               *)
MergeMetadata(p) ==
    /\ At(p, "call", {"merge_metadata"})
    /\ Goes(p, Returns(run[p],
                 IF db[Root(p)].metadata[Call(p).hash] = NoValue
                 THEN BlobMetadata(Call(p).hash, Call(p).value) ELSE <<>>))
    /\ ReadsOnly

(* Seeded bug: takes an existing package for one already imported. *)
SkipPackage(p) ==
    /\ At(p, "call", {"ensure_package"})
    /\ Goes(p, IF PackageExists(db[Root(p)], Call(p).name) THEN Ends(run[p], "ok")
               ELSE Returns(run[p], << [op |-> "create_package", name |-> Call(p).name] >>))
    /\ ReadsOnly

EnsurePackage(p) ==
    /\ At(p, "call", {"ensure_package"})
    /\ Goes(p, Returns(run[p],
                 IF PackageExists(db[Root(p)], Call(p).name) THEN <<>>
                 ELSE << [op |-> "create_package", name |-> Call(p).name] >>))
    /\ ReadsOnly

-----------------------------------------------------------------------------
(* lfs.rs.  The lines the agent reads are the calls of its command; the     *)
(* end of the list is the end of the input.                                *)

Event(event, oid, size, code) == [event |-> event, oid |-> oid, size |-> size, code |-> code]

Sends(p, events) ==
    /\ out' = [out EXCEPT ![p] = @ \o events]
    /\ UNCHANGED <<source, manifest, threads, edits>>

(* handle_upload, with store_blob_with_progress: one pass reads, hashes,   *)
(* writes a temporary file and reports.                                     *)
ReadUpload(p) ==
    LET bytes == Bytes(Call(p).input) IN
    /\ At(p, "call", {"upload"})
    /\ bytes # Absent
    /\ Len(run[p].buf) < Len(bytes)
    /\ Goes(p, [run[p] EXCEPT !.buf = Append(@, bytes[Len(@) + 1])])
    /\ Sends(p, << Event("progress", Call(p).oid, Len(run[p].buf) + 1, 0) >>)
    /\ UNCHANGED <<files, db, faults, copied, doubtful>>

StoreBlobWithProgress(p) ==
    LET hash == run[p].buf IN
    /\ At(p, "call", {"upload"})
    /\ Hashed(p)
    /\ Goes(p, [run[p] EXCEPT !.digest = hash,
                              !.pc = IF Exists(Root(p), hash) THEN "register" ELSE "persist"])
    /\ ReadsOnly

(* Seeded bug: a second pass over the source makes the blob. *)
Recopied(p) == [data |-> Bytes(Call(p).input), readonly |-> FALSE]

Temporary(p) == [data |-> run[p].buf, readonly |-> FALSE]

(* The rename replaces the file a concurrent copy may have open.            *)
Persist(p) ==
    LET t == Target(p) IN
    /\ At(p, "persist", {"upload"})
    /\ files' = [files EXCEPT ![t] = Temporary(p)]
    /\ run' = [q \in Procs |->
                 IF q = p THEN [run[q] EXCEPT !.pc = "seal"]
                 ELSE [run[q] EXCEPT !.linked = @ /\ ~Writing(q, t),
                                     !.alone = @ /\ run[q].status # "running"]]
    /\ UNCHANGED <<copied, doubtful>> /\ KeepsRest

(* A mismatch is found after the blob is stored, under its own digest.      *)
Mismatch(p) ==
    /\ At(p, "register", {"upload"})
    /\ run[p].digest # Call(p).oid
    /\ Goes(p, Returns(run[p], <<>>))
    /\ Sends(p, << Event("complete", Call(p).oid, 0, 2) >>)
    /\ UNCHANGED <<files, db, faults, copied, doubtful>>

(* Best effort: the result of the statement is ignored.                     *)
Register(p) ==
    /\ At(p, "register", {"upload"})
    /\ run[p].digest = Call(p).oid
    /\ db' = [db EXCEPT ![Root(p)] = InsertBlob(@, [hash |-> run[p].digest])]
    /\ Goes(p, [run[p] EXCEPT !.pc = "answer"])
    /\ UNCHANGED <<source, files, manifest, out, threads, edits, faults, copied, doubtful>>

CompleteUpload(p) ==
    /\ At(p, "answer", {"upload"})
    /\ Goes(p, Returns(run[p], <<>>))
    /\ Sends(p, << Event("complete", Call(p).oid, 0, 0) >>)
    /\ UNCHANGED <<files, db, faults, copied, doubtful>>

(* Seeded bug: the error of the upload is logged, not answered. *)
UploadDropped(p) ==
    /\ Goes(p, Returns(run[p], <<>>))
    /\ Sends(p, <<>>)
    /\ UNCHANGED <<files, db, copied, doubtful>>

UploadFails(p) ==
    /\ Goes(p, Returns(run[p], <<>>))
    /\ Sends(p, << Event("complete", Call(p).oid, 0, 3) >>)
    /\ UNCHANGED <<files, db, copied, doubtful>>

MissingUpload(p) ==
    /\ At(p, "call", {"upload"})
    /\ Bytes(Call(p).input) = Absent
    /\ UploadFails(p)
    /\ UNCHANGED faults

HandleDownload(p) ==
    LET c == Call(p) IN
    /\ At(p, "call", {"fetch"})
    /\ Goes(p, Returns(run[p], <<>>))
    /\ Sends(p, IF Exists(Root(p), c.oid)
                THEN << Event("progress", c.oid, Size, 0), Event("complete", c.oid, 0, 0) >>
                ELSE << Event("complete", c.oid, 0, 2) >>)
    /\ UNCHANGED <<files, db, faults, copied, doubtful>>

(* run_agent_io for every other line.                                       *)
AgentLine(p) ==
    LET op == Call(p).op IN
    /\ At(p, "call", {"init", "blank", "unparsable", "terminate"})
    /\ Goes(p, CASE op \in {"init", "blank"} -> Returns(run[p], <<>>)
                 [] op = "unparsable" -> Ends(run[p], "err")
                 [] op = "terminate" -> Ends(run[p], "ok"))
    /\ Sends(p, IF op = "init" THEN << Event("init", NoValue, 0, 0) >> ELSE <<>>)
    /\ UNCHANGED <<files, db, faults, copied, doubtful>>

-----------------------------------------------------------------------------
(* The environment.                                                        *)

CutShort(p) ==
    doubtful' = doubtful \cup {t \in Places \X Digest : Writing(p, t)}

Crash(p) ==
    /\ run[p].status = "running"
    /\ faults < MaxFaults
    /\ faults' = faults + 1
    /\ CutShort(p)
    /\ Goes(p, Ends(run[p], "crashed"))
    /\ UNCHANGED <<source, files, db, manifest, out, threads, edits, copied>>

(* A system call or a statement fails and `?` ends the command.             *)
CallFails(p) ==
    /\ run[p].status = "running"
    /\ Command(p).cmd # "lfs-agent"
    /\ faults < MaxFaults
    /\ faults' = faults + 1
    /\ CutShort(p)
    /\ Goes(p, Ends(run[p], "fault"))
    /\ UNCHANGED <<source, files, db, manifest, out, threads, edits, copied>>

(* In the agent a failing upload is answered, a failing statement ignored. *)
UploadCallFails(p) ==
    /\ run[p].status = "running"
    /\ Call(p).op = "upload"
    /\ faults < MaxFaults
    /\ faults' = faults + 1
    /\ \/ run[p].pc \in {"call", "persist", "seal"} /\ UploadFails(p)
       \/ /\ run[p].pc = "register" /\ run[p].digest = Call(p).oid
          /\ Goes(p, [run[p] EXCEPT !.pc = "answer"])
          /\ UNCHANGED <<source, files, db, manifest, out, threads, edits, copied, doubtful>>

(* The owner overwrites a chunk of a file in place.                         *)
Edit(f, k, chunk) ==
    /\ edits < MaxEdits
    /\ source[f] # Absent
    /\ source[f][k] # chunk
    /\ edits' = edits + 1
    /\ source' = [source EXCEPT ![f][k] = chunk]
    /\ run' = [q \in Procs |-> [run[q] EXCEPT !.alone = @ /\ run[q].status # "running"]]
    /\ doubtful' = doubtful \cup CopiesOf(f)
    /\ UNCHANGED <<files, db, manifest, out, threads, faults, copied>>

-----------------------------------------------------------------------------
Idle(script) ==
    [script |-> script, next |-> 1, status |-> "new", before |-> "new", calls |-> <<>>,
     pc |-> "call", buf |-> <<>>, digest |-> NoValue, linked |-> FALSE, alone |-> TRUE,
     manifest |-> NoManifest, kept |-> EmptyDb.metadata,
     found |-> EmptyDb.metadata]

LegacyInit ==
    \E s \in Scenarios :
        /\ source = s.source /\ files = s.files /\ db = s.db
        /\ manifest = s.manifest /\ threads = s.threads
        /\ run = [p \in Procs |-> Idle(s.scripts[p])]
        /\ out = [p \in Procs |-> <<>>]
        /\ edits = 0 /\ faults = 0
        /\ copied = {} /\ doubtful = {}

StoreStep(p) ==
    \/ HashFile(p) \/ StoreBlob(p) \/ VerifyPath(p) \/ Fetch(p)
    \/ OpenCopy(p) \/ CopyChunk(p) \/ EndCopy(p) \/ Seal(p)

TransferStep(p) ==
    \/ ExportPackage(p) \/ CopyBlobTo(p) \/ Collect(p) \/ WriteExportMetadata(p)
    \/ ImportBlobs(p) \/ ImportBlob(p) \/ ImportManifest(p)
    \/ MergeMetadata(p) \/ EnsurePackage(p)

AgentStep(p) ==
    \/ ReadUpload(p) \/ StoreBlobWithProgress(p) \/ Persist(p) \/ Mismatch(p)
    \/ Register(p) \/ CompleteUpload(p) \/ MissingUpload(p)
    \/ HandleDownload(p) \/ AgentLine(p)

Step(p) == Statement(p) \/ StoreStep(p) \/ TransferStep(p) \/ AgentStep(p)

LegacyNext ==
    \/ \E p \in Procs : \/ Start(p) \/ Step(p) \/ Crash(p)
                        \/ CallFails(p) \/ UploadCallFails(p)
    \/ \E f \in Sources, k \in 1..Size, chunk \in Atoms : Edit(f, k, chunk)

LegacySpec ==
    LegacyInit /\ [][LegacyNext]_vars /\ WF_vars(\E p \in Procs : Step(p))

-----------------------------------------------------------------------------
(* Properties.                                                             *)

(* The tables keep their references (foreign keys), every file is a        *)
(* sequence of chunks, and a process has calls left exactly while it runs. *)
LegacyTypeOK ==
    /\ \A t \in Places \X Digest :
         files[t] # NoFile => /\ files[t].data \in Seq(Atoms \cup {Hole})
                              /\ Len(files[t].data) <= Size
                              /\ files[t].readonly \in BOOLEAN
    /\ db \in [Roots -> Databases] /\ \A r \in Roots : ForeignKeys(db[r])
    /\ manifest \in Manifests \cup {NoManifest, Torn}
    /\ \A p \in Procs :
         /\ run[p].status \in {"new", "running", "ok", "err", "fault", "crashed"}
         /\ (run[p].status = "running") <=> (run[p].calls # <<>>)
         /\ Len(run[p].buf) <= Size

(* A file at rest under a digest has the bytes of that digest, however     *)
(* many processes copied it at once, unless one of its copies was cut short *)
(* or its source did not have those bytes while it was copied (store.rs     *)
(* copies to the final name; transfer.rs does so both ways).                *)
DamageNeedsCause ==
    \A t \in Places \X Digest :
        files[t] # NoFile /\ files[t].data # t[2]
        => t \in doubtful \/ \E p \in Procs : Writing(p, t)

(* What the transfer agent stores is complete from the moment it has its   *)
(* name, whatever crashes and whoever edits the uploaded file: only         *)
(* fs::copy leaves partial files.                                           *)
AgentBlobsWhole ==
    \A t \in Places \X Digest :
        files[t] # NoFile /\ files[t].data # t[2] => t \in copied

(* A digest the database knows has a file, also between two calls of a     *)
(* command that never finishes them.                                        *)
RowsBackedByFiles ==
    \A r \in Roots : \A h \in db[r].rows : Exists(r, h)

(* The lines the agent has dealt with.                                      *)
Consumed(p) ==
    LET input == Command(p).input
        last == SelectInSeq(input, LAMBDA c : c.op = "terminate")
    IN  IF run[p].status = "ok" /\ last # 0 THEN SubSeq(input, 1, last)
        ELSE SubSeq(input, 1, Len(input) - Len(run[p].calls))
(* Where the requests and the answers are, and how many come before one.    *)
Requests(lines) == {i \in DOMAIN lines : lines[i].op \in {"init", "upload", "fetch"}}
Answers(events) == {j \in DOMAIN events : events[j].event \in {"init", "complete"}}
Before(positions, i) == Cardinality({k \in positions : k < i})
Answered(line, event) ==
    \/ event.event = "init" /\ line.op = "init"
    \/ event.event = "complete" /\ line.op # "init" /\ event.oid = line.oid

(* The agent answers every request it reads once, in order, under its own  *)
(* oid; success comes after a report of all its bytes, unless there are     *)
(* none, and only when the store has the object.                            *)
AgentReplies ==
    \A p \in Procs :
        run[p].status \in {"running", "ok"} /\ Command(p).cmd = "lfs-agent" =>
            LET lines == Consumed(p)
                requests == Requests(lines)
                answers == Answers(out[p])
            IN  /\ Cardinality(answers) = Cardinality(requests)
                /\ \A i \in requests, j \in answers :
                     Before(requests, i) = Before(answers, j) => Answered(lines[i], out[p][j])
                /\ \A j \in answers :
                     out[p][j].event = "complete" /\ out[p][j].code = 0 =>
                        /\ Exists(Root(p), out[p][j].oid)
                        /\ Size # 0 => /\ j > 1
                                       /\ out[p][j - 1] = Event("progress", out[p][j].oid, Size, 0)

Exports == \E q \in Procs : \E i \in DOMAIN run[q].script : run[q].script[i].cmd = "export"
Removes(name) ==
    \E q \in Procs : \E i \in DOMAIN run[q].script :
        run[q].script[i].cmd = "pkg-rm" /\ run[q].script[i].name = name

(* The commands whose input gives no reason to refuse them.                 *)
Refusable(p) ==
    LET c == Command(p) IN
    CASE c.cmd = "add-path" -> \E i \in DOMAIN c.files : source[c.files[i]] = Absent
      [] c.cmd = "add-url" -> c.body = Absent \/ c.expected \notin {NoValue, c.body}
      [] c.cmd = "import" -> Exports /\ run[p].manifest = NoManifest
      [] c.cmd \in {"tag", "meta", "rel", "pkg-rm"} -> FALSE
      [] OTHER -> TRUE

(* A command nobody interferes with is not refused, whatever commands have *)
(* crashed before it and left behind (truncated blobs, blobs without a row, *)
(* packages without members, half an import): running it again works.       *)
(* Calls of Python threads that share a Store are never interfered with.    *)
RetrySucceeds ==
    \A p \in Procs :
        run[p].status = "err" /\ (run[p].alone \/ threads) => Refusable(p)

(* An import that reports success has brought everything its manifest      *)
(* lists, also next to other commands and after imports that crashed.       *)
ImportComplete ==
    \A p \in Procs :
        LET m == run[p].manifest
            d == db[Root(p)]
        IN  run[p].status = "ok" /\ Command(p).cmd = "import" /\ m # NoManifest =>
                /\ m.names \subseteq d.names
                /\ m.tags \subseteq d.tags
                /\ m.relations \subseteq d.relations
                /\ \A id \in Ids : m.metadata[id] # NoValue => d.metadata[id] # NoValue
                /\ m.hashes \subseteq d.rows
                /\ \/ m.package \in d.packages /\ m.hashes \subseteq ShowPackage(d, m.package)
                   \/ Removes(m.package)

(* Merge semantics: metadata that was there when an import started is never *)
(* changed by that import, even when another command sets it meanwhile.     *)
ImportKeepsValues ==
    [][\A p \in Procs :
          /\ run[p].status = "running" /\ Command(p).cmd = "import"
          /\ run'[p].calls # run[p].calls
          => \A id \in Ids : run[p].kept[id] # NoValue
                             => db'[Root(p)].metadata[id] = db[Root(p)].metadata[id]]_vars

(* An add with an expected digest that reports success stored that digest; *)
(* only a local file its owner edits meanwhile can give another, because    *)
(* add_verified_path hashes it once more than it checks.                    *)
VerifiedAnswers ==
    \A p \in Procs :
        LET c == Command(p) IN
        run[p].status = "ok" =>
            /\ c.cmd = "add-verified-path" => run[p].digest = c.expected \/ edits > 0
            /\ \/ c.cmd = "fetch"
               \/ c.cmd = "add-url" /\ ~c.unzip /\ c.expected # NoValue
               => run[p].digest = c.expected

(* Importing what an export has just exported brings the package's blobs,  *)
(* names, tags (its own too), relations and metadata as they are in the     *)
(* first root, also when the import crashes and is run again; a value that  *)
(* the second root had of its own before stays as it was.                   *)
RoundTrip ==
    \A p \in Procs :
        LET c == Command(p)
            export == run[p].script[run[p].next - 1]
            a == db[export.root]
            b == db[c.root]
        IN  /\ run[p].status = "ok" /\ c.cmd = "import" /\ run[p].manifest # NoManifest
            /\ run[p].next > 1 /\ export.cmd = "export" /\ run[p].before = "ok"
            /\ \A q \in Procs \ {p} : run[q].script = <<>>
            => LET hashes == ShowPackage(a, export.name)
                   ids == hashes \cup {export.name}
               IN  /\ hashes \subseteq ShowPackage(b, export.name)
                   /\ AllBlobNames(a, hashes) \subseteq b.names
                   /\ AllTags(a, ids) \subseteq b.tags
                   /\ AllRelations(a, hashes) \subseteq b.relations
                   /\ \A id \in ids :
                        a.metadata[id] # NoValue =>
                           b.metadata[id] = IF run[p].found[id] = NoValue
                                            THEN a.metadata[id] ELSE run[p].found[id]

(* Every command ends, with success, an error or the death of its process: *)
(* whichever process is scheduled, in the end nothing runs any more.        *)
CommandsEnd == <>[](\A p \in Procs : run[p].status # "running")


=============================================================================

----------------------- MODULE LegacyStoreRetryProofs ------------------------
(***************************************************************************)
(* A command of the database-backed store that nobody interferes with and   *)
(* that has what it is given is not refused, whatever crashed or failed      *)
(* before it: what a manifest lists is copied before it is written           *)
(* (CarryInv), and every call such a command has left finds what it needs,   *)
(* or a call before it brings it (RetryInv).                                 *)
(***************************************************************************)
EXTENDS LegacyStoreCommandProofs

-----------------------------------------------------------------------------
(* What a manifest lists is in the export directory.                       *)

InDir(fs) == {h \in Digest : fs[<<ExportDir, h>>] # NoFile}

(* What the list m names is there or will be copied before m is written.    *)
Listing(m, calls, fs) ==
    /\ \A row \in m.names : row[1] \in m.hashes
    /\ \A h \in m.hashes : h \in InDir(fs) \/ \E i \in 1..Len(calls) : calls[i] = CopyingBlob(h)
    /\ \A i \in 1..Len(calls) : /\ calls[i].op \in ExportOps \ {"export"}
                                /\ calls[i].op = "write_manifest" => i = Len(calls)

Carrying(r, fs) ==
    r.status = "running" =>
        IF r.script[r.next].cmd = "export"
        THEN \/ r.calls = << [op |-> "export", name |-> r.script[r.next].name] >>
             \/ Listing(r.manifest, r.calls, fs)
        ELSE \A i \in 1..Len(r.calls) : r.calls[i].op \notin ExportOps

Backed(mf, fs) ==
    mf \notin {NoManifest, Torn} =>
        mf.hashes \subseteq InDir(fs) /\ \A row \in mf.names : row[1] \in mf.hashes

CarryInv ==
    /\ \A p \in Procs : Carrying(run[p], files)
    /\ Backed(manifest, files) /\ (manifest = Torn => Exports)

LEMMA StartsCarrying ==
    ASSUME NEW c \in Commands, c.cmd # "export", NEW i \in 1..Len(Calls(c))
    PROVE  Calls(c)[i].op \notin ExportOps
<1>1. CASE Calls(c) \in Lists(AddingCalls)
  <2>1. Calls(c)[i] \in AddingCalls
    BY <1>1 DEF Lists
  <2>2. \A d \in AddingCalls : d.op \notin ExportOps
    BY DEF AddingCalls, StatementCalls, ExportOps
  <2> QED BY <2>1, <2>2
<1> DEFINE C == [op : {"import_blobs", "import_manifest"}]
<1>2. CASE Calls(c) \in Lists(C)
  <2>1. \A d \in C : d.op \notin ExportOps
    BY DEF ExportOps
  <2> HIDE DEF C
  <2>2. Calls(c)[i] \in C
    BY <1>2 DEF Lists
  <2> QED BY <2>1, <2>2
<1>3. CASE Calls(c) \in Lists(Lines)
  <2>1. Calls(c)[i] \in Lines
    BY <1>3 DEF Lists
  <2> QED BY <2>1 DEF ExportOps, Lines
<1>4. CASE c.name \in Packages /\ Calls(c) = RemovePackage(c.name)
  <2>1. Calls(c)[i] \in RemovingCalls
    BY <1>4, RemovePackageList DEF Lists
  <2> QED BY <2>1 DEF RemovingCalls, ExportOps
<1> QED BY <1>1, <1>2, <1>3, <1>4, CallsSorted

(* A blob that has been copied is in the export directory.                  *)
LEMMA CopiedBlob ==
    ASSUME LegacyInv, NEW p \in Procs, ProcessStep(p), Op(run[p]) = "export_blob",
           Returned(run[p], run'[p], <<>>)
    PROVE  run[p].calls[1].hash \in InDir(files)
<1> DEFINE r == run[p]
           s == run'[p]
<1>1. /\ r.status = "running" /\ r \in Process /\ Stage(r) /\ Footing(r, source, files)
      /\ Call(p).op = "export_blob" /\ Call(p) = r.calls[1] /\ Call(p).hash \in Digest
  BY RunningStep, Current, CallShape
<1>2. s.calls # r.calls /\ ~Failed(s)
  <2>1. Len(s.calls) = Len(r.calls) - 1 /\ Len(r.calls) \in Nat
    BY <1>1, RestOfCalls
  <2>2. s.status \in {"ok", "running"}
    BY DEF Returned
  <2> HIDE DEF r, s
  <2>3. s.calls # r.calls
    BY <2>1
  <2> QED BY <2>2, <2>3 DEF Failed
<1>3. ~Statement(p) /\ ~AgentStep(p) /\ ~UploadCallFails(p)
  BY <1>1 DEF Statement, Statements, AgentStep, UploadCallFails, ReadUpload,
     StoreBlobWithProgress, Persist, Mismatch, Register, CompleteUpload, MissingUpload,
     HandleDownload, AgentLine, At
<1>4. TransferStep(p) => CopyBlobTo(p)
  BY <1>1 DEF TransferStep, ExportPackage, Collect, WriteExportMetadata, ImportBlobs, ImportBlob,
     ImportManifest, MergeMetadata, EnsurePackage, At
<1>5. StoreStep(p) => OpenCopy(p) \/ CopyChunk(p) \/ EndCopy(p)
  BY <1>1 DEF StoreStep, HashFile, StoreBlob, VerifyPath, Fetch, Seal, At
<1>6. \A t : Goes(p, t) => s = t
  BY GoesTo
<1>7. ~Crash(p) /\ ~CallFails(p)
  BY <1>1, <1>2, <1>6, EndsFields DEF Crash, CallFails, Failed
<1>8. ~CopyBlobTo(p)
  <2>1. CopyBlobTo(p) => s = [r EXCEPT !.pc = "open"]
    BY <1>6 DEF CopyBlobTo
  <2>2. [r EXCEPT !.pc = "open"].calls = r.calls
    BY <1>1 DEF Process
  <2> QED BY <1>2, <2>1, <2>2
<1>9. ~OpenCopy(p)
  <2>1. OpenCopy(p) => s = Ends(r, "err") \/ s = [r EXCEPT !.pc = "write", !.linked = TRUE]
    BY <1>6 DEF OpenCopy
  <2>2. [r EXCEPT !.pc = "write", !.linked = TRUE].calls = r.calls
    BY <1>1 DEF Process
  <2>3. Failed(Ends(r, "err"))
    BY <1>1, EndsFields DEF Failed
  <2> QED BY <1>2, <2>1, <2>2, <2>3
<1>10. ~CopyChunk(p)
  <2>1. CopyChunk(p) => \E b : s = [r EXCEPT !.buf = b]
    BY <1>6 DEF CopyChunk
  <2>2. \A b : [r EXCEPT !.buf = b].calls = r.calls
    BY <1>1 DEF Process
  <2> QED BY <1>2, <2>1, <2>2
<1>11. EndCopy(p)
  BY <1>3, <1>4, <1>5, <1>7, <1>8, <1>9, <1>10 DEF ProcessStep, Step
<1>12. r.pc = "write"
  BY <1>11 DEF EndCopy, At
<1>13. TargetOf(r) = <<ExportDir, Call(p).hash>>
  BY <1>1 DEF TargetOf, Op
<1> QED BY <1>1, <1>12, <1>13 DEF Footing, InDir

LEMMA ListingKept ==
    ASSUME NEW r \in Process, Stage(r), r.status = "running", NEW s, NEW d, NEW fs, NEW fs2,
           NEW mf2, InDir(fs) \subseteq InDir(fs2),
           ExportMove(r, s, d, mf2), Listing(r.manifest, r.calls, fs),
           r.calls[1].op = "collect" => r.manifest \in Manifests,
           r.calls[1].op = "export_blob" /\ Returned(r, s, <<>>)
              => r.calls[1].hash \in InDir(fs),
           s.status = "running"
    PROVE  Listing(s.manifest, s.calls, fs2)
<1> DEFINE c == r.calls[1]
<1>1. 1 \in 1..Len(r.calls) /\ Len(r.calls) \in Nat /\ c \in AllCalls
  BY HeadTyped
<1>2. c.op # "export" /\ ~Failed(s)
  BY <1>1 DEF Listing, Failed
<1>3. CASE Stays(r, s)
  BY <1>3 DEF Stays, Listing
<1>4. CASE ~Stays(r, s)
  <2>1. Returned(r, s, <<>>)
    BY <1>2, <1>4 DEF ExportMove
  <2>2. /\ Len(s.calls) = Len(r.calls) - 1
        /\ \A i \in 1..Len(s.calls) : s.calls[i] = r.calls[i + 1] /\ i + 1 \in 1..Len(r.calls)
    BY <2>1, RestOfCalls
  <2>3. /\ s.manifest.hashes = r.manifest.hashes
        /\ \A row \in s.manifest.names : row[1] \in s.manifest.hashes
    <3>1. CASE c.op # "collect"
      <4>1. s.manifest = r.manifest
        BY <1>2, <1>4, <3>1 DEF ExportMove
      <4> QED BY <4>1 DEF Listing
    <3>2. CASE c.op = "collect"
      <4> DEFINE m == r.manifest
                 x == Collected(d, m, c.part)
      <4>1. s.manifest = [m EXCEPT ![c.part] = x] /\ m \in Manifests
        BY <1>2, <1>4, <3>2 DEF ExportMove
      <4>2. c.part \in Parts
        BY <1>1, <3>2, CallShape
      <4>3. c.part = "names" => x = AllBlobNames(d, m.hashes)
        BY DEF Collected
      <4> HIDE DEF x, c
      <4>4. /\ s.manifest.hashes = m.hashes
            /\ s.manifest.names = IF c.part = "names" THEN x ELSE m.names
        BY <4>1, <4>2 DEF Parts, Manifests
      <4> QED BY <4>3, <4>4 DEF Listing, AllBlobNames
    <3> QED BY <3>1, <3>2
  <2>4. ASSUME NEW h \in s.manifest.hashes
        PROVE  h \in InDir(fs2) \/ \E i \in 1..Len(s.calls) : s.calls[i] = CopyingBlob(h)
    <3>1. CASE h \in InDir(fs)
      BY <3>1
    <3>2. CASE h \notin InDir(fs)
      <4>1. PICK i \in 1..Len(r.calls) : r.calls[i] = CopyingBlob(h)
        BY <2>3, <3>2 DEF Listing
      <4>2. i # 1
        <5>1. CopyingBlob(h).op = "export_blob" /\ CopyingBlob(h).hash = h
          BY DEF CopyingBlob
        <5> QED BY <2>1, <3>2, <4>1, <5>1
      <4>3. i - 1 \in 1..Len(s.calls) /\ (i - 1) + 1 = i
        BY <1>1, <2>2, <4>2
      <4> QED BY <2>2, <4>1, <4>3
    <3> QED BY <3>1, <3>2
  <2>5. ASSUME NEW i \in 1..Len(s.calls)
        PROVE  /\ s.calls[i].op \in ExportOps \ {"export"}
               /\ s.calls[i].op = "write_manifest" => i = Len(s.calls)
    <3>1. s.calls[i] = r.calls[i + 1] /\ i + 1 \in 1..Len(r.calls)
      BY <2>2
    <3>2. /\ r.calls[i + 1].op \in ExportOps \ {"export"}
          /\ r.calls[i + 1].op = "write_manifest" => i + 1 = Len(r.calls)
      BY <3>1 DEF Listing
    <3>3. i + 1 = Len(r.calls) => i = Len(s.calls)
      BY <1>1, <2>2
    <3> QED BY <3>1, <3>2, <3>3
  <2> QED BY <2>3, <2>4, <2>5 DEF Listing
<1> QED BY <1>3, <1>4

LEMMA DirGrows ==
    ASSUME LegacyInv, [LegacyNext]_vars
    PROVE  InDir(files) \subseteq InDir(files')
<1>1. \A h \in Digest : <<ExportDir, h>> \in Places \X Digest
  BY DEF Places
<1> QED BY <1>1, FilesStay DEF InDir

LEMMA CarryingKept ==
    ASSUME LegacyInv, NEW p \in Procs, ProcessStep(p), Carrying(run[p], files)
    PROVE  Carrying(run'[p], files')
<1> DEFINE r == run[p]
           s == run'[p]
           c == r.script[r.next]
<1>1. /\ r.status = "running" /\ r \in Process /\ Stage(r) /\ Remaining(r, files)
      /\ 1 \in 1..Len(r.calls) /\ Len(r.calls) \in Nat
  BY RunningStep, Current, HeadTyped
<1>2. Move(r, s) /\ s.script = r.script /\ s.next = r.next
  BY ProcessMoves DEF Move
<1>3. InDir(files) \subseteq InDir(files')
  BY DirGrows DEF LegacyNext, ProcessStep
<1> SUFFICES ASSUME s.status = "running" PROVE Carrying(s, files')
  BY DEF Carrying
<1>4. CASE c.cmd # "export"
  <2>1. \A i \in 1..Len(r.calls) : r.calls[i].op \notin ExportOps
    BY <1>1, <1>4 DEF Carrying
  <2>2. r.calls[1].op # "export"
    BY <1>1, <2>1 DEF ExportOps
  <2>3. ASSUME NEW pre \in Seq(ImportingCalls), Returned(r, s, pre), NEW i \in 1..Len(s.calls)
        PROVE  s.calls[i].op \notin ExportOps
    <3>1. Prepended(r, s, pre)
      BY <1>1, <2>3, ReturnedCalls
    <3>2. \A b \in ImportingCalls : b.op \notin ExportOps
      BY DEF ImportingCalls, StatementCalls, ExportOps
    <3>3. \A j \in 1..Len(pre) : pre[j] \in ImportingCalls
      OBVIOUS
    <3>4. \A j \in 2..Len(r.calls) : j \in 1..Len(r.calls)
      BY <1>1
    <3> QED BY <2>1, <3>1, <3>2, <3>3, <3>4 DEF Prepended
  <2> HIDE DEF r, s, c
  <2>4. \/ Stays(r, s)
        \/ \E pre \in Seq(ImportingCalls) : Returned(r, s, pre)
    <3>1. <<>> \in Seq(ImportingCalls)
      OBVIOUS
    <3> QED BY <1>2, <2>2, <3>1 DEF Move, Failed, Replaces, Op
  <2>5. \A i \in 1..Len(s.calls) : s.calls[i].op \notin ExportOps
    BY <2>1, <2>3, <2>4 DEF Stays
  <2> QED BY <1>2, <1>4, <2>5 DEF Carrying, c
<1>5. CASE c.cmd = "export"
  <2> DEFINE fresh == << [op |-> "export", name |-> c.name] >>
             d == db[Root(p)]
  <2>1. r.calls = fresh \/ Listing(r.manifest, r.calls, files)
    BY <1>1, <1>5 DEF Carrying
  <2>2. r.calls[1].op \in ExportOps
    BY <1>1, <2>1 DEF Listing, ExportOps
  <2>3. ExportMove(r, s, d, manifest')
    BY <2>2, ExportMoves DEF Op
  <2>4. CASE r.calls = fresh /\ ~Stays(r, s)
    <3>1. r.calls[1].op = "export" /\ Tail(r.calls) = <<>>
      BY <2>4
    <3> HIDE DEF r, s, c, d, fresh
    <3>2. PICK pre \in Seq(ExportingCalls) :
             Returned(r, s, pre) /\ Finishes(pre) /\ CopiesAll(s.manifest, pre)
      BY <2>3, <2>4, <3>1 DEF ExportMove, Failed
    <3>3. s.calls = pre
      <4>1. pre \o <<>> = pre
        BY <3>2
      <4> QED BY <3>1, <3>2, <4>1 DEF Returned
    <3>4. \A b \in ExportingCalls : b.op \in ExportOps \ {"export"}
      BY DEF ExportingCalls, ExportOps
    <3>5. Listing(s.manifest, s.calls, files')
      BY <3>2, <3>3, <3>4 DEF Listing, CopiesAll
    <3> QED BY <1>2, <1>5, <3>5 DEF Carrying, c
  <2>5. CASE r.calls = fresh /\ Stays(r, s)
    <3> HIDE DEF r, s
    <3> QED BY <1>2, <1>5, <2>5 DEF Carrying, Stays
  <2>6. CASE Listing(r.manifest, r.calls, files)
    <3>1. r.calls[1].op = "collect" => r.manifest \in Manifests
      BY <1>1 DEF Remaining, NeedsManifest
    <3>2. r.calls[1].op = "export_blob" /\ Returned(r, s, <<>>)
             => r.calls[1].hash \in InDir(files)
      BY CopiedBlob DEF Op
    <3> HIDE DEF r, s, c, d
    <3>3. Listing(s.manifest, s.calls, files')
      BY <1>1, <1>3, <2>3, <2>6, <3>1, <3>2, ListingKept
    <3> QED BY <1>2, <1>5, <3>3 DEF Carrying, c
  <2> QED BY <2>1, <2>4, <2>5, <2>6
<1> QED BY <1>4, <1>5

LEMMA BackedKept ==
    ASSUME LegacyInv, NEW p \in Procs, ProcessStep(p), Carrying(run[p], files),
           Backed(manifest, files), manifest = Torn => Exports
    PROVE  Backed(manifest', files') /\ (manifest' = Torn => Exports)
<1> DEFINE r == run[p]
           c == Call(p)
<1>1. /\ r.status = "running" /\ r \in Process /\ Stage(r)
      /\ c = r.calls[1] /\ 1 \in 1..Len(r.calls) /\ Len(r.calls) \in Nat
  BY RunningStep, Current, HeadTyped
<1>2. InDir(files) \subseteq InDir(files')
  BY DirGrows DEF LegacyNext, ProcessStep
<1>3. CASE manifest' = manifest
  BY <1>2, <1>3 DEF Backed
<1>4. CASE manifest' # manifest
  <2>1. c.op \in {"create_manifest", "write_manifest"}
    BY <1>4, ManifestSteps
  <2>2. r.script[r.next].cmd = "export" /\ Listing(r.manifest, r.calls, files)
    BY <1>1, <2>1 DEF Carrying, ExportOps
  <2>3. Exports
    BY <1>1, <2>2 DEF Exports, Stage
  <2>4. manifest' = IF c.op = "create_manifest" THEN Torn ELSE r.manifest
    <3>1. Crash(p) \/ CallFails(p) \/ ExportPackage(p) \/ Collect(p) \/ WriteExportMetadata(p)
      BY <1>1, <2>1, RecordingSteps DEF Op, ExportOps
    <3> QED BY <1>4, <3>1 DEF Crash, CallFails, ExportPackage, Collect, WriteExportMetadata, ReadsOnly
  <2>5. ASSUME c.op = "write_manifest", NEW h \in r.manifest.hashes PROVE h \in InDir(files)
    <3>1. Len(r.calls) = 1
      BY <1>1, <2>2, <2>5 DEF Listing
    <3>2. \A i \in 1..Len(r.calls) : r.calls[i] # CopyingBlob(h)
      BY <1>1, <2>5, <3>1 DEF CopyingBlob
    <3> QED BY <2>2, <3>2 DEF Listing
  <2> HIDE DEF r, c
  <2>6. c.op = "write_manifest" => Backed(r.manifest, files')
    BY <1>2, <2>2, <2>5 DEF Backed, Listing
  <2> QED BY <2>1, <2>3, <2>4, <2>6 DEF Backed
<1> QED BY <1>3, <1>4

LEMMA CarryInvInit == LegacyInit => CarryInv
<1> SUFFICES ASSUME LegacyInit PROVE CarryInv
  OBVIOUS
<1>1. PICK t \in Scenarios : files = t.files /\ manifest = t.manifest
  BY DEF LegacyInit
<1>2. /\ t.manifest \in (Manifests \cup {NoManifest}) \ {Torn}
      /\ t.manifest # NoManifest =>
             /\ \A h \in t.manifest.hashes : t.files[<<ExportDir, h>>] # NoFile
             /\ \A row \in t.manifest.names : row[1] \in t.manifest.hashes
  BY ScenarioAssumption
<1>3. t.manifest \in Manifests => t.manifest.hashes \subseteq Digest
  BY DEF Manifests
<1>4. Backed(manifest, files) /\ manifest # Torn
  BY <1>1, <1>2, <1>3 DEF Backed, InDir
<1>5. \A p \in Procs : run[p].status = "new"
  BY DEF LegacyInit, Idle
<1> QED BY <1>4, <1>5 DEF CarryInv, Carrying

LEMMA ExportsStay ==
    ASSUME LegacyInv, [LegacyNext]_vars
    PROVE  Exports' <=> Exports
BY ScriptsStay DEF Exports

LEMMA CarryInvStep == LegacyInv /\ CarryInv /\ [LegacyNext]_vars => CarryInv'
<1> SUFFICES ASSUME LegacyInv, CarryInv, [LegacyNext]_vars PROVE CarryInv'
  OBVIOUS
<1>0. InDir(files) \subseteq InDir(files') /\ (Exports' <=> Exports)
  BY DirGrows, ExportsStay
<1>1. ASSUME NEW q \in Procs, SamePlace(run[q], run'[q]) PROVE Carrying(run'[q], files')
  <2> DEFINE r == run[q]
             s == run'[q]
  <2>1. /\ s.script = r.script /\ s.next = r.next /\ s.status = r.status /\ s.calls = r.calls
        /\ s.manifest = r.manifest
    BY <1>1 DEF SamePlace
  <2>2. Carrying(r, files)
    BY DEF CarryInv
  <2> HIDE DEF r, s
  <2>3. Carrying(s, files')
    BY <1>0, <2>1, <2>2 DEF Carrying, Listing
  <2> QED BY <2>3 DEF s
<1>2. ASSUME NEW p \in Procs, ProcessStep(p) PROVE CarryInv'
  <2>1. /\ Carrying(run[p], files) /\ Backed(manifest, files) /\ (manifest = Torn => Exports)
    BY DEF CarryInv
  <2>2. Carrying(run'[p], files') /\ \A q \in Procs \ {p} : Carrying(run'[q], files')
    BY <1>1, <1>2, <2>1, CarryingKept, ProcessMoves
  <2>3. Backed(manifest', files') /\ (manifest' = Torn => Exports)
    BY <1>2, <2>1, BackedKept
  <2> QED BY <1>0, <2>2, <2>3 DEF CarryInv
<1>3. ASSUME NEW p \in Procs, Start(p) PROVE CarryInv'
  <2> DEFINE s == run'[p]
             c == s.script[s.next]
  <2>1. /\ s.calls = Calls(c) /\ c \in Commands
        /\ \A q \in Procs \ {p} : SamePlace(run[q], run'[q])
    BY <1>3, StartMoves
  <2>2. c.cmd = "export" => s.calls = << [op |-> "export", name |-> c.name] >>
    BY <2>1 DEF Calls
  <2>3. c.cmd # "export" => \A i \in 1..Len(s.calls) : s.calls[i].op \notin ExportOps
    BY <2>1, StartsCarrying
  <2>4. Carrying(s, files')
    BY <2>2, <2>3 DEF Carrying
  <2>5. UNCHANGED <<files, manifest>>
    BY <1>3 DEF Start
  <2>6. \A q \in Procs : Carrying(run'[q], files')
    BY <1>1, <2>1, <2>4
  <2>7. Backed(manifest, files) /\ (manifest = Torn => Exports)
    BY DEF CarryInv
  <2> QED BY <1>0, <2>5, <2>6, <2>7 DEF CarryInv
<1>4. CASE (\E f \in Sources, k \in 1..Size, chunk \in Atoms : Edit(f, k, chunk)) \/ UNCHANGED vars
  <2>1. \A q \in Procs : SamePlace(run[q], run'[q])
    <3>1. UNCHANGED vars => \A q \in Procs : SamePlace(run[q], run'[q])
      BY DEF vars, SamePlace
    <3> QED BY <1>4, <3>1, EditMoves
  <2>2. UNCHANGED <<files, manifest>>
    BY <1>4 DEF Edit, vars
  <2>3. \A q \in Procs : Carrying(run'[q], files')
    BY <1>1, <2>1
  <2>4. Backed(manifest, files) /\ (manifest = Torn => Exports)
    BY DEF CarryInv
  <2> QED BY <1>0, <2>2, <2>3, <2>4 DEF CarryInv
<1> QED BY <1>2, <1>3, <1>4 DEF LegacyNext, ProcessStep

-----------------------------------------------------------------------------
(* When no call of a command can be refused.                                *)

Given(input, src) == input # Absent /\ (input \in Sources => src[input] # Absent)
Fetchable(c) == c.body # Absent /\ c.expected \in {NoValue, c.body}

(* The input of the command of r gives no reason to refuse it.              *)
Welcome(r, src) ==
    LET c == r.script[r.next] IN
    \/ c.cmd = "add-path" /\ \A i \in DOMAIN c.files : src[c.files[i]] # Absent
    \/ c.cmd = "add-url" /\ Fetchable(c)
    \/ c.cmd \in {"import", "tag", "meta", "rel", "pkg-rm"}

(* The calls that are never refused.                                        *)
Unrefused ==
    {"insert_blob", "add_tag", "set_metadata", "add_relation", "delete_members",
     "merge_metadata", "ensure_package"}

Inserting(h) == [op |-> "insert_blob", hash |-> h]
Emptying(name) == [op |-> "delete_members", name |-> name]
MakesPackage(c, name) == c.op \in {"ensure_package", "create_package"} /\ c.name = name
Importing == << [op |-> "import_blobs"], [op |-> "import_manifest"] >>

(* The i-th call of r finds what it needs: it is there, or a call before it *)
(* brings it.                                                               *)
Fits(r, i, d, fs, src) ==
    LET s == r.calls
        c == s[i]
    IN  \/ c.op \in Unrefused
        \/ c.op = "store" /\ Given(c.input, src)
        \/ c.op = "download" /\ Fetchable(c)
        \/ /\ c.op = "insert_blob_name"
           /\ \/ i > 1 /\ s[i - 1] = Inserting(c.hash)
              \/ c.hash # Added /\ c.hash \in d.rows
              \/ i = 1 /\ c.hash = Added /\ r.digest \in d.rows
        \/ /\ c.op = "delete_package" /\ i = Len(s)
           /\ \/ i > 1 /\ s[i - 1] = Emptying(c.name)
              \/ i = 1 /\ \A m \in d.members : m[1] # c.name
        \/ c.op = "create_package" /\ i = 1 /\ c.name \notin d.packages
        \/ /\ c.op = "add_blob_to_package" /\ c.hash \in d.rows
           /\ c.name \in d.packages \/ \E j \in 1..(i - 1) : MakesPackage(s[j], c.name)
        \/ c.op = "import_blobs" /\ s = Importing
        \/ c.op = "import_blob" /\ c.hash \in InDir(fs)
        \/ /\ c.op = "import_manifest" /\ i = Len(s) /\ r.manifest = NoManifest
           /\ r.script[r.next].cmd = "import"
           /\ \A h \in InDir(fs) :
                 h \in d.rows \/ \E j \in 1..(i - 1) : s[j].op = "import_blobs" \/ s[j] = Inserting(h)

AllFit(r, d, fs, src) == \A i \in 1..Len(r.calls) : Fits(r, i, d, fs, src)
Free(r, fs) == r.pc = "open" => fs[TargetOf(r)] = NoFile

(* A command nobody interferes with is not refused.                         *)
Unhindered(r, d, fs, src, exports) ==
    r.status \in {"running", "err"} /\ Welcome(r, src) =>
        /\ r.status = "running" => AllFit(r, d, fs, src) /\ Free(r, fs)
        /\ r.status = "err" =>
              r.script[r.next].cmd = "import" /\ exports /\ r.manifest = NoManifest

RetryInv ==
    /\ threads => \A p, q \in Procs :
                     run[p].status = "running" /\ run[q].status = "running" => p = q
    /\ \A p \in Procs :
          run[p].alone \/ threads
          => Unhindered(run[p], db[RootOf(run[p])], files, source, Exports)

(* Lists of calls that find what they need wherever they are run.           *)
Good(s, i, src) ==
    LET c == s[i] IN
    \/ c.op \in Unrefused
    \/ c.op = "store" /\ Given(c.input, src)
    \/ c.op = "download" /\ Fetchable(c)
    \/ c.op = "insert_blob_name" /\ i > 1 /\ s[i - 1] = Inserting(c.hash)

GoodLists(src) == {s \in Seq(AddingCalls) : \A i \in 1..Len(s) : Good(s, i, src)}

LEMMA GoodConcatenated ==
    ASSUME NEW src, NEW a \in GoodLists(src), NEW b \in GoodLists(src)
    PROVE  a \o b \in GoodLists(src)
<1> DEFINE s == a \o b
<1>1. /\ a \in Seq(AddingCalls) /\ b \in Seq(AddingCalls) /\ Len(a) \in Nat /\ Len(b) \in Nat
      /\ \A i \in 1..Len(a) : Good(a, i, src)
      /\ \A i \in 1..Len(b) : Good(b, i, src)
  BY DEF GoodLists
<1>2. /\ s \in Seq(AddingCalls) /\ Len(s) = Len(a) + Len(b)
      /\ \A i \in 1..Len(a) : s[i] = a[i]
      /\ \A i \in 1..Len(b) : s[Len(a) + i] = b[i]
      /\ \A i \in 1..Len(s) :
            \/ i \in 1..Len(a) /\ s[i] = a[i]
            \/ i - Len(a) \in 1..Len(b) /\ i > Len(a) /\ s[i] = b[i - Len(a)]
  BY ONLY <1>1, Concatenation
<1> HIDE DEF s
<1>3. ASSUME NEW i \in 1..Len(s) PROVE Good(s, i, src)
  <2>1. CASE i \in 1..Len(a) /\ s[i] = a[i]
    <3>1. i > 1 => i - 1 \in 1..Len(a) /\ s[i - 1] = a[i - 1]
      BY <1>1, <1>2, <2>1
    <3>2. Good(a, i, src)
      BY <1>1, <2>1
    <3> QED BY <2>1, <3>1, <3>2 DEF Good
  <2>2. CASE i - Len(a) \in 1..Len(b) /\ i > Len(a) /\ s[i] = b[i - Len(a)]
    <3> DEFINE j == i - Len(a)
    <3>1. j \in 1..Len(b) /\ s[i] = b[j]
      BY <2>2
    <3>2. j > 1 => i > 1 /\ s[i - 1] = b[j - 1]
      <4>1. SUFFICES ASSUME j > 1 PROVE i > 1 /\ s[i - 1] = b[j - 1]
        OBVIOUS
      <4>2. j - 1 \in 1..Len(b) /\ Len(a) + (j - 1) = i - 1 /\ i > 1
        BY <1>1, <2>2, <4>1
      <4>3. s[Len(a) + (j - 1)] = b[j - 1]
        BY <1>2, <4>2
      <4> QED BY <4>2, <4>3
    <3>3. Good(b, j, src)
      BY <1>1, <3>1
    <3> HIDE DEF j
    <3> QED BY <3>1, <3>2, <3>3 DEF Good
  <2> QED BY <1>2, <2>1, <2>2
<1> QED BY <1>2, <1>3 DEF GoodLists, s

LEMMA GoodFlattened ==
    ASSUME NEW src, NEW n \in Nat, NEW seqs, seqs = [i \in 1..n |-> seqs[i]],
           \A i \in 1..n : seqs[i] \in GoodLists(src)
    PROVE  FlattenSeq(seqs) \in GoodLists(src)
<1>1. <<>> \in GoodLists(src)
  BY DEF GoodLists
<1>2. seqs \in Seq(GoodLists(src))
  <2>1. seqs \in [1..n -> GoodLists(src)]
    OBVIOUS
  <2> QED BY <2>1
<1>3. \A a, b \in GoodLists(src) : a \o b \in GoodLists(src)
  BY GoodConcatenated
<1> QED BY <1>1, <1>2, <1>3, FlattenClosed

LEMMA GoodPlain ==
    ASSUME NEW src, NEW s \in Seq(AddingCalls), \A i \in 1..Len(s) : s[i].op \in Unrefused
    PROVE  s \in GoodLists(src)
BY DEF GoodLists, Good

LEMMA GoodStored ==
    ASSUME NEW src, NEW input \in Inputs, Given(input, src), NEW name \in Names
    PROVE  Stored(input, name) \in GoodLists(src)
<1> DEFINE c1 == [op |-> "store", input |-> input]
           c2 == [op |-> "insert_blob", hash |-> Added]
           c3 == [op |-> "insert_blob_name", hash |-> Added, name |-> name]
           s == <<c1, c2, c3>>
<1>1. Stored(input, name) = s
  <2>1. <<c1>> \o <<c2, c3>> = s
    BY ThreeCalls
  <2> QED BY <2>1 DEF Stored, Stores
<1>2. s \in Seq(AddingCalls)
  BY <1>1, StoredList DEF Lists
<1>3. /\ c1.op = "store" /\ c1.input = input /\ c2.op \in Unrefused
      /\ c3.op = "insert_blob_name" /\ c3.hash = Added /\ c2 = Inserting(Added)
  BY DEF Unrefused, Inserting
<1> HIDE DEF c1, c2, c3
<1>4. Len(s) = 3 /\ s[1] = c1 /\ s[2] = c2 /\ s[3] = c3
  OBVIOUS
<1> HIDE DEF s
<1>5. Good(s, 1, src) /\ Good(s, 2, src)
  BY <1>3, <1>4 DEF Good
<1>6. Good(s, 3, src)
  <2>1. 3 > 1 /\ 3 - 1 = 2
    OBVIOUS
  <2> QED BY <1>3, <1>4, <2>1 DEF Good
<1>7. \A i \in 1..3 : i = 1 \/ i = 2 \/ i = 3
  OBVIOUS
<1> QED BY <1>1, <1>2, <1>4, <1>5, <1>6, <1>7 DEF GoodLists

LEMMA GoodDownload ==
    ASSUME NEW src, NEW c, c.body \in Digest \cup {Absent}, c.expected \in Digest \cup {NoValue},
           Fetchable(c)
    PROVE  /\ Download(c.body, c.expected) \in GoodLists(src)
           /\ Download(c.body, NoValue) \in GoodLists(src)
<1>1. ASSUME NEW e \in {c.expected, NoValue} PROVE Download(c.body, e) \in GoodLists(src)
  <2> DEFINE a == [op |-> "download", body |-> c.body, expected |-> e]
  <2>1. Download(c.body, e) \in Seq(AddingCalls)
    BY DownloadList DEF Lists
  <2>2. a.op = "download" /\ Fetchable(a)
    BY DEF Fetchable
  <2>3. Download(c.body, e) = <<a>>
    BY DEF Download
  <2> HIDE DEF a
  <2>4. Len(<<a>>) = 1 /\ <<a>>[1] = a
    OBVIOUS
  <2>5. \A i \in 1..Len(<<a>>) : Good(<<a>>, i, src)
    BY <2>2, <2>4 DEF Good
  <2> QED BY <2>1, <2>3, <2>5 DEF GoodLists
<1> QED BY <1>1

LEMMA GoodUnzipped ==
    ASSUME NEW src, NEW archive \in Archives
    PROVE  UnzipAndStore(archive) \in GoodLists(src)
<1> DEFINE seqs == [i \in 1..Len(archive) |->
              IF Skipped(archive[i]) THEN <<>> ELSE Stored(archive[i].body, archive[i].name)]
           Entry == [dir : {TRUE}, name : Names \cup {NoValue}, body : {NoValue}]
                    \cup [dir : {FALSE}, name : Names \cup {NoValue}, body : Digest]
<1>1. archive \in Seq(Entry)
  BY DEF Archives
<1>2. ASSUME NEW i \in 1..Len(archive) PROVE seqs[i] \in GoodLists(src)
  <2>1. archive[i] \in Entry
    <3> HIDE DEF Entry
    <3> QED BY <1>1
  <2>2. CASE Skipped(archive[i])
    BY <2>2 DEF GoodLists
  <2>3. CASE ~Skipped(archive[i])
    <3>1. archive[i].body \in Digest /\ archive[i].name \in Names
      BY <2>1, <2>3 DEF Skipped
    <3>2. archive[i].body \notin Sources /\ archive[i].body # Absent
      BY <3>1, LegacyAssumption
    <3>3. Given(archive[i].body, src) /\ archive[i].body \in Inputs
      BY <3>1, <3>2 DEF Given, Inputs
    <3>4. Stored(archive[i].body, archive[i].name) \in GoodLists(src)
      BY <3>1, <3>3, GoodStored
    <3> QED BY <2>3, <3>4
  <2> QED BY <2>2, <2>3
<1>3. Len(archive) \in Nat
  <2> HIDE DEF Entry
  <2> QED BY <1>1
<1>4. seqs = [i \in 1..Len(archive) |-> seqs[i]]
  OBVIOUS
<1>5. FlattenSeq(seqs) \in GoodLists(src)
  <2> HIDE DEF seqs
  <2> QED BY <1>2, <1>3, <1>4, GoodFlattened
<1> QED BY <1>5 DEF UnzipAndStore

LEMMA GoodAddPath ==
    ASSUME NEW src, NEW c, c.files \in Seq(Sources), c.tags \in Seq(Tags),
           c.meta \in Values \cup {NoValue}, \A i \in DOMAIN c.files : src[c.files[i]] # Absent
    PROVE  AddPathCommand(c) \in GoodLists(src)
<1> DEFINE b == AddTags(Added, c.tags)
           m == IF c.meta = NoValue THEN <<>> ELSE BlobMetadata(Added, c.meta)
           seqs == [i \in 1..Len(c.files) |-> AddPath(c.files[i]) \o b \o m]
<1>1. Added \in Ids \cup {Added} /\ Len(c.tags) \in Nat /\ Len(c.files) \in Nat
  OBVIOUS
<1>2. b \in GoodLists(src)
  <2>1. b \in Seq(AddingCalls) /\ Len(b) = Len(c.tags)
    BY <1>1, TagsList
  <2>2. \A i \in 1..Len(c.tags) : b[i].op \in Unrefused
    BY DEF AddTags, Unrefused
  <2> HIDE DEF b
  <2> QED BY <2>1, <2>2, GoodPlain
<1>3. m \in GoodLists(src)
  <2>1. CASE c.meta = NoValue
    BY <2>1 DEF GoodLists
  <2>2. CASE c.meta # NoValue
    <3> DEFINE v == BlobMetadata(Added, c.meta)
    <3>1. c.meta \in Values
      BY <2>2
    <3>2. v \in Seq(AddingCalls) /\ Len(v) = 1
      BY <1>1, <3>1, MetadataList
    <3>3. v[1].op \in Unrefused
      BY DEF BlobMetadata, Unrefused
    <3> HIDE DEF v
    <3>4. v \in GoodLists(src)
      BY <3>2, <3>3, GoodPlain
    <3> QED BY <2>2, <3>4 DEF v
  <2> QED BY <2>1, <2>2
<1>4. ASSUME NEW i \in 1..Len(c.files) PROVE AddPath(c.files[i]) \o b \o m \in GoodLists(src)
  <2> DEFINE f == c.files[i]
  <2>1. f \in Sources /\ src[f] # Absent
    BY <1>1
  <2>2. f \in Inputs /\ f \in Names /\ Given(f, src)
    BY <2>1, LegacyAssumption DEF Inputs, Given
  <2>3. AddPath(f) \in GoodLists(src)
    BY <2>2, GoodStored DEF AddPath
  <2> HIDE DEF b, m, f
  <2>4. (AddPath(f) \o b) \o m \in GoodLists(src)
    BY <1>2, <1>3, <2>3, GoodConcatenated
  <2> QED BY <2>4 DEF f
<1>5. \A i \in 1..Len(c.files) : seqs[i] \in GoodLists(src)
  <2> HIDE DEF b, m
  <2> QED BY <1>4
<1>6. seqs = [i \in 1..Len(c.files) |-> seqs[i]]
  OBVIOUS
<1>7. FlattenSeq(seqs) \in GoodLists(src)
  <2> HIDE DEF seqs
  <2> QED BY <1>1, <1>5, <1>6, GoodFlattened
<1> QED BY <1>7 DEF AddPathCommand

LEMMA GoodAddUrl ==
    ASSUME NEW src, NEW c, c.body \in Digest \cup {Absent}, c.name \in Names,
           c.expected \in Digest \cup {NoValue}, c.unzip \in BOOLEAN, c.archive \in Archives,
           Fetchable(c)
    PROVE  AddUrlCommand(c) \in GoodLists(src)
<1>1. /\ Download(c.body, c.expected) \in GoodLists(src)
      /\ Download(c.body, NoValue) \in GoodLists(src)
  BY GoodDownload
<1>2. c.body \in Digest /\ c.body \notin Sources /\ c.body # Absent
  BY LegacyAssumption DEF Fetchable
<1>3. Stored(c.body, c.name) \in GoodLists(src)
  BY <1>2, GoodStored DEF Given, Inputs
<1>4. UnzipAndStore(c.archive) \in GoodLists(src)
  BY GoodUnzipped
<1> QED BY <1>1, <1>3, <1>4, GoodConcatenated
        DEF AddUrlCommand, AddVerifiedUrlUnzip, AddVerifiedUrl, AddUrlUnzip, AddUrl

(* A command starts with calls that find what they need.                    *)
LEMMA StartFits ==
    ASSUME NEW c \in Commands, NEW r, r.script[r.next] = c, r.calls = Calls(c),
           r.manifest = NoManifest, NEW d, NEW fs, NEW src, Welcome(r, src)
    PROVE  AllFit(r, d, fs, src)
<1>1. ASSUME Calls(c) \in GoodLists(src) PROVE AllFit(r, d, fs, src)
  <2>1. \A i \in 1..Len(r.calls) : Good(r.calls, i, src)
    BY <1>1 DEF GoodLists
  <2> QED BY <2>1 DEF AllFit, Fits, Good
<1>2. CASE c.cmd = "add-path"
  <2>1. /\ c.files \in Seq(Sources) /\ c.tags \in Seq(Tags) /\ c.meta \in Values \cup {NoValue}
    BY <1>2 DEF Commands, Urls
  <2>2. \A i \in DOMAIN c.files : src[c.files[i]] # Absent
    BY <1>2 DEF Welcome
  <2>3. AddPathCommand(c) \in GoodLists(src)
    BY <2>1, <2>2, GoodAddPath
  <2> QED BY <1>1, <1>2, <2>3 DEF Calls
<1>3. CASE c.cmd = "add-url"
  <2>1. /\ c.body \in Digest \cup {Absent} /\ c.name \in Names
        /\ c.expected \in Digest \cup {NoValue} /\ c.unzip \in BOOLEAN /\ c.archive \in Archives
    BY <1>3 DEF Commands, Urls
  <2>2. Fetchable(c)
    BY <1>3 DEF Welcome
  <2>3. AddUrlCommand(c) \in GoodLists(src)
    BY <2>1, <2>2, GoodAddUrl
  <2> QED BY <1>1, <1>3, <2>3 DEF Calls
<1>4. CASE c.cmd = "tag"
  <2>1. c.id \in Ids \cup {Added} /\ c.tags \in Seq(Tags) /\ Len(c.tags) \in Nat
    BY <1>4 DEF Commands, Urls
  <2>2. AddTags(c.id, c.tags) \in Seq(AddingCalls) /\ Len(AddTags(c.id, c.tags)) = Len(c.tags)
    BY <2>1, TagsList
  <2>3. \A i \in 1..Len(c.tags) : AddTags(c.id, c.tags)[i].op \in Unrefused
    BY DEF AddTags, Unrefused
  <2> QED BY <1>1, <1>4, <2>2, <2>3, GoodPlain DEF Calls
<1>5. CASE c.cmd = "meta"
  <2>1. c.id \in Ids \cup {Added} /\ c.value \in Values
    BY <1>5 DEF Commands, Urls
  <2>2. BlobMetadata(c.id, c.value) \in Seq(AddingCalls) /\ Len(BlobMetadata(c.id, c.value)) = 1
    BY <2>1, MetadataList
  <2>3. BlobMetadata(c.id, c.value)[1].op \in Unrefused
    BY DEF BlobMetadata, Unrefused
  <2> QED BY <1>1, <1>5, <2>2, <2>3, GoodPlain DEF Calls
<1>6. CASE c.cmd = "rel"
  <2> DEFINE a == [op |-> "add_relation", hash |-> c.id, target |-> c.target]
  <2>1. c.id \in Digest /\ c.target \in Digest
    BY <1>6 DEF Commands, Urls
  <2>2. a \in AddingCalls /\ a.op \in Unrefused /\ Calls(c) = <<a>>
    BY <1>6, <2>1 DEF AddingCalls, StatementCalls, Unrefused, Calls
  <2> HIDE DEF a
  <2>3. <<a>> \in Seq(AddingCalls) /\ \A i \in 1..Len(<<a>>) : <<a>>[i].op \in Unrefused
    BY <2>2
  <2>4. <<a>> \in GoodLists(src)
    BY ONLY <2>3, GoodPlain
  <2> QED BY <1>1, <2>2, <2>4
<1>7. CASE c.cmd = "pkg-rm"
  <2> DEFINE s == r.calls
  <2>1. s = << Emptying(c.name), [op |-> "delete_package", name |-> c.name] >>
    BY <1>7 DEF Calls, PackageCommand, RemovePackage, Emptying
  <2>2. /\ Len(s) = 2 /\ s[1] = Emptying(c.name) /\ s[2].op = "delete_package"
        /\ s[2].name = c.name /\ s[1].op \in Unrefused
    BY <2>1 DEF Emptying, Unrefused
  <2>3. 2 > 1 /\ 2 - 1 = 1 /\ \A i \in 1..2 : i = 1 \/ i = 2
    OBVIOUS
  <2> HIDE DEF s
  <2>4. /\ s[1].op \in Unrefused
        /\ s[2].op = "delete_package" /\ 2 = Len(s) /\ 2 > 1 /\ s[2 - 1] = Emptying(s[2].name)
    BY <2>2, <2>3
  <2>5. Fits(r, 1, d, fs, src) /\ Fits(r, 2, d, fs, src)
    BY <2>4 DEF Fits, s
  <2> QED BY <2>2, <2>3, <2>5 DEF AllFit, s
<1>8. CASE c.cmd = "import"
  <2> DEFINE s == r.calls
  <2>1. s = Importing
    BY <1>8 DEF Calls, Importing
  <2>2. Len(s) = 2 /\ s[1].op = "import_blobs" /\ s[2].op = "import_manifest"
    BY <2>1 DEF Importing
  <2>3. 1 \in 1..(2 - 1) /\ \A i \in 1..2 : i = 1 \/ i = 2
    OBVIOUS
  <2> HIDE DEF s
  <2>4. Fits(r, 1, d, fs, src) /\ Fits(r, 2, d, fs, src)
    BY <1>8, <2>1, <2>2, <2>3 DEF Fits, s
  <2> QED BY <2>2, <2>3, <2>4 DEF AllFit, s
<1> QED BY <1>2, <1>3, <1>4, <1>5, <1>6, <1>7, <1>8 DEF Welcome

-----------------------------------------------------------------------------
(* What a call that returned leaves for the next ones.                     *)

Advances(r, d, e) ==
    LET c == r.calls[1] IN
    /\ d.rows \subseteq e.rows
    /\ c.op # "delete_package" => d.packages \subseteq e.packages
    /\ c.op = "insert_blob" => (IF c.hash = Added THEN r.digest ELSE c.hash) \in e.rows
    /\ c.op = "delete_members" => \A m \in e.members : m[1] # c.name
    /\ c.op \in {"create_package", "ensure_package"} => c.name \in e.packages

LEMMA RestFits ==
    ASSUME NEW r \in Process, Stage(r), r.status = "running", NEW s, Returned(r, s, <<>>),
           s.digest = r.digest \/ Op(r) = "store", s.manifest = r.manifest,
           s.script = r.script, s.next = r.next, NEW d, NEW e, NEW fs, NEW fs2, NEW src, InDir(fs2) = InDir(fs),
           Op(r) # "import_blobs", AllFit(r, d, fs, src), Advances(r, d, e)
    PROVE  AllFit(s, e, fs2, src)
<1>1. /\ Len(r.calls) \in Nat /\ Len(s.calls) = Len(r.calls) - 1
      /\ \A i \in 1..Len(s.calls) : s.calls[i] = r.calls[i + 1] /\ i + 1 \in 1..Len(r.calls)
  BY RestOfCalls
<1>2. SUFFICES ASSUME NEW i \in 1..Len(s.calls) PROVE Fits(s, i, e, fs2, src)
  BY DEF AllFit
<1> DEFINE c == r.calls[i + 1]
           h == r.calls[1]
<1>3. s.calls[i] = c /\ i \in Nat /\ i >= 1 /\ (i = Len(s.calls) <=> i + 1 = Len(r.calls))
  BY <1>1
<1>4. Fits(r, i + 1, d, fs, src)
  BY <1>1 DEF AllFit
<1>5. (i + 1) - 1 = i /\ i + 1 > 1 /\ i + 1 # 1
  BY <1>3
<1> HIDE DEF h
<1>15. /\ c.op = "insert_blob_name" =>
             r.calls[i] = Inserting(c.hash) \/ (c.hash # Added /\ c.hash \in d.rows)
       /\ c.op = "delete_package" => i + 1 = Len(r.calls) /\ r.calls[i] = Emptying(c.name)
       /\ c.op = "add_blob_to_package" =>
             /\ c.hash \in d.rows
             /\ c.name \in d.packages \/ \E j \in 1..i : MakesPackage(r.calls[j], c.name)
       /\ c.op = "import_manifest" =>
             /\ i + 1 = Len(r.calls) /\ r.manifest = NoManifest
             /\ r.script[r.next].cmd = "import"
             /\ \A g \in InDir(fs) : g \in d.rows \/ \E j \in 1..i :
                   r.calls[j].op = "import_blobs" \/ r.calls[j] = Inserting(g)
       /\ c.op = "create_package" => FALSE
       /\ c.op = "import_blobs" => r.calls = Importing
       /\ c.op = "store" => Given(c.input, src)
       /\ c.op = "download" => Fetchable(c)
       /\ c.op = "import_blob" => c.hash \in InDir(fs)
       /\ c.op \in Unrefused \cup {"insert_blob_name", "delete_package", "add_blob_to_package",
             "import_manifest", "create_package", "import_blobs", "store", "download", "import_blob"}
  BY <1>4, <1>5 DEF Fits, Unrefused, h
<1>16. h = r.calls[1]
  BY DEF h
<1>6. i > 1 => s.calls[i - 1] = r.calls[i]
  <2>1. i > 1 => i - 1 \in 1..Len(s.calls) /\ (i - 1) + 1 = i
    BY <1>1, <1>3
  <2> QED BY <1>1, <2>1
<1>7. \A j \in 1..i : \/ j = 1
                      \/ j - 1 \in 1..(i - 1) /\ s.calls[j - 1] = r.calls[j]
  <2> TAKE j \in 1..i
  <2>1. j # 1 => j - 1 \in 1..Len(s.calls) /\ (j - 1) + 1 = j /\ j - 1 \in 1..(i - 1)
    BY <1>1, <1>3
  <2> QED BY <1>1, <2>1
<1>8. i = 1 => r.calls[i] = h
  BY DEF h
<1>9. CASE c.op \in Unrefused \cup {"store", "download", "import_blob"}
  BY <1>3, <1>9, <1>15 DEF Fits
<1>10. CASE c.op = "insert_blob_name"
  <2>1. r.calls[i] = Inserting(c.hash) \/ (c.hash # Added /\ c.hash \in d.rows)
    BY <1>10, <1>15
  <2>2. CASE c.hash # Added /\ c.hash \in d.rows
    BY <1>3, <1>10, <2>2 DEF Fits, Advances
  <2>3. CASE r.calls[i] = Inserting(c.hash) /\ i > 1
    BY <1>3, <1>6, <1>10, <2>3 DEF Fits
  <2>4. CASE r.calls[i] = Inserting(c.hash) /\ i = 1
    <3>1. h.op = "insert_blob" /\ h.hash = c.hash
      BY <1>8, <2>4 DEF Inserting, h
    <3>2. s.digest = r.digest /\ (IF c.hash = Added THEN s.digest ELSE c.hash) \in e.rows
      BY <3>1 DEF Advances, Op, h
    <3> QED BY <1>3, <1>10, <2>4, <3>2 DEF Fits
  <2> QED BY <1>3, <2>1, <2>2, <2>3, <2>4
<1>11. CASE c.op = "delete_package"
  <2>1. i + 1 = Len(r.calls) /\ r.calls[i] = Emptying(c.name)
    BY <1>11, <1>15
  <2>2. CASE i > 1
    BY <1>3, <1>6, <1>11, <2>1, <2>2 DEF Fits
  <2>3. CASE i = 1
    <3>1. h.op = "delete_members" /\ h.name = c.name
      BY <1>8, <2>1, <2>3 DEF Emptying, h
    <3>2. \A m \in e.members : m[1] # c.name
      BY <3>1 DEF Advances, h
    <3> QED BY <1>3, <1>11, <2>1, <2>3, <3>2 DEF Fits
  <2> QED BY <1>3, <2>2, <2>3
<1>12. CASE c.op = "add_blob_to_package"
  <2>1. c.hash \in d.rows /\ (c.name \in d.packages \/ \E j \in 1..i : MakesPackage(r.calls[j], c.name))
    BY <1>12, <1>15
  <2>2. h.op # "delete_package"
    <3>1. Fits(r, 1, d, fs, src) /\ 1 # Len(r.calls)
      BY <1>1, <1>3 DEF AllFit
    <3> QED BY <3>1 DEF Fits, Unrefused, h
  <2>3. c.name \in e.packages \/ \E j \in 1..(i - 1) : MakesPackage(s.calls[j], c.name)
    <3>1. CASE c.name \in d.packages
      BY <2>2, <3>1 DEF Advances, h
    <3>2. CASE \E j \in 1..i : MakesPackage(r.calls[j], c.name)
      <4>1. PICK j \in 1..i : MakesPackage(r.calls[j], c.name)
        BY <3>2
      <4>2. CASE j = 1
        BY <4>1, <4>2 DEF MakesPackage, Advances, h
      <4>3. CASE j # 1
        BY <1>7, <4>1, <4>3
      <4> QED BY <4>2, <4>3
    <3> QED BY <2>1, <3>1, <3>2
  <2> QED BY <1>3, <1>12, <2>1, <2>3 DEF Fits, Advances
<1>13. CASE c.op = "import_manifest"
  <2>1. /\ i + 1 = Len(r.calls) /\ r.manifest = NoManifest /\ s.script[s.next].cmd = "import"
        /\ \A g \in InDir(fs) : g \in d.rows \/ \E j \in 1..i :
              r.calls[j].op = "import_blobs" \/ r.calls[j] = Inserting(g)
    BY <1>13, <1>15
  <2>2. ASSUME NEW g \in InDir(fs2)
        PROVE  g \in e.rows \/ \E j \in 1..(i - 1) :
                  s.calls[j].op = "import_blobs" \/ s.calls[j] = Inserting(g)
    <3>1. CASE g \in d.rows
      BY <3>1 DEF Advances, h
    <3>2. CASE \E j \in 1..i : r.calls[j].op = "import_blobs" \/ r.calls[j] = Inserting(g)
      <4>1. PICK j \in 1..i : r.calls[j].op = "import_blobs" \/ r.calls[j] = Inserting(g)
        BY <3>2
      <4>2. CASE j = 1
        <5>1. h.op = "insert_blob" /\ h.hash = g /\ g # Added
          <6>1. g \in Digest /\ Added \notin Digest
            BY LegacyAssumption DEF InDir, Ids
          <6> QED BY <4>1, <4>2, <6>1 DEF Inserting, Op, h
        <5> QED BY <5>1 DEF Advances, h
      <4>3. CASE j # 1
        BY <1>7, <4>1, <4>3
      <4> QED BY <4>2, <4>3
    <3> QED BY <2>1, <2>2, <3>1, <3>2
  <2> QED BY <1>3, <1>13, <2>1, <2>2 DEF Fits
<1>14. CASE c.op \in {"create_package", "import_blobs"}
  <2>1. c.op = "import_blobs" /\ r.calls = Importing
    BY <1>14, <1>15
  <2>2. r.calls[1].op = "import_blobs"
    BY <2>1 DEF Importing
  <2> QED BY <2>2 DEF Op
<1> QED BY <1>9, <1>10, <1>11, <1>12, <1>13, <1>14, <1>15

-----------------------------------------------------------------------------
(* A statement that finds what it needs is executed.                        *)

LEMMA ResolvedFields ==
    ASSUME LegacyInv, NEW p \in Procs, run[p].status = "running", Call(p).op \in Statements
    PROVE  LET c == Call(p)
               k == Resolved(p)
           IN  /\ k.op = c.op
               /\ c.op \in {"create_package", "delete_members", "delete_package",
                            "add_blob_to_package"} => k.name = c.name
               /\ c.op \in {"insert_blob", "insert_blob_name", "add_blob_to_package"} =>
                     k.hash = IF c.hash = Added THEN run[p].digest ELSE c.hash
<1> DEFINE c == Call(p)
<1>1. c \in StatementCalls \cup RemovingCalls /\ Added \notin Digest
  BY Current, CallShape, LegacyAssumption DEF Ids
<1> HIDE DEF c
<1>2. CASE c \in [op : {"insert_blob"}, hash : Digest \cup {Added}]
  BY <1>2 DEF Resolved, c
<1>3. CASE c \in [op : {"insert_blob_name"}, hash : Digest \cup {Added}, name : Names]
  BY <1>3 DEF Resolved, c
<1>4. CASE c \in [op : {"create_package"}, name : Packages] \cup RemovingCalls
  BY <1>4 DEF Resolved, RemovingCalls, c
<1>5. CASE c \in [op : {"add_blob_to_package"}, name : Packages, hash : Digest]
  BY <1>1, <1>5 DEF Resolved, c
<1>6. CASE c \in [op : {"add_tag"}, hash : Ids \cup {Added}, tag : Tags]
  BY <1>6 DEF Resolved, c
<1>7. CASE c \in [op : {"set_metadata"}, hash : Ids \cup {Added}, value : Values]
  BY <1>7 DEF Resolved, c
<1>8. CASE c \in [op : {"add_relation"}, hash : Digest, target : Digest]
  BY <1>1, <1>8 DEF Resolved, c
<1> QED BY <1>1, <1>2, <1>3, <1>4, <1>5, <1>6, <1>7, <1>8 DEF StatementCalls, c

(* What a statement does to the tables the foreign keys are about.          *)
LEMMA ExecuteTables ==
    ASSUME NEW d \in Databases, NEW c, c.op \in Statements
    PROVE  LET e == Execute(d, c)
           IN  /\ e.rows = IF c.op = "insert_blob" THEN d.rows \cup {c.hash} ELSE d.rows
               /\ e.names = IF c.op = "insert_blob_name" THEN d.names \cup {<<c.hash, c.name>>}
                            ELSE d.names
               /\ e.packages = CASE c.op = "create_package" -> d.packages \cup {c.name}
                                 [] c.op = "delete_package" -> d.packages \ {c.name}
                                 [] OTHER -> d.packages
               /\ e.members = CASE c.op = "add_blob_to_package" -> d.members \cup {<<c.name, c.hash>>}
                                [] c.op = "delete_members" -> {m \in d.members : m[1] # c.name}
                                [] OTHER -> d.members
<1>1. CASE c.op = "insert_blob"
  BY <1>1 DEF Execute, InsertBlob, Databases
<1>2. CASE c.op = "insert_blob_name"
  BY <1>2 DEF Execute, InsertBlobName, Databases
<1>3. CASE c.op = "create_package"
  BY <1>3 DEF Execute, CreatePackage, Databases
<1>4. CASE c.op = "add_blob_to_package"
  BY <1>4 DEF Execute, AddBlobToPackage, Databases
<1>5. CASE c.op = "delete_members"
  BY <1>5 DEF Execute, DeleteMembers, Databases
<1>6. CASE c.op = "delete_package"
  BY <1>6 DEF Execute, DeletePackage, Databases
<1>7. CASE c.op = "add_tag"
  BY <1>7 DEF Execute, AddTag, Databases
<1>8. CASE c.op = "set_metadata"
  BY <1>8 DEF Execute, SetMetadata, Databases
<1>9. CASE c.op = "add_relation"
  BY <1>9 DEF Execute, AddRelation, Databases
<1> QED BY <1>1, <1>2, <1>3, <1>4, <1>5, <1>6, <1>7, <1>8, <1>9 DEF Statements

LEMMA Accepted ==
    ASSUME NEW d \in Databases, ForeignKeys(d), NEW c, c.op \in Statements,
           c.op = "insert_blob_name" => c.hash \in d.rows,
           c.op = "create_package" => c.name \notin d.packages,
           c.op = "add_blob_to_package" => c.name \in d.packages /\ c.hash \in d.rows,
           c.op = "delete_package" => \A m \in d.members : m[1] # c.name
    PROVE  ~Rejected(d, c)
<1> DEFINE e == Execute(d, c)
<1>1. /\ e.rows = IF c.op = "insert_blob" THEN d.rows \cup {c.hash} ELSE d.rows
      /\ e.names = IF c.op = "insert_blob_name" THEN d.names \cup {<<c.hash, c.name>>}
                   ELSE d.names
      /\ e.packages = CASE c.op = "create_package" -> d.packages \cup {c.name}
                        [] c.op = "delete_package" -> d.packages \ {c.name}
                        [] OTHER -> d.packages
      /\ e.members = CASE c.op = "add_blob_to_package" -> d.members \cup {<<c.name, c.hash>>}
                       [] c.op = "delete_members" -> {m \in d.members : m[1] # c.name}
                       [] OTHER -> d.members
  BY ExecuteTables
<1> HIDE DEF e
<1>2. d.rows \subseteq e.rows
  BY <1>1
<1>3. ASSUME NEW row \in e.names PROVE row[1] \in e.rows
  <2>1. CASE row \in d.names
    BY <1>2, <2>1 DEF ForeignKeys
  <2>2. CASE row \notin d.names
    <3>1. c.op = "insert_blob_name" /\ row = <<c.hash, c.name>>
      BY <1>1, <1>3, <2>2
    <3> QED BY <1>2, <3>1
  <2> QED BY <2>1, <2>2
<1>4. ASSUME NEW row \in e.members PROVE row[1] \in e.packages /\ row[2] \in e.rows
  <2>1. CASE row \in d.members
    <3>1. row[1] \in d.packages /\ row[2] \in d.rows
      BY <2>1 DEF ForeignKeys
    <3>2. c.op = "delete_package" => row[1] # c.name
      BY <2>1
    <3>3. row[1] \in e.packages
      BY <1>1, <3>1, <3>2
    <3> QED BY <1>2, <3>1, <3>3
  <2>2. CASE row \notin d.members
    <3>1. c.op = "add_blob_to_package" /\ row = <<c.name, c.hash>>
      BY <1>1, <1>4, <2>2
    <3>2. e.packages = d.packages
      BY <1>1, <3>1
    <3> QED BY <1>2, <3>1, <3>2
  <2> QED BY <2>1, <2>2
<1> QED BY <1>3, <1>4 DEF Rejected, ForeignKeys, PackageExists, e

LEMMA StatementFits ==
    ASSUME LegacyInv, NEW p \in Procs, Statement(p),
           Fits(run[p], 1, db[Root(p)], files, source)
    PROVE  Returned(run[p], run'[p], <<>>) /\ Advances(run[p], db[Root(p)], db'[Root(p)])
<1> DEFINE r == run[p]
           c == Call(p)
           k == Resolved(p)
           d == db[Root(p)]
           e == db'[Root(p)]
<1>1. /\ r.status = "running" /\ r \in Process /\ Stage(r) /\ c = r.calls[1]
      /\ c.op \in Statements /\ Root(p) \in Roots /\ db \in [Roots -> Databases]
      /\ ForeignKeys(d)
  BY Current DEF Statement, At, LegacyInv, StateOK
<1>2. /\ k.op = c.op
      /\ c.op \in {"create_package", "delete_members", "delete_package",
                   "add_blob_to_package"} => k.name = c.name
      /\ c.op \in {"insert_blob", "insert_blob_name", "add_blob_to_package"} =>
            k.hash = IF c.hash = Added THEN r.digest ELSE c.hash
  BY <1>1, ResolvedFields
<1>3. d \in Databases /\ ~(1 > 1) /\ 1..(1 - 1) = {}
  BY <1>1
<1>4. c.op = "add_blob_to_package" => c.hash # Added
  <2>1. c \in StatementCalls \cup RemovingCalls /\ Added \notin Digest
    BY <1>1, Current, CallShape, LegacyAssumption DEF Ids
  <2> QED BY <2>1 DEF StatementCalls, RemovingCalls
<1>5. Goes(p, Returns(r, <<>>)) => run'[p] = Returns(r, <<>>)
  BY GoesTo
<1> HIDE DEF r, c, k, d
<1>6. /\ c.op = "insert_blob_name" => k.hash \in d.rows
      /\ c.op = "create_package" => c.name \notin d.packages
      /\ c.op = "add_blob_to_package" => c.name \in d.packages /\ c.hash \in d.rows
      /\ c.op = "delete_package" => \A m \in d.members : m[1] # c.name
  <2>1. Fits(r, 1, d, files, source)
    BY DEF r, d
  <2> QED BY <1>1, <1>2, <1>3, <2>1 DEF Fits, Unrefused
<1>7. ~Rejected(d, k)
  BY <1>1, <1>2, <1>3, <1>4, <1>6, Accepted
<1>8. db' = [db EXCEPT ![Root(p)] = Execute(d, k)] /\ Goes(p, Returns(r, <<>>))
  BY <1>7 DEF Statement, d, k, r
<1>9. Returned(r, run'[p], <<>>)
  BY <1>1, <1>5, <1>8, ReturnsFields
<1>10. e = Execute(d, k)
  BY <1>1, <1>8
<1> HIDE DEF e
<1>11. /\ e.rows = IF k.op = "insert_blob" THEN d.rows \cup {k.hash} ELSE d.rows
       /\ e.packages = CASE k.op = "create_package" -> d.packages \cup {k.name}
                         [] k.op = "delete_package" -> d.packages \ {k.name}
                         [] OTHER -> d.packages
       /\ e.members = CASE k.op = "add_blob_to_package" -> d.members \cup {<<k.name, k.hash>>}
                        [] k.op = "delete_members" -> {m \in d.members : m[1] # k.name}
                        [] OTHER -> d.members
  BY <1>1, <1>2, <1>3, <1>10, ExecuteTables
<1>12. Advances(r, d, e)
  <2>1. d.rows \subseteq e.rows /\ (c.op # "delete_package" => d.packages \subseteq e.packages)
    BY <1>2, <1>11
  <2>2. c.op = "insert_blob" => (IF c.hash = Added THEN r.digest ELSE c.hash) \in e.rows
    BY <1>2, <1>11
  <2>3. c.op = "delete_members" => \A m \in e.members : m[1] # c.name
    BY <1>2, <1>11
  <2>4. c.op \in {"create_package", "ensure_package"} => c.name \in e.packages
    BY <1>1, <1>2, <1>11 DEF Statements
  <2> QED BY <1>1, <2>1, <2>2, <2>3, <2>4 DEF Advances
<1> QED BY <1>9, <1>12 DEF r, d, e

-----------------------------------------------------------------------------
(* A call that finds what it needs goes on, or returns.                     *)

Fetching == {"store", "download", "import_blob"}

LEMMA FetchingSteps ==
    ASSUME LegacyInv, NEW p \in Procs, ProcessStep(p), Op(run[p]) \in Fetching
    PROVE  \/ HashFile(p) \/ StoreBlob(p) \/ Fetch(p) \/ OpenCopy(p) \/ CopyChunk(p)
           \/ EndCopy(p) \/ Seal(p) \/ ImportBlob(p) \/ Crash(p) \/ CallFails(p)
<1>1. Call(p).op \in Fetching
  BY RunningStep, Current
<1>2. ~Statement(p) /\ ~VerifyPath(p)
  BY <1>1 DEF Statement, VerifyPath, At, Statements, Fetching
<1>3. ~AgentStep(p) /\ ~UploadCallFails(p)
  BY <1>1 DEF AgentStep, UploadCallFails, ReadUpload, StoreBlobWithProgress, Persist, Mismatch,
     Register, CompleteUpload, MissingUpload, HandleDownload, AgentLine, At, Fetching
<1>4. TransferStep(p) => ImportBlob(p)
  BY <1>1 DEF TransferStep, ExportPackage, CopyBlobTo, Collect, WriteExportMetadata, ImportBlobs,
     ImportManifest, MergeMetadata, EnsurePackage, At, Fetching
<1> QED BY <1>2, <1>3, <1>4 DEF ProcessStep, Step, StoreStep

(* It writes no file of the export directory.                               *)
LEMMA FetchingFiles ==
    ASSUME LegacyInv, NEW p \in Procs, ProcessStep(p), Op(run[p]) \in Fetching
    PROVE  InDir(files') = InDir(files)
<1> DEFINE t == Target(p)
<1>1. Call(p).op \in Fetching /\ Root(p) \in Roots
  BY RunningStep, Current
<1>2. CASE files' = files
  BY <1>2 DEF InDir
<1>3. CASE files' # files
  <2>1. OpenCopy(p) \/ CopyChunk(p) \/ Seal(p)
    BY <1>3, FetchingSteps DEF HashFile, StoreBlob, Fetch, EndCopy, ImportBlob, Crash, CallFails,
       ReadsOnly
  <2>2. Call(p).op \in {"store", "import_blob"}
    BY <1>1, <2>1 DEF OpenCopy, CopyChunk, Seal, At, Copies, Fetching
  <2>3. \A h : t # <<ExportDir, h>>
    <3>1. Root(p) # ExportDir
      BY <1>1, LegacyAssumption
    <3>2. \E g : t = <<Root(p), g>>
      BY <2>2 DEF Target
    <3> QED BY <3>1, <3>2
  <2>4. \E f : files' = [files EXCEPT ![t] = f]
    BY <1>3, <2>1 DEF OpenCopy, CopyChunk, Seal
  <2> HIDE DEF t
  <2>5. files \in [Places \X Digest -> BlobFiles \cup {NoFile}] /\ ExportDir \in Places
    BY DEF LegacyInv, StateOK, Places
  <2>6. \A h \in Digest : files'[<<ExportDir, h>>] = files[<<ExportDir, h>>]
    BY <2>3, <2>4, <2>5
  <2> QED BY <2>6 DEF InDir
<1> QED BY <1>2, <1>3

LEMMA FetchingFits ==
    ASSUME LegacyInv, NEW p \in Procs, ProcessStep(p), Op(run[p]) \in Fetching,
           Fits(run[p], 1, db[Root(p)], files, source), Free(run[p], files)
    PROVE  \/ run'[p].status \in {"crashed", "fault"}
           \/ Returned(run[p], run'[p], <<>>)
           \/ Stays(run[p], run'[p]) /\ Free(run'[p], files')
<1> DEFINE r == run[p]
           s == run'[p]
           c == Call(p)
<1>1. /\ r.status = "running" /\ r \in Process /\ Stage(r) /\ Position(r)
      /\ Footing(r, source, files) /\ c = r.calls[1] /\ c \in AllCalls /\ c.op = Op(r)
      /\ Root(p) = RootOf(r) /\ Target(p) = TargetOf(r)
  BY RunningStep, Current
<1>2. /\ c.op = "store" => Given(c.input, source)
      /\ c.op = "download" => Fetchable(c)
      /\ c.op = "import_blob" => c.hash \in InDir(files)
      /\ c.op \in Fetching
  BY <1>1 DEF Fits, Unrefused, Fetching
<1>3. \A t : Goes(p, t) => s = t
  BY GoesTo
<1>4. ASSUME NEW t, s = t, t.status = r.status, t.calls = r.calls, t.manifest = r.manifest,
             t.pc # "open"
      PROVE  Stays(r, s) /\ Free(s, files')
  BY <1>1, <1>4 DEF Stays, Free
<1>5. CASE HashFile(p)
  <2>1. c.op = "store" /\ r.pc = "call"
    BY <1>2, <1>5 DEF HashFile, At, Fetching
  <2>2. Bytes(c.input) # Absent
    BY <1>2, <2>1 DEF Given, Bytes
  <2>3. PICK b : s = [r EXCEPT !.buf = b]
    BY <1>3, <1>5, <2>2 DEF HashFile
  <2> DEFINE t == [r EXCEPT !.buf = b]
  <2>4. t.status = r.status /\ t.calls = r.calls /\ t.manifest = r.manifest /\ t.pc # "open"
    BY <1>1, <2>1 DEF Process
  <2> QED BY <1>4, <2>3, <2>4
<1>6. CASE StoreBlob(p)
  <2> DEFINE found == [r EXCEPT !.digest = r.buf]
             t == [found EXCEPT !.pc = "open", !.buf = <<>>]
  <2>1. c.op = "store" /\ files' = files
    BY <1>2, <1>6 DEF StoreBlob, At, ReadsOnly
  <2>2. s = IF Exists(Root(p), r.buf) THEN Returns(found, <<>>) ELSE t
    BY <1>3, <1>6 DEF StoreBlob
  <2>3. At(p, "call", {"store", "verify_path", "upload"}) /\ Hashed(p)
    BY <1>6 DEF StoreBlob, At
  <2>4. r.buf \in Digest
    BY <2>3, HashedDigest
  <2>5. found \in Process /\ found.calls = r.calls
    BY <1>1, <2>4 DEF Process
  <2>6. CASE Exists(Root(p), r.buf)
    <3> HIDE DEF found
    <3>1. Returned(found, s, <<>>)
      BY <2>2, <2>5, <2>6, ReturnsFields
    <3> QED BY <2>5, <3>1 DEF Returned
  <2>7. CASE ~Exists(Root(p), r.buf)
    <3>1. s = t
      BY <2>2, <2>7
    <3>2. /\ t.status = r.status /\ t.calls = r.calls /\ t.manifest = r.manifest
          /\ t.digest = r.buf /\ t.script = r.script /\ t.next = r.next
      BY <1>1 DEF Process
    <3> HIDE DEF t
    <3>3. TargetOf(s) = <<Root(p), r.buf>>
      BY <1>1, <2>1, <3>1, <3>2 DEF TargetOf, RootOf, Op
    <3> QED BY <1>1, <2>1, <2>7, <3>1, <3>2, <3>3 DEF Stays, Free, Exists
  <2> QED BY <2>6, <2>7
<1>7. CASE Fetch(p)
  <2>1. c.op = "download"
    BY <1>7 DEF Fetch, At
  <2>2. s = Returns(r, <<>>)
    BY <1>2, <1>3, <1>7, <2>1 DEF Fetch, Fetchable
  <2> QED BY <1>1, <2>2, ReturnsFields
<1>8. CASE OpenCopy(p)
  <2>1. r.pc = "open" /\ c.op \in {"store", "import_blob"}
    BY <1>2, <1>8 DEF OpenCopy, At, Copies, Fetching
  <2>2. files[Target(p)] = NoFile
    BY <1>1, <2>1 DEF Free
  <2>3. From(p) # NoFile
    <3>1. CASE c.op = "store"
      <4>1. Bytes(c.input) \in Digest
        <5>1. c.input \in Inputs /\ Bytes(c.input) # Absent
          BY <1>1, <1>2, <3>1, CallShape DEF Given, Bytes
        <5> QED BY <5>1, InputBytes
      <4>2. From(p) = [data |-> Bytes(c.input), readonly |-> FALSE]
        BY <3>1 DEF From
      <4>3. From(p) \in BlobFiles
        BY <4>1, <4>2, BlobIsFile DEF BlobFiles
      <4> QED BY <4>3, BlobIsFile
    <3>2. CASE c.op = "import_blob"
      BY <1>2, <3>2 DEF From, InDir
    <3> QED BY <2>1, <3>1, <3>2
  <2> DEFINE t == [r EXCEPT !.pc = "write", !.linked = TRUE]
  <2>4. s = t
    BY <1>3, <1>8, <2>2, <2>3 DEF OpenCopy
  <2>5. t.status = r.status /\ t.calls = r.calls /\ t.manifest = r.manifest /\ t.pc # "open"
    BY <1>1 DEF Process
  <2> QED BY <1>4, <2>4, <2>5
<1>9. CASE CopyChunk(p)
  <2>1. r.pc = "write"
    BY <1>9 DEF CopyChunk, At
  <2>2. PICK b : s = [r EXCEPT !.buf = b]
    BY <1>3, <1>9 DEF CopyChunk
  <2> DEFINE t == [r EXCEPT !.buf = b]
  <2>3. t.status = r.status /\ t.calls = r.calls /\ t.manifest = r.manifest /\ t.pc # "open"
    BY <1>1, <2>1 DEF Process
  <2> QED BY <1>4, <2>2, <2>3
<1>10. CASE EndCopy(p)
  <2> DEFINE t == [r EXCEPT !.pc = "seal"]
  <2>1. s = t
    BY <1>2, <1>3, <1>10 DEF EndCopy, Fetching
  <2>2. t.status = r.status /\ t.calls = r.calls /\ t.manifest = r.manifest /\ t.pc # "open"
    BY <1>1 DEF Process
  <2> QED BY <1>4, <2>1, <2>2
<1>11. CASE Seal(p)
  <2>1. s = Returns(r, <<>>)
    BY <1>2, <1>3, <1>11 DEF Seal, Fetching
  <2> QED BY <1>1, <2>1, ReturnsFields
<1>12. CASE ImportBlob(p)
  <2>1. c.op = "import_blob" /\ files' = files
    BY <1>12 DEF ImportBlob, At, ReadsOnly
  <2>2. CASE Exists(Root(p), c.hash)
    <3>1. s = Returns(r, <<>>)
      BY <1>3, <1>12, <2>2 DEF ImportBlob
    <3> QED BY <1>1, <3>1, ReturnsFields
  <2>3. CASE ~Exists(Root(p), c.hash)
    <3> DEFINE t == [r EXCEPT !.pc = "open"]
    <3>1. s = t
      BY <1>3, <1>12, <2>3 DEF ImportBlob
    <3>2. /\ t.status = r.status /\ t.calls = r.calls /\ t.manifest = r.manifest
          /\ t.script = r.script /\ t.next = r.next
      BY <1>1 DEF Process
    <3> HIDE DEF t
    <3>3. TargetOf(s) = <<Root(p), c.hash>>
      BY <1>1, <2>1, <3>1, <3>2 DEF TargetOf, RootOf, Op
    <3> QED BY <1>1, <2>1, <2>3, <3>1, <3>2, <3>3 DEF Stays, Free, Exists
  <2> QED BY <2>2, <2>3
<1>13. CASE Crash(p) \/ CallFails(p)
  <2>1. s = Ends(r, "crashed") \/ s = Ends(r, "fault")
    BY <1>3, <1>13 DEF Crash, CallFails
  <2> QED BY <1>1, <2>1, EndsFields
<1> QED BY <1>5, <1>6, <1>7, <1>8, <1>9, <1>10, <1>11, <1>12, <1>13, FetchingSteps

-----------------------------------------------------------------------------
(* An import's calls find what they need.                                   *)

(* FlattenSeq has all that its sequences have.                              *)
LEMMA FlattenCovers ==
    ASSUME NEW C, NEW seqs \in Seq(Seq(C)), NEW k \in 1..Len(seqs), NEW x, Member(seqs[k], x)
    PROVE  Member(FlattenSeq(seqs), x)
<1> DEFINE n == Len(seqs)
           flatten == CHOOSE f : Flattens(seqs, f, n)
           I == {j \in Nat : j < n => /\ flatten[j + 1] \in Seq(C)
                                      /\ k <= j + 1 => Member(flatten[j + 1], x)}
<1>1. n \in Nat /\ n # 0 /\ k \in 1..n /\ \A i \in 1..n : seqs[i] \in Seq(C)
  <2> DEFINE G == Seq(C)
  <2> HIDE DEF G
  <2>1. seqs \in Seq(G)
    BY DEF G
  <2>2. n \in Nat /\ \A i \in 1..n : seqs[i] \in G
    BY <2>1
  <2>3. n # 0
    BY <2>2
  <2> QED BY <2>2, <2>3 DEF G
<1>2. Flattens(seqs, flatten, n)
  BY <1>1, FlattensExists
<1>3. FlattenSeq(seqs) = flatten[n]
  <2>1. seqs # <<>>
    BY <1>1
  <2> QED BY <1>1, <2>1 DEF FlattenSeq, Flattens
<1> HIDE DEF flatten, n
<1>4. \A i \in 1..n : flatten[i] = IF i = 1 THEN seqs[i] ELSE flatten[i-1] \o seqs[i]
  BY <1>2 DEF Flattens
<1>5. 0 \in I
  <2>1. 1 \in 1..n /\ 0 + 1 = 1 /\ (k <= 1 => k = 1)
    BY <1>1
  <2>2. flatten[1] = seqs[1]
    BY <1>4, <2>1
  <2> QED BY <1>1, <2>1, <2>2
<1>6. ASSUME NEW j \in Nat, j \in I PROVE j + 1 \in I
  <2> SUFFICES ASSUME j + 1 < n
               PROVE  /\ flatten[(j + 1) + 1] \in Seq(C)
                      /\ k <= (j + 1) + 1 => Member(flatten[(j + 1) + 1], x)
    OBVIOUS
  <2>1. j + 2 \in 1..n /\ j < n /\ (j + 2) - 1 = j + 1 /\ j + 2 # 1 /\ (j + 1) + 1 = j + 2
    BY <1>1
  <2>2. flatten[j + 2] = flatten[j + 1] \o seqs[j + 2]
    BY <1>4, <2>1
  <2>3. flatten[j + 1] \in Seq(C) /\ (k <= j + 1 => Member(flatten[j + 1], x))
    BY <1>6, <2>1
  <2>4. seqs[j + 2] \in Seq(C) /\ flatten[j + 2] \in Seq(C)
    BY <1>1, <2>1, <2>2, <2>3
  <2>5. k <= j + 2 => Member(flatten[j + 1], x) \/ Member(seqs[j + 2], x)
    <3>1. k <= j + 2 => k <= j + 1 \/ k = j + 2
      BY <1>1
    <3> QED BY <2>3, <3>1
  <2>6. k <= j + 2 => Member(flatten[j + 2], x)
    BY <2>2, <2>3, <2>4, <2>5, MemberConcatenated
  <2> QED BY <2>1, <2>4, <2>6
<1>7. n - 1 \in I
  <2> HIDE DEF I
  <2>1. \A j \in Nat : j \in I
    BY <1>5, <1>6, SetInduction
  <2> QED BY <1>1, <2>1
<1>8. n - 1 < n /\ (n - 1) + 1 = n /\ k <= n
  BY <1>1
<1> QED BY <1>3, <1>7, <1>8

(* Every exported blob gets a row.                                          *)
LEMMA BlobCallsInsert ==
    ASSUME NEW order \in SetToSeqs(Exported), NEW h \in Exported
    PROVE  Member(BlobCalls(order), Inserting(h))
<1> DEFINE C == [op : {"import_blob", "insert_blob"}, hash : Exported]
           seqs == [i \in 1..Len(order) |-> BlobThenRow(order[i])]
<1>1. IsFiniteSet(Exported)
  BY DigestsFinite, FS_Subset DEF Exported
<1>2. order \in Seq(Exported) /\ Len(order) \in Nat
  BY <1>1, SetToSeqsType
<1>3. PICK k \in 1..Len(order) : order[k] = h
  <2>1. /\ order \in [1..Cardinality(Exported) -> Exported] /\ Cardinality(Exported) \in Nat
        /\ \A i, j \in 1..Cardinality(Exported) : i # j => order[i] # order[j]
    BY <1>1, FS_CardinalityType DEF SetToSeqs
  <2>2. order \in Injection(1..Cardinality(Exported), Exported)
    BY <2>1 DEF Injection, IsInjective
  <2>3. Cardinality(1..Cardinality(Exported)) = Cardinality(Exported)
    BY <2>1, FS_Interval
  <2>4. order \in Surjection(1..Cardinality(Exported), Exported)
    BY <1>1, <2>2, <2>3, FS_Injection
  <2>5. \E i \in 1..Cardinality(Exported) : order[i] = h
    BY <2>4 DEF Surjection
  <2>6. Len(order) = Cardinality(Exported)
    BY <2>1
  <2> QED BY <2>5, <2>6
<1>4. \A i \in 1..Len(order) : seqs[i] \in Seq(C)
  BY <1>2 DEF BlobThenRow
<1>5. seqs \in Seq(Seq(C)) /\ Len(seqs) = Len(order)
  <2>1. seqs = [i \in 1..Len(order) |-> seqs[i]]
    OBVIOUS
  <2> HIDE DEF seqs, C
  <2>2. seqs \in [1..Len(order) -> Seq(C)]
    BY <1>4, <2>1
  <2> QED BY <1>2, <2>1, <2>2
<1>6. Member(seqs[k], Inserting(h))
  <2> DEFINE a == [op |-> "import_blob", hash |-> h]
  <2>1. seqs[k] = <<a, Inserting(h)>>
    BY <1>3 DEF BlobThenRow, Inserting
  <2> HIDE DEF a
  <2>2. Len(<<a, Inserting(h)>>) = 2 /\ <<a, Inserting(h)>>[2] = Inserting(h) /\ 2 \in 1..2
    OBVIOUS
  <2> QED BY <2>1, <2>2 DEF Member
<1> HIDE DEF seqs, C
<1>7. Member(FlattenSeq(seqs), Inserting(h))
  <2>1. k \in 1..Len(seqs)
    BY <1>5
  <2> QED BY <1>5, <1>6, <2>1, FlattenCovers
<1> QED BY <1>7 DEF BlobCalls, seqs

LEMMA HeadReplaced ==
    ASSUME NEW r, NEW s, NEW d, NEW fs, NEW src, Len(r.calls) \in Nat,
           Len(s.calls) = Len(r.calls), \A j \in 2..Len(r.calls) : s.calls[j] = r.calls[j],
           r.calls[1].op \in {"merge_metadata", "ensure_package"},
           \A n : MakesPackage(r.calls[1], n) => MakesPackage(s.calls[1], n),
           Fits(s, 1, d, fs, src), s.manifest = r.manifest, s.script = r.script, s.next = r.next,
           AllFit(r, d, fs, src)
    PROVE  AllFit(s, d, fs, src)
<1>1. SUFFICES ASSUME NEW i \in 1..Len(s.calls) PROVE Fits(s, i, d, fs, src)
  BY DEF AllFit
<1> DEFINE c == r.calls[i]
<1>2. CASE i = 1
  BY <1>2
<1>3. CASE i # 1
  <2>1. i \in 2..Len(r.calls) /\ i > 1 /\ s.calls[i] = c /\ i \in Nat
    BY <1>3
  <2>2. i - 1 = 1 \/ s.calls[i - 1] = r.calls[i - 1]
    <3>1. i - 1 # 1 => i - 1 \in 2..Len(r.calls)
      BY <2>1
    <3> QED BY <3>1
  <2>3. \A j \in 1..(i - 1) : j = 1 \/ s.calls[j] = r.calls[j]
    <3>1. \A j \in 1..(i - 1) : j = 1 \/ j \in 2..Len(r.calls)
      BY <2>1
    <3> QED BY <3>1
  <2>4. Fits(r, i, d, fs, src)
    BY DEF AllFit
  <2>5. r.calls # Importing /\ \A h : r.calls[1] # Inserting(h) /\ r.calls[1] # Emptying(h)
    BY DEF Importing, Inserting, Emptying
  <2>6. r.calls[1].op # "import_blobs"
    OBVIOUS
  <2> HIDE DEF c
  <2>7. \/ c.op \in Unrefused
        \/ c.op = "store" /\ Given(c.input, src)
        \/ c.op = "download" /\ Fetchable(c)
        \/ /\ c.op = "insert_blob_name"
           /\ \/ s.calls[i - 1] = Inserting(c.hash)
              \/ c.hash # Added /\ c.hash \in d.rows
        \/ c.op = "delete_package" /\ i = Len(s.calls) /\ s.calls[i - 1] = Emptying(c.name)
        \/ /\ c.op = "add_blob_to_package" /\ c.hash \in d.rows
           /\ c.name \in d.packages \/ \E j \in 1..(i - 1) : MakesPackage(s.calls[j], c.name)
        \/ c.op = "import_blob" /\ c.hash \in InDir(fs)
        \/ /\ c.op = "import_manifest" /\ i = Len(s.calls) /\ s.manifest = NoManifest
           /\ s.script[s.next].cmd = "import"
           /\ \A h \in InDir(fs) : h \in d.rows \/ \E j \in 1..(i - 1) :
                 s.calls[j].op = "import_blobs" \/ s.calls[j] = Inserting(h)
    <3>1. CASE c.op = "add_blob_to_package"
      <4>1. c.hash \in d.rows /\ (c.name \in d.packages \/ \E j \in 1..(i - 1) : MakesPackage(r.calls[j], c.name))
        BY <2>4, <3>1 DEF Fits, c, Unrefused
      <4>2. \A j \in 1..(i - 1) : MakesPackage(r.calls[j], c.name) => MakesPackage(s.calls[j], c.name)
        BY <2>3
      <4> QED BY <3>1, <4>1, <4>2
    <3>2. CASE c.op = "import_manifest"
      <4>1. /\ i = Len(r.calls) /\ r.manifest = NoManifest /\ r.script[r.next].cmd = "import"
            /\ \A h \in InDir(fs) : h \in d.rows \/ \E j \in 1..(i - 1) :
                  r.calls[j].op = "import_blobs" \/ r.calls[j] = Inserting(h)
        BY <2>4, <3>2 DEF Fits, c, Unrefused
      <4>2. ASSUME NEW h, NEW j \in 1..(i - 1), r.calls[j].op = "import_blobs" \/ r.calls[j] = Inserting(h)
            PROVE  s.calls[j].op = "import_blobs" \/ s.calls[j] = Inserting(h)
        BY <2>3, <2>5, <2>6, <4>2
      <4> QED BY <3>2, <4>1, <4>2
    <3>3. CASE c.op = "insert_blob_name"
      <4>1. r.calls[i - 1] = Inserting(c.hash) \/ (c.hash # Added /\ c.hash \in d.rows)
        BY <1>3, <2>4, <3>3 DEF Fits, c, Unrefused
      <4> QED BY <2>2, <2>5, <3>3, <4>1
    <3>4. CASE c.op = "delete_package"
      <4>1. i = Len(r.calls) /\ r.calls[i - 1] = Emptying(c.name)
        BY <1>3, <2>4, <3>4 DEF Fits, c, Unrefused
      <4> QED BY <2>2, <2>5, <3>4, <4>1
    <3>5. CASE c.op \notin {"add_blob_to_package", "import_manifest", "insert_blob_name", "delete_package"}
      BY <1>3, <2>4, <2>5, <3>5 DEF Fits, c
    <3> QED BY <3>1, <3>2, <3>3, <3>4, <3>5
  <2> QED BY <2>1, <2>7 DEF Fits
<1> QED BY <1>2, <1>3

(* The calls import_blobs puts in its place, and import_manifest after them. *)
LEMMA BlobsFit ==
    ASSUME NEW r \in Process, Stage(r), r.status = "running", NEW s, NEW d, NEW src,
           NEW order \in SetToSeqs(Exported), Returned(r, s, BlobCalls(order)),
           Op(r) = "import_blobs", AllFit(r, d, files, src),
           s.manifest = r.manifest, s.script = r.script, s.next = r.next
    PROVE  AllFit(s, d, files, src)
<1> DEFINE C == [op : {"import_blob", "insert_blob"}, hash : Exported]
           pre == BlobCalls(order)
<1>1. pre \in Seq(C) /\ \A h \in Exported : Member(pre, Inserting(h))
  BY BlobCallsShape, BlobCallsInsert
<1>2. Prepended(r, s, pre)
  <2> HIDE DEF C
  <2> QED BY <1>1, ReturnedCalls
<1>3. /\ \A b \in C : /\ b.op \in {"import_blob", "insert_blob"}
                      /\ b.hash \in Exported
      /\ Exported = InDir(files)
  BY DEF Exported, InDir, Exists
<1> HIDE DEF C, pre
<1>4. \A i \in 1..Len(pre) : pre[i] \in C
  BY <1>1
<1>5. 1 \in 1..Len(r.calls) /\ Len(r.calls) \in Nat
  BY HeadTyped
<1>6. r.calls = Importing
  <2>1. Fits(r, 1, d, files, src)
    BY <1>5 DEF AllFit
  <2> QED BY <2>1 DEF Fits, Op, Unrefused
<1>7. Len(r.calls) = 2 /\ r.calls[2].op = "import_manifest" /\ 2 \in 1..2
  BY <1>6 DEF Importing
<1>8. r.manifest = NoManifest /\ r.script[r.next].cmd = "import"
  <2>1. Fits(r, 2, d, files, src)
    BY <1>7 DEF AllFit
  <2> QED BY <1>7, <2>1 DEF Fits, Unrefused
<1> DEFINE n == Len(pre)
<1>9. /\ n \in Nat /\ Len(s.calls) = n + 1 /\ s.calls[n + 1].op = "import_manifest"
      /\ \A i \in 1..n : s.calls[i] = pre[i]
  <2>1. n \in Nat /\ n + (2 - 1) = n + 1 /\ 2 \in 2..2
    BY <1>2 DEF Prepended
  <2> QED BY <1>2, <1>7, <2>1 DEF Prepended
<1> HIDE DEF n
<1>10. ASSUME NEW i \in 1..n PROVE Fits(s, i, d, files, src)
  <2>1. s.calls[i] \in C
    BY <1>4, <1>9 DEF n
  <2> QED BY <1>3, <2>1 DEF Fits, Unrefused
<1>11. Fits(s, n + 1, d, files, src)
  <2>1. ASSUME NEW h \in InDir(files) PROVE \E j \in 1..n : s.calls[j] = Inserting(h)
    BY <1>1, <1>3, <1>9 DEF Member, n
  <2>2. (n + 1) - 1 = n
    BY <1>9
  <2> QED BY <1>8, <1>9, <2>1, <2>2 DEF Fits
<1>12. \A i \in 1..(n + 1) : i \in 1..n \/ i = n + 1
  BY <1>9
<1> QED BY <1>9, <1>10, <1>11, <1>12 DEF AllFit

(* What a whole manifest lists can be imported once its blobs have rows.    *)
LEMMA ManifestFits ==
    ASSUME NEW m \in Manifests, m \notin {NoManifest, Torn}, NEW s, s.calls = ImportCalls(m), NEW d, NEW fs, NEW src,
           Backed(m, fs), InDir(fs) \subseteq d.rows
    PROVE  AllFit(s, d, fs, src)
<1>1. /\ m.hashes \subseteq d.rows /\ m.hashes \subseteq Digest
      /\ \A row \in m.names : row[1] \in m.hashes
  BY DEF Backed, Manifests
<1> SUFFICES ASSUME NEW i \in 1..Len(s.calls) PROVE Fits(s, i, d, fs, src)
  BY DEF AllFit
<1> DEFINE c == s.calls[i]
<1>2. /\ c \in ManifestCalls(m)
      /\ c.op = "add_blob_to_package" =>
            \E j \in 1..(i - 1) : s.calls[j].op = "ensure_package"
      /\ \A j \in 1..Len(s.calls) : s.calls[j] \in ManifestCalls(m)
  BY ImportCallsPlain
<1>3. Added \notin Digest
  BY LegacyAssumption DEF Ids
<1> HIDE DEF c
<1>4. CASE \E x \in m.names : c = [op |-> "insert_blob_name", hash |-> x[1], name |-> x[2]]
  <2>1. c.op = "insert_blob_name" /\ c.hash \in m.hashes
    BY <1>1, <1>4
  <2> QED BY <1>1, <1>3, <2>1 DEF Fits, c
<1>5. CASE \/ \E x \in m.tags : c = [op |-> "add_tag", hash |-> x[1], tag |-> x[2]]
           \/ \E id \in Ids : c = [op |-> "merge_metadata", hash |-> id, value |-> m.metadata[id]]
           \/ \E x \in m.relations : c = [op |-> "add_relation", hash |-> x[1], target |-> x[2]]
           \/ c = [op |-> "ensure_package", name |-> m.package]
  <2>1. c.op \in {"add_tag", "merge_metadata", "add_relation", "ensure_package"}
    BY <1>5
  <2> QED BY <2>1 DEF Fits, Unrefused, c
<1>6. CASE \E h \in m.hashes : c = [op |-> "add_blob_to_package", name |-> m.package, hash |-> h]
  <2>1. c.op = "add_blob_to_package" /\ c.hash \in m.hashes /\ c.name = m.package
    BY <1>6
  <2>2. PICK j \in 1..(i - 1) : s.calls[j].op = "ensure_package"
    BY <1>2, <2>1
  <2>3. j \in 1..Len(s.calls)
    <3>1. Len(s.calls) \in Nat
      BY ImportCallsPlain
    <3> QED BY <3>1
  <2>4. s.calls[j].name = m.package
    <3> DEFINE b == s.calls[j]
    <3>1. b \in ManifestCalls(m) /\ b.op = "ensure_package"
      BY <1>2, <2>2, <2>3
    <3> HIDE DEF b
    <3>2. b.name = m.package
      BY <3>1 DEF ManifestCalls
    <3> QED BY <3>2 DEF b
  <2>5. MakesPackage(s.calls[j], c.name)
    BY <2>1, <2>2, <2>4 DEF MakesPackage
  <2> QED BY <1>1, <2>1, <2>5 DEF Fits, c
<1> QED BY <1>2, <1>4, <1>5, <1>6 DEF ManifestCalls

LEMMA OnePrepended ==
    ASSUME NEW r \in Process, Stage(r), r.status = "running", NEW s, NEW b, Returned(r, s, <<b>>)
    PROVE  /\ Len(r.calls) \in Nat /\ Len(s.calls) = Len(r.calls) /\ s.calls[1] = b
           /\ \A j \in 2..Len(r.calls) : s.calls[j] = r.calls[j]
<1> DEFINE pre == <<b>>
<1>1. pre \in Seq({b}) /\ Len(pre) = 1 /\ pre[1] = b /\ 1 \in 1..1
  OBVIOUS
<1>2. Len(r.calls) \in Nat
  BY HeadTyped
<1>3. Returned(r, s, pre)
  OBVIOUS
<1> HIDE DEF pre
<1>4. Prepended(r, s, pre)
  BY <1>1, <1>3, ReturnedCalls
<1>5. 1 + (Len(r.calls) - 1) = Len(r.calls) /\ \A j \in 2..Len(r.calls) : 1 + (j - 1) = j
  BY <1>2
<1> QED BY <1>1, <1>2, <1>4, <1>5 DEF Prepended

LEMMA ExpandingFits ==
    ASSUME LegacyInv, CarryInv, NEW p \in Procs, ProcessStep(p), Op(run[p]) \in Expanding,
           AllFit(run[p], db[Root(p)], files, source)
    PROVE  /\ UNCHANGED <<files, db>>
           /\ \/ run'[p].status \in {"crashed", "fault", "ok"}
              \/ run'[p].pc = "call" /\ run'[p].status = "running"
                 /\ AllFit(run'[p], db[Root(p)], files, source)
              \/ /\ run'[p].status = "err" /\ Command(p).cmd = "import" /\ Exports
                 /\ run'[p].manifest = NoManifest
<1> DEFINE r == run[p]
           s == run'[p]
           c == Call(p)
           d == db[Root(p)]
<1>1. /\ r.status = "running" /\ r \in Process /\ Stage(r) /\ c = r.calls[1] /\ c.op = Op(r)
      /\ c \in AllCalls /\ Command(p) = r.script[r.next]
      /\ 1 \in 1..Len(r.calls) /\ Len(r.calls) \in Nat
  BY RunningStep, Current, HeadTyped DEF Command
<1>2. UNCHANGED <<files, db>>
  BY ExpandingSteps DEF ImportBlobs, ImportManifest, MergeMetadata, EnsurePackage, Crash, CallFails,
     ReadsOnly
<1>3. \A t : Goes(p, t) => s = t
  BY GoesTo
<1>4. Move(r, s) /\ (s.digest = r.digest \/ Op(r) = "store") /\ s.script = r.script /\ s.next = r.next
  BY ProcessMoves DEF Move, Expanding
<1>5. ASSUME NEW t, Returned(r, s, t), AllFit(s, d, files, source)
      PROVE  \/ s.status = "ok"
             \/ s.pc = "call" /\ s.status = "running" /\ AllFit(s, d, files, source)
  BY <1>5 DEF Returned
<1>6. CASE Crash(p) \/ CallFails(p)
  <2>1. s = Ends(r, "crashed") \/ s = Ends(r, "fault")
    BY <1>3, <1>6 DEF Crash, CallFails
  <2> QED BY <1>1, <1>2, <2>1, EndsFields
<1>7. CASE ImportBlobs(p)
  <2>1. Op(r) = "import_blobs"
    BY <1>1, <1>7 DEF ImportBlobs, At
  <2>2. PICK order \in SetToSeqs(Exported) : Goes(p, Returns(r, BlobCalls(order)))
    BY <1>7 DEF ImportBlobs, Exported, BlobCalls
  <2>3. Returned(r, s, BlobCalls(order)) /\ s.manifest = r.manifest
    BY <1>1, <1>3, <2>2, ReturnsFields
  <2> HIDE DEF r, s, d
  <2>4. AllFit(s, d, files, source)
    BY <1>1, <1>4, <2>1, <2>3, BlobsFit DEF r, d
  <2> QED BY <1>2, <1>5, <2>3, <2>4 DEF s, d
(* Nothing is done, or a call takes the place of the head.                  *)
<1>8. ASSUME Returned(r, s, <<>>), s.manifest = r.manifest, Advances(r, d, d),
             Op(r) # "import_blobs"
      PROVE  AllFit(s, d, files, source)
  BY <1>1, <1>4, <1>8, RestFits
<1>9. ASSUME NEW b, Returned(r, s, <<b>>), s.manifest = r.manifest,
             c.op \in {"merge_metadata", "ensure_package"},
             \A n : MakesPackage(c, n) => MakesPackage(b, n),
             b.op \in Unrefused \/ (b.op = "create_package" /\ b.name \notin d.packages)
      PROVE  AllFit(s, d, files, source)
  <2>1. /\ Len(s.calls) = Len(r.calls) /\ s.calls[1] = b
        /\ \A j \in 2..Len(r.calls) : s.calls[j] = r.calls[j]
    BY <1>1, <1>9, OnePrepended
  <2>2. Fits(s, 1, d, files, source)
    BY <1>9, <2>1 DEF Fits
  <2> HIDE DEF r, s, d, c
  <2>3. AllFit(r, d, files, source)
    BY DEF r, d
  <2> QED BY <1>1, <1>4, <1>9, <2>1, <2>2, <2>3, HeadReplaced
<1>10. CASE MergeMetadata(p)
  <2>1. c.op = "merge_metadata"
    BY <1>10 DEF MergeMetadata, At
  <2>2. CASE d.metadata[c.hash] = NoValue
    <3> DEFINE b == [op |-> "set_metadata", hash |-> c.hash, value |-> c.value]
    <3>1. s = Returns(r, <<b>>)
      BY <1>3, <1>10, <2>2 DEF MergeMetadata, BlobMetadata
    <3>2. b.op \in Unrefused /\ \A n : ~MakesPackage(c, n)
      BY <2>1 DEF Unrefused, MakesPackage
    <3> HIDE DEF b, r, s, c, d
    <3>3. Returned(r, s, <<b>>) /\ s.manifest = r.manifest
      BY <1>1, <3>1, ReturnsFields
    <3>4. AllFit(s, d, files, source)
      BY <1>9, <2>1, <3>2, <3>3
    <3> QED BY <1>2, <1>5, <3>3, <3>4 DEF s, d
  <2>3. CASE d.metadata[c.hash] # NoValue
    <3>1. s = Returns(r, <<>>)
      BY <1>3, <1>10, <2>3 DEF MergeMetadata
    <3>2. Advances(r, d, d) /\ Op(r) # "import_blobs"
      BY <1>1, <2>1 DEF Advances
    <3> HIDE DEF r, s, c, d
    <3>3. Returned(r, s, <<>>) /\ s.manifest = r.manifest
      BY <1>1, <3>1, ReturnsFields
    <3>4. AllFit(s, d, files, source)
      BY <1>8, <3>2, <3>3
    <3> QED BY <1>2, <1>5, <3>3, <3>4 DEF s, d
  <2> QED BY <2>2, <2>3
<1>11. CASE EnsurePackage(p)
  <2>1. c.op = "ensure_package"
    BY <1>11 DEF EnsurePackage, At
  <2>2. CASE ~PackageExists(d, c.name)
    <3> DEFINE b == [op |-> "create_package", name |-> c.name]
    <3>1. s = Returns(r, <<b>>)
      BY <1>3, <1>11, <2>2 DEF EnsurePackage
    <3>2. /\ b.op = "create_package" /\ b.name \notin d.packages
          /\ \A n : MakesPackage(c, n) => MakesPackage(b, n)
      BY <2>2 DEF PackageExists, MakesPackage
    <3> HIDE DEF b, r, s, c, d
    <3>3. Returned(r, s, <<b>>) /\ s.manifest = r.manifest
      BY <1>1, <3>1, ReturnsFields
    <3>4. AllFit(s, d, files, source)
      BY <1>9, <2>1, <3>2, <3>3
    <3> QED BY <1>2, <1>5, <3>3, <3>4 DEF s, d
  <2>3. CASE PackageExists(d, c.name)
    <3>1. s = Returns(r, <<>>)
      BY <1>3, <1>11, <2>3 DEF EnsurePackage
    <3>2. Advances(r, d, d) /\ Op(r) # "import_blobs"
      BY <1>1, <2>1, <2>3 DEF Advances, PackageExists
    <3> HIDE DEF r, s, c, d
    <3>3. Returned(r, s, <<>>) /\ s.manifest = r.manifest
      BY <1>1, <3>1, ReturnsFields
    <3>4. AllFit(s, d, files, source)
      BY <1>8, <3>2, <3>3
    <3> QED BY <1>2, <1>5, <3>3, <3>4 DEF s, d
  <2> QED BY <2>2, <2>3
<1>12. CASE ImportManifest(p)
  <2>1. /\ Len(r.calls) = 1 /\ r.manifest = NoManifest /\ r.script[r.next].cmd = "import"
        /\ InDir(files) \subseteq d.rows
    <3>1. c.op = "import_manifest" /\ ~(1 > 1) /\ 1..(1 - 1) = {}
      BY <1>12 DEF ImportManifest, At
    <3>2. Fits(r, 1, d, files, source)
      BY <1>1 DEF AllFit
    <3> QED BY <1>1, <3>1, <3>2 DEF Fits, Unrefused
  <2>2. Tail(r.calls) = <<>>
    <3>1. Tail(r.calls) \in Seq(AllCalls) /\ Len(Tail(r.calls)) = 0
      BY <1>1, <2>1, HeadTyped
    <3> HIDE DEF r
    <3> DEFINE rest == Tail(r.calls)
    <3>2. rest \in Seq(AllCalls) /\ Len(rest) = 0
      BY <3>1
    <3> HIDE DEF rest
    <3>3. rest = <<>>
      BY <3>2
    <3> QED BY <3>3 DEF rest
  <2>3. CASE manifest = NoManifest
    <3>1. s = Returns(r, <<>>)
      BY <1>3, <1>12, <2>3, LegacyAssumption DEF ImportManifest
    <3>2. Returned(r, s, <<>>)
      BY <1>1, <3>1, ReturnsFields
    <3>3. s.status = "ok"
      <4> HIDE DEF r, s
      <4>1. <<>> \o <<>> = <<>>
        OBVIOUS
      <4> QED BY <2>2, <3>2, <4>1 DEF Returned
    <3> QED BY <1>2, <3>3
  <2>4. CASE manifest = Torn /\ manifest # NoManifest
    <3>1. s = Ends(r, "err")
      BY <1>3, <1>12, <2>4 DEF ImportManifest
    <3>2. s.status = "err" /\ s.manifest = NoManifest
      BY <1>1, <2>1, <3>1, EndsFields
    <3> QED BY <1>1, <1>2, <2>1, <2>4, <3>2 DEF CarryInv
  <2>5. CASE manifest \notin {NoManifest, Torn}
    <3> DEFINE t == [r EXCEPT !.manifest = manifest]
               pre == ImportCalls(manifest)
    <3>1. s = Returns(t, pre)
      BY <1>3, <1>12, <2>5 DEF ImportManifest
    <3>2. manifest \in Manifests /\ Backed(manifest, files)
      BY <2>5 DEF LegacyInv, StateOK, CarryInv
    <3>3. t \in Process /\ t.calls = r.calls
      BY <1>1, <3>2 DEF Process
    <3>4. pre \in Seq(PlainCalls)
      BY <3>2, ImportCallsPlain
    <3> HIDE DEF r, s, c, d, t, pre
    <3>5. Returned(t, s, pre)
      BY <3>1, <3>3, ReturnsFields
    <3>6. Returned(r, s, pre) /\ s.calls = pre
      <4>1. pre \o <<>> = pre
        BY <3>4
      <4> QED BY <2>2, <3>3, <3>5, <4>1 DEF Returned
    <3>7. AllFit(s, d, files, source)
      BY <2>1, <2>5, <3>2, <3>6, ManifestFits DEF pre
    <3> QED BY <1>2, <1>5, <3>6, <3>7 DEF s, d
  <2> QED BY <2>3, <2>4, <2>5
<1> QED BY <1>6, <1>7, <1>10, <1>11, <1>12, ExpandingSteps

-----------------------------------------------------------------------------
(* What a step does to a command nobody interferes with.                    *)

LEMMA StatementSteps ==
    ASSUME LegacyInv, NEW p \in Procs, ProcessStep(p), Op(run[p]) \in Statements
    PROVE  Statement(p) \/ Crash(p) \/ CallFails(p)
<1>1. Call(p).op \in Statements
  BY RunningStep, Current
<1>2. ~StoreStep(p)
  BY <1>1 DEF StoreStep, HashFile, StoreBlob, VerifyPath, Fetch, OpenCopy, CopyChunk, EndCopy,
              Seal, At, Copies, Statements
<1>3. ~AgentStep(p) /\ ~UploadCallFails(p)
  BY <1>1 DEF AgentStep, UploadCallFails, ReadUpload, StoreBlobWithProgress, Persist, Mismatch,
     Register, CompleteUpload, MissingUpload, HandleDownload, AgentLine, At, Statements
<1>4. ~TransferStep(p)
  BY <1>1 DEF TransferStep, ExportPackage, CopyBlobTo, Collect, WriteExportMetadata, ImportBlobs,
     ImportBlob, ImportManifest, MergeMetadata, EnsurePackage, At, Statements
<1> QED BY <1>2, <1>3, <1>4 DEF ProcessStep, Step

LEMMA FitsStay ==
    ASSUME NEW r, NEW s, NEW d, NEW fs, NEW fs2, NEW src, NEW src2,
           s.calls = r.calls, s.manifest = r.manifest, s.script = r.script, s.next = r.next,
           s.digest = r.digest \/ Op(r) = "store", InDir(fs2) = InDir(fs),
           \A f \in Sources : src[f] # Absent => src2[f] # Absent,
           AllFit(r, d, fs, src)
    PROVE  AllFit(s, d, fs2, src2)
<1> SUFFICES ASSUME NEW i \in 1..Len(s.calls) PROVE Fits(s, i, d, fs2, src2)
  BY DEF AllFit
<1>1. Fits(r, i, d, fs, src)
  BY DEF AllFit
<1>2. \A x : Given(x, src) => Given(x, src2)
  BY DEF Given
<1>3. i = 1 /\ r.calls[i].op = "insert_blob_name" => s.digest = r.digest
  BY DEF Op
<1> QED BY <1>1, <1>2, <1>3 DEF Fits

LEMMA OwnStep ==
    ASSUME LegacyInv, CarryInv, NEW p \in Procs, ProcessStep(p),
           Unhindered(run[p], db[RootOf(run[p])], files, source, Exports)
    PROVE  Unhindered(run'[p], db'[RootOf(run'[p])], files', source', Exports)
<1> DEFINE r == run[p]
           s == run'[p]
           d == db[Root(p)]
           e == db'[Root(p)]
<1>1. /\ r.status = "running" /\ r \in Process /\ Stage(r) /\ Op(r) = Call(p).op
      /\ Root(p) = RootOf(r) /\ Command(p) = r.script[r.next]
      /\ 1 \in 1..Len(r.calls)
  BY RunningStep, Current, HeadTyped DEF Command
<1>2. Move(r, s) /\ s.script = r.script /\ s.next = r.next /\ RootOf(s) = Root(p)
  BY <1>1, ProcessMoves DEF Move, RootOf
<1>3. source' = source
  BY SourcesStay
<1>4. SUFFICES ASSUME s.status \in {"running", "err"}, Welcome(s, source)
               PROVE  /\ s.status = "running" => AllFit(s, e, files', source) /\ Free(s, files')
                      /\ s.status = "err" => Command(p).cmd = "import" /\ Exports /\ s.manifest = NoManifest
  BY <1>1, <1>2, <1>3 DEF Unhindered
<1>5. AllFit(r, d, files, source) /\ Free(r, files)
  <2>1. Welcome(r, source)
    BY <1>2, <1>4 DEF Welcome
  <2> QED BY <1>1, <2>1 DEF Unhindered
<1>6. Fits(r, 1, d, files, source)
  BY <1>1, <1>5 DEF AllFit
<1>7. Op(r) \in Statements \cup Fetching \cup Expanding
  BY <1>6 DEF Fits, Unrefused, Op, Statements, Fetching, Expanding
<1>8. ASSUME Returned(r, s, <<>>), Advances(r, d, e), Op(r) \notin Expanding,
             InDir(files') = InDir(files)
      PROVE  s.status # "err" /\ AllFit(s, e, files', source) /\ Free(s, files')
  <2>1. (s.digest = r.digest \/ Op(r) = "store") /\ s.manifest = r.manifest /\ Op(r) # "import_blobs"
    BY <1>2, <1>7, <1>8 DEF Move, Statements, Fetching, Expanding, Recording
  <2>2. s.status # "err" /\ Free(s, files')
    BY <1>8 DEF Returned, Free
  <2> HIDE DEF r, s, d, e
  <2>3. AllFit(r, d, files, source)
    BY <1>5
  <2>4. r \in Process /\ Stage(r) /\ r.status = "running"
    BY <1>1
  <2>5. AllFit(s, e, files', source)
    BY ONLY <1>2, <1>8, <2>1, <2>3, <2>4, RestFits
  <2> QED BY <2>2, <2>5
<1>9. CASE Op(r) \in Statements
  <2>1. CASE Statement(p)
    <3>1. Returned(r, s, <<>>) /\ Advances(r, d, e)
      BY <1>6, <2>1, StatementFits
    <3>2. files' = files /\ Op(r) \notin Expanding
      BY <1>9, <2>1 DEF Statement, Statements, Expanding
    <3> HIDE DEF r, s, d, e
    <3> QED BY <1>8, <3>1, <3>2
  <2>2. CASE Crash(p) \/ CallFails(p)
    <3>1. s = Ends(r, "crashed") \/ s = Ends(r, "fault")
      BY <2>2, GoesTo DEF Crash, CallFails
    <3> QED BY <1>1, <1>4, <3>1, EndsFields
  <2> QED BY <1>9, <2>1, <2>2, StatementSteps
<1>10. CASE Op(r) \in Fetching
  <2>1. db' = db
    <3>1. ~Statement(p) /\ ~Register(p)
      BY <1>1, <1>10 DEF Statement, Register, At, Statements, Fetching
    <3> QED BY <3>1, DatabaseSteps
  <2>2. InDir(files') = InDir(files)
    BY <1>10, FetchingFiles
  <2>3. \/ Returned(r, s, <<>>)
        \/ Stays(r, s) /\ Free(s, files')
    <3>1. s.status \notin {"crashed", "fault"}
      BY <1>4
    <3> HIDE DEF s
    <3> QED BY <1>5, <1>6, <1>10, <3>1, FetchingFits DEF s
  <2>4. Op(r) \notin Expanding /\ Op(r) \notin Statements \cup {"upload"} \cup Recording
    BY <1>10 DEF Fetching, Expanding, Statements, Recording
  <2>5. Advances(r, d, e)
    <3>1. /\ Op(r) # "delete_package" /\ Op(r) # "insert_blob" /\ Op(r) # "delete_members"
          /\ Op(r) \notin {"create_package", "ensure_package"}
      BY <1>10 DEF Fetching
    <3> QED BY <2>1, <3>1 DEF Advances, Op
  <2>6. CASE Returned(r, s, <<>>)
    <3> HIDE DEF r, s, d, e
    <3> QED BY <1>8, <2>2, <2>4, <2>5, <2>6
  <2>7. CASE Stays(r, s) /\ Free(s, files')
    <3>1. s.digest = r.digest \/ Op(r) = "store"
      BY <1>2, <2>4 DEF Move
    <3>2. s.calls = r.calls /\ s.manifest = r.manifest /\ s.status = "running" /\ e = d
      BY <2>1, <2>7 DEF Stays
    <3> HIDE DEF r, s, d, e
    <3>3. AllFit(s, d, files', source)
      BY <1>2, <1>5, <2>2, <3>1, <3>2, FitsStay
    <3> QED BY <2>7, <3>2, <3>3
  <2> QED BY <2>3, <2>6, <2>7
<1>11. CASE Op(r) \in Expanding
  <2>1. /\ UNCHANGED <<files, db>>
        /\ \/ s.status \in {"crashed", "fault", "ok"}
           \/ s.pc = "call" /\ s.status = "running" /\ AllFit(s, d, files, source)
           \/ s.status = "err" /\ Command(p).cmd = "import" /\ Exports /\ s.manifest = NoManifest
    BY <1>5, <1>11, ExpandingFits
  <2> QED BY <1>4, <2>1 DEF Free
<1> QED BY <1>7, <1>9, <1>10, <1>11

(* A running command notices every step of another process.                 *)
LEMMA StepGoes ==
    ASSUME NEW p \in Procs, ProcessStep(p)
    PROVE  (\E t : Goes(p, t)) \/ Persist(p)
<1>1. ASSUME StoreStep(p) PROVE \E t : Goes(p, t)
  BY <1>1 DEF StoreStep, HashFile, StoreBlob, VerifyPath, Fetch, OpenCopy, CopyChunk, EndCopy, Seal
<1>2. ASSUME TransferStep(p) PROVE \E t : Goes(p, t)
  BY <1>2 DEF TransferStep, ExportPackage, CopyBlobTo, Collect, WriteExportMetadata, ImportBlobs,
              ImportBlob, ImportManifest, MergeMetadata, EnsurePackage
<1>3. ASSUME AgentStep(p) \/ UploadCallFails(p), ~Persist(p) PROVE \E t : Goes(p, t)
  BY <1>3 DEF AgentStep, UploadCallFails, UploadFails, ReadUpload, StoreBlobWithProgress, Mismatch,
              Register, CompleteUpload, MissingUpload, HandleDownload, AgentLine
<1>4. ASSUME Statement(p) \/ Crash(p) \/ CallFails(p) PROVE \E t : Goes(p, t)
  BY <1>4 DEF Statement, Crash, CallFails
<1> QED BY <1>1, <1>2, <1>3, <1>4 DEF ProcessStep, Step

LEMMA NotAlone ==
    ASSUME LegacyInv, NEW q \in Procs, ProcessStep(q), NEW p \in Procs \ {q},
           run[p].status = "running"
    PROVE  ~run'[p].alone
<1>1. run[p] \in Process
  BY DEF LegacyInv, StateOK
<1>2. CASE \E t : Goes(q, t)
  <2>1. run'[p] = [run[p] EXCEPT !.alone = @ /\ run[p].status # "running"]
    BY <1>2 DEF Goes
  <2> QED BY <1>1, <2>1 DEF Process
<1>3. CASE Persist(q)
  <2>1. \E l : run'[p] = [run[p] EXCEPT !.linked = l, !.alone = @ /\ run[p].status # "running"]
    BY <1>3 DEF Persist
  <2> QED BY <1>1, <2>1 DEF Process
<1> QED BY <1>2, <1>3, StepGoes

LEMMA WelcomeStays ==
    ASSUME NEW r, NEW s, s.script = r.script, s.next = r.next, NEW src, NEW src2,
           r.script[r.next] \in Commands,
           \A f \in Sources : src[f] # Absent <=> src2[f] # Absent, Welcome(s, src2)
    PROVE  Welcome(r, src)
<1> DEFINE c == r.script[r.next]
<1>1. CASE c.cmd = "add-path"
  <2>1. c.files \in Seq(Sources)
    BY <1>1 DEF Commands, Urls
  <2>2. \A i \in DOMAIN c.files : c.files[i] \in Sources
    BY <2>1
  <2> QED BY <1>1, <2>2 DEF Welcome
<1>2. CASE c.cmd # "add-path"
  BY <1>2 DEF Welcome
<1> QED BY <1>1, <1>2

(* A process that stays where it is, and whose database and files do unless *)
(* it has ended.                                                            *)
LEMMA RestUnhindered ==
    ASSUME NEW r \in Process, Stage(r), NEW s, SamePlace(r, s), NEW d, NEW e, NEW fs, NEW fs2,
           NEW src, NEW src2, NEW exports, Unhindered(r, d, fs, src, exports),
           \A f \in Sources : src[f] # Absent <=> src2[f] # Absent,
           r.status = "running" => e = d /\ fs2 = fs
    PROVE  Unhindered(s, e, fs2, src2, exports)
<1>1. /\ s.script = r.script /\ s.next = r.next /\ s.status = r.status /\ s.calls = r.calls
      /\ s.manifest = r.manifest /\ s.digest = r.digest /\ s.pc = r.pc
  BY DEF SamePlace
<1> SUFFICES ASSUME s.status \in {"running", "err"}, Welcome(s, src2)
             PROVE  /\ s.status = "running" => AllFit(s, e, fs2, src2) /\ Free(s, fs2)
                    /\ s.status = "err" =>
                          s.script[s.next].cmd = "import" /\ exports /\ s.manifest = NoManifest
  BY DEF Unhindered
<1>2. Welcome(r, src)
  <2>1. r.script[r.next] \in Commands
    BY <1>1, RootTyped
  <2> QED BY <1>1, <2>1, WelcomeStays
<1>3. CASE s.status = "err"
  BY <1>1, <1>2, <1>3 DEF Unhindered
<1>4. CASE s.status = "running"
  <2>1. AllFit(r, d, fs, src) /\ Free(r, fs)
    BY <1>1, <1>2, <1>4 DEF Unhindered
  <2>2. AllFit(s, d, fs2, src2)
    BY <1>1, <1>4, <2>1, FitsStay
  <2>3. Free(s, fs2)
    BY <1>1, <1>4, <2>1 DEF Free, TargetOf, RootOf, Op
  <2> QED BY <1>1, <1>4, <2>2, <2>3
<1> QED BY <1>3, <1>4

LEMMA StartUnhindered ==
    ASSUME LegacyInv, NEW p \in Procs, Start(p), NEW d, NEW fs, NEW src, NEW exports
    PROVE  Unhindered(run'[p], d, fs, src, exports)
<1> DEFINE s == run'[p]
           c == s.script[s.next]
<1>1. /\ c \in Commands /\ s.calls = Calls(c) /\ s.pc = "call" /\ s.manifest = NoManifest
      /\ s.status \in {"ok", "running"}
  BY StartMoves
<1> HIDE DEF s
<1>2. Welcome(s, src) => AllFit(s, d, fs, src)
  BY <1>1, StartFits
<1>3. Unhindered(s, d, fs, src, exports)
  BY <1>1, <1>2 DEF Unhindered, Free
<1> QED BY <1>3 DEF s

OneRuns == \A p, q \in Procs : run[p].status = "running" /\ run[q].status = "running" => p = q

LEMMA RetryInvInit == LegacyInit => RetryInv
<1> SUFFICES ASSUME LegacyInit PROVE RetryInv
  OBVIOUS
<1>1. \A p \in Procs : run[p].status = "new"
  BY DEF LegacyInit, Idle
<1> QED BY <1>1 DEF RetryInv, Unhindered

LEMMA RetryInvStep == LegacyInv /\ CarryInv /\ RetryInv /\ [LegacyNext]_vars => RetryInv'
<1> SUFFICES ASSUME LegacyInv, CarryInv, RetryInv, [LegacyNext]_vars PROVE RetryInv'
  OBVIOUS
<1> DEFINE Goal(p) ==
             run'[p].alone \/ threads
             => Unhindered(run'[p], db'[RootOf(run'[p])], files', source', Exports)
<1>1. (Exports' <=> Exports) /\ threads' = threads
  <2>1. threads' = threads
    BY SourcesStay DEF LegacyNext, ProcessStep, Edit, vars
  <2> QED BY <2>1, ExportsStay
<1>2. SUFFICES /\ threads => OneRuns'
               /\ \A p \in Procs : Goal(p)
  <2> SUFFICES ASSUME threads => OneRuns', NEW p \in Procs, Goal(p),
                      run'[p].alone \/ threads'
               PROVE  Unhindered(run'[p], db'[RootOf(run'[p])], files', source', Exports')
    BY <1>1 DEF RetryInv, OneRuns
  <2> QED BY <1>1 DEF Unhindered
<1>3. /\ threads => OneRuns
      /\ \A p \in Procs : /\ run[p] \in Process /\ Stage(run[p])
                          /\ run[p].alone \/ threads
                             => Unhindered(run[p], db[RootOf(run[p])], files, source, Exports)
  BY DEF RetryInv, OneRuns, LegacyInv, ProcessOK
<1>4. ASSUME NEW p \in Procs, SamePlace(run[p], run'[p]),
             \A f \in Sources : source[f] # Absent <=> source'[f] # Absent,
             run[p].status = "running" => UNCHANGED <<db, files>>
      PROVE  Goal(p)
  <2>1. SUFFICES ASSUME run[p].alone \/ threads
                 PROVE  Unhindered(run'[p], db'[RootOf(run'[p])], files', source', Exports)
    BY <1>4 DEF SamePlace
  <2>2. RootOf(run'[p]) = RootOf(run[p])
    BY <1>4 DEF SamePlace, RootOf
  <2>3. /\ Unhindered(run[p], db[RootOf(run[p])], files, source, Exports)
        /\ run[p] \in Process /\ Stage(run[p])
    BY <1>3, <2>1
  <2>4. run[p].status = "running" => db'[RootOf(run'[p])] = db[RootOf(run[p])] /\ files' = files
    BY <1>4, <2>2
  <2> QED BY ONLY <1>4, <2>3, <2>4, RestUnhindered
<1>5. ASSUME NEW q \in Procs, ProcessStep(q)
      PROVE  (threads => OneRuns') /\ \A p \in Procs : Goal(p)
  <2>1. /\ \A p \in Procs \ {q} : SamePlace(run[p], run'[p])
        /\ source' = source /\ run[q].status = "running"
    BY <1>5, ProcessMoves, SourcesStay, RunningStep
  <2>2. threads => OneRuns'
    BY <1>3, <2>1 DEF OneRuns, SamePlace
  <2>3. ASSUME NEW p \in Procs \ {q} PROVE Goal(p)
    <3>1. CASE run[p].status # "running"
      BY <1>4, <2>1, <3>1
    <3>2. CASE run[p].status = "running"
      <4>1. ~run'[p].alone
        BY <1>5, <3>2, NotAlone
      <4>2. ~threads
        BY <1>3, <2>1, <3>2 DEF OneRuns
      <4> QED BY <4>1, <4>2
    <3> QED BY <3>1, <3>2
  <2>4. Goal(q)
    <3>1. run'[q].alone = run[q].alone
      BY <1>5, ProcessMoves DEF Move, Frame
    <3> QED BY <1>3, <1>5, <3>1, OwnStep
  <2> QED BY <2>2, <2>3, <2>4
<1>6. ASSUME NEW q \in Procs, Start(q)
      PROVE  (threads => OneRuns') /\ \A p \in Procs : Goal(p)
  <2>1. /\ \A p \in Procs \ {q} : SamePlace(run[p], run'[p])
        /\ source' = source /\ UNCHANGED <<db, files>>
    BY <1>6, StartMoves, SourcesStay DEF Start
  <2>2. threads => OneRuns'
    <3>1. threads => \A p \in Procs : run[p].status # "running"
      BY <1>6 DEF Start, StoreLocked
    <3> QED BY <2>1, <3>1 DEF OneRuns, SamePlace
  <2>3. \A p \in Procs \ {q} : Goal(p)
    BY <1>4, <2>1
  <2>4. Goal(q)
    BY <1>6, StartUnhindered
  <2> QED BY <2>2, <2>3, <2>4
<1>7. ASSUME NEW f \in Sources, NEW k \in 1..Size, NEW chunk \in Atoms, Edit(f, k, chunk)
      PROVE  (threads => OneRuns') /\ \A p \in Procs : Goal(p)
  <2>1. (\A p \in Procs : SamePlace(run[p], run'[p])) /\ UNCHANGED <<db, files>>
    BY <1>7, EditMoves DEF Edit
  <2>2. threads => OneRuns'
    BY <1>3, <2>1 DEF OneRuns, SamePlace
  <2>3. \A g \in Sources : source[g] # Absent <=> source'[g] # Absent
    <3>1. /\ source \in [Sources -> Digest \cup {Absent}] /\ source[f] # Absent
          /\ source' = [source EXCEPT ![f][k] = chunk]
      BY <1>7 DEF Edit, LegacyInv, StateOK
    <3>2. source'[f] # Absent
      <4>1. source'[f] = [source[f] EXCEPT ![k] = chunk] /\ source[f] \in Digest
        BY <3>1
      <4>2. source'[f] \in Digest
        BY <4>1 DEF Digest
      <4> QED BY <4>2, LegacyAssumption
    <3> QED BY <3>1, <3>2
  <2> QED BY <1>4, <2>1, <2>2, <2>3
<1>8. CASE UNCHANGED vars
  <2>1. (\A p \in Procs : SamePlace(run[p], run'[p])) /\ UNCHANGED <<db, files, source>>
    BY <1>8 DEF vars, SamePlace
  <2>2. threads => OneRuns'
    BY <1>3, <2>1 DEF OneRuns, SamePlace
  <2> QED BY <1>4, <2>1, <2>2
<1> QED BY <1>5, <1>6, <1>7, <1>8 DEF LegacyNext, ProcessStep

(* A command nobody interferes with is refused only for what its input says *)
(* (a missing file, a download that is not what was expected, a package     *)
(* that exists, a manifest another command is still writing), whatever      *)
(* crashed before it: files cut short, blobs without rows, half an import   *)
(* or half a package never make the next run fail (store.rs, transfer.rs,   *)
(* package.rs).                                                             *)
THEOREM RetriesSucceed == LegacySpec => []RetrySucceeds
<1>1. LegacyInv /\ RetryInv => RetrySucceeds
  <2> SUFFICES ASSUME LegacyInv, RetryInv, NEW p \in Procs, run[p].status = "err",
                      run[p].alone \/ threads, ~Refusable(p)
               PROVE  FALSE
    BY DEF RetrySucceeds
  <2> DEFINE r == run[p]
             c == Command(p)
  <2>1. Unhindered(r, db[RootOf(r)], files, source, Exports)
    BY DEF RetryInv
  <2>2. c = r.script[r.next]
    BY DEF Command
  <2>3. c.cmd \in {"add-path", "add-url", "import", "tag", "meta", "rel", "pkg-rm"}
    BY DEF Refusable
  <2>4. Welcome(r, source)
    <3>1. c.cmd = "add-path" => \A i \in DOMAIN c.files : source[c.files[i]] # Absent
      BY DEF Refusable
    <3>2. c.cmd = "add-url" => c.body # Absent /\ c.expected \in {NoValue, c.body}
      BY DEF Refusable
    <3> HIDE DEF c
    <3> QED BY <2>2, <2>3, <3>1, <3>2 DEF Welcome, Fetchable
  <2>5. c.cmd = "import" /\ Exports /\ r.manifest = NoManifest
    BY <2>1, <2>2, <2>4 DEF Unhindered
  <2> QED BY <2>5 DEF Refusable
<1>2. LegacySpec => []CarryInv
  BY CarryInvInit, CarryInvStep, LegacyInvariant, PTL DEF LegacySpec
<1>3. LegacySpec => []RetryInv
  BY <1>2, RetryInvInit, RetryInvStep, LegacyInvariant, PTL DEF LegacySpec
<1> QED BY <1>1, <1>3, LegacyInvariant, PTL
=============================================================================

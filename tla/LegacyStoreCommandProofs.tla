---------------------- MODULE LegacyStoreCommandProofs -----------------------
(***************************************************************************)
(* What a command of the database-backed store that reports success has    *)
(* done, whatever the other processes do meanwhile: an add with an expected *)
(* digest stored that digest, an import brought all its manifest lists and   *)
(* changed no value it found, the agent answered every request once, and an  *)
(* import right after an export brought what the export was of.              *)
(***************************************************************************)
EXTENDS LegacyStoreProofs

-----------------------------------------------------------------------------
(* How a step changes the place of a process.                              *)

ProcessStep(p) == Step(p) \/ Crash(p) \/ CallFails(p) \/ UploadCallFails(p)

(* r and s are at the same place of the same command.                       *)
SamePlace(r, s) ==
    /\ s.script = r.script /\ s.next = r.next /\ s.status = r.status /\ s.calls = r.calls
    /\ s.pc = r.pc /\ s.buf = r.buf /\ s.digest = r.digest /\ s.manifest = r.manifest
    /\ s.kept = r.kept /\ s.found = r.found /\ s.before = r.before /\ (s.alone => r.alone)

(* What a command never changes about itself.                               *)
Frame(r, s) == s.kept = r.kept /\ s.found = r.found /\ s.before = r.before /\ s.alone = r.alone

Returned(r, s, pre) ==
    /\ s.calls = pre \o Tail(r.calls) /\ s.pc = "call" /\ s.buf = <<>>
    /\ s.status = IF s.calls = <<>> THEN "ok" ELSE "running"

Failed(s) == s.status \in {"err", "fault", "crashed"}
Stays(r, s) == s.status = "running" /\ s.calls = r.calls /\ s.manifest = r.manifest

(* What a call can put in its place, and the calls that take a manifest.    *)
Replaces(op, pre) ==
    \/ pre = <<>>
    \/ op = "export" /\ pre \in Seq(ExportingCalls)
    \/ /\ op \in {"import_blobs", "import_manifest", "merge_metadata", "ensure_package"}
       /\ pre \in Seq(ImportingCalls)
Recording == {"export", "collect", "import_manifest"}

Move(r, s) ==
    /\ s.script = r.script /\ s.next = r.next /\ Frame(r, s)
    /\ s.digest = r.digest \/ (Op(r) \in {"store", "upload"} /\ r.pc = "call")
    /\ s.manifest = r.manifest \/ Op(r) \in Recording
    /\ \/ Failed(s)
       \/ s.status = "ok" /\ Op(r) = "terminate"
       \/ Stays(r, s)
       \/ \E pre : Returned(r, s, pre) /\ Replaces(Op(r), pre)

LEMMA GoesTo ==
    ASSUME LegacyInv, NEW p \in Procs, NEW r, Goes(p, r)
    PROVE  /\ run'[p] = r
           /\ \A q \in Procs \ {p} : SamePlace(run[q], run'[q])
<1>1. run' = [q \in Procs |->
                 IF q = p THEN r
                 ELSE [run[q] EXCEPT !.alone = @ /\ run[q].status # "running"]]
  BY DEF Goes
<1>2. ASSUME NEW q \in Procs \ {p} PROVE SamePlace(run[q], run'[q])
  <2>1. run'[q] = [run[q] EXCEPT !.alone = @ /\ run[q].status # "running"]
    BY <1>1
  <2>2. run[q] \in Process
    BY DEF LegacyInv, StateOK
  <2> QED BY <2>1, <2>2 DEF SamePlace, Process
<1> QED BY <1>1, <1>2

LEMMA ReturnsFields ==
    ASSUME NEW r \in Process, NEW pre
    PROVE  LET s == Returns(r, pre)
           IN  /\ s.script = r.script /\ s.next = r.next /\ s.digest = r.digest
               /\ s.manifest = r.manifest /\ Frame(r, s) /\ Returned(r, s, pre)
<1> DEFINE calls == pre \o Tail(r.calls)
           status == IF calls = <<>> THEN "ok" ELSE "running"
           s == [r EXCEPT !.calls = calls, !.pc = "call", !.buf = <<>>, !.status = status]
<1>1. Returns(r, pre) = s
  BY DEF Returns, Process
<1>2. /\ s.script = r.script /\ s.next = r.next /\ s.digest = r.digest
      /\ s.manifest = r.manifest /\ Frame(r, s)
      /\ s.calls = calls /\ s.pc = "call" /\ s.buf = <<>> /\ s.status = status
  <2> HIDE DEF calls, status
  <2> QED BY DEF Process, Frame
<1> HIDE DEF s
<1>3. Returned(r, s, pre)
  BY <1>2 DEF Returned
<1> QED BY <1>1, <1>2, <1>3

LEMMA EndsFields ==
    ASSUME NEW r \in Process, NEW status
    PROVE  LET s == Ends(r, status)
           IN  /\ s.script = r.script /\ s.next = r.next /\ s.digest = r.digest
               /\ s.manifest = r.manifest /\ Frame(r, s) /\ s.status = status
BY DEF Ends, Process, Frame

LEMMA ReturnMoves ==
    ASSUME NEW r \in Process, NEW s, NEW pre, s = Returns(r, pre), Replaces(Op(r), pre)
    PROVE  Move(r, s)
BY ReturnsFields DEF Move

LEMMA EndMoves ==
    ASSUME NEW r \in Process, NEW s, NEW status, s = Ends(r, status),
           status \in {"err", "fault", "crashed"} \/ (status = "ok" /\ Op(r) = "terminate")
    PROVE  Move(r, s)
BY EndsFields DEF Move, Failed

(* A call that goes on to another place, perhaps with a digest it found.    *)
LEMMA StayMoves ==
    ASSUME NEW r \in Process, NEW s, r.status = "running",
           s.script = r.script, s.next = r.next, s.status = r.status, s.calls = r.calls,
           s.manifest = r.manifest, Frame(r, s),
           s.digest = r.digest \/ (Op(r) \in {"store", "upload"} /\ r.pc = "call")
    PROVE  Move(r, s)
BY DEF Move, Stays

LEMMA StoreMoves ==
    ASSUME LegacyInv, NEW p \in Procs, StoreStep(p)
    PROVE  Move(run[p], run'[p]) /\ \A q \in Procs \ {p} : SamePlace(run[q], run'[q])
<1> DEFINE r == run[p]
<1>1. r.status = "running" /\ r \in Process /\ Op(r) = Call(p).op
  <2>1. r.status = "running"
    BY DEF StoreStep, HashFile, StoreBlob, VerifyPath, Fetch, OpenCopy, CopyChunk, EndCopy, Seal, At
  <2> QED BY <2>1, Current
<1>2. ASSUME NEW s, Goes(p, s), Move(r, s)
      PROVE  Move(run[p], run'[p]) /\ \A q \in Procs \ {p} : SamePlace(run[q], run'[q])
  <2>1. run'[p] = s /\ \A q \in Procs \ {p} : SamePlace(run[q], run'[q])
    BY <1>2, GoesTo
  <2> QED BY <1>2, <2>1
<1>3. Move(r, Returns(r, <<>>)) /\ Move(r, Ends(r, "err"))
  BY <1>1, ReturnMoves, EndMoves DEF Replaces
<1>4. \A pc, linked, buf :
         /\ Move(r, [r EXCEPT !.pc = pc])
         /\ Move(r, [r EXCEPT !.buf = buf])
         /\ Move(r, [r EXCEPT !.pc = pc, !.linked = linked])
  <2> TAKE pc, linked, buf
  <2> DEFINE a == [r EXCEPT !.pc = pc]
             b == [r EXCEPT !.buf = buf]
             c == [r EXCEPT !.pc = pc, !.linked = linked]
  <2>1. \A s \in {a, b, c} :
          /\ s.script = r.script /\ s.next = r.next /\ s.status = r.status
          /\ s.calls = r.calls /\ s.manifest = r.manifest /\ s.digest = r.digest
          /\ Frame(r, s)
    BY <1>1 DEF Process, Frame
  <2> HIDE DEF a, b, c
  <2>2. Move(r, a) /\ Move(r, b) /\ Move(r, c)
    BY <1>1, <2>1, StayMoves
  <2> QED BY <2>2 DEF a, b, c
<1>5. ASSUME HashFile(p) PROVE \E s : Goes(p, s) /\ Move(r, s)
  <2> DEFINE bytes == Bytes(Call(p).input)
             buf == Append(r.buf, bytes[Len(r.buf) + 1])
  <2>1. CASE bytes = Absent
    BY <1>3, <1>5, <2>1 DEF HashFile
  <2>2. CASE bytes # Absent
    <3>1. Goes(p, [r EXCEPT !.buf = Append(@, bytes[Len(@) + 1])])
      BY <1>5, <2>2 DEF HashFile
    <3>2. [r EXCEPT !.buf = Append(@, bytes[Len(@) + 1])] = [r EXCEPT !.buf = buf]
      BY <1>1 DEF Process
    <3> HIDE DEF buf
    <3> QED BY <1>4, <3>1, <3>2
  <2> QED BY <2>1, <2>2
<1>6. ASSUME StoreBlob(p) PROVE \E s : Goes(p, s) /\ Move(r, s)
  <2> DEFINE found == [r EXCEPT !.digest = r.buf]
             opened == [found EXCEPT !.pc = "open", !.buf = <<>>]
  <2>1. Op(r) = "store" /\ r.pc = "call"
    BY <1>1, <1>6 DEF StoreBlob, At
  <2>2. /\ found.script = r.script /\ found.next = r.next /\ found.status = r.status
        /\ found.calls = r.calls /\ found.manifest = r.manifest /\ Frame(r, found)
        /\ opened.script = r.script /\ opened.next = r.next /\ opened.status = r.status
        /\ opened.calls = r.calls /\ opened.manifest = r.manifest /\ Frame(r, opened)
    BY <1>1 DEF Process, Frame
  <2>3. found \in Process
    <3>1. r.buf \in Digest
      BY <1>6, HashedDigest DEF StoreBlob, At
    <3> QED BY <1>1, <3>1 DEF Process
  <2>4. Move(r, opened)
    <3> HIDE DEF opened
    <3> QED BY <1>1, <2>1, <2>2, StayMoves
  <2> DEFINE done == Returns(found, <<>>)
  <2>5. Move(r, done)
    <3>1. /\ done.script = found.script /\ done.next = found.next
          /\ done.manifest = found.manifest /\ Frame(found, done)
          /\ Returned(found, done, <<>>)
      <4> HIDE DEF found
      <4> QED BY <2>3, ReturnsFields
    <3> HIDE DEF found, done
    <3>2. Returned(r, done, <<>>) /\ Frame(r, done)
      BY <2>2, <3>1 DEF Returned, Frame
    <3> QED BY <2>1, <2>2, <3>1, <3>2 DEF Move, Replaces
  <2>6. CASE Exists(Root(p), r.buf)
    BY <1>6, <2>5, <2>6 DEF StoreBlob
  <2>7. CASE ~Exists(Root(p), r.buf)
    BY <1>6, <2>4, <2>7 DEF StoreBlob
  <2> QED BY <2>6, <2>7
<1>7. ASSUME VerifyPath(p) \/ Fetch(p) PROVE \E s : Goes(p, s) /\ Move(r, s)
  BY <1>3, <1>7 DEF VerifyPath, Fetch
<1>8. ASSUME OpenCopy(p) PROVE \E s : Goes(p, s) /\ Move(r, s)
  <2>1. Goes(p, Ends(r, "err")) \/ Goes(p, [r EXCEPT !.pc = "write", !.linked = TRUE])
    BY <1>8 DEF OpenCopy
  <2> QED BY <1>3, <1>4, <2>1
<1>9. ASSUME CopyChunk(p) PROVE \E s : Goes(p, s) /\ Move(r, s)
  <2> DEFINE chunk == From(p).data[Len(r.buf) + 1]
             buf == Append(r.buf, chunk)
  <2>1. Goes(p, [r EXCEPT !.buf = Append(@, chunk)])
    BY <1>9 DEF CopyChunk
  <2>2. [r EXCEPT !.buf = Append(@, chunk)] = [r EXCEPT !.buf = buf]
    BY <1>1 DEF Process
  <2> HIDE DEF buf
  <2> QED BY <1>4, <2>1, <2>2
<1>10. ASSUME EndCopy(p) \/ Seal(p) PROVE \E s : Goes(p, s) /\ Move(r, s)
  <2>1. \/ Goes(p, Returns(r, <<>>)) \/ Goes(p, [r EXCEPT !.pc = "seal"])
        \/ Goes(p, [r EXCEPT !.pc = "register"])
    BY <1>10 DEF EndCopy, Seal
  <2> QED BY <1>3, <1>4, <2>1
<1> HIDE DEF r
<1>11. \E s : Goes(p, s) /\ Move(r, s)
  BY <1>5, <1>6, <1>7, <1>8, <1>9, <1>10 DEF StoreStep
<1> QED BY <1>2, <1>11

LEMMA PlainCallsImport ==
    /\ \A pre \in Seq(PlainCalls) : pre \in Seq(ImportingCalls)
    /\ \A pre \in Lists(ImportingCalls) : pre \in Seq(ImportingCalls)
<1>1. PlainCalls \subseteq ImportingCalls
  BY DEF PlainCalls
<1>2. \A C, D : C \subseteq D => \A s \in Seq(C) : s \in Seq(D)
  OBVIOUS
<1> QED BY <1>1, <1>2 DEF Lists

LEMMA TransferMoves ==
    ASSUME LegacyInv, NEW p \in Procs, TransferStep(p)
    PROVE  Move(run[p], run'[p]) /\ \A q \in Procs \ {p} : SamePlace(run[q], run'[q])
<1> DEFINE r == run[p]
<1>1. r.status = "running" /\ r \in Process /\ Op(r) = Call(p).op
  <2>1. r.status = "running"
    BY DEF TransferStep, ExportPackage, CopyBlobTo, Collect, WriteExportMetadata, ImportBlobs,
           ImportBlob, ImportManifest, MergeMetadata, EnsurePackage, At
  <2> QED BY <2>1, Current
<1>2. ASSUME NEW s, Goes(p, s), Move(r, s)
      PROVE  Move(run[p], run'[p]) /\ \A q \in Procs \ {p} : SamePlace(run[q], run'[q])
  <2>1. run'[p] = s /\ \A q \in Procs \ {p} : SamePlace(run[q], run'[q])
    BY <1>2, GoesTo
  <2> QED BY <1>2, <2>1
<1>3. /\ Move(r, Returns(r, <<>>)) /\ Move(r, Ends(r, "err"))
      /\ \A pre : Replaces(Op(r), pre) => Move(r, Returns(r, pre))
  <2>1. Replaces(Op(r), <<>>)
    BY DEF Replaces
  <2> QED BY <1>1, <2>1, ReturnMoves, EndMoves
<1>4. Move(r, [r EXCEPT !.pc = "open"])
  <2> DEFINE a == [r EXCEPT !.pc = "open"]
  <2>1. /\ a.script = r.script /\ a.next = r.next /\ a.status = r.status
        /\ a.calls = r.calls /\ a.manifest = r.manifest /\ a.digest = r.digest /\ Frame(r, a)
    BY <1>1 DEF Process, Frame
  <2> HIDE DEF a
  <2>2. Move(r, a)
    BY <1>1, <2>1, StayMoves
  <2> QED BY <2>2 DEF a
(* A call that records m in the process.                                    *)
<1>5. ASSUME NEW m, NEW pre, Op(r) \in Recording, Replaces(Op(r), pre)
      PROVE  Move(r, Returns([r EXCEPT !.manifest = m], pre))
  <2> DEFINE t == [r EXCEPT !.manifest = m]
             calls == pre \o Tail(t.calls)
             status == IF calls = <<>> THEN "ok" ELSE "running"
             s == [t EXCEPT !.calls = calls, !.pc = "call", !.buf = <<>>, !.status = status]
  <2>1. /\ t.script = r.script /\ t.next = r.next /\ t.digest = r.digest /\ t.calls = r.calls
        /\ Frame(r, t)
    BY <1>1 DEF Process, Frame
  <2>a. ASSUME NEW a, NEW b, NEW c, NEW d
        PROVE  LET u == [t EXCEPT !.calls = a, !.pc = b, !.buf = c, !.status = d]
               IN  /\ u.calls = a /\ u.pc = b /\ u.buf = c /\ u.status = d
                   /\ u.script = t.script /\ u.next = t.next /\ u.digest = t.digest
                   /\ Frame(t, u)
    BY <1>1 DEF Process, Frame
  <2>2. Returns(t, pre) = s
    BY <1>1 DEF Returns, Process
  <2> HIDE DEF t
  <2>3. /\ s.script = r.script /\ s.next = r.next /\ s.digest = r.digest /\ Frame(r, s)
        /\ s.calls = calls /\ s.pc = "call" /\ s.buf = <<>> /\ s.status = status
    <3> HIDE DEF calls, status
    <3> QED BY <2>1, <2>a DEF Frame
  <2> HIDE DEF s
  <2>4. Returned(r, s, pre)
    BY <2>1, <2>3 DEF Returned
  <2>5. Move(r, s)
    BY <1>5, <2>3, <2>4 DEF Move
  <2> QED BY <2>2, <2>5 DEF t
<1>6. ASSUME ExportPackage(p) PROVE \E s : Goes(p, s) /\ Move(r, s)
  <2>1. Op(r) = "export" /\ Op(r) \in Recording
    BY <1>1, <1>6 DEF ExportPackage, At, Recording
  <2>2. PICK m, pre : pre \in Seq(ExportingCalls) /\ Goes(p, Returns([r EXCEPT !.manifest = m], pre))
    BY <1>6, ExportPackageCalls
  <2> HIDE DEF r
  <2>3. Replaces(Op(r), pre)
    BY <2>1, <2>2 DEF Replaces
  <2> QED BY <1>5, <2>1, <2>2, <2>3
<1>7. ASSUME CopyBlobTo(p) \/ WriteExportMetadata(p) \/ ImportBlob(p)
      PROVE  \E s : Goes(p, s) /\ Move(r, s)
  <2>1. Goes(p, Returns(r, <<>>)) \/ Goes(p, [r EXCEPT !.pc = "open"])
    BY <1>7 DEF CopyBlobTo, WriteExportMetadata, ImportBlob
  <2> QED BY <1>3, <1>4, <2>1
<1>8. ASSUME Collect(p) PROVE \E s : Goes(p, s) /\ Move(r, s)
  <2>1. Op(r) \in Recording
    BY <1>1, <1>8 DEF Collect, At, Recording
  <2>2. \E m : Goes(p, Returns([r EXCEPT !.manifest = m], <<>>))
    BY <1>8 DEF Collect
  <2>3. Replaces(Op(r), <<>>)
    BY DEF Replaces
  <2> HIDE DEF r
  <2> QED BY <1>5, <2>1, <2>2, <2>3
<1>9. ASSUME ImportBlobs(p) \/ MergeMetadata(p) \/ EnsurePackage(p)
      PROVE  \E s : Goes(p, s) /\ Move(r, s)
  <2>1. Op(r) \in {"import_blobs", "merge_metadata", "ensure_package"}
    BY <1>1, <1>9 DEF ImportBlobs, MergeMetadata, EnsurePackage, At
  <2>2. \E pre \in Seq(PlainCalls) \cup Lists(ImportingCalls) : Goes(p, Returns(r, pre))
    BY <1>9, ImportBlobsCalls, MergeMetadataCalls, EnsurePackageCalls
  <2>3. PICK pre \in Seq(ImportingCalls) : Goes(p, Returns(r, pre))
    BY <2>2, PlainCallsImport
  <2> HIDE DEF r
  <2>4. Replaces(Op(r), pre)
    BY <2>1 DEF Replaces
  <2> QED BY <1>3, <2>3, <2>4
<1>10. ASSUME ImportManifest(p) PROVE \E s : Goes(p, s) /\ Move(r, s)
  <2>1. Op(r) = "import_manifest" /\ Op(r) \in Recording
    BY <1>1, <1>10 DEF ImportManifest, At, Recording
  <2>2. \/ Goes(p, Returns(r, <<>>)) \/ Goes(p, Ends(r, "err"))
        \/ /\ manifest \in Manifests
           /\ Goes(p, Returns([r EXCEPT !.manifest = manifest], ImportCalls(manifest)))
    BY <1>10 DEF ImportManifest, LegacyInv, StateOK
  <2>3. manifest \in Manifests => ImportCalls(manifest) \in Seq(ImportingCalls)
    BY ImportCallsPlain, PlainCallsImport
  <2> HIDE DEF r
  <2>4. manifest \in Manifests => Replaces(Op(r), ImportCalls(manifest))
    BY <2>1, <2>3 DEF Replaces
  <2> QED BY <1>3, <1>5, <2>1, <2>2, <2>4
<1> HIDE DEF r
<1>11. \E s : Goes(p, s) /\ Move(r, s)
  BY <1>6, <1>7, <1>8, <1>9, <1>10 DEF TransferStep
<1> QED BY <1>2, <1>11

LEMMA PersistMoves ==
    ASSUME LegacyInv, NEW p \in Procs, Persist(p)
    PROVE  Move(run[p], run'[p]) /\ \A q \in Procs \ {p} : SamePlace(run[q], run'[q])
<1> DEFINE r == run[p]
           t == Target(p)
           s == [r EXCEPT !.pc = "seal"]
<1>1. r.status = "running" /\ \A q \in Procs : run[q] \in Process
  BY DEF Persist, At, LegacyInv, StateOK
<1>2. run' = [q \in Procs |->
                 IF q = p THEN [run[q] EXCEPT !.pc = "seal"]
                 ELSE [run[q] EXCEPT !.linked = @ /\ ~Writing(q, t),
                                     !.alone = @ /\ run[q].status # "running"]]
  BY DEF Persist
<1>3. /\ run'[p] = s /\ s.script = r.script /\ s.next = r.next /\ s.status = r.status
      /\ s.calls = r.calls /\ s.manifest = r.manifest /\ s.digest = r.digest /\ Frame(r, s)
  BY <1>1, <1>2 DEF Process, Frame
<1>4. Move(r, s)
  <2> HIDE DEF s
  <2> QED BY <1>1, <1>3, StayMoves
<1>5. ASSUME NEW q \in Procs \ {p} PROVE SamePlace(run[q], run'[q])
  <2> DEFINE linked == run[q].linked /\ ~Writing(q, t)
             alone == run[q].alone /\ run[q].status # "running"
  <2>1. run'[q] = [run[q] EXCEPT !.linked = @ /\ ~Writing(q, t),
                                 !.alone = @ /\ run[q].status # "running"]
    BY <1>2
  <2>2. run'[q] = [run[q] EXCEPT !.linked = linked, !.alone = alone]
    BY <1>1, <2>1 DEF Process
  <2>3. alone => run[q].alone
    OBVIOUS
  <2> HIDE DEF linked, alone
  <2> QED BY <1>1, <2>2, <2>3 DEF SamePlace, Process
<1> QED BY <1>3, <1>4, <1>5

LEMMA AgentMoves ==
    ASSUME LegacyInv, NEW p \in Procs, AgentStep(p) \/ UploadCallFails(p)
    PROVE  Move(run[p], run'[p]) /\ \A q \in Procs \ {p} : SamePlace(run[q], run'[q])
<1> DEFINE r == run[p]
<1>1. r.status = "running" /\ r \in Process /\ Op(r) = Call(p).op
  <2>1. r.status = "running"
    BY DEF AgentStep, UploadCallFails, ReadUpload, StoreBlobWithProgress, Persist, Mismatch,
           Register, CompleteUpload, MissingUpload, HandleDownload, AgentLine, At
  <2> QED BY <2>1, Current
<1>2. ASSUME NEW s, Goes(p, s), Move(r, s)
      PROVE  Move(run[p], run'[p]) /\ \A q \in Procs \ {p} : SamePlace(run[q], run'[q])
  <2>1. run'[p] = s /\ \A q \in Procs \ {p} : SamePlace(run[q], run'[q])
    BY <1>2, GoesTo
  <2> QED BY <1>2, <2>1
<1>3. /\ Move(r, Returns(r, <<>>)) /\ Move(r, Ends(r, "err"))
      /\ Op(r) = "terminate" => Move(r, Ends(r, "ok"))
  BY <1>1, ReturnMoves, EndMoves DEF Replaces
<1>4. \A pc, digest, buf :
         /\ Move(r, [r EXCEPT !.pc = pc])
         /\ Move(r, [r EXCEPT !.buf = buf])
         /\ Op(r) = "upload" /\ r.pc = "call" => Move(r, [r EXCEPT !.digest = digest, !.pc = pc])
  <2> TAKE pc, digest, buf
  <2> DEFINE a == [r EXCEPT !.pc = pc]
             b == [r EXCEPT !.buf = buf]
             c == [r EXCEPT !.digest = digest, !.pc = pc]
  <2>1. /\ \A s \in {a, b, c} :
             /\ s.script = r.script /\ s.next = r.next /\ s.status = r.status
             /\ s.calls = r.calls /\ s.manifest = r.manifest /\ Frame(r, s)
        /\ a.digest = r.digest /\ b.digest = r.digest
    BY <1>1 DEF Process, Frame
  <2> HIDE DEF a, b, c
  <2>2. Move(r, a) /\ Move(r, b) /\ (Op(r) = "upload" /\ r.pc = "call" => Move(r, c))
    BY <1>1, <2>1, StayMoves
  <2> QED BY <2>2 DEF a, b, c
<1>5. ASSUME ReadUpload(p) PROVE \E s : Goes(p, s) /\ Move(r, s)
  <2> DEFINE bytes == Bytes(Call(p).input)
             buf == Append(r.buf, bytes[Len(r.buf) + 1])
  <2>1. Goes(p, [r EXCEPT !.buf = Append(@, bytes[Len(@) + 1])])
    BY <1>5 DEF ReadUpload
  <2>2. [r EXCEPT !.buf = Append(@, bytes[Len(@) + 1])] = [r EXCEPT !.buf = buf]
    BY <1>1 DEF Process
  <2> HIDE DEF buf
  <2> QED BY <1>4, <2>1, <2>2
<1>6. ASSUME StoreBlobWithProgress(p) PROVE \E s : Goes(p, s) /\ Move(r, s)
  <2> DEFINE pc == IF Exists(Root(p), r.buf) THEN "register" ELSE "persist"
  <2>1. Op(r) = "upload" /\ r.pc = "call"
    BY <1>1, <1>6 DEF StoreBlobWithProgress, At
  <2>2. Goes(p, [r EXCEPT !.digest = r.buf, !.pc = pc])
    BY <1>6 DEF StoreBlobWithProgress
  <2> HIDE DEF pc
  <2> QED BY <1>4, <2>1, <2>2
<1>7. ASSUME Mismatch(p) \/ CompleteUpload(p) \/ MissingUpload(p) \/ HandleDownload(p)
      PROVE  \E s : Goes(p, s) /\ Move(r, s)
  <2>1. Goes(p, Returns(r, <<>>))
    BY <1>7 DEF Mismatch, CompleteUpload, MissingUpload, UploadFails, HandleDownload
  <2> QED BY <1>3, <2>1
<1>8. ASSUME Register(p) \/ UploadCallFails(p) PROVE \E s : Goes(p, s) /\ Move(r, s)
  <2>1. Goes(p, Returns(r, <<>>)) \/ Goes(p, [r EXCEPT !.pc = "answer"])
    BY <1>8 DEF Register, UploadCallFails, UploadFails
  <2> QED BY <1>3, <1>4, <2>1
<1>9. ASSUME AgentLine(p) PROVE \E s : Goes(p, s) /\ Move(r, s)
  <2>1. Op(r) \in {"init", "blank", "unparsable", "terminate"}
    BY <1>1, <1>9 DEF AgentLine, At
  <2>2. /\ Op(r) \in {"init", "blank"} => Goes(p, Returns(r, <<>>))
        /\ Op(r) = "unparsable" => Goes(p, Ends(r, "err"))
        /\ Op(r) = "terminate" => Goes(p, Ends(r, "ok"))
    BY <1>1, <1>9 DEF AgentLine
  <2> HIDE DEF r
  <2> QED BY <1>3, <2>1, <2>2
<1>10. CASE Persist(p)
  BY <1>10, PersistMoves
<1>11. CASE ~Persist(p)
  <2> HIDE DEF r
  <2>1. \E s : Goes(p, s) /\ Move(r, s)
    BY <1>5, <1>6, <1>7, <1>8, <1>9, <1>11 DEF AgentStep
  <2> QED BY <1>2, <2>1
<1> QED BY <1>10, <1>11

LEMMA StatementMoves ==
    ASSUME LegacyInv, NEW p \in Procs, Statement(p) \/ Crash(p) \/ CallFails(p)
    PROVE  Move(run[p], run'[p]) /\ \A q \in Procs \ {p} : SamePlace(run[q], run'[q])
<1>1. run[p].status = "running" /\ run[p] \in Process
  <2>1. run[p].status = "running"
    BY DEF Statement, Crash, CallFails, At
  <2> QED BY <2>1, Current
<1>2. PICK s : Goes(p, s) /\ s \in {Returns(run[p], <<>>), Ends(run[p], "err"),
                                    Ends(run[p], "crashed"), Ends(run[p], "fault")}
  BY DEF Statement, Crash, CallFails
<1>3. Move(run[p], s)
  BY <1>1, <1>2, ReturnMoves, EndMoves DEF Replaces
<1> QED BY <1>2, <1>3, GoesTo

(* Every step of a process moves it alone, and only Start changes which     *)
(* command it runs.                                                         *)
LEMMA ProcessMoves ==
    ASSUME LegacyInv, NEW p \in Procs, ProcessStep(p)
    PROVE  Move(run[p], run'[p]) /\ \A q \in Procs \ {p} : SamePlace(run[q], run'[q])
BY StoreMoves, TransferMoves, AgentMoves, StatementMoves DEF ProcessStep, Step

LEMMA StartMoves ==
    ASSUME LegacyInv, NEW p \in Procs, Start(p)
    PROVE  LET s == run'[p]
               c == s.script[s.next]
           IN  /\ s.script = run[p].script /\ s.next \in 1..Len(s.script) /\ c \in Commands
               /\ s.calls = Calls(c) /\ s.pc = "call" /\ s.buf = <<>>
               /\ s.manifest = NoManifest /\ s.kept = db[c.root].metadata
               /\ s.found = IF run[p].status = "crashed" THEN run[p].found
                           ELSE db[c.root].metadata
               /\ s.before = IF s.next = run[p].next THEN run[p].before ELSE run[p].status
               /\ s.next = IF run[p].status \in {"ok", "err", "fault"}
                           THEN run[p].next + 1 ELSE run[p].next
               /\ s.alone = TRUE
               /\ s.status = IF Calls(c) = <<>> THEN "ok" ELSE "running"
               /\ \A q \in Procs \ {p} : SamePlace(run[q], run'[q])
<1> DEFINE r == run[p]
           next == IF r.status \in {"ok", "err", "fault"} THEN r.next + 1 ELSE r.next
           c == r.script[next]
           calls == Calls(c)
           status == IF calls = <<>> THEN "ok" ELSE "running"
           kept == db[c.root].metadata
           found == IF r.status = "crashed" THEN r.found ELSE db[c.root].metadata
           before == IF next = r.next THEN r.before ELSE r.status
           s == [r EXCEPT !.next = next, !.calls = calls, !.before = before, !.status = status,
                          !.pc = "call", !.alone = TRUE, !.manifest = NoManifest, !.kept = kept,
                          !.found = found]
<1>1. r.status # "running" /\ next <= Len(r.script) /\ run' = [run EXCEPT ![p] = s]
  BY DEF Start
<1>2. \A q \in Procs : run[q] \in Process /\ Stage(run[q])
  BY DEF LegacyInv, ProcessOK
<1>3. run \in [Procs -> Process]
  BY DEF LegacyInv, StateOK
<1>4. next \in 1..Len(r.script)
  BY <1>1, <1>2 DEF Stage, Process
<1>5. c \in Commands
  BY <1>2, <1>4 DEF Process
<1>6. /\ s.script = r.script /\ s.next = next /\ s.calls = calls /\ s.pc = "call"
      /\ s.buf = r.buf /\ s.manifest = NoManifest /\ s.status = status
      /\ s.before = before /\ s.kept = kept /\ s.found = found /\ s.alone = TRUE
  <2> HIDE DEF next, calls, before, status, kept, found
  <2> QED BY <1>2 DEF Process
<1>7. r.buf = <<>>
  BY <1>1, <1>2 DEF Stage
<1>8. run'[p] = s
  <2> HIDE DEF s
  <2> QED BY <1>1, <1>3
<1>9. ASSUME NEW q \in Procs \ {p} PROVE SamePlace(run[q], run'[q])
  <2>1. run'[q] = run[q]
    <3> HIDE DEF s
    <3> QED BY <1>1, <1>3
  <2> QED BY <2>1 DEF SamePlace
<1> HIDE DEF s
<1> QED BY <1>4, <1>5, <1>6, <1>7, <1>8, <1>9

(* The owner moves no process.                                              *)
LEMMA EditMoves ==
    ASSUME LegacyInv, NEW f \in Sources, NEW k \in 1..Size, NEW chunk \in Atoms, Edit(f, k, chunk)
    PROVE  \A q \in Procs : SamePlace(run[q], run'[q])
<1>1. ASSUME NEW q \in Procs PROVE SamePlace(run[q], run'[q])
  <2>1. run'[q] = [run[q] EXCEPT !.alone = @ /\ run[q].status # "running"]
    BY DEF Edit
  <2>2. run[q] \in Process
    BY DEF LegacyInv, StateOK
  <2> QED BY <2>1, <2>2 DEF SamePlace, Process
<1> QED BY <1>1

-----------------------------------------------------------------------------
(* Adds with an expected digest.                                           *)

Checks == {"verify_path", "download"}
Inserts == {"insert_blob", "insert_blob_name"}

Verifies(c) ==
    \/ c.cmd \in {"add-verified-path", "fetch"}
    \/ c.cmd = "add-url" /\ ~c.unzip /\ c.expected # NoValue
Input(c) == IF c.cmd = "add-verified-path" THEN c.file ELSE c.body

(* The bytes of an input next to the sources src; it is as it was at first  *)
(* unless it is a local file and there were edits.                          *)
BytesOf(input, src) == IF input \in Sources THEN src[input] ELSE input
Unedited(input, e) == input \in Sources => e = 0

(* What a process has read of an unedited input are its first bytes.        *)
ReadsTrue(r, src, e) ==
    /\ r.status = "running" /\ r.pc = "call" /\ Op(r) \in {"store", "verify_path"}
    /\ Unedited(r.calls[1].input, e)
    => \A i \in 1..Len(r.buf) : r.buf[i] = BytesOf(r.calls[1].input, src)[i]

(* A check of the input, then one call that stores it, then the rows.       *)
Adds(s, c) ==
    \A i \in 1..Len(s) :
        /\ s[i].op \in Checks \cup {"store"} \cup Inserts
        /\ s[i].op \in Checks =>
              i = 1 /\ Len(s) > 1 /\ s[2].op = "store" /\ s[1].expected = c.expected
        /\ s[i].op = "verify_path" => s[i].input = Input(c)
        /\ s[i].op = "download" => s[i].body = Input(c)
        /\ s[i].op = "store" =>
              s[i].input = Input(c) /\ (i = 1 \/ (i = 2 /\ s[1].op \in Checks))

(* Once the check is done an unedited input has the expected digest, and    *)
(* once it is stored the digest of the process is that.                     *)
Verified(r, src, e) ==
    LET c == r.script[r.next]
        sure == Unedited(Input(c), e)
    IN  r.status # "new" /\ Verifies(c) =>
        /\ r.status = "ok" /\ sure => r.digest = c.expected
        /\ r.status = "running" =>
              /\ Adds(r.calls, c)
              /\ sure /\ Op(r) \notin Checks => BytesOf(Input(c), src) = c.expected
              /\ sure /\ (Op(r) \in Inserts \/ r.pc # "call") => r.digest = c.expected

VerifyInv ==
    \A p \in Procs : /\ ReadsTrue(run[p], source, edits)
                     /\ Verified(run[p], source, edits)

(* What an add starts with.                                                 *)
LEMMA CheckThenAdd ==
    ASSUME NEW c, NEW v \in AllCalls, NEW s \in Seq(AllCalls), Len(s) >= 1,
           v.op \in Checks, v.expected = c.expected,
           v.op = "verify_path" => v.input = Input(c),
           v.op = "download" => v.body = Input(c),
           s[1] = [op |-> "store", input |-> Input(c)],
           \A i \in 1..Len(s) : i # 1 => s[i].op \in Inserts
    PROVE  LET t == <<v>> \o s IN Adds(t, c) /\ t # <<>> /\ t[1].op \in Checks
<1> DEFINE t == <<v>> \o s
<1>1. <<v>> \in Seq(AllCalls) /\ Len(<<v>>) = 1 /\ <<v>>[1] = v /\ Len(s) \in Nat
  OBVIOUS
<1>2. /\ t \in Seq(AllCalls) /\ Len(t) = 1 + Len(s) /\ t[1] = v
      /\ \A i \in 1..Len(s) : t[1 + i] = s[i]
      /\ \A i \in 1..Len(t) :
            \/ i \in 1..1 /\ t[i] = <<v>>[i]
            \/ i - 1 \in 1..Len(s) /\ i > 1 /\ t[i] = s[i - 1]
  <2>1. 1 \in 1..1
    OBVIOUS
  <2> QED BY <1>1, <2>1, Concatenation
<1> HIDE DEF t
<1>3. t[2] = s[1] /\ 1 + 1 = 2 /\ 1 \in 1..Len(s) /\ Len(t) > 1
  <2>1. 1 + 1 = 2 /\ 1 \in 1..Len(s)
    BY <1>1
  <2> QED BY <1>1, <1>2, <2>1
<1>4. ASSUME NEW i \in 1..Len(t)
      PROVE  \/ i = 1 /\ t[i] = v
             \/ i = 2 /\ t[i] = s[1]
             \/ t[i].op \in Inserts
  <2>1. CASE i \in 1..1 /\ t[i] = <<v>>[i]
    BY <1>1, <2>1
  <2>2. CASE i - 1 \in 1..Len(s) /\ i > 1 /\ t[i] = s[i - 1]
    <3>1. i - 1 = 1 => i = 2
      OBVIOUS
    <3> QED BY <2>2, <3>1
  <2> QED BY <1>2, <2>1, <2>2
<1>5. Adds(t, c)
  BY <1>2, <1>3, <1>4 DEF Adds, Checks, Inserts
<1>6. t # <<>>
  BY <1>3
<1> QED BY <1>2, <1>5, <1>6 DEF t

LEMMA VerifyingCalls ==
    ASSUME NEW c \in Commands, Verifies(c)
    PROVE  Adds(Calls(c), c) /\ Calls(c) # <<>> /\ Calls(c)[1].op \in Checks
<1> DEFINE input == Input(c)
           a == [op |-> "store", input |-> input]
           b == [op |-> "insert_blob", hash |-> Added]
           n(name) == [op |-> "insert_blob_name", hash |-> Added, name |-> name]
<1>1. CASE c.cmd = "add-verified-path"
  <2> DEFINE v == [op |-> "verify_path", input |-> c.file, expected |-> c.expected]
             s == <<a, b, n(c.file)>>
  <2>1. c.file \in Sources /\ c.file \in Names /\ c.expected \in Digest /\ input = c.file
    BY <1>1, LegacyAssumption DEF Commands, Urls, Input
  <2>2. v \in AllCalls /\ a \in AllCalls /\ b \in AllCalls /\ n(c.file) \in AllCalls
    BY <2>1 DEF AllCalls, WorkCalls, CommandCalls, AddingCalls, StatementCalls, Inputs
  <2>3. Calls(c) = <<v>> \o s
    <3>1. Stored(c.file, c.file) = s
      BY <2>1, ThreeCalls DEF Stored, Stores
    <3> QED BY <1>1, <3>1 DEF Calls, AddVerifiedPath, AddPath
  <2>4. /\ s \in Seq(AllCalls) /\ Len(s) = 3 /\ s[1] = a
        /\ \A i \in 1..Len(s) : i # 1 => s[i].op \in Inserts
    BY <2>2 DEF Inserts
  <2>5. v.op = "verify_path" /\ v.expected = c.expected /\ v.input = input
    BY <2>1
  <2>6. /\ s[1] = [op |-> "store", input |-> Input(c)] /\ v.op \in Checks /\ Len(s) >= 1
        /\ v.op = "verify_path" => v.input = Input(c)
        /\ v.op = "download" => v.body = Input(c)
    BY <2>4, <2>5 DEF Checks
  <2> HIDE DEF v, s, a, b, n, input
  <2>7. /\ v \in AllCalls /\ s \in Seq(AllCalls) /\ Len(s) >= 1 /\ v.op \in Checks
        /\ v.expected = c.expected
        /\ v.op = "verify_path" => v.input = Input(c)
        /\ v.op = "download" => v.body = Input(c)
        /\ s[1] = [op |-> "store", input |-> Input(c)]
        /\ \A i \in 1..Len(s) : i # 1 => s[i].op \in Inserts
    BY <2>2, <2>4, <2>5, <2>6
  <2>8. Adds(<<v>> \o s, c) /\ <<v>> \o s # <<>> /\ (<<v>> \o s)[1].op \in Checks
    BY ONLY <2>7, CheckThenAdd
  <2> QED BY <2>3, <2>8
<1>2. CASE c.cmd \in {"fetch", "add-url"}
  <2> DEFINE v == [op |-> "download", body |-> c.body, expected |-> c.expected]
             s == <<a, b, n(c.name)>>
  <2>1. /\ c.body \in Digest \cup {Absent} /\ c.name \in Names /\ c.expected \in Digest
        /\ input = c.body /\ (c.cmd = "add-url" => c.unzip = FALSE /\ c.expected # NoValue)
    BY <1>2 DEF Commands, Urls, Input, Verifies
  <2>2. v \in AllCalls /\ a \in AllCalls /\ b \in AllCalls /\ n(c.name) \in AllCalls
    BY <2>1 DEF AllCalls, WorkCalls, CommandCalls, AddingCalls, StatementCalls, Inputs
  <2>3. v.op = "download" /\ v.expected = c.expected /\ v.body = input
    BY <2>1
  <2>4. CASE c.cmd = "add-url"
    <3>1. Calls(c) = <<v>> \o s
      <4>1. Stored(c.body, c.name) = s
        BY <2>1, ThreeCalls DEF Stored, Stores
      <4>2. Calls(c) = AddVerifiedUrl(c.body, c.name, c.expected)
        BY <2>1, <2>4 DEF Calls, AddUrlCommand
      <4> QED BY <4>1, <4>2 DEF AddVerifiedUrl, Download
    <3>2. /\ s \in Seq(AllCalls) /\ Len(s) = 3 /\ s[1] = a
          /\ \A i \in 1..Len(s) : i # 1 => s[i].op \in Inserts
      BY <2>2 DEF Inserts
    <3>3. /\ s[1] = [op |-> "store", input |-> Input(c)] /\ v.op \in Checks /\ Len(s) >= 1
          /\ v.op = "verify_path" => v.input = Input(c)
          /\ v.op = "download" => v.body = Input(c)
      BY <2>3, <3>2 DEF Checks
    <3> HIDE DEF v, s, a, b, n, input
    <3>4. /\ v \in AllCalls /\ s \in Seq(AllCalls) /\ Len(s) >= 1 /\ v.op \in Checks
          /\ v.expected = c.expected
          /\ v.op = "verify_path" => v.input = Input(c)
          /\ v.op = "download" => v.body = Input(c)
          /\ s[1] = [op |-> "store", input |-> Input(c)]
          /\ \A i \in 1..Len(s) : i # 1 => s[i].op \in Inserts
      BY <2>2, <2>3, <3>2, <3>3
    <3>5. Adds(<<v>> \o s, c) /\ <<v>> \o s # <<>> /\ (<<v>> \o s)[1].op \in Checks
      BY ONLY <3>4, CheckThenAdd
    <3> QED BY <3>1, <3>5
  <2>5. CASE c.cmd = "fetch"
    <3>1. Calls(c) = <<v>> \o <<a>>
      BY <2>1, <2>5 DEF Calls, FetchAndStore, Download, Stores
    <3>2. /\ <<a>> \in Seq(AllCalls) /\ Len(<<a>>) = 1 /\ <<a>>[1] = a
          /\ \A i \in 1..Len(<<a>>) : i # 1 => <<a>>[i].op \in Inserts
      BY <2>2
    <3> HIDE DEF v
    <3> QED BY <2>2, <2>3, <3>1, <3>2, CheckThenAdd DEF Checks
  <2> QED BY <1>2, <2>4, <2>5
<1> QED BY <1>1, <1>2 DEF Verifies

(* Steps elsewhere: an edit only makes more inputs unsure.                  *)
LEMMA VerifiedKept ==
    ASSUME NEW r, NEW s, SamePlace(r, s), NEW src, NEW src2, NEW e \in Nat, NEW e2 \in Nat,
           e2 >= e, e2 = 0 => src2 = src, ReadsTrue(r, src, e), Verified(r, src, e)
    PROVE  ReadsTrue(s, src2, e2) /\ Verified(s, src2, e2)
<1>1. \A input : Unedited(input, e2) => /\ Unedited(input, e)
                                        /\ BytesOf(input, src2) = BytesOf(input, src)
  BY DEF Unedited, BytesOf
<1>2. Op(s) = Op(r) /\ s.calls[1] = r.calls[1]
  BY DEF Op, SamePlace
<1>3. ReadsTrue(s, src2, e2)
  BY <1>1, <1>2 DEF ReadsTrue, SamePlace
<1>4. Verified(s, src2, e2)
  <2> DEFINE c == r.script[r.next]
  <2>1. s.script[s.next] = c
    BY DEF SamePlace
  <2> HIDE DEF c
  <2>2. Unedited(Input(c), e2) => /\ Unedited(Input(c), e)
                                  /\ BytesOf(Input(c), src2) = BytesOf(Input(c), src)
    BY <1>1
  <2>3. r.status # "new" /\ Verifies(c) =>
          /\ r.status = "ok" /\ Unedited(Input(c), e) => r.digest = c.expected
          /\ r.status = "running" =>
                /\ Adds(r.calls, c)
                /\ Unedited(Input(c), e) /\ Op(r) \notin Checks => BytesOf(Input(c), src) = c.expected
                /\ Unedited(Input(c), e) /\ (Op(r) \in Inserts \/ r.pc # "call") => r.digest = c.expected
    BY DEF Verified, c
  <2>4. s.status # "new" /\ Verifies(c) =>
          /\ s.status = "ok" /\ Unedited(Input(c), e2) => s.digest = c.expected
          /\ s.status = "running" =>
                /\ Adds(s.calls, c)
                /\ Unedited(Input(c), e2) /\ Op(s) \notin Checks => BytesOf(Input(c), src2) = c.expected
                /\ Unedited(Input(c), e2) /\ (Op(s) \in Inserts \/ s.pc # "call") => s.digest = c.expected
    BY <1>2, <2>2, <2>3 DEF SamePlace
  <2> QED BY <2>1, <2>4 DEF Verified
<1> QED BY <1>3, <1>4

LEMMA AddsRest ==
    ASSUME NEW c, NEW s \in Seq(AllCalls), s # <<>>, Adds(s, c)
    PROVE  /\ Adds(Tail(s), c)
           /\ s[1].op \in Checks => Tail(s) # <<>> /\ Tail(s)[1].op = "store"
           /\ s[1].op \notin Checks => \A i \in 1..Len(Tail(s)) : Tail(s)[i].op \in Inserts
<1> DEFINE t == Tail(s)
<1>1. /\ t \in Seq(AllCalls) /\ Len(t) = Len(s) - 1 /\ Len(s) \in Nat /\ Len(s) >= 1
      /\ \A i \in 1..Len(t) : t[i] = s[i + 1] /\ i + 1 \in 1..Len(s)
  OBVIOUS
<1> HIDE DEF t
<1>2. ASSUME NEW i \in 1..Len(t)
      PROVE  /\ t[i].op \in {"store"} \cup Inserts
             /\ t[i].op = "store" => t[i].input = Input(c) /\ i = 1 /\ s[1].op \in Checks
  <2>1. /\ t[i] = s[i + 1] /\ i + 1 \in 1..Len(s) /\ i + 1 # 1 /\ (i + 1 = 2 => i = 1)
    BY <1>1
  <2>2. /\ s[i + 1].op \in Checks \cup {"store"} \cup Inserts
        /\ s[i + 1].op \notin Checks
        /\ s[i + 1].op = "store" =>
              s[i + 1].input = Input(c) /\ i + 1 = 2 /\ s[1].op \in Checks
    BY <2>1 DEF Adds
  <2> QED BY <2>1, <2>2
<1>3. \A i \in 1..Len(t) : t[i].op \notin Checks
  BY <1>2 DEF Checks, Inserts
<1>4. Adds(t, c)
  BY <1>2, <1>3 DEF Adds, Checks, Inserts
<1>5. ASSUME s[1].op \in Checks PROVE t # <<>> /\ t[1].op = "store"
  <2>1. 1 \in 1..Len(s)
    BY <1>1
  <2>2. Len(s) > 1 /\ s[2].op = "store"
    BY <1>5, <2>1 DEF Adds
  <2>3. 1 \in 1..Len(t) /\ 1 + 1 = 2
    BY <1>1, <2>2
  <2>4. t[1] = s[2]
    BY <1>1, <2>3
  <2>5. Len(t) # 0
    BY <1>1, <2>2
  <2> QED BY <2>2, <2>4, <2>5
<1>6. ASSUME s[1].op \notin Checks PROVE \A i \in 1..Len(t) : t[i].op \in Inserts
  BY <1>2, <1>6
<1> QED BY <1>4, <1>5, <1>6 DEF t

(* The first call of an add returns.                                        *)
LEMMA ReturnVerified ==
    ASSUME NEW r, NEW s, NEW src, NEW e, NEW c, c = r.script[r.next],
           s.script = r.script, s.next = r.next, r.status = "running",
           r.calls \in Seq(AllCalls), r.calls # <<>>, Returned(r, s, <<>>),
           Verifies(c) => Adds(r.calls, c),
           Verifies(c) /\ Unedited(Input(c), e) => BytesOf(Input(c), src) = c.expected,
           Verifies(c) /\ Unedited(Input(c), e) /\ Op(r) \notin Checks => s.digest = c.expected
    PROVE  ReadsTrue(s, src, e) /\ Verified(s, src, e)
<1>1. /\ s.calls = Tail(r.calls) /\ s.pc = "call" /\ s.buf = <<>>
      /\ s.status = IF s.calls = <<>> THEN "ok" ELSE "running"
  <2>1. Tail(r.calls) \in Seq(AllCalls)
    BY HeadTyped
  <2>2. <<>> \o Tail(r.calls) = Tail(r.calls)
    BY <2>1
  <2> QED BY <2>2 DEF Returned
<1>2. ReadsTrue(s, src, e)
  BY <1>1 DEF ReadsTrue
<1>3. ASSUME Verifies(c)
      PROVE  /\ s.status = "ok" /\ Unedited(Input(c), e) => s.digest = c.expected
             /\ s.status = "running" =>
                   /\ Adds(s.calls, c)
                   /\ Unedited(Input(c), e) => BytesOf(Input(c), src) = c.expected
                   /\ Unedited(Input(c), e) /\ Op(s) \in Inserts => s.digest = c.expected
  <2>1. /\ Adds(s.calls, c)
        /\ Op(r) \in Checks => s.calls # <<>> /\ s.calls[1].op = "store"
    BY <1>1, <1>3, AddsRest DEF Op
  <2>2. Op(s) \in Inserts => Op(s) # "store"
    BY DEF Inserts
  <2> QED BY <1>1, <1>3, <2>1, <2>2 DEF Op
<1> QED BY <1>1, <1>2, <1>3 DEF Verified

(* A process goes on inside a call, or its command fails.                   *)
LEMMA InsideVerified ==
    ASSUME NEW r, NEW s, NEW src, NEW e, Verified(r, src, e), r.status = "running",
           s.script = r.script, s.next = r.next,
           \/ Failed(s)
           \/ /\ s.status = "running" /\ s.calls = r.calls /\ s.digest = r.digest
              /\ s.pc = r.pc \/ r.pc # "call"
    PROVE  Verified(s, src, e)
<1> DEFINE c == r.script[r.next]
<1>1. CASE Failed(s)
  BY <1>1 DEF Verified, Failed
<1>2. CASE s.status = "running" /\ s.calls = r.calls /\ s.digest = r.digest
           /\ (s.pc = r.pc \/ r.pc # "call")
  <2>1. Op(s) = Op(r) /\ s.script[s.next] = c
    BY <1>2 DEF Op
  <2> QED BY <1>2, <2>1 DEF Verified
<1> QED BY <1>1, <1>2

(* What an add reads to the end is the input, as long as nobody edits it.   *)
LEMMA HashedTrue ==
    ASSUME LegacyInv, NEW p \in Procs, At(p, "call", {"store", "verify_path"}), Hashed(p),
           ReadsTrue(run[p], source, edits), Unedited(Call(p).input, edits)
    PROVE  run[p].buf = BytesOf(Call(p).input, source)
<1> DEFINE input == Call(p).input
           buf == run[p].buf
           bytes == Bytes(input)
<1>1. /\ run[p].status = "running" /\ run[p].pc = "call" /\ Op(run[p]) \in {"store", "verify_path"}
      /\ Call(p) = run[p].calls[1]
  BY Current DEF At
<1>2. input \in Inputs
  BY <1>1, Current, CallShape DEF Inputs
<1>3. bytes = BytesOf(input, source) /\ bytes # Absent /\ bytes \in Digest /\ Len(bytes) = Size
  BY <1>2, InputBytes DEF Hashed, Bytes, BytesOf
<1>4. buf \in Seq(Atoms) /\ Len(buf) = Size
  BY <1>1, <1>3, Current DEF Position, Hashed
<1>5. \A i \in 1..Size : buf[i] = bytes[i]
  BY <1>1, <1>3, <1>4 DEF ReadsTrue
<1>6. buf = [i \in 1..Size |-> buf[i]] /\ bytes = [i \in 1..Size |-> bytes[i]]
  <2>1. \A b \in Seq(Atoms) : Len(b) = Size => b = [i \in 1..Size |-> b[i]]
    OBVIOUS
  <2>2. \A b \in Digest : b = [i \in 1..Size |-> b[i]]
    BY DEF Digest
  <2> HIDE DEF buf, bytes
  <2> QED BY <1>3, <1>4, <2>1, <2>2
<1> HIDE DEF buf, bytes
<1>7. buf = bytes
  BY <1>5, <1>6
<1> QED BY <1>3, <1>7 DEF buf

(* The calls of an add, and the steps that execute them.                    *)
Adding == Checks \cup {"store"} \cup Inserts

LEMMA AddingSteps ==
    ASSUME LegacyInv, NEW p \in Procs, ProcessStep(p), Op(run[p]) \in Adding
    PROVE  \/ HashFile(p) \/ StoreBlob(p) \/ VerifyPath(p) \/ Fetch(p) \/ OpenCopy(p)
           \/ CopyChunk(p) \/ EndCopy(p) \/ Seal(p)
           \/ Statement(p) \/ Crash(p) \/ CallFails(p)
<1>1. run[p].status = "running" => Call(p).op = Op(run[p])
  BY Current
<1>2. ~TransferStep(p)
  BY <1>1 DEF TransferStep, ExportPackage, CopyBlobTo, Collect, WriteExportMetadata, ImportBlobs,
     ImportBlob, ImportManifest, MergeMetadata, EnsurePackage, At, Adding, Checks, Inserts
<1>3. ~AgentStep(p) /\ ~UploadCallFails(p)
  BY <1>1 DEF AgentStep, UploadCallFails, ReadUpload, StoreBlobWithProgress, Persist, Mismatch,
     Register, CompleteUpload, MissingUpload, HandleDownload, AgentLine, At, Adding, Checks, Inserts
<1> QED BY <1>2, <1>3 DEF ProcessStep, Step, StoreStep

LEMMA SourcesStay ==
    ASSUME NEW p \in Procs, ProcessStep(p) \/ Start(p)
    PROVE  UNCHANGED <<source, edits, threads>>
<1>1. ASSUME StoreStep(p) PROVE UNCHANGED <<source, edits, threads>>
  BY <1>1 DEF StoreStep, HashFile, StoreBlob, VerifyPath, Fetch, OpenCopy, CopyChunk, EndCopy,
              Seal, ReadsOnly, KeepsRest
<1>2. ASSUME TransferStep(p) PROVE UNCHANGED <<source, edits, threads>>
  BY <1>2 DEF TransferStep, ExportPackage, CopyBlobTo, Collect, WriteExportMetadata, ImportBlobs,
              ImportBlob, ImportManifest, MergeMetadata, EnsurePackage, ReadsOnly
<1>3. ASSUME AgentStep(p) \/ UploadCallFails(p) PROVE UNCHANGED <<source, edits, threads>>
  BY <1>3 DEF AgentStep, UploadCallFails, UploadFails, ReadUpload, StoreBlobWithProgress, Persist,
              Mismatch, Register, CompleteUpload, MissingUpload, HandleDownload, AgentLine,
              ReadsOnly, KeepsRest, Sends
<1>4. ASSUME Start(p) \/ Statement(p) \/ Crash(p) \/ CallFails(p) PROVE UNCHANGED <<source, edits, threads>>
  BY <1>4 DEF Start, Statement, Crash, CallFails
<1> QED BY <1>1, <1>2, <1>3, <1>4 DEF ProcessStep, Step

LEMMA AddingStepVerified ==
    ASSUME LegacyInv, NEW p \in Procs, ProcessStep(p), Op(run[p]) \in Adding,
           ReadsTrue(run[p], source, edits), Verified(run[p], source, edits)
    PROVE  ReadsTrue(run'[p], source, edits) /\ Verified(run'[p], source, edits)
<1> DEFINE r == run[p]
           s == run'[p]
           c == r.script[r.next]
           sure == Unedited(Input(c), edits)
           Goal == ReadsTrue(s, source, edits) /\ Verified(s, source, edits)
<1>1. Move(r, s)
  BY ProcessMoves
<1>2. /\ r.status = "running" /\ r \in Process /\ Position(r) /\ Op(r) = Call(p).op
      /\ Call(p) = r.calls[1] /\ Call(p) \in AllCalls /\ c \in Commands
      /\ r.calls \in Seq(AllCalls) /\ r.calls # <<>> /\ 1 \in 1..Len(r.calls)
  <2>1. r.status = "running"
    <3>1. CASE StoreStep(p)
      BY <3>1 DEF StoreStep, HashFile, StoreBlob, VerifyPath, Fetch, OpenCopy, CopyChunk, EndCopy, Seal, At
    <3>2. CASE Statement(p) \/ Crash(p) \/ CallFails(p)
      BY <3>2 DEF Statement, Crash, CallFails, At
    <3> QED BY <3>1, <3>2, AddingSteps DEF StoreStep
  <2>2. Stage(r) /\ r \in Process
    BY <2>1, Current
  <2>3. Len(r.calls) >= 1 /\ Len(r.calls) \in Nat /\ r.calls \in Seq(AllCalls) /\ r.calls # <<>>
    BY <2>1, <2>2, HeadTyped DEF Stage
  <2> QED BY <2>1, <2>3, Current DEF Command
<1>3. s.script = r.script /\ s.next = r.next
  BY <1>1 DEF Move
<1> HIDE DEF c
<1>4. Verifies(c) =>
         /\ Adds(r.calls, c)
         /\ Op(r) = "verify_path" => Call(p).input = Input(c) /\ Call(p).expected = c.expected
         /\ Op(r) = "download" => Call(p).body = Input(c) /\ Call(p).expected = c.expected
         /\ Op(r) = "store" => Call(p).input = Input(c)
         /\ sure /\ Op(r) \notin Checks => BytesOf(Input(c), source) = c.expected
         /\ sure /\ (Op(r) \in Inserts \/ r.pc # "call") => r.digest = c.expected
         /\ c.expected \in Digest
  <2>1. Verifies(c) => c.expected \in Digest
    BY <1>2 DEF Verifies, Commands, Urls
  <2>2. Verifies(c) =>
         /\ Adds(r.calls, c)
         /\ sure /\ Op(r) \notin Checks => BytesOf(Input(c), source) = c.expected
         /\ sure /\ (Op(r) \in Inserts \/ r.pc # "call") => r.digest = c.expected
    BY <1>2 DEF Verified, c
  <2>3. Adds(r.calls, c) =>
         /\ Op(r) = "verify_path" => Call(p).input = Input(c) /\ Call(p).expected = c.expected
         /\ Op(r) = "download" => Call(p).body = Input(c) /\ Call(p).expected = c.expected
         /\ Op(r) = "store" => Call(p).input = Input(c)
    BY <1>2 DEF Adds, Checks
  <2> QED BY <2>1, <2>2, <2>3
<1>5. \A t : Goes(p, t) => s = t
  BY GoesTo
<1>6. ASSUME NEW status \in {"err", "fault", "crashed"}, s = Ends(r, status) PROVE Goal
  <2>1. s.status = status
    BY <1>2, <1>6, EndsFields
  <2>2. Failed(s) /\ s.status # "running"
    BY <2>1 DEF Failed
  <2> HIDE DEF r, s
  <2> QED BY <1>2, <1>3, <2>2, InsideVerified DEF ReadsTrue, r
<1>7. ASSUME s = Returns(r, <<>>),
             Verifies(c) /\ sure => BytesOf(Input(c), source) = c.expected,
             Verifies(c) /\ sure /\ Op(r) \notin Checks => r.digest = c.expected
      PROVE  Goal
  <2>1. s.digest = r.digest /\ Returned(r, s, <<>>)
    BY <1>2, <1>7, ReturnsFields
  <2> HIDE DEF r, s
  <2>2. Verifies(c) => Adds(r.calls, c)
    BY <1>4
  <2>3. Verifies(c) /\ Unedited(Input(c), edits) /\ Op(r) \notin Checks => s.digest = c.expected
    BY <1>7, <2>1
  <2> QED BY <1>2, <1>3, <1>7, <2>1, <2>2, <2>3, ReturnVerified DEF c
<1>8. ASSUME s.status = "running", s.calls = r.calls, s.digest = r.digest,
             r.pc # "call", s.pc # "call"
      PROVE  Goal
  <2> HIDE DEF r, s
  <2> QED BY <1>2, <1>3, <1>8, InsideVerified DEF ReadsTrue, r
<1>9. ASSUME HashFile(p) PROVE Goal
  <2> DEFINE bytes == Bytes(Call(p).input)
             buf == Append(r.buf, bytes[Len(r.buf) + 1])
  <2>1. r.pc = "call" /\ Op(r) \in {"store", "verify_path"}
    BY <1>2, <1>9 DEF HashFile, At
  <2>2. CASE bytes = Absent
    <3>1. s = Ends(r, "err")
      BY <1>5, <1>9, <2>2 DEF HashFile
    <3> QED BY <1>6, <3>1
  <2>3. CASE bytes # Absent
    <3>1. s = [r EXCEPT !.buf = Append(@, bytes[Len(@) + 1])]
      BY <1>5, <1>9, <2>3 DEF HashFile
    <3>2. s = [r EXCEPT !.buf = buf]
      BY <1>2, <3>1 DEF Process
    <3>3. /\ s.status = "running" /\ s.calls = r.calls /\ s.digest = r.digest /\ s.pc = "call"
          /\ s.buf = buf /\ Op(s) = Op(r) /\ s.calls[1] = Call(p)
      <4> HIDE DEF buf
      <4>1. /\ s.status = "running" /\ s.calls = r.calls /\ s.digest = r.digest
            /\ s.pc = "call" /\ s.buf = buf
        BY <1>2, <2>1, <3>2 DEF Process
      <4> HIDE DEF r, s
      <4> QED BY <1>2, <4>1 DEF Op
    <3> DEFINE text == r.buf
    <3>4. text \in Seq(Atoms) /\ bytes = BytesOf(Call(p).input, source)
      BY <1>2, <2>1 DEF Position, Bytes, BytesOf
    <3>5. Unedited(Call(p).input, edits) => \A i \in 1..Len(text) : text[i] = bytes[i]
      BY <1>2, <2>1, <3>4 DEF ReadsTrue
    <3>6. ReadsTrue(s, source, edits)
      <4>1. ASSUME Unedited(Call(p).input, edits) PROVE \A i \in 1..Len(buf) : buf[i] = bytes[i]
        <5> HIDE DEF bytes, text
        <5>1. /\ Len(Append(text, bytes[Len(text) + 1])) = Len(text) + 1 /\ Len(text) \in Nat
              /\ \A i \in 1..Len(text) : Append(text, bytes[Len(text) + 1])[i] = text[i]
              /\ Append(text, bytes[Len(text) + 1])[Len(text) + 1] = bytes[Len(text) + 1]
          BY <3>4
        <5>2. ASSUME NEW i \in 1..(Len(text) + 1) PROVE i \in 1..Len(text) \/ i = Len(text) + 1
          BY <5>1
        <5> QED BY <3>5, <4>1, <5>1, <5>2 DEF text
      <4> HIDE DEF r, s, buf, bytes
      <4> QED BY <3>3, <3>4, <4>1 DEF ReadsTrue
    <3>7. Verified(s, source, edits)
      <4> HIDE DEF s, r, buf, bytes
      <4>1. Verified(r, source, edits)
        BY DEF r
      <4> QED BY <1>2, <1>3, <2>1, <3>3, <4>1, InsideVerified
    <3> QED BY <3>6, <3>7
  <2> QED BY <2>2, <2>3
<1>10. ASSUME StoreBlob(p) PROVE Goal
  <2> DEFINE hash == r.buf
             found == [r EXCEPT !.digest = hash]
             opened == [found EXCEPT !.pc = "open", !.buf = <<>>]
  <2>1. Op(r) = "store" /\ r.pc = "call"
    BY <1>2, <1>10 DEF StoreBlob, At
  <2>2. hash \in Digest
    BY <1>10, HashedDigest DEF StoreBlob, At
  <2>3. Verifies(c) /\ sure => hash = c.expected
    <3>1. Unedited(Call(p).input, edits) => hash = BytesOf(Call(p).input, source)
      BY <1>10, HashedTrue DEF StoreBlob, At
    <3>2. Op(r) \notin Checks
      BY <2>1 DEF Checks
    <3> HIDE DEF r
    <3> QED BY <1>4, <2>1, <3>1, <3>2
  <2>4. /\ found \in Process /\ found.script = r.script /\ found.next = r.next
        /\ found.status = "running" /\ found.calls = r.calls /\ found.digest = hash
        /\ opened.script = r.script /\ opened.next = r.next /\ opened.status = "running"
        /\ opened.calls = r.calls /\ opened.digest = hash /\ opened.pc = "open"
    <3> HIDE DEF hash
    <3> QED BY <1>2, <2>2 DEF Process
  <2>5. CASE Exists(Root(p), hash)
    <3>1. s = Returns(found, <<>>)
      BY <1>5, <1>10, <2>5 DEF StoreBlob
    <3>2. s.digest = hash /\ Returned(found, s, <<>>)
      <4> HIDE DEF found
      <4> QED BY <2>4, <3>1, ReturnsFields
    <3>3. Op(found) = "store" /\ Op(found) \notin Checks
      BY <2>1, <2>4 DEF Op, Checks
    <3>4. /\ Verifies(c) => Adds(found.calls, c)
          /\ Verifies(c) /\ sure => BytesOf(Input(c), source) = c.expected
          /\ c = found.script[found.next] /\ s.script = found.script /\ s.next = found.next
          /\ found.calls \in Seq(AllCalls) /\ found.calls # <<>>
      <4>1. Op(r) \notin Checks
        BY <2>1 DEF Checks
      <4> HIDE DEF found, r, s
      <4> QED BY <1>2, <1>3, <1>4, <2>4, <4>1 DEF c
    <3> HIDE DEF found, hash, r, s
    <3> QED BY <2>3, <2>4, <3>2, <3>3, <3>4, ReturnVerified
  <2>6. CASE ~Exists(Root(p), hash)
    <3>1. s = opened
      BY <1>5, <1>10, <2>6 DEF StoreBlob
    <3> HIDE DEF opened, found, hash, r, s
    <3>2. Op(s) = Op(r) /\ s.script[s.next] = c
      BY <2>4, <3>1 DEF Op, c
    <3>3. ReadsTrue(s, source, edits)
      BY <2>4, <3>1 DEF ReadsTrue
    <3>4. Op(s) \notin Checks /\ s.status = "running"
      BY <2>1, <2>4, <3>1, <3>2 DEF Checks
    <3>5. Verifies(c) =>
            /\ Adds(s.calls, c)
            /\ sure => BytesOf(Input(c), source) = c.expected
            /\ sure => s.digest = c.expected
      BY <1>4, <2>3, <2>4, <3>1, <3>2, <3>4
    <3>6. Verified(s, source, edits)
      BY <3>2, <3>4, <3>5 DEF Verified
    <3> QED BY <3>3, <3>6
  <2> QED BY <2>5, <2>6
<1>11. ASSUME VerifyPath(p) PROVE Goal
  <2>1. Op(r) = "verify_path" /\ Op(r) \in Checks
    BY <1>2, <1>11 DEF VerifyPath, At, Checks
  <2>2. CASE r.buf # Call(p).expected
    <3>1. s = Ends(r, "err")
      BY <1>5, <1>11, <2>2 DEF VerifyPath
    <3> QED BY <1>6, <3>1
  <2>3. CASE r.buf = Call(p).expected
    <3>1. s = Returns(r, <<>>)
      BY <1>5, <1>11, <2>3 DEF VerifyPath
    <3>2. Unedited(Call(p).input, edits) => r.buf = BytesOf(Call(p).input, source)
      BY <1>11, HashedTrue DEF VerifyPath, At
    <3>3. Verifies(c) /\ sure => BytesOf(Input(c), source) = c.expected
      <4> HIDE DEF r
      <4> QED BY <1>4, <2>1, <2>3, <3>2
    <3> HIDE DEF r, s
    <3> QED BY <1>7, <2>1, <3>1, <3>3
  <2> QED BY <2>2, <2>3
<1>12. ASSUME Fetch(p) PROVE Goal
  <2>1. Op(r) = "download" /\ Op(r) \in Checks
    BY <1>2, <1>12 DEF Fetch, At, Checks
  <2>2. CASE Call(p).body = Absent \/ Call(p).expected \notin {NoValue, Call(p).body}
    <3>1. s = Ends(r, "err")
      BY <1>5, <1>12, <2>2 DEF Fetch
    <3> QED BY <1>6, <3>1
  <2>3. CASE ~(Call(p).body = Absent \/ Call(p).expected \notin {NoValue, Call(p).body})
    <3>1. s = Returns(r, <<>>)
      BY <1>5, <1>12, <2>3 DEF Fetch
    <3>2. Verifies(c) => BytesOf(Input(c), source) = c.expected
      <4>1. NoValue \notin Digest /\ Sources \cap Digest = {}
        BY LegacyAssumption
      <4> HIDE DEF r
      <4> QED BY <1>4, <2>1, <2>3, <4>1 DEF BytesOf
    <3> HIDE DEF r, s
    <3> QED BY <1>7, <2>1, <3>1, <3>2
  <2> QED BY <2>2, <2>3
<1>13. ASSUME OpenCopy(p) PROVE Goal
  <2>1. r.pc = "open"
    BY <1>13 DEF OpenCopy, At
  <2>2. s = Ends(r, "err") \/ s = [r EXCEPT !.pc = "write", !.linked = TRUE]
    BY <1>5, <1>13 DEF OpenCopy
  <2>3. CASE s = [r EXCEPT !.pc = "write", !.linked = TRUE]
    <3>1. s.status = "running" /\ s.calls = r.calls /\ s.digest = r.digest /\ s.pc = "write"
      BY <1>2, <2>3 DEF Process
    <3> HIDE DEF r, s
    <3> QED BY <1>8, <2>1, <3>1
  <2> QED BY <1>6, <2>2, <2>3
<1>14. ASSUME CopyChunk(p) PROVE Goal
  <2>1. r.pc = "write"
    BY <1>14 DEF CopyChunk, At
  <2>2. PICK chunk : s = [r EXCEPT !.buf = Append(@, chunk)]
    BY <1>5, <1>14 DEF CopyChunk
  <2>3. s.status = "running" /\ s.calls = r.calls /\ s.digest = r.digest /\ s.pc = "write"
    BY <1>2, <2>1, <2>2 DEF Process
  <2> HIDE DEF r, s
  <2> QED BY <1>8, <2>1, <2>3
<1>15. ASSUME EndCopy(p) PROVE Goal
  <2>1. r.pc = "write" /\ Op(r) # "export_blob"
    BY <1>15 DEF EndCopy, At, Adding, Checks, Inserts
  <2>2. s = [r EXCEPT !.pc = "seal"]
    BY <1>2, <1>5, <1>15, <2>1 DEF EndCopy
  <2>3. s.status = "running" /\ s.calls = r.calls /\ s.digest = r.digest /\ s.pc = "seal"
    BY <1>2, <2>2 DEF Process
  <2> HIDE DEF r, s
  <2> QED BY <1>8, <2>1, <2>3
<1>16. ASSUME Seal(p) PROVE Goal
  <2>1. r.pc = "seal" /\ Op(r) \notin {"upload"} \cup Checks
    BY <1>2, <1>16 DEF Seal, At, Adding, Checks, Inserts
  <2>2. s = Returns(r, <<>>)
    BY <1>2, <1>5, <1>16, <2>1 DEF Seal
  <2> HIDE DEF r, s
  <2> QED BY <1>4, <1>7, <2>1, <2>2
<1>17. ASSUME Statement(p) PROVE Goal
  <2>1. Op(r) \in Inserts /\ Op(r) \notin Checks
    BY <1>2, <1>17 DEF Statement, At, Statements, Adding, Checks, Inserts
  <2>2. s = Returns(r, <<>>) \/ s = Ends(r, "err")
    BY <1>5, <1>17 DEF Statement
  <2> HIDE DEF r, s
  <2> QED BY <1>4, <1>6, <1>7, <2>1, <2>2
<1>18. ASSUME Crash(p) \/ CallFails(p) PROVE Goal
  <2>1. s = Ends(r, "crashed") \/ s = Ends(r, "fault")
    BY <1>5, <1>18 DEF Crash, CallFails
  <2> QED BY <1>6, <2>1
<1> HIDE DEF r, s, sure
<1>19. Goal
  <2> HIDE DEF Goal
  <2> QED BY <1>9, <1>10, <1>11, <1>12, <1>13, <1>14, <1>15, <1>16, <1>17, <1>18, AddingSteps
<1> QED BY <1>19 DEF s

(* The steps of the other calls.                                            *)
LEMMA OtherStepVerified ==
    ASSUME LegacyInv, NEW p \in Procs, ProcessStep(p), Op(run[p]) \notin Adding,
           Verified(run[p], source, edits), run[p].status = "running"
    PROVE  ReadsTrue(run'[p], source, edits) /\ Verified(run'[p], source, edits)
<1> DEFINE r == run[p]
           s == run'[p]
           c == r.script[r.next]
<1>1. Move(r, s)
  BY ProcessMoves
<1>2. Stage(r) /\ r \in Process
  BY Current
<1>3. r.calls \in Seq(AllCalls) /\ 1 \in 1..Len(r.calls)
  BY <1>2, HeadTyped
<1>4. ~Verifies(c)
  <2>1. Verifies(c) => Adds(r.calls, c)
    BY DEF Verified
  <2>2. Adds(r.calls, c) => Op(r) \in Adding
    BY <1>3 DEF Adds, Op, Adding
  <2> QED BY <2>1, <2>2
<1>5. s.script[s.next] = c
  BY <1>1 DEF Move
<1> HIDE DEF r, s, c
<1>6. Verified(s, source, edits)
  BY <1>4, <1>5 DEF Verified
<1>7. ReadsTrue(s, source, edits)
  <2>1. CASE s.status # "running"
    BY <2>1 DEF ReadsTrue
  <2>2. CASE Stays(r, s)
    <3>1. Op(s) = Op(r) /\ Op(r) \notin {"store", "verify_path"}
      BY <2>2 DEF Stays, Op, Adding, Checks, r
    <3> QED BY <3>1 DEF ReadsTrue
  <2>3. CASE s.buf = <<>>
    BY <2>3 DEF ReadsTrue
  <2> QED BY <1>1, <2>1, <2>2, <2>3 DEF Move, Failed, Returned
<1> QED BY <1>6, <1>7 DEF s

LEMMA StartVerified ==
    ASSUME LegacyInv, NEW p \in Procs, Start(p)
    PROVE  ReadsTrue(run'[p], source, edits) /\ Verified(run'[p], source, edits)
<1> DEFINE s == run'[p]
           c == s.script[s.next]
<1>1. /\ c \in Commands /\ s.calls = Calls(c) /\ s.pc = "call" /\ s.buf = <<>>
      /\ s.status = IF Calls(c) = <<>> THEN "ok" ELSE "running"
  BY StartMoves
<1> HIDE DEF s
<1>2. ReadsTrue(s, source, edits)
  BY <1>1 DEF ReadsTrue
<1>3. Verifies(c) => Adds(Calls(c), c) /\ Calls(c) # <<>> /\ Calls(c)[1].op \in Checks
  BY <1>1, VerifyingCalls
<1>4. Verified(s, source, edits)
  <2>1. Op(s) = Calls(c)[1].op
    BY <1>1 DEF Op
  <2>2. Verifies(c) => Op(s) \notin Inserts
    BY <1>3, <2>1 DEF Checks, Inserts
  <2> HIDE DEF c
  <2>3. Verifies(c) =>
          /\ s.status = "running" /\ s.pc = "call" /\ Adds(s.calls, c)
          /\ Op(s) \in Checks /\ Op(s) \notin Inserts
    BY <1>1, <1>3, <2>1, <2>2
  <2> QED BY <2>3 DEF Verified, c
<1> QED BY <1>2, <1>4 DEF s

LEMMA RunningStep ==
    ASSUME NEW p \in Procs, ProcessStep(p)
    PROVE  run[p].status = "running"
BY DEF ProcessStep, Step, StoreStep, HashFile, StoreBlob, VerifyPath, Fetch, OpenCopy, CopyChunk,
       EndCopy, Seal, TransferStep, ExportPackage, CopyBlobTo, Collect, WriteExportMetadata,
       ImportBlobs, ImportBlob, ImportManifest, MergeMetadata, EnsurePackage, AgentStep,
       UploadCallFails, ReadUpload, StoreBlobWithProgress, Persist, Mismatch, Register,
       CompleteUpload, MissingUpload, HandleDownload, AgentLine, Statement, Crash, CallFails, At

LEMMA VerifyInvInit == LegacyInit => VerifyInv
<1> SUFFICES ASSUME LegacyInit, NEW p \in Procs
             PROVE  ReadsTrue(run[p], source, edits) /\ Verified(run[p], source, edits)
  BY DEF VerifyInv
<1>1. run[p].status = "new"
  BY DEF LegacyInit, Idle
<1> QED BY <1>1 DEF ReadsTrue, Verified

LEMMA VerifyInvStep == LegacyInv /\ VerifyInv /\ [LegacyNext]_vars => VerifyInv'
<1> SUFFICES ASSUME LegacyInv, VerifyInv, [LegacyNext]_vars, NEW q \in Procs
             PROVE  /\ ReadsTrue(run'[q], source', edits')
                    /\ Verified(run'[q], source', edits')
  BY DEF VerifyInv
<1>1. ReadsTrue(run[q], source, edits) /\ Verified(run[q], source, edits) /\ edits \in Nat
  BY DEF VerifyInv, LegacyInv, StateOK
(* q stays where it is.                                                     *)
<1>2. ASSUME SamePlace(run[q], run'[q]), edits' \in Nat, edits' >= edits,
             edits' = 0 => source' = source
      PROVE  ReadsTrue(run'[q], source', edits') /\ Verified(run'[q], source', edits')
  BY <1>1, <1>2, VerifiedKept
<1>3. ASSUME NEW p \in Procs, ProcessStep(p) \/ Start(p)
      PROVE  ReadsTrue(run'[q], source', edits') /\ Verified(run'[q], source', edits')
  <2>1. source' = source /\ edits' = edits
    BY <1>3, SourcesStay
  <2>2. CASE p = q
    <3>1. ASSUME Start(q) PROVE ReadsTrue(run'[q], source, edits) /\ Verified(run'[q], source, edits)
      BY <3>1, StartVerified
    <3>2. ASSUME ProcessStep(q) PROVE ReadsTrue(run'[q], source, edits) /\ Verified(run'[q], source, edits)
      <4>1. run[q].status = "running"
        BY <3>2, RunningStep
      <4> QED BY <1>1, <3>2, <4>1, AddingStepVerified, OtherStepVerified
    <3>3. ReadsTrue(run'[q], source, edits) /\ Verified(run'[q], source, edits)
      BY <1>3, <2>2, <3>1, <3>2
    <3> QED BY ONLY <2>1, <3>3
  <2>3. CASE p # q
    <3>1. SamePlace(run[q], run'[q])
      <4>1. q \in Procs \ {p}
        BY <2>3
      <4>2. Start(p) => \A t \in Procs \ {p} : SamePlace(run[t], run'[t])
        BY StartMoves
      <4>3. ProcessStep(p) => \A t \in Procs \ {p} : SamePlace(run[t], run'[t])
        BY ProcessMoves
      <4> QED BY <1>3, <4>1, <4>2, <4>3
    <3>2. edits' >= edits /\ edits' \in Nat
      BY <1>1, <2>1
    <3> QED BY <1>2, <2>1, <3>1, <3>2
  <2> QED BY <2>2, <2>3
<1>4. ASSUME NEW f \in Sources, NEW k \in 1..Size, NEW chunk \in Atoms, Edit(f, k, chunk)
      PROVE  ReadsTrue(run'[q], source', edits') /\ Verified(run'[q], source', edits')
  <2>1. SamePlace(run[q], run'[q])
    BY <1>4, EditMoves
  <2>2. edits' = edits + 1
    BY <1>4 DEF Edit
  <2> QED BY <1>1, <1>2, <2>1, <2>2
<1>5. CASE UNCHANGED vars
  <2>1. SamePlace(run[q], run'[q]) /\ source' = source /\ edits' = edits
    BY <1>5 DEF vars, SamePlace
  <2>2. edits' >= edits /\ edits' \in Nat
    BY <1>1, <2>1
  <2> QED BY <1>2, <2>1, <2>2
<1> QED BY <1>3, <1>4, <1>5 DEF LegacyNext, ProcessStep

(* An add with an expected digest that reports success stored that digest,  *)
(* however many edits, failing calls and other processes there are: what is *)
(* checked is what is stored, as long as nobody edits a local file between  *)
(* the pass that verifies it and the pass that stores it.                   *)
THEOREM AnswersVerified == LegacySpec => []VerifiedAnswers
<1>1. LegacyInv /\ VerifyInv => VerifiedAnswers
  <2> SUFFICES ASSUME LegacyInv, VerifyInv, NEW p \in Procs, run[p].status = "ok"
               PROVE  LET c == Command(p)
                      IN  /\ c.cmd = "add-verified-path" => run[p].digest = c.expected \/ edits > 0
                          /\ \/ c.cmd = "fetch"
                             \/ c.cmd = "add-url" /\ ~c.unzip /\ c.expected # NoValue
                             => run[p].digest = c.expected
    BY DEF VerifiedAnswers
  <2> DEFINE c == Command(p)
  <2>1. c \in Commands /\ c = run[p].script[run[p].next]
    BY RootTyped DEF LegacyInv, ProcessOK, Command
  <2>2. Verifies(c) /\ Unedited(Input(c), edits) => run[p].digest = c.expected
    BY <2>1 DEF VerifyInv, Verified
  <2>3. edits = 0 \/ edits > 0
    BY DEF LegacyInv, StateOK
  <2>4. c.cmd \in {"fetch", "add-url"} => Unedited(Input(c), edits)
    <3>1. c.cmd \in {"fetch", "add-url"} => c.body \in Digest \cup {Absent} /\ Input(c) = c.body
      BY <2>1 DEF Commands, Urls, Input
    <3> QED BY <3>1, LegacyAssumption DEF Unedited
  <2>5. edits = 0 => Unedited(Input(c), edits)
    BY DEF Unedited
  <2> HIDE DEF c
  <2> QED BY <2>2, <2>3, <2>4, <2>5 DEF Verifies, c
<1>2. LegacySpec => []VerifyInv
  BY VerifyInvInit, VerifyInvStep, LegacyInvariant, PTL DEF LegacySpec
<1> QED BY <1>1, <1>2, LegacyInvariant, PTL

-----------------------------------------------------------------------------
(* Imports.  Only pkg-rm takes rows away, and an import makes only its own  *)
(* kinds of calls.                                                          *)

Removals == {"delete_members", "delete_package"}
ImportOnly == ImportingCalls \cup [op : {"import_blobs", "import_manifest"}]

OwnCalls(r) ==
    r.status = "running" =>
        \A i \in 1..Len(r.calls) :
            /\ r.calls[i].op \in Removals =>
                  /\ r.script[r.next].cmd = "pkg-rm"
                  /\ r.calls[i].name = r.script[r.next].name
            /\ r.script[r.next].cmd = "import" => r.calls[i] \in ImportOnly

LEMMA StartsOwnCalls ==
    ASSUME NEW c \in Commands, NEW i \in 1..Len(Calls(c))
    PROVE  /\ Calls(c)[i].op \in Removals => c.cmd = "pkg-rm" /\ Calls(c)[i].name = c.name
           /\ c.cmd = "import" => Calls(c)[i] \in ImportOnly
<1>1. CASE c.cmd = "import"
  <2>1. Calls(c) = << [op |-> "import_blobs"], [op |-> "import_manifest"] >>
    BY <1>1 DEF Calls
  <2>2. Calls(c)[i] \in [op : {"import_blobs", "import_manifest"}]
    BY <2>1
  <2> QED BY <2>2 DEF ImportOnly, Removals
<1>2. CASE c.cmd # "import" /\ Calls(c) \in Lists(CommandCalls) \cup Lists(Lines)
  <2>1. Calls(c)[i] \in CommandCalls \cup Lines
    BY <1>2 DEF Lists
  <2>2. \A d \in CommandCalls \cup Lines : d.op \notin Removals
    BY DEF CommandCalls, AddingCalls, StatementCalls, Lines, Removals
  <2> QED BY <1>2, <2>1, <2>2
<1>3. CASE c.cmd = "pkg-rm" /\ c.name \in Packages /\ Calls(c) = RemovePackage(c.name)
  BY <1>3, RemovePackageList
<1> QED BY <1>1, <1>2, <1>3, CallsTyped

LEMMA OwnCallsKept ==
    ASSUME NEW r \in Process, Stage(r), r.status = "running", NEW s, Move(r, s), OwnCalls(r)
    PROVE  OwnCalls(s)
<1>1. s.script = r.script /\ s.next = r.next
  BY DEF Move
<1>2. CASE s.status # "running"
  BY <1>2 DEF OwnCalls
<1>3. CASE Stays(r, s)
  BY <1>1, <1>3 DEF OwnCalls, Stays
<1>4. ASSUME NEW pre, Returned(r, s, pre), Replaces(Op(r), pre)
      PROVE  OwnCalls(s)
  <2> DEFINE rest == Tail(r.calls)
             c == r.script[r.next]
  <2>1. /\ r.calls \in Seq(AllCalls) /\ 1 \in 1..Len(r.calls) /\ rest \in Seq(AllCalls)
        /\ \A i \in 1..Len(rest) : rest[i] = r.calls[i + 1] /\ i + 1 \in 1..Len(r.calls)
    BY HeadTyped
  <2>2. pre \in Seq(ImportingCalls \cup ExportingCalls)
    <3>1. \A C, D : C \subseteq D => \A t \in Seq(C) : t \in Seq(D)
      OBVIOUS
    <3>2. CASE pre = <<>>
      BY <3>2
    <3>3. CASE pre \in Seq(ImportingCalls) \/ pre \in Seq(ExportingCalls)
      BY <3>1, <3>3
    <3> QED BY <1>4, <3>2, <3>3 DEF Replaces
  <2>3. \A i \in 1..Len(pre) :
           /\ pre[i].op \notin Removals
           /\ c.cmd = "import" => pre[i] \in ImportOnly
    <3> TAKE i \in 1..Len(pre)
    <3>1. pre[i] \in ImportingCalls \cup ExportingCalls
      BY <2>2
    <3>2. \A d \in ImportingCalls \cup ExportingCalls : d.op \notin Removals
      BY DEF ImportingCalls, ExportingCalls, StatementCalls, Removals
    <3>3. ASSUME c.cmd = "import" PROVE pre[i] \in ImportOnly
      <4>1. r.calls[1] \in ImportOnly
        BY <2>1, <3>3 DEF OwnCalls
      <4>2. \A d \in ImportOnly : d.op # "export"
        BY DEF ImportOnly, ImportingCalls, StatementCalls
      <4>3. pre \in Seq(ImportingCalls)
        BY <1>4, <4>1, <4>2 DEF Replaces, Op
      <4> QED BY <4>3 DEF ImportOnly
    <3> QED BY <3>1, <3>2, <3>3
  <2> HIDE DEF rest, c
  <2>4. \A i \in 1..Len(pre \o rest) :
           \/ i \in 1..Len(pre) /\ (pre \o rest)[i] = pre[i]
           \/ i - Len(pre) \in 1..Len(rest) /\ (pre \o rest)[i] = rest[i - Len(pre)]
    <3>1. \A C, D : \A t \in Seq(C), u \in Seq(D) : t \in Seq(C \cup D) /\ u \in Seq(C \cup D)
      OBVIOUS
    <3>2. PICK C : pre \in Seq(C) /\ rest \in Seq(C)
      BY <2>1, <2>2, <3>1
    <3> QED BY <3>2, Concatenation
  <2>5. ASSUME NEW i \in 1..Len(pre \o rest)
        PROVE  /\ (pre \o rest)[i].op \in Removals => c.cmd = "pkg-rm" /\ (pre \o rest)[i].name = c.name
               /\ c.cmd = "import" => (pre \o rest)[i] \in ImportOnly
    <3>1. CASE i \in 1..Len(pre) /\ (pre \o rest)[i] = pre[i]
      BY <2>3, <3>1
    <3>2. CASE i - Len(pre) \in 1..Len(rest) /\ (pre \o rest)[i] = rest[i - Len(pre)]
      <4>1. PICK j \in 1..Len(r.calls) : (pre \o rest)[i] = r.calls[j]
        BY <2>1, <3>2
      <4> QED BY <4>1 DEF OwnCalls, c
    <3> QED BY <2>4, <3>1, <3>2
  <2>6. s.calls = pre \o rest
    BY <1>4 DEF Returned, rest
  <2>7. s.script[s.next] = c
    BY <1>1 DEF c
  <2> QED BY <2>5, <2>6, <2>7 DEF OwnCalls
<1> QED BY <1>2, <1>3, <1>4 DEF Move, Failed

(* What an import brings to the part of a database with the key, what a     *)
(* database has of it, and what a manifest lists.                           *)
Brings(c, part, key) ==
    \/ c.op = "insert_blob_name" /\ part = "names" /\ key = <<c.hash, c.name>>
    \/ c.op = "add_tag" /\ part = "tags" /\ key = <<c.hash, c.tag>>
    \/ c.op \in {"merge_metadata", "set_metadata"} /\ part = "metadata" /\ key = c.hash
    \/ c.op = "add_relation" /\ part = "relations" /\ key = <<c.hash, c.target>>
    \/ c.op \in {"ensure_package", "create_package"} /\ part = "packages" /\ key = c.name
    \/ c.op = "add_blob_to_package" /\ part = "members" /\ key = <<c.name, c.hash>>
    \/ c.op = "add_blob_to_package" /\ part = "rows" /\ key = c.hash

Has(d, part, key) ==
    \/ part = "names" /\ key \in d.names
    \/ part = "tags" /\ key \in d.tags
    \/ part = "metadata" /\ key \in Ids /\ d.metadata[key] # NoValue
    \/ part = "relations" /\ key \in d.relations
    \/ part = "packages" /\ key \in d.packages
    \/ part = "members" /\ key \in d.members
    \/ part = "rows" /\ key \in d.rows

Listed(m, part, key) ==
    \/ part = "names" /\ key \in m.names
    \/ part = "tags" /\ key \in m.tags
    \/ part = "metadata" /\ key \in Ids /\ m.metadata[key] # NoValue
    \/ part = "relations" /\ key \in m.relations
    \/ part = "packages" /\ key = m.package
    \/ part = "members" /\ \E h \in m.hashes : key = <<m.package, h>>
    \/ part = "rows" /\ key \in m.hashes

(* Keys of the packages in gone.                                            *)
Gone(gone, part, key) ==
    \/ part = "packages" /\ key \in gone
    \/ part = "members" /\ key[1] \in gone

Keeps(d, e, gone) ==
    \A part, key : Has(d, part, key) => Has(e, part, key) \/ Gone(gone, part, key)

KeepsParts(d, e, gone) ==
    /\ d.rows \subseteq e.rows /\ d.names \subseteq e.names /\ d.tags \subseteq e.tags
    /\ d.relations \subseteq e.relations
    /\ \A n \in d.packages : n \in e.packages \/ n \in gone
    /\ \A x \in d.members : x \in e.members \/ x[1] \in gone
    /\ \A id \in Ids : d.metadata[id] # NoValue => e.metadata[id] # NoValue

LEMMA PartsKeep ==
    ASSUME NEW d, NEW e, NEW gone, KeepsParts(d, e, gone)
    PROVE  Keeps(d, e, gone)
BY DEF KeepsParts, Keeps, Has, Gone

LEMMA ExecuteKeeps ==
    ASSUME NEW d \in Databases, NEW gone, NEW c, c.op \in Statements,
           c.op \in Removals => c.name \in gone,
           c.op = "set_metadata" => c.hash \in Ids /\ c.value \in Values
    PROVE  Keeps(d, Execute(d, c), gone)
<1> DEFINE e == Execute(d, c)
<1> SUFFICES KeepsParts(d, e, gone)
  BY PartsKeep
<1>1. CASE c.op = "insert_blob"
  <2>1. e = [d EXCEPT !.rows = @ \cup {c.hash}]
    BY <1>1 DEF Execute, InsertBlob
  <2>2. /\ e.rows = d.rows \cup {c.hash}
        /\ e.names = d.names /\ e.tags = d.tags /\ e.relations = d.relations
        /\ e.packages = d.packages /\ e.members = d.members /\ e.metadata = d.metadata
    BY <2>1 DEF Databases
  <2> HIDE DEF e
  <2> QED BY <2>2 DEF KeepsParts
<1>2. CASE c.op = "insert_blob_name"
  <2>1. e = [d EXCEPT !.names = @ \cup {<<c.hash, c.name>>}]
    BY <1>2 DEF Execute, InsertBlobName
  <2>2. /\ e.names = d.names \cup {<<c.hash, c.name>>}
        /\ e.rows = d.rows /\ e.tags = d.tags /\ e.relations = d.relations
        /\ e.packages = d.packages /\ e.members = d.members /\ e.metadata = d.metadata
    BY <2>1 DEF Databases
  <2> HIDE DEF e
  <2> QED BY <2>2 DEF KeepsParts
<1>3. CASE c.op = "create_package"
  <2>1. e = [d EXCEPT !.packages = @ \cup {c.name}]
    BY <1>3 DEF Execute, CreatePackage
  <2>2. /\ e.packages = d.packages \cup {c.name}
        /\ e.rows = d.rows /\ e.names = d.names /\ e.tags = d.tags
        /\ e.relations = d.relations /\ e.members = d.members /\ e.metadata = d.metadata
    BY <2>1 DEF Databases
  <2> HIDE DEF e
  <2> QED BY <2>2 DEF KeepsParts
<1>4. CASE c.op = "add_blob_to_package"
  <2>1. e = [d EXCEPT !.members = @ \cup {<<c.name, c.hash>>}]
    BY <1>4 DEF Execute, AddBlobToPackage
  <2>2. /\ e.members = d.members \cup {<<c.name, c.hash>>}
        /\ e.rows = d.rows /\ e.names = d.names /\ e.tags = d.tags
        /\ e.relations = d.relations /\ e.packages = d.packages /\ e.metadata = d.metadata
    BY <2>1 DEF Databases
  <2> HIDE DEF e
  <2> QED BY <2>2 DEF KeepsParts
<1>5. CASE c.op = "add_tag"
  <2>1. e = [d EXCEPT !.tags = @ \cup {<<c.hash, c.tag>>}]
    BY <1>5 DEF Execute, AddTag
  <2>2. /\ e.tags = d.tags \cup {<<c.hash, c.tag>>}
        /\ e.rows = d.rows /\ e.names = d.names /\ e.relations = d.relations
        /\ e.packages = d.packages /\ e.members = d.members /\ e.metadata = d.metadata
    BY <2>1 DEF Databases
  <2> HIDE DEF e
  <2> QED BY <2>2 DEF KeepsParts
<1>6. CASE c.op = "add_relation"
  <2>1. e = [d EXCEPT !.relations = @ \cup {<<c.hash, c.target>>}]
    BY <1>6 DEF Execute, AddRelation
  <2>2. /\ e.relations = d.relations \cup {<<c.hash, c.target>>}
        /\ e.rows = d.rows /\ e.names = d.names /\ e.tags = d.tags
        /\ e.packages = d.packages /\ e.members = d.members /\ e.metadata = d.metadata
    BY <2>1 DEF Databases
  <2> HIDE DEF e
  <2> QED BY <2>2 DEF KeepsParts
<1>7. CASE c.op = "delete_members"
  <2>1. e = [d EXCEPT !.members = {x \in @ : x[1] # c.name}]
    BY <1>7 DEF Execute, DeleteMembers
  <2>2. /\ e.members = {x \in d.members : x[1] # c.name}
        /\ e.rows = d.rows /\ e.names = d.names /\ e.tags = d.tags
        /\ e.relations = d.relations /\ e.packages = d.packages /\ e.metadata = d.metadata
    BY <2>1 DEF Databases
  <2>3. c.name \in gone
    BY <1>7 DEF Removals
  <2>4. \A x \in d.members : x \in e.members \/ x[1] \in gone
    BY <2>2, <2>3
  <2> HIDE DEF e
  <2> QED BY <2>2, <2>4 DEF KeepsParts
<1>8. CASE c.op = "delete_package"
  <2>1. e = [d EXCEPT !.packages = @ \ {c.name}]
    BY <1>8 DEF Execute, DeletePackage
  <2>2. /\ e.packages = d.packages \ {c.name}
        /\ e.rows = d.rows /\ e.names = d.names /\ e.tags = d.tags
        /\ e.relations = d.relations /\ e.members = d.members /\ e.metadata = d.metadata
    BY <2>1 DEF Databases
  <2>3. c.name \in gone
    BY <1>8 DEF Removals
  <2> HIDE DEF e
  <2> QED BY <2>2, <2>3 DEF KeepsParts
<1>9. CASE c.op = "set_metadata"
  <2>1. e = [d EXCEPT !.metadata = [@ EXCEPT ![c.hash] = c.value]]
    BY <1>9 DEF Execute, SetMetadata
  <2>2. /\ e.metadata = [d.metadata EXCEPT ![c.hash] = c.value]
        /\ e.rows = d.rows /\ e.names = d.names /\ e.tags = d.tags
        /\ e.relations = d.relations /\ e.packages = d.packages /\ e.members = d.members
    BY <2>1 DEF Databases
  <2>3. c.value # NoValue /\ d.metadata \in Metadata
    BY <1>9, LegacyAssumption DEF Databases
  <2>4. \A id \in Ids : d.metadata[id] # NoValue => e.metadata[id] # NoValue
    BY <2>2, <2>3 DEF Metadata
  <2> HIDE DEF e
  <2> QED BY <2>2, <2>4 DEF KeepsParts
<1> HIDE DEF e
<1> QED BY <1>1, <1>2, <1>3, <1>4, <1>5, <1>6, <1>7, <1>8, <1>9 DEF Statements

(* A statement that is not refused brings what it is for; the row of a      *)
(* member was there, for the foreign keys hold.                             *)
LEMMA ExecuteBrings ==
    ASSUME NEW d \in Databases, NEW c, c.op \in Statements, ForeignKeys(Execute(d, c)),
           c.op = "set_metadata" => c.hash \in Ids /\ c.value \in Values,
           NEW part, NEW key, Brings(c, part, key)
    PROVE  Has(Execute(d, c), part, key)
<1> DEFINE e == Execute(d, c)
<1>1. CASE c.op = "insert_blob_name"
  BY <1>1 DEF Execute, InsertBlobName, Databases, Brings, Has
<1>2. CASE c.op = "add_tag"
  BY <1>2 DEF Execute, AddTag, Databases, Brings, Has
<1>3. CASE c.op = "set_metadata"
  <2>1. e = [d EXCEPT !.metadata = [@ EXCEPT ![c.hash] = c.value]]
    BY <1>3 DEF Execute, SetMetadata
  <2>2. e.metadata = [d.metadata EXCEPT ![c.hash] = c.value] /\ d.metadata \in Metadata
    BY <2>1 DEF Databases
  <2>3. c.value # NoValue /\ c.hash \in Ids
    BY <1>3, LegacyAssumption
  <2>4. e.metadata[c.hash] # NoValue
    BY <2>2, <2>3 DEF Metadata
  <2>5. part = "metadata" /\ key = c.hash
    BY <1>3 DEF Brings
  <2> HIDE DEF e
  <2>6. Has(e, part, key)
    BY <2>3, <2>4, <2>5 DEF Has
  <2> QED BY <2>6 DEF e
<1>4. CASE c.op = "add_relation"
  BY <1>4 DEF Execute, AddRelation, Databases, Brings, Has
<1>5. CASE c.op = "create_package"
  BY <1>5 DEF Execute, CreatePackage, Databases, Brings, Has
<1>6. CASE c.op = "add_blob_to_package"
  <2>1. e = [d EXCEPT !.members = @ \cup {<<c.name, c.hash>>}]
    BY <1>6 DEF Execute, AddBlobToPackage
  <2>2. <<c.name, c.hash>> \in e.members
    BY <2>1 DEF Databases
  <2>3. c.hash \in e.rows
    <3>1. ForeignKeys(e) /\ <<c.name, c.hash>>[2] = c.hash
      OBVIOUS
    <3> HIDE DEF e
    <3> QED BY <2>2, <3>1 DEF ForeignKeys
  <2>4. \/ part = "members" /\ key = <<c.name, c.hash>>
        \/ part = "rows" /\ key = c.hash
    <3> HIDE DEF e
    <3>1. Brings(c, part, key) /\ c.op = "add_blob_to_package"
      BY <1>6
    <3> QED BY <3>1 DEF Brings
  <2> HIDE DEF e
  <2>5. Has(e, part, key)
    BY <2>2, <2>3, <2>4 DEF Has
  <2> QED BY <2>5 DEF e
<1> QED BY <1>1, <1>2, <1>3, <1>4, <1>5, <1>6 DEF Brings, Statements

(* The calls of an import bring all its manifest lists.                     *)
Pending(s, part, key) == \E i \in 1..Len(s) : Brings(s[i], part, key)

LEMMA ImportCallsBring ==
    ASSUME NEW m \in Manifests, NEW part, NEW key, Listed(m, part, key)
    PROVE  Pending(ImportCalls(m), part, key)
<1>1. /\ m.names \in SUBSET (Digest \X Names) /\ m.tags \in SUBSET (Ids \X Tags)
      /\ m.relations \in SUBSET (Digest \X Digest)
  BY DEF Manifests
<1>2. \E c \in ManifestCalls(m) : Brings(c, part, key)
  <2>1. CASE part = "names" /\ key \in m.names
    <3> DEFINE c == [op |-> "insert_blob_name", hash |-> key[1], name |-> key[2]]
    <3>1. c \in ManifestCalls(m)
      BY <2>1 DEF ManifestCalls
    <3>2. key = <<key[1], key[2]>>
      BY <1>1, <2>1
    <3>3. Brings(c, part, key)
      BY <2>1, <3>2 DEF Brings
    <3> QED BY <3>1, <3>3
  <2>2. CASE part = "tags" /\ key \in m.tags
    <3> DEFINE c == [op |-> "add_tag", hash |-> key[1], tag |-> key[2]]
    <3>1. c \in ManifestCalls(m)
      BY <2>2 DEF ManifestCalls
    <3>2. key = <<key[1], key[2]>>
      BY <1>1, <2>2
    <3>3. Brings(c, part, key)
      BY <2>2, <3>2 DEF Brings
    <3> QED BY <3>1, <3>3
  <2>3. CASE part = "metadata" /\ key \in Ids /\ m.metadata[key] # NoValue
    <3> DEFINE c == [op |-> "merge_metadata", hash |-> key, value |-> m.metadata[key]]
    <3>1. c \in ManifestCalls(m)
      BY <2>3 DEF ManifestCalls
    <3>2. Brings(c, part, key)
      BY <2>3 DEF Brings
    <3> QED BY <3>1, <3>2
  <2>4. CASE part = "relations" /\ key \in m.relations
    <3> DEFINE c == [op |-> "add_relation", hash |-> key[1], target |-> key[2]]
    <3>1. c \in ManifestCalls(m)
      BY <2>4 DEF ManifestCalls
    <3>2. key = <<key[1], key[2]>>
      BY <1>1, <2>4
    <3>3. Brings(c, part, key)
      BY <2>4, <3>2 DEF Brings
    <3> QED BY <3>1, <3>3
  <2>5. CASE part = "packages" /\ key = m.package
    <3> DEFINE c == [op |-> "ensure_package", name |-> m.package]
    <3>1. c \in ManifestCalls(m)
      BY DEF ManifestCalls
    <3>2. Brings(c, part, key)
      BY <2>5 DEF Brings
    <3> QED BY <3>1, <3>2
  <2>6. ASSUME NEW h \in m.hashes,
               \/ part = "members" /\ key = <<m.package, h>>
               \/ part = "rows" /\ key = h
        PROVE  \E c \in ManifestCalls(m) : Brings(c, part, key)
    <3> DEFINE c == [op |-> "add_blob_to_package", name |-> m.package, hash |-> h]
    <3>1. c \in ManifestCalls(m)
      BY DEF ManifestCalls
    <3>2. c.op = "add_blob_to_package" /\ c.name = m.package /\ c.hash = h
      OBVIOUS
    <3> HIDE DEF c
    <3>3. Brings(c, part, key)
      BY <2>6, <3>2 DEF Brings
    <3> QED BY <3>1, <3>3
  <2>7. CASE part = "members" /\ (\E h \in m.hashes : key = <<m.package, h>>)
    BY <2>6, <2>7
  <2>8. CASE part = "rows" /\ key \in m.hashes
    BY <2>6, <2>8
  <2> QED BY <2>1, <2>2, <2>3, <2>4, <2>5, <2>7, <2>8 DEF Listed
<1> QED BY <1>2, ImportCallsPlain DEF Member, Pending

(* The packages some command removes: they do not change.                   *)
Removable == {n \in Packages : Removes(n)}

LEMMA RemovableKept ==
    ASSUME \A q \in Procs : run'[q].script = run[q].script
    PROVE  Removable' = Removable
BY DEF Removable, Removes

LEMMA NothingLost == \A d, gone : Keeps(d, d, gone)
BY DEF Keeps

LEMMA RowAdded ==
    ASSUME NEW d \in Databases, NEW c, NEW gone
    PROVE  Keeps(d, InsertBlob(d, c), gone)
<1> DEFINE e == InsertBlob(d, c)
<1>1. e = [d EXCEPT !.rows = @ \cup {c.hash}]
  BY DEF InsertBlob
<1>2. /\ e.rows = d.rows \cup {c.hash} /\ e.names = d.names /\ e.tags = d.tags
      /\ e.relations = d.relations /\ e.packages = d.packages /\ e.members = d.members
      /\ e.metadata = d.metadata
  BY <1>1 DEF Databases
<1> HIDE DEF e
<1>3. KeepsParts(d, e, gone)
  BY <1>2 DEF KeepsParts
<1> QED BY <1>3, PartsKeep DEF e

(* The steps that change a database.                                        *)
LEMMA DatabaseSteps ==
    ASSUME NEW p \in Procs, ProcessStep(p)
    PROVE  Statement(p) \/ Register(p) \/ db' = db
<1>1. ASSUME StoreStep(p) PROVE db' = db
  BY <1>1 DEF StoreStep, HashFile, StoreBlob, VerifyPath, Fetch, OpenCopy, CopyChunk, EndCopy,
              Seal, ReadsOnly, KeepsRest
<1>2. ASSUME TransferStep(p) PROVE db' = db
  BY <1>2 DEF TransferStep, ExportPackage, CopyBlobTo, Collect, WriteExportMetadata, ImportBlobs,
              ImportBlob, ImportManifest, MergeMetadata, EnsurePackage, ReadsOnly
<1>3. ASSUME AgentStep(p) \/ UploadCallFails(p), ~Register(p) PROVE db' = db
  BY <1>3 DEF AgentStep, UploadCallFails, UploadFails, ReadUpload, StoreBlobWithProgress, Persist,
              Mismatch, CompleteUpload, MissingUpload, HandleDownload, AgentLine,
              ReadsOnly, KeepsRest
<1>4. ASSUME Crash(p) \/ CallFails(p) PROVE db' = db
  BY <1>4 DEF Crash, CallFails
<1> QED BY <1>1, <1>2, <1>3, <1>4 DEF ProcessStep, Step

(* A statement is executed as it is written, unless it is about the blob    *)
(* stored last.                                                             *)
LEMMA AsWritten ==
    ASSUME NEW p \in Procs, "hash" \in DOMAIN Call(p) => Call(p).hash # Added
    PROVE  Resolved(p) = Call(p)
BY DEF Resolved

(* Only a pkg-rm loses anything, and only its package.                      *)
LEMMA StepKeeps ==
    ASSUME LegacyInv, NEW p \in Procs, ProcessStep(p), OwnCalls(run[p]), NEW x \in Roots, NEW gone,
           Command(p).cmd = "pkg-rm" => Command(p).name \in gone
    PROVE  Keeps(db[x], db'[x], gone)
<1> DEFINE r == run[p]
           d == db[Root(p)]
           c == Resolved(p)
<1>1. /\ r.status = "running" /\ Root(p) \in Roots /\ db \in [Roots -> Databases]
      /\ Stage(r) /\ r \in Process /\ Call(p) = r.calls[1] /\ Call(p).op = Op(r)
      /\ Command(p) \in Commands
  BY RunningStep, Current DEF LegacyInv, StateOK
<1>2. ASSUME NEW e, db' = [db EXCEPT ![Root(p)] = e], Keeps(d, e, gone)
      PROVE  Keeps(db[x], db'[x], gone)
  <2>1. CASE x = Root(p)
    BY <1>1, <1>2, <2>1
  <2>2. CASE x # Root(p)
    <3>1. db'[x] = db[x]
      BY <1>1, <1>2, <2>2
    <3> QED BY <3>1, NothingLost
  <2> QED BY <2>1, <2>2
<1>3. CASE db' = db
  BY <1>3, NothingLost
<1>4. CASE Register(p)
  <2>1. db' = [db EXCEPT ![Root(p)] = InsertBlob(d, [hash |-> r.digest])]
    BY <1>4 DEF Register
  <2>2. d \in Databases
    BY <1>1
  <2> HIDE DEF d
  <2>3. Keeps(d, InsertBlob(d, [hash |-> r.digest]), gone)
    BY <2>2, RowAdded
  <2> QED BY <1>2, <2>1, <2>3
<1>5. CASE Statement(p) /\ db' # db
  <2>1. db' = [db EXCEPT ![Root(p)] = Execute(d, c)] /\ Call(p).op \in Statements
    BY <1>5 DEF Statement, At
  <2>2. /\ c.op \in Statements
        /\ c.op = "set_metadata" => c.hash \in Ids /\ c.value \in Values
        /\ c.op \in {"delete_members", "delete_package"} => c.name \in Packages
    BY <1>1, <2>1, ResolvedShape
  <2>3. c.op \in Removals => c.name \in gone
    <3>1. SUFFICES ASSUME c.op \in Removals PROVE c.name \in gone
      OBVIOUS
    <3>2. c.op = Call(p).op
      <4>1. Call(p) \in StatementCalls \cup RemovingCalls
        BY <1>1, <2>1, Current, CallShape
      <4> QED BY <4>1 DEF Resolved, StatementCalls, RemovingCalls
    <3>3. Call(p) \in RemovingCalls
      <4>1. Call(p) \in StatementCalls \cup RemovingCalls
        BY <1>1, <2>1, Current, CallShape
      <4> QED BY <3>1, <3>2, <4>1 DEF StatementCalls, RemovingCalls, Removals
    <3>4. c = Call(p)
      <4>1. "hash" \notin DOMAIN Call(p)
        BY <3>3 DEF RemovingCalls
      <4> QED BY <4>1, AsWritten
    <3>5. 1 \in 1..Len(r.calls)
      BY <1>1, HeadTyped
    <3>6. r.script[r.next].cmd = "pkg-rm" /\ c.name = r.script[r.next].name
      BY <1>1, <3>1, <3>4, <3>5 DEF OwnCalls
    <3> QED BY <3>6 DEF Command
  <2>4. d \in Databases
    BY <1>1
  <2> HIDE DEF c, d
  <2>5. Keeps(d, Execute(d, c), gone)
    BY <2>2, <2>3, <2>4, ExecuteKeeps
  <2> QED BY <1>2, <2>1, <2>5
<1> QED BY <1>3, <1>4, <1>5, DatabaseSteps

LEMMA DatabaseKept ==
    ASSUME LegacyInv, NEW p \in Procs, ProcessStep(p), OwnCalls(run[p]), NEW x \in Roots
    PROVE  Keeps(db[x], db'[x], Removable)
<1>1. ASSUME Command(p).cmd = "pkg-rm" PROVE Command(p).name \in Removable
  <2>1. /\ run[p].next \in DOMAIN run[p].script /\ Command(p) \in Commands
        /\ Command(p) = run[p].script[run[p].next]
    BY RunningStep, Current DEF Stage, Process, Command
  <2>2. Command(p).name \in Packages
    BY <1>1, <2>1 DEF Commands, Urls
  <2> QED BY <1>1, <2>1, <2>2 DEF Removes, Removable
<1> QED BY <1>1, StepKeeps

-----------------------------------------------------------------------------
(* What an import has brought, and what it has left to bring.               *)

ImportKept(r, d, gone) ==
    /\ r.status \in {"running", "ok"} /\ r.script[r.next].cmd = "import"
    /\ r.manifest # NoManifest
    => \A part, key : Listed(r.manifest, part, key) =>
          \/ Has(d, part, key) \/ Gone(gone, part, key) \/ Pending(r.calls, part, key)

ImportInv ==
    \A p \in Procs :
        /\ OwnCalls(run[p])
        /\ ImportKept(run[p], db[RootOf(run[p])], Removable)

Bringing ==
    {"insert_blob_name", "add_tag", "merge_metadata", "set_metadata", "add_relation",
     "ensure_package", "create_package", "add_blob_to_package"}

(* The steps of a call that brings something.                               *)
LEMMA BringingSteps ==
    ASSUME LegacyInv, NEW p \in Procs, ProcessStep(p), Op(run[p]) \in Bringing
    PROVE  Statement(p) \/ MergeMetadata(p) \/ EnsurePackage(p) \/ Crash(p) \/ CallFails(p)
<1>1. Call(p).op \in Bringing
  BY RunningStep, Current
<1>2. ~StoreStep(p)
  BY <1>1 DEF StoreStep, HashFile, StoreBlob, VerifyPath, Fetch, OpenCopy, CopyChunk, EndCopy,
              Seal, At, Copies, Bringing
<1>3. ~AgentStep(p) /\ ~UploadCallFails(p)
  BY <1>1 DEF AgentStep, UploadCallFails, ReadUpload, StoreBlobWithProgress, Persist, Mismatch,
     Register, CompleteUpload, MissingUpload, HandleDownload, AgentLine, At, Bringing
<1>4. TransferStep(p) => MergeMetadata(p) \/ EnsurePackage(p)
  BY <1>1 DEF TransferStep, ExportPackage, CopyBlobTo, Collect, WriteExportMetadata, ImportBlobs,
     ImportBlob, ImportManifest, At, Bringing
<1> QED BY <1>2, <1>3, <1>4 DEF ProcessStep, Step

(* The first of two lists of calls is pending in their concatenation.       *)
LEMMA PendingFirst ==
    ASSUME NEW C, NEW a \in Seq(C), NEW b \in Seq(C), NEW part, NEW key,
           Pending(a, part, key) \/ Pending(b, part, key)
    PROVE  Pending(a \o b, part, key)
<1>1. /\ Len(a \o b) = Len(a) + Len(b) /\ Len(a) \in Nat /\ Len(b) \in Nat
      /\ \A i \in 1..Len(a) : (a \o b)[i] = a[i]
      /\ \A i \in 1..Len(b) : (a \o b)[Len(a) + i] = b[i]
  BY Concatenation
<1>2. /\ \A i \in 1..Len(a) : i \in 1..(Len(a) + Len(b))
      /\ \A i \in 1..Len(b) : Len(a) + i \in 1..(Len(a) + Len(b))
  BY <1>1
<1> QED BY <1>1, <1>2 DEF Pending

(* A statement that brings what a manifest lists is executed as written.    *)
LEMMA ListedCall ==
    ASSUME NEW p \in Procs, Call(p) \in AllCalls, Call(p).op \in Statements,
           NEW m \in Manifests, NEW part, NEW key, Listed(m, part, key), Brings(Call(p), part, key)
    PROVE  Resolved(p) = Call(p)
<1> DEFINE c == Call(p)
<1>0. c.op \in Bringing
  BY DEF Brings, Bringing
<1>1. Added \notin Digest /\ Added \notin Ids /\ Digest \subseteq Ids
  BY LegacyAssumption DEF Ids
<1>2. /\ m.names \in SUBSET (Digest \X Names) /\ m.tags \in SUBSET (Ids \X Tags)
      /\ m.relations \in SUBSET (Digest \X Digest) /\ m.hashes \in SUBSET Digest
  BY DEF Manifests
<1>3. /\ part = "names" => key[1] \in Digest
      /\ part = "tags" => key[1] \in Ids
      /\ part = "metadata" => key \in Ids
      /\ part = "relations" => key[1] \in Digest
  BY <1>2 DEF Listed
<1>4. c \in StatementCalls \cup RemovingCalls
  BY CallShape
<1>5. "hash" \in DOMAIN c => c.hash # Added
  <2>0. Brings(c, part, key)
    OBVIOUS
  <2> HIDE DEF c
  <2>1. /\ c.op = "insert_blob_name" => key[1] = c.hash /\ part = "names"
        /\ c.op = "add_tag" => key[1] = c.hash /\ part = "tags"
        /\ c.op = "set_metadata" => key = c.hash /\ part = "metadata"
        /\ c.op = "add_relation" => key[1] = c.hash /\ part = "relations"
    BY <2>0 DEF Brings
  <2>2. c.op \in {"insert_blob_name", "add_tag", "set_metadata", "add_relation"} => c.hash # Added
    BY <1>1, <1>3, <2>1
  <2>3. c.op = "add_blob_to_package" => c.hash # Added
    BY <1>1, <1>4 DEF StatementCalls, RemovingCalls
  <2>4. "hash" \in DOMAIN c /\ c.op \in Bringing
        => c.op \in {"insert_blob_name", "add_tag", "set_metadata", "add_relation", "add_blob_to_package"}
    BY <1>4 DEF StatementCalls, RemovingCalls, Bringing
  <2> QED BY <1>0, <2>2, <2>3, <2>4
<1> QED BY <1>5, AsWritten

(* What the call at the head brings is there when it returns, or left to a  *)
(* call it puts in its place.                                               *)
LEMMA HeadDone ==
    ASSUME LegacyInv, NEW p \in Procs, ProcessStep(p), ~Failed(run'[p]),
           NEW m \in Manifests, NEW part, NEW key, Listed(m, part, key),
           Brings(Call(p), part, key), NEW pre, Returned(run[p], run'[p], pre)
    PROVE  \/ Has(db'[Root(p)], part, key)
           \/ Pending(run'[p].calls, part, key)
<1> DEFINE r == run[p]
           s == run'[p]
           d == db[Root(p)]
           c == Call(p)
<1>1. /\ r.status = "running" /\ Root(p) \in Roots /\ db \in [Roots -> Databases]
      /\ r \in Process /\ c \in AllCalls /\ c.op = Op(r) /\ d \in Databases
      /\ Tail(r.calls) \in Seq(AllCalls)
  BY RunningStep, Current, HeadTyped DEF LegacyInv, StateOK
<1>2. c.op \in Bringing
  BY DEF Brings, Bringing
<1>3. \A t : Goes(p, t) => s = t
  BY GoesTo
(* A call made in its place brings it.                                      *)
<1>4. ASSUME NEW b, Brings(b, part, key), s = Returns(r, <<b>>)
      PROVE  Pending(s.calls, part, key)
  <2>1. s.calls = <<b>> \o Tail(r.calls)
    BY <1>1, <1>4, ReturnsFields DEF Returned
  <2>2. \A x \in Seq(AllCalls) : Len(<<b>> \o x) \in Nat /\ Len(<<b>> \o x) >= 1 /\ (<<b>> \o x)[1] = b
    <3> TAKE x \in Seq(AllCalls)
    <3>1. <<b>> \in Seq(AllCalls \cup {b}) /\ x \in Seq(AllCalls \cup {b})
      OBVIOUS
    <3> HIDE DEF c, d, r, s
    <3> QED BY <3>1
  <2>3. 1 \in 1..Len(s.calls) /\ s.calls[1] = b
    BY <1>1, <2>1, <2>2
  <2> QED BY <1>4, <2>3 DEF Pending
<1>5. CASE Crash(p) \/ CallFails(p)
  <2>1. s = Ends(r, "crashed") \/ s = Ends(r, "fault")
    BY <1>3, <1>5 DEF Crash, CallFails
  <2> QED BY <1>1, <2>1, EndsFields DEF Failed
<1>6. CASE MergeMetadata(p)
  <2> DEFINE b == [op |-> "set_metadata", hash |-> c.hash, value |-> c.value]
  <2>1. c.op = "merge_metadata" /\ db' = db
    BY <1>6 DEF MergeMetadata, At, ReadsOnly
  <2>2. part = "metadata" /\ key = c.hash /\ key \in Ids
    BY <1>1, <2>1, CallShape DEF Brings
  <2>3. CASE d.metadata[c.hash] = NoValue
    <3>1. BlobMetadata(c.hash, c.value) = <<b>>
      BY DEF BlobMetadata
    <3>2. s = Returns(r, BlobMetadata(c.hash, c.value))
      BY <1>3, <1>6, <2>3 DEF MergeMetadata
    <3>3. Brings(b, part, key)
      BY <2>2 DEF Brings
    <3> HIDE DEF b
    <3> QED BY <1>4, <3>1, <3>2, <3>3
  <2>4. CASE d.metadata[c.hash] # NoValue
    BY <2>1, <2>2, <2>4 DEF Has
  <2> QED BY <2>3, <2>4
<1>7. CASE EnsurePackage(p)
  <2> DEFINE b == [op |-> "create_package", name |-> c.name]
  <2>1. c.op = "ensure_package" /\ db' = db
    BY <1>7 DEF EnsurePackage, At, ReadsOnly
  <2>2. part = "packages" /\ key = c.name
    BY <2>1 DEF Brings
  <2>3. CASE ~PackageExists(d, c.name)
    <3>1. s = Returns(r, <<b>>)
      BY <1>3, <1>7, <2>3 DEF EnsurePackage
    <3>2. Brings(b, part, key)
      BY <2>2 DEF Brings
    <3> HIDE DEF b
    <3> QED BY <1>4, <3>1, <3>2
  <2>4. CASE PackageExists(d, c.name)
    BY <2>1, <2>2, <2>4 DEF Has, PackageExists
  <2> QED BY <2>3, <2>4
<1>8. CASE Statement(p)
  <2>1. c.op \in Statements
    BY <1>8 DEF Statement, At
  <2>2. ~Rejected(d, Resolved(p))
    <3>1. SUFFICES ASSUME Rejected(d, Resolved(p)) PROVE FALSE
      OBVIOUS
    <3>2. s = Ends(r, "err")
      BY <1>3, <1>8, <3>1 DEF Statement
    <3> QED BY <1>1, <3>2, EndsFields DEF Failed
  <2>3. db'[Root(p)] = Execute(d, Resolved(p))
    BY <1>1, <1>8, <2>2 DEF Statement
  <2>4. ForeignKeys(Execute(d, Resolved(p)))
    BY <2>2 DEF Rejected
  <2>5. Resolved(p) = c
    BY <1>1, <2>1, ListedCall
  <2>6. c.op = "set_metadata" => c.hash \in Ids /\ c.value \in Values
    BY <1>1, <2>1, <2>5, ResolvedShape
  <2> HIDE DEF c, d
  <2>7. Brings(c, part, key)
    BY DEF c
  <2>8. Has(Execute(d, c), part, key)
    BY <1>1, <2>1, <2>4, <2>5, <2>6, <2>7, ExecuteBrings
  <2> QED BY <2>3, <2>5, <2>8
<1> QED BY <1>1, <1>2, <1>5, <1>6, <1>7, <1>8, BringingSteps

(* The step of a process that imports.                                      *)
LEMMA ImportStepKept ==
    ASSUME LegacyInv, NEW p \in Procs, ProcessStep(p), OwnCalls(run[p]), NEW gone,
           Keeps(db[Root(p)], db'[Root(p)], gone),
           ImportKept(run[p], db[RootOf(run[p])], gone)
    PROVE  ImportKept(run'[p], db'[RootOf(run'[p])], gone)
<1> DEFINE r == run[p]
           s == run'[p]
           d == db[Root(p)]
           e == db'[Root(p)]
<1>1. /\ r.status = "running" /\ Root(p) \in Roots /\ Root(p) = RootOf(r)
      /\ r \in Process /\ Stage(r) /\ Call(p) = r.calls[1] /\ Call(p).op = Op(r)
  BY RunningStep, Current
<1>2. Move(r, s)
  BY ProcessMoves
<1>3. RootOf(s) = Root(p) /\ s.script = r.script /\ s.next = r.next
  BY <1>1, <1>2 DEF Move, RootOf
<1>4. Keeps(d, e, gone)
  OBVIOUS
<1>5. /\ r.calls \in Seq(AllCalls) /\ 1 \in 1..Len(r.calls) /\ Tail(r.calls) \in Seq(AllCalls)
      /\ Len(r.calls) \in Nat /\ Len(Tail(r.calls)) = Len(r.calls) - 1
      /\ \A i \in 1..Len(Tail(r.calls)) : Tail(r.calls)[i] = r.calls[i + 1]
  BY <1>1, HeadTyped
<1> SUFFICES ASSUME s.status \in {"running", "ok"}, s.script[s.next].cmd = "import",
                    s.manifest # NoManifest,
                    NEW part, NEW key, Listed(s.manifest, part, key)
             PROVE  \/ Has(e, part, key) \/ Gone(gone, part, key)
                    \/ Pending(s.calls, part, key)
  BY <1>3 DEF ImportKept
<1>6. Call(p) \in ImportOnly /\ ~Failed(s)
  <2>1. Call(p) \in ImportOnly
    BY <1>1, <1>3, <1>5 DEF OwnCalls
  <2> QED BY <2>1 DEF Failed
<1>7. Op(r) # "terminate" /\ (Op(r) \in Recording => Op(r) = "import_manifest")
  BY <1>1, <1>6 DEF ImportOnly, ImportingCalls, StatementCalls, Recording
(* What r had listed is there, and what was there is kept.                  *)
<1>8. ASSUME s.manifest = r.manifest
      PROVE  \/ Has(e, part, key) \/ Gone(gone, part, key) \/ Pending(r.calls, part, key)
  <2>1. \/ Has(d, part, key) \/ Gone(gone, part, key) \/ Pending(r.calls, part, key)
    BY <1>1, <1>3, <1>8 DEF ImportKept
  <2> QED BY <1>4, <2>1 DEF Keeps
<1>9. CASE Stays(r, s)
  BY <1>8, <1>9 DEF Stays
<1>10. ASSUME NEW pre, Returned(r, s, pre), Replaces(Op(r), pre), s.manifest = r.manifest
       PROVE  \/ Has(e, part, key) \/ Gone(gone, part, key) \/ Pending(s.calls, part, key)
  <2>1. s.calls = pre \o Tail(r.calls)
    BY <1>10 DEF Returned
  <2>2. s.manifest \in Manifests
    BY <1>1, <1>10 DEF Process
  <2>3. ASSUME Brings(r.calls[1], part, key)
        PROVE  Has(e, part, key) \/ Pending(s.calls, part, key)
    BY <1>1, <1>6, <1>10, <2>2, <2>3, HeadDone
  <2>4. ASSUME NEW i \in 1..Len(r.calls), Brings(r.calls[i], part, key), i # 1
        PROVE  Pending(s.calls, part, key)
    <3>1. PICK k \in 1..Len(Tail(r.calls)) : k + 1 = i
      <4>1. i - 1 \in 1..Len(Tail(r.calls)) /\ (i - 1) + 1 = i
        BY <1>5, <2>4
      <4> QED BY <4>1
    <3>2. Pending(Tail(r.calls), part, key)
      BY <1>5, <2>4, <3>1 DEF Pending
    <3>3. \E C : pre \in Seq(C) /\ Tail(r.calls) \in Seq(C)
      <4>1. \A C, D : \A t \in Seq(C), u \in Seq(D) : t \in Seq(C \cup D) /\ u \in Seq(C \cup D)
        OBVIOUS
      <4>2. \E C : pre \in Seq(C)
        <5>1. <<>> \in Seq({})
          OBVIOUS
        <5> QED BY <1>10, <5>1 DEF Replaces
      <4> HIDE DEF r
      <4> QED BY <1>5, <4>1, <4>2
    <3> QED BY <2>1, <3>2, <3>3, PendingFirst
  <2>5. Pending(r.calls, part, key) => Has(e, part, key) \/ Pending(s.calls, part, key)
    BY <2>3, <2>4 DEF Pending
  <2> QED BY <1>8, <1>10, <2>5
<1>11. ASSUME NEW pre, Returned(r, s, pre), s.manifest # r.manifest
       PROVE  Pending(s.calls, part, key)
  <2>1. Call(p).op = "import_manifest"
    BY <1>1, <1>2, <1>7, <1>11 DEF Move
  <2>2. ImportManifest(p)
    <3>1. ~StoreStep(p) /\ ~Statement(p)
      BY <2>1 DEF StoreStep, HashFile, StoreBlob, VerifyPath, Fetch, OpenCopy, CopyChunk, EndCopy,
                  Seal, Statement, At, Copies, Statements
    <3>2. ~AgentStep(p) /\ ~UploadCallFails(p)
      BY <2>1 DEF AgentStep, UploadCallFails, ReadUpload, StoreBlobWithProgress, Persist, Mismatch,
         Register, CompleteUpload, MissingUpload, HandleDownload, AgentLine, At
    <3>3. TransferStep(p) => ImportManifest(p)
      BY <2>1 DEF TransferStep, ExportPackage, CopyBlobTo, Collect, WriteExportMetadata,
         ImportBlobs, ImportBlob, MergeMetadata, EnsurePackage, At
    <3>4. ~Crash(p) /\ ~CallFails(p)
      <4>1. SUFFICES ASSUME Crash(p) \/ CallFails(p) PROVE FALSE
        OBVIOUS
      <4>2. Goes(p, Ends(r, "crashed")) \/ Goes(p, Ends(r, "fault"))
        BY <4>1 DEF Crash, CallFails
      <4>3. s.manifest = r.manifest
        BY <1>1, <4>2, GoesTo, EndsFields
      <4> QED BY <1>11, <4>3
    <3> QED BY <3>1, <3>2, <3>3, <3>4 DEF ProcessStep, Step
  <2>3. /\ manifest \in Manifests
        /\ s = Returns([r EXCEPT !.manifest = manifest], ImportCalls(manifest))
    <3>1. \/ s = Returns(r, <<>>) \/ s = Ends(r, "err")
          \/ /\ manifest \in Manifests
             /\ s = Returns([r EXCEPT !.manifest = manifest], ImportCalls(manifest))
      BY <2>2, GoesTo DEF ImportManifest, LegacyInv, StateOK
    <3>2. Returns(r, <<>>).manifest = r.manifest /\ Ends(r, "err").manifest = r.manifest
      BY <1>1, ReturnsFields, EndsFields
    <3> QED BY <1>11, <3>1, <3>2
  <2> DEFINE t == [r EXCEPT !.manifest = manifest]
  <2>4. t \in Process /\ t.manifest = manifest /\ t.calls = r.calls
    BY <1>1, <2>3 DEF Process
  <2>5. s.manifest = manifest /\ s.calls = ImportCalls(manifest) \o Tail(r.calls)
    <3> HIDE DEF t
    <3>1. s = Returns(t, ImportCalls(manifest))
      BY <2>3 DEF t
    <3> DEFINE brought == ImportCalls(manifest)
    <3> HIDE DEF brought
    <3>2. s = Returns(t, brought)
      BY <3>1 DEF brought
    <3> HIDE DEF r, s
    <3>3. s.manifest = t.manifest /\ Returned(t, s, brought)
      BY <2>4, <3>2, ReturnsFields
    <3> QED BY <2>4, <3>3 DEF Returned, brought
  <2>6. Pending(ImportCalls(manifest), part, key)
    BY <2>3, <2>5, ImportCallsBring
  <2>7. ImportCalls(manifest) \in Seq(PlainCalls)
    BY <2>3, ImportCallsPlain
  <2>8. \A C, D : \A a \in Seq(C), b \in Seq(D) : a \in Seq(C \cup D) /\ b \in Seq(C \cup D)
    OBVIOUS
  <2> HIDE DEF r, s, t
  <2>9. PICK C : ImportCalls(manifest) \in Seq(C) /\ Tail(r.calls) \in Seq(C)
    BY <1>5, <2>7, <2>8
  <2> QED BY <2>5, <2>6, <2>9, PendingFirst
<1> HIDE DEF r, s, d, e
<1> QED BY <1>2, <1>6, <1>7, <1>9, <1>10, <1>11 DEF Move

LEMMA ImportInvInit == LegacyInit => ImportInv
<1> SUFFICES ASSUME LegacyInit, NEW p \in Procs
             PROVE  OwnCalls(run[p]) /\ ImportKept(run[p], db[RootOf(run[p])], Removable)
  BY DEF ImportInv
<1>1. run[p].status = "new"
  BY DEF LegacyInit, Idle
<1> QED BY <1>1 DEF OwnCalls, ImportKept

LEMMA ImportInvStep == LegacyInv /\ ImportInv /\ [LegacyNext]_vars => ImportInv'
<1> SUFFICES ASSUME LegacyInv, ImportInv, [LegacyNext]_vars
             PROVE  ImportInv'
  OBVIOUS
<1> DEFINE Good(q) == OwnCalls(run'[q]) /\ ImportKept(run'[q], db'[RootOf(run'[q])], Removable)
<1>1. \A q \in Procs : /\ OwnCalls(run[q]) /\ ImportKept(run[q], db[RootOf(run[q])], Removable)
                       /\ run[q] \in Process /\ Stage(run[q])
  BY DEF ImportInv, LegacyInv, ProcessOK
<1>2. ASSUME \A q \in Procs : Good(q), \A q \in Procs : run'[q].script = run[q].script
      PROVE  ImportInv'
  <2>1. Removable' = Removable
    BY <1>2, RemovableKept
  <2> QED BY <1>2, <2>1 DEF ImportInv
(* A process that stays where it is, next to a step that keeps what its     *)
(* database has.                                                            *)
<1>3. ASSUME NEW q \in Procs, SamePlace(run[q], run'[q]),
             \A x \in Roots : Keeps(db[x], db'[x], Removable)
      PROVE  Good(q) /\ run'[q].script = run[q].script
  <2> DEFINE r == run[q]
             s == run'[q]
  <2>1. /\ s.script = r.script /\ s.next = r.next /\ s.status = r.status /\ s.calls = r.calls
        /\ s.manifest = r.manifest
    BY <1>3 DEF SamePlace
  <2>2. RootOf(s) = RootOf(r)
    BY <2>1 DEF RootOf
  <2>3. OwnCalls(r) /\ ImportKept(r, db[RootOf(r)], Removable) /\ r \in Process /\ Stage(r)
    BY <1>1
  <2> HIDE DEF r, s
  <2>4. OwnCalls(s)
    BY <2>1, <2>3 DEF OwnCalls
  <2>5. r.status \in {"running", "ok"} => RootOf(r) \in Roots
    BY <2>3, RootTyped
  <2>6. ImportKept(s, db'[RootOf(s)], Removable)
    <3>1. r.status \in {"running", "ok"} => Keeps(db[RootOf(r)], db'[RootOf(r)], Removable)
      BY <1>3, <2>5
    <3> QED BY <2>1, <2>2, <2>3, <3>1 DEF ImportKept, Keeps
  <2> QED BY <2>1, <2>4, <2>6 DEF r, s
<1>4. ASSUME NEW p \in Procs, ProcessStep(p) PROVE ImportInv'
  <2>1. \A x \in Roots : Keeps(db[x], db'[x], Removable)
    BY <1>1, <1>4, DatabaseKept
  <2>2. Move(run[p], run'[p]) /\ \A q \in Procs \ {p} : SamePlace(run[q], run'[q])
    BY <1>4, ProcessMoves
  <2>3. Good(p) /\ run'[p].script = run[p].script
    <3>1. OwnCalls(run'[p])
      BY <1>1, <1>4, <2>2, RunningStep, OwnCallsKept
    <3>2. ImportKept(run'[p], db'[RootOf(run'[p])], Removable)
      <4>1. Root(p) \in Roots
        BY <1>4, RunningStep, Current
      <4>2. Keeps(db[Root(p)], db'[Root(p)], Removable)
        BY <2>1, <4>1
      <4> QED BY <1>1, <1>4, <4>2, ImportStepKept
    <3> QED BY <2>2, <3>1, <3>2 DEF Move
  <2>4. \A q \in Procs \ {p} : Good(q) /\ run'[q].script = run[q].script
    <3> HIDE DEF Good
    <3> QED BY <1>3, <2>1, <2>2
  <2> HIDE DEF Good
  <2> QED BY <1>2, <2>3, <2>4
<1>5. ASSUME NEW p \in Procs, Start(p) PROVE ImportInv'
  <2> DEFINE s == run'[p]
             c == s.script[s.next]
  <2>1. /\ s.script = run[p].script /\ c \in Commands /\ s.calls = Calls(c)
        /\ s.manifest = NoManifest
        /\ \A q \in Procs \ {p} : SamePlace(run[q], run'[q])
    BY <1>5, StartMoves
  <2>2. db' = db
    BY <1>5 DEF Start
  <2>3. OwnCalls(s)
    <3>1. \A i \in 1..Len(s.calls) :
            /\ s.calls[i].op \in Removals => c.cmd = "pkg-rm" /\ s.calls[i].name = c.name
            /\ c.cmd = "import" => s.calls[i] \in ImportOnly
      BY <2>1, StartsOwnCalls
    <3> HIDE DEF s
    <3> QED BY <3>1 DEF OwnCalls
  <2>4. Good(p)
    BY <2>1, <2>3 DEF ImportKept
  <2>5. \A q \in Procs \ {p} : Good(q) /\ run'[q].script = run[q].script
    <3>1. \A x \in Roots : Keeps(db[x], db'[x], Removable)
      BY <2>2, NothingLost
    <3> HIDE DEF Good
    <3> QED BY <1>3, <2>1, <3>1
  <2> HIDE DEF Good
  <2> QED BY <1>2, <2>1, <2>4, <2>5
<1>6. ASSUME \A q \in Procs : SamePlace(run[q], run'[q]), db' = db PROVE ImportInv'
  <2>1. \A x \in Roots : Keeps(db[x], db'[x], Removable)
    BY <1>6, NothingLost
  <2> HIDE DEF Good
  <2> QED BY <1>2, <1>3, <1>6, <2>1
<1>7. ASSUME NEW f \in Sources, NEW k \in 1..Size, NEW chunk \in Atoms, Edit(f, k, chunk)
      PROVE  ImportInv'
  BY <1>6, <1>7, EditMoves DEF Edit
<1>8. CASE UNCHANGED vars
  BY <1>6, <1>8 DEF vars, SamePlace
<1> QED BY <1>4, <1>5, <1>7, <1>8 DEF LegacyNext, ProcessStep

(* An import that reports success has brought every name, tag, value,       *)
(* relation and member its manifest lists, however the other processes'     *)
(* statements fall between its own; only a package some command removes may *)
(* be gone again.                                                           *)
THEOREM ImportsComplete == LegacySpec => []ImportComplete
<1>1. LegacyInv /\ ImportInv => ImportComplete
  <2> SUFFICES ASSUME LegacyInv, ImportInv, NEW p \in Procs,
                      run[p].status = "ok", Command(p).cmd = "import",
                      run[p].manifest # NoManifest
               PROVE  LET m == run[p].manifest
                          d == db[Root(p)]
                      IN  /\ m.names \subseteq d.names
                          /\ m.tags \subseteq d.tags
                          /\ m.relations \subseteq d.relations
                          /\ \A id \in Ids : m.metadata[id] # NoValue => d.metadata[id] # NoValue
                          /\ m.hashes \subseteq d.rows
                          /\ \/ /\ m.package \in d.packages
                                /\ m.hashes \subseteq ShowPackage(d, m.package)
                             \/ Removes(m.package)
    BY DEF ImportComplete
  <2> DEFINE m == run[p].manifest
             d == db[Root(p)]
  <2>1. run[p].calls = <<>> /\ Root(p) = RootOf(run[p]) /\ m \in Manifests
    <3>1. ProcessOK(run[p], source, files)
      BY DEF LegacyInv
    <3>2. run[p].status # "running"
      OBVIOUS
    <3> QED BY <3>1, <3>2 DEF ProcessOK, Process, Stage, Root, Command, RootOf
  <2>2. \A part, key : ~Pending(<<>>, part, key)
    BY DEF Pending
  <2>3. \A part, key : Listed(m, part, key) => Has(d, part, key) \/ Gone(Removable, part, key)
    <3>1. ImportKept(run[p], d, Removable)
      BY <2>1 DEF ImportInv
    <3> QED BY <2>1, <2>2, <3>1 DEF ImportKept, Command
  <2> HIDE DEF m, d
  <2>4. ASSUME NEW part, part \notin {"packages", "members"}
        PROVE  \A key : Listed(m, part, key) => Has(d, part, key)
    BY <2>3, <2>4 DEF Gone
  <2>5. m.names \subseteq d.names
    BY <2>4 DEF Listed, Has
  <2>6. m.tags \subseteq d.tags
    BY <2>4 DEF Listed, Has
  <2>7. m.relations \subseteq d.relations
    BY <2>4 DEF Listed, Has
  <2>8. \A id \in Ids : m.metadata[id] # NoValue => d.metadata[id] # NoValue
    BY <2>4 DEF Listed, Has
  <2>9. m.hashes \subseteq d.rows
    BY <2>4 DEF Listed, Has
  <2>10. ASSUME ~Removes(m.package)
         PROVE  m.package \in d.packages /\ m.hashes \subseteq ShowPackage(d, m.package)
    <3>1. m.package \notin Removable
      BY <2>10 DEF Removable
    <3>2. m.package \in d.packages
      <4>1. Listed(m, "packages", m.package) /\ ~Gone(Removable, "packages", m.package)
        BY <3>1 DEF Listed, Gone
      <4>2. Has(d, "packages", m.package)
        BY <2>3, <4>1
      <4> QED BY <4>2 DEF Has
    <3>3. ASSUME NEW h \in m.hashes PROVE h \in ShowPackage(d, m.package)
      <4> DEFINE x == <<m.package, h>>
      <4>1. x[1] = m.package /\ x[2] = h
        OBVIOUS
      <4>2. Listed(m, "members", x)
        BY DEF Listed
      <4>3. ~Gone(Removable, "members", x)
        BY <3>1, <4>1 DEF Gone
      <4>4. Has(d, "members", x)
        BY <2>3, <4>2, <4>3
      <4>5. x \in d.members
        BY <4>4 DEF Has
      <4> HIDE DEF x
      <4> QED BY <4>1, <4>5 DEF ShowPackage
    <3> QED BY <3>2, <3>3
  <2> QED BY <2>5, <2>6, <2>7, <2>8, <2>9, <2>10 DEF m, d
<1>2. LegacySpec => []ImportInv
  BY ImportInvInit, ImportInvStep, LegacyInvariant, PTL DEF LegacySpec
<1> QED BY <1>1, <1>2, LegacyInvariant, PTL

-----------------------------------------------------------------------------
(* What exactly a call of an import puts in its place.                      *)

Expanding == {"import_blobs", "import_manifest", "merge_metadata", "ensure_package"}
Exported == {h \in Digest : Exists(ExportDir, h)}
BlobCalls(order) == FlattenSeq([i \in 1..Len(order) |-> BlobThenRow(order[i])])

Expands(c, d, pre) ==
    \/ c.op = "import_blobs" /\ \E order \in SetToSeqs(Exported) : pre = BlobCalls(order)
    \/ c.op = "import_manifest" /\ manifest \in Manifests /\ pre = ImportCalls(manifest)
    \/ c.op = "merge_metadata" /\ d.metadata[c.hash] = NoValue /\ pre = BlobMetadata(c.hash, c.value)
    \/ /\ c.op = "ensure_package" /\ ~PackageExists(d, c.name)
       /\ pre = << [op |-> "create_package", name |-> c.name] >>

LEMMA ExpandingSteps ==
    ASSUME LegacyInv, NEW p \in Procs, ProcessStep(p), Op(run[p]) \in Expanding
    PROVE  \/ Crash(p) \/ CallFails(p)
           \/ ImportBlobs(p) \/ ImportManifest(p) \/ MergeMetadata(p) \/ EnsurePackage(p)
<1>1. Call(p).op \in Expanding
  BY RunningStep, Current
<1>2. ~StoreStep(p) /\ ~Statement(p)
  BY <1>1 DEF StoreStep, HashFile, StoreBlob, VerifyPath, Fetch, OpenCopy, CopyChunk, EndCopy,
              Seal, Statement, At, Copies, Statements, Expanding
<1>3. ~AgentStep(p) /\ ~UploadCallFails(p)
  BY <1>1 DEF AgentStep, UploadCallFails, ReadUpload, StoreBlobWithProgress, Persist, Mismatch,
     Register, CompleteUpload, MissingUpload, HandleDownload, AgentLine, At, Expanding
<1>4. TransferStep(p) => ImportBlobs(p) \/ ImportManifest(p) \/ MergeMetadata(p) \/ EnsurePackage(p)
  BY <1>1 DEF TransferStep, ExportPackage, CopyBlobTo, Collect, WriteExportMetadata,
     ImportBlob, At, Expanding
<1> QED BY <1>2, <1>3, <1>4 DEF ProcessStep, Step

LEMMA ImportMoves ==
    ASSUME LegacyInv, NEW p \in Procs, ProcessStep(p), Call(p) \in ImportOnly
    PROVE  LET r == run[p]
               s == run'[p]
           IN  \/ Failed(s)
               \/ Stays(r, s)
               \/ Returned(r, s, <<>>) /\ s.manifest = r.manifest
               \/ \E pre : /\ Returned(r, s, pre) /\ Expands(Call(p), db[Root(p)], pre)
                           /\ s.manifest = IF Op(r) = "import_manifest" THEN manifest ELSE r.manifest
<1> DEFINE r == run[p]
           s == run'[p]
           c == Call(p)
           d == db[Root(p)]
<1>1. r.status = "running" /\ r \in Process /\ c.op = Op(r) /\ c = r.calls[1]
  BY RunningStep, Current
<1>2. Move(r, s) /\ \A t : Goes(p, t) => s = t
  BY ProcessMoves, GoesTo
<1>3. c.op # "terminate" /\ c.op # "export" /\ (c.op \in Recording => c.op = "import_manifest")
  BY DEF ImportOnly, ImportingCalls, StatementCalls, Recording
<1>4. CASE Op(r) \notin Expanding
  <2> HIDE DEF r, s, c
  <2>1. Op(r) # "terminate" /\ Op(r) # "export" /\ Op(r) \notin Recording
    BY <1>1, <1>3, <1>4 DEF Expanding
  <2>2. \A pre : Replaces(Op(r), pre) => pre = <<>>
    BY <1>4, <2>1 DEF Replaces, Expanding
  <2>3. s.manifest = r.manifest /\ (Failed(s) \/ Stays(r, s) \/ Returned(r, s, <<>>))
    BY <1>2, <2>1, <2>2 DEF Move
  <2> QED BY <2>3 DEF r, s
(* A call that expands without recording.                                   *)
<1>5. ASSUME NEW pre, s = Returns(r, pre) PROVE Returned(r, s, pre) /\ s.manifest = r.manifest
  BY <1>1, <1>5, ReturnsFields
<1>6. CASE Crash(p) \/ CallFails(p)
  <2>1. s = Ends(r, "crashed") \/ s = Ends(r, "fault")
    BY <1>2, <1>6 DEF Crash, CallFails
  <2> QED BY <1>1, <2>1, EndsFields DEF Failed
<1>7. CASE ImportBlobs(p)
  <2>1. c.op = "import_blobs"
    BY <1>7 DEF ImportBlobs, At
  <2>2. PICK order \in SetToSeqs(Exported) : Goes(p, Returns(r, BlobCalls(order)))
    BY <1>7 DEF ImportBlobs, Exported, BlobCalls
  <2>3. Expands(c, d, BlobCalls(order))
    BY <2>1, <2>2 DEF Expands
  <2>4. Op(r) # "import_manifest"
    BY <1>1, <2>1
  <2> HIDE DEF r, s, c, d
  <2> QED BY <1>2, <1>5, <2>2, <2>3, <2>4 DEF r, s, c, d
<1>8. CASE MergeMetadata(p)
  <2>1. c.op = "merge_metadata" /\ Op(r) # "import_manifest"
    BY <1>1, <1>8 DEF MergeMetadata, At
  <2>2. CASE d.metadata[c.hash] = NoValue
    <3>1. s = Returns(r, BlobMetadata(c.hash, c.value))
      BY <1>2, <1>8, <2>2 DEF MergeMetadata
    <3>2. Expands(c, d, BlobMetadata(c.hash, c.value))
      BY <2>1, <2>2 DEF Expands
    <3> HIDE DEF r, s, c, d
    <3> QED BY <1>5, <2>1, <3>1, <3>2 DEF r, s, c, d
  <2>3. CASE d.metadata[c.hash] # NoValue
    <3>1. s = Returns(r, <<>>)
      BY <1>2, <1>8, <2>3 DEF MergeMetadata
    <3> QED BY <1>5, <3>1
  <2> QED BY <2>2, <2>3
<1>9. CASE EnsurePackage(p)
  <2>1. c.op = "ensure_package" /\ Op(r) # "import_manifest"
    BY <1>1, <1>9 DEF EnsurePackage, At
  <2>2. CASE ~PackageExists(d, c.name)
    <3> DEFINE pre == << [op |-> "create_package", name |-> c.name] >>
    <3>1. s = Returns(r, pre)
      BY <1>2, <1>9, <2>2 DEF EnsurePackage
    <3>2. Expands(c, d, pre)
      BY <2>1, <2>2 DEF Expands
    <3> HIDE DEF r, s, c, d, pre
    <3> QED BY <1>5, <2>1, <3>1, <3>2 DEF r, s, c, d
  <2>3. CASE PackageExists(d, c.name)
    <3>1. s = Returns(r, <<>>)
      BY <1>2, <1>9, <2>3 DEF EnsurePackage
    <3> QED BY <1>5, <3>1
  <2> QED BY <2>2, <2>3
<1>10. CASE ImportManifest(p)
  <2>1. c.op = "import_manifest" /\ Op(r) = "import_manifest"
    BY <1>1, <1>10 DEF ImportManifest, At
  <2>2. \/ s = Returns(r, <<>>) \/ s = Ends(r, "err")
        \/ /\ manifest \in Manifests
           /\ s = Returns([r EXCEPT !.manifest = manifest], ImportCalls(manifest))
    BY <1>2, <1>10 DEF ImportManifest, LegacyInv, StateOK
  <2>3. CASE s = Returns(r, <<>>)
    BY <1>5, <2>3
  <2>4. CASE s = Ends(r, "err")
    BY <1>1, <2>4, EndsFields DEF Failed
  <2>5. CASE /\ manifest \in Manifests
             /\ s = Returns([r EXCEPT !.manifest = manifest], ImportCalls(manifest))
    <3> DEFINE t == [r EXCEPT !.manifest = manifest]
               pre == ImportCalls(manifest)
    <3>1. t \in Process /\ t.manifest = manifest /\ t.calls = r.calls
      BY <1>1, <2>5 DEF Process
    <3>2. s = Returns(t, pre)
      BY <2>5
    <3>3. Expands(c, d, pre)
      BY <2>1, <2>5 DEF Expands
    <3> HIDE DEF t, pre, r, s, c, d
    <3>4. s.manifest = manifest /\ Returned(t, s, pre)
      BY <3>1, <3>2, ReturnsFields
    <3>5. Returned(r, s, pre)
      BY <3>1, <3>4 DEF Returned
    <3> QED BY <2>1, <3>3, <3>4, <3>5 DEF r, s, c, d
  <2> QED BY <2>2, <2>3, <2>4, <2>5
<1> QED BY <1>4, <1>6, <1>7, <1>8, <1>9, <1>10, ExpandingSteps

(* The calls that import the blobs of the export directory.                 *)
LEMMA BlobCallsShape ==
    ASSUME NEW order \in SetToSeqs(Exported)
    PROVE  BlobCalls(order) \in Seq([op : {"import_blob", "insert_blob"}, hash : Exported])
<1> DEFINE C == [op : {"import_blob", "insert_blob"}, hash : Exported]
           seqs == [i \in 1..Len(order) |-> BlobThenRow(order[i])]
<1>1. order \in Seq(Exported)
  <2>1. IsFiniteSet(Exported)
    BY DigestsFinite, FS_Subset DEF Exported
  <2> QED BY <2>1, SetToSeqsType
<1>2. \A i \in 1..Len(order) : seqs[i] \in Seq(C)
  BY <1>1 DEF BlobThenRow
<1>3. seqs \in Seq(Seq(C))
  <2>1. Len(order) \in Nat /\ seqs = [i \in 1..Len(order) |-> seqs[i]]
    BY <1>1
  <2> HIDE DEF seqs, C
  <2>2. seqs \in [1..Len(order) -> Seq(C)]
    BY <1>2, <2>1
  <2> QED BY <2>1, <2>2
<1> HIDE DEF seqs, C
<1>4. FlattenSeq(seqs) \in Seq(C)
  <2>1. <<>> \in Seq(C) /\ \A a, b \in Seq(C) : a \o b \in Seq(C)
    OBVIOUS
  <2> DEFINE G == Seq(C)
  <2> HIDE DEF G
  <2>2. <<>> \in G /\ (\A a, b \in G : a \o b \in G) /\ seqs \in Seq(G)
    BY <1>3, <2>1 DEF G
  <2>3. FlattenSeq(seqs) \in G
    BY <2>2, FlattenClosed
  <2> QED BY <2>3 DEF G
<1> QED BY <1>4 DEF BlobCalls, seqs, C

LEMMA ExpandsShape ==
    ASSUME LegacyInv, NEW c \in ImportOnly, NEW d, NEW pre, Expands(c, d, pre)
    PROVE  /\ pre \in Seq(ImportingCalls)
           /\ \A i \in 1..Len(pre) :
                 \/ c.op = "import_blobs" /\ pre[i] \in [op : {"import_blob", "insert_blob"}, hash : Exported]
                 \/ c.op = "import_manifest" /\ manifest \in Manifests /\ pre[i] \in ManifestCalls(manifest)
                 \/ /\ c.op = "merge_metadata" /\ d.metadata[c.hash] = NoValue
                    /\ pre[i] = [op |-> "set_metadata", hash |-> c.hash, value |-> c.value]
                 \/ /\ c.op = "ensure_package" /\ ~PackageExists(d, c.name)
                    /\ pre[i] = [op |-> "create_package", name |-> c.name]
<1>1. CASE c.op = "import_blobs" /\ \E order \in SetToSeqs(Exported) : pre = BlobCalls(order)
  <2> DEFINE C == [op : {"import_blob", "insert_blob"}, hash : Exported]
  <2>1. pre \in Seq(C)
    BY <1>1, BlobCallsShape
  <2>2. C \subseteq ImportingCalls
    BY DEF ImportingCalls, StatementCalls, Exported
  <2> HIDE DEF C
  <2>3. pre \in Seq(ImportingCalls) /\ \A i \in 1..Len(pre) : pre[i] \in C
    BY <2>1, <2>2
  <2> QED BY <1>1, <2>3 DEF C
<1>2. CASE c.op = "import_manifest" /\ manifest \in Manifests /\ pre = ImportCalls(manifest)
  BY <1>2, ImportCallsPlain, PlainCallsImport
<1>3. CASE c.op = "merge_metadata" /\ d.metadata[c.hash] = NoValue /\ pre = BlobMetadata(c.hash, c.value)
  <2> DEFINE b == [op |-> "set_metadata", hash |-> c.hash, value |-> c.value]
  <2>1. pre = <<b>>
    BY <1>3 DEF BlobMetadata
  <2>2. b \in ImportingCalls
    BY <1>3 DEF ImportOnly, ImportingCalls, StatementCalls
  <2> HIDE DEF b
  <2>3. pre \in Seq(ImportingCalls) /\ \A i \in 1..Len(pre) : pre[i] = b
    BY <2>1, <2>2
  <2> QED BY <1>3, <2>3 DEF b
<1>4. CASE /\ c.op = "ensure_package" /\ ~PackageExists(d, c.name)
           /\ pre = << [op |-> "create_package", name |-> c.name] >>
  <2> DEFINE b == [op |-> "create_package", name |-> c.name]
  <2>1. pre = <<b>>
    BY <1>4
  <2>2. b \in ImportingCalls
    BY <1>4 DEF ImportOnly, ImportingCalls, StatementCalls
  <2> HIDE DEF b
  <2>3. pre \in Seq(ImportingCalls) /\ \A i \in 1..Len(pre) : pre[i] = b
    BY <2>1, <2>2
  <2> QED BY <1>4, <2>3 DEF b
<1> QED BY <1>1, <1>2, <1>3, <1>4 DEF Expands

(* The calls of a process after its first call returned: pre, then the rest. *)
Prepended(r, s, pre) ==
    /\ Len(pre) \in Nat /\ Len(s.calls) = Len(pre) + (Len(r.calls) - 1)
    /\ \A i \in 1..Len(pre) : i \in 1..Len(s.calls) /\ s.calls[i] = pre[i]
    /\ \A j \in 2..Len(r.calls) : /\ Len(pre) + (j - 1) \in 1..Len(s.calls)
                                  /\ s.calls[Len(pre) + (j - 1)] = r.calls[j]
    /\ \A i \in 1..Len(s.calls) :
          \/ i \in 1..Len(pre) /\ s.calls[i] = pre[i]
          \/ \E j \in 2..Len(r.calls) : i = Len(pre) + (j - 1) /\ s.calls[i] = r.calls[j]

LEMMA ReturnedCalls ==
    ASSUME NEW r \in Process, Stage(r), r.status = "running", NEW s, NEW D, NEW pre \in Seq(D),
           Returned(r, s, pre)
    PROVE  Prepended(r, s, pre) /\ s.calls \in Seq(D \cup AllCalls)
<1> DEFINE rest == Tail(r.calls)
<1>1. /\ Len(r.calls) \in Nat /\ Len(r.calls) >= 1 /\ Len(rest) = Len(r.calls) - 1
      /\ rest \in Seq(AllCalls) /\ s.calls = pre \o rest
      /\ \A i \in 1..Len(rest) : rest[i] = r.calls[i + 1]
  BY HeadTyped DEF Returned
<1> HIDE DEF rest
<1>2. pre \in Seq(D \cup AllCalls) /\ rest \in Seq(D \cup AllCalls) /\ Len(pre) \in Nat
  BY <1>1
<1>3. /\ s.calls \in Seq(D \cup AllCalls) /\ Len(s.calls) = Len(pre) + Len(rest)
      /\ \A i \in 1..Len(pre) : s.calls[i] = pre[i]
      /\ \A i \in 1..Len(rest) : s.calls[Len(pre) + i] = rest[i]
      /\ \A i \in 1..Len(s.calls) :
            \/ i \in 1..Len(pre) /\ s.calls[i] = pre[i]
            \/ i - Len(pre) \in 1..Len(rest) /\ i > Len(pre) /\ s.calls[i] = rest[i - Len(pre)]
  BY <1>1, <1>2, Concatenation
<1>4. ASSUME NEW j \in 2..Len(r.calls)
      PROVE  /\ Len(pre) + (j - 1) \in 1..Len(s.calls)
             /\ s.calls[Len(pre) + (j - 1)] = r.calls[j]
  <2>1. j - 1 \in 1..Len(rest) /\ (j - 1) + 1 = j
    BY <1>1
  <2>2. s.calls[Len(pre) + (j - 1)] = rest[j - 1] /\ rest[j - 1] = r.calls[(j - 1) + 1]
    BY <1>1, <1>3, <2>1
  <2>3. Len(pre) + (j - 1) \in 1..Len(s.calls)
    BY <1>1, <1>2, <1>3
  <2> QED BY <2>1, <2>2, <2>3
<1>5. ASSUME NEW i \in 1..Len(s.calls)
      PROVE  \/ i \in 1..Len(pre) /\ s.calls[i] = pre[i]
             \/ \E j \in 2..Len(r.calls) : i = Len(pre) + (j - 1) /\ s.calls[i] = r.calls[j]
  <2>1. CASE i - Len(pre) \in 1..Len(rest) /\ i > Len(pre)
    <3>1. (i - Len(pre)) + 1 \in 2..Len(r.calls) /\ i = Len(pre) + (((i - Len(pre)) + 1) - 1)
      BY <1>1, <1>2, <2>1
    <3> QED BY <1>4, <3>1
  <2> QED BY <1>3, <2>1
<1>6. \A i \in 1..Len(pre) : i \in 1..Len(s.calls)
  BY <1>1, <1>2, <1>3
<1> QED BY <1>1, <1>2, <1>3, <1>4, <1>5, <1>6 DEF Prepended

-----------------------------------------------------------------------------
(* What an import does to metadata.                                        *)

(* The values that were there when an import started are still there, and   *)
(* it only sets values that were not.                                       *)
MergeOwn(r, d) ==
    r.status = "running" /\ r.script[r.next].cmd = "import" =>
        /\ \A i \in 1..Len(r.calls) :
              r.calls[i].op = "set_metadata" =>
                 r.calls[i].hash \in Ids /\ r.kept[r.calls[i].hash] = NoValue
        /\ \A id \in Ids : r.kept[id] # NoValue => d.metadata[id] # NoValue

MergeInv == \A p \in Procs : MergeOwn(run[p], db[RootOf(run[p])])

LEMMA MergeStepKept ==
    ASSUME LegacyInv, NEW p \in Procs, ProcessStep(p), OwnCalls(run[p]),
           MergeOwn(run[p], db[RootOf(run[p])])
    PROVE  MergeOwn(run'[p], db'[RootOf(run'[p])])
<1> DEFINE r == run[p]
           s == run'[p]
           c == Call(p)
           d == db[Root(p)]
           e == db'[Root(p)]
<1>1. /\ r.status = "running" /\ Root(p) \in Roots /\ Root(p) = RootOf(r)
      /\ r \in Process /\ Stage(r) /\ c = r.calls[1] /\ c \in AllCalls /\ c.op = Op(r)
      /\ 1 \in 1..Len(r.calls)
  BY RunningStep, Current, HeadTyped
<1>2. Move(r, s)
  BY ProcessMoves
<1>3. RootOf(s) = Root(p) /\ s.script = r.script /\ s.next = r.next /\ s.kept = r.kept
  BY <1>1, <1>2 DEF Move, Frame, RootOf
<1> SUFFICES ASSUME s.status = "running", r.script[r.next].cmd = "import"
             PROVE  /\ \A i \in 1..Len(s.calls) :
                          s.calls[i].op = "set_metadata" =>
                             s.calls[i].hash \in Ids /\ r.kept[s.calls[i].hash] = NoValue
                    /\ \A id \in Ids : r.kept[id] # NoValue => e.metadata[id] # NoValue
  <2> HIDE DEF r, s, d, e, c
  <2> QED BY <1>3 DEF MergeOwn, r, s, d, e, c
<1>4. /\ \A i \in 1..Len(r.calls) :
            r.calls[i].op = "set_metadata" =>
               r.calls[i].hash \in Ids /\ r.kept[r.calls[i].hash] = NoValue
      /\ \A id \in Ids : r.kept[id] # NoValue => d.metadata[id] # NoValue
  <2>1. MergeOwn(r, d)
    BY <1>1
  <2> HIDE DEF r, s, d, e, c
  <2> QED BY <1>1, <2>1 DEF MergeOwn
<1>5. \A id \in Ids : r.kept[id] # NoValue => e.metadata[id] # NoValue
  <2>1. Keeps(d, e, Removable)
    BY <1>1, DatabaseKept
  <2>2. ASSUME NEW id \in Ids, d.metadata[id] # NoValue PROVE e.metadata[id] # NoValue
    <3> HIDE DEF d, e
    <3>1. Has(d, "metadata", id)
      BY <2>2 DEF Has
    <3>2. Has(e, "metadata", id)
      BY <2>1, <3>1 DEF Keeps, Gone
    <3> QED BY <3>2 DEF Has
  <2> HIDE DEF r, d, e
  <2> QED BY <1>4, <2>2
<1>6. c \in ImportOnly
  BY <1>1 DEF OwnCalls
<1>7. CASE Stays(r, s)
  <2> HIDE DEF r, s, c, d, e
  <2> QED BY <1>4, <1>5, <1>7 DEF Stays
(* The calls before and the ones put at the head.                           *)
<1>8. ASSUME NEW pre \in Seq(ImportingCalls), Returned(r, s, pre),
             \A i \in 1..Len(pre) :
                pre[i].op = "set_metadata" =>
                   pre[i].hash \in Ids /\ r.kept[pre[i].hash] = NoValue
      PROVE  \A i \in 1..Len(s.calls) :
                s.calls[i].op = "set_metadata" =>
                   s.calls[i].hash \in Ids /\ r.kept[s.calls[i].hash] = NoValue
  <2> HIDE DEF r, s, c, d, e
  <2>1. /\ r \in Process /\ Stage(r) /\ r.status = "running" /\ pre \in Seq(ImportingCalls)
        /\ Returned(r, s, pre)
    BY <1>1, <1>8
  <2>2. Prepended(r, s, pre)
    BY <2>1, ReturnedCalls
  <2>3. \A i \in 1..Len(s.calls) :
           \/ i \in 1..Len(pre) /\ s.calls[i] = pre[i]
           \/ \E j \in 2..Len(r.calls) : i = Len(pre) + (j - 1) /\ s.calls[i] = r.calls[j]
    BY <2>2 DEF Prepended
  <2>4. \A j \in 2..Len(r.calls) : j \in 1..Len(r.calls)
    OBVIOUS
  <2> QED BY <1>4, <1>8, <2>3, <2>4
<1>9. ASSUME Returned(r, s, <<>>)
      PROVE  \A i \in 1..Len(s.calls) :
                s.calls[i].op = "set_metadata" =>
                   s.calls[i].hash \in Ids /\ r.kept[s.calls[i].hash] = NoValue
  <2>1. <<>> \in Seq(ImportingCalls) /\ Len(<<>>) = 0
    OBVIOUS
  <2> HIDE DEF r, s, c, d, e
  <2>2. \A i \in 1..Len(<<>>) : FALSE
    BY <2>1
  <2> QED BY <1>8, <1>9, <2>1, <2>2
<1>10. ASSUME NEW pre, Returned(r, s, pre), Expands(c, d, pre)
       PROVE  \A i \in 1..Len(s.calls) :
                s.calls[i].op = "set_metadata" =>
                   s.calls[i].hash \in Ids /\ r.kept[s.calls[i].hash] = NoValue
  <2> HIDE DEF r, s, c, d, e
  <2>1. /\ pre \in Seq(ImportingCalls)
        /\ \A i \in 1..Len(pre) :
              \/ pre[i] \in [op : {"import_blob", "insert_blob"}, hash : Exported]
              \/ pre[i] \in ManifestCalls(manifest)
              \/ /\ c.op = "merge_metadata" /\ d.metadata[c.hash] = NoValue
                 /\ pre[i] = [op |-> "set_metadata", hash |-> c.hash, value |-> c.value]
              \/ pre[i] = [op |-> "create_package", name |-> c.name]
    BY <1>6, <1>10, ExpandsShape
  <2>2. \A b \in ManifestCalls(manifest) : b.op # "set_metadata"
    BY DEF ManifestCalls
  <2>3. c.op = "merge_metadata" => c.hash \in Ids
    BY <1>1, CallShape DEF c
  <2>4. ASSUME NEW i \in 1..Len(pre), pre[i].op = "set_metadata"
        PROVE  pre[i].hash \in Ids /\ r.kept[pre[i].hash] = NoValue
    <3>1. c.op = "merge_metadata" /\ d.metadata[c.hash] = NoValue /\ pre[i].hash = c.hash
      BY <2>1, <2>2, <2>4
    <3> QED BY <1>4, <2>3, <3>1
  <2> QED BY <1>8, <1>10, <2>1, <2>4
<1>11. \/ Failed(s) \/ Stays(r, s) \/ Returned(r, s, <<>>)
       \/ \E pre : Returned(r, s, pre) /\ Expands(c, d, pre)
  BY <1>6, ImportMoves
<1> HIDE DEF r, s, c, d, e
<1> QED BY <1>5, <1>7, <1>9, <1>10, <1>11 DEF Failed

LEMMA MergeInvInit == LegacyInit => MergeInv
<1> SUFFICES ASSUME LegacyInit, NEW p \in Procs PROVE MergeOwn(run[p], db[RootOf(run[p])])
  BY DEF MergeInv
<1>1. run[p].status = "new"
  BY DEF LegacyInit, Idle
<1> QED BY <1>1 DEF MergeOwn

LEMMA MergeInvStep == LegacyInv /\ ImportInv /\ MergeInv /\ [LegacyNext]_vars => MergeInv'
<1> SUFFICES ASSUME LegacyInv, ImportInv, MergeInv, [LegacyNext]_vars, NEW q \in Procs
             PROVE  MergeOwn(run'[q], db'[RootOf(run'[q])])
  BY DEF MergeInv
<1>1. \A t \in Procs : OwnCalls(run[t]) /\ MergeOwn(run[t], db[RootOf(run[t])])
  BY DEF ImportInv, MergeInv
<1>2. ASSUME SamePlace(run[q], run'[q]), \A x \in Roots : Keeps(db[x], db'[x], Removable)
      PROVE  MergeOwn(run'[q], db'[RootOf(run'[q])])
  <2> DEFINE r == run[q]
             s == run'[q]
             d == db[RootOf(r)]
             e == db'[RootOf(r)]
  <2>1. RootOf(s) = RootOf(r)
    BY <1>2 DEF SamePlace, RootOf
  <2>2. MergeOwn(r, d)
    BY <1>1
  <2>3. r.status = "running" => Keeps(d, e, Removable)
    <3>1. r.status = "running" => RootOf(r) \in Roots
      BY RootTyped DEF LegacyInv, ProcessOK
    <3> QED BY <1>2, <3>1
  <2>4. \A id \in Ids : Keeps(d, e, Removable) /\ d.metadata[id] # NoValue => e.metadata[id] # NoValue
    <3> HIDE DEF d, e
    <3> TAKE id \in Ids
    <3>1. d.metadata[id] # NoValue => Has(d, "metadata", id)
      BY DEF Has
    <3>2. Has(e, "metadata", id) => e.metadata[id] # NoValue
      BY DEF Has
    <3> QED BY <3>1, <3>2 DEF Keeps, Gone
  <2> HIDE DEF r, s, d, e
  <2>5. MergeOwn(s, e)
    BY <1>2, <2>2, <2>3, <2>4 DEF MergeOwn, SamePlace, r, s
  <2> QED BY <2>1, <2>5 DEF r, s, e
<1>3. ASSUME NEW p \in Procs, ProcessStep(p) PROVE MergeOwn(run'[q], db'[RootOf(run'[q])])
  <2>1. CASE p = q
    BY <1>1, <1>3, <2>1, MergeStepKept
  <2>2. CASE p # q
    <3>1. \A x \in Roots : Keeps(db[x], db'[x], Removable)
      BY <1>1, <1>3, DatabaseKept
    <3>2. SamePlace(run[q], run'[q])
      BY <1>3, <2>2, ProcessMoves
    <3> QED BY <1>2, <3>1, <3>2
  <2> QED BY <2>1, <2>2
<1>4. ASSUME NEW p \in Procs, Start(p) PROVE MergeOwn(run'[q], db'[RootOf(run'[q])])
  <2>1. db' = db
    BY <1>4 DEF Start
  <2>2. CASE p # q
    <3>1. \A x \in Roots : Keeps(db[x], db'[x], Removable)
      BY <2>1, NothingLost
    <3>2. SamePlace(run[q], run'[q])
      BY <1>4, <2>2, StartMoves
    <3> QED BY <1>2, <3>1, <3>2
  <2>3. CASE p = q
    <3> DEFINE s == run'[q]
               c == s.script[s.next]
    <3>1. c \in Commands /\ s.calls = Calls(c) /\ s.kept = db[c.root].metadata
      BY <1>4, <2>3, StartMoves
    <3> HIDE DEF s
    <3>2. c.cmd = "import" => \A i \in 1..Len(s.calls) : s.calls[i].op # "set_metadata"
      <4>1. SUFFICES ASSUME c.cmd = "import"
                     PROVE  \A i \in 1..Len(s.calls) : s.calls[i].op # "set_metadata"
        OBVIOUS
      <4>2. s.calls = << [op |-> "import_blobs"], [op |-> "import_manifest"] >>
        BY <3>1, <4>1 DEF Calls
      <4> QED BY <4>2
    <3>3. RootOf(s) = c.root
      BY DEF RootOf
    <3> QED BY <2>1, <3>1, <3>2, <3>3 DEF MergeOwn, s
  <2> QED BY <2>2, <2>3
<1>5. ASSUME SamePlace(run[q], run'[q]), db' = db PROVE MergeOwn(run'[q], db'[RootOf(run'[q])])
  <2>1. \A x \in Roots : Keeps(db[x], db'[x], Removable)
    BY <1>5, NothingLost
  <2> QED BY <1>2, <1>5, <2>1
<1>6. ASSUME NEW f \in Sources, NEW k \in 1..Size, NEW chunk \in Atoms, Edit(f, k, chunk)
      PROVE  MergeOwn(run'[q], db'[RootOf(run'[q])])
  BY <1>5, <1>6, EditMoves DEF Edit
<1>7. CASE UNCHANGED vars
  BY <1>5, <1>7 DEF vars, SamePlace
<1> QED BY <1>3, <1>4, <1>6, <1>7 DEF LegacyNext, ProcessStep

(* No call of an import changes metadata that was there when it started,    *)
(* whatever other imports and commands set meanwhile.                       *)
THEOREM ImportsKeepValues == LegacySpec => ImportKeepsValues
<1> DEFINE Keeping ==
        \A p \in Procs :
          /\ run[p].status = "running" /\ Command(p).cmd = "import"
          /\ run'[p].calls # run[p].calls
          => \A id \in Ids : run[p].kept[id] # NoValue
                             => db'[Root(p)].metadata[id] = db[Root(p)].metadata[id]
<1>1. LegacyInv /\ ImportInv /\ MergeInv /\ [LegacyNext]_vars => [Keeping]_vars
  <2> SUFFICES ASSUME LegacyInv, ImportInv, MergeInv, LegacyNext, NEW p \in Procs,
                      run[p].status = "running", Command(p).cmd = "import",
                      run'[p].calls # run[p].calls, NEW id \in Ids, run[p].kept[id] # NoValue
               PROVE  db'[Root(p)].metadata[id] = db[Root(p)].metadata[id]
    OBVIOUS
  <2> DEFINE r == run[p]
             c == Resolved(p)
             d == db[Root(p)]
  <2>1. ProcessStep(p)
    <3>1. ASSUME SamePlace(run[p], run'[p]) PROVE FALSE
      BY <3>1 DEF SamePlace
    <3>2. ~Start(p)
      BY DEF Start
    <3>3. ASSUME NEW q \in Procs, q # p, Start(q) \/ ProcessStep(q) PROVE FALSE
      BY <3>1, <3>3, StartMoves, ProcessMoves
    <3>4. ASSUME NEW f \in Sources, NEW k \in 1..Size, NEW chunk \in Atoms, Edit(f, k, chunk)
          PROVE  FALSE
      BY <3>1, <3>4, EditMoves
    <3> QED BY <3>2, <3>3, <3>4 DEF LegacyNext, ProcessStep
  <2>2. /\ Root(p) \in Roots /\ db \in [Roots -> Databases] /\ d \in Databases /\ r \in Process
        /\ Stage(r) /\ Root(p) = RootOf(r) /\ Call(p) = r.calls[1] /\ Call(p) \in AllCalls
        /\ 1 \in 1..Len(r.calls)
    BY Current, HeadTyped DEF LegacyInv, StateOK
  <2>3. CASE Register(p)
    <3>1. db'[Root(p)] = InsertBlob(d, [hash |-> r.digest])
      BY <2>2, <2>3 DEF Register
    <3> QED BY <2>2, <3>1 DEF InsertBlob, Databases
  <2>4. CASE Statement(p) /\ db' # db
    <3>1. db'[Root(p)] = Execute(d, c) /\ Call(p).op \in Statements
      BY <2>2, <2>4 DEF Statement, At
    <3>2. Call(p) \in StatementCalls \cup RemovingCalls
      BY <2>2, <3>1, CallShape
    <3>3. c.op = Call(p).op
      BY <3>2 DEF Resolved, StatementCalls, RemovingCalls
    <3>4. CASE c.op = "set_metadata"
      <4>1. MergeOwn(r, db[RootOf(r)])
        BY DEF MergeInv
      <4>2. Call(p).hash \in Ids /\ r.kept[Call(p).hash] = NoValue
        BY <2>2, <3>3, <3>4, <4>1 DEF MergeOwn, Command
      <4>3. c = Call(p)
        BY <4>2, LegacyAssumption, AsWritten
      <4>4. c.hash # id /\ d.metadata \in Metadata
        BY <2>2, <4>2, <4>3 DEF Databases
      <4>5. db'[Root(p)].metadata = [d.metadata EXCEPT ![c.hash] = c.value]
        <5> HIDE DEF c, d
        <5> QED BY <2>2, <3>1, <3>4 DEF Execute, SetMetadata, Databases
      <4> HIDE DEF c, d
      <4> QED BY <4>4, <4>5 DEF Metadata, d
    <3>5. CASE c.op # "set_metadata"
      <4>1. c.op \in Statements
        BY <3>1, <3>3
      <4> HIDE DEF c, d
      <4>2. Execute(d, c).metadata = d.metadata
        BY <2>2, <3>5, <4>1 DEF Execute, Statements, Databases, InsertBlob, InsertBlobName,
           CreatePackage, AddBlobToPackage, DeleteMembers, DeletePackage, AddTag, AddRelation
      <4> QED BY <3>1, <4>2 DEF d
    <3> QED BY <3>4, <3>5
  <2> QED BY <2>1, <2>3, <2>4, DatabaseSteps
<1>2. LegacySpec => []MergeInv
  <2>1. LegacySpec => []ImportInv
    BY ImportInvInit, ImportInvStep, LegacyInvariant, PTL DEF LegacySpec
  <2> QED BY <2>1, MergeInvInit, MergeInvStep, LegacyInvariant, PTL DEF LegacySpec
<1>3. LegacySpec => []ImportInv
  BY ImportInvInit, ImportInvStep, LegacyInvariant, PTL DEF LegacySpec
<1>4. LegacySpec => [][Keeping]_vars
  BY <1>1, <1>2, <1>3, LegacyInvariant, PTL DEF LegacySpec
<1>5. ImportKeepsValues <=> [][Keeping]_vars
  BY DEF ImportKeepsValues
<1> QED BY <1>4, <1>5

-----------------------------------------------------------------------------
(* What the transfer agent answers.                                        *)


LEMMA LeastNumber ==
    ASSUME NEW I, I \subseteq Nat, I # {}
    PROVE  \E m \in I : \A i \in I : m <= i
<1> SUFFICES ASSUME \A m \in I : \E i \in I : ~(m <= i) PROVE FALSE
  OBVIOUS
<1> DEFINE S == {k \in Nat : \A i \in I : k <= i}
<1>1. 0 \in S
  OBVIOUS
<1>2. ASSUME NEW k \in Nat, k \in S PROVE k + 1 \in S
  <2>1. k \notin I
    BY <1>2
  <2> QED BY <1>2, <2>1
<1>3. \A k \in Nat : k \in S
  <2> HIDE DEF S
  <2> QED BY <1>1, <1>2, SetInduction
<1>4. PICK i \in I : TRUE
  OBVIOUS
<1>5. i + 1 \in S
  <2> HIDE DEF S
  <2> QED BY <1>3, <1>4
<1> QED BY <1>4, <1>5

(* Where the first line that ends the agent is, or 0.                       *)
LEMMA FirstTerminate ==
    ASSUME NEW input \in Seq(Lines)
    PROVE  LET last == SelectInSeq(input, LAMBDA c : c.op = "terminate")
           IN  /\ last \in 0..Len(input)
               /\ \A i \in 1..Len(input) :
                     input[i].op = "terminate" => last # 0 /\ last <= i
               /\ last # 0 => input[last].op = "terminate"
<1> DEFINE I == {i \in 1..Len(input) : input[i].op = "terminate"}
           last == IF I # {} THEN Min(I) ELSE 0
<1>1. SelectInSeq(input, LAMBDA c : c.op = "terminate") = last
  BY DEF SelectInSeq
<1>2. I # {} => /\ Min(I) \in I
                /\ \A i \in I : Min(I) <= i
  <2> SUFFICES ASSUME I # {} PROVE \E m \in I : \A i \in I : m <= i
    BY DEF Min
  <2>1. I \subseteq Nat
    OBVIOUS
  <2> HIDE DEF I
  <2> QED BY <2>1, LeastNumber
<1>3. Len(input) \in Nat
  OBVIOUS
<1>4. /\ last \in 0..Len(input)
      /\ \A i \in 1..Len(input) : input[i].op = "terminate" => last # 0 /\ last <= i
      /\ last # 0 => input[last].op = "terminate"
  <2>1. CASE I = {}
    <3>1. \A i \in 1..Len(input) : input[i].op # "terminate"
      BY <2>1
    <3>2. last = 0
      BY <2>1
    <3> HIDE DEF last
    <3> QED BY <1>3, <3>1, <3>2
  <2>2. CASE I # {}
    <3>1. last = Min(I)
      BY <2>2
    <3> HIDE DEF last
    <3>2. last \in I /\ \A i \in I : last <= i
      BY <1>2, <2>2, <3>1
    <3> QED BY <1>3, <3>2
  <2> QED BY <2>1, <2>2
<1> HIDE DEF last
<1> QED BY <1>1, <1>4

(* f pairs the positions of A with those of B, the first with the first.    *)
Paired(f, A, B) ==
    /\ f \in [A -> B] /\ \A j \in B : \E i \in A : f[i] = j
    /\ \A i, k \in A : i < k => f[i] < f[k]

LEMMA PairsRank ==
    ASSUME NEW A \in SUBSET Nat, NEW B \in SUBSET Nat, IsFiniteSet(A), NEW f, Paired(f, A, B)
    PROVE  /\ IsFiniteSet(B) /\ Cardinality(A) = Cardinality(B)
           /\ \A i \in A, j \in B : Before(A, i) = Before(B, j) => f[i] = j
<1>1. ASSUME NEW S, NEW T, NEW g, IsFiniteSet(S), S \subseteq Nat, T \subseteq Nat, Paired(g, S, T)
      PROVE  IsFiniteSet(T) /\ Cardinality(S) = Cardinality(T)
  <2>1. \A i, k \in S : g[i] = g[k] => i = k
    <3>1. \A i, k \in S : i < k => g[i] < g[k]
      BY <1>1 DEF Paired
    <3>2. \A i \in S : i \in Nat /\ g[i] \in Nat
      BY <1>1 DEF Paired
    <3> QED BY <3>1, <3>2
  <2>2. g \in Bijection(S, T)
    BY <1>1, <2>1 DEF Paired, Bijection, Injection, IsInjective, Surjection
  <2> QED BY <1>1, <2>2, FS_Bijection DEF ExistsBijection
<1>2. IsFiniteSet(B) /\ Cardinality(A) = Cardinality(B)
  BY <1>1
<1>3. ASSUME NEW i \in A, NEW j \in B, Before(A, i) = Before(B, j) PROVE f[i] = j
  <2> DEFINE S == {k \in A : k < i}
             T == {k \in B : k < f[i]}
             g == [k \in S |-> f[k]]
             J == {k \in B : k < j}
  <2>0. /\ \A k \in A : f[k] \in B /\ f[k] \in Nat /\ k \in Nat
        /\ \A k \in B : k \in Nat /\ \E l \in A : f[l] = k
        /\ \A l, k \in A : l < k => f[l] < f[k]
    BY DEF Paired
  <2>1. Paired(g, S, T)
    <3>1. \A k \in T : \E l \in S : g[l] = k
      <4> SUFFICES ASSUME NEW k \in T PROVE \E l \in S : g[l] = k
        OBVIOUS
      <4>1. PICK l \in A : f[l] = k
        BY <2>0
      <4>2. l \in Nat /\ i \in Nat /\ f[l] < f[i] /\ f[l] \in Nat /\ f[i] \in Nat
        BY <2>0, <4>1
      <4>3. (i < l => f[i] < f[l]) /\ (i = l => f[i] = f[l])
        BY <2>0
      <4>4. l < i
        BY <4>2, <4>3
      <4> QED BY <4>1, <4>4
    <3> QED BY <2>0, <3>1 DEF Paired
  <2>2. IsFiniteSet(S) /\ S \subseteq Nat /\ T \subseteq Nat
    BY FS_Subset
  <2>3. Cardinality(S) = Cardinality(T) /\ IsFiniteSet(T) /\ IsFiniteSet(J)
    <3> HIDE DEF S, T, g
    <3>1. Cardinality(S) = Cardinality(T) /\ IsFiniteSet(T)
      BY <1>1, <2>1, <2>2
    <3>2. IsFiniteSet(J)
      BY <1>2, FS_Subset
    <3> QED BY <3>1, <3>2
  <2>4. Cardinality(J) = Cardinality(T)
    BY <1>3, <2>3 DEF Before
  <2>5. J \subseteq T \/ T \subseteq J
    <3>1. f[i] \in Nat /\ \A k \in B : k \in Nat
      BY <2>0
    <3>2. \A m, n \in Nat : {k \in B : k < m} \subseteq {k \in B : k < n}
                          \/ {k \in B : k < n} \subseteq {k \in B : k < m}
      <4> SUFFICES ASSUME NEW m \in Nat, NEW n \in Nat
                   PROVE  (\A k \in B : k < m => k < n) \/ (\A k \in B : k < n => k < m)
        OBVIOUS
      <4> QED BY <3>1
    <3> QED BY <3>1, <3>2
  <2>6. J = T
    <3> HIDE DEF J, T
    <3> QED BY <2>3, <2>4, <2>5, FS_Subset
  <2>7. j \notin J /\ f[i] \notin T
    BY <2>0
  <2>8. ~(j < f[i]) /\ ~(f[i] < j)
    <3>1. j < f[i] => j \in T
      BY <2>0
    <3>2. f[i] < j => f[i] \in J
      BY <2>0
    <3> HIDE DEF J, T
    <3> QED BY <2>6, <2>7, <3>1, <3>2
  <2>9. f[i] \in Nat /\ j \in Nat
    BY <2>0
  <2> QED BY <2>8, <2>9
<1> QED BY <1>2, <1>3

(* One more request, and its answer.                                        *)
LEMMA PairAdded ==
    ASSUME NEW A, NEW B, A \subseteq Nat, B \subseteq Nat, NEW f, Paired(f, A, B),
           NEW a \in Nat, NEW b \in Nat, \A i \in A : i < a, \A j \in B : j < b
    PROVE  Paired([i \in A \cup {a} |-> IF i = a THEN b ELSE f[i]], A \cup {a}, B \cup {b})
<1> DEFINE g == [i \in A \cup {a} |-> IF i = a THEN b ELSE f[i]]
<1>0. /\ \A i \in A : f[i] \in B /\ f[i] \in Nat /\ f[i] < b /\ i # a /\ i \in Nat
      /\ \A j \in B : \E i \in A : f[i] = j
      /\ \A i, k \in A : i < k => f[i] < f[k]
  <2>1. ASSUME NEW i \in A PROVE f[i] \in B /\ f[i] \in Nat /\ f[i] < b /\ i # a /\ i \in Nat
    <3>1. f[i] \in B /\ i < a /\ i \in Nat
      BY DEF Paired
    <3>2. f[i] \in Nat /\ f[i] < b
      BY <3>1
    <3> QED BY <3>1, <3>2
  <2> QED BY <2>1 DEF Paired
<1>1. (\A i \in A : g[i] = f[i]) /\ g[a] = b
  BY <1>0
<1>2. g \in [A \cup {a} -> B \cup {b}]
  BY <1>0
<1> HIDE DEF g
<1>3. \A j \in B \cup {b} : \E i \in A \cup {a} : g[i] = j
  BY <1>0, <1>1
<1>4. \A i, k \in A \cup {a} : i < k => g[i] < g[k]
  BY <1>0, <1>1
<1> QED BY <1>2, <1>3, <1>4 DEF Paired, g

(* Nobody takes a file away.                                                *)
LEMMA FilesStay ==
    ASSUME LegacyInv, [LegacyNext]_vars
    PROVE  \A t \in Places \X Digest : files[t] # NoFile => files'[t] # NoFile
<1>1. files \in [Places \X Digest -> BlobFiles \cup {NoFile}]
  BY DEF LegacyInv, StateOK
<1>2. ASSUME NEW t \in Places \X Digest, NEW f \in BlobFiles, files' = [files EXCEPT ![t] = f]
      PROVE  \A u \in Places \X Digest : files[u] # NoFile => files'[u] # NoFile
  BY <1>1, <1>2, BlobIsFile
<1>3. ASSUME NEW p \in Procs, OpenCopy(p)
      PROVE  \A u \in Places \X Digest : files[u] # NoFile => files'[u] # NoFile
  <2>1. At(p, "open", Copies)
    BY <1>3 DEF OpenCopy
  <2>2. Target(p) \in Places \X Digest
    BY <2>1, CopyTarget DEF At, Copies
  <2>3. CASE files' = files
    BY <2>3
  <2>4. CASE files' # files
    <3>1. /\ From(p) # NoFile
          /\ files' = [files EXCEPT ![Target(p)] = [data |-> <<>>, readonly |-> From(p).readonly]]
      BY <1>3, <2>4 DEF OpenCopy
    <3>2. From(p).readonly \in BOOLEAN
      BY <2>1, <3>1, FromTyped DEF At
    <3>3. [data |-> <<>>, readonly |-> From(p).readonly] \in BlobFiles
      BY <3>2, BlobIsFile DEF BlobFiles
    <3> QED BY <1>2, <2>2, <3>1, <3>3
  <2> QED BY <2>3, <2>4
<1>4. ASSUME NEW p \in Procs, CopyChunk(p)
      PROVE  \A u \in Places \X Digest : files[u] # NoFile => files'[u] # NoFile
  <2> DEFINE k == Len(run[p].buf) + 1
             t == Target(p)
             chunk == From(p).data[k]
             f == [files[t] EXCEPT !.data = Overwritten(files[t].data, k, chunk)]
  <2>1. /\ At(p, "write", Copies) /\ k <= Len(From(p).data)
        /\ files' = IF run[p].linked THEN [files EXCEPT ![t] = f] ELSE files
    BY <1>4 DEF CopyChunk
  <2>2. /\ From(p).data \in Data /\ t \in Places \X Digest /\ files[t] \in BlobFiles
        /\ run[p].buf \in Data /\ Len(run[p].buf) \in Nat
    BY <2>1, CopyInProgress
  <2>3. k \in 1..Size /\ chunk \in Chunks
    <3>1. From(p).data \in Seq(Chunks) /\ Len(From(p).data) <= Size /\ Size \in Nat
      BY <2>2, LegacyAssumption DEF Data
    <3>2. k \in 1..Len(From(p).data)
      BY <2>1, <2>2, <3>1
    <3> QED BY <3>1, <3>2
  <2> HIDE DEF k, t, chunk
  <2>4. f \in BlobFiles
    <3>1. files[t].data \in Data
      BY <2>2 DEF BlobFiles
    <3>2. Overwritten(files[t].data, k, chunk) \in Data
      BY <2>3, <3>1, OverwrittenData
    <3> QED BY <2>2, <3>2 DEF BlobFiles
  <2> HIDE DEF f
  <2> QED BY <1>2, <2>1, <2>2, <2>4
<1>5. ASSUME NEW p \in Procs, Seal(p)
      PROVE  \A u \in Places \X Digest : files[u] # NoFile => files'[u] # NoFile
  <2> DEFINE t == Target(p)
             f == [files[t] EXCEPT !.readonly = TRUE]
  <2>1. /\ At(p, "seal", {"store", "import_blob", "upload"}) /\ files' = [files EXCEPT ![t] = f]
    BY <1>5 DEF Seal
  <2>2. t \in Places \X Digest /\ files[t] # NoFile
    BY <2>1, CopyTarget, Current DEF At, Footing
  <2> HIDE DEF t
  <2>3. files[t] \in BlobFiles
    BY <1>1, <2>2
  <2>4. f \in BlobFiles
    BY <2>3 DEF BlobFiles
  <2> HIDE DEF f
  <2> QED BY <1>2, <2>1, <2>2, <2>4
<1>6. ASSUME NEW p \in Procs, Persist(p)
      PROVE  \A u \in Places \X Digest : files[u] # NoFile => files'[u] # NoFile
  <2>1. At(p, "persist", {"upload"}) /\ files' = [files EXCEPT ![Target(p)] = Temporary(p)]
    BY <1>6 DEF Persist
  <2>2. Target(p) \in Places \X Digest
    BY <2>1, CopyTarget DEF At
  <2>3. run[p].buf \in Digest
    BY <2>1, Current DEF At, Position
  <2>4. Temporary(p) \in BlobFiles
    BY <2>3, BlobIsFile DEF Temporary, BlobFiles
  <2> QED BY <1>2, <2>1, <2>2, <2>4
<1>7. ASSUME NEW p \in Procs, ProcessStep(p)
      PROVE  files' = files \/ OpenCopy(p) \/ CopyChunk(p) \/ Seal(p) \/ Persist(p)
  <2>1. StoreStep(p) => files' = files \/ OpenCopy(p) \/ CopyChunk(p) \/ Seal(p)
    BY DEF StoreStep, HashFile, StoreBlob, VerifyPath, Fetch, EndCopy, ReadsOnly
  <2>2. TransferStep(p) => files' = files
    BY DEF TransferStep, ExportPackage, CopyBlobTo, Collect, WriteExportMetadata, ImportBlobs,
       ImportBlob, ImportManifest, MergeMetadata, EnsurePackage, ReadsOnly
  <2>3. AgentStep(p) => files' = files \/ Persist(p)
    BY DEF AgentStep, ReadUpload, StoreBlobWithProgress, Mismatch, Register, CompleteUpload,
       MissingUpload, UploadFails, HandleDownload, AgentLine, ReadsOnly
  <2>4. Statement(p) \/ Crash(p) \/ CallFails(p) \/ UploadCallFails(p) => files' = files
    BY DEF Statement, Crash, CallFails, UploadCallFails, UploadFails
  <2> QED BY <1>7, <2>1, <2>2, <2>3, <2>4 DEF ProcessStep, Step
<1>8. \/ files' = files
      \/ \E p \in Procs : OpenCopy(p) \/ CopyChunk(p) \/ Seal(p) \/ Persist(p)
  <2>1. \A p \in Procs : Start(p) => files' = files
    BY DEF Start
  <2>2. \A f \in Sources, k \in 1..Size, chunk \in Atoms : Edit(f, k, chunk) => files' = files
    BY DEF Edit
  <2>3. UNCHANGED vars => files' = files
    BY DEF vars
  <2> QED BY <1>7, <2>1, <2>2, <2>3 DEF LegacyNext, ProcessStep
<1> QED BY <1>3, <1>4, <1>5, <1>6, <1>8

(* What an agent writes.                                                    *)
Events ==
    [event : {"init"}, oid : {NoValue}, size : Nat, code : Nat]
    \cup [event : {"progress", "complete"}, oid : Digest, size : Nat, code : Nat]

AgentOps == {"upload", "fetch", "init", "blank", "unparsable", "terminate"}

(* A step of the agent from r to s next to the files fs, and what it writes. *)
AgentMove(r, s, fs, events) ==
    LET c == r.calls[1] IN
    \/ Failed(s) /\ events = <<>>
    \/ c.op = "terminate" /\ s.status = "ok" /\ events = <<>>
    \/ /\ c.op = "upload" /\ Stays(r, s) /\ s.pc # "call" /\ s.buf = r.buf /\ events = <<>>
       /\ r.pc # "call" \/ Len(r.buf) = Size
       /\ s.pc = "answer" => s.digest = c.oid
    \/ /\ c.op = "upload" /\ Stays(r, s) /\ s.pc = "call"
       /\ Len(s.buf) = Len(r.buf) + 1 /\ Len(r.buf) \in Nat
       /\ events = << Event("progress", c.oid, Len(r.buf) + 1, 0) >>
    \/ /\ Returned(r, s, <<>>)
       /\ \/ c.op = "blank" /\ events = <<>>
          \/ c.op = "init" /\ events = << Event("init", NoValue, 0, 0) >>
          \/ /\ c.op \in {"upload", "fetch"}
             /\ \E code \in {2, 3} : events = << Event("complete", c.oid, 0, code) >>
          \/ /\ c.op = "upload" /\ r.pc = "answer"
             /\ events = << Event("complete", c.oid, 0, 0) >>
          \/ /\ c.op = "fetch" /\ fs[<<RootOf(r), c.oid>>] # NoFile
             /\ events = << Event("progress", c.oid, Size, 0), Event("complete", c.oid, 0, 0) >>

Writes(p, events) == out' = [out EXCEPT ![p] = @ \o events]

LEMMA AgentAnswers ==
    ASSUME LegacyInv, NEW p \in Procs, out \in [Procs -> Seq(Events)], ProcessStep(p)
    PROVE  \/ Call(p).op \notin AgentOps /\ out' = out
           \/ /\ Call(p).op \in AgentOps
              /\ \E events : Writes(p, events) /\ AgentMove(run[p], run'[p], files, events)
<1> DEFINE r == run[p]
           s == run'[p]
           c == Call(p)
<1>1. /\ r.status = "running" /\ r \in Process /\ c = r.calls[1] /\ c.op = Op(r)
      /\ c \in AllCalls /\ Root(p) = RootOf(r) /\ Footing(r, source, files)
      /\ r.buf \in Data
  <2>1. r.status = "running"
    BY RunningStep
  <2> QED BY <2>1, Current DEF Process
<1>2. \A t : Goes(p, t) => s = t
  BY GoesTo
<1>3. out' = out => Writes(p, <<>>)
  <2>1. out[p] \o <<>> = out[p]
    OBVIOUS
  <2>2. out = [out EXCEPT ![p] = out[p]]
    OBVIOUS
  <2> QED BY <2>1, <2>2 DEF Writes
<1>4. /\ \A pre : s = Returns(r, pre) => Returned(r, s, pre)
      /\ \A status : s = Ends(r, status) => s.status = status
  BY <1>1, ReturnsFields, EndsFields
<1>5. Len(r.buf) \in Nat
  BY <1>1 DEF Data
<1>6. \A pc, digest, buf :
         /\ s = [r EXCEPT !.pc = pc] =>
               Stays(r, s) /\ s.pc = pc /\ s.buf = r.buf /\ s.digest = r.digest
         /\ s = [r EXCEPT !.buf = buf] => Stays(r, s) /\ s.pc = r.pc /\ s.buf = buf
         /\ s = [r EXCEPT !.digest = digest, !.pc = pc] =>
               Stays(r, s) /\ s.pc = pc /\ s.buf = r.buf
  <2> HIDE DEF s
  <2> QED BY <1>1 DEF Stays, Process
<1>7. CASE Statement(p) \/ (StoreStep(p) /\ ~Seal(p)) \/ TransferStep(p)
  <2>1. out' = out
    BY <1>7 DEF Statement, StoreStep, HashFile, StoreBlob, VerifyPath, Fetch, OpenCopy, CopyChunk,
       EndCopy, TransferStep, ExportPackage, CopyBlobTo, Collect, WriteExportMetadata, ImportBlobs,
       ImportBlob, ImportManifest, MergeMetadata, EnsurePackage, ReadsOnly, KeepsRest
  <2>2. c.op \notin AgentOps
    BY <1>7 DEF Statement, StoreStep, HashFile, StoreBlob, VerifyPath, Fetch, OpenCopy, CopyChunk,
       EndCopy, TransferStep, ExportPackage, CopyBlobTo, Collect, WriteExportMetadata, ImportBlobs,
       ImportBlob, ImportManifest, MergeMetadata, EnsurePackage, At, Statements, Copies, AgentOps
  <2> QED BY <2>1, <2>2
<1>8. CASE Crash(p) \/ CallFails(p)
  <2>1. out' = out /\ Failed(s)
    <3>1. out' = out /\ (s = Ends(r, "crashed") \/ s = Ends(r, "fault"))
      BY <1>2, <1>8 DEF Crash, CallFails
    <3> QED BY <1>4, <3>1 DEF Failed
  <2> HIDE DEF r, s, c
  <2>2. AgentMove(r, s, files, <<>>)
    BY <2>1 DEF AgentMove
  <2> QED BY <1>3, <2>1, <2>2 DEF r, s, c
<1>9. CASE Seal(p)
  <2>1. out' = out /\ r.pc = "seal" /\ c.op \in {"store", "import_blob", "upload"}
    BY <1>9 DEF Seal, KeepsRest, At
  <2>2. CASE c.op = "upload"
    <3>1. s = [r EXCEPT !.pc = "register"]
      BY <1>2, <1>9, <2>2 DEF Seal
    <3>2. Stays(r, s) /\ s.pc = "register" /\ s.buf = r.buf
      BY <1>6, <3>1
    <3> HIDE DEF r, s, c
    <3>3. AgentMove(r, s, files, <<>>)
      BY <1>1, <2>1, <2>2, <3>2 DEF AgentMove
    <3> QED BY <1>3, <2>1, <2>2, <3>3 DEF r, s, c, AgentOps
  <2>3. CASE c.op # "upload"
    BY <2>1, <2>3 DEF AgentOps
  <2> QED BY <2>2, <2>3
<1>10. CASE ReadUpload(p)
  <2> DEFINE buf == Append(r.buf, Bytes(c.input)[Len(r.buf) + 1])
             events == << Event("progress", c.oid, Len(r.buf) + 1, 0) >>
  <2>1. r.pc = "call" /\ c.op = "upload" /\ Writes(p, events)
    BY <1>10 DEF ReadUpload, At, Sends, Writes
  <2>2. s = [r EXCEPT !.buf = Append(@, Bytes(c.input)[Len(@) + 1])]
    BY <1>2, <1>10 DEF ReadUpload
  <2>3. s = [r EXCEPT !.buf = buf]
    BY <1>1, <2>2 DEF Process
  <2>4. Len(buf) = Len(r.buf) + 1
    BY <1>1 DEF Data
  <2> HIDE DEF buf
  <2>5. Stays(r, s) /\ s.pc = "call" /\ Len(s.buf) = Len(r.buf) + 1
    BY <1>6, <2>1, <2>3, <2>4
  <2> HIDE DEF r, s, c, events
  <2>6. AgentMove(r, s, files, events)
    BY <1>1, <1>5, <2>1, <2>5 DEF AgentMove, events
  <2> QED BY <2>1, <2>6 DEF r, s, c, AgentOps
<1>11. CASE StoreBlobWithProgress(p)
  <2> DEFINE pc == IF Exists(Root(p), r.buf) THEN "register" ELSE "persist"
  <2>1. r.pc = "call" /\ c.op = "upload" /\ out' = out /\ s = [r EXCEPT !.digest = r.buf, !.pc = pc]
    BY <1>2, <1>11 DEF StoreBlobWithProgress, At, ReadsOnly
  <2>2. Len(r.buf) = Size
    <3>1. r.buf \in Digest
      BY <1>11, HashedDigest DEF StoreBlobWithProgress, At
    <3> QED BY <3>1, BlobIsFile
  <2>3. pc \in {"register", "persist"}
    OBVIOUS
  <2> HIDE DEF pc
  <2>4. Stays(r, s) /\ s.pc = pc /\ s.buf = r.buf
    BY <1>6, <2>1
  <2> HIDE DEF r, s, c
  <2>5. AgentMove(r, s, files, <<>>)
    BY <1>1, <2>1, <2>2, <2>3, <2>4 DEF AgentMove
  <2> QED BY <1>3, <2>1, <2>5 DEF r, s, c, AgentOps
<1>12. CASE Persist(p)
  <2>1. r.pc = "persist" /\ c.op = "upload" /\ out' = out /\ s = [r EXCEPT !.pc = "seal"]
    BY <1>12 DEF Persist, At, KeepsRest
  <2>2. Stays(r, s) /\ s.pc = "seal" /\ s.buf = r.buf
    BY <1>6, <2>1
  <2> HIDE DEF r, s, c
  <2>3. AgentMove(r, s, files, <<>>)
    BY <1>1, <2>1, <2>2 DEF AgentMove
  <2> QED BY <1>3, <2>1, <2>3 DEF r, s, c, AgentOps
<1>13. CASE Register(p) \/ (UploadCallFails(p) /\ ~UploadFails(p))
  <2>1. /\ r.pc = "register" /\ c.op = "upload" /\ out' = out /\ r.digest = c.oid
        /\ s = [r EXCEPT !.pc = "answer"]
    BY <1>2, <1>13 DEF Register, UploadCallFails, At
  <2>2. Stays(r, s) /\ s.pc = "answer" /\ s.buf = r.buf /\ s.digest = r.digest
    BY <1>6, <2>1
  <2> HIDE DEF r, s, c
  <2>3. AgentMove(r, s, files, <<>>)
    BY <1>1, <2>1, <2>2 DEF AgentMove
  <2> QED BY <1>3, <2>1, <2>3 DEF r, s, c, AgentOps
<1>14. ASSUME NEW code \in {2, 3}, Writes(p, << Event("complete", c.oid, 0, code) >>),
              s = Returns(r, <<>>), c.op \in {"upload", "fetch"}
       PROVE  \E events : Writes(p, events) /\ AgentMove(r, s, files, events)
  <2>1. Returned(r, s, <<>>)
    BY <1>4, <1>14
  <2> HIDE DEF r, s, c
  <2>2. AgentMove(r, s, files, << Event("complete", c.oid, 0, code) >>)
    BY <1>1, <1>14, <2>1 DEF AgentMove
  <2> QED BY <1>14, <2>2
<1>15. CASE Mismatch(p) \/ MissingUpload(p) \/ (UploadCallFails(p) /\ UploadFails(p))
  <2>1. /\ c.op = "upload" /\ s = Returns(r, <<>>)
        /\ \E code \in {2, 3} : Writes(p, << Event("complete", c.oid, 0, code) >>)
    BY <1>2, <1>15 DEF Mismatch, MissingUpload, UploadCallFails, UploadFails, Sends, At, Writes
  <2> HIDE DEF r, s, c
  <2>2. \E events : Writes(p, events) /\ AgentMove(r, s, files, events)
    BY <1>14, <2>1
  <2> QED BY <2>1, <2>2 DEF r, s, c, AgentOps
<1>16. CASE CompleteUpload(p)
  <2> DEFINE events == << Event("complete", c.oid, 0, 0) >>
  <2>1. r.pc = "answer" /\ c.op = "upload" /\ s = Returns(r, <<>>) /\ Writes(p, events)
    BY <1>2, <1>16 DEF CompleteUpload, At, Sends, Writes
  <2>2. Returned(r, s, <<>>)
    BY <1>4, <2>1
  <2> HIDE DEF r, s, c, events
  <2>3. AgentMove(r, s, files, events)
    BY <1>1, <2>1, <2>2 DEF AgentMove, events
  <2> QED BY <2>1, <2>3 DEF r, s, c, AgentOps
<1>17. CASE HandleDownload(p)
  <2>1. c.op = "fetch" /\ s = Returns(r, <<>>)
    BY <1>2, <1>17 DEF HandleDownload, At
  <2>2. CASE Exists(Root(p), c.oid)
    <3> DEFINE events == << Event("progress", c.oid, Size, 0), Event("complete", c.oid, 0, 0) >>
    <3>1. Writes(p, events)
      BY <1>17, <2>2 DEF HandleDownload, Sends, Writes
    <3>2. Returned(r, s, <<>>) /\ files[<<RootOf(r), c.oid>>] # NoFile
      BY <1>1, <1>4, <2>1, <2>2 DEF Exists
    <3> HIDE DEF r, s, c, events
    <3>3. AgentMove(r, s, files, events)
      BY <1>1, <2>1, <3>2 DEF AgentMove, events
    <3> QED BY <2>1, <3>1, <3>3 DEF r, s, c, AgentOps
  <2>3. CASE ~Exists(Root(p), c.oid)
    <3>1. Writes(p, << Event("complete", c.oid, 0, 2) >>)
      BY <1>17, <2>3 DEF HandleDownload, Sends, Writes
    <3> HIDE DEF r, s, c
    <3>2. \E events : Writes(p, events) /\ AgentMove(r, s, files, events)
      BY <1>14, <2>1, <3>1
    <3> QED BY <2>1, <3>2 DEF r, s, c, AgentOps
  <2> QED BY <2>2, <2>3
<1>18. CASE AgentLine(p)
  <2>1. c.op \in {"init", "blank", "unparsable", "terminate"}
    BY <1>18 DEF AgentLine, At
  <2>2. /\ Writes(p, IF c.op = "init" THEN << Event("init", NoValue, 0, 0) >> ELSE <<>>)
        /\ c.op \in {"init", "blank"} => s = Returns(r, <<>>)
        /\ c.op = "unparsable" => s = Ends(r, "err")
        /\ c.op = "terminate" => s = Ends(r, "ok")
    BY <1>2, <1>18, <2>1 DEF AgentLine, Sends, Writes
  <2>3. /\ c.op \in {"init", "blank"} => Returned(r, s, <<>>)
        /\ c.op = "unparsable" => Failed(s)
        /\ c.op = "terminate" => s.status = "ok"
    BY <1>4, <2>2 DEF Failed
  <2> HIDE DEF r, s, c
  <2>4. AgentMove(r, s, files, IF c.op = "init" THEN << Event("init", NoValue, 0, 0) >> ELSE <<>>)
    BY <1>1, <2>1, <2>3 DEF AgentMove
  <2> QED BY <2>1, <2>2, <2>4 DEF r, s, c, AgentOps
<1> QED BY <1>7, <1>8, <1>9, <1>10, <1>11, <1>12, <1>13, <1>15, <1>16, <1>17, <1>18
        DEF ProcessStep, Step, StoreStep, AgentStep

-----------------------------------------------------------------------------
(* What the agent has answered.                                             *)

RequestOps == {"init", "upload", "fetch"}
RequestsIn(input, n) == {i \in 1..n : input[i].op \in RequestOps}

(* The events e answer the requests among the first n lines, one by one.    *)
Dealt(input, n, e) ==
    \E f : /\ Paired(f, RequestsIn(input, n), Answers(e))
          /\ \A i \in RequestsIn(input, n) : Answered(input[i], e[f[i]])

(* Whoever is told that a blob is complete finds it, after the report of    *)
(* its last byte.                                                           *)
Succeeds(e, root, fs) ==
    \A j \in 1..Len(e) :
        e[j].event = "complete" /\ e[j].code = 0 =>
            /\ fs[<<root, e[j].oid>>] # NoFile
            /\ Size # 0 => j > 1 /\ e[j - 1] = Event("progress", e[j].oid, Size, 0)

NoEnd(input, n) == \A i \in 1..n : input[i].op # "terminate"

(* The agent has dealt with n lines, and is at the next one or done.        *)
AgentAt(r, input, n) ==
    \/ /\ r.status = "running" /\ n + Len(r.calls) = Len(input) /\ NoEnd(input, n)
       /\ \A i \in 1..Len(r.calls) : r.calls[i] = input[n + i]
    \/ r.status = "ok" /\ n = Len(input) /\ NoEnd(input, n)
    \/ r.status = "ok" /\ n > 0 /\ input[n].op = "terminate" /\ NoEnd(input, n - 1)

(* An upload has reported all it has read, and asks no more once it is done. *)
Uploading(r, e) ==
    r.status = "running" /\ Op(r) = "upload" =>
        /\ Len(r.buf) # 0 =>
              Len(e) # 0 /\ e[Len(e)] = Event("progress", r.calls[1].oid, Len(r.buf), 0)
        /\ r.pc # "call" => Len(r.buf) = Size
        /\ r.pc = "answer" => r.digest = r.calls[1].oid

AgentOK(r, e, fs) ==
    LET c == r.script[r.next] IN
    r.status \in {"running", "ok"} /\ c.cmd = "lfs-agent" =>
        /\ Succeeds(e, c.root, fs) /\ Uploading(r, e)
        /\ \E n \in 0..Len(c.input) : Dealt(c.input, n, e) /\ AgentAt(r, c.input, n)

AgentInv ==
    /\ out \in [Procs -> Seq(Events)]
    /\ \A p \in Procs : AgentOK(run[p], out[p], files)

LEMMA LineShape ==
    ASSUME NEW c \in Lines
    PROVE  c.op \in AgentOps /\ (c.op \in {"upload", "fetch"} => c.oid \in Digest)
BY DEF Lines, AgentOps

(* Events that answer nothing, after a line that asks nothing or none.      *)
LEMMA DealtSilently ==
    ASSUME NEW input, NEW n \in Nat, NEW e \in Seq(Events), NEW more \in Seq(Events),
           Dealt(input, n, e), NEW m \in {n, n + 1}, m = n + 1 => input[m].op \notin RequestOps,
           \A i \in 1..Len(more) : more[i].event = "progress"
    PROVE  Dealt(input, m, e \o more)
<1> DEFINE all == e \o more
<1>1. /\ all \in Seq(Events) /\ Len(all) = Len(e) + Len(more) /\ Len(e) \in Nat /\ Len(more) \in Nat
      /\ \A i \in 1..Len(e) : all[i] = e[i]
      /\ \A i \in 1..Len(all) :
            \/ i \in 1..Len(e) /\ all[i] = e[i]
            \/ i - Len(e) \in 1..Len(more) /\ i > Len(e) /\ all[i] = more[i - Len(e)]
  BY Concatenation
<1> HIDE DEF all
<1>2. DOMAIN all = 1..Len(all) /\ DOMAIN e = 1..Len(e)
  BY <1>1
<1>3. Answers(all) = Answers(e)
  <2>1. \A i \in 1..Len(all) : all[i].event \in {"init", "complete"} => i \in 1..Len(e) /\ all[i] = e[i]
    BY <1>1
  <2>2. \A i \in 1..Len(e) : i \in 1..Len(all) /\ all[i] = e[i]
    BY <1>1
  <2>3. /\ Answers(all) = {j \in 1..Len(all) : all[j].event \in {"init", "complete"}}
        /\ Answers(e) = {j \in 1..Len(e) : e[j].event \in {"init", "complete"}}
    BY <1>2 DEF Answers
  <2> QED BY <2>1, <2>2, <2>3
<1>4. RequestsIn(input, m) = RequestsIn(input, n)
  BY DEF RequestsIn
<1>5. PICK f : /\ Paired(f, RequestsIn(input, n), Answers(e))
               /\ \A i \in RequestsIn(input, n) : Answered(input[i], e[f[i]])
  BY DEF Dealt
<1>6. \A i \in RequestsIn(input, n) : f[i] \in 1..Len(e)
  BY <1>2, <1>5 DEF Paired, Answers
<1>7. \A i \in RequestsIn(input, n) : Answered(input[i], all[f[i]])
  BY <1>1, <1>5, <1>6
<1>8. Dealt(input, m, all)
  BY <1>3, <1>4, <1>5, <1>7 DEF Dealt
<1> QED BY <1>8 DEF all

(* A request, and the events that end with its answer.                      *)
LEMMA DealtWith ==
    ASSUME NEW input, NEW n \in Nat, NEW e \in Seq(Events), NEW more \in Seq(Events),
           Dealt(input, n, e), input[n + 1].op \in RequestOps,
           Len(more) >= 1, Answered(input[n + 1], more[Len(more)]),
           \A i \in 1..Len(more) : i # Len(more) => more[i].event = "progress"
    PROVE  Dealt(input, n + 1, e \o more)
<1> DEFINE all == e \o more
           A == RequestsIn(input, n)
           B == Answers(e)
<1>1. /\ all \in Seq(Events) /\ Len(all) = Len(e) + Len(more) /\ Len(e) \in Nat /\ Len(more) \in Nat
      /\ \A i \in 1..Len(e) : all[i] = e[i]
      /\ \A i \in 1..Len(more) : all[Len(e) + i] = more[i]
      /\ \A i \in 1..Len(all) :
            \/ i \in 1..Len(e) /\ all[i] = e[i]
            \/ i - Len(e) \in 1..Len(more) /\ i > Len(e) /\ all[i] = more[i - Len(e)]
  BY Concatenation
<1> HIDE DEF all
<1>2. DOMAIN all = 1..Len(all) /\ DOMAIN e = 1..Len(e)
  BY <1>1
<1>3. Len(all) \in 1..Len(all) /\ all[Len(all)] = more[Len(more)] /\ Len(all) > Len(e)
  <2>1. Len(more) \in 1..Len(more)
    BY <1>1
  <2> QED BY <1>1, <2>1
<1>4. more[Len(more)].event \in {"init", "complete"}
  BY DEF Answered
<1>5. Answers(all) = B \cup {Len(all)}
  <2>1. ASSUME NEW j \in 1..Len(all), all[j].event \in {"init", "complete"}
        PROVE  j \in B \cup {Len(all)}
    <3>1. CASE j \in 1..Len(e) /\ all[j] = e[j]
      BY <1>2, <2>1, <3>1 DEF Answers
    <3>2. CASE j - Len(e) \in 1..Len(more) /\ j > Len(e) /\ all[j] = more[j - Len(e)]
      <4>1. j - Len(e) = Len(more)
        BY <2>1, <3>2
      <4>2. j \in Nat /\ j = Len(all)
        BY <1>1, <2>1, <4>1
      <4> QED BY <4>2
    <3> QED BY <1>1, <3>1, <3>2
  <2>2. \A j \in B : j \in 1..Len(all) /\ all[j].event \in {"init", "complete"}
    BY <1>1, <1>2 DEF Answers
  <2>3. Len(all) \in Answers(all)
    BY <1>2, <1>3, <1>4 DEF Answers
  <2>4. Answers(all) = {j \in 1..Len(all) : all[j].event \in {"init", "complete"}}
    BY <1>2 DEF Answers
  <2> HIDE DEF B
  <2> QED BY <2>1, <2>2, <2>3, <2>4
<1>6. RequestsIn(input, n + 1) = A \cup {n + 1}
  BY DEF RequestsIn
<1>7. PICK f : Paired(f, A, B) /\ \A i \in A : Answered(input[i], e[f[i]])
  BY DEF Dealt
<1>8. /\ A \subseteq Nat /\ B \subseteq Nat /\ \A i \in A : i < n + 1 /\ i # n + 1
      /\ \A j \in B : j < Len(all) /\ j \in 1..Len(e)
  <2>1. B \subseteq 1..Len(e)
    BY <1>2 DEF Answers
  <2>2. \A j \in 1..Len(e) : j < Len(all) /\ j \in Nat
    BY <1>1, <1>3
  <2>3. \A i \in A : i \in 1..n
    BY DEF RequestsIn
  <2> HIDE DEF A, B
  <2> QED BY <2>1, <2>2, <2>3
<1> DEFINE g == [i \in A \cup {n + 1} |-> IF i = n + 1 THEN Len(all) ELSE f[i]]
<1>9. Paired(g, A \cup {n + 1}, B \cup {Len(all)})
  <2> HIDE DEF A, B
  <2>1. Len(all) \in Nat /\ n + 1 \in Nat
    BY <1>1
  <2> QED BY <1>7, <1>8, <2>1, PairAdded
<1>10. ASSUME NEW i \in A \cup {n + 1} PROVE Answered(input[i], all[g[i]])
  <2>1. CASE i = n + 1
    BY <1>3, <2>1
  <2>2. CASE i # n + 1
    <3>1. i \in A /\ g[i] = f[i]
      BY <2>2
    <3>2. f[i] \in B
      BY <1>7, <3>1 DEF Paired
    <3>3. all[f[i]] = e[f[i]]
      BY <1>1, <1>8, <3>2
    <3> QED BY <1>7, <3>1, <3>3
  <2> QED BY <2>1, <2>2
<1>11. Dealt(input, n + 1, all)
  <2> HIDE DEF g, A, B
  <2> QED BY <1>5, <1>6, <1>9, <1>10 DEF Dealt
<1> QED BY <1>11 DEF all

LEMMA SucceedsWith ==
    ASSUME NEW e \in Seq(Events), NEW more \in Seq(Events), NEW root, NEW fs, Succeeds(e, root, fs),
           \A j \in 1..Len(more) :
              more[j].event = "complete" /\ more[j].code = 0 =>
                 /\ fs[<<root, more[j].oid>>] # NoFile
                 /\ Size # 0 =>
                       \/ j > 1 /\ more[j - 1] = Event("progress", more[j].oid, Size, 0)
                       \/ j = 1 /\ Len(e) # 0 /\ e[Len(e)] = Event("progress", more[j].oid, Size, 0)
    PROVE  Succeeds(e \o more, root, fs)
<1> DEFINE all == e \o more
<1>1. /\ Len(e) \in Nat /\ Len(more) \in Nat /\ Len(all) = Len(e) + Len(more)
      /\ \A i \in 1..Len(e) : all[i] = e[i]
      /\ \A i \in 1..Len(more) : all[Len(e) + i] = more[i]
      /\ \A i \in 1..Len(all) :
            \/ i \in 1..Len(e) /\ all[i] = e[i]
            \/ i - Len(e) \in 1..Len(more) /\ i > Len(e) /\ all[i] = more[i - Len(e)]
  BY Concatenation
<1> HIDE DEF all
<1>2. ASSUME NEW j \in 1..Len(all), all[j].event = "complete", all[j].code = 0
      PROVE  /\ fs[<<root, all[j].oid>>] # NoFile
             /\ Size # 0 => j > 1 /\ all[j - 1] = Event("progress", all[j].oid, Size, 0)
  <2>1. CASE j \in 1..Len(e) /\ all[j] = e[j]
    <3>1. /\ fs[<<root, e[j].oid>>] # NoFile
          /\ Size # 0 => j > 1 /\ e[j - 1] = Event("progress", e[j].oid, Size, 0)
      BY <1>2, <2>1 DEF Succeeds
    <3>2. j > 1 => all[j - 1] = e[j - 1]
      <4>1. j > 1 => j - 1 \in 1..Len(e)
        BY <1>1, <2>1
      <4> QED BY <1>1, <4>1
    <3> QED BY <2>1, <3>1, <3>2
  <2>2. CASE j - Len(e) \in 1..Len(more) /\ j > Len(e) /\ all[j] = more[j - Len(e)]
    <3> DEFINE k == j - Len(e)
    <3>1. /\ fs[<<root, more[k].oid>>] # NoFile
          /\ Size # 0 =>
                \/ k > 1 /\ more[k - 1] = Event("progress", more[k].oid, Size, 0)
                \/ k = 1 /\ Len(e) # 0 /\ e[Len(e)] = Event("progress", more[k].oid, Size, 0)
      BY <1>2, <2>2
    <3>2. k > 1 => all[j - 1] = more[k - 1]
      <4>1. k > 1 => k - 1 \in 1..Len(more) /\ Len(e) + (k - 1) = j - 1
        BY <1>1, <2>2
      <4> QED BY <1>1, <4>1
    <3>3. k = 1 /\ Len(e) # 0 => all[j - 1] = e[Len(e)] /\ j > 1
      <4>1. k = 1 => j - 1 = Len(e)
        BY <1>1
      <4>2. Len(e) # 0 => Len(e) \in 1..Len(e)
        BY <1>1
      <4> QED BY <1>1, <4>1, <4>2
    <3>4. k > 1 => j > 1
      BY <1>1, <2>2
    <3> HIDE DEF k
    <3>5. all[j] = more[k]
      BY <2>2 DEF k
    <3> QED BY <3>1, <3>2, <3>3, <3>4, <3>5
  <2> QED BY <1>1, <2>1, <2>2
<1>3. Succeeds(all, root, fs)
  BY <1>2 DEF Succeeds
<1> QED BY <1>3 DEF all

LEMMA MoreTyped ==
    ASSUME NEW r, NEW s, NEW fs, NEW more, r.calls[1] \in Lines, AgentMove(r, s, fs, more)
    PROVE  more \in Seq(Events) /\ Len(more) \in Nat
<1> DEFINE c == r.calls[1]
<1>1. (c.op \in {"upload", "fetch"} => c.oid \in Digest) /\ Size \in Nat
  BY LineShape, LegacyAssumption
<1>2. \A size \in Nat, code \in Nat :
         /\ Event("init", NoValue, size, code) \in Events
         /\ c.op \in {"upload", "fetch"} =>
               /\ Event("progress", c.oid, size, code) \in Events
               /\ Event("complete", c.oid, size, code) \in Events
  BY <1>1 DEF Event, Events
<1> HIDE DEF c
<1>3. \/ more = <<>> \/ \E a \in Events : more = <<a>>
      \/ \E a, b \in Events : more = <<a, b>>
  BY <1>1, <1>2 DEF AgentMove, c
<1>4. \A E, a, b : /\ <<>> \in Seq(E)
                   /\ a \in E => <<a>> \in Seq(E)
                   /\ a \in E /\ b \in E => <<a, b>> \in Seq(E)
  OBVIOUS
<1>5. more \in Seq(Events)
  BY <1>3, <1>4
<1> QED BY <1>5

(* The agent goes on from a line it has dealt with to the next.             *)
LEMMA AgentReturns ==
    ASSUME NEW r \in Process, Stage(r), r.status = "running", NEW s, Returned(r, s, <<>>),
           NEW input \in Seq(Lines), NEW n \in 0..Len(input), AgentAt(r, input, n),
           r.calls[1].op # "terminate"
    PROVE  /\ n + 1 \in 0..Len(input) /\ AgentAt(s, input, n + 1)
           /\ s.buf = <<>> /\ s.pc = "call" /\ s.status \in {"running", "ok"}
<1> DEFINE rest == Tail(r.calls)
<1>1. /\ Len(r.calls) \in Nat /\ Len(r.calls) >= 1 /\ Len(rest) = Len(r.calls) - 1
      /\ rest \in Seq(AllCalls) /\ s.calls = rest
      /\ \A i \in 1..Len(rest) : rest[i] = r.calls[i + 1] /\ i + 1 \in 1..Len(r.calls)
  BY HeadTyped DEF Returned
<1>2. s.status = (IF rest = <<>> THEN "ok" ELSE "running") /\ s.buf = <<>> /\ s.pc = "call"
  BY <1>1 DEF Returned
<1> HIDE DEF rest
<1>3. /\ n + Len(r.calls) = Len(input) /\ NoEnd(input, n) /\ n \in Nat /\ Len(input) \in Nat
      /\ \A i \in 1..Len(r.calls) : r.calls[i] = input[n + i]
  BY DEF AgentAt
<1>4. NoEnd(input, n + 1)
  <2>1. 1 \in 1..Len(r.calls)
    BY <1>1
  <2>2. input[n + 1].op # "terminate"
    BY <1>3, <2>1
  <2> QED BY <1>3, <2>2 DEF NoEnd
<1>5. n + 1 \in 0..Len(input) /\ (n + 1) + Len(rest) = Len(input)
  <2> DEFINE k == Len(input)
             m == Len(r.calls)
             l == Len(rest)
  <2>1. n \in Nat /\ m \in Nat /\ m >= 1 /\ k \in Nat /\ n + m = k /\ l = m - 1
    BY <1>1, <1>3
  <2> HIDE DEF k, m, l
  <2>2. n + 1 \in 0..k
    BY ONLY <2>1
  <2>3. (n + 1) + l = k
    BY ONLY <2>1
  <2> QED BY <2>2, <2>3 DEF k, l
<1>6. ASSUME NEW i \in 1..Len(rest) PROVE rest[i] = input[(n + 1) + i]
  <2>1. rest[i] = r.calls[i + 1] /\ i + 1 \in 1..Len(r.calls)
    BY <1>1
  <2>2. r.calls[i + 1] = input[n + (i + 1)]
    BY <1>3, <2>1
  <2>3. n + (i + 1) = (n + 1) + i
    BY <1>1, <1>3
  <2> QED BY <2>1, <2>2, <2>3
<1>7. rest = <<>> => n + 1 = Len(input)
  <2>1. rest = <<>> => Len(rest) = 0
    OBVIOUS
  <2>2. Len(rest) = 0 => n + 1 = Len(input)
    BY <1>3, <1>5
  <2> QED BY <2>1, <2>2
<1> QED BY <1>1, <1>2, <1>4, <1>5, <1>6, <1>7 DEF AgentAt

LEMMA AgentStepKept ==
    ASSUME NEW r \in Process, Stage(r), r.status = "running", NEW s,
           s.script = r.script, s.next = r.next,
           r.script[r.next].cmd = "lfs-agent", NEW e \in Seq(Events), NEW fs, AgentOK(r, e, fs),
           r.pc = "answer" => HasFile(r, fs),
           NEW more \in Seq(Events), AgentMove(r, s, fs, more)
    PROVE  AgentOK(s, e \o more, fs)
<1> DEFINE input == r.script[r.next].input
           root == r.script[r.next].root
           c == r.calls[1]
           all == e \o more
<1>1. input \in Seq(Lines) /\ root = RootOf(r) /\ s.script[s.next] = r.script[r.next]
  <2>1. r.script[r.next] \in Commands
    BY RootTyped
  <2>2. r.script[r.next] \in [cmd : {"lfs-agent"}, root : Roots, input : Seq(Lines)]
    BY <2>1 DEF Commands, Urls
  <2> QED BY <2>2 DEF RootOf
<1>2. /\ Succeeds(e, root, fs) /\ Uploading(r, e)
      /\ \E n \in 0..Len(input) : Dealt(input, n, e) /\ AgentAt(r, input, n)
  BY DEF AgentOK
<1>3. PICK n \in 0..Len(input) : Dealt(input, n, e) /\ AgentAt(r, input, n)
  BY <1>2
<1>4. Len(r.calls) \in Nat /\ Len(r.calls) >= 1 /\ 1 \in 1..Len(r.calls)
  BY HeadTyped
<1>5. n \in Nat /\ n + 1 \in 1..Len(input) /\ c = input[n + 1] /\ NoEnd(input, n)
  <2>1. n + Len(r.calls) = Len(input) /\ c = input[n + 1] /\ NoEnd(input, n)
    BY <1>3, <1>4 DEF AgentAt
  <2> DEFINE k == Len(input)
             m == Len(r.calls)
  <2>2. n \in Nat /\ k \in Nat /\ m \in Nat /\ m >= 1 /\ n + m = k
    BY <1>1, <1>4, <2>1
  <2> HIDE DEF k, m
  <2>3. n + 1 \in 1..k
    BY ONLY <2>2
  <2> QED BY <2>1, <2>2, <2>3 DEF k
<1>6. Op(r) = c.op /\ c \in Lines
  BY <1>1, <1>5 DEF Op
<1> HIDE DEF input, root, c, all
<1>7. SUFFICES ASSUME s.status \in {"running", "ok"}
               PROVE  /\ Succeeds(all, root, fs) /\ Uploading(s, all)
                      /\ \E m \in 0..Len(input) : Dealt(input, m, all) /\ AgentAt(s, input, m)
  BY <1>1 DEF AgentOK, all, root, input
(* The events are those there were, and nothing is said of what is new.     *)
<1>8. CASE more = <<>>
  <2>1. all = e
    BY <1>8 DEF all
  <2>2. \A m \in {n, n + 1} : (m = n + 1 => c.op \notin RequestOps) => Dealt(input, m, all)
    <3>1. \A i \in 1..Len(more) : more[i].event = "progress"
      <4>1. Len(more) = 0
        BY <1>8
      <4> QED BY <4>1
    <3> QED BY <1>3, <1>5, <3>1, DealtSilently DEF all
  <2>3. CASE c.op = "terminate" /\ s.status = "ok"
    <3>1. Dealt(input, n + 1, all)
      BY <2>2, <2>3 DEF RequestOps
    <3>2. AgentAt(s, input, n + 1)
      <4>1. n + 1 > 0 /\ (n + 1) - 1 = n
        BY <1>5
      <4> QED BY <1>5, <2>3, <4>1 DEF AgentAt
    <3>3. n + 1 \in 0..Len(input)
      BY <1>5
    <3>4. Uploading(s, all)
      BY <2>3 DEF Uploading
    <3> QED BY <1>2, <2>1, <3>1, <3>2, <3>3, <3>4
  <2>4. CASE /\ c.op = "upload" /\ Stays(r, s) /\ s.pc # "call" /\ s.buf = r.buf
             /\ r.pc # "call" \/ Len(r.buf) = Size
             /\ s.pc = "answer" => s.digest = c.oid
    <3>1. s.calls = r.calls /\ s.status = "running" /\ Op(s) = "upload"
      BY <1>6, <2>4 DEF Stays, Op
    <3>2. AgentAt(s, input, n)
      BY <1>3, <3>1 DEF AgentAt
    <3>3. Dealt(input, n, all)
      BY <1>3, <2>1
    <3>4. Uploading(s, all)
      BY <1>2, <1>6, <2>1, <2>4, <3>1 DEF Uploading, c
    <3> QED BY <1>2, <1>3, <2>1, <3>2, <3>3, <3>4
  <2>5. CASE Returned(r, s, <<>>) /\ c.op = "blank"
    <3>1. /\ n + 1 \in 0..Len(input) /\ AgentAt(s, input, n + 1) /\ s.buf = <<>> /\ s.pc = "call"
      BY <1>1, <1>3, <2>5, AgentReturns DEF c
    <3>2. Dealt(input, n + 1, all)
      BY <2>2, <2>5 DEF RequestOps
    <3>3. Uploading(s, all)
      BY <3>1 DEF Uploading
    <3> QED BY <1>2, <2>1, <3>1, <3>2, <3>3
  <2>6. \A a, b : <<a>> # <<>> /\ <<a, b>> # <<>>
    OBVIOUS
  <2> QED BY <1>7, <1>8, <2>3, <2>4, <2>5, <2>6 DEF AgentMove, Failed, c
(* More of an upload has been read.                                         *)
<1>9. CASE /\ c.op = "upload" /\ Stays(r, s) /\ s.pc = "call"
           /\ Len(s.buf) = Len(r.buf) + 1 /\ Len(r.buf) \in Nat
           /\ more = << Event("progress", c.oid, Len(r.buf) + 1, 0) >>
  <2>1. s.calls = r.calls /\ s.status = "running" /\ Op(s) = "upload"
    BY <1>6, <1>9 DEF Stays, Op
  <2>2. /\ Len(more) = 1 /\ more[1] = Event("progress", c.oid, Len(s.buf), 0)
        /\ more[1].event = "progress"
    BY <1>9 DEF Event
  <2>3. Dealt(input, n, all)
    <3>1. \A i \in 1..Len(more) : more[i].event = "progress"
      BY <2>2
    <3> QED BY <1>3, <1>5, <3>1, DealtSilently DEF all
  <2>4. AgentAt(s, input, n)
    BY <1>3, <2>1 DEF AgentAt
  <2>5. Succeeds(all, root, fs)
    <3>1. \A j \in 1..Len(more) : more[j].event # "complete"
      BY <2>2
    <3> QED BY <1>2, <3>1, SucceedsWith DEF all
  <2>6. Uploading(s, all)
    <3>1. Len(all) = Len(e) + 1 /\ all[Len(all)] = more[1] /\ Len(all) # 0
      <4>1. Len(e) \in Nat /\ Len(all) = Len(e) + 1 /\ all[Len(e) + 1] = more[1]
        <5>1. 1 \in 1..Len(more) /\ Len(e) \in Nat
          BY <2>2
        <5>2. Len(all) = Len(e) + Len(more) /\ \A i \in 1..Len(more) : all[Len(e) + i] = more[i]
          BY Concatenation DEF all
        <5> QED BY <2>2, <5>1, <5>2
      <4> QED BY <4>1
    <3> QED BY <1>9, <2>1, <2>2, <3>1 DEF Uploading, c
  <2> QED BY <1>3, <2>3, <2>4, <2>5, <2>6
(* An answer.                                                               *)
<1>10. ASSUME Returned(r, s, <<>>), c.op \in RequestOps, Len(more) \in {1, 2},
              Answered(c, more[Len(more)]),
              \A i \in 1..Len(more) : i # Len(more) => more[i].event = "progress",
              Succeeds(all, root, fs)
       PROVE  /\ Succeeds(all, root, fs) /\ Uploading(s, all)
              /\ \E m \in 0..Len(input) : Dealt(input, m, all) /\ AgentAt(s, input, m)
  <2>1. c.op # "terminate"
    BY <1>10 DEF RequestOps
  <2>2. /\ n + 1 \in 0..Len(input) /\ AgentAt(s, input, n + 1) /\ s.buf = <<>> /\ s.pc = "call"
    BY <1>1, <1>3, <1>10, <2>1, AgentReturns DEF c
  <2>3. Dealt(input, n + 1, all)
    <3>1. /\ n \in Nat /\ Dealt(input, n, e) /\ input[n + 1].op \in RequestOps /\ Len(more) >= 1
          /\ Answered(input[n + 1], more[Len(more)])
          /\ \A i \in 1..Len(more) : i # Len(more) => more[i].event = "progress"
      <4>1. n \in Nat /\ Dealt(input, n, e) /\ c = input[n + 1]
        BY <1>3, <1>5
      <4>2. Len(more) >= 1
        <5> DEFINE k == Len(more)
        <5>1. k = 1 \/ k = 2
          BY <1>10
        <5> HIDE DEF k
        <5>2. k >= 1
          BY ONLY <5>1
        <5> QED BY <5>2 DEF k
      <4> QED BY <1>10, <4>1, <4>2
    <3> QED BY <3>1, DealtWith DEF all
  <2>4. Uploading(s, all)
    BY <2>2 DEF Uploading
  <2> QED BY <1>10, <2>2, <2>3, <2>4
<1>11. CASE c.op = "init" /\ Returned(r, s, <<>>) /\ more = << Event("init", NoValue, 0, 0) >>
  <2>1. Len(more) = 1 /\ more[1].event = "init"
    BY <1>11 DEF Event
  <2>2. Succeeds(all, root, fs)
    <3>1. \A j \in 1..Len(more) : more[j].event # "complete"
      BY <2>1
    <3> QED BY <1>2, <3>1, SucceedsWith DEF all
  <2>3. Answered(c, more[Len(more)])
    BY <1>11, <2>1 DEF Answered
  <2> QED BY <1>10, <1>11, <2>1, <2>2, <2>3 DEF RequestOps
<1>12. CASE /\ c.op \in {"upload", "fetch"} /\ Returned(r, s, <<>>)
            /\ \E code \in {2, 3} : more = << Event("complete", c.oid, 0, code) >>
  <2>1. /\ Len(more) = 1 /\ more[1].event = "complete" /\ more[1].oid = c.oid
        /\ more[1].code # 0
    BY <1>12 DEF Event
  <2>2. Succeeds(all, root, fs)
    <3>1. \A j \in 1..Len(more) : more[j].code # 0
      BY <2>1
    <3> QED BY <1>2, <3>1, SucceedsWith DEF all
  <2>3. Answered(c, more[Len(more)])
    BY <1>12, <2>1 DEF Answered
  <2> QED BY <1>10, <1>12, <2>1, <2>2, <2>3 DEF RequestOps
<1>13. CASE /\ c.op = "upload" /\ r.pc = "answer" /\ Returned(r, s, <<>>)
            /\ more = << Event("complete", c.oid, 0, 0) >>
  <2>1. Len(more) = 1 /\ more[1].event = "complete" /\ more[1].oid = c.oid
    BY <1>13 DEF Event
  <2>2. Answered(c, more[Len(more)])
    BY <1>13, <2>1 DEF Answered
  <2>3. r.digest = c.oid /\ Len(r.buf) = Size
    BY <1>2, <1>6, <1>13 DEF Uploading, c
  <2>4. fs[<<root, c.oid>>] # NoFile
    BY <1>1, <1>13, <2>3 DEF HasFile
  <2>5. Size # 0 => Len(e) # 0 /\ e[Len(e)] = Event("progress", c.oid, Size, 0)
    BY <1>2, <1>6, <1>13, <2>3 DEF Uploading, c
  <2>6. Succeeds(all, root, fs)
    <3>1. \A j \in 1..Len(more) : j = 1
      BY <2>1
    <3> QED BY <1>2, <2>1, <2>4, <2>5, <3>1, SucceedsWith DEF all
  <2> QED BY <1>10, <1>13, <2>1, <2>2, <2>6 DEF RequestOps
<1>14. CASE /\ c.op = "fetch" /\ fs[<<RootOf(r), c.oid>>] # NoFile /\ Returned(r, s, <<>>)
            /\ more = << Event("progress", c.oid, Size, 0), Event("complete", c.oid, 0, 0) >>
  <2>1. /\ Len(more) = 2 /\ more[2].event = "complete" /\ more[2].oid = c.oid
        /\ more[1].event = "progress" /\ more[1] = Event("progress", c.oid, Size, 0)
    BY <1>14 DEF Event
  <2>2. Answered(c, more[Len(more)])
    BY <1>14, <2>1 DEF Answered
  <2>3. \A j \in 1..Len(more) : j = 1 \/ j = 2
    BY <2>1
  <2>4. Succeeds(all, root, fs)
    <3>1. ASSUME NEW j \in 1..Len(more), more[j].event = "complete", more[j].code = 0
          PROVE  /\ fs[<<root, more[j].oid>>] # NoFile
                 /\ j > 1 /\ more[j - 1] = Event("progress", more[j].oid, Size, 0)
      <4>1. j = 2 /\ j > 1 /\ j - 1 = 1
        BY <2>1, <2>3, <3>1
      <4> QED BY <1>1, <1>14, <2>1, <4>1
    <3> QED BY <1>2, <3>1, SucceedsWith DEF all
  <2>5. \A i \in 1..Len(more) : i # Len(more) => more[i].event = "progress"
    BY <2>1, <2>3
  <2> QED BY <1>10, <1>14, <2>1, <2>2, <2>4, <2>5 DEF RequestOps
<1> QED BY <1>7, <1>8, <1>9, <1>11, <1>12, <1>13, <1>14 DEF AgentMove, Failed, c

(* What the agent has answered stays true while others go on.               *)
LEMMA AgentOKKept ==
    ASSUME NEW r \in Process, Stage(r), NEW s, SamePlace(r, s), NEW e \in Seq(Events),
           NEW fs, NEW fs2, AgentOK(r, e, fs),
           \A t \in Places \X Digest : fs[t] # NoFile => fs2[t] # NoFile
    PROVE  AgentOK(s, e, fs2)
<1> DEFINE c == r.script[r.next]
<1>1. s.script[s.next] = c /\ s.status = r.status /\ s.calls = r.calls /\ s.pc = r.pc
      /\ s.buf = r.buf /\ s.digest = r.digest
  BY DEF SamePlace
<1> HIDE DEF c
<1>2. SUFFICES ASSUME r.status \in {"running", "ok"}, c.cmd = "lfs-agent"
               PROVE  AgentOK(s, e, fs2)
  BY <1>1 DEF AgentOK
<1>3. /\ Succeeds(e, c.root, fs) /\ Uploading(r, e)
      /\ \E n \in 0..Len(c.input) : Dealt(c.input, n, e) /\ AgentAt(r, c.input, n)
  BY <1>2 DEF AgentOK, c
<1>4. c.root \in Places
  BY <1>2, RootTyped DEF c, RootOf
<1>5. ASSUME NEW j \in 1..Len(e), e[j].event = "complete" PROVE e[j].oid \in Digest
  <2>1. e[j] \in Events
    OBVIOUS
  <2> QED BY <1>5, <2>1 DEF Events
<1>6. Succeeds(e, c.root, fs2)
  BY <1>3, <1>4, <1>5 DEF Succeeds
<1>7. Uploading(s, e)
  BY <1>1, <1>3 DEF Uploading, Op
<1>8. \A n : AgentAt(r, c.input, n) => AgentAt(s, c.input, n)
  BY <1>1 DEF AgentAt
<1> QED BY <1>1, <1>3, <1>6, <1>7, <1>8 DEF AgentOK

LEMMA AgentStarts ==
    ASSUME NEW s, s.script[s.next] \in Commands, s.calls = Calls(s.script[s.next]), s.buf = <<>>,
           s.pc = "call",
           s.status = IF Calls(s.script[s.next]) = <<>> THEN "ok" ELSE "running", NEW fs
    PROVE  AgentOK(s, <<>>, fs)
<1> DEFINE c == s.script[s.next]
           input == c.input
<1>1. SUFFICES ASSUME c.cmd = "lfs-agent" PROVE AgentOK(s, <<>>, fs)
  BY DEF AgentOK
<1>2. input \in Seq(Lines) /\ s.calls = input /\ s.status = IF input = <<>> THEN "ok" ELSE "running"
  BY <1>1 DEF Calls, Commands, Urls
<1> HIDE DEF input
<1>3. Len(input) \in Nat /\ (input = <<>> => Len(input) = 0) /\ 0 \in 0..Len(input)
  BY <1>2
<1>4. AgentAt(s, input, 0)
  <2>1. \A i \in 1..Len(input) : input[0 + i] = input[i]
    BY <1>3
  <2>2. NoEnd(input, 0)
    BY DEF NoEnd
  <2>3. 0 + Len(input) = Len(input)
    BY <1>3
  <2> QED BY <1>2, <1>3, <2>1, <2>2, <2>3 DEF AgentAt
<1>5. Dealt(input, 0, <<>>)
  <2> DEFINE f == [i \in {} |-> 0]
  <2>1. RequestsIn(input, 0) = {} /\ Answers(<<>>) = {}
    BY DEF RequestsIn, Answers
  <2>2. Paired(f, {}, {})
    BY DEF Paired
  <2> HIDE DEF f
  <2> QED BY <2>1, <2>2 DEF Dealt
<1>6. Succeeds(<<>>, c.root, fs)
  BY DEF Succeeds
<1>7. Uploading(s, <<>>)
  BY DEF Uploading
<1> QED BY <1>3, <1>4, <1>5, <1>6, <1>7 DEF AgentOK, input

LEMMA AgentInvInit == LegacyInit => AgentInv
<1> SUFFICES ASSUME LegacyInit PROVE AgentInv
  OBVIOUS
<1>1. out \in [Procs -> Seq(Events)]
  BY DEF LegacyInit
<1>2. \A p \in Procs : run[p].status = "new"
  BY DEF LegacyInit, Idle
<1> QED BY <1>1, <1>2 DEF AgentInv, AgentOK

LEMMA AgentInvStep == LegacyInv /\ AgentInv /\ [LegacyNext]_vars => AgentInv'
<1> SUFFICES ASSUME LegacyInv, AgentInv, [LegacyNext]_vars PROVE AgentInv'
  OBVIOUS
<1>1. /\ out \in [Procs -> Seq(Events)]
      /\ \A q \in Procs : /\ AgentOK(run[q], out[q], files)
                          /\ run[q] \in Process /\ Stage(run[q])
  BY DEF AgentInv, LegacyInv, ProcessOK
<1>2. \A t \in Places \X Digest : files[t] # NoFile => files'[t] # NoFile
  BY FilesStay
<1>3. ASSUME NEW q \in Procs, SamePlace(run[q], run'[q]), out'[q] = out[q]
      PROVE  AgentOK(run'[q], out'[q], files')
  <2>1. out[q] \in Seq(Events)
    BY <1>1
  <2>2. AgentOK(run'[q], out[q], files')
    BY <1>1, <1>2, <1>3, <2>1, AgentOKKept
  <2> QED BY <1>3, <2>2
<1>4. ASSUME out' = out, \A q \in Procs : SamePlace(run[q], run'[q])
      PROVE  AgentInv'
  BY <1>1, <1>3, <1>4 DEF AgentInv
<1>5. ASSUME NEW p \in Procs, Start(p) PROVE AgentInv'
  <2>1. out' = [out EXCEPT ![p] = <<>>]
    BY <1>5 DEF Start
  <2>2. AgentOK(run'[p], out'[p], files')
    <3> DEFINE s == run'[p]
    <3>1. /\ s.script[s.next] \in Commands /\ s.calls = Calls(s.script[s.next]) /\ s.buf = <<>>
          /\ s.pc = "call"
          /\ s.status = IF Calls(s.script[s.next]) = <<>> THEN "ok" ELSE "running"
      BY <1>5, StartMoves
    <3>2. out'[p] = <<>>
      BY <1>1, <2>1
    <3> HIDE DEF s
    <3>3. AgentOK(s, <<>>, files')
      BY <3>1, AgentStarts
    <3> QED BY <3>2, <3>3 DEF s
  <2>3. ASSUME NEW q \in Procs \ {p} PROVE AgentOK(run'[q], out'[q], files')
    <3>1. SamePlace(run[q], run'[q])
      BY <1>5, StartMoves
    <3>2. out'[q] = out[q]
      BY <1>1, <2>1
    <3> QED BY <1>3, <3>1, <3>2
  <2>4. out' \in [Procs -> Seq(Events)]
    BY <1>1, <2>1
  <2> QED BY <2>2, <2>3, <2>4 DEF AgentInv
<1>6. ASSUME NEW p \in Procs, ProcessStep(p) PROVE AgentInv'
  <2> DEFINE r == run[p]
             s == run'[p]
  <2>1. r.status = "running" /\ Move(r, s) /\ \A q \in Procs \ {p} : SamePlace(run[q], run'[q])
    BY <1>6, RunningStep, ProcessMoves
  <2>2. /\ Call(p) = r.calls[1] /\ Call(p) \in AllCalls /\ Position(r) /\ Footing(r, source, files)
        /\ 1 \in 1..Len(r.calls)
    BY <1>1, <2>1, Current, HeadTyped
  <2>3. AgentOK(r, out[p], files) /\ out[p] \in Seq(Events)
    BY <1>1
  <2>4. CASE Call(p).op \notin AgentOps /\ out' = out
    <3>1. r.script[r.next].cmd # "lfs-agent"
      <4> SUFFICES ASSUME r.script[r.next].cmd = "lfs-agent" PROVE FALSE
        OBVIOUS
      <4>1. PICK n \in 0..Len(r.script[r.next].input) : AgentAt(r, r.script[r.next].input, n)
        BY <2>1, <2>3 DEF AgentOK
      <4>2. Call(p) \in Lines
        <5> DEFINE input == r.script[r.next].input
        <5>1. input \in Seq(Lines)
          <6>1. r.script[r.next] \in Commands
            BY <1>1, <2>1, RootTyped
          <6> QED BY <6>1 DEF Commands, Urls
        <5>2. n + Len(r.calls) = Len(input) /\ r.calls[1] = input[n + 1] /\ n \in Nat
          BY <2>1, <2>2, <4>1 DEF AgentAt
        <5>3. Len(r.calls) \in Nat /\ Len(r.calls) >= 1
          BY <1>1, <2>1, HeadTyped
        <5> DEFINE k == Len(input)
                   m == Len(r.calls)
        <5>6. k \in Nat
          <6> HIDE DEF input
          <6> QED BY <5>1
        <5>4. n \in Nat /\ k \in Nat /\ m \in Nat /\ m >= 1 /\ n + m = k
          <6> HIDE DEF input
          <6> QED BY <5>2, <5>3, <5>6
        <5> HIDE DEF k, m
        <5>5. n + 1 \in 1..k
          BY ONLY <5>4
        <5> HIDE DEF input
        <5> QED BY <2>2, <5>1, <5>2, <5>5 DEF k
      <4> QED BY <2>4, <4>2, LineShape
    <3>2. AgentOK(s, out[p], files')
      <4>1. s.script = r.script /\ s.next = r.next
        BY <2>1 DEF Move
      <4> HIDE DEF r, s
      <4> QED BY <3>1, <4>1 DEF AgentOK
    <3> QED BY <1>1, <1>3, <2>1, <2>4, <3>2 DEF AgentInv
  <2>5. ASSUME Call(p).op \in AgentOps, NEW more, Writes(p, more), AgentMove(r, s, files, more)
        PROVE  AgentInv'
    <3>1. Call(p) \in Lines
      BY <2>2, <2>5 DEF AgentOps, AllCalls, WorkCalls, CommandCalls, AddingCalls, RemovingCalls, ImportingCalls,
                        ExportingCalls, StatementCalls
    <3>2. more \in Seq(Events)
      BY <2>2, <2>5, <3>1, MoreTyped
    <3>3. out' = [out EXCEPT ![p] = out[p] \o more]
      BY <2>5 DEF Writes
    <3>4. out[p] \o more \in Seq(Events)
      BY <2>3, <3>2
    <3>5. out' \in [Procs -> Seq(Events)] /\ out'[p] = out[p] \o more
          /\ \A q \in Procs \ {p} : out'[q] = out[q]
      BY <1>1, <3>3, <3>4
    <3>6. AgentOK(s, out[p] \o more, files)
      <4>1. s.script = r.script /\ s.next = r.next
        BY <2>1 DEF Move
      <4>2. r.pc = "answer" => HasFile(r, files)
        BY <2>1, <2>2 DEF Footing
      <4>3. r \in Process /\ Stage(r) /\ r.status = "running"
        BY <1>1, <2>1
      <4> HIDE DEF r, s
      <4>4. CASE r.script[r.next].cmd = "lfs-agent"
        BY <2>3, <2>5, <3>2, <4>1, <4>2, <4>3, <4>4, AgentStepKept
      <4>5. CASE r.script[r.next].cmd # "lfs-agent"
        BY <4>1, <4>5 DEF AgentOK
      <4> QED BY <4>4, <4>5
    <3>7. AgentOK(s, out'[p], files')
      <4>1. s \in Process /\ Stage(s)
        BY <1>6, LegacyInvStep DEF LegacyNext, ProcessStep, LegacyInv, ProcessOK
      <4>2. SamePlace(s, s)
        BY DEF SamePlace
      <4> HIDE DEF s
      <4>3. AgentOK(s, out[p] \o more, files')
        BY <1>2, <3>4, <3>6, <4>1, <4>2, AgentOKKept
      <4> QED BY <3>5, <4>3
    <3>8. ASSUME NEW q \in Procs \ {p} PROVE AgentOK(run'[q], out'[q], files')
      BY <1>3, <2>1, <3>5
    <3> QED BY <3>5, <3>7, <3>8 DEF AgentInv
  <2> QED BY <1>1, <1>6, <2>4, <2>5, AgentAnswers
<1>7. ASSUME NEW f \in Sources, NEW k \in 1..Size, NEW chunk \in Atoms, Edit(f, k, chunk)
      PROVE  AgentInv'
  BY <1>4, <1>7, EditMoves DEF Edit
<1>8. CASE UNCHANGED vars
  BY <1>4, <1>8 DEF vars, SamePlace
<1> QED BY <1>5, <1>6, <1>7, <1>8 DEF LegacyNext, ProcessStep

LEMMA AgentInvariant == LegacySpec => []AgentInv
<1>1. LegacyInit => AgentInv
  BY AgentInvInit
<1>2. LegacyInv /\ AgentInv /\ [LegacyNext]_vars => AgentInv'
  BY AgentInvStep
<1> QED BY <1>1, <1>2, LegacyInvariant, PTL DEF LegacySpec

LEMMA AgentReplied == LegacyInv /\ AgentInv => AgentReplies
<1> SUFFICES ASSUME LegacyInv, AgentInv, NEW p \in Procs,
                    run[p].status \in {"running", "ok"}, Command(p).cmd = "lfs-agent"
             PROVE  LET lines == Consumed(p)
                        requests == Requests(lines)
                        answers == Answers(out[p])
                    IN  /\ Cardinality(answers) = Cardinality(requests)
                        /\ \A i \in requests, j \in answers :
                             Before(requests, i) = Before(answers, j) => Answered(lines[i], out[p][j])
                        /\ \A j \in answers :
                             out[p][j].event = "complete" /\ out[p][j].code = 0 =>
                                /\ Exists(Root(p), out[p][j].oid)
                                /\ Size # 0 => /\ j > 1
                                               /\ out[p][j - 1] = Event("progress", out[p][j].oid, Size, 0)
  BY DEF AgentReplies
<1> DEFINE r == run[p]
           c == Command(p)
           input == c.input
           e == out[p]
           lines == Consumed(p)
           last == SelectInSeq(input, LAMBDA l : l.op = "terminate")
<1> HIDE DEF last
<1>1. /\ r \in Process /\ Stage(r) /\ c = r.script[r.next]
      /\ AgentOK(r, e, files) /\ e \in Seq(Events)
  BY DEF LegacyInv, ProcessOK, AgentInv, Command
<1>2. /\ c \in Commands
      /\ (r.status = "running") <=> (r.calls # <<>>)
      /\ r.calls \in Seq(AllCalls)
  BY <1>1, RootTyped DEF Stage, Process
<1>3. input \in Seq(Lines)
  <2>1. c.cmd = "lfs-agent" /\ c \in Commands
    BY <1>2
  <2> HIDE DEF c
  <2> QED BY <2>1 DEF Commands, Urls
<1>4. PICK n \in 0..Len(input) : Dealt(input, n, e) /\ AgentAt(r, input, n)
  BY <1>1 DEF AgentOK
<1>5. /\ last \in 0..Len(input)
      /\ \A i \in 1..Len(input) : input[i].op = "terminate" => last # 0 /\ last <= i
      /\ last # 0 => input[last].op = "terminate"
  <2> HIDE DEF input
  <2> QED BY <1>3, FirstTerminate DEF last
<1>6. /\ r.status = "ok" /\ last # 0 => lines = SubSeq(input, 1, last)
      /\ ~(r.status = "ok" /\ last # 0) => lines = SubSeq(input, 1, Len(input) - Len(r.calls))
  BY DEF Consumed, last
<1> HIDE DEF r, c, e, lines, input
<1>7. Len(input) \in Nat /\ Len(r.calls) \in Nat /\ n \in Nat
  BY <1>2, <1>3
<1>8. lines = SubSeq(input, 1, n)
  <2>1. CASE r.status = "running"
    <3>1. n + Len(r.calls) = Len(input)
      BY <1>4, <2>1 DEF AgentAt
    <3>2. n = Len(input) - Len(r.calls)
      BY <1>7, <3>1
    <3> QED BY <1>6, <2>1, <3>2
  <2>2. CASE r.status = "ok" /\ n = Len(input) /\ NoEnd(input, n)
    <3>1. last = 0
      BY <1>5, <1>7, <2>2 DEF NoEnd
    <3>2. r.calls = <<>>
      BY <1>2, <2>2
    <3>3. Len(input) - Len(r.calls) = n
      BY <1>7, <2>2, <3>2
    <3> QED BY <1>6, <3>1, <3>3
  <2>3. CASE r.status = "ok" /\ n > 0 /\ input[n].op = "terminate" /\ NoEnd(input, n - 1)
    <3>1. last # 0 /\ last <= n
      BY <1>5, <1>7, <2>3
    <3>2. ~(last <= n - 1)
      BY <1>5, <1>7, <2>3, <3>1 DEF NoEnd
    <3>3. last = n
      BY <1>5, <1>7, <3>1, <3>2
    <3> QED BY <1>6, <2>3, <3>1, <3>3
  <2> QED BY <1>4, <2>1, <2>2, <2>3 DEF AgentAt
<1>9. /\ DOMAIN lines = 1..n /\ \A i \in 1..n : lines[i] = input[i]
  BY <1>3, <1>7, <1>8
<1>10. Requests(lines) = RequestsIn(input, n)
  BY <1>9 DEF Requests, RequestsIn, RequestOps
<1> DEFINE A == RequestsIn(input, n)
           B == Answers(e)
<1>11. PICK f : Paired(f, A, B) /\ \A i \in A : Answered(input[i], e[f[i]])
  BY <1>4 DEF Dealt
<1>12. A \subseteq 1..n /\ B \subseteq 1..Len(e) /\ Len(e) \in Nat /\ DOMAIN e = 1..Len(e)
  BY <1>1 DEF RequestsIn, Answers
<1>13. A \subseteq Nat /\ B \subseteq Nat /\ IsFiniteSet(A)
  <2>1. IsFiniteSet(1..n)
    BY <1>7, FS_Interval
  <2> HIDE DEF A, B
  <2>2. A \subseteq Nat /\ B \subseteq Nat
    BY <1>7, <1>12
  <2>3. IsFiniteSet(A)
    BY <1>12, <2>1, FS_Subset
  <2> QED BY <2>2, <2>3
<1>14. /\ Cardinality(A) = Cardinality(B)
       /\ \A i \in A, j \in B : Before(A, i) = Before(B, j) => f[i] = j
  <2> HIDE DEF A, B
  <2>1. Paired(f, A, B) /\ A \subseteq Nat /\ B \subseteq Nat /\ IsFiniteSet(A)
    BY <1>11, <1>13
  <2>2. /\ IsFiniteSet(B) /\ Cardinality(A) = Cardinality(B)
        /\ \A i \in A, j \in B : Before(A, i) = Before(B, j) => f[i] = j
    BY ONLY <2>1, PairsRank
  <2> QED BY <2>2
<1>15. \A i \in A, j \in B : Before(A, i) = Before(B, j) => Answered(lines[i], e[j])
  <2> HIDE DEF A, B
  <2> QED BY <1>9, <1>11, <1>12, <1>14
<1>16. Succeeds(e, c.root, files)
  BY <1>1 DEF AgentOK, r, c
<1>17. \A j \in B : e[j].event = "complete" /\ e[j].code = 0 =>
          /\ files[<<c.root, e[j].oid>>] # NoFile
          /\ Size # 0 => j > 1 /\ e[j - 1] = Event("progress", e[j].oid, Size, 0)
  <2> HIDE DEF A, B
  <2> QED BY <1>12, <1>16 DEF Succeeds
<1>18. \A hash : Exists(Root(p), hash) <=> files[<<c.root, hash>>] # NoFile
  BY DEF Exists, Root, c
<1> QED BY <1>10, <1>14, <1>15, <1>17, <1>18 DEF lines, e

(* The transfer agent answers every request it reads once and in order,     *)
(* whatever uploads fail and whatever other processes do to the store; an   *)
(* object it calls complete is in the store, and all its bytes have been    *)
(* reported (lfs.rs run_agent_io, handle_upload, handle_download).          *)
THEOREM EveryRequestAnswered == LegacySpec => []AgentReplies
BY AgentInvariant, AgentReplied, LegacyInvariant, PTL

-----------------------------------------------------------------------------
(* What an export records of a package and an import brings of it, while no *)
(* other process runs anything.                                            *)

Solo(p) == \A q \in Procs \ {p} : run[q].script = <<>>

(* The entries of a database that concern the package of the manifest m.    *)
About(m, part, key) ==
    \/ part \in {"names", "relations"} /\ key[1] \in m.hashes
    \/ part = "tags" /\ key[1] \in m.hashes \cup {m.package}
    \/ part = "metadata" /\ key \in m.hashes \cup {m.package}
    \/ part = "members" /\ key[1] = m.package

Synced(m, d) ==
    \A part, key : Has(d, part, key) /\ About(m, part, key) => Listed(m, part, key)

Recorded(m, d, name) ==
    m \in Manifests /\ m.package = name /\ m.hashes = ShowPackage(d, name)
Exact(m, d, part) == m[part] = Collected(d, m, part)

LEMMA ExactSynced ==
    ASSUME NEW d \in Databases, NEW m, NEW name, Recorded(m, d, name),
           \A part \in Parts : Exact(m, d, part)
    PROVE  Synced(m, d)
<1>1. /\ m.names = AllBlobNames(d, m.hashes)
      /\ m.tags = AllTags(d, m.hashes \cup {m.package})
      /\ m.metadata = AllMetadata(d, m.hashes \cup {m.package})
      /\ m.relations = AllRelations(d, m.hashes)
  BY DEF Exact, Parts, Collected
<1>2. m.package = name /\ m.hashes = ShowPackage(d, name) /\ d.members \subseteq Packages \X Digest
  BY DEF Recorded, Databases
<1> SUFFICES ASSUME NEW part, NEW key, Has(d, part, key), About(m, part, key)
             PROVE  Listed(m, part, key)
  BY DEF Synced
<1>3. CASE part = "names"
  BY <1>1, <1>3 DEF Has, About, Listed, AllBlobNames
<1>4. CASE part = "tags"
  BY <1>1, <1>4 DEF Has, About, Listed, AllTags
<1>5. CASE part = "metadata"
  BY <1>1, <1>5 DEF Has, About, Listed, AllMetadata
<1>6. CASE part = "relations"
  BY <1>1, <1>6 DEF Has, About, Listed, AllRelations
<1>7. CASE part = "members"
  <2>1. key \in d.members /\ key[1] = m.package
    BY <1>7 DEF Has, About
  <2>2. key = <<m.package, key[2]>> /\ key[2] \in m.hashes
    BY <1>2, <2>1 DEF ShowPackage
  <2> QED BY <1>7, <2>2 DEF Listed
<1> QED BY <1>3, <1>4, <1>5, <1>6, <1>7 DEF About

(* Collecting a part makes it exact and leaves the others as they are.      *)
LEMMA CollectedExact ==
    ASSUME NEW d \in Databases, NEW m, NEW name, Recorded(m, d, name), NEW part \in Parts
    PROVE  LET k == [m EXCEPT ![part] = Collected(d, m, part)]
           IN  /\ Recorded(k, d, name) /\ Exact(k, d, part)
               /\ \A other \in Parts : Exact(m, d, other) => Exact(k, d, other)
<1> DEFINE k == [m EXCEPT ![part] = Collected(d, m, part)]
<1>1. m \in Manifests /\ k \in Manifests
  BY CollectedType DEF Recorded
<1>2. /\ k.package = m.package /\ k.hashes = m.hashes /\ k[part] = Collected(d, m, part)
      /\ \A other \in Parts \ {part} : k[other] = m[other]
  BY <1>1 DEF Manifests, Parts
<1> HIDE DEF k
<1>3. \A other \in Parts : Collected(d, k, other) = Collected(d, m, other)
  BY <1>2 DEF Collected, Parts
<1>4. Recorded(k, d, name) /\ Exact(k, d, part)
  BY <1>1, <1>2, <1>3 DEF Recorded, Exact
<1>5. ASSUME NEW other \in Parts, Exact(m, d, other) PROVE Exact(k, d, other)
  BY <1>2, <1>3, <1>4, <1>5 DEF Exact
<1> QED BY <1>4, <1>5 DEF k

LEMMA OnlyMover ==
    ASSUME LegacyInv, NEW p \in Procs, Solo(p), NEW q \in Procs, q # p
    PROVE  ~Start(q) /\ ~ProcessStep(q)
<1>1. run[q].script = <<>> /\ Len(run[q].script) = 0 /\ Stage(run[q]) /\ run[q] \in Process
  BY DEF Solo, LegacyInv, ProcessOK
<1>2. run[q].status = "new" /\ run[q].next = 1
  <2>1. run[q].status # "new" => run[q].next \in 1..0
    BY <1>1 DEF Stage
  <2> QED BY <1>1, <2>1 DEF Stage
<1>3. ~Start(q)
  BY <1>1, <1>2 DEF Start
<1>4. ~ProcessStep(q)
  BY <1>2, RunningStep
<1> QED BY <1>3, <1>4

(* What a manifest does not list, its calls do not bring.                   *)
LEMMA ManifestCallsBring ==
    ASSUME NEW m \in Manifests, NEW c \in ManifestCalls(m), NEW part, NEW key, Brings(c, part, key)
    PROVE  Listed(m, part, key)
<1>1. CASE \E x \in m.names : c = [op |-> "insert_blob_name", hash |-> x[1], name |-> x[2]]
  <2>1. PICK x \in m.names : c = [op |-> "insert_blob_name", hash |-> x[1], name |-> x[2]]
    BY <1>1
  <2>2. x = <<x[1], x[2]>>
    BY DEF Manifests
  <2> QED BY <2>1, <2>2 DEF Brings, Listed
<1>2. CASE \E x \in m.tags : c = [op |-> "add_tag", hash |-> x[1], tag |-> x[2]]
  <2>1. PICK x \in m.tags : c = [op |-> "add_tag", hash |-> x[1], tag |-> x[2]]
    BY <1>2
  <2>2. x = <<x[1], x[2]>>
    BY DEF Manifests
  <2> QED BY <2>1, <2>2 DEF Brings, Listed
<1>3. CASE \E id \in Ids : /\ m.metadata[id] # NoValue
                           /\ c = [op |-> "merge_metadata", hash |-> id, value |-> m.metadata[id]]
  BY <1>3 DEF Brings, Listed
<1>4. CASE \E x \in m.relations : c = [op |-> "add_relation", hash |-> x[1], target |-> x[2]]
  <2>1. PICK x \in m.relations : c = [op |-> "add_relation", hash |-> x[1], target |-> x[2]]
    BY <1>4
  <2>2. x = <<x[1], x[2]>>
    BY DEF Manifests
  <2> QED BY <2>1, <2>2 DEF Brings, Listed
<1>5. CASE c = [op |-> "ensure_package", name |-> m.package]
  BY <1>5 DEF Brings, Listed
<1>6. CASE \E h \in m.hashes : c = [op |-> "add_blob_to_package", name |-> m.package, hash |-> h]
  BY <1>6 DEF Brings, Listed
<1> QED BY <1>1, <1>2, <1>3, <1>4, <1>5, <1>6 DEF ManifestCalls

(* A statement adds what it brings and no more, but for rows.               *)
LEMMA ExecuteAdds ==
    ASSUME NEW d \in Databases, NEW c, c.op \in Statements \ Removals,
           NEW part, NEW key, Has(Execute(d, c), part, key), part # "rows"
    PROVE  Has(d, part, key) \/ Brings(c, part, key)
<1> DEFINE e == Execute(d, c)
<1>1. CASE c.op = "insert_blob"
  <2>1. e = [d EXCEPT !.rows = @ \cup {c.hash}]
    BY <1>1 DEF Execute, InsertBlob
  <2>2. /\ e.names = d.names /\ e.tags = d.tags /\ e.relations = d.relations
        /\ e.packages = d.packages /\ e.members = d.members /\ e.metadata = d.metadata
    BY <2>1 DEF Databases
  <2>3. Has(e, part, key)
    OBVIOUS
  <2> HIDE DEF e
  <2> QED BY <2>2, <2>3 DEF Has
<1>2. CASE c.op = "insert_blob_name"
  <2>1. e = [d EXCEPT !.names = @ \cup {<<c.hash, c.name>>}]
    BY <1>2 DEF Execute, InsertBlobName
  <2>2. /\ e.names = d.names \cup {<<c.hash, c.name>>}
        /\ e.tags = d.tags /\ e.relations = d.relations
        /\ e.packages = d.packages /\ e.members = d.members /\ e.metadata = d.metadata
    BY <2>1 DEF Databases
  <2>3. Has(e, part, key)
    OBVIOUS
  <2> HIDE DEF e
  <2> QED BY <1>2, <2>2, <2>3 DEF Has, Brings
<1>3. CASE c.op = "create_package"
  <2>1. e = [d EXCEPT !.packages = @ \cup {c.name}]
    BY <1>3 DEF Execute, CreatePackage
  <2>2. /\ e.packages = d.packages \cup {c.name}
        /\ e.names = d.names /\ e.tags = d.tags /\ e.relations = d.relations
        /\ e.members = d.members /\ e.metadata = d.metadata
    BY <2>1 DEF Databases
  <2>3. Has(e, part, key)
    OBVIOUS
  <2> HIDE DEF e
  <2> QED BY <1>3, <2>2, <2>3 DEF Has, Brings
<1>4. CASE c.op = "add_blob_to_package"
  <2>1. e = [d EXCEPT !.members = @ \cup {<<c.name, c.hash>>}]
    BY <1>4 DEF Execute, AddBlobToPackage
  <2>2. /\ e.members = d.members \cup {<<c.name, c.hash>>}
        /\ e.names = d.names /\ e.tags = d.tags /\ e.relations = d.relations
        /\ e.packages = d.packages /\ e.metadata = d.metadata
    BY <2>1 DEF Databases
  <2>3. Has(e, part, key)
    OBVIOUS
  <2> HIDE DEF e
  <2> QED BY <1>4, <2>2, <2>3 DEF Has, Brings
<1>5. CASE c.op = "add_tag"
  <2>1. e = [d EXCEPT !.tags = @ \cup {<<c.hash, c.tag>>}]
    BY <1>5 DEF Execute, AddTag
  <2>2. /\ e.tags = d.tags \cup {<<c.hash, c.tag>>}
        /\ e.names = d.names /\ e.relations = d.relations
        /\ e.packages = d.packages /\ e.members = d.members /\ e.metadata = d.metadata
    BY <2>1 DEF Databases
  <2>3. Has(e, part, key)
    OBVIOUS
  <2> HIDE DEF e
  <2> QED BY <1>5, <2>2, <2>3 DEF Has, Brings
<1>6. CASE c.op = "add_relation"
  <2>1. e = [d EXCEPT !.relations = @ \cup {<<c.hash, c.target>>}]
    BY <1>6 DEF Execute, AddRelation
  <2>2. /\ e.relations = d.relations \cup {<<c.hash, c.target>>}
        /\ e.names = d.names /\ e.tags = d.tags
        /\ e.packages = d.packages /\ e.members = d.members /\ e.metadata = d.metadata
    BY <2>1 DEF Databases
  <2>3. Has(e, part, key)
    OBVIOUS
  <2> HIDE DEF e
  <2> QED BY <1>6, <2>2, <2>3 DEF Has, Brings
<1>7. CASE c.op = "set_metadata"
  <2>1. e = [d EXCEPT !.metadata = [@ EXCEPT ![c.hash] = c.value]]
    BY <1>7 DEF Execute, SetMetadata
  <2>2. /\ e.metadata = [d.metadata EXCEPT ![c.hash] = c.value] /\ d.metadata \in Metadata
        /\ e.names = d.names /\ e.tags = d.tags /\ e.relations = d.relations
        /\ e.packages = d.packages /\ e.members = d.members
    BY <2>1 DEF Databases
  <2>3. \A id \in Ids : e.metadata[id] # NoValue => d.metadata[id] # NoValue \/ id = c.hash
    BY <2>2 DEF Metadata
  <2>4. Has(e, part, key)
    OBVIOUS
  <2> HIDE DEF e
  <2> QED BY <1>7, <2>2, <2>3, <2>4 DEF Has, Brings
<1> QED BY <1>1, <1>2, <1>3, <1>4, <1>5, <1>6, <1>7 DEF Statements, Removals

-----------------------------------------------------------------------------
(* The calls of an export.                                                 *)

ExportOps == {"export", "export_blob", "collect", "create_manifest", "write_manifest"}

LEMMA ExportDatabases ==
    ASSUME LegacyInv, NEW p \in Procs, ProcessStep(p), Op(run[p]) \in ExportOps
    PROVE  db' = db
<1>1. Call(p).op \in ExportOps
  BY RunningStep, Current
<1>2. ~Statement(p) /\ ~Register(p)
  BY <1>1 DEF Statement, Register, At, Statements, ExportOps
<1> QED BY <1>2, DatabaseSteps

(* The steps of a call that copies no blob.                                 *)
LEMMA RecordingSteps ==
    ASSUME LegacyInv, NEW p \in Procs, ProcessStep(p), Op(run[p]) \in ExportOps \ {"export_blob"}
    PROVE  Crash(p) \/ CallFails(p) \/ ExportPackage(p) \/ Collect(p) \/ WriteExportMetadata(p)
<1>1. Call(p).op \in ExportOps \ {"export_blob"}
  BY RunningStep, Current
<1>2. ~StoreStep(p) /\ ~Statement(p)
  BY <1>1 DEF StoreStep, HashFile, StoreBlob, VerifyPath, Fetch, OpenCopy, CopyChunk, EndCopy,
              Seal, Statement, At, Copies, Statements, ExportOps
<1>3. ~AgentStep(p) /\ ~UploadCallFails(p)
  BY <1>1 DEF AgentStep, UploadCallFails, ReadUpload, StoreBlobWithProgress, Persist, Mismatch,
     Register, CompleteUpload, MissingUpload, HandleDownload, AgentLine, At, ExportOps
<1>4. TransferStep(p) => ExportPackage(p) \/ Collect(p) \/ WriteExportMetadata(p)
  BY <1>1 DEF TransferStep, CopyBlobTo, ImportBlobs, ImportBlob, ImportManifest, MergeMetadata,
     EnsurePackage, At, ExportOps
<1> QED BY <1>2, <1>3, <1>4 DEF ProcessStep, Step

(* Of a call that returns with m taken for the manifest.                    *)
LEMMA TakenFields ==
    ASSUME NEW r \in Process, NEW m, NEW pre
    PROVE  LET s == Returns([r EXCEPT !.manifest = m], pre)
           IN  Returned(r, s, pre) /\ s.manifest = m
<1> DEFINE t == [r EXCEPT !.manifest = m]
           calls == pre \o Tail(t.calls)
           status == IF calls = <<>> THEN "ok" ELSE "running"
           s == [t EXCEPT !.calls = calls, !.pc = "call", !.buf = <<>>, !.status = status]
<1>1. t.calls = r.calls /\ t.manifest = m
  BY DEF Process
<1>2. Returns(t, pre) = s
  BY DEF Returns, Process
<1>3. \A a, b, c, d :
         LET u == [t EXCEPT !.calls = a, !.pc = b, !.buf = c, !.status = d]
         IN  u.calls = a /\ u.pc = b /\ u.buf = c /\ u.status = d /\ u.manifest = t.manifest
  BY DEF Process
<1> HIDE DEF t
<1>4. /\ s.calls = calls /\ s.pc = "call" /\ s.buf = <<>> /\ s.status = status
      /\ s.manifest = m
  <2> HIDE DEF calls, status
  <2> QED BY <1>1, <1>3
<1> HIDE DEF s
<1>5. Returned(r, s, pre)
  BY <1>1, <1>4 DEF Returned
<1> QED BY <1>2, <1>4, <1>5 DEF t

ExportMove(r, s, d, mf2) ==
    LET c == r.calls[1] IN
    \/ Failed(s)
    \/ Stays(r, s)
    \/ c.op = "export_blob" /\ Returned(r, s, <<>>) /\ s.manifest = r.manifest
    \/ /\ c.op = "collect" /\ Returned(r, s, <<>>)
       /\ s.manifest = [r.manifest EXCEPT ![c.part] = Collected(d, r.manifest, c.part)]
    \/ /\ c.op \in {"create_manifest", "write_manifest"} /\ Returned(r, s, <<>>)
       /\ s.manifest = r.manifest
       /\ c.op = "write_manifest" => mf2 = r.manifest
    \/ /\ c.op = "export" /\ Recorded(s.manifest, d, c.name)
       /\ \E pre \in Seq(ExportingCalls) :
             Returned(r, s, pre) /\ Finishes(pre) /\ CopiesAll(s.manifest, pre)

LEMMA ExportMoves ==
    ASSUME LegacyInv, NEW p \in Procs, ProcessStep(p), Op(run[p]) \in ExportOps
    PROVE  ExportMove(run[p], run'[p], db[Root(p)], manifest')
<1> DEFINE r == run[p]
           s == run'[p]
           c == Call(p)
           d == db[Root(p)]
<1>1. r.status = "running" /\ r \in Process /\ c.op = Op(r) /\ c = r.calls[1]
  BY RunningStep, Current
<1>2. Move(r, s) /\ \A t : Goes(p, t) => s = t
  BY ProcessMoves, GoesTo
<1>3. CASE Op(r) = "export_blob"
  <2>1. \A pre : Replaces(Op(r), pre) => pre = <<>>
    BY <1>3 DEF Replaces
  <2> HIDE DEF r, s, c
  <2>2. s.manifest = r.manifest /\ (Failed(s) \/ Stays(r, s) \/ Returned(r, s, <<>>))
    BY <1>2, <1>3, <2>1 DEF Move, Recording
  <2> QED BY <1>1, <1>3, <2>2 DEF ExportMove, r, s
<1>4. CASE Crash(p) \/ CallFails(p)
  <2>1. s = Ends(r, "crashed") \/ s = Ends(r, "fault")
    BY <1>2, <1>4 DEF Crash, CallFails
  <2>2. Failed(s)
    BY <1>1, <2>1, EndsFields DEF Failed
  <2> QED BY <2>2 DEF ExportMove
<1>5. CASE ExportPackage(p)
  <2>1. c.op = "export"
    BY <1>5 DEF ExportPackage, At
  <2>2. PICK m \in Manifests, pre \in Seq(ExportingCalls) :
           /\ Goes(p, Returns([r EXCEPT !.manifest = m], pre))
           /\ m.package = c.name /\ m.hashes = ShowPackage(d, c.name)
           /\ Finishes(pre) /\ CopiesAll(m, pre)
    BY <1>5, ExportPackageCalls
  <2>3. s = Returns([r EXCEPT !.manifest = m], pre)
    BY <1>2, <2>2
  <2> HIDE DEF r, s, c, d
  <2>4. Returned(r, s, pre) /\ s.manifest = m
    BY <1>1, <2>3, TakenFields
  <2>5. Recorded(s.manifest, d, c.name)
    BY <2>2, <2>4 DEF Recorded
  <2>6. ExportMove(r, s, d, manifest')
    BY <1>1, <2>1, <2>2, <2>4, <2>5 DEF ExportMove
  <2> QED BY <2>6 DEF r, s, d
<1>6. CASE Collect(p)
  <2> DEFINE m == [r.manifest EXCEPT ![c.part] = Collected(d, r.manifest, c.part)]
  <2>1. c.op = "collect" /\ Goes(p, Returns([r EXCEPT !.manifest = m], <<>>))
    BY <1>6 DEF Collect, At
  <2>2. s = Returns([r EXCEPT !.manifest = m], <<>>)
    BY <1>2, <2>1
  <2> HIDE DEF r, s, c, d, m
  <2>3. Returned(r, s, <<>>) /\ s.manifest = m
    BY <1>1, <2>2, TakenFields
  <2>4. ExportMove(r, s, d, manifest')
    BY <1>1, <2>1, <2>3 DEF ExportMove, m
  <2> QED BY <2>4 DEF r, s, d
<1>7. CASE WriteExportMetadata(p)
  <2>1. /\ c.op \in {"create_manifest", "write_manifest"} /\ Goes(p, Returns(r, <<>>))
        /\ c.op = "write_manifest" => manifest' = r.manifest
    BY <1>7 DEF WriteExportMetadata, At
  <2>2. s = Returns(r, <<>>)
    BY <1>2, <2>1
  <2>3. Returned(r, s, <<>>) /\ s.manifest = r.manifest
    BY <1>1, <2>2, ReturnsFields
  <2> HIDE DEF r, s, c, d
  <2>4. ExportMove(r, s, d, manifest')
    BY <1>1, <2>1, <2>3 DEF ExportMove
  <2> QED BY <2>4 DEF r, s, d
<1> QED BY <1>3, <1>4, <1>5, <1>6, <1>7, RecordingSteps

-----------------------------------------------------------------------------
(* An export, from its first call to its manifest.                         *)

(* The list m is recorded, and the calls left will make it exact.           *)
Exporting(m, calls, d, name) ==
    /\ Recorded(m, d, name)
    /\ calls[Len(calls)].op = "write_manifest"
    /\ \A i \in 1..Len(calls) : calls[i].op # "export"
    /\ \A part \in Parts :
          Exact(m, d, part) \/ \E i \in 1..Len(calls) : calls[i] = Collecting(part)

ExportOK(r, d, mf) ==
    LET c == r.script[r.next] IN
    c.cmd = "export" =>
        /\ r.status = "running" =>
              /\ \A i \in 1..Len(r.calls) : r.calls[i].op \in ExportOps
              /\ \/ r.calls = << [op |-> "export", name |-> c.name] >>
                 \/ Exporting(r.manifest, r.calls, d, c.name)
        /\ r.status = "ok" =>
              Recorded(mf, d, c.name) /\ \A part \in Parts : Exact(mf, d, part)

LEMMA RestOfCalls ==
    ASSUME NEW r \in Process, Stage(r), r.status = "running", NEW s, Returned(r, s, <<>>)
    PROVE  /\ s.calls = Tail(r.calls) /\ Len(r.calls) \in Nat /\ Len(r.calls) >= 1
           /\ Len(s.calls) = Len(r.calls) - 1
           /\ \A i \in 1..Len(s.calls) : s.calls[i] = r.calls[i + 1] /\ i + 1 \in 1..Len(r.calls)
           /\ s.status = "ok" => Len(r.calls) = 1
           /\ s.status = "running" => Len(s.calls) >= 1
<1> DEFINE rest == Tail(r.calls)
<1>1. /\ r.calls \in Seq(AllCalls) /\ Len(r.calls) \in Nat /\ Len(r.calls) >= 1
      /\ rest \in Seq(AllCalls) /\ Len(rest) = Len(r.calls) - 1
      /\ \A i \in 1..Len(rest) : rest[i] = r.calls[i + 1] /\ i + 1 \in 1..Len(r.calls)
  BY HeadTyped
<1>2. /\ s.calls = <<>> \o rest
      /\ (s.status = "ok" => s.calls = <<>>) /\ (s.status = "running" => s.calls # <<>>)
  BY DEF Returned
<1> HIDE DEF rest
<1>3. s.calls = rest
  BY <1>1, <1>2
<1>4. /\ s.status = "ok" => Len(r.calls) = 1
      /\ s.status = "running" => Len(s.calls) >= 1
  <2>1. (rest = <<>>) <=> (Len(rest) = 0)
    <3>1. rest = <<>> => Len(rest) = 0
      OBVIOUS
    <3>2. \A t \in Seq(AllCalls) : Len(t) = 0 => t = <<>>
      OBVIOUS
    <3> QED BY <1>1, <3>1, <3>2
  <2>2. Len(rest) \in Nat /\ Len(rest) = Len(r.calls) - 1
    BY <1>1
  <2> QED BY <1>1, <1>2, <1>3, <2>1, <2>2
<1> QED BY <1>1, <1>3, <1>4 DEF rest

LEMMA ExportStepKept ==
    ASSUME NEW r \in Process, Stage(r), r.status = "running", NEW s, NEW d \in Databases,
           NEW mf, NEW mf2, s.script = r.script, s.next = r.next, ExportOK(r, d, mf),
           Op(r) \in ExportOps => ExportMove(r, s, d, mf2)
    PROVE  ExportOK(s, d, mf2)
<1> DEFINE c == r.script[r.next]
           k == r.calls[1]
           fresh == << [op |-> "export", name |-> c.name] >>
<1> SUFFICES ASSUME c.cmd = "export" PROVE ExportOK(s, d, mf2)
  BY DEF ExportOK
<1>1. /\ r.calls \in Seq(AllCalls) /\ 1 \in 1..Len(r.calls) /\ Len(r.calls) \in Nat
  BY HeadTyped
<1>2. /\ \A i \in 1..Len(r.calls) : r.calls[i].op \in ExportOps
      /\ r.calls = fresh \/ Exporting(r.manifest, r.calls, d, c.name)
  BY DEF ExportOK
<1>3. ExportMove(r, s, d, mf2)
  BY <1>1, <1>2 DEF Op
<1>4. s.script[s.next] = c
  OBVIOUS
<1>5. CASE Failed(s)
  BY <1>5 DEF Failed, ExportOK
<1>6. CASE Stays(r, s)
  <2> HIDE DEF c, fresh
  <2> QED BY <1>2, <1>4, <1>6 DEF Stays, ExportOK, fresh
<1>7. CASE r.calls = fresh /\ ~Failed(s) /\ ~Stays(r, s)
  <2>1. k.op = "export" /\ k.name = c.name
    BY <1>7
  <2>2. /\ Recorded(s.manifest, d, c.name)
        /\ \E pre \in Seq(ExportingCalls) : Returned(r, s, pre) /\ Finishes(pre)
    BY <1>3, <1>7, <2>1 DEF ExportMove
  <2>3. PICK pre \in Seq(ExportingCalls) : Returned(r, s, pre) /\ Finishes(pre)
    BY <2>2
  <2>4. s.calls = pre
    <3>1. Tail(r.calls) = <<>>
      BY <1>7
    <3>2. pre \o <<>> = pre
      BY <2>3
    <3> QED BY <2>3, <3>1, <3>2 DEF Returned
  <2>5. Exporting(s.manifest, s.calls, d, c.name)
    BY <2>2, <2>3, <2>4 DEF Exporting, Finishes
  <2>6. s.status = "running"
    BY <2>3, <2>4 DEF Returned, Finishes
  <2>7. \A i \in 1..Len(s.calls) : s.calls[i].op \in ExportOps
    <3>1. \A b \in ExportingCalls : b.op \in ExportOps
      BY DEF ExportingCalls, ExportOps
    <3> QED BY <2>3, <2>4, <3>1
  <2> HIDE DEF c, fresh, k
  <2> QED BY <1>4, <2>5, <2>6, <2>7 DEF ExportOK
<1>8. CASE Exporting(r.manifest, r.calls, d, c.name) /\ ~Failed(s) /\ ~Stays(r, s)
  <2>1. k.op # "export"
    BY <1>1, <1>8 DEF Exporting
  <2> HIDE DEF c, fresh
  <2>2. Returned(r, s, <<>>)
    BY <1>3, <1>8, <2>1 DEF ExportMove
  <2>3. /\ Len(s.calls) = Len(r.calls) - 1 /\ Len(r.calls) >= 1
        /\ \A i \in 1..Len(s.calls) : s.calls[i] = r.calls[i + 1] /\ i + 1 \in 1..Len(r.calls)
        /\ s.status = "ok" => Len(r.calls) = 1
    BY <2>2, RestOfCalls
  <2>4. s.status \in {"ok", "running"} /\ (s.status = "running" => s.calls # <<>>)
    BY <2>2 DEF Returned
  <2>5. k.op = "collect" => k.part \in Parts
    BY <1>1, CallShape
(* What was exact still is, and so is what was collected last.              *)
  <2>6. /\ Recorded(s.manifest, d, c.name)
        /\ \A part \in Parts : Exact(r.manifest, d, part) => Exact(s.manifest, d, part)
        /\ k.op = "collect" => Exact(s.manifest, d, k.part)
    <3>1. Recorded(r.manifest, d, c.name)
      BY <1>8 DEF Exporting
    <3>2. CASE k.op # "collect"
      <4>1. s.manifest = r.manifest
        BY <1>3, <1>8, <2>1, <3>2 DEF ExportMove
      <4> QED BY <3>1, <3>2, <4>1
    <3>3. CASE k.op = "collect"
      <4>1. s.manifest = [r.manifest EXCEPT ![k.part] = Collected(d, r.manifest, k.part)]
        BY <1>3, <1>8, <3>3 DEF ExportMove
      <4> HIDE DEF k
      <4> QED BY <2>5, <3>1, <3>3, <4>1, CollectedExact
    <3> QED BY <3>2, <3>3
  <2>7. ASSUME NEW part \in Parts
        PROVE  \/ Exact(s.manifest, d, part)
               \/ \E i \in 1..Len(s.calls) : s.calls[i] = Collecting(part)
    <3>1. CASE Exact(r.manifest, d, part)
      BY <2>6, <3>1
    <3>2. CASE \E i \in 1..Len(r.calls) : r.calls[i] = Collecting(part)
      <4>1. PICK i \in 1..Len(r.calls) : r.calls[i] = Collecting(part)
        BY <3>2
      <4>2. CASE i = 1
        BY <2>6, <4>1, <4>2 DEF Collecting
      <4>3. CASE i # 1
        <5>1. i - 1 \in 1..Len(s.calls) /\ (i - 1) + 1 = i
          BY <1>1, <2>3, <4>3
        <5> QED BY <2>3, <4>1, <5>1
      <4> QED BY <4>2, <4>3
    <3> QED BY <1>8, <3>1, <3>2 DEF Exporting
  <2>8. CASE s.status = "running"
    <3>1. Len(s.calls) \in 1..Len(s.calls)
      <4> DEFINE n == Len(s.calls)
      <4>1. n >= 1 /\ n \in Nat
        <5>1. n >= 1 /\ n = Len(r.calls) - 1
          BY <2>2, <2>8, RestOfCalls
        <5> HIDE DEF n
        <5> QED BY <1>1, <5>1
      <4> HIDE DEF n
      <4>2. n \in 1..n
        BY <4>1
      <4> QED BY <4>2 DEF n
    <3>2. s.calls[Len(s.calls)] = r.calls[Len(r.calls)]
      <4>1. Len(s.calls) + 1 = Len(r.calls)
        BY <1>1, <2>3
      <4> QED BY <2>3, <3>1, <4>1
    <3>3. \A i \in 1..Len(s.calls) : s.calls[i].op # "export" /\ s.calls[i].op \in ExportOps
      BY <1>2, <1>8, <2>3 DEF Exporting
    <3>4. Exporting(s.manifest, s.calls, d, c.name)
      BY <1>8, <2>6, <2>7, <3>2, <3>3 DEF Exporting
    <3> QED BY <1>4, <2>8, <3>3, <3>4 DEF ExportOK
  <2>9. CASE s.status = "ok"
    <3>1. Len(r.calls) = 1 /\ k.op = "write_manifest" /\ ~\E i \in 1..Len(s.calls) : TRUE
      BY <1>8, <2>3, <2>9 DEF Exporting
    <3>2. mf2 = r.manifest /\ s.manifest = r.manifest
      BY <1>3, <1>8, <3>1 DEF ExportMove
    <3>3. Recorded(mf2, d, c.name) /\ \A part \in Parts : Exact(mf2, d, part)
      BY <2>6, <2>7, <3>1, <3>2
    <3> QED BY <1>4, <2>9, <3>3 DEF ExportOK
  <2> QED BY <2>4, <2>8, <2>9
<1> QED BY <1>2, <1>5, <1>6, <1>7, <1>8

LEMMA ExportKept ==
    ASSUME LegacyInv, NEW p \in Procs, ProcessStep(p),
           ExportOK(run[p], db[RootOf(run[p])], manifest)
    PROVE  ExportOK(run'[p], db'[RootOf(run'[p])], manifest')
<1> DEFINE r == run[p]
           s == run'[p]
           d == db[RootOf(r)]
<1>1. /\ r.status = "running" /\ r \in Process /\ Stage(r) /\ Root(p) = RootOf(r)
      /\ RootOf(r) \in Roots /\ 1 \in 1..Len(r.calls)
  BY RunningStep, Current, HeadTyped
<1>2. s.script = r.script /\ s.next = r.next /\ RootOf(s) = RootOf(r)
  BY ProcessMoves DEF Move, RootOf
<1>3. d \in Databases
  BY <1>1 DEF LegacyInv, StateOK
<1> SUFFICES ASSUME r.script[r.next].cmd = "export" PROVE ExportOK(s, db'[RootOf(s)], manifest')
  BY <1>2 DEF ExportOK
<1>4. Op(r) \in ExportOps
  BY <1>1 DEF ExportOK, Op
<1>5. db' = db /\ ExportMove(r, s, d, manifest')
  BY <1>1, <1>4, ExportDatabases, ExportMoves
<1>6. ExportOK(r, d, manifest)
  OBVIOUS
<1>7. db'[RootOf(s)] = d
  BY <1>2, <1>5
<1> HIDE DEF r, s, d
<1>8. ExportOK(s, d, manifest')
  BY <1>1, <1>2, <1>3, <1>5, <1>6, ExportStepKept
<1> QED BY <1>7, <1>8

-----------------------------------------------------------------------------
(* An import that follows an export.                                       *)

Following(r) ==
    /\ r.script[r.next].cmd = "import" /\ r.before = "ok"
    /\ r.next > 1 /\ r.script[r.next - 1].cmd = "export"

(* It takes the list of the export, which still has all there is of the     *)
(* package where it came from, and brings nothing else.                     *)
ImportSolo(r, dbs, mf) ==
    LET x == r.script[r.next - 1] IN
    Following(r) =>
        /\ mf \in Manifests /\ mf.package = x.name /\ Synced(mf, dbs[x.root])
        /\ r.status = "running" =>
              \A i \in 1..Len(r.calls) : \A part, key :
                  Brings(r.calls[i], part, key) => Listed(mf, part, key)
        /\ r.status \in {"running", "ok"} => r.manifest \in {NoManifest, mf}

LEMMA ManifestSteps ==
    ASSUME NEW p \in Procs, ProcessStep(p), Call(p).op \notin {"create_manifest", "write_manifest"}
    PROVE  manifest' = manifest
<1>1. StoreStep(p) => manifest' = manifest
  BY DEF StoreStep, HashFile, StoreBlob, VerifyPath, Fetch, OpenCopy, CopyChunk, EndCopy, Seal,
         ReadsOnly, KeepsRest
<1>2. TransferStep(p) => manifest' = manifest
  BY DEF TransferStep, ExportPackage, CopyBlobTo, Collect, WriteExportMetadata, ImportBlobs,
         ImportBlob, ImportManifest, MergeMetadata, EnsurePackage, ReadsOnly, At
<1>3. AgentStep(p) => manifest' = manifest
  BY DEF AgentStep, ReadUpload, StoreBlobWithProgress, Persist, Mismatch, Register,
         CompleteUpload, MissingUpload, UploadFails, HandleDownload, AgentLine, Sends,
         ReadsOnly, KeepsRest
<1>4. Statement(p) \/ Crash(p) \/ CallFails(p) => manifest' = manifest
  BY DEF Statement, Crash, CallFails
<1>5. UploadCallFails(p) => manifest' = manifest
  BY DEF UploadCallFails, UploadFails, Sends
<1> QED BY <1>1, <1>2, <1>3, <1>4, <1>5 DEF ProcessStep, Step

(* The databases stay in step with the list while it is imported.           *)
LEMMA SyncKept ==
    ASSUME LegacyInv, NEW p \in Procs, ProcessStep(p), Call(p) \in ImportOnly,
           NEW m \in Manifests, NEW x \in Roots, Synced(m, db[x]),
           \A part, key : Brings(Call(p), part, key) => Listed(m, part, key)
    PROVE  Synced(m, db'[x])
<1> DEFINE c == Call(p)
           d == db[x]
           e == db'[x]
<1>1. /\ c \in AllCalls /\ Root(p) \in Roots /\ db \in [Roots -> Databases] /\ d \in Databases
  BY RunningStep, Current DEF LegacyInv, StateOK
<1>2. CASE e = d
  BY <1>2
<1>3. CASE Register(p)
  BY <1>3 DEF Register, At, ImportOnly, ImportingCalls, StatementCalls
<1>4. CASE Statement(p) /\ e # d
  <2>1. e = Execute(d, Resolved(p)) /\ c.op \in Statements
    BY <1>1, <1>4 DEF Statement, At
  <2>2. c.op \notin Removals /\ c \in StatementCalls
    <3>1. \A b \in ImportOnly : b.op \notin Removals
      BY DEF ImportOnly, ImportingCalls, StatementCalls, Removals
    <3>2. c \in StatementCalls \cup RemovingCalls
      BY <1>1, <2>1, CallShape
    <3> QED BY <3>1, <3>2 DEF RemovingCalls, Removals
  <2>3. Resolved(p).op = c.op
    BY <2>2 DEF Resolved, StatementCalls
  <2>4. CASE c.op # "insert_blob"
    <3>1. \E part, key : Brings(c, part, key)
      <4>1. c.op = "insert_blob_name" => Brings(c, "names", <<c.hash, c.name>>)
        BY DEF Brings
      <4>2. c.op = "add_tag" => Brings(c, "tags", <<c.hash, c.tag>>)
        BY DEF Brings
      <4>3. c.op = "set_metadata" => Brings(c, "metadata", c.hash)
        BY DEF Brings
      <4>4. c.op = "add_relation" => Brings(c, "relations", <<c.hash, c.target>>)
        BY DEF Brings
      <4>5. c.op = "create_package" => Brings(c, "packages", c.name)
        BY DEF Brings
      <4>6. c.op = "add_blob_to_package" => Brings(c, "members", <<c.name, c.hash>>)
        BY DEF Brings
      <4> HIDE DEF c
      <4> QED BY <2>1, <2>2, <2>4, <4>1, <4>2, <4>3, <4>4, <4>5, <4>6 DEF Statements, Removals
    <3>2. Resolved(p) = c
      BY <1>1, <2>1, <3>1, ListedCall
    <3> HIDE DEF c, d, e
    <3>3. \A part, key : Has(e, part, key) /\ part # "rows" => Has(d, part, key) \/ Brings(c, part, key)
      BY <1>1, <2>1, <2>2, <3>2, ExecuteAdds
    <3>4. \A part, key : About(m, part, key) => part # "rows"
      BY DEF About
    <3> QED BY <3>3, <3>4 DEF Synced, c, d, e
  <2>5. CASE c.op = "insert_blob"
    <3> DEFINE b == Resolved(p)
    <3>1. b.op = "insert_blob"
      BY <2>3, <2>5
    <3> HIDE DEF c, d, e, b
    <3>2. \A part, key : Has(e, part, key) /\ part # "rows" => Has(d, part, key) \/ Brings(b, part, key)
      <4>1. b.op \in Statements \ Removals /\ e = Execute(d, b)
        BY <2>1, <3>1 DEF Statements, Removals, b
      <4> QED BY <1>1, <4>1, ExecuteAdds
    <3>3. \A part, key : ~Brings(b, part, key)
      BY <3>1 DEF Brings
    <3>4. \A part, key : About(m, part, key) => part # "rows"
      BY DEF About
    <3> QED BY <3>2, <3>3, <3>4 DEF Synced, d, e
  <2> QED BY <2>4, <2>5
<1> QED BY <1>2, <1>3, <1>4, DatabaseSteps

LEMMA ImportSoloKept ==
    ASSUME LegacyInv, NEW p \in Procs, ProcessStep(p), OwnCalls(run[p]),
           ImportSolo(run[p], db, manifest)
    PROVE  ImportSolo(run'[p], db', manifest')
<1> DEFINE r == run[p]
           s == run'[p]
           c == Call(p)
           x == r.script[r.next - 1]
<1>1. /\ r.status = "running" /\ r \in Process /\ Stage(r) /\ c = r.calls[1] /\ c.op = Op(r)
      /\ 1 \in 1..Len(r.calls) /\ Len(r.calls) \in Nat
  BY RunningStep, Current, HeadTyped
<1>2. s.script = r.script /\ s.next = r.next /\ s.before = r.before
  BY ProcessMoves DEF Move, Frame
<1> SUFFICES ASSUME Following(r)
             PROVE  /\ manifest' \in Manifests /\ manifest'.package = x.name
                    /\ Synced(manifest', db'[x.root])
                    /\ s.status = "running" =>
                          \A i \in 1..Len(s.calls) : \A part, key :
                              Brings(s.calls[i], part, key) => Listed(manifest', part, key)
                    /\ s.status \in {"running", "ok"} => s.manifest \in {NoManifest, manifest'}
  <2> HIDE DEF r, s, x
  <2>1. Following(s) => Following(r) /\ s.script[s.next - 1] = x
    BY <1>2 DEF Following, x
  <2> QED BY <2>1 DEF ImportSolo, r, s, x
<1>3. /\ manifest \in Manifests /\ manifest.package = x.name /\ Synced(manifest, db[x.root])
      /\ \A i \in 1..Len(r.calls) : \A part, key :
            Brings(r.calls[i], part, key) => Listed(manifest, part, key)
      /\ r.manifest \in {NoManifest, manifest}
  BY <1>1 DEF ImportSolo
<1>4. c \in ImportOnly
  BY <1>1 DEF OwnCalls, Following
<1>5. manifest' = manifest
  <2>1. \A b \in ImportOnly : b.op \notin {"create_manifest", "write_manifest"}
    BY DEF ImportOnly, ImportingCalls, StatementCalls
  <2> QED BY <1>4, <2>1, ManifestSteps
<1>6. x.root \in Roots
  <2>1. r.next - 1 \in 1..Len(r.script) /\ r.script \in Seq(Commands)
    BY <1>1 DEF Following, Stage, Process
  <2>2. x \in Commands
    BY <2>1
  <2> HIDE DEF x
  <2> QED BY <2>2 DEF Commands, Urls
<1>7. Synced(manifest, db'[x.root])
  BY <1>1, <1>3, <1>4, <1>6, SyncKept
<1>8. CASE Failed(s)
  BY <1>3, <1>5, <1>7, <1>8 DEF Failed
<1>9. CASE Stays(r, s)
  <2> HIDE DEF r, s, c, x
  <2> QED BY <1>3, <1>5, <1>7, <1>9 DEF Stays
<1>10. ASSUME NEW pre \in Seq(ImportingCalls), Returned(r, s, pre),
              \A i \in 1..Len(pre) : \A part, key :
                  Brings(pre[i], part, key) => Listed(manifest, part, key)
       PROVE  \A i \in 1..Len(s.calls) : \A part, key :
                  Brings(s.calls[i], part, key) => Listed(manifest, part, key)
  <2> HIDE DEF r, s, c, x
  <2>1. Prepended(r, s, pre)
    BY <1>1, <1>10, ReturnedCalls
  <2>2. \A i \in 1..Len(s.calls) :
           \/ i \in 1..Len(pre) /\ s.calls[i] = pre[i]
           \/ \E j \in 2..Len(r.calls) : i = Len(pre) + (j - 1) /\ s.calls[i] = r.calls[j]
    BY <2>1 DEF Prepended
  <2>3. \A j \in 2..Len(r.calls) : j \in 1..Len(r.calls)
    OBVIOUS
  <2> QED BY <1>3, <1>10, <2>2, <2>3
<1>11. CASE Returned(r, s, <<>>) /\ s.manifest = r.manifest
  <2>1. <<>> \in Seq(ImportingCalls) /\ Len(<<>>) = 0
    OBVIOUS
  <2> HIDE DEF r, s, c, x
  <2>2. \A i \in 1..Len(<<>>) : FALSE
    BY <2>1
  <2>3. \A i \in 1..Len(s.calls) : \A part, key :
           Brings(s.calls[i], part, key) => Listed(manifest, part, key)
    BY <1>10, <1>11, <2>1, <2>2
  <2> QED BY <1>3, <1>5, <1>7, <1>11, <2>3
<1>12. ASSUME NEW pre, Returned(r, s, pre), Expands(c, db[Root(p)], pre)
       PROVE  \A i \in 1..Len(s.calls) : \A part, key :
                  Brings(s.calls[i], part, key) => Listed(manifest, part, key)
  <2> DEFINE d == db[Root(p)]
  <2> HIDE DEF r, s, c, x, d
  <2>1. /\ pre \in Seq(ImportingCalls)
        /\ \A i \in 1..Len(pre) :
              \/ pre[i] \in [op : {"import_blob", "insert_blob"}, hash : Exported]
              \/ pre[i] \in ManifestCalls(manifest)
              \/ /\ c.op = "merge_metadata"
                 /\ pre[i] = [op |-> "set_metadata", hash |-> c.hash, value |-> c.value]
              \/ /\ c.op = "ensure_package"
                 /\ pre[i] = [op |-> "create_package", name |-> c.name]
    BY <1>4, <1>12, ExpandsShape
  <2>2. ASSUME NEW i \in 1..Len(pre), NEW part, NEW key, Brings(pre[i], part, key)
        PROVE  Listed(manifest, part, key)
    <3>1. CASE pre[i] \in [op : {"import_blob", "insert_blob"}, hash : Exported]
      BY <2>2, <3>1 DEF Brings
    <3>2. CASE pre[i] \in ManifestCalls(manifest)
      BY <1>3, <2>2, <3>2, ManifestCallsBring
    <3>3. CASE \/ /\ c.op = "merge_metadata"
                  /\ pre[i] = [op |-> "set_metadata", hash |-> c.hash, value |-> c.value]
               \/ /\ c.op = "ensure_package"
                  /\ pre[i] = [op |-> "create_package", name |-> c.name]
      <4>1. Brings(c, part, key)
        BY <2>2, <3>3 DEF Brings
      <4> QED BY <1>1, <1>3, <4>1
    <3> QED BY <2>1, <3>1, <3>2, <3>3
  <2> QED BY <1>10, <1>12, <2>1, <2>2
<1>13. \/ Failed(s)
       \/ Stays(r, s)
       \/ Returned(r, s, <<>>) /\ s.manifest = r.manifest
       \/ \E pre : /\ Returned(r, s, pre) /\ Expands(c, db[Root(p)], pre)
                   /\ s.manifest = IF Op(r) = "import_manifest" THEN manifest ELSE r.manifest
  BY <1>4, ImportMoves
<1> HIDE DEF r, s, c, x
<1> QED BY <1>3, <1>5, <1>7, <1>8, <1>9, <1>11, <1>12, <1>13

-----------------------------------------------------------------------------
(* The metadata an import leaves.                                          *)

(* The calls left of an import that follows an export set what its manifest *)
(* lists where nothing was found.                                           *)
SetsListed(c, mf, found) ==
    /\ c.op \in {"merge_metadata", "set_metadata"} => c.value = mf.metadata[c.hash]
    /\ c.op = "set_metadata" => found[c.hash] = NoValue

(* The importing root has every value it had and otherwise only values of   *)
(* the manifest, which are those of the exporting root, even when that is   *)
(* the same root.                                                           *)
ValuesOK(r, dbs, mf) ==
    LET x == r.script[r.next - 1]
        b == dbs[RootOf(r)]
    IN  Following(r) =>
            /\ \A id \in Ids : mf.metadata[id] # NoValue
                               => dbs[x.root].metadata[id] = mf.metadata[id]
            /\ \A id \in Ids : \/ b.metadata[id] = r.found[id]
                               \/ r.found[id] = NoValue /\ b.metadata[id] = mf.metadata[id]
            /\ r.status = "running" =>
                  \A i \in 1..Len(r.calls) : SetsListed(r.calls[i], mf, r.found)

(* Only set_metadata changes a value.                                       *)
LEMMA MetadataSteps ==
    ASSUME LegacyInv, NEW p \in Procs, ProcessStep(p), Call(p) \in ImportOnly,
           Call(p).op = "set_metadata" => Call(p).hash \in Ids,
           NEW x \in Roots, NEW id \in Ids
    PROVE  \/ db'[x].metadata[id] = db[x].metadata[id]
           \/ /\ Call(p).op = "set_metadata" /\ id = Call(p).hash
              /\ db'[x].metadata[id] = Call(p).value
<1> DEFINE c == Call(p)
           b == Resolved(p)
           d == db[x]
<1>1. /\ c \in AllCalls /\ Root(p) \in Roots /\ db \in [Roots -> Databases] /\ d \in Databases
  BY RunningStep, Current DEF LegacyInv, StateOK
<1>2. ~Register(p)
  BY DEF Register, At, ImportOnly, ImportingCalls, StatementCalls
<1>3. CASE Statement(p) /\ db' # db
  <2>1. db' = [db EXCEPT ![Root(p)] = Execute(db[Root(p)], b)] /\ c.op \in Statements
    BY <1>3 DEF Statement, At
  <2>2. c \in StatementCalls \cup RemovingCalls
    BY <1>1, <2>1, CallShape
  <2>3. b.op = c.op
    BY <2>2 DEF Resolved, StatementCalls, RemovingCalls
  <2>4. CASE x # Root(p)
    BY <1>1, <2>1, <2>4
  <2>5. CASE x = Root(p) /\ c.op = "set_metadata"
    <3>1. c.hash \in Ids /\ Added \notin Ids
      BY <2>5, LegacyAssumption
    <3>2. b = c
      BY <3>1, AsWritten
    <3>3. db'[x] = Execute(d, c) /\ d.metadata \in Metadata
      BY <1>1, <2>1, <2>5, <3>2 DEF Databases
    <3> HIDE DEF c, d
    <3>4. db'[x].metadata = [d.metadata EXCEPT ![c.hash] = c.value]
      BY <1>1, <2>5, <3>3 DEF Execute, SetMetadata, Databases
    <3> QED BY <2>5, <3>1, <3>3, <3>4 DEF Metadata, c, d
  <2>6. CASE x = Root(p) /\ c.op # "set_metadata"
    <3>1. db'[x] = Execute(d, b) /\ b.op \in Statements /\ b.op # "set_metadata"
      BY <1>1, <2>1, <2>3, <2>6
    <3> HIDE DEF b, c, d
    <3>2. Execute(d, b).metadata = d.metadata
      BY <1>1, <3>1 DEF Execute, Statements, Databases, InsertBlob, InsertBlobName,
         CreatePackage, AddBlobToPackage, DeleteMembers, DeletePackage, AddTag, AddRelation
    <3> QED BY <3>1, <3>2 DEF d
  <2> QED BY <2>4, <2>5, <2>6
<1> QED BY <1>2, <1>3, DatabaseSteps

LEMMA ValuesKept ==
    ASSUME LegacyInv, NEW p \in Procs, ProcessStep(p), OwnCalls(run[p]),
           ImportSolo(run[p], db, manifest), ValuesOK(run[p], db, manifest)
    PROVE  ValuesOK(run'[p], db', manifest')
<1> DEFINE r == run[p]
           s == run'[p]
           c == Call(p)
           x == r.script[r.next - 1]
           a == db[x.root]
           b == db[Root(p)]
           a2 == db'[x.root]
           b2 == db'[Root(p)]
<1>1. /\ r.status = "running" /\ r \in Process /\ Stage(r) /\ c = r.calls[1] /\ c.op = Op(r)
      /\ 1 \in 1..Len(r.calls) /\ Root(p) \in Roots /\ Root(p) = RootOf(r) /\ c \in AllCalls
  BY RunningStep, Current, HeadTyped
<1>2. /\ s.script = r.script /\ s.next = r.next /\ s.before = r.before /\ s.found = r.found
      /\ RootOf(s) = RootOf(r)
  BY ProcessMoves DEF Move, Frame, RootOf
<1> SUFFICES ASSUME Following(r)
             PROVE  /\ \A id \in Ids : manifest'.metadata[id] # NoValue
                                       => a2.metadata[id] = manifest'.metadata[id]
                    /\ \A id \in Ids :
                          \/ b2.metadata[id] = r.found[id]
                          \/ r.found[id] = NoValue /\ b2.metadata[id] = manifest'.metadata[id]
                    /\ s.status = "running" =>
                          \A i \in 1..Len(s.calls) : SetsListed(s.calls[i], manifest', r.found)
  <2> HIDE DEF r, s, x
  <2>1. Following(s) => Following(r) /\ s.script[s.next - 1] = x
    BY <1>2 DEF Following, x
  <2>2. RootOf(s) = Root(p)
    BY <1>1, <1>2
  <2> QED BY <1>2, <2>1, <2>2 DEF ValuesOK, r, s, x
<1>3. /\ \A id \in Ids : manifest.metadata[id] # NoValue => a.metadata[id] = manifest.metadata[id]
      /\ \A id \in Ids : \/ b.metadata[id] = r.found[id]
                         \/ r.found[id] = NoValue /\ b.metadata[id] = manifest.metadata[id]
      /\ \A i \in 1..Len(r.calls) : SetsListed(r.calls[i], manifest, r.found)
  <2>1. ValuesOK(r, db, manifest)
    OBVIOUS
  <2> QED BY <1>1, <2>1 DEF ValuesOK
<1>4. c \in ImportOnly
  BY <1>1 DEF OwnCalls, Following
<1>5. manifest' = manifest
  <2>1. \A e \in ImportOnly : e.op \notin {"create_manifest", "write_manifest"}
    BY DEF ImportOnly, ImportingCalls, StatementCalls
  <2> QED BY <1>4, <2>1, ManifestSteps
<1>6. manifest \in Manifests /\ (c.op \in {"merge_metadata", "set_metadata"} => c.hash \in Ids)
  <2>1. /\ manifest \in Manifests
        /\ \A part, key : Brings(r.calls[1], part, key) => Listed(manifest, part, key)
    <3>1. ImportSolo(r, db, manifest)
      OBVIOUS
    <3> QED BY <1>1, <3>1 DEF ImportSolo
  <2>2. c.op \in {"merge_metadata", "set_metadata"} => Brings(c, "metadata", c.hash)
    BY DEF Brings
  <2>3. Listed(manifest, "metadata", c.hash) => c.hash \in Ids
    BY DEF Listed
  <2> QED BY <1>1, <2>1, <2>2, <2>3
<1>7. x.root \in Roots
  <2>1. r.next - 1 \in 1..Len(r.script) /\ r.script \in Seq(Commands)
    BY <1>1 DEF Following, Stage, Process
  <2>2. x \in Commands
    BY <2>1
  <2> HIDE DEF x
  <2> QED BY <2>2 DEF Commands, Urls
<1>8. /\ c.op \in {"merge_metadata", "set_metadata"} => c.value = manifest.metadata[c.hash]
      /\ c.op = "set_metadata" => r.found[c.hash] = NoValue
  BY <1>1, <1>3 DEF SetsListed
<1>9. ASSUME NEW root \in Roots, NEW id \in Ids
      PROVE  \/ db'[root].metadata[id] = db[root].metadata[id]
             \/ r.found[id] = NoValue /\ db'[root].metadata[id] = manifest.metadata[id]
  <2>1. \/ db'[root].metadata[id] = db[root].metadata[id]
        \/ c.op = "set_metadata" /\ id = c.hash /\ db'[root].metadata[id] = c.value
    BY <1>4, <1>6, MetadataSteps
  <2> HIDE DEF r, c
  <2> QED BY <1>8, <2>1
<1>10. /\ \A id \in Ids : manifest.metadata[id] # NoValue => a2.metadata[id] = manifest.metadata[id]
       /\ \A id \in Ids : \/ b2.metadata[id] = r.found[id]
                          \/ r.found[id] = NoValue /\ b2.metadata[id] = manifest.metadata[id]
  <2>1. \A id \in Ids : \/ a2.metadata[id] = a.metadata[id]
                        \/ a2.metadata[id] = manifest.metadata[id]
    BY <1>7, <1>9
  <2>2. \A id \in Ids : \/ b2.metadata[id] = b.metadata[id]
                        \/ r.found[id] = NoValue /\ b2.metadata[id] = manifest.metadata[id]
    BY <1>1, <1>9
  <2> HIDE DEF r, a, b, a2, b2
  <2> QED BY <1>3, <2>1, <2>2
<1> DEFINE Listing(calls) == \A i \in 1..Len(calls) : SetsListed(calls[i], manifest, r.found)
<1>11. CASE Stays(r, s)
  <2> HIDE DEF r, s, c, a2, b2
  <2> QED BY <1>3, <1>5, <1>10, <1>11 DEF Stays
(* The calls before and the ones put at the head.                           *)
<1>12. ASSUME NEW pre \in Seq(ImportingCalls), Returned(r, s, pre), Listing(pre)
       PROVE  Listing(s.calls)
  <2> HIDE DEF r, s, c
  <2>1. Prepended(r, s, pre)
    BY <1>1, <1>12, ReturnedCalls
  <2>2. \A i \in 1..Len(s.calls) :
           \/ i \in 1..Len(pre) /\ s.calls[i] = pre[i]
           \/ \E j \in 2..Len(r.calls) : i = Len(pre) + (j - 1) /\ s.calls[i] = r.calls[j]
    BY <2>1 DEF Prepended
  <2>3. \A j \in 2..Len(r.calls) : j \in 1..Len(r.calls)
    OBVIOUS
  <2> QED BY <1>3, <1>12, <2>2, <2>3
<1>13. ASSUME Returned(r, s, <<>>) PROVE Listing(s.calls)
  <2>1. <<>> \in Seq(ImportingCalls) /\ Len(<<>>) = 0
    OBVIOUS
  <2>2. Listing(<<>>)
    BY <2>1
  <2> HIDE DEF r, s, c, Listing
  <2> QED BY <1>12, <1>13, <2>1, <2>2
<1>14. ASSUME NEW pre, Returned(r, s, pre), Expands(c, b, pre)
       PROVE  Listing(s.calls)
  <2> HIDE DEF r, s, c, b
  <2>1. /\ pre \in Seq(ImportingCalls)
        /\ \A i \in 1..Len(pre) :
              \/ pre[i] \in [op : {"import_blob", "insert_blob"}, hash : Exported]
              \/ pre[i] \in ManifestCalls(manifest)
              \/ /\ c.op = "merge_metadata" /\ b.metadata[c.hash] = NoValue
                 /\ pre[i] = [op |-> "set_metadata", hash |-> c.hash, value |-> c.value]
              \/ pre[i] = [op |-> "create_package", name |-> c.name]
    BY <1>4, <1>14, ExpandsShape
  <2>2. \A e \in ManifestCalls(manifest) : SetsListed(e, manifest, r.found)
    BY DEF ManifestCalls, SetsListed
  <2>3. ASSUME c.op = "merge_metadata", b.metadata[c.hash] = NoValue
        PROVE  SetsListed([op |-> "set_metadata", hash |-> c.hash, value |-> c.value],
                          manifest, r.found)
    <3>1. r.found[c.hash] = NoValue
      BY <1>3, <1>6, <2>3
    <3> QED BY <1>8, <2>3, <3>1 DEF SetsListed
  <2>4. ASSUME NEW i \in 1..Len(pre) PROVE SetsListed(pre[i], manifest, r.found)
    <3>1. CASE pre[i] \in [op : {"import_blob", "insert_blob"}, hash : Exported]
      BY <3>1 DEF SetsListed
    <3>2. CASE pre[i] = [op |-> "create_package", name |-> c.name]
      BY <3>2 DEF SetsListed
    <3> QED BY <2>1, <2>2, <2>3, <3>1, <3>2
  <2> QED BY <1>12, <1>14, <2>1, <2>4
<1>15. \/ Failed(s) \/ Stays(r, s) \/ Returned(r, s, <<>>)
       \/ \E pre : Returned(r, s, pre) /\ Expands(c, b, pre)
  BY <1>4, ImportMoves
<1> HIDE DEF r, s, c, x, a, b, a2, b2
<1> QED BY <1>5, <1>10, <1>11, <1>13, <1>14, <1>15 DEF Failed

-----------------------------------------------------------------------------
(* An export and the import that follows it, with nobody else at work.      *)

TransferOK(p) ==
    /\ ExportOK(run[p], db[RootOf(run[p])], manifest)
    /\ ImportSolo(run[p], db, manifest)
    /\ ImportKept(run[p], db[RootOf(run[p])], {})
    /\ ValuesOK(run[p], db, manifest)

TransferInv == \A p \in Procs : Solo(p) => TransferOK(p)

LEMMA TransferStarts ==
    ASSUME LegacyInv, NEW p \in Procs, Start(p), TransferOK(p)
    PROVE  TransferOK(p)'
<1> DEFINE r == run[p]
           s == run'[p]
           c == s.script[s.next]
           x == s.script[s.next - 1]
<1>1. /\ r \in Process /\ Stage(r) /\ s.script = r.script /\ s.next \in 1..Len(s.script)
      /\ c \in Commands /\ s.calls = Calls(c) /\ s.manifest = NoManifest
      /\ s.before = IF s.next = r.next THEN r.before ELSE r.status
      /\ s.next = IF r.status \in {"ok", "err", "fault"} THEN r.next + 1 ELSE r.next
      /\ s.status = IF Calls(c) = <<>> THEN "ok" ELSE "running"
      /\ r.next \in Nat
  BY StartMoves DEF LegacyInv, ProcessOK, Process
<1>1a. s.found = IF r.status = "crashed" THEN r.found ELSE db[c.root].metadata
  BY StartMoves
<1>2. db' = db /\ manifest' = manifest
  BY DEF Start
<1>3. ImportKept(s, db[RootOf(s)], {})
  BY <1>1 DEF ImportKept
<1>4. ExportOK(s, db[RootOf(s)], manifest)
  <2> SUFFICES ASSUME c.cmd = "export" PROVE ExportOK(s, db[RootOf(s)], manifest)
    BY DEF ExportOK
  <2> DEFINE b == [op |-> "export", name |-> c.name]
  <2>1. s.calls = <<b>> /\ s.status = "running"
    BY <1>1 DEF Calls
  <2>2. b.op \in ExportOps
    BY DEF ExportOps
  <2> HIDE DEF s
  <2>3. \A i \in 1..Len(s.calls) : s.calls[i].op \in ExportOps
    <3> HIDE DEF b
    <3> QED BY <2>1, <2>2
  <2> QED BY <2>1, <2>3 DEF ExportOK
<1>5. ImportSolo(s, db, manifest)
  <2> SUFFICES ASSUME Following(s)
               PROVE  /\ manifest \in Manifests /\ manifest.package = x.name
                      /\ Synced(manifest, db[x.root])
                      /\ \A i \in 1..Len(s.calls) : \A part, key : ~Brings(s.calls[i], part, key)
    <3> HIDE DEF s, c
    <3> QED BY <1>1 DEF ImportSolo, x
  <2>1. \A i \in 1..Len(s.calls) : \A part, key : ~Brings(s.calls[i], part, key)
    <3>1. s.calls = << [op |-> "import_blobs"], [op |-> "import_manifest"] >>
      BY <1>1 DEF Following, Calls
    <3>2. \A i \in 1..Len(s.calls) : s.calls[i].op \in {"import_blobs", "import_manifest"}
      <4> HIDE DEF s
      <4> QED BY <3>1
    <3> QED BY <3>2 DEF Brings
  <2>2. CASE s.next = r.next
(* The import that crashed is run again.                                    *)
    <3>1. Following(r) /\ x = r.script[r.next - 1]
      BY <1>1, <2>2 DEF Following
    <3>2. ImportSolo(r, db, manifest)
      BY DEF TransferOK
    <3> HIDE DEF r, s, x
    <3> QED BY <2>1, <3>1, <3>2 DEF ImportSolo
  <2>3. CASE s.next # r.next
(* The export has just succeeded.                                           *)
    <3>1. s.next = r.next + 1 /\ r.status = "ok"
      BY <1>1, <2>3 DEF Following
    <3>2. x = r.script[r.next] /\ x.cmd = "export" /\ RootOf(r) = x.root
      BY <1>1, <3>1 DEF Following, RootOf
    <3>3. ExportOK(r, db[RootOf(r)], manifest)
      BY DEF TransferOK
    <3>4. db[x.root] \in Databases
      <4>1. RootOf(r) \in Roots
        BY <1>1, <3>1, RootTyped
      <4> QED BY <3>2, <4>1 DEF LegacyInv, StateOK
    <3> HIDE DEF r, s, x
    <3>5. Recorded(manifest, db[x.root], x.name) /\ \A part \in Parts : Exact(manifest, db[x.root], part)
      BY <3>1, <3>2, <3>3 DEF ExportOK
    <3>6. Synced(manifest, db[x.root])
      BY <3>4, <3>5, ExactSynced
    <3> QED BY <2>1, <3>5, <3>6 DEF Recorded
  <2> QED BY <2>2, <2>3
<1>6. ValuesOK(s, db, manifest)
  <2> DEFINE b == db[RootOf(s)]
  <2> SUFFICES ASSUME Following(s)
               PROVE  /\ \A id \in Ids : manifest.metadata[id] # NoValue
                                         => db[x.root].metadata[id] = manifest.metadata[id]
                      /\ \A id \in Ids :
                            \/ b.metadata[id] = s.found[id]
                            \/ s.found[id] = NoValue /\ b.metadata[id] = manifest.metadata[id]
                      /\ \A i \in 1..Len(s.calls) : SetsListed(s.calls[i], manifest, s.found)
    <3> HIDE DEF s
    <3> QED BY DEF ValuesOK
  <2>1. \A i \in 1..Len(s.calls) : SetsListed(s.calls[i], manifest, s.found)
    <3>1. s.calls = << [op |-> "import_blobs"], [op |-> "import_manifest"] >>
      BY <1>1 DEF Following, Calls
    <3>2. \A i \in 1..Len(s.calls) : s.calls[i].op \in {"import_blobs", "import_manifest"}
      <4> HIDE DEF s
      <4> QED BY <3>1
    <3> QED BY <3>2 DEF SetsListed
  <2>2. CASE s.next = r.next
(* The import that crashed is run again.                                    *)
    <3>1. Following(r) /\ x = r.script[r.next - 1] /\ RootOf(r) = RootOf(s)
      BY <1>1, <2>2 DEF Following, RootOf
    <3>2. r.status = "crashed"
      <4>1. r.status \notin {"ok", "err", "fault", "running"}
        <5>1. r.status # "running"
          BY DEF Start
        <5> HIDE DEF r, s
        <5> QED BY <1>1, <2>2, <5>1
      <4>2. r.status # "new"
        BY <1>1, <3>1 DEF Following, Stage
      <4> QED BY <1>1, <4>1, <4>2 DEF Process, Statuses
    <3>3. ValuesOK(r, db, manifest) /\ s.found = r.found
      BY <1>1a, <3>2 DEF TransferOK
    <3> HIDE DEF r, s, x
    <3> QED BY <2>1, <3>1, <3>3 DEF ValuesOK
  <2>3. CASE s.next # r.next
(* The export has just succeeded.                                           *)
    <3>1. s.next = r.next + 1 /\ r.status = "ok"
      BY <1>1, <2>3 DEF Following
    <3>2. x = r.script[r.next] /\ x.cmd = "export" /\ RootOf(r) = x.root
      BY <1>1, <3>1 DEF Following, RootOf
    <3>3. ExportOK(r, db[RootOf(r)], manifest)
      BY DEF TransferOK
    <3>4. b.metadata = s.found
      BY <1>1a, <3>1 DEF RootOf
    <3> HIDE DEF r, s, x, b
    <3>5. Exact(manifest, db[x.root], "metadata")
      BY <3>1, <3>2, <3>3 DEF ExportOK, Parts
    <3>6. \A id \in Ids : manifest.metadata[id] # NoValue
                          => db[x.root].metadata[id] = manifest.metadata[id]
      BY <3>5 DEF Exact, Collected, AllMetadata
    <3> QED BY <2>1, <3>4, <3>6
  <2> QED BY <2>2, <2>3
<1> QED BY <1>2, <1>3, <1>4, <1>5, <1>6 DEF TransferOK

LEMMA TransferKept ==
    ASSUME LegacyInv, NEW p \in Procs, ProcessStep(p), OwnCalls(run[p]), TransferOK(p)
    PROVE  TransferOK(p)'
<1>1. ExportOK(run'[p], db'[RootOf(run'[p])], manifest')
  BY ExportKept DEF TransferOK
<1>2. ImportSolo(run'[p], db', manifest')
  BY ImportSoloKept DEF TransferOK
<1>3. ImportKept(run'[p], db'[RootOf(run'[p])], {})
  <2>1. run'[p].script = run[p].script /\ run'[p].next = run[p].next
    BY ProcessMoves DEF Move
  <2>2. CASE Command(p).cmd = "import"
    <3>1. Root(p) \in Roots /\ (Command(p).cmd = "pkg-rm" => Command(p).name \in {})
      BY <2>2, RunningStep, Current
    <3>2. Keeps(db[Root(p)], db'[Root(p)], {})
      BY <3>1, StepKeeps
    <3>3. ImportKept(run[p], db[RootOf(run[p])], {})
      BY DEF TransferOK
    <3> QED BY <3>2, <3>3, ImportStepKept
  <2>3. CASE Command(p).cmd # "import"
    BY <2>1, <2>3 DEF ImportKept, Command
  <2> QED BY <2>2, <2>3
<1>4. ValuesOK(run'[p], db', manifest')
  BY ValuesKept DEF TransferOK
<1> QED BY <1>1, <1>2, <1>3, <1>4 DEF TransferOK

(* Neither the process nor anything it works on changes.                    *)
LEMMA TransferRests ==
    ASSUME NEW p \in Procs, SamePlace(run[p], run'[p]), UNCHANGED <<db, manifest>>, TransferOK(p)
    PROVE  TransferOK(p)'
<1> DEFINE r == run[p]
           s == run'[p]
           d == db[RootOf(r)]
<1>1. /\ s.script = r.script /\ s.next = r.next /\ s.status = r.status /\ s.calls = r.calls
      /\ s.manifest = r.manifest /\ s.before = r.before /\ s.found = r.found
      /\ RootOf(s) = RootOf(r)
  BY DEF SamePlace, RootOf
<1>2. /\ ExportOK(r, d, manifest) /\ ImportSolo(r, db, manifest) /\ ImportKept(r, d, {})
      /\ ValuesOK(r, db, manifest)
  BY DEF TransferOK
<1> HIDE DEF r, s, d
<1>3. ExportOK(s, d, manifest)
  BY <1>1, <1>2 DEF ExportOK
<1>4. ImportSolo(s, db, manifest)
  BY <1>1, <1>2 DEF ImportSolo, Following
<1>5. ImportKept(s, d, {})
  BY <1>1, <1>2 DEF ImportKept
<1>6. ValuesOK(s, db, manifest)
  BY <1>1, <1>2 DEF ValuesOK, Following
<1> QED BY <1>1, <1>3, <1>4, <1>5, <1>6 DEF TransferOK, r, s, d

LEMMA TransferInvInit == LegacyInit => TransferInv
<1> SUFFICES ASSUME LegacyInit, NEW p \in Procs PROVE TransferOK(p)
  BY DEF TransferInv
<1>1. run[p].status = "new" /\ run[p].next = 1
  BY DEF LegacyInit, Idle
<1> QED BY <1>1 DEF TransferOK, ExportOK, ImportSolo, Following, ImportKept, ValuesOK

LEMMA ScriptsStay ==
    ASSUME LegacyInv, [LegacyNext]_vars
    PROVE  \A q \in Procs : run'[q].script = run[q].script
<1>1. ASSUME NEW p \in Procs, ProcessStep(p) PROVE \A q \in Procs : run'[q].script = run[q].script
  BY <1>1, ProcessMoves DEF Move, SamePlace
<1>2. ASSUME NEW p \in Procs, Start(p) PROVE \A q \in Procs : run'[q].script = run[q].script
  BY <1>2, StartMoves DEF SamePlace
<1>3. ASSUME NEW f \in Sources, NEW k \in 1..Size, NEW chunk \in Atoms, Edit(f, k, chunk)
      PROVE  \A q \in Procs : run'[q].script = run[q].script
  BY <1>3, EditMoves DEF SamePlace
<1>4. CASE UNCHANGED vars
  BY <1>4 DEF vars
<1> QED BY <1>1, <1>2, <1>3, <1>4 DEF LegacyNext, ProcessStep

LEMMA TransferInvStep ==
    LegacyInv /\ ImportInv /\ TransferInv /\ [LegacyNext]_vars => TransferInv'
<1> SUFFICES ASSUME LegacyInv, ImportInv, TransferInv, [LegacyNext]_vars,
                    NEW p \in Procs, Solo(p)'
             PROVE  TransferOK(p)'
  BY DEF TransferInv
<1>1. Solo(p) /\ TransferOK(p)
  <2>1. Solo(p)
    BY ScriptsStay DEF Solo
  <2> QED BY <2>1 DEF TransferInv
<1>2. ASSUME NEW q \in Procs, ProcessStep(q) \/ Start(q) PROVE TransferOK(p)'
  <2>1. q = p
    BY <1>1, <1>2, OnlyMover
  <2> QED BY <1>1, <1>2, <2>1, TransferKept, TransferStarts DEF ImportInv
<1>3. ASSUME NEW f \in Sources, NEW k \in 1..Size, NEW chunk \in Atoms, Edit(f, k, chunk)
      PROVE  TransferOK(p)'
  <2>1. SamePlace(run[p], run'[p]) /\ UNCHANGED <<db, manifest>>
    BY <1>3, EditMoves DEF Edit
  <2> QED BY <1>1, <2>1, TransferRests
<1>4. CASE UNCHANGED vars
  <2>1. SamePlace(run[p], run'[p]) /\ UNCHANGED <<db, manifest>>
    BY <1>4 DEF vars, SamePlace
  <2> QED BY <1>1, <2>1, TransferRests
<1> QED BY <1>2, <1>3, <1>4 DEF LegacyNext, ProcessStep

(* Importing what an export has just exported brings the package's blobs,   *)
(* names, tags, relations and metadata as they are in the first root, also  *)
(* when the import crashes and is run again, and leaves every value the     *)
(* second root had of its own, for every package and content of the two     *)
(* roots (transfer.rs export_package, import_directory).                    *)
THEOREM ImportsMirrorExports == LegacySpec => []RoundTrip
<1>1. LegacyInv /\ TransferInv => RoundTrip
  <2> SUFFICES ASSUME LegacyInv, TransferInv, NEW p \in Procs,
                      run[p].status = "ok", Command(p).cmd = "import",
                      run[p].manifest # NoManifest, run[p].next > 1,
                      run[p].script[run[p].next - 1].cmd = "export", run[p].before = "ok",
                      \A q \in Procs \ {p} : run[q].script = <<>>
               PROVE  LET export == run[p].script[run[p].next - 1]
                          a == db[export.root]
                          b == db[Root(p)]
                          hashes == ShowPackage(a, export.name)
                          ids == hashes \cup {export.name}
                      IN  /\ hashes \subseteq ShowPackage(b, export.name)
                          /\ AllBlobNames(a, hashes) \subseteq b.names
                          /\ AllTags(a, ids) \subseteq b.tags
                          /\ AllRelations(a, hashes) \subseteq b.relations
                          /\ \A id \in ids :
                               a.metadata[id] # NoValue =>
                                  b.metadata[id] = IF run[p].found[id] = NoValue
                                                   THEN a.metadata[id] ELSE run[p].found[id]
    BY DEF RoundTrip, Root
  <2> DEFINE r == run[p]
             export == r.script[r.next - 1]
             a == db[export.root]
             b == db[Root(p)]
             hashes == ShowPackage(a, export.name)
             ids == hashes \cup {export.name}
             m == r.manifest
  <2>1. /\ ImportSolo(r, db, manifest) /\ ImportKept(r, b, {}) /\ Following(r)
        /\ ValuesOK(r, db, manifest)
        /\ r.calls = <<>> /\ Root(p) = RootOf(r) /\ r.script[r.next].cmd = "import"
        /\ export \in Commands
    <3>1. TransferOK(p)
      BY DEF TransferInv, Solo
    <3>2. r \in Process /\ Stage(r) /\ r.status # "running"
      BY DEF LegacyInv, ProcessOK
    <3>3. r.calls = <<>>
      BY <3>2 DEF Stage
    <3>4. Following(r) /\ Root(p) = RootOf(r) /\ r.script[r.next].cmd = "import"
      BY DEF Following, Command, Root, RootOf
    <3>5. r.next - 1 \in 1..Len(r.script) /\ r.script \in Seq(Commands)
      BY <3>2 DEF Stage, Process
    <3> QED BY <3>1, <3>3, <3>4, <3>5 DEF TransferOK
  <2>2. export.cmd = "export" /\ export.root \in Roots /\ export.name \in Packages
    <3>1. export.cmd = "export"
      OBVIOUS
    <3> HIDE DEF export
    <3> QED BY <2>1, <3>1 DEF Commands, Urls
  <2>3. a \in Databases /\ hashes \subseteq Digest /\ ids \subseteq Ids
    <3>1. a \in Databases
      BY <2>2 DEF LegacyInv, StateOK
    <3> HIDE DEF a, export
    <3> QED BY <2>2, <3>1 DEF Databases, ShowPackage, Ids
  <2>4. m.package = export.name /\ Synced(m, a)
    <3> HIDE DEF a, export, r
    <3> QED BY <2>1 DEF ImportSolo, r, a, export
  <2>4a. /\ \A id \in Ids : m.metadata[id] # NoValue => a.metadata[id] = m.metadata[id]
         /\ \A id \in Ids : \/ b.metadata[id] = r.found[id]
                            \/ r.found[id] = NoValue /\ b.metadata[id] = m.metadata[id]
    <3>1. m = manifest
      <4> HIDE DEF r
      <4> QED BY <2>1 DEF ImportSolo, r
    <3> HIDE DEF a, export, r, b
    <3> QED BY <2>1, <3>1 DEF ValuesOK, a, b, export
  <2>5. \A part, key : Listed(m, part, key) => Has(b, part, key) \/ Gone({}, part, key)
    <3>1. \A part, key : ~Pending(<<>>, part, key)
      BY DEF Pending
    <3> HIDE DEF b
    <3> QED BY <2>1, <3>1 DEF ImportKept
  <2> HIDE DEF r, export, a, b, hashes, m
  <2>6. \A part, key : Has(a, part, key) /\ About(m, part, key) => Has(b, part, key)
    BY <2>4, <2>5 DEF Synced, Gone
  <2>7. ASSUME NEW h \in hashes PROVE h \in m.hashes /\ h \in ShowPackage(b, export.name)
    <3> DEFINE key == <<export.name, h>>
    <3>1. key[1] = export.name /\ key[2] = h
      OBVIOUS
    <3>2. key \in a.members
      BY <2>3, <2>7 DEF hashes, ShowPackage, Databases
    <3> HIDE DEF key
    <3>3. Has(a, "members", key) /\ About(m, "members", key)
      BY <2>4, <3>1, <3>2 DEF Has, About
    <3>4. Listed(m, "members", key) /\ key \in b.members
      BY <2>4, <2>6, <3>3 DEF Synced, Has
    <3>5. h \in m.hashes
      <4>1. PICK g \in m.hashes : key = <<m.package, g>>
        BY <3>4 DEF Listed
      <4> QED BY <3>1, <4>1
    <3> QED BY <3>1, <3>4, <3>5 DEF ShowPackage
  <2>8. AllBlobNames(a, hashes) \subseteq b.names
    <3> SUFFICES ASSUME NEW key \in a.names, key[1] \in hashes PROVE key \in b.names
      BY DEF AllBlobNames
    <3>1. Has(a, "names", key) /\ About(m, "names", key)
      BY <2>7 DEF Has, About
    <3> QED BY <2>6, <3>1 DEF Has
  <2>9. AllTags(a, ids) \subseteq b.tags
    <3> SUFFICES ASSUME NEW key \in a.tags, key[1] \in ids PROVE key \in b.tags
      BY DEF AllTags
    <3>1. Has(a, "tags", key) /\ About(m, "tags", key)
      BY <2>4, <2>7 DEF Has, About
    <3> QED BY <2>6, <3>1 DEF Has
  <2>10. AllRelations(a, hashes) \subseteq b.relations
    <3> SUFFICES ASSUME NEW key \in a.relations, key[1] \in hashes PROVE key \in b.relations
      BY DEF AllRelations
    <3>1. Has(a, "relations", key) /\ About(m, "relations", key)
      BY <2>7 DEF Has, About
    <3> QED BY <2>6, <3>1 DEF Has
  <2>11. ASSUME NEW id \in ids, a.metadata[id] # NoValue
         PROVE  b.metadata[id] = IF r.found[id] = NoValue THEN a.metadata[id] ELSE r.found[id]
    <3>1. Has(a, "metadata", id) /\ About(m, "metadata", id) /\ id \in Ids
      BY <2>3, <2>4, <2>7, <2>11 DEF Has, About
    <3>2. b.metadata[id] # NoValue
      BY <2>6, <3>1 DEF Has
    <3>3. m.metadata[id] # NoValue
      BY <2>4, <3>1 DEF Synced, Listed
    <3> QED BY <2>4a, <3>1, <3>2, <3>3
  <2> QED BY <2>7, <2>8, <2>9, <2>10, <2>11 DEF r, export, a, b, hashes
<1>2. LegacySpec => []ImportInv
  BY ImportInvInit, ImportInvStep, LegacyInvariant, PTL DEF LegacySpec
<1>3. LegacySpec => []TransferInv
  BY <1>2, TransferInvInit, TransferInvStep, LegacyInvariant, PTL DEF LegacySpec
<1> QED BY <1>1, <1>3, LegacyInvariant, PTL
=============================================================================

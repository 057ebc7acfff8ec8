---------------------------- MODULE MCLegacyStore ----------------------------
(* TLC instances of LegacyStore.                                            *)
EXTENDS LegacyStore

CONSTANTS p1, p2, r1, r2, s1, s2, x, y, pkg, n, label, Ours, Theirs, Latest

H == <<x, y>>
J == <<y, y>>

Empty == [place \in Places \X Digest |-> NoFile]
Whole(places, hashes) ==
    [f \in Places \X Digest |->
        IF f[1] \in places /\ f[2] \in hashes
        THEN [data |-> f[2], readonly |-> TRUE] ELSE NoFile]
NoRows == [r \in Roots |-> EmptyDb]

(* A root with a package of two blobs, and the manifest of its export.       *)
Stock ==
    [rows |-> {H, J}, names |-> {<<H, n>>}, packages |-> {pkg},
     members |-> {<<pkg, H>>, <<pkg, J>>}, tags |-> {<<pkg, label>>, <<J, label>>},
     metadata |-> [EmptyDb.metadata EXCEPT ![H] = Theirs], relations |-> {<<H, J>>}]
StockManifest ==
    [package |-> pkg, hashes |-> {H}, names |-> {<<H, n>>}, tags |-> {<<pkg, label>>},
     metadata |-> [EmptyDb.metadata EXCEPT ![H] = Theirs], relations |-> {<<H, J>>}]
(* A root that has metadata of its own for a blob of the export.             *)
Annotated == [EmptyDb EXCEPT !.metadata[H] = Ours]

Sourced == [s \in Sources |-> IF s = s1 THEN H ELSE Absent]
NoSource == [s \in Sources |-> Absent]

Scenario(first, second, fs, rows, m, shared) ==
    [scripts |-> [p \in Procs |-> IF p = p1 THEN first ELSE second],
     source |-> IF fs = Empty THEN Sourced ELSE NoSource, files |-> fs, db |-> rows, manifest |-> m, threads |-> shared]

AddPathOf(files_) ==
    [cmd |-> "add-path", root |-> r1, files |-> files_, tags |-> <<label>>, meta |-> Ours]
AddUrlOf(body, expected, unzip) ==
    [cmd |-> "add-url", root |-> r1, body |-> body, name |-> n, expected |-> expected,
     unzip |-> unzip,
     archive |-> << [dir |-> TRUE, name |-> n, body |-> NoValue],
                    [dir |-> FALSE, name |-> n, body |-> H],
                    [dir |-> FALSE, name |-> NoValue, body |-> J],
                    [dir |-> FALSE, name |-> n, body |-> J] >>]
FetchCommand(cmd) == [AddUrlOf(J, J, TRUE) EXCEPT !.cmd = cmd]
Verified(file, expected) ==
    [cmd |-> "add-verified-path", root |-> r1, file |-> file, expected |-> expected]
Agent(lines) == [cmd |-> "lfs-agent", root |-> r1, input |-> lines]
Upload(oid, file) == [op |-> "upload", oid |-> oid, input |-> file]
FetchOf(oid) == [op |-> "fetch", oid |-> oid]
Line(op) == [op |-> op]
Package(cmd) == [cmd |-> cmd, root |-> r1, name |-> pkg]
PackageAdd(hashes) == [cmd |-> "pkg-add", root |-> r1, name |-> pkg, hashes |-> hashes]
Export(root) == [cmd |-> "export", root |-> root, name |-> pkg]
Import(root) == [cmd |-> "import", root |-> root]
Meta(value) == [cmd |-> "meta", root |-> r1, id |-> H, value |-> value]
Tag == [cmd |-> "tag", root |-> r1, id |-> pkg, tags |-> <<label>>]
Rel == [cmd |-> "rel", root |-> r1, id |-> H, target |-> J]

Alone(first, fs, rows, m) == Scenario(first, <<>>, fs, rows, m, FALSE)
Adds(first, second) == Scenario(first, second, Empty, NoRows, NoManifest, FALSE)
Imports(first, second, rows, shared) ==
    Scenario(first, second, Whole({ExportDir}, {H}), rows, StockManifest, shared)

MCScenarios ==
    { Adds(<<AddPathOf(<<s1>>)>>, <<AddPathOf(<<s1>>)>>),
      Adds(<<AddPathOf(<<s1, s2>>)>>, <<Agent(<<Upload(H, s1)>>)>>),
      Adds(<<Agent(<< Line("init"), Upload(H, s1), Line("blank"), FetchOf(H),
                      Upload(J, s1), Upload(J, s2), Line("terminate"), FetchOf(H) >>)>>,
           <<Agent(<< FetchOf(H), Upload(H, s1), Line("unparsable") >>)>>),
      Adds(<<Verified(s1, H), Verified(s1, J)>>, <<AddUrlOf(H, H, FALSE)>>),
      Adds(<<AddUrlOf(Absent, NoValue, FALSE), AddUrlOf(H, J, FALSE)>>,
           <<AddUrlOf(H, NoValue, FALSE)>>),
      Adds(<<AddUrlOf(J, J, TRUE), Rel>>, <<AddUrlOf(J, NoValue, FALSE)>>),
      Adds(<<AddUrlOf(J, NoValue, TRUE), FetchCommand("fetch")>>,
           <<AddUrlOf(Absent, NoValue, TRUE)>>),
      Adds(<<FetchCommand("fetch-unzip")>>, <<Verified(s1, H), Agent(<<>>)>>),
      Imports(<<Import(r1)>>, <<Import(r1)>>, NoRows, FALSE),
      Imports(<<Import(r1)>>, <<Meta(Latest)>>,
              [NoRows EXCEPT ![r1] = Annotated], FALSE),
      Imports(<<Import(r1)>>, <<Package("pkg-rm"), Tag>>, NoRows, FALSE),
      Imports(<<Import(r1)>>, <<Import(r1), Package("pkg-rm")>>, NoRows, TRUE),
      Scenario(<<Package("pkg-create"), PackageAdd(<<H, J>>)>>,
               <<Package("pkg-rm"), Package("pkg-rm")>>,
               Whole({r1}, {H}), [NoRows EXCEPT ![r1].rows = {H}], NoManifest, FALSE),
      Scenario(<<Export(r2)>>, <<Import(r1), Export(r2)>>,
               Whole({r2}, {H, J}), [NoRows EXCEPT ![r2] = Stock], NoManifest, FALSE),
      Alone(<<Export(r2), Import(r1)>>,
            Whole({r2}, {H, J}), [NoRows EXCEPT ![r2] = Stock], NoManifest),
      Alone(<<Export(r2), Import(r1)>>, Whole({r2}, {H, J}),
            [NoRows EXCEPT ![r2] = Stock, ![r1] = Annotated], NoManifest) }
=============================================================================

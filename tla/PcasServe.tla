------------------------------ MODULE PcasServe ------------------------------
(***************************************************************************)
(* `pcas serve` beside `pcas index` and the owner of the tree: the two     *)
(* routes that read files, /<path> and /pcas/<digest>, one action per      *)
(* file-system call, with clients that keep what they got and revalidate   *)
(* it with If-None-Match.                                                  *)
(*                                                                         *)
(* Routing, the other headers and the bytes of a body are Respond's; here  *)
(* a body is the content of the open descriptor, read in one step.         *)
(***************************************************************************)
EXTENDS PcasIndex

CONSTANTS
    Clients,    \* HTTP clients, each with one request under way at most
    NoTarget,   \* no request yet
    NoTag       \* no entity tag

Targets == Paths \cup Digests

ASSUME ServeAssumption ==
    /\ Paths \cap Digests = {} /\ NoTarget \notin Targets
    /\ NoTag \notin [inode : Inodes, mtime : 0..MaxClock] \cup Digests
    /\ [inode : Inodes, mtime : 0..MaxClock] \cap Digests = {}

VARIABLES
    req,     \* each client's request, and then the answer to it
    cache,   \* the copy each client keeps of one path, with its entity tag
    seen     \* what the target has held since its request was sent

serveVars == <<vars, req, cache, seen>>

-----------------------------------------------------------------------------

Stages == {"idle", "canonicalize", "stat", "open", "list", "openObject",
           "fstat", "respond", "answered"}

\* Representation::for_hierarchy: W/"<device>-<inode>-<size>-<mtime_ns>".  The
\* size is left out: two contents may have the same one.
HierarchyTags == [inode : Inodes, mtime : 0..MaxClock]

Tags == HierarchyTags \cup Digests

\* Seeded bug: the tag does not name the mtime, and an inode number is reused.
InodeTag(i) == [inode |-> i, mtime |-> 0]

HierarchyTag(i) == [inode |-> i, mtime |-> mtime[i]]

Request == [at : Stages, target : Targets \cup {NoTarget},
            cond : Tags \cup {NoTag},           \* If-None-Match
            found : Entry \cup {NoEntry},       \* ResolvedDigest
            fd : Inodes \cup {NoInode},         \* the one open descriptor
            tag : Tags \cup {NoTag},            \* Representation.etag
            status : {0, 200, 304, 404, 500},
            body : Digests \cup {NoDigest}]

Idle == [at |-> "idle", target |-> NoTarget, cond |-> NoTag,
         found |-> NoEntry, fd |-> NoInode, tag |-> NoTag, status |-> 0,
         body |-> NoDigest]

NotCached == [target |-> NoTarget, tag |-> NoTag, body |-> NoDigest]

ServeTypeOK ==
    /\ TypeOK
    /\ req \in [Clients -> Request]
    /\ cache \in [Clients -> [target : Targets \cup {NoTarget},
                              tag : Tags \cup {NoTag},
                              body : Digests \cup {NoDigest}]]
    /\ seen \in [Clients -> SUBSET (Digests \cup {NoDigest})]
    /\ \A c \in Clients : \* a descriptor is open exactly while it is used
          req[c].fd # NoInode <=> req[c].at \in {"fstat", "respond"}

\* What a reader of the target is entitled to: the bytes at a visible path, the
\* bytes a stored digest stands for.
Held == [t \in Targets |->
            IF t \in Paths THEN Tree[t]
            ELSE IF \E e \in entries : e.digest = t THEN t ELSE NoDigest]

Observe(targets) ==
    seen' = [c \in Clients |->
                IF req[c].target \in targets
                THEN seen[c] \cup {Held'[req[c].target]} ELSE seen[c]]

-----------------------------------------------------------------------------
(* One request *)

At(c, stage) == req[c].at = stage

Goes(c, stage) == req' = [req EXCEPT ![c].at = stage]

Opens(c, inode) == req' = [req EXCEPT ![c].at = "fstat", ![c].fd = inode]

\* Seeded bug: the descriptor outlives the response.
AnswerLeaks(c, status, body) ==
    req' = [req EXCEPT ![c].at = "answered", ![c].status = status,
                       ![c].body = body]

\* The response is sent and the descriptor dropped with it.
Answer(c, status, body) ==
    req' = [req EXCEPT ![c] =
              [Idle EXCEPT !.at = "answered", !.target = req[c].target,
                           !.status = status, !.body = body]]

ReadsOnly(c) == UNCHANGED <<vars, cache, seen>>

\* The tag of the copy the client has of the target, if it has one.
Kept(c, t) == IF cache[c].target = t THEN cache[c].tag ELSE NoTag

\* A GET, conditional when the client has a copy and cares to revalidate it.
Send(c, t) ==
    /\ At(c, "idle")
    /\ \E cond \in {NoTag, Kept(c, t)} :
          req' = [req EXCEPT ![c] =
                    [Idle EXCEPT !.at = IF t \in Paths THEN "canonicalize"
                                        ELSE "list",
                                 !.target = t, !.cond = cond]]
    /\ seen' = [seen EXCEPT ![c] = {Held[t]}]
    /\ UNCHANGED <<vars, cache>>

\* resolve::finalize names the path in three calls, and any of them may find
\* it gone: canonicalize, metadata, open.
Canonicalize(c) ==
    /\ At(c, "canonicalize")
    /\ \/ visible[req[c].target] # NoInode /\ Goes(c, "stat")
       \/ visible[req[c].target] = NoInode /\ Answer(c, 404, NoDigest)
    /\ ReadsOnly(c)

Stat(c) ==
    /\ At(c, "stat")
    /\ \/ visible[req[c].target] # NoInode /\ Goes(c, "open")
       \/ visible[req[c].target] = NoInode /\ Answer(c, 404, NoDigest)
    /\ ReadsOnly(c)

OpenPath(c) ==
    /\ At(c, "open")
    /\ \/ /\ visible[req[c].target] # NoInode
          /\ Opens(c, visible[req[c].target])
       \/ visible[req[c].target] = NoInode /\ Answer(c, 404, NoDigest)
    /\ ReadsOnly(c)

\* Seeded bug: an entry whose name does not have the digest passes.
AnyEntry(d) == entries

\* scan_shard_for_digest.
ShardMatches(d) == {e \in entries : e.digest = d}

ListShard(c) ==
    /\ At(c, "list")
    /\ LET matches == ShardMatches(req[c].target)
       IN  \/ \E e \in matches :
                 /\ matches = {e}
                 /\ req' = [req EXCEPT ![c].at = "openObject", ![c].found = e]
           \/ /\ Cardinality(matches) # 1
              /\ Answer(c, IF matches = {} THEN 404 ELSE 500, NoDigest)
    /\ ReadsOnly(c)

\* The entry is opened by the name it had when it was listed.
OpenObject(c) ==
    /\ At(c, "openObject")
    /\ \/ req[c].found \in entries /\ Opens(c, req[c].found.inode)
       \/ req[c].found \notin entries /\ Answer(c, 500, NoDigest)
    /\ ReadsOnly(c)

\* Representation: from fstat of the descriptor, or from the digest resolved.
Fstat(c) ==
    /\ At(c, "fstat")
    /\ req' = [req EXCEPT
                 ![c].at = "respond",
                 ![c].tag = IF req[c].target \in Paths
                            THEN HierarchyTag(req[c].fd) ELSE req[c].target]
    /\ ReadsOnly(c)

RespondNotModified(c) ==
    /\ At(c, "respond") /\ req[c].cond = req[c].tag
    /\ Answer(c, 304, NoDigest)
    /\ ReadsOnly(c)

\* Seeded bug: the body is read from the path, as ServeFile would, and not from
\* the descriptor the tag came from.
ReopenedFile(c) ==
    IF req[c].target \in Paths /\ visible[req[c].target] # NoInode
    THEN visible[req[c].target] ELSE req[c].fd

BodyFile(c) == req[c].fd

\* The visible tree is sent with no-cache, so its copies are revalidated; a
\* digest's is immutable and good for a year, and the client asks again only
\* when it has dropped it.
SendBody(c) ==
    /\ At(c, "respond") /\ req[c].cond # req[c].tag
    /\ LET body == content[BodyFile(c)]
       IN  /\ Answer(c, 200, body)
           /\ cache' = [cache EXCEPT ![c] =
                          IF req[c].target \in Digests THEN @
                          ELSE [target |-> req[c].target,
                                tag |-> req[c].tag, body |-> body]]
    /\ UNCHANGED <<vars, seen>>

Receive(c) ==
    /\ At(c, "answered")
    /\ req' = [req EXCEPT ![c] = Idle]
    /\ seen' = [seen EXCEPT ![c] = {}]
    /\ UNCHANGED <<vars, cache>>

-----------------------------------------------------------------------------

ServeInit ==
    /\ Init
    /\ req = [c \in Clients |-> Idle]
    /\ cache = [c \in Clients |-> NotCached]
    /\ seen = [c \in Clients |-> {}]

HierarchyRoute(c) == Canonicalize(c) \/ Stat(c) \/ OpenPath(c)

DigestRoute(c) == ListShard(c) \/ OpenObject(c)

RespondStep(c) ==
    Fstat(c) \/ RespondNotModified(c) \/ SendBody(c)

\* An answer is received before anything else happens, so that `seen` stops
\* when the answer is sent.
Unanswered == \A c \in Clients : ~At(c, "answered")

\* Index runs may take objects away, never what a path holds.
IndexStep ==
    /\ Unanswered
    /\ \E p \in Procs : Acquire(p) \/ RunStep(p) \/ Crash(p)
    /\ Observe(Digests)
    /\ UNCHANGED <<req, cache>>

\* The file system does not hand out an inode some descriptor keeps open.
OwnerStep ==
    /\ Unanswered
    /\ User
    /\ UNCHANGED <<req, cache>>
    /\ \A c \in Clients :
          req[c].fd # NoInode /\ Free(req[c].fd) => Free(req[c].fd)'
    /\ Observe(Paths)

ServeNext ==
    \/ IndexStep \/ OwnerStep
    \/ \E c \in Clients :
          \/ \E t \in Targets : Send(c, t)
          \/ HierarchyRoute(c) \/ DigestRoute(c) \/ RespondStep(c)
          \/ Receive(c)

ServeSpec == ServeInit /\ [][ServeNext]_serveVars

-----------------------------------------------------------------------------

\* Every answer is one an atomic reader could have had at some moment between
\* the request and the answer: the bytes the owner had put at the path then, or
\* 404 because there was none; for a digest its own bytes, or a miss because it
\* was not stored then.  A 304 stands for the copy the client keeps.  Index
\* runs that replace links, rename and unlink entries, or die half-way, are
\* invisible to readers, as are the calls one request is made of.
AnswersLinearizable ==
    \A c \in Clients : At(c, "answered") =>
       CASE req[c].status = 200 -> req[c].body \in seen[c]
         [] req[c].status = 304 -> cache[c].body \in seen[c]
         [] req[c].status \in {404, 500} -> NoDigest \in seen[c]

\* 500 is left to a digest that went away between the listing and the open; the
\* visible tree, and a digest that is stored or is not, never produce it.
ErrorsNeedRemoval ==
    \A c \in Clients : At(c, "answered") /\ req[c].status = 500 =>
       req[c].target \in Digests /\ seen[c] = {req[c].target, NoDigest}

\* A weak entity tag names one sequence of bytes for ever, at any path and
\* for any client: a body about to be sent under a tag some client keeps is the
\* body it keeps, although inode numbers are reused and a path is
\* replaced while its file is being sent.
TagNamesBytes ==
    \A c, other \in Clients :
       At(c, "respond") /\ req[c].tag = cache[other].tag =>
          content[BodyFile(c)] = cache[other].body
=============================================================================

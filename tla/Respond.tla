------------------------------- MODULE Respond -------------------------------
(***************************************************************************)
(* One connection to `pcas serve`: a request is routed, its file opened,   *)
(* its preconditions and ranges evaluated, and the response streamed chunk *)
(* by chunk from the open descriptor, while others rewrite the file in     *)
(* place or replace it.  A client may break off a download and resume it.  *)
(*                                                                         *)
(* All regular files of the site are links to one file, which is also the  *)
(* only object of the store.  Every write makes a version, and a byte only *)
(* says which version it is of.  Times are ticks, TicksPerSecond of them   *)
(* making the second an HTTP date is rounded to.                           *)
(***************************************************************************)
EXTENDS HttpPath, Preconditions, ByteRanges, FiniteSets

CONSTANTS
    Requests,         \* the requests clients make up
    Length,           \* the length of the file at first
    WriteLengths,     \* the lengths a write may leave it with
    MaxWrites,        \* bound: writes in all
    TicksPerSecond,   \* the resolution of HTTP dates
    ChunkSize,        \* MULTIPART_CHUNK_SIZE, and ReaderStream's buffer
    NoFile            \* no descriptor

Units == [atom : STRING, escaped : BOOLEAN]

RangeSpecs == LET Text == Nat \cup {Blank, Junk} IN [first : Text, last : Text]

\* What a client may ask: headers are parsed as far as their grammar goes.
Request ==
    LET Dates == Nat \cup {Absent, BadDate}
        Conditions == Tags \cup {Absent, AnyTag}
    IN  [method : {"GET", "HEAD", "POST"}, path : Seq(Seq(Units)),
         ifMatch : Conditions, ifUnmodifiedSince : Dates,
         ifNoneMatch : Conditions, ifModifiedSince : Dates,
         range : Seq([unit : {"bytes", "other"}, specs : Seq(RangeSpecs)]),
         ifRange : [by : {"absent", "bad", "tag", "date"}, tag : Tags, date : Nat]]

ASSUME RespondAssumption ==
    /\ Requests \subseteq Request
    /\ {Length, MaxWrites} \cup WriteLengths \subseteq Nat
    /\ TicksPerSecond \in Nat \ {0} /\ ChunkSize \in Nat \ {0}
    /\ NoFile \notin Nat

VARIABLES
    files,     \* the inodes: length, version of bytes, mtime; the first is the object
    named,     \* the inode the visible paths name now
    now,       \* the clock
    version,   \* the last version written
    stale,     \* has a write left the Last-Modified second as it was, or older?
    request,   \* the request under way
    server,    \* what the handler knows of it
    reply,     \* what has been sent
    copy       \* the beginning of a download the client has broken off

fileVars == <<files, named, now, version, stale>>
respondVars == <<fileVars, request, server, reply, copy>>

-----------------------------------------------------------------------------

Second(tick) == tick \div TicksPerSecond

Plain == [method |-> "GET", path |-> <<>>, ifMatch |-> Absent,
          ifUnmodifiedSince |-> Absent, ifNoneMatch |-> Absent,
          ifModifiedSince |-> Absent, range |-> <<>>,
          ifRange |-> [by |-> "absent", tag |-> StrongTag, date |-> 0]]

NoRepr == [len |-> 0, tag |-> StrongTag, date |-> 0]

NoServer == [at |-> "idle", fd |-> NoFile, repr |-> NoRepr, todo |-> {},
             ranges |-> <<>>, offset |-> 0, stop |-> 0,
             disturbed |-> FALSE]

NoReply == [status |-> 0, length |-> 0, sent |-> <<>>, whole |-> FALSE,
            listing |-> {}]

NoCopy == [path |-> <<>>, have |-> <<>>, tag |-> StrongTag, date |-> 0,
           disturbed |-> FALSE]

Stages == {"idle", "handle", "evaluate", "coalesce", "stream", "part",
           "partBody", "partTrailer", "done"}

\* What goes over the wire: a byte and its position, or framing.
Byte(inode, pos) == [kind |-> "byte", pos |-> pos, of |-> files[inode].of]

Framing(kind) == [kind |-> kind, pos |-> 0, of |-> 0]

At(stage) == server.at = stage

\* The response is over; its descriptor is dropped.
Done == server' = [NoServer EXCEPT !.at = "done", !.repr = server.repr,
                                   !.disturbed = server.disturbed]

Finish(whole) == Done /\ reply' = [reply EXCEPT !.whole = whole]

\* A response without a body, or a HEAD.
Empty(status) ==
    /\ Done
    /\ reply' = [NoReply EXCEPT !.status = status, !.whole = TRUE]

-----------------------------------------------------------------------------
(* Clients *)

\* Who asks for something else has given up the download broken off before.
Send(r) ==
    /\ At("idle")
    /\ request' = r
    /\ server' = [NoServer EXCEPT !.at = "handle"]
    /\ copy' = NoCopy
    /\ UNCHANGED <<fileVars, reply>>

\* The rest of a download, if the file is still the one it was.
Rest(by) ==
    [Plain EXCEPT
       !.path = copy.path,
       !.range = << [unit |-> "bytes",
                     specs |-> << [first |-> Len(copy.have),
                                   last |-> Blank] >>] >>,
       !.ifRange = [by |-> by, tag |-> copy.tag, date |-> copy.date]]

Resume(by) ==
    /\ At("idle") /\ copy.have # <<>>
    /\ request' = Rest(by)
    /\ server' = [NoServer EXCEPT !.at = "handle"]
    /\ UNCHANGED <<fileVars, reply, copy>>

\* Is what the client has got still good?  Who sends the tag sends the date with
\* it; a proxy may have weakened the tag.
Validation(by) ==
    [Plain EXCEPT
       !.path = copy.path,
       !.ifNoneMatch = IF by = "date" THEN Absent
                       ELSE IF by = "weakened" THEN Weakened(copy.tag)
                       ELSE copy.tag,
       !.ifModifiedSince = copy.date]

Revalidate(by) ==
    /\ At("idle") /\ copy.have # <<>>
    /\ request' = Validation(by)
    /\ server' = [NoServer EXCEPT !.at = "handle"]
    /\ UNCHANGED <<fileVars, reply, copy>>

\* The client breaks off a 200 and keeps what it has got of it.
Disconnect ==
    /\ At("stream") /\ reply.status = 200 /\ reply.sent # <<>>
    /\ request = [Plain EXCEPT !.path = request.path]
    /\ copy' = [path |-> request.path,
                have |-> [k \in DOMAIN reply.sent |-> reply.sent[k].of],
                tag |-> server.repr.tag, date |-> server.repr.date,
                disturbed |-> server.disturbed]
    /\ request' = Plain /\ server' = NoServer /\ reply' = NoReply
    /\ UNCHANGED fileVars

Receive ==
    /\ At("done")
    /\ request' = Plain /\ server' = NoServer /\ reply' = NoReply
    /\ copy' = IF reply.status = 304 THEN copy ELSE NoCopy
    /\ UNCHANGED fileVars

-----------------------------------------------------------------------------
(* handle, dispatch, resolve *)

Representation(inode, strong) ==
    [len  |-> files[inode].len,
     tag  |-> IF strong THEN StrongTag
              ELSE WeakTag(inode, files[inode].len, files[inode].mtime),
     date |-> Second(files[inode].mtime)]

Opens(inode, strong) ==
    /\ server' = [NoServer EXCEPT !.at = "evaluate", !.fd = inode,
                                  !.repr = Representation(inode, strong)]
    /\ UNCHANGED reply

MethodAllowed == request.method \in {"GET", "HEAD"}

HandleOther ==
    /\ At("handle") /\ ~MethodAllowed
    /\ Empty(405)
    /\ UNCHANGED <<fileVars, request, copy>>

Handle ==
    /\ At("handle") /\ MethodAllowed
    /\ LET route == Route(request.path)
       IN  \/ route.kind = "none" /\ Empty(route.status)
           \/ route.kind = "object" /\ Opens(1, TRUE)
           \/ route.kind = "file" /\ Opens(named, FALSE)
           \/ /\ route.kind = "listing"
              /\ server' = [NoServer EXCEPT !.at = "done"]
              /\ reply' = [NoReply EXCEPT !.status = 200, !.whole = TRUE,
                             !.listing = IF request.method = "GET"
                                         THEN Listed(route.target) ELSE {}]
    /\ UNCHANGED <<fileVars, request, copy>>

-----------------------------------------------------------------------------
(* respond: up to the head of the response *)

Verdict == Evaluate(request, server.repr.tag, server.repr.date)

Starts(status, length, stage) ==
    IF request.method = "HEAD" THEN Empty(status)
    ELSE /\ server' = [server EXCEPT !.at = stage, !.stop = server.repr.len]
         /\ reply' = [NoReply EXCEPT !.status = status, !.length = length]

\* A 304, 412 or 400 before any Range is looked at.
PreconditionBlocks ==
    /\ At("evaluate") /\ Verdict # "proceed"
    /\ Empty(CASE Verdict = "failed" -> 412
               [] Verdict = "notModified" -> 304
               [] Verdict = "malformed" -> 400)
    /\ UNCHANGED <<fileVars, request, copy>>

RangeMalformed ==
    \/ RangeHeader(request.range) = "malformed"
    \/ RangeHeader(request.range) = "bytes" /\ request.ifRange.by = "bad"

RangeRejected ==
    /\ At("evaluate") /\ Verdict = "proceed" /\ RangeMalformed
    /\ Empty(400)
    /\ UNCHANGED <<fileVars, request, copy>>

\* No Range, one that is to be ignored, or If-Range says that it is.
RangeApplies ==
    /\ RangeHeader(request.range) = "bytes"
    /\ ~RangeIsStale(request, server.repr.tag, server.repr.date)

FullResponse ==
    /\ At("evaluate") /\ Verdict = "proceed"
    /\ ~RangeMalformed /\ ~RangeApplies
    /\ Starts(200, server.repr.len, "stream")
    /\ UNCHANGED <<fileVars, request, copy>>

\* select, up to the sort.
ClampRanges ==
    /\ At("evaluate") /\ Verdict = "proceed"
    /\ ~RangeMalformed /\ RangeApplies
    /\ LET raw == RawRanges(request.range)
           satisfiable == Satisfiable(raw, server.repr.len)
       IN  IF Len(raw) > MaxRawRanges \/ satisfiable = {}
           THEN Empty(416)
           ELSE /\ server' = [server EXCEPT !.at = "coalesce",
                                            !.todo = satisfiable]
                /\ UNCHANGED reply
    /\ UNCHANGED <<fileVars, request, copy>>

\* The ranges come in order of their starts.
Coalesce ==
    /\ At("coalesce")
    /\ \E r \in server.todo :
          /\ \A other \in server.todo : r.start <= other.start
          /\ server' = [server EXCEPT !.todo = @ \ {r},
                                      !.ranges = Absorb(@, r)]
    /\ UNCHANGED <<fileVars, request, reply, copy>>

ByteLen(r) == r.end - r.start + 1

SingleRange ==
    /\ At("coalesce") /\ server.todo = {} /\ Len(server.ranges) = 1
    /\ MaxCoalescedRanges >= 1
    /\ LET r == server.ranges[1]
       IN  IF request.method = "HEAD" THEN Empty(206)
           ELSE /\ server' = [server EXCEPT !.at = "stream",
                                 !.offset = r.start, !.stop = r.end + 1]
                /\ reply' = [NoReply EXCEPT !.status = 206,
                                            !.length = ByteLen(r)]
    /\ UNCHANGED <<fileVars, request, copy>>

\* The last boundary, and each part's bytes in its frame.
FramedLength(ranges, frame) ==
    LET upTo[k \in 0..Len(ranges)] ==
          IF k = 0 THEN 1 ELSE upTo[k - 1] + frame + ByteLen(ranges[k])
    IN  upTo[Len(ranges)]

\* Seeded bug: the line break after each part is not counted.
UncountedTrailer(ranges) == FramedLength(ranges, 1)

\* Each part is a header, its bytes and a line break.
MultipartLength(ranges) == FramedLength(ranges, 2)

Multipart ==
    /\ At("coalesce") /\ server.todo = {}
    /\ Len(server.ranges) \in 2..MaxCoalescedRanges
    /\ Starts(206, MultipartLength(server.ranges), "part")
    /\ UNCHANGED <<fileVars, request, copy>>

TooManyRanges ==
    /\ At("coalesce") /\ server.todo = {}
    /\ Len(server.ranges) > MaxCoalescedRanges
    /\ Empty(416)
    /\ UNCHANGED <<fileVars, request, copy>>

-----------------------------------------------------------------------------
(* The body.  Hyper sends Content-Length bytes and no more, and breaks the  *)
(* connection when the stream ends or fails before that.                    *)

Emit(items) == reply' = [reply EXCEPT !.sent = @ \o items]

Slice(inode, from, count) == [k \in 1..count |-> Byte(inode, from + k - 1)]

Available == IF files[server.fd].len > server.offset
             THEN files[server.fd].len - server.offset ELSE 0

\* ReaderStream over the whole file, or over `take` of it after a seek.
ReadChunk ==
    /\ At("stream") /\ server.offset < server.stop
    /\ LET count == Lesser(Lesser(ChunkSize, Available),
                           server.stop - server.offset)
       IN  IF count = 0 THEN Finish(FALSE)
           ELSE /\ Emit(Slice(server.fd, server.offset, count))
                /\ server' = [server EXCEPT !.offset = @ + count]
    /\ UNCHANGED <<fileVars, request, copy>>

StreamEnds ==
    /\ At("stream") /\ server.offset >= server.stop
    /\ Finish(Len(reply.sent) = reply.length)
    /\ UNCHANGED <<fileVars, request, copy>>

NextPart ==
    /\ At("part") /\ server.ranges # <<>>
    /\ Emit(<<Framing("header")>>)
    /\ server' = [server EXCEPT !.at = "partBody",
                    !.offset = server.ranges[1].start,
                    !.stop = server.ranges[1].end + 1, !.ranges = Tail(@)]
    /\ UNCHANGED <<fileVars, request, copy>>

\* Seeded bug: read takes what there is, which at the end of the file is
\* nothing, for ever.
PartBodyShort ==
    /\ At("partBody") /\ server.offset < server.stop
    /\ LET count == Lesser(Lesser(ChunkSize, Available),
                           server.stop - server.offset)
       IN  /\ Emit(Slice(server.fd, server.offset, count))
           /\ server' = [server EXCEPT !.offset = @ + count]
    /\ UNCHANGED <<fileVars, request, copy>>

\* read_exact: all of the chunk or an error.
PartBody ==
    /\ At("partBody") /\ server.offset < server.stop
    /\ LET want == Lesser(ChunkSize, server.stop - server.offset)
       IN  IF Available < want THEN Finish(FALSE)
           ELSE /\ Emit(Slice(server.fd, server.offset, want))
                /\ server' = [server EXCEPT !.offset = @ + want]
    /\ UNCHANGED <<fileVars, request, copy>>

PartTrailer ==
    /\ At("partBody") /\ server.offset >= server.stop
    /\ Emit(<<Framing("crlf")>>)
    /\ server' = [server EXCEPT !.at = "part"]
    /\ UNCHANGED <<fileVars, request, copy>>

FinalBoundary ==
    /\ At("part") /\ server.ranges = <<>>
    /\ Done
    /\ reply' = [reply EXCEPT !.sent = Append(@, Framing("final")),
                              !.whole = Len(reply.sent) + 1 = reply.length]
    /\ UNCHANGED <<fileVars, request, copy>>

-----------------------------------------------------------------------------
(* Everybody else: at each tick of the clock, a write or none *)

\* A write that leaves the inode with this length and mtime.
Written(inode, len, mtime) ==
    /\ version < MaxWrites
    /\ version' = version + 1
    /\ files' = [i \in DOMAIN files \cup {inode} |->
                   IF i = inode
                   THEN [len |-> len, of |-> version + 1, mtime |-> mtime]
                   ELSE files[i]]
    /\ stale' = (stale \/ Second(mtime) <= Second(files[named].mtime))
    /\ server' = [server EXCEPT !.disturbed = @ \/ inode = server.fd]
    /\ UNCHANGED <<request, reply, copy>>

Later == now + 1 .. now + TicksPerSecond

\* The file is changed in place.
Rewrite ==
    \E tick \in Later, len \in WriteLengths :
       /\ Written(named, len, tick)
       /\ now' = tick /\ UNCHANGED named

\* A new file is renamed over the path; one moved in keeps its old mtime.
Replace ==
    \E tick \in Later, len \in WriteLengths : \E mtime \in {0, tick} :
       /\ Written(Len(files) + 1, len, mtime)
       /\ now' = tick /\ named' = Len(files) + 1

-----------------------------------------------------------------------------

RespondInit ==
    /\ files = << [len |-> Length, of |-> 0, mtime |-> 0] >>
    /\ named = 1 /\ now = 0 /\ version = 0 /\ stale = FALSE
    /\ request = Plain /\ server = NoServer /\ reply = NoReply
    /\ copy = NoCopy

Select ==
    ClampRanges \/ Coalesce \/ SingleRange \/ Multipart \/ TooManyRanges

MultipartStep == NextPart \/ PartBody \/ PartTrailer \/ FinalBoundary

ServerStep ==
    \/ HandleOther \/ Handle
    \/ PreconditionBlocks \/ RangeRejected \/ FullResponse \/ Select
    \/ ReadChunk \/ StreamEnds \/ MultipartStep

ClientStep ==
    \/ \E r \in Requests : Send(r)
    \/ \E by \in {"tag", "date"} : Resume(by)
    \/ \E by \in {"tag", "weakened", "date"} : Revalidate(by)
    \/ Disconnect

RespondNext == ServerStep \/ ClientStep \/ Receive \/ Rewrite \/ Replace

\* The runtime polls a handler or a body as long as the client reads.
RespondSpec ==
    /\ RespondInit /\ [][RespondNext]_respondVars
    /\ WF_respondVars(ServerStep)

-----------------------------------------------------------------------------
(* Properties *)

Version == 0..MaxWrites

RespondTypeOK ==
    /\ DOMAIN files \subseteq 1..MaxWrites + 1
    /\ \A i \in DOMAIN files :
          files[i] \in [len : {Length} \cup WriteLengths, of : Version,
                        mtime : 0..now]
    /\ named \in DOMAIN files /\ version \in Version
    /\ request.method \in {"GET", "HEAD", "POST"}
    /\ server.at \in Stages
    /\ server.fd \in DOMAIN files \cup {NoFile}
    /\ (server.fd = NoFile) = (server.at \in {"idle", "handle", "done"})
    /\ \A r \in server.todo \cup Range(server.ranges) :
          r.start <= r.end /\ r.end < server.repr.len
    /\ At("coalesce") => Separated(server.ranges)
    /\ Len(reply.sent) <= reply.length
    /\ \A k \in DOMAIN copy.have : copy.have[k] \in Version

\* The bytes the request asks of the representation it was answered with.
Asked ==
    LET raw == RawRanges(request.range)
    IN  IF reply.status = 200 THEN 0..server.repr.len - 1
        ELSE UNION {Wanted(raw[k], server.repr.len) : k \in DOMAIN raw}

\* How many separate stretches of bytes that is.
Stretches ==
    LET asked == Asked IN Cardinality({b \in asked : b - 1 \notin asked})

\* Where in the body there are bytes, or part headers.
Holding(kind) == {k \in DOMAIN reply.sent : reply.sent[k].kind = kind}

Streamed == At("done") /\ request.method = "GET" /\ reply.whole
            /\ reply.length > 0

\* A response the client takes for complete carries the bytes it asked for, in
\* ascending order, each of them once, in as few parts as there are gaps, for
\* any set of ranges, whatever is done to the file meanwhile.
BodyExact ==
    Streamed =>
       LET bytes == Holding("byte")
           headers == Holding("header")
           sent == reply.sent
       IN  /\ {sent[k].pos : k \in bytes} = Asked
           /\ \A j, k \in bytes : j < k => sent[j].pos < sent[k].pos
           /\ headers # {} => Cardinality(headers) = Stretches

\* Ranges are refused as unsatisfiable when, and only when, they ask for no
\* byte, or are too many before or after they are merged.
UnsatisfiableExact ==
    At("done") /\ reply.status \in {206, 416} =>
       (reply.status = 416 <=>
          \/ Asked = {}
          \/ Len(RawRanges(request.range)) > MaxRawRanges
          \/ Stretches > MaxCoalescedRanges)

\* Content-Length is what the stream yields: a response whose file nobody
\* writes meanwhile is complete, neither cut short nor broken off.
UndisturbedComplete ==
    At("done") /\ ~server.disturbed => reply.whole

OneVersion(bytes) == \A j, k \in DOMAIN bytes : bytes[j] = bytes[k]

\* The rest of a download has arrived, and nobody wrote into either half.
Resumed ==
    /\ Streamed /\ reply.status = 206 /\ ~server.disturbed
    /\ copy.have # <<>> /\ OneVersion(copy.have)
    /\ request \in {Rest("tag"), Rest("date")}

\* A download that was broken off and resumed is one version of the file,
\* unless a write left its Last-Modified as it was, or the object was damaged.
ResumeOneVersion ==
    Resumed =>
       \/ OneVersion(copy.have \o [k \in DOMAIN reply.sent |-> reply.sent[k].of])
       \/ stale
       \/ request.ifRange.by = "tag" /\ files[1].of # 0

\* A client asks whether what it has of one version is still good, and nobody
\* writes into the file the server has opened for it.
Revalidated ==
    /\ At("evaluate") /\ ~server.disturbed
    /\ copy.have # <<>> /\ OneVersion(copy.have)
    /\ request \in {Validation("tag"), Validation("weakened"), Validation("date")}

\* A 304 is sent only for the version the client has, by its tag or its date,
\* unless the date has hidden a write or the object was damaged; and a client
\* that has the version that is there, got while nobody wrote, is sent a 304
\* and not the bytes again, also when its tag has been weakened on the way.  A
\* date that goes with a tag neither hides a write nor asks for the bytes again.
RevalidationTrue ==
    Revalidated =>
       LET same == files[server.fd].of = copy.have[1]
       IN  /\ Verdict = "notModified" =>
                 \/ same
                 \/ request.ifNoneMatch = Absent /\ stale
                 \/ server.repr.tag = StrongTag /\ files[1].of # 0
           /\ same /\ ~copy.disturbed => Verdict = "notModified"

\* Where an entity tag is given, the date that goes with it decides nothing,
\* not even when it is malformed.
TagsOutrankDates ==
    At("evaluate") =>
       \A im \in {Absent, BadDate} \cup 0..1, iu \in {Absent, BadDate} \cup 0..1 :
          Evaluate([request EXCEPT
                      !.ifModifiedSince =
                         IF request.ifNoneMatch = Absent THEN @ ELSE im,
                      !.ifUnmodifiedSince =
                         IF request.ifMatch = Absent THEN @ ELSE iu],
                   server.repr.tag, server.repr.date) = Verdict

\* Every link of a listing leads to the entry it is for and to no other,
\* whatever bytes the names have; but a top-level entry named pcas is listed
\* and, with all below it, belongs to the digest route.
ListingLinksLive ==
    \A name \in reply.listing :
       LET dir == Route(request.path).target
           there == Route(LinkTo(dir, name))
       IN  \/ there.status = 200 /\ there.target = Append(dir, name)
           \/ Append(dir, name)[1] = Pcas

\* Every request is answered, also when the file shrinks, grows or is replaced
\* under the response.
Answered == At("handle") ~> At("done") \/ At("idle")
=============================================================================

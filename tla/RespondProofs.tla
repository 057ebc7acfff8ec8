---------------------------- MODULE RespondProofs ----------------------------
(***************************************************************************)
(* Proofs about Respond, for every set of requests, every size of file,    *)
(* chunk and limit, and any number of writes.                              *)
(***************************************************************************)
EXTENDS Respond, TLAPS, FiniteSetTheorems, WellFoundedInduction

Stretch == [start : Nat, end : Nat]

Item == [kind : {"byte", "header", "crlf", "final"}, pos : Nat, of : Version]

Inode == [len : {Length} \cup WriteLengths, of : Version, mtime : Nat]

Repr == [len : Nat, tag : Tags, date : Nat]

Server ==
    [at : Stages, fd : Nat \cup {NoFile}, repr : Repr,
     todo : SUBSET Stretch, ranges : Seq(Stretch), offset : Nat,
     stop : Nat, disturbed : BOOLEAN]

Reply ==
    [status : Nat, length : Nat, sent : Seq(Item), whole : BOOLEAN,
     listing : {Listed(dir) : dir \in Dirs} \cup {{}}]

Copy == [path : Seq(Seq(Units)), have : Seq(Version), tag : Tags, date : Nat,
         disturbed : BOOLEAN]

TypeInv ==
    /\ files \in Seq(Inode) /\ now \in Nat /\ version \in Version
    /\ \A i \in DOMAIN files : files[i].mtime <= now
    /\ Len(files) <= version + 1 /\ named \in 1..Len(files)
    /\ stale \in BOOLEAN /\ request \in Request
    /\ server \in Server /\ reply \in Reply /\ copy \in Copy
    /\ server.fd \in 1..Len(files) \cup {NoFile}
    /\ (server.fd = NoFile) = (server.at \in {"idle", "handle", "done"})

-----------------------------------------------------------------------------

\* Ranges of bytes there are.
Within(ranges, len) ==
    \A r \in ranges : r.start <= r.end /\ r.end < len

Raw == RawRanges(request.range)

\* The request asks for bytes, in neither too many ranges nor too many parts.
Accepted ==
    /\ Asked # {} /\ ~(Len(Raw) > MaxRawRanges)
    /\ ~(Stretches > MaxCoalescedRanges)

\* Bytes have been sent in order, and before all those that are ahead.
InOrder(ahead) ==
    /\ {reply.sent[k].pos : k \in Holding("byte")} \cup ahead = Asked
    /\ \A j, k \in Holding("byte") :
          j < k => reply.sent[j].pos < reply.sent[k].pos
    /\ \A k \in Holding("byte") : \A b \in ahead : reply.sent[k].pos < b

Current == server.offset..server.stop - 1

Unsent ==
    /\ server.at \in {"idle", "handle", "evaluate", "coalesce"} => reply = NoReply
    /\ At("evaluate") => server.ranges = <<>> /\ server.offset = 0

\* What has been promised holds while nobody writes to the file.
LengthInv ==
    server.fd # NoFile /\ ~server.disturbed =>
       files[server.fd].len = server.repr.len

RangesInv == Within(server.todo \cup Range(server.ranges), server.repr.len)

CoalesceInv ==
    At("coalesce") =>
       /\ ~(Len(Raw) > MaxRawRanges)
       /\ server.todo # {} \/ server.ranges # <<>>
       /\ Separated(server.ranges)
       /\ \A r \in server.todo : \A k \in DOMAIN server.ranges :
             server.ranges[k].start <= r.start
       /\ BytesIn(server.todo) \cup BytesOut(server.ranges) = Asked
       /\ DOMAIN Raw = {1} =>
             \/ server.todo = {} /\ Len(server.ranges) = 1
             \/ server.ranges = <<>> /\ \E r \in server.todo : server.todo = {r}

StreamInv ==
    At("stream") =>
       /\ reply.status = 200 \/ (reply.status = 206 /\ Accepted)
       /\ \A k \in DOMAIN reply.sent : reply.sent[k].kind = "byte"
       /\ server.offset <= server.stop /\ server.stop <= server.repr.len
       /\ InOrder(Current)
       /\ Len(reply.sent) + (server.stop - server.offset) = reply.length

PartInv ==
    At("part") \/ At("partBody") =>
       LET current == IF At("part") THEN {} ELSE Current
           rest == IF At("part") THEN 0 ELSE server.stop - server.offset + 1
       IN  /\ reply.status = 206 /\ Accepted /\ DOMAIN Raw # {1}
           /\ Separated(server.ranges)
           /\ At("partBody") =>
                 /\ server.offset <= server.stop
                 /\ server.stop <= server.repr.len
                 /\ \A k \in DOMAIN server.ranges :
                       server.stop < server.ranges[k].start
           /\ InOrder(current \cup BytesOut(server.ranges))
           /\ Cardinality(Holding("header")) + Len(server.ranges) = Stretches
           /\ Len(reply.sent) + rest + MultipartLength(server.ranges)
                 = reply.length

DoneInv ==
    /\ BodyExact /\ UnsatisfiableExact /\ UndisturbedComplete
    /\ Len(reply.sent) <= reply.length

ListingInv ==
    reply.listing # {} =>
       /\ Route(request.path).kind = "listing"
       /\ reply.listing = Listed(Route(request.path).target)

BodyInv ==
    /\ TypeInv /\ Unsent /\ LengthInv /\ RangesInv
    /\ CoalesceInv /\ StreamInv /\ PartInv /\ DoneInv /\ ListingInv

-----------------------------------------------------------------------------

Date(inode) == Second(files[inode].mtime)

\* What a path names now.
Target(path) == IF Route(path).kind = "object" THEN 1 ELSE named

SentAre(of) ==
    \A k \in Holding("byte") : reply.sent[k].of = of

HaveAre(of) == \A k \in DOMAIN copy.have : copy.have[k] = of

Resuming == copy.have # <<>> /\ request.path = copy.path

OpenInv ==
    server.fd # NoFile =>
       /\ ~stale => server.repr.date <= Date(Target(request.path))
       /\ ~stale /\ Date(Target(request.path)) <= server.repr.date =>
             server.fd = Target(request.path) /\ SentAre(files[server.fd].of)
       /\ ~server.disturbed =>
             /\ server.repr.date = Date(server.fd)
             /\ SentAre(files[server.fd].of)
       /\ ~server.repr.tag.weak =>
             server.fd = 1 /\ (files[1].of = 0 => SentAre(0))
       /\ Resuming /\ ~server.disturbed /\ ~stale
             /\ server.repr.date <= copy.date => HaveAre(files[server.fd].of)
       /\ At("coalesce") \/ reply.status = 206 =>
             ~RangeIsStale(request, server.repr.tag, server.repr.date)

CopyInv ==
    copy.have # <<>> =>
       /\ ~stale => copy.date <= Date(Target(copy.path))
       /\ ~stale /\ Date(Target(copy.path)) <= copy.date =>
             HaveAre(files[Target(copy.path)].of)
       /\ ~copy.tag.weak /\ files[1].of = 0 => HaveAre(0)

VersionInv == OpenInv /\ CopyInv /\ ResumeOneVersion

-----------------------------------------------------------------------------
(* What select computes.                                                   *)

LEMMA ClampOK ==
    ASSUME NEW spec, WellFormed(spec), NEW len \in Nat
    PROVE  /\ Clamp(spec, len) \subseteq Stretch
           /\ Within(Clamp(spec, len), len)
           /\ \A b : b \in BytesIn(Clamp(spec, len)) <=> b \in Wanted(spec, len)
           /\ \A r, s \in Clamp(spec, len) : r = s
<1>1. MaxU64 \in Nat /\ Blank \notin Nat
  BY RangeAssumption
<1>2. CASE spec.first = Blank /\ IsU64(spec.last)
  <2>1. spec.last \in Nat
    BY <1>1, <1>2 DEF IsU64
  <2>2. CASE spec.last = 0 \/ len = 0
    BY <1>2, <2>1, <2>2 DEF Clamp, Within, BytesIn, Wanted
  <2>3. CASE ~(spec.last = 0 \/ len = 0)
    <3> DEFINE first == len - Lesser(spec.last, len)
               r == ByteRange(first, len - 1)
    <3>1. Clamp(spec, len) = {r}
      BY <1>2, <2>3 DEF Clamp
    <3>2. first \in Nat /\ len - 1 \in Nat /\ first <= len - 1
      BY <2>1, <2>3 DEF Lesser
    <3>3. \A b : b \in first..len - 1 <=> b \in 0..len - 1 /\ b + spec.last >= len
      BY <2>1, <2>3, <3>2 DEF Lesser
    <3>4. r \in Stretch /\ r.start = first /\ r.end = len - 1
      BY <3>2 DEF ByteRange, Stretch
    <3>5. \A b : b \in BytesIn({r}) <=> b \in first..len - 1
      BY <3>4 DEF BytesIn, Bytes
    <3>6. \A b : b \in Wanted(spec, len) <=> b \in 0..len - 1 /\ b + spec.last >= len
      BY <1>2 DEF Wanted
    <3> HIDE DEF r, first
    <3> QED BY <3>1, <3>2, <3>3, <3>4, <3>5, <3>6 DEF Within
  <2> QED BY <2>2, <2>3
<1>3. CASE IsU64(spec.first) /\ (spec.last = Blank \/ (IsU64(spec.last) /\ spec.first <= spec.last))
  <2>1. spec.first \in Nat /\ spec.first # Blank
    BY <1>1, <1>3 DEF IsU64
  <2>2. spec.last = Blank \/ (spec.last \in Nat /\ spec.last # Blank /\ spec.first <= spec.last)
    BY <1>1, <1>3 DEF IsU64
  <2>3. CASE spec.first >= len
    <3>1. Clamp(spec, len) = {}
      BY <2>1, <2>3 DEF Clamp
    <3>2. \A b : b \notin Wanted(spec, len)
      BY <2>1, <2>3 DEF Wanted
    <3> QED BY <3>1, <3>2 DEF Within, BytesIn
  <2>4. CASE ~(spec.first >= len)
    <3> DEFINE last == IF spec.last = Blank THEN len - 1 ELSE Lesser(spec.last, len - 1)
               r == ByteRange(spec.first, last)
    <3>1. Clamp(spec, len) = {r}
      BY <2>1, <2>4 DEF Clamp
    <3>2. len - 1 \in Nat /\ last \in Nat /\ spec.first <= last /\ last < len
      BY <2>1, <2>2, <2>4 DEF Lesser
    <3>3. \A b : b \in spec.first..last
                 <=> b \in 0..len - 1 /\ b >= spec.first /\ (spec.last = Blank \/ b <= spec.last)
      BY <2>1, <2>2, <2>4 DEF Lesser
    <3>4. r \in Stretch /\ r.start = spec.first /\ r.end = last
      BY <2>1, <3>2 DEF ByteRange, Stretch
    <3>5. \A b : b \in BytesIn({r}) <=> b \in spec.first..last
      BY <3>4 DEF BytesIn, Bytes
    <3>6. \A b : b \in Wanted(spec, len)
                 <=> b \in 0..len - 1 /\ b >= spec.first /\ (spec.last = Blank \/ b <= spec.last)
      BY <2>1 DEF Wanted
    <3> HIDE DEF r, last
    <3> QED BY <3>1, <3>2, <3>3, <3>4, <3>5, <3>6 DEF Within
  <2> QED BY <2>3, <2>4
<1> QED BY <1>2, <1>3 DEF WellFormed

\* The ranges kept have the bytes asked for.
LEMMA SatisfiableOK ==
    ASSUME NEW raw, \A k \in DOMAIN raw : WellFormed(raw[k]), NEW len \in Nat
    PROVE  /\ Satisfiable(raw, len) \subseteq Stretch
           /\ Within(Satisfiable(raw, len), len)
           /\ BytesIn(Satisfiable(raw, len)) = UNION {Wanted(raw[k], len) : k \in DOMAIN raw}
<1>1. ASSUME NEW k \in DOMAIN raw
      PROVE  /\ Clamp(raw[k], len) \subseteq Stretch
             /\ Within(Clamp(raw[k], len), len)
             /\ \A b : b \in BytesIn(Clamp(raw[k], len)) <=> b \in Wanted(raw[k], len)
  BY ClampOK
<1>2. \A b : b \in BytesIn(Satisfiable(raw, len))
             <=> \E k \in DOMAIN raw : b \in BytesIn(Clamp(raw[k], len))
  BY DEF BytesIn, Satisfiable
<1>3. \A b : b \in BytesIn(Satisfiable(raw, len))
             <=> b \in UNION {Wanted(raw[k], len) : k \in DOMAIN raw}
  BY <1>1, <1>2
<1>4. BytesIn(Satisfiable(raw, len)) = UNION {Wanted(raw[k], len) : k \in DOMAIN raw}
  BY <1>3
<1> QED BY <1>1, <1>4 DEF Satisfiable, Within

\* A range that is kept has bytes.
LEMMA StretchBytes ==
    ASSUME NEW set \in SUBSET Stretch, NEW len, Within(set, len)
    PROVE  (BytesIn(set) = {}) <=> (set = {})
<1>1. ASSUME NEW r \in set PROVE r.start \in BytesIn(set)
  <2>1. r.start \in Nat /\ r.end \in Nat /\ r.start <= r.end
    BY DEF Stretch, Within
  <2> QED BY <2>1 DEF BytesIn, Bytes
<1> QED BY <1>1 DEF BytesIn

\* Absorbing a range that starts no earlier than the others keeps every byte,
\* and the gaps between them.
LEMMA AbsorbOK ==
    ASSUME NEW out \in Seq(Stretch), NEW r \in Stretch, NEW len \in Nat,
           Within(Range(out) \cup {r}, len), Separated(out),
           \A k \in DOMAIN out : out[k].start <= r.start
    PROVE  /\ Absorb(out, r) \in Seq(Stretch)
           /\ Within(Range(Absorb(out, r)), len)
           /\ Separated(Absorb(out, r))
           /\ BytesOut(Absorb(out, r)) = BytesOut(out) \cup Bytes(r)
           /\ \A k \in DOMAIN Absorb(out, r) : Absorb(out, r)[k].start <= r.start
           /\ Absorb(out, r) # <<>>
           /\ out = <<>> => Len(Absorb(out, r)) = 1
<1> DEFINE n == Len(out)
<1>1. n \in Nat /\ n = Len(out) /\ DOMAIN out = 1..n /\ \A k \in 1..n : out[k] \in Stretch
  OBVIOUS
<1> HIDE DEF n
<1>2. \A k \in 1..n : /\ out[k].start \in Nat /\ out[k].end \in Nat
                      /\ out[k].start <= out[k].end /\ out[k].end < len
                      /\ out[k].start <= r.start
  BY <1>1 DEF Stretch, Within, Range
<1>3. r.start \in Nat /\ r.end \in Nat /\ r.start <= r.end /\ r.end < len
  BY DEF Stretch, Within
<1>4. CASE out # <<>> /\ r.start <= out[Len(out)].end + 1
  <2> DEFINE e == Greater(out[n].end, r.end)
             last == [out[n] EXCEPT !.end = e]
             res == [out EXCEPT ![n] = last]
  <2>1. n \in 1..n /\ n > 0
    BY <1>1, <1>4
  <2>2. Absorb(out, r) = res
    BY <1>1, <1>4 DEF Absorb
  <2>3. e \in Nat /\ e >= out[n].end /\ e >= r.end /\ e < len
    BY <1>2, <1>3, <2>1 DEF Greater
  <2>4. e = out[n].end \/ e = r.end
    BY DEF Greater
  <2>5. last \in Stretch /\ last.start = out[n].start /\ last.end = e
    BY <1>1, <2>1, <2>3 DEF Stretch
  <2>6. res \in Seq(Stretch) /\ Len(res) = n /\ DOMAIN res = 1..n
        /\ res[n] = last /\ \A k \in 1..n : k # n => res[k] = out[k]
    BY <1>1, <2>1, <2>5
  <2> HIDE DEF last, res, e
  <2>7. \A k \in 1..n : /\ res[k].start = out[k].start
                        /\ k # n => res[k].end = out[k].end
                        /\ res[k].end < len /\ res[k].start <= res[k].end
    <3> SUFFICES ASSUME NEW k \in 1..n
                 PROVE  /\ res[k].start = out[k].start
                        /\ k # n => res[k].end = out[k].end
                        /\ res[k].end < len /\ res[k].start <= res[k].end
      OBVIOUS
    <3>1. CASE k = n
      BY <1>2, <2>1, <2>3, <2>5, <2>6, <3>1
    <3>2. CASE k # n
      BY <1>2, <2>6, <3>2
    <3> QED BY <3>1, <3>2
  <2>8. Within(Range(res), len)
    BY <2>6, <2>7 DEF Within, Range
  <2>9. Separated(res)
    <3> SUFFICES ASSUME NEW j \in 1..n, NEW k \in 1..n, j < k
                 PROVE  res[j].end + 1 < res[k].start
      BY <2>6 DEF Separated
    <3>1. j # n
      BY <1>1
    <3>2. out[j].end + 1 < out[k].start
      BY <1>1 DEF Separated
    <3> QED BY <2>7, <3>1, <3>2
  <2>10. Bytes(last) = Bytes(out[n]) \cup Bytes(r)
    <3>1. \A b : b \in out[n].start..e
                 <=> b \in out[n].start..out[n].end \/ b \in r.start..r.end
      BY <1>1, <1>2, <1>3, <1>4, <2>1, <2>3, <2>4
    <3> QED BY <2>5, <3>1 DEF Bytes
  <2>11. \A b : b \in BytesOut(res) <=> b \in BytesOut(out) \cup Bytes(r)
    <3>1. \A b : b \in BytesOut(res) <=> \E k \in 1..n : b \in Bytes(res[k])
      BY <2>6 DEF BytesOut
    <3>2. \A b : b \in BytesOut(out) <=> \E k \in 1..n : b \in Bytes(out[k])
      BY <1>1 DEF BytesOut
    <3> QED BY <2>1, <2>6, <2>10, <3>1, <3>2
  <2>12. BytesOut(res) = BytesOut(out) \cup Bytes(r)
    BY <2>11
  <2>13. \A k \in DOMAIN res : res[k].start <= r.start
    BY <1>2, <2>6, <2>7
  <2>14. res # <<>> /\ out # <<>>
    BY <1>1, <1>4, <2>1, <2>6
  <2> QED BY <2>2, <2>6, <2>8, <2>9, <2>12, <2>13, <2>14
<1>5. CASE ~(out # <<>> /\ r.start <= out[Len(out)].end + 1)
  <2> DEFINE res == Append(out, r)
  <2>1. Absorb(out, r) = res
    BY <1>5 DEF Absorb
  <2>2. res \in Seq(Stretch) /\ Len(res) = n + 1 /\ DOMAIN res = 1..n + 1
        /\ res[n + 1] = r /\ \A k \in 1..n : res[k] = out[k]
    BY <1>1
  <2> HIDE DEF res
  <2>3. \A k \in 1..n + 1 : k \in 1..n \/ k = n + 1
    BY <1>1
  <2>4. Within(Range(res), len)
    BY <1>2, <1>3, <2>2, <2>3 DEF Within, Range
  <2>5. Separated(res)
    <3> SUFFICES ASSUME NEW j \in 1..n + 1, NEW k \in 1..n + 1, j < k
                 PROVE  res[j].end + 1 < res[k].start
      BY <2>2 DEF Separated
    <3>1. j \in 1..n
      BY <1>1
    <3>2. CASE k \in 1..n
      BY <1>1, <2>2, <3>1, <3>2 DEF Separated
    <3>3. CASE k = n + 1
      <4>1. out # <<>> /\ n \in 1..n
        BY <1>1, <3>1
      <4>2. out[n].end + 1 < r.start
        BY <1>1, <1>2, <1>3, <1>5, <4>1
      <4>3. out[j].end <= out[n].end
        <5>1. CASE j = n
          BY <1>2, <4>1, <5>1
        <5>2. CASE j # n
          <6>1. out[j].end + 1 < out[n].start
            BY <1>1, <3>1, <4>1, <5>2 DEF Separated
          <6> QED BY <1>2, <3>1, <4>1, <6>1
        <5> QED BY <5>1, <5>2
      <4>4. res[j] = out[j] /\ res[k] = r
        BY <2>2, <3>1, <3>3
      <4>5. out[j].end \in Nat /\ out[n].end \in Nat /\ r.start \in Nat
        BY <1>2, <1>3, <3>1, <4>1
      <4>6. out[j].end + 1 < r.start
        BY <4>2, <4>3, <4>5
      <4> QED BY <4>4, <4>6
    <3> QED BY <2>3, <3>2, <3>3
  <2>6. BytesOut(res) = BytesOut(out) \cup Bytes(r)
    <3>1. \A b : b \in BytesOut(res) <=> \E k \in 1..n + 1 : b \in Bytes(res[k])
      BY <2>2 DEF BytesOut
    <3>2. \A b : b \in BytesOut(out) <=> \E k \in 1..n : b \in Bytes(out[k])
      BY <1>1 DEF BytesOut
    <3>3. n + 1 \in 1..n + 1 /\ \A k \in 1..n : k \in 1..n + 1
      BY <1>1
    <3>4. \A b : b \in BytesOut(res) <=> b \in BytesOut(out) \cup Bytes(r)
      BY <2>2, <2>3, <3>1, <3>2, <3>3
    <3> QED BY <3>4
  <2>7. \A k \in DOMAIN res : res[k].start <= r.start
    BY <1>2, <1>3, <2>2, <2>3
  <2>8. res # <<>> /\ (out = <<>> => Len(res) = 1)
    BY <1>1, <2>2
  <2> QED BY <2>1, <2>2, <2>4, <2>5, <2>6, <2>7, <2>8
<1> QED BY <1>4, <1>5

-----------------------------------------------------------------------------
(* Functions defined by recursion, and what they compute.                  *)

(* Induction over the numbers, for a set instead of a predicate.            *)
LEMMA SetInduction ==
    ASSUME NEW S, 0 \in S, \A k \in Nat : k \in S => k + 1 \in S
    PROVE  \A k \in Nat : k \in S
<1> DEFINE T == {1 .. k : k \in {j \in Nat : j \notin S}}
           R == StrictSubsetOrdering(Nat)
           F == FiniteSubsetsOf(Nat)
<1> SUFFICES ASSUME NEW k \in Nat, k \notin S PROVE FALSE
  OBVIOUS
<1>1. IsWellFoundedOn(R, F)
  BY FS_StrictSubsetOrderingWellFounded
<1>2. T \subseteq F /\ T # {}
  <2>1. \A j \in Nat : IsFiniteSet(1 .. j)
    BY FS_Interval
  <2>2. \A j \in Nat : 1 .. j \in SUBSET Nat
    OBVIOUS
  <2>3. \A j \in Nat : 1 .. j \in F
    BY <2>1, <2>2 DEF FiniteSubsetsOf
  <2>4. 1 .. k \in T
    OBVIOUS
  <2> HIDE DEF F
  <2> QED BY <2>3, <2>4
<1>3. PICK m \in T : \A y \in T : <<y, m>> \notin R
  <2> HIDE DEF T, R, F
  <2> QED BY <1>1, <1>2, WFMin
<1>4. PICK j \in Nat : j \notin S /\ m = 1 .. j
  BY <1>3
<1>5. j # 0 /\ j - 1 \in Nat /\ j - 1 \notin S
  BY <1>4
<1>6. 1 .. (j - 1) \in T
  BY <1>5
<1>7. <<1 .. (j - 1), 1 .. j>> \in R
  <2>1. 1 .. (j-1) \subseteq 1..j /\ j \in 1..j /\ j \notin 1..(j-1) /\ 1..j \subseteq Nat
    BY <1>5
  <2> QED BY <2>1 DEF StrictSubsetOrdering
<1> QED BY <1>3, <1>4, <1>6, <1>7

\* f is defined by recursion over 0..n from base, step by step.
Recurses(f, n, base, step) ==
    f = [k \in 0..n |-> IF k = 0 THEN base ELSE step[k][f[k - 1]]]

LEMMA RecursionExists ==
    ASSUME NEW D, NEW base \in D, NEW n \in Nat, NEW step \in [1..n -> [D -> D]]
    PROVE  \E f \in [0..n -> D] : Recurses(f, n, base, step)
<1> DEFINE S == {m \in Nat : m <= n => \E f \in [0..m -> D] : Recurses(f, m, base, step)}
<1>1. 0 \in S
  <2> DEFINE f == [k \in 0..0 |-> base]
  <2>1. f \in [0..0 -> D] /\ f = [k \in 0..0 |-> IF k = 0 THEN base ELSE step[k][f[k - 1]]]
    OBVIOUS
  <2> HIDE DEF f
  <2> QED BY <2>1 DEF Recurses
<1>2. ASSUME NEW m \in Nat, m \in S PROVE m + 1 \in S
  <2> SUFFICES ASSUME m + 1 <= n
               PROVE  \E g \in [0..m + 1 -> D] : Recurses(g, m + 1, base, step)
    OBVIOUS
  <2>1. PICK f \in [0..m -> D] : Recurses(f, m, base, step)
    BY <1>2
  <2> DEFINE g == [k \in 0..m + 1 |-> IF k = m + 1 THEN step[m + 1][f[m]] ELSE f[k]]
  <2>2. m \in 0..m /\ f[m] \in D /\ m + 1 \in 1..n
    BY <2>1
  <2>3. g \in [0..m + 1 -> D]
    <3>1. step[m + 1][f[m]] \in D
      BY <2>2
    <3>2. \A k \in 0..m + 1 : k = m + 1 \/ k \in 0..m
      OBVIOUS
    <3> QED BY <2>1, <3>1, <3>2
  <2>4. ASSUME NEW k \in 0..m + 1
        PROVE  g[k] = IF k = 0 THEN base ELSE step[k][g[k - 1]]
    <3>1. CASE k = m + 1
      <4>1. k # 0 /\ k - 1 = m /\ k - 1 \in 0..m + 1 /\ k - 1 # m + 1
        BY <3>1
      <4> QED BY <3>1, <4>1
    <3>2. CASE k # m + 1
      <4>1. k \in 0..m
        BY <3>2
      <4>2. f[k] = IF k = 0 THEN base ELSE step[k][f[k - 1]]
        BY <2>1, <4>1 DEF Recurses
      <4>3. k # 0 => g[k - 1] = f[k - 1]
        BY <4>1
      <4> QED BY <3>2, <4>2, <4>3
    <3> QED BY <3>1, <3>2
  <2>5. g = [k \in 0..m + 1 |-> IF k = 0 THEN base ELSE step[k][g[k - 1]]]
    <3> HIDE DEF g
    <3> QED BY <2>3, <2>4
  <2> HIDE DEF g
  <2> QED BY <2>3, <2>5 DEF Recurses
<1>3. n \in S
  <2> HIDE DEF S
  <2> QED BY <1>1, <1>2, SetInduction
<1> QED BY <1>3

\* The sums FramedLength goes through.
FramedSums(f, ranges, frame) ==
    f = [k \in 0..Len(ranges) |->
           IF k = 0 THEN 1 ELSE f[k - 1] + frame + ByteLen(ranges[k])]

LEMMA FramedSumsExist ==
    ASSUME NEW ranges \in Seq(Stretch), NEW len, Within(Range(ranges), len),
           NEW frame \in Nat
    PROVE  \E f \in [0..Len(ranges) -> Nat] : FramedSums(f, ranges, frame)
<1> DEFINE n == Len(ranges)
           step == [k \in 1..n |-> [x \in Nat |-> x + frame + ByteLen(ranges[k])]]
<1>1. n \in Nat /\ \A k \in 1..n : ranges[k] \in Stretch /\ ranges[k] \in Range(ranges)
  BY DEF Range
<1>2. \A k \in 1..n : ByteLen(ranges[k]) \in Nat
  <2> TAKE k \in 1..n
  <2>1. ranges[k].start \in Nat /\ ranges[k].end \in Nat /\ ranges[k].start <= ranges[k].end
    BY <1>1 DEF Stretch, Within
  <2> QED BY <2>1 DEF ByteLen
<1> HIDE DEF n
<1>3. step \in [1..n -> [Nat -> Nat]]
  BY <1>2
<1>4. \A k \in 1..n : \A x \in Nat : step[k][x] = x + frame + ByteLen(ranges[k])
  BY <1>2
<1> HIDE DEF step
<1>5. PICK f \in [0..n -> Nat] : Recurses(f, n, 1, step)
  BY <1>1, <1>3, RecursionExists
<1>6. \A k \in 0..n : k # 0 => f[k - 1] \in Nat /\ k \in 1..n
  BY <1>1, <1>5
<1>7. \A k \in 0..n :
         f[k] = IF k = 0 THEN 1 ELSE f[k - 1] + frame + ByteLen(ranges[k])
  BY <1>4, <1>5, <1>6 DEF Recurses
<1>8. f = [k \in 0..n |-> IF k = 0 THEN 1 ELSE f[k - 1] + frame + ByteLen(ranges[k])]
  BY <1>5, <1>7
<1> QED BY <1>5, <1>8 DEF FramedSums, n

LEMMA FramedLengthIs ==
    ASSUME NEW ranges \in Seq(Stretch), NEW len, Within(Range(ranges), len),
           NEW frame \in Nat
    PROVE  \E f \in [0..Len(ranges) -> Nat] :
              /\ FramedSums(f, ranges, frame)
              /\ FramedLength(ranges, frame) = f[Len(ranges)]
<1> DEFINE f == CHOOSE g : FramedSums(g, ranges, frame)
<1>1. FramedSums(f, ranges, frame)
  BY FramedSumsExist
<1>2. FramedLength(ranges, frame) = f[Len(ranges)]
  BY DEF FramedLength, FramedSums
<1>3. PICK h \in [0..Len(ranges) -> Nat] : FramedSums(h, ranges, frame)
  BY FramedSumsExist
<1> HIDE DEF f
<1> DEFINE S == {k \in Nat : k <= Len(ranges) => f[k] = h[k]}
<1>4. Len(ranges) \in Nat
  OBVIOUS
<1>5. 0 \in S
  BY <1>1, <1>3, <1>4 DEF FramedSums
<1>6. ASSUME NEW k \in Nat, k \in S PROVE k + 1 \in S
  <2> SUFFICES ASSUME k + 1 <= Len(ranges) PROVE f[k + 1] = h[k + 1]
    OBVIOUS
  <2>1. k + 1 \in 0..Len(ranges) /\ k + 1 # 0 /\ (k + 1) - 1 = k /\ f[k] = h[k]
    BY <1>4, <1>6
  <2> QED BY <1>1, <1>3, <2>1 DEF FramedSums
<1>7. \A k \in Nat : k \in S
  <2> HIDE DEF S
  <2> QED BY <1>5, <1>6, SetInduction
<1>8. f = h
  <2>1. \A k \in 0..Len(ranges) : f[k] = h[k]
    BY <1>4, <1>7
  <2>2. f = [k \in 0..Len(ranges) |-> f[k]]
    BY <1>1 DEF FramedSums
  <2> QED BY <1>3, <2>1, <2>2
<1> QED BY <1>1, <1>2, <1>3, <1>8

LEMMA WithinTail ==
    ASSUME NEW ranges \in Seq(Stretch), ranges # <<>>, NEW len, Within(Range(ranges), len)
    PROVE  /\ Tail(ranges) \in Seq(Stretch) /\ Within(Range(Tail(ranges)), len)
           /\ Len(Tail(ranges)) = Len(ranges) - 1 /\ Len(ranges) \in Nat
           /\ \A k \in 1..Len(ranges) - 1 : Tail(ranges)[k] = ranges[k + 1]
           /\ ranges[1] \in Stretch /\ ranges[1].start <= ranges[1].end /\ ranges[1].end < len
           /\ 1 \in 1..Len(ranges)
<1> DEFINE t == Tail(ranges)
           n == Len(ranges)
<1>1. n \in Nat /\ n # 0 /\ \A k \in 1..n : ranges[k] \in Stretch /\ ranges[k] \in Range(ranges)
  BY DEF Range
<1>2. t \in Seq(Stretch) /\ Len(t) = n - 1 /\ DOMAIN t = 1..n - 1
      /\ \A k \in 1..n - 1 : t[k] = ranges[k + 1]
  OBVIOUS
<1> HIDE DEF t, n
<1>3. \A k \in 1..n - 1 : k + 1 \in 1..n
  BY <1>1
<1>4. Within(Range(t), len)
  BY <1>1, <1>2, <1>3 DEF Within, Range
<1>5. 1 \in 1..n
  BY <1>1
<1>6. ranges[1] \in Stretch /\ ranges[1].start <= ranges[1].end /\ ranges[1].end < len
  BY <1>1, <1>5 DEF Within
<1> QED BY <1>1, <1>2, <1>4, <1>5, <1>6 DEF t, n

LEMMA MultipartEmpty == MultipartLength(<<>>) = 1
<1>1. <<>> \in Seq(Stretch) /\ Within(Range(<<>>), 0) /\ Len(<<>>) = 0
  BY DEF Range, Within
<1>2. PICK f \in [0..0 -> Nat] : FramedSums(f, <<>>, 2) /\ FramedLength(<<>>, 2) = f[0]
  BY <1>1, FramedLengthIs
<1>3. f[0] = 1
  BY <1>1, <1>2 DEF FramedSums
<1> QED BY <1>2, <1>3 DEF MultipartLength

\* The length of a multipart body is that of its first part and of the rest.
LEMMA MultipartTail ==
    ASSUME NEW ranges \in Seq(Stretch), ranges # <<>>, NEW len, Within(Range(ranges), len)
    PROVE  /\ MultipartLength(ranges) \in Nat
           /\ MultipartLength(Tail(ranges)) \in Nat
           /\ MultipartLength(ranges)
                = MultipartLength(Tail(ranges)) + 2 + ByteLen(ranges[1])
<1> DEFINE t == Tail(ranges)
           n == Len(ranges)
           first == ByteLen(ranges[1])
<1>1. /\ t \in Seq(Stretch) /\ Within(Range(t), len) /\ n \in Nat
      /\ Len(t) = n - 1 /\ \A k \in 1..n - 1 : t[k] = ranges[k + 1]
  BY WithinTail
<1>2. n # 0 /\ n - 1 \in Nat
  BY <1>1
<1>3. PICK f \in [0..n -> Nat] : FramedSums(f, ranges, 2) /\ FramedLength(ranges, 2) = f[n]
  BY FramedLengthIs
<1>4. PICK g \in [0..Len(t) -> Nat] : FramedSums(g, t, 2) /\ FramedLength(t, 2) = g[Len(t)]
  BY <1>1, FramedLengthIs
<1> DEFINE S == {k \in Nat : k <= n - 1 => f[k + 1] = g[k] + 2 + first}
<1>5. first \in Nat
  <2>1. ranges[1] \in Stretch /\ ranges[1].start <= ranges[1].end
    BY WithinTail
  <2> QED BY <2>1 DEF ByteLen, Stretch
<1> HIDE DEF t, n, first
<1>6. \A k \in 1..n : f[k] = f[k - 1] + 2 + ByteLen(ranges[k])
  BY <1>1, <1>3 DEF FramedSums, n
<1>7. \A k \in 1..n - 1 : g[k] = g[k - 1] + 2 + ByteLen(ranges[k + 1])
  <2> TAKE k \in 1..n - 1
  <2>1. k \in 0..Len(t) /\ k # 0 /\ t[k] = ranges[k + 1]
    BY <1>1
  <2>2. g[k] = IF k = 0 THEN 1 ELSE g[k - 1] + 2 + ByteLen(t[k])
    BY <1>4, <2>1 DEF FramedSums
  <2> QED BY <2>1, <2>2
<1>8. f[0] = 1 /\ g[0] = 1
  BY <1>1, <1>2, <1>3, <1>4 DEF FramedSums, n
<1>9. 0 \in S
  <2>1. 1 \in 1..n /\ 0 + 1 = 1 /\ 1 - 1 = 0
    BY <1>2, <1>1
  <2>2. f[1] = f[0] + 2 + first
    BY <1>6, <2>1 DEF first
  <2> QED BY <1>8, <2>1, <2>2
<1>10. ASSUME NEW k \in Nat, k \in S PROVE k + 1 \in S
  <2> SUFFICES ASSUME k + 1 <= n - 1 PROVE f[(k + 1) + 1] = g[k + 1] + 2 + first
    OBVIOUS
  <2>1. k + 1 \in 1..n - 1 /\ (k + 1) + 1 \in 1..n /\ (k + 1) - 1 = k /\ ((k + 1) + 1) - 1 = k + 1
    BY <1>1, <1>2
  <2>2. f[(k + 1) + 1] = f[k + 1] + 2 + ByteLen(ranges[(k + 1) + 1])
    BY <1>6, <2>1
  <2>3. g[k + 1] = g[k] + 2 + ByteLen(ranges[(k + 1) + 1])
    BY <1>7, <2>1
  <2>4. f[k + 1] = g[k] + 2 + first
    BY <1>10, <2>1, <1>1
  <2>5. k \in 0..Len(t) /\ k + 1 \in 0..Len(t) /\ k + 1 \in 0..n /\ (k + 1) + 1 \in 0..n
    BY <1>1, <1>2, <2>1
  <2>6. g[k] \in Nat /\ g[k + 1] \in Nat /\ f[k + 1] \in Nat /\ f[(k + 1) + 1] \in Nat
    BY <1>3, <1>4, <2>5
  <2>7. ByteLen(ranges[(k + 1) + 1]) \in Int
    <3>1. ranges[(k + 1) + 1] \in Stretch
      BY <1>1, <2>1 DEF n
    <3> QED BY <3>1 DEF Stretch, ByteLen
  <2> DEFINE added == ByteLen(ranges[(k + 1) + 1])
             f0 == f[k + 1]
             f1 == f[(k + 1) + 1]
             g0 == g[k]
             g1 == g[k + 1]
  <2>8. f1 = f0 + 2 + added /\ g1 = g0 + 2 + added /\ f0 = g0 + 2 + first
        /\ added \in Int /\ f0 \in Nat /\ f1 \in Nat /\ g0 \in Nat /\ g1 \in Nat
    BY <2>2, <2>3, <2>4, <2>6, <2>7
  <2> HIDE DEF f0, f1, g0, g1, added
  <2>9. f1 = g1 + 2 + first
    BY <1>5, <2>8
  <2> QED BY <2>9 DEF f1, g1
<1>11. n - 1 \in S
  <2> HIDE DEF S
  <2>1. \A k \in Nat : k \in S
    BY <1>9, <1>10, SetInduction
  <2> QED BY <1>2, <2>1
<1>12. f[n] = g[n - 1] + 2 + first
  <2>1. (n - 1) + 1 = n
    BY <1>1
  <2> QED BY <1>2, <1>11, <2>1
<1>13. f[n] \in Nat /\ g[n - 1] \in Nat
  BY <1>1, <1>2, <1>3, <1>4
<1> QED BY <1>1, <1>3, <1>4, <1>12, <1>13 DEF MultipartLength, t, n, first

\* Separated ranges are as many as the bytes they hold have gaps and one.
LEMMA StretchCount ==
    ASSUME NEW ranges \in Seq(Stretch), NEW len, Within(Range(ranges), len),
           Separated(ranges)
    PROVE  Cardinality({b \in BytesOut(ranges) : b - 1 \notin BytesOut(ranges)})
              = Len(ranges)
<1> DEFINE n == Len(ranges)
           S == {b \in BytesOut(ranges) : b - 1 \notin BytesOut(ranges)}
           f == [k \in 1..n |-> ranges[k].start]
<1>1. n \in Nat /\ DOMAIN ranges = 1..n
  OBVIOUS
<1>2. \A k \in 1..n : /\ ranges[k].start \in Nat /\ ranges[k].end \in Nat
                      /\ ranges[k].start <= ranges[k].end
  <2> TAKE k \in 1..n
  <2>1. ranges[k] \in Stretch /\ ranges[k] \in Range(ranges)
    BY <1>1 DEF Range
  <2> QED BY <2>1 DEF Stretch, Within
<1> HIDE DEF n
<1>3. \A j, k \in 1..n : j < k => ranges[j].end + 1 < ranges[k].start
  BY <1>1 DEF Separated
<1>4. \A b : b \in BytesOut(ranges)
             <=> \E k \in 1..n : b \in ranges[k].start..ranges[k].end
  BY <1>1 DEF BytesOut, Bytes
<1>5. ASSUME NEW k \in 1..n PROVE f[k] \in S
  <2>1. ranges[k].start \in BytesOut(ranges)
    BY <1>2, <1>4
  <2>2. ASSUME NEW j \in 1..n, ranges[k].start - 1 \in ranges[j].start..ranges[j].end
        PROVE  FALSE
    <3>1. j # k
      BY <1>2, <2>2
    <3>2. j \in Int /\ k \in Int
      OBVIOUS
    <3>3. CASE j < k
      BY <1>2, <1>3, <2>2, <3>3
    <3>4. CASE k < j
      <4>1. ranges[k].end + 1 < ranges[j].start
        BY <1>3, <3>4
      <4> QED BY <1>2, <2>2, <4>1
    <3> QED BY <3>1, <3>2, <3>3, <3>4
  <2>3. ranges[k].start - 1 \notin BytesOut(ranges)
    BY <1>4, <2>2
  <2> QED BY <2>1, <2>3
<1>6. ASSUME NEW b \in S PROVE \E k \in 1..n : f[k] = b
  <2>1. PICK k \in 1..n : b \in ranges[k].start..ranges[k].end
    BY <1>4
  <2>2. b - 1 \notin BytesOut(ranges)
    OBVIOUS
  <2>3. b - 1 \notin ranges[k].start..ranges[k].end
    BY <1>4, <2>2
  <2>4. b = ranges[k].start
    BY <1>2, <2>1, <2>3
  <2> QED BY <2>4
<1>7. ASSUME NEW j \in 1..n, NEW k \in 1..n, f[j] = f[k] PROVE j = k
  <2>1. ranges[j].start = ranges[k].start
    BY <1>7
  <2>2. j \in Int /\ k \in Int
    OBVIOUS
  <2>3. ~(j < k)
    BY <1>2, <1>3, <2>1
  <2>4. ~(k < j)
    BY <1>2, <1>3, <2>1
  <2> QED BY <2>2, <2>3, <2>4
<1>8. f \in [1..n -> S]
  BY <1>5
<1>9. DOMAIN f = 1..n
  OBVIOUS
<1> HIDE DEF f, S
<1>10. f \in Injection(1..n, S)
  BY <1>7, <1>8, <1>9 DEF Injection, IsInjective
<1>11. f \in Surjection(1..n, S)
  BY <1>6, <1>8 DEF Surjection
<1>12. ExistsBijection(1..n, S)
  BY <1>10, <1>11 DEF ExistsBijection, Bijection
<1>13. Cardinality(S) = n
  BY <1>1, <1>12, FS_CountingElements
<1> QED BY <1>13 DEF S, n

-----------------------------------------------------------------------------
(* Types.                                                                  *)

LEMMA SecondType == \A tick \in Nat : Second(tick) \in Nat
BY RespondAssumption DEF Second

LEMMA RecordTypes ==
    /\ Plain \in Request /\ NoServer \in Server /\ NoReply \in Reply
    /\ NoCopy \in Copy /\ StrongTag \in Tags /\ NoRepr \in Repr
<1>1. StrongTag \in Tags
  BY DEF StrongTag, Tags
<1>2. Plain \in Request
  BY <1>1 DEF Plain, Request
<1>3. NoRepr \in Repr
  BY <1>1 DEF NoRepr, Repr
<1>4. NoServer \in Server
  BY <1>3 DEF NoServer, Server, Stages
<1>5. NoReply \in Reply
  BY DEF NoReply, Reply
<1>6. NoCopy \in Copy
  BY <1>1 DEF NoCopy, Copy
<1> QED BY <1>1, <1>2, <1>3, <1>4, <1>5, <1>6

LEMMA RouteShape ==
    ASSUME NEW raw
    PROVE  /\ Route(raw).status \in Nat
           /\ Route(raw).kind \in {"none", "object", "file", "listing"}
           /\ Route(raw).kind = "listing" => Route(raw).target \in Dirs
<1>1. ASSUME NEW status \in Nat, NEW kind, NEW dir
      PROVE  /\ Outcome(status, kind, dir).status = status
             /\ Outcome(status, kind, dir).kind = kind
             /\ Outcome(status, kind, dir).target = dir
  BY DEF Outcome
<1>2. ASSUME NEW status \in Nat
      PROVE  Fail(status).status = status /\ Fail(status).kind = "none"
  BY DEF Fail, Outcome
<1> DEFINE OK(o) == /\ o.status \in Nat /\ o.kind \in {"none", "object", "file", "listing"}
                    /\ o.kind = "listing" => o.target \in Dirs
<1>3. \A status \in Nat : OK(Fail(status))
  BY <1>2
<1>4. OK(RouteDigest(raw))
  BY <1>1, <1>3 DEF RouteDigest
<1>5. ASSUME NEW dir \in Dirs PROVE OK(RouteDirectory(raw, dir))
  BY <1>1, <1>3 DEF RouteDirectory
<1>6. OK(RouteVisible(raw))
  <2> HIDE DEF OK
  <2>1. \A dir : OK(Outcome(200, "file", dir))
    BY <1>1 DEF OK
  <2> QED BY <1>3, <1>5, <2>1 DEF RouteVisible
<1> HIDE DEF OK
<1>7. OK(Route(raw))
  BY <1>3, <1>4, <1>6 DEF Route
<1> QED BY <1>7 DEF OK

LEMMA RepresentationType ==
    ASSUME TypeInv, NEW i \in DOMAIN files, NEW strong \in BOOLEAN
    PROVE  Representation(i, strong) \in Repr
<1>1. files[i] \in Inode /\ i \in Nat
  BY DEF TypeInv
<1>2. files[i].len \in Nat /\ files[i].mtime \in Nat
  BY <1>1, RespondAssumption DEF Inode, TypeInv
<1>3. Second(files[i].mtime) \in Nat
  BY <1>2, SecondType
<1>4. WeakTag(i, files[i].len, files[i].mtime) \in Tags
  BY <1>1, <1>2 DEF WeakTag, Tags
<1> QED BY <1>2, <1>3, <1>4, RecordTypes DEF Representation, Repr

\* What is left of TypeInv when nobody writes.
LEMMA TypeKept ==
    ASSUME TypeInv, UNCHANGED <<fileVars, request, copy>>,
           server' \in Server, reply' \in Reply,
           server'.fd = NoFile \/ server'.fd = server.fd \/ server'.fd \in 1..Len(files),
           (server'.fd = NoFile) = (server'.at \in {"idle", "handle", "done"})
    PROVE  TypeInv'
BY DEF TypeInv, fileVars

LEMMA DoneType ==
    ASSUME TypeInv, Done
    PROVE  server' \in Server /\ server'.at = "done" /\ server'.fd = NoFile
           /\ server'.repr = server.repr /\ server'.disturbed = server.disturbed
           /\ server'.ranges = <<>> /\ server'.todo = {}
<1>1. server \in Server /\ NoServer \in Server
  BY RecordTypes DEF TypeInv
<1> QED BY <1>1 DEF Done, Server, NoServer, Stages

LEMMA EmptyType ==
    ASSUME TypeInv, NEW status \in Nat, Empty(status)
    PROVE  /\ server' \in Server /\ server'.at = "done" /\ server'.fd = NoFile
           /\ server'.repr = server.repr /\ server'.disturbed = server.disturbed
           /\ reply' \in Reply /\ reply'.status = status /\ reply'.whole
           /\ reply'.length = 0 /\ reply'.sent = <<>> /\ reply'.listing = {}
<1>1. Done /\ reply' = [NoReply EXCEPT !.status = status, !.whole = TRUE]
  BY DEF Empty
<1>2. NoReply \in Reply
  BY RecordTypes
<1> QED BY <1>1, <1>2, DoneType DEF Reply, NoReply

LEMMA FinishType ==
    ASSUME TypeInv, NEW whole \in BOOLEAN, Finish(whole)
    PROVE  /\ server' \in Server /\ server'.at = "done" /\ server'.fd = NoFile
           /\ server'.repr = server.repr /\ server'.disturbed = server.disturbed
           /\ reply' \in Reply /\ reply' = [reply EXCEPT !.whole = whole]
           /\ reply'.whole = whole /\ reply'.status = reply.status
           /\ reply'.length = reply.length /\ reply'.sent = reply.sent
           /\ reply'.listing = reply.listing
<1>1. Done /\ reply' = [reply EXCEPT !.whole = whole]
  BY DEF Finish
<1>2. reply \in Reply
  BY DEF TypeInv
<1> QED BY <1>1, <1>2, DoneType DEF Reply

-----------------------------------------------------------------------------
(* Up to the head of the response.                                         *)

LEMMA AskedKept ==
    ASSUME request' = request, server'.repr = server.repr,
           (reply'.status = 200) <=> (reply.status = 200)
    PROVE  Raw' = Raw /\ Asked' = Asked /\ Stretches' = Stretches
BY DEF Raw, Asked, Stretches

\* Nothing but its answer is left of a request that is over.
LEMMA OverOK ==
    ASSUME TypeInv', server'.at = "done", server'.ranges = <<>>, server'.todo = {},
           DoneInv', ListingInv'
    PROVE  BodyInv'
<1>1. server'.fd = NoFile
  BY DEF TypeInv
<1>2. RangesInv'
  BY DEF RangesInv, Within, Range
<1> QED BY <1>1, <1>2
        DEF BodyInv, Unsent, LengthInv, CoalesceInv, StreamInv, PartInv, At

LEMMA DoneRanges ==
    ASSUME TypeInv, Done
    PROVE  server'.ranges = <<>> /\ server'.todo = {}
BY DoneType

LEMMA EmptyOK ==
    ASSUME BodyInv, NEW status \in Nat, Empty(status),
           UNCHANGED <<fileVars, request, copy>>, reply.status # 200,
           status \in {206, 416} =>
              (status = 416 <=> \/ Asked = {} \/ Len(Raw) > MaxRawRanges
                                \/ Stretches > MaxCoalescedRanges)
    PROVE  BodyInv'
<1>0. TypeInv
  BY DEF BodyInv
<1>1. /\ server' \in Server /\ server'.at = "done" /\ server'.fd = NoFile
      /\ server'.repr = server.repr /\ reply' \in Reply /\ reply'.status = status
      /\ reply'.whole /\ reply'.length = 0 /\ reply'.sent = <<>> /\ reply'.listing = {}
  BY <1>0, EmptyType
<1>2. server'.ranges = <<>> /\ server'.todo = {}
  BY <1>0, DoneRanges DEF Empty
<1>3. TypeInv'
  BY <1>0, <1>1, TypeKept
<1>4. UnsatisfiableExact'
  <2> SUFFICES ASSUME reply'.status \in {206, 416}
               PROVE  reply'.status = 416 <=>
                         \/ Asked' = {} \/ Len(RawRanges(request'.range)) > MaxRawRanges
                         \/ Stretches' > MaxCoalescedRanges
    BY DEF UnsatisfiableExact
  <2>1. Raw' = Raw /\ Asked' = Asked /\ Stretches' = Stretches
    BY <1>1, AskedKept
  <2> QED BY <1>1, <2>1 DEF Raw
<1>5. BodyExact' /\ UndisturbedComplete' /\ (Len(reply.sent) <= reply.length)'
  BY <1>1 DEF BodyExact, Streamed, UndisturbedComplete
<1> QED BY <1>1, <1>2, <1>3, <1>4, <1>5, OverOK DEF DoneInv, ListingInv

LEMMA BodyInit == RespondInit => BodyInv
<1> SUFFICES ASSUME RespondInit PROVE BodyInv
  OBVIOUS
<1>1. /\ files = << [len |-> Length, of |-> 0, mtime |-> 0] >>
      /\ named = 1 /\ now = 0 /\ version = 0 /\ stale = FALSE
      /\ request = Plain /\ server = NoServer /\ reply = NoReply /\ copy = NoCopy
  BY DEF RespondInit
<1>2. [len |-> Length, of |-> 0, mtime |-> 0] \in Inode
  <2>1. 0 \in Version
    BY RespondAssumption DEF Version
  <2> QED BY <1>1, <2>1 DEF Inode
<1>3. files \in Seq(Inode) /\ Len(files) = 1 /\ DOMAIN files = {1} /\ files[1].mtime = 0
  BY <1>1, <1>2
<1>4. /\ server.at = "idle" /\ server.fd = NoFile /\ server.todo = {} /\ server.ranges = <<>>
      /\ reply.sent = <<>> /\ reply.length = 0 /\ reply.listing = {}
  BY <1>1 DEF NoServer, NoReply
<1>5. TypeInv
  <2>1. 0 \in Version /\ 1 \in 1..1
    BY RespondAssumption DEF Version
  <2>2. request \in Request /\ server \in Server /\ reply \in Reply /\ copy \in Copy
    BY <1>1, RecordTypes
  <2>3. \A i \in DOMAIN files : files[i].mtime <= now
    BY <1>1, <1>3
  <2>4. (server.fd = NoFile) = (server.at \in {"idle", "handle", "done"})
    BY <1>4
  <2>5. Len(files) <= version + 1 /\ named \in 1..Len(files) /\ version \in Version
        /\ now \in Nat /\ stale \in BOOLEAN
    <3>1. named = 1 /\ now = 0 /\ version = 0 /\ stale = FALSE /\ Len(files) = 1
      BY <1>1, <1>3
    <3>2. version \in Version /\ now \in Nat /\ stale \in BOOLEAN
      BY <2>1, <3>1
    <3>3. Len(files) <= version + 1
      BY <3>1
    <3>4. named \in 1..Len(files)
      BY <3>1
    <3> QED BY <3>2, <3>3, <3>4
  <2> QED BY <1>3, <1>4, <2>2, <2>3, <2>4, <2>5 DEF TypeInv
<1>6. DoneInv
  BY <1>4 DEF DoneInv, BodyExact, Streamed, UnsatisfiableExact, UndisturbedComplete, At
<1>7. RangesInv
  BY <1>4 DEF RangesInv, Within, Range
<1>8. Unsent
  BY <1>1, <1>4 DEF Unsent, At
<1> QED BY <1>4, <1>5, <1>6, <1>7, <1>8
        DEF BodyInv, LengthInv, CoalesceInv, StreamInv, PartInv, ListingInv, At

\* A request is about to be handled, or none is there.
LEMMA FreshOK ==
    ASSUME BodyInv, UNCHANGED fileVars, request' \in Request, copy' \in Copy,
           server' = NoServer \/ server' = [NoServer EXCEPT !.at = "handle"],
           reply' = NoReply
    PROVE  BodyInv'
<1>1. /\ server'.at \in {"idle", "handle"} /\ server'.fd = NoFile /\ server'.todo = {}
      /\ server'.ranges = <<>> /\ server' \in Server
  <2>1. CASE server' = NoServer
    BY <2>1, RecordTypes DEF NoServer
  <2>2. CASE server' = [NoServer EXCEPT !.at = "handle"]
    BY <2>2, RecordTypes DEF NoServer, Server, Stages
  <2> QED BY <2>1, <2>2
<1>2. reply'.sent = <<>> /\ reply'.length = 0 /\ reply'.listing = {} /\ reply' \in Reply
  BY RecordTypes DEF NoReply
<1>3. TypeInv'
  BY <1>1, <1>2 DEF BodyInv, TypeInv, fileVars
<1>4. DoneInv'
  BY <1>1, <1>2 DEF DoneInv, BodyExact, Streamed, UnsatisfiableExact, UndisturbedComplete, At
<1>5. RangesInv'
  BY <1>1 DEF RangesInv, Within, Range
<1>6. Unsent'
  BY <1>1 DEF Unsent, At
<1> QED BY <1>1, <1>2, <1>3, <1>4, <1>5, <1>6
        DEF BodyInv, LengthInv, CoalesceInv, StreamInv, PartInv, ListingInv, At

LEMMA RestType ==
    ASSUME TypeInv, NEW by \in {"tag", "date"}
    PROVE  Rest(by) \in Request
<1> DEFINE line == [unit |-> "bytes", specs |-> << [first |-> Len(copy.have), last |-> Blank] >>]
           condition == [by |-> by, tag |-> copy.tag, date |-> copy.date]
<1>1. copy \in Copy /\ Plain \in Request
  BY RecordTypes DEF TypeInv
<1>2. Len(copy.have) \in Nat
  BY <1>1 DEF Copy
<1>3. [first |-> Len(copy.have), last |-> Blank] \in RangeSpecs
  BY <1>2 DEF RangeSpecs
<1>4. line \in [unit : {"bytes", "other"}, specs : Seq(RangeSpecs)]
  BY <1>3
<1>5. condition \in [by : {"absent", "bad", "tag", "date"}, tag : Tags, date : Nat]
  BY <1>1 DEF Copy
<1> HIDE DEF line, condition
<1>6. <<line>> \in Seq([unit : {"bytes", "other"}, specs : Seq(RangeSpecs)])
  BY <1>4
<1>7. [Plain EXCEPT !.path = copy.path, !.range = <<line>>, !.ifRange = condition] \in Request
  BY <1>1, <1>5, <1>6 DEF Copy, Request
<1> QED BY <1>7 DEF Rest, line, condition

LEMMA ValidationIs ==
    ASSUME NEW by \in {"tag", "weakened", "date"}
    PROVE  /\ Validation(by) =
                 [method |-> "GET", path |-> copy.path, ifMatch |-> Absent,
                  ifUnmodifiedSince |-> Absent,
                  ifNoneMatch |-> IF by = "date" THEN Absent
                                  ELSE IF by = "weakened" THEN Weakened(copy.tag)
                                  ELSE copy.tag,
                  ifModifiedSince |-> copy.date,
                  range |-> <<>>,
                  ifRange |-> [by |-> "absent", tag |-> StrongTag, date |-> 0]]
<1> DEFINE noneMatch == IF by = "date" THEN Absent
                        ELSE IF by = "weakened" THEN Weakened(copy.tag) ELSE copy.tag
<1>1. Validation(by) = [Plain EXCEPT !.path = copy.path, !.ifNoneMatch = noneMatch,
                                     !.ifModifiedSince = copy.date]
  BY DEF Validation
<1> HIDE DEF noneMatch
<1>2. Validation(by) =
         [method |-> "GET", path |-> copy.path, ifMatch |-> Absent,
          ifUnmodifiedSince |-> Absent, ifNoneMatch |-> noneMatch,
          ifModifiedSince |-> copy.date, range |-> <<>>,
          ifRange |-> [by |-> "absent", tag |-> StrongTag, date |-> 0]]
  BY <1>1 DEF Plain
<1> QED BY <1>2 DEF noneMatch

LEMMA ValidationType ==
    ASSUME TypeInv, NEW by \in {"tag", "weakened", "date"}
    PROVE  Validation(by) \in Request
<1>1. copy \in Copy /\ Plain \in Request
  BY RecordTypes DEF TypeInv
<1>2. /\ copy.tag \in Tags /\ Weakened(copy.tag) \in Tags /\ copy.date \in Nat
      /\ copy.path \in Seq(Seq(Units))
  BY <1>1 DEF Copy, Tags, Weakened
<1> DEFINE noneMatch == IF by = "date" THEN Absent
                        ELSE IF by = "weakened" THEN Weakened(copy.tag) ELSE copy.tag
<1>3. Validation(by) = [Plain EXCEPT !.path = copy.path, !.ifNoneMatch = noneMatch,
                                     !.ifModifiedSince = copy.date]
  BY DEF Validation
<1>4. /\ noneMatch \in Tags \cup {Absent, AnyTag}
      /\ copy.date \in Nat \cup {Absent, BadDate}
  BY <1>2
<1> HIDE DEF noneMatch
<1> QED BY <1>1, <1>2, <1>3, <1>4 DEF Request

LEMMA ClientOK ==
    ASSUME BodyInv, ClientStep \/ Receive
    PROVE  BodyInv'
<1>1. ASSUME NEW r \in Requests, Send(r) PROVE BodyInv'
  <2>1. r \in Request
    BY RespondAssumption
  <2>2. reply = NoReply
    BY <1>1 DEF Send, BodyInv, Unsent, At
  <2>3. copy' \in Copy
    BY <1>1, RecordTypes DEF Send
  <2> QED BY <1>1, <2>1, <2>2, <2>3, FreshOK DEF Send
<1>2. ASSUME NEW by \in {"tag", "date"}, Resume(by) PROVE BodyInv'
  <2>1. Rest(by) \in Request
    BY RestType DEF BodyInv
  <2>2. reply = NoReply
    BY <1>2 DEF Resume, BodyInv, Unsent, At
  <2> QED BY <1>2, <2>1, <2>2, FreshOK DEF Resume, BodyInv, TypeInv
<1>3. ASSUME NEW by \in {"tag", "weakened", "date"}, Revalidate(by) PROVE BodyInv'
  <2>1. Validation(by) \in Request
    BY ValidationType DEF BodyInv
  <2>2. reply = NoReply
    BY <1>3 DEF Revalidate, BodyInv, Unsent, At
  <2> QED BY <1>3, <2>1, <2>2, FreshOK DEF Revalidate, BodyInv, TypeInv
<1>4. CASE Disconnect
  <2> DEFINE c == [path |-> request.path,
                   have |-> [k \in DOMAIN reply.sent |-> reply.sent[k].of],
                   tag |-> server.repr.tag, date |-> server.repr.date,
                   disturbed |-> server.disturbed]
  <2>1. request \in Request /\ reply \in Reply /\ server \in Server
    BY DEF BodyInv, TypeInv
  <2>2. reply.sent \in Seq(Item)
    BY <2>1 DEF Reply
  <2>3. \A k \in DOMAIN reply.sent : reply.sent[k].of \in Version
    <3> TAKE k \in DOMAIN reply.sent
    <3>1. reply.sent[k] \in Item
      BY <2>2
    <3> QED BY <3>1 DEF Item
  <2>4. [k \in DOMAIN reply.sent |-> reply.sent[k].of] \in Seq(Version)
    BY <2>2, <2>3
  <2>5. server.repr \in Repr /\ request.path \in Seq(Seq(Units))
        /\ server.disturbed \in BOOLEAN
    BY <2>1 DEF Server, Request
  <2>6. c \in Copy
    BY <2>4, <2>5 DEF Copy, Repr
  <2> HIDE DEF c
  <2>7. copy' = c
    BY <1>4 DEF Disconnect, c
  <2> QED BY <1>4, <2>6, <2>7, RecordTypes, FreshOK DEF Disconnect
<1>5. CASE Receive
  <2>1. copy' \in Copy
    BY <1>5, RecordTypes DEF Receive, BodyInv, TypeInv
  <2> QED BY <1>5, <2>1, RecordTypes, FreshOK DEF Receive
<1> QED BY <1>1, <1>2, <1>3, <1>4, <1>5 DEF ClientStep

LEMMA HandleOtherOK ==
    ASSUME BodyInv, HandleOther PROVE BodyInv'
<1>1. reply.status # 200
  BY DEF HandleOther, BodyInv, Unsent, At, NoReply
<1> QED BY <1>1, EmptyOK DEF HandleOther

LEMMA OpensOK ==
    ASSUME BodyInv, At("handle"), NEW i \in DOMAIN files, NEW strong \in BOOLEAN,
           Opens(i, strong), UNCHANGED <<fileVars, request, copy>>
    PROVE  BodyInv'
<1> DEFINE repr == Representation(i, strong)
<1>1. repr \in Repr /\ i \in 1..Len(files) /\ i \in Nat /\ repr.len = files[i].len
  BY RepresentationType DEF BodyInv, TypeInv, Representation
<1>2. server' = [NoServer EXCEPT !.at = "evaluate", !.fd = i, !.repr = repr] /\ reply' = reply
  BY DEF Opens
<1> HIDE DEF repr
<1>3. /\ server'.at = "evaluate" /\ server'.fd = i /\ server'.repr = repr
      /\ server'.ranges = <<>> /\ server'.todo = {} /\ server'.offset = 0
      /\ server' \in Server
  BY <1>1, <1>2, RecordTypes DEF NoServer, Server, Stages
<1>4. i # NoFile
  BY <1>1, RespondAssumption
<1>5. reply = NoReply /\ reply \in Reply
  BY DEF BodyInv, Unsent, At, TypeInv
<1>6. TypeInv'
  BY <1>1, <1>2, <1>3, <1>4, <1>5, TypeKept DEF BodyInv
<1>7. RangesInv'
  BY <1>3 DEF RangesInv, Within, Range
<1>8. Unsent' /\ LengthInv'
  BY <1>1, <1>2, <1>3, <1>5 DEF Unsent, LengthInv, At, fileVars
<1>9. DoneInv'
  BY <1>2, <1>3, <1>5
     DEF DoneInv, BodyExact, Streamed, UnsatisfiableExact, UndisturbedComplete, At, NoReply
<1>10. ListingInv'
  BY <1>2, <1>5 DEF ListingInv, NoReply
<1> QED BY <1>3, <1>6, <1>7, <1>8, <1>9, <1>10
        DEF BodyInv, CoalesceInv, StreamInv, PartInv, At

LEMMA HandleOK ==
    ASSUME BodyInv, Handle PROVE BodyInv'
<1> DEFINE route == Route(request.path)
<1>1. /\ route.status \in Nat
      /\ route.kind = "listing" => route.target \in Dirs
  BY RouteShape
<1>2. At("handle") /\ UNCHANGED <<fileVars, request, copy>> /\ TypeInv
  BY DEF Handle, BodyInv
<1>3. reply = NoReply
  BY <1>2 DEF BodyInv, Unsent, At
<1>4. \/ route.kind = "none" /\ Empty(route.status)
      \/ route.kind = "object" /\ Opens(1, TRUE)
      \/ route.kind = "file" /\ Opens(named, FALSE)
      \/ /\ route.kind = "listing"
         /\ server' = [NoServer EXCEPT !.at = "done"]
         /\ reply' = [NoReply EXCEPT !.status = 200, !.whole = TRUE,
                        !.listing = IF request.method = "GET"
                                    THEN Listed(route.target) ELSE {}]
  BY DEF Handle
<1> HIDE DEF route
<1>5. 1 \in DOMAIN files /\ named \in DOMAIN files
  BY <1>2 DEF TypeInv
<1>6. CASE route.kind = "none" /\ Empty(route.status)
  <2>1. reply.status # 200
    BY <1>3 DEF NoReply
  <2>2. route.status \in {206, 416} => FALSE
    <3>1. route.kind = "none" => route.status \notin {206, 416}
      <4>1. \A status, kind, dir : Outcome(status, kind, dir).status = status
        BY DEF Outcome
      <4> DEFINE OK(o) == o.status \notin {206, 416}
      <4>2. OK(Fail(404)) /\ OK(Fail(400)) /\ OK(Fail(301))
        BY <4>1 DEF Fail
      <4>3. \A kind, dir : OK(Outcome(200, kind, dir))
        BY <4>1
      <4> HIDE DEF OK
      <4>4. \A dir : OK(RouteDirectory(request.path, dir))
        BY <4>2, <4>3 DEF RouteDirectory
      <4>5. OK(RouteDigest(request.path)) /\ OK(RouteVisible(request.path))
        BY <4>2, <4>3, <4>4 DEF RouteDigest, RouteVisible
      <4>6. OK(route)
        BY <4>2, <4>5 DEF Route, route
      <4> QED BY <4>6 DEF OK
    <3> QED BY <1>6, <3>1
  <2>3. route.status \in {206, 416} =>
           (route.status = 416 <=> \/ Asked = {} \/ Len(Raw) > MaxRawRanges
                                   \/ Stretches > MaxCoalescedRanges)
    BY <2>2
  <2>4. route.status \in Nat /\ Empty(route.status)
    BY <1>1, <1>6
  <2> QED BY <1>2, <2>1, <2>3, <2>4, EmptyOK
<1>7. CASE Opens(1, TRUE)
  BY <1>2, <1>5, <1>7, OpensOK
<1>8. CASE Opens(named, FALSE)
  BY <1>2, <1>5, <1>8, OpensOK
<1>9. CASE /\ route.kind = "listing"
           /\ server' = [NoServer EXCEPT !.at = "done"]
           /\ reply' = [NoReply EXCEPT !.status = 200, !.whole = TRUE,
                          !.listing = IF request.method = "GET"
                                      THEN Listed(route.target) ELSE {}]
  <2>1. /\ server'.at = "done" /\ server'.fd = NoFile /\ server'.todo = {}
        /\ server'.ranges = <<>> /\ server' \in Server
    BY <1>9, RecordTypes DEF NoServer, Server, Stages
  <2>2. /\ reply'.status = 200 /\ reply'.whole /\ reply'.sent = <<>> /\ reply'.length = 0
        /\ reply'.listing = {} \/ reply'.listing = Listed(route.target)
        /\ reply' \in Reply
    <3>1. NoReply \in Reply
      BY RecordTypes
    <3> DEFINE listed == IF request.method = "GET" THEN Listed(route.target) ELSE {}
    <3>2. listed \in {Listed(dir) : dir \in Dirs} \cup {{}}
      BY <1>1, <1>9 DEF route
    <3>3. reply' = [NoReply EXCEPT !.status = 200, !.whole = TRUE, !.listing = listed]
      BY <1>9
    <3>4. listed = {} \/ listed = Listed(route.target)
      OBVIOUS
    <3> HIDE DEF listed
    <3> QED BY <3>1, <3>2, <3>3, <3>4 DEF Reply, NoReply
  <2>3. TypeInv'
    BY <1>2, <2>1, <2>2, TypeKept
  <2>4. DoneInv'
    BY <2>2 DEF DoneInv, BodyExact, Streamed, UnsatisfiableExact, UndisturbedComplete
  <2>5. ListingInv'
    BY <1>2, <1>9, <2>2 DEF ListingInv, route
  <2> QED BY <2>1, <2>3, <2>4, <2>5, OverOK
<1> QED BY <1>4, <1>6, <1>7, <1>8, <1>9

LEMMA RefusedOK ==
    ASSUME BodyInv, PreconditionBlocks \/ RangeRejected PROVE BodyInv'
<1>1. At("evaluate") /\ UNCHANGED <<fileVars, request, copy>>
  BY DEF PreconditionBlocks, RangeRejected
<1>2. reply.status # 200
  BY <1>1 DEF BodyInv, Unsent, At, NoReply
<1>3. CASE RangeRejected
  BY <1>1, <1>2, <1>3, EmptyOK DEF RangeRejected
<1>4. CASE PreconditionBlocks
  <2>1. Verdict \in {"failed", "notModified", "malformed"}
    BY <1>4 DEF PreconditionBlocks, Verdict, Evaluate
  <2>2. Empty(412) \/ Empty(304) \/ Empty(400)
    BY <1>4, <2>1 DEF PreconditionBlocks
  <2> QED BY <1>1, <1>2, <2>2, EmptyOK
<1> QED BY <1>3, <1>4

\* No byte has been sent yet.
LEMMA InOrderEmpty ==
    ASSUME NEW ahead, reply'.sent = <<>>, Asked' = ahead
    PROVE  InOrder(ahead)' /\ \A kind : Holding(kind)' = {}
BY DEF InOrder, Holding

LEMMA FullOK ==
    ASSUME BodyInv, FullResponse PROVE BodyInv'
<1>1. At("evaluate") /\ UNCHANGED <<fileVars, request, copy>> /\ TypeInv
      /\ Starts(200, server.repr.len, "stream")
  BY DEF FullResponse, BodyInv
<1>2. reply.status # 200 /\ server.ranges = <<>> /\ server.offset = 0
  BY <1>1 DEF BodyInv, Unsent, At, NoReply
<1>3. CASE request.method = "HEAD"
  <2>1. Empty(200)
    BY <1>1, <1>3 DEF Starts
  <2> QED BY <1>1, <1>2, <2>1, EmptyOK
<1>4. CASE request.method # "HEAD"
  <2> DEFINE len == server.repr.len
  <2>1. len \in Nat
    BY <1>1 DEF TypeInv, Server, Repr
  <2>2. server \in Server
    BY <1>1 DEF TypeInv
  <2>3. /\ server' = [server EXCEPT !.at = "stream", !.offset = 0, !.stop = len]
        /\ reply' = [NoReply EXCEPT !.status = 200, !.length = len]
    <3>1. /\ server' = [server EXCEPT !.at = "stream", !.stop = len]
          /\ reply' = [NoReply EXCEPT !.status = 200, !.length = len]
      BY <1>1, <1>4 DEF Starts
    <3>2. server = [server EXCEPT !.offset = 0]
      BY <1>2, <2>2 DEF Server
    <3> HIDE DEF len
    <3> QED BY <2>2, <3>1, <3>2 DEF Server
  <2> HIDE DEF len
  <2>4. /\ TypeInv'
        /\ server'.at = "stream" /\ server'.fd = server.fd /\ server'.repr = server.repr
        /\ server'.todo = server.todo /\ server'.ranges = server.ranges
        /\ server'.offset = 0 /\ server'.stop = len /\ server'.disturbed = server.disturbed
        /\ reply'.status = 200 /\ reply'.length = len /\ reply'.sent = <<>>
        /\ ~reply'.whole /\ reply'.listing = {}
    <3>1. /\ server'.at = "stream" /\ server'.fd = server.fd /\ server'.repr = server.repr
          /\ server'.todo = server.todo /\ server'.ranges = server.ranges
          /\ server'.offset = 0 /\ server'.stop = len
          /\ server'.disturbed = server.disturbed /\ server' \in Server
      BY <2>1, <2>2, <2>3 DEF Server, Stages
    <3>2. /\ reply'.status = 200 /\ reply'.length = len /\ reply'.sent = <<>>
          /\ ~reply'.whole /\ reply'.listing = {} /\ reply' \in Reply
      BY <2>1, <2>3, RecordTypes DEF NoReply, Reply
    <3>3. server.fd # NoFile
      BY <1>1 DEF TypeInv, At
    <3>4. TypeInv'
      BY <1>1, <3>1, <3>2, <3>3, TypeKept
    <3> QED BY <3>1, <3>2, <3>4
  <2>5. Asked' = 0..len - 1
    BY <2>4 DEF Asked, len
  <2>6. InOrder(Current)'
    <3>1. Current' = 0..len - 1
      BY <2>4 DEF Current
    <3> QED BY <2>4, <2>5, <3>1, InOrderEmpty
  <2>7. StreamInv'
    BY <2>1, <2>4, <2>6 DEF StreamInv, len
  <2>8. LengthInv' /\ RangesInv'
    BY <1>1, <2>4 DEF BodyInv, LengthInv, RangesInv, fileVars
  <2>9. DoneInv'
    BY <2>1, <2>4 DEF DoneInv, BodyExact, Streamed, UnsatisfiableExact, UndisturbedComplete, At
  <2> QED BY <2>4, <2>7, <2>8, <2>9
          DEF BodyInv, Unsent, CoalesceInv, PartInv, ListingInv, At
<1> QED BY <1>3, <1>4

LEMMA ClampRangesOK ==
    ASSUME BodyInv, ClampRanges PROVE BodyInv'
<1> DEFINE satisfiable == Satisfiable(Raw, server.repr.len)
           len == server.repr.len
<1>1. /\ At("evaluate") /\ UNCHANGED <<fileVars, request, copy>> /\ TypeInv
      /\ RangeHeader(request.range) = "bytes"
      /\ IF Len(Raw) > MaxRawRanges \/ satisfiable = {}
         THEN Empty(416)
         ELSE /\ server' = [server EXCEPT !.at = "coalesce", !.todo = satisfiable]
              /\ UNCHANGED reply
  BY DEF ClampRanges, RangeApplies, BodyInv, Raw
<1>2. reply = NoReply /\ reply.status # 200 /\ server.ranges = <<>>
  BY <1>1 DEF BodyInv, Unsent, At, NoReply
<1>3. len \in Nat /\ server \in Server /\ server.fd # NoFile
  BY <1>1 DEF TypeInv, Server, Repr, At
<1>4. \A k \in DOMAIN Raw : WellFormed(Raw[k])
  BY <1>1 DEF RangeHeader, Raw
<1>5. Asked = UNION {Wanted(Raw[k], len) : k \in DOMAIN Raw}
  BY <1>2 DEF Asked, Raw
<1>6. satisfiable \subseteq Stretch /\ Within(satisfiable, len) /\ BytesIn(satisfiable) = Asked
  <2> HIDE DEF len
  <2>1. satisfiable = Satisfiable(Raw, len)
    BY DEF len
  <2> HIDE DEF satisfiable
  <2> QED BY <1>3, <1>4, <1>5, <2>1, SatisfiableOK
<1>7. DOMAIN Raw = {1} => \A r, s \in satisfiable : r = s
  <2>1. DOMAIN Raw = {1} => satisfiable = Clamp(Raw[1], len)
    BY DEF Satisfiable
  <2>2. DOMAIN Raw = {1} => \A r, s \in Clamp(Raw[1], len) : r = s
    BY <1>3, <1>4, ClampOK
  <2> QED BY <2>1, <2>2
<1> HIDE DEF satisfiable
<1>8. (Asked = {}) <=> (satisfiable = {})
  BY <1>6, StretchBytes
<1>9. CASE Len(Raw) > MaxRawRanges \/ satisfiable = {}
  <2>1. Empty(416)
    BY <1>1, <1>9
  <2>2. Asked = {} \/ Len(Raw) > MaxRawRanges
    BY <1>8, <1>9
  <2> QED BY <1>1, <1>2, <2>1, <2>2, EmptyOK
<1>10. CASE ~(Len(Raw) > MaxRawRanges \/ satisfiable = {})
  <2>1. /\ server' = [server EXCEPT !.at = "coalesce", !.todo = satisfiable]
        /\ reply' = reply
    BY <1>1, <1>10
  <2>2. /\ server'.at = "coalesce" /\ server'.todo = satisfiable
        /\ server'.ranges = <<>> /\ server'.repr = server.repr
        /\ server'.fd = server.fd /\ server'.disturbed = server.disturbed
        /\ server' \in Server
    BY <1>2, <1>3, <1>6, <2>1 DEF Server, Stages
  <2>3. TypeInv'
    BY <1>1, <1>3, <2>1, <2>2, TypeKept DEF TypeInv
  <2>4. Raw' = Raw /\ Asked' = Asked
    BY <1>1, <2>1, <2>2, AskedKept
  <2>5. RangesInv'
    BY <1>6, <2>2 DEF RangesInv, Within, Range, len
  <2>6. CoalesceInv'
    <3>1. BytesOut(<<>>) = {} /\ Separated(<<>>) /\ DOMAIN <<>> = {}
      BY DEF BytesOut, Separated
    <3>2. DOMAIN Raw = {1} => \E r \in satisfiable : satisfiable = {r}
      BY <1>7, <1>10
    <3>3. BytesIn(server'.todo) \cup BytesOut(server'.ranges) = Asked'
      BY <1>6, <2>2, <2>4, <3>1
    <3>4. Separated(server'.ranges)
          /\ \A r \in server'.todo : \A k \in DOMAIN server'.ranges : server'.ranges[k].start <= r.start
      BY <2>2, <3>1
    <3>5. ~(Len(Raw') > MaxRawRanges) /\ server'.todo # {}
      BY <1>10, <2>2, <2>4
    <3>6. DOMAIN Raw' = {1} => server'.ranges = <<>> /\ \E r \in server'.todo : server'.todo = {r}
      BY <2>2, <2>4, <3>2
    <3> QED BY <3>3, <3>4, <3>5, <3>6 DEF CoalesceInv
  <2>7. LengthInv' /\ Unsent'
    BY <1>1, <1>2, <2>1, <2>2 DEF BodyInv, LengthInv, Unsent, At, fileVars
  <2>8. DoneInv' /\ ListingInv'
    BY <1>2, <2>1, <2>2
       DEF DoneInv, ListingInv, BodyExact, Streamed, UnsatisfiableExact, UndisturbedComplete,
           At, NoReply
  <2> QED BY <2>2, <2>3, <2>5, <2>6, <2>7, <2>8 DEF BodyInv, StreamInv, PartInv, At
<1> QED BY <1>9, <1>10

LEMMA CoalesceOK ==
    ASSUME BodyInv, Coalesce PROVE BodyInv'
<1> DEFINE todo == server.todo
           ranges == server.ranges
           len == server.repr.len
<1>1. At("coalesce") /\ UNCHANGED <<fileVars, request, reply, copy>> /\ TypeInv
  BY DEF Coalesce, BodyInv
<1>2. PICK r \in todo :
         /\ \A other \in todo : r.start <= other.start
         /\ server' = [server EXCEPT !.todo = todo \ {r}, !.ranges = Absorb(ranges, r)]
  BY DEF Coalesce
<1>3. /\ server \in Server /\ server.fd # NoFile /\ len \in Nat
      /\ todo \subseteq Stretch /\ ranges \in Seq(Stretch) /\ r \in Stretch
  BY <1>1, <1>2 DEF TypeInv, Server, Repr, At
<1>4. /\ ~(Len(Raw) > MaxRawRanges) /\ Separated(ranges)
      /\ \A s \in todo : \A k \in DOMAIN ranges : ranges[k].start <= s.start
      /\ BytesIn(todo) \cup BytesOut(ranges) = Asked
      /\ DOMAIN Raw = {1} => \/ todo = {} /\ Len(ranges) = 1
                             \/ ranges = <<>> /\ \E s \in todo : todo = {s}
  BY <1>1 DEF BodyInv, CoalesceInv
<1>5. Within(todo \cup Range(ranges), len)
  BY DEF BodyInv, RangesInv
<1>6. reply = NoReply
  BY <1>1 DEF BodyInv, Unsent, At
<1> DEFINE out == Absorb(ranges, r)
<1>7. server' = [server EXCEPT !.todo = todo \ {r}, !.ranges = out]
  BY <1>2
<1> HIDE DEF todo, ranges, len
<1>8. Within(Range(ranges) \cup {r}, len)
  BY <1>2, <1>5 DEF Within
<1>9. /\ out \in Seq(Stretch) /\ Within(Range(out), len) /\ Separated(out)
      /\ BytesOut(out) = BytesOut(ranges) \cup Bytes(r)
      /\ \A k \in DOMAIN out : out[k].start <= r.start
      /\ out # <<>> /\ (ranges = <<>> => Len(out) = 1)
  BY <1>2, <1>3, <1>4, <1>8, AbsorbOK
<1> HIDE DEF out
<1>10. /\ server'.at = server.at /\ server'.todo = todo \ {r}
       /\ server'.ranges = out /\ server'.repr = server.repr
       /\ server'.fd = server.fd /\ server'.disturbed = server.disturbed
       /\ server' \in Server
  BY <1>3, <1>7, <1>9 DEF Server
<1>11. TypeInv'
  BY <1>1, <1>3, <1>10, TypeKept DEF TypeInv
<1>12. Raw' = Raw /\ Asked' = Asked
  BY <1>1, <1>10, AskedKept
<1>13. RangesInv'
  BY <1>5, <1>9, <1>10 DEF RangesInv, Within, len
<1>14. CoalesceInv'
  <2>1. BytesIn(todo \ {r}) \cup BytesOut(out) = Asked
    <3>1. \A b : b \in BytesIn(todo) <=> b \in BytesIn(todo \ {r}) \/ b \in Bytes(r)
      BY <1>2 DEF BytesIn
    <3> QED BY <1>4, <1>9, <3>1
  <2>2. ASSUME NEW s \in todo \ {r}, NEW k \in DOMAIN out PROVE out[k].start <= s.start
    <3>1. out[k].start <= r.start /\ r.start <= s.start
      BY <1>2, <1>9
    <3>2. out[k] \in Stretch
      BY <1>9
    <3>3. s \in Stretch
      BY <1>3
    <3> QED BY <1>3, <3>1, <3>2, <3>3 DEF Stretch
  <2>3. DOMAIN Raw = {1} => todo \ {r} = {} /\ Len(out) = 1
    BY <1>2, <1>4, <1>9
  <2> QED BY <1>4, <1>9, <1>10, <1>12, <2>1, <2>2, <2>3 DEF CoalesceInv
<1>15. LengthInv' /\ Unsent'
  BY <1>1, <1>6, <1>10 DEF BodyInv, LengthInv, Unsent, At, fileVars
<1>16. DoneInv' /\ ListingInv'
  BY <1>1, <1>6, <1>10
     DEF DoneInv, ListingInv, BodyExact, Streamed, UnsatisfiableExact, UndisturbedComplete,
         At, NoReply
<1> QED BY <1>1, <1>10, <1>11, <1>13, <1>14, <1>15, <1>16 DEF BodyInv, StreamInv, PartInv, At

\* What the ranges are when all of them are merged.
LEMMA CoalescedIs ==
    ASSUME BodyInv, At("coalesce"), server.todo = {}
    PROVE  /\ server.ranges \in Seq(Stretch) /\ Len(server.ranges) \in Nat \ {0}
           /\ Within(Range(server.ranges), server.repr.len)
           /\ Separated(server.ranges)
           /\ Asked = BytesOut(server.ranges) /\ Asked # {}
           /\ Stretches = Len(server.ranges)
           /\ ~(Len(Raw) > MaxRawRanges)
           /\ DOMAIN Raw = {1} => Len(server.ranges) = 1
<1> DEFINE ranges == server.ranges
           len == server.repr.len
<1>1. ranges \in Seq(Stretch)
  BY DEF BodyInv, TypeInv, Server
<1>2. Within(Range(ranges), len)
  BY DEF BodyInv, RangesInv, Within
<1>3. /\ ~(Len(Raw) > MaxRawRanges) /\ Separated(ranges) /\ ranges # <<>>
      /\ BytesIn({}) \cup BytesOut(ranges) = Asked
      /\ DOMAIN Raw = {1} => Len(ranges) = 1
  BY DEF BodyInv, CoalesceInv
<1> HIDE DEF ranges, len
<1>4. BytesIn({}) = {}
  BY DEF BytesIn
<1>5. Asked = BytesOut(ranges)
  BY <1>3, <1>4
<1>6. Len(ranges) \in Nat \ {0}
  BY <1>1, <1>3
<1>7. Asked # {}
  <2>1. 1 \in DOMAIN ranges
    BY <1>1, <1>6
  <2>2. ranges[1] \in Stretch /\ ranges[1] \in Range(ranges)
    BY <1>1, <2>1 DEF Range
  <2>3. ranges[1].start \in Bytes(ranges[1])
    BY <1>2, <2>2 DEF Bytes, Within, Stretch
  <2> QED BY <1>5, <2>1, <2>3 DEF BytesOut
<1>8. Stretches = Len(ranges)
  BY <1>1, <1>2, <1>3, <1>5, StretchCount DEF Stretches
<1> QED BY <1>1, <1>2, <1>3, <1>5, <1>6, <1>7, <1>8 DEF ranges, len

LEMMA SingleOK ==
    ASSUME BodyInv, SingleRange PROVE BodyInv'
<1>1. At("coalesce") /\ UNCHANGED <<fileVars, request, copy>> /\ TypeInv
      /\ server.todo = {} /\ Len(server.ranges) = 1 /\ MaxCoalescedRanges >= 1
  BY DEF SingleRange, BodyInv
<1>2. /\ server.ranges \in Seq(Stretch)
      /\ Within(Range(server.ranges), server.repr.len)
      /\ Asked = BytesOut(server.ranges) /\ Asked # {} /\ Stretches = 1
      /\ ~(Len(Raw) > MaxRawRanges)
  BY <1>1, CoalescedIs
<1>3. reply.status # 200
  BY <1>1 DEF BodyInv, Unsent, At, NoReply
<1>4. ~(Stretches > MaxCoalescedRanges)
  BY <1>1, <1>2, RangeAssumption
<1> DEFINE r == server.ranges[1]
<1>5. CASE request.method = "HEAD"
  <2>1. Empty(206)
    BY <1>5 DEF SingleRange
  <2> QED BY <1>1, <1>2, <1>3, <1>4, <2>1, EmptyOK
<1>6. CASE request.method # "HEAD"
  <2>1. /\ server' = [server EXCEPT !.at = "stream", !.offset = r.start, !.stop = r.end + 1]
        /\ reply' = [NoReply EXCEPT !.status = 206, !.length = ByteLen(r)]
    BY <1>6 DEF SingleRange
  <2>2. server \in Server /\ server.fd # NoFile /\ server.repr.len \in Nat
    BY <1>1 DEF TypeInv, Server, Repr, At
  <2>3. DOMAIN server.ranges = {1}
    BY <1>1, <1>2
  <2>4. r \in Stretch /\ r \in Range(server.ranges)
    BY <1>2, <2>3 DEF Range
  <2>5. r.start \in Nat /\ r.end \in Nat /\ r.start <= r.end /\ r.end < server.repr.len
    BY <1>2, <2>4 DEF Stretch, Within
  <2>6. Asked = r.start..r.end
    <3>1. BytesOut(server.ranges) = Bytes(r)
      BY <2>3 DEF BytesOut
    <3> QED BY <1>2, <3>1 DEF Bytes
  <2>7. ByteLen(r) \in Nat /\ r.end + 1 \in Nat
    BY <2>5 DEF ByteLen
  <2> HIDE DEF r
  <2>8. /\ server'.at = "stream" /\ server'.fd = server.fd /\ server'.repr = server.repr
        /\ server'.todo = server.todo /\ server'.ranges = server.ranges
        /\ server'.offset = r.start /\ server'.stop = r.end + 1
        /\ server'.disturbed = server.disturbed /\ server' \in Server
    BY <2>1, <2>2, <2>5, <2>7 DEF Server, Stages
  <2>9. /\ reply'.status = 206 /\ reply'.length = ByteLen(r) /\ reply'.sent = <<>>
        /\ ~reply'.whole /\ reply'.listing = {} /\ reply' \in Reply
    BY <2>1, <2>7, RecordTypes DEF NoReply, Reply
  <2>10. TypeInv'
    BY <1>1, <2>2, <2>8, <2>9, TypeKept
  <2>11. Raw' = Raw /\ Asked' = Asked /\ Stretches' = Stretches
    BY <1>1, <1>3, <2>8, <2>9, AskedKept
  <2>12. Accepted'
    BY <1>2, <1>4, <2>11 DEF Accepted
  <2>13. InOrder(Current)'
    <3>1. Current' = Asked'
      BY <2>5, <2>6, <2>8, <2>11 DEF Current
    <3> QED BY <2>9, <3>1, InOrderEmpty
  <2>14. StreamInv'
    <3>1. server'.offset <= server'.stop /\ server'.stop <= server'.repr.len
          /\ Len(reply'.sent) + (server'.stop - server'.offset) = reply'.length
      BY <2>2, <2>5, <2>8, <2>9 DEF ByteLen
    <3> QED BY <2>9, <2>12, <2>13, <3>1 DEF StreamInv
  <2>15. LengthInv' /\ RangesInv'
    BY <1>1, <2>8 DEF BodyInv, LengthInv, RangesInv, fileVars
  <2>16. DoneInv'
    BY <2>7, <2>8, <2>9
       DEF DoneInv, BodyExact, Streamed, UnsatisfiableExact, UndisturbedComplete, At
  <2> QED BY <2>8, <2>9, <2>10, <2>14, <2>15, <2>16
          DEF BodyInv, Unsent, CoalesceInv, PartInv, ListingInv, At
<1> QED BY <1>5, <1>6

LEMMA MultipartOK ==
    ASSUME BodyInv, Multipart PROVE BodyInv'
<1> DEFINE ranges == server.ranges
           total == MultipartLength(server.ranges)
<1>1. At("coalesce") /\ UNCHANGED <<fileVars, request, copy>> /\ TypeInv
      /\ server.todo = {} /\ Len(ranges) \in 2..MaxCoalescedRanges
      /\ Starts(206, total, "part")
  BY DEF Multipart, BodyInv
<1>2. /\ ranges \in Seq(Stretch) /\ Within(Range(ranges), server.repr.len) /\ Separated(ranges)
      /\ Asked = BytesOut(ranges) /\ Asked # {} /\ Stretches = Len(ranges)
      /\ ~(Len(Raw) > MaxRawRanges) /\ DOMAIN Raw # {1}
  <2>1. Len(ranges) # 1
    <3>1. MaxCoalescedRanges \in Nat
      BY RangeAssumption
    <3>2. Len(ranges) \in 2..MaxCoalescedRanges
      BY <1>1
    <3>3. \A n \in 2..MaxCoalescedRanges : n # 1
      BY <3>1
    <3> QED BY ONLY <3>2, <3>3
  <2> QED BY <1>1, <2>1, CoalescedIs
<1>3. reply.status # 200
  BY <1>1 DEF BodyInv, Unsent, At, NoReply
<1>4. ~(Stretches > MaxCoalescedRanges)
  BY <1>1, <1>2, RangeAssumption
<1>5. CASE request.method = "HEAD"
  <2>1. Empty(206)
    BY <1>1, <1>5 DEF Starts
  <2> QED BY <1>1, <1>2, <1>3, <1>4, <2>1, EmptyOK
<1>6. CASE request.method # "HEAD"
  <2>1. /\ server' = [server EXCEPT !.at = "part", !.stop = server.repr.len]
        /\ reply' = [NoReply EXCEPT !.status = 206, !.length = total]
    BY <1>1, <1>6 DEF Starts
  <2>2. server \in Server /\ server.fd # NoFile /\ server.repr.len \in Nat
    BY <1>1 DEF TypeInv, Server, Repr, At
  <2>3. total \in Nat
    <3>1. ranges # <<>>
      BY <1>1
    <3> QED BY <1>2, <3>1, MultipartTail
  <2> HIDE DEF total
  <2>4. /\ server'.at = "part" /\ server'.fd = server.fd /\ server'.repr = server.repr
        /\ server'.todo = server.todo /\ server'.ranges = server.ranges
        /\ server'.disturbed = server.disturbed /\ server' \in Server
    BY <2>1, <2>2 DEF Server, Stages
  <2>5. /\ reply'.status = 206 /\ reply'.length = total /\ reply'.sent = <<>>
        /\ ~reply'.whole /\ reply'.listing = {} /\ reply' \in Reply
    <3>1. NoReply \in Reply
      BY RecordTypes
    <3>2. /\ reply'.status = 206 /\ reply'.length = total /\ reply'.sent = <<>>
          /\ ~reply'.whole /\ reply'.listing = {}
      BY <2>1 DEF NoReply
    <3> QED BY <2>1, <2>3, <3>1, <3>2 DEF Reply
  <2>6. TypeInv'
    BY <1>1, <2>2, <2>4, <2>5, TypeKept
  <2>7. Raw' = Raw /\ Asked' = Asked /\ Stretches' = Stretches
    BY <1>1, <1>3, <2>4, <2>5, AskedKept
  <2>8. Accepted'
    BY <1>2, <1>4, <2>7 DEF Accepted
  <2>9. InOrder({} \cup BytesOut(server.ranges))' /\ Holding("header")' = {}
    <3>1. Asked' = {} \cup BytesOut(server'.ranges)
      BY <1>2, <2>4, <2>7
    <3>2. \A ahead : Asked' = ahead => InOrder(ahead)'
      BY <2>5 DEF InOrder, Holding
    <3>3. Holding("header")' = {}
      BY <2>5 DEF Holding
    <3> QED BY <3>1, <3>2, <3>3
  <2>10. PartInv'
    <3>1. Cardinality(Holding("header")') + Len(server'.ranges) = Stretches'
      <4>1. Cardinality(Holding("header")') = 0
        BY <2>9, FS_EmptySet
      <4>2. Len(server'.ranges) \in Nat /\ Stretches' = Len(server'.ranges)
        BY <1>2, <2>4, <2>7
      <4> QED BY <4>1, <4>2
    <3>2. Len(reply'.sent) + 0 + MultipartLength(server'.ranges) = reply'.length
      BY <2>3, <2>4, <2>5 DEF total
    <3> QED BY <1>2, <2>4, <2>5, <2>7, <2>8, <2>9, <3>1, <3>2 DEF PartInv, At
  <2>11. LengthInv' /\ RangesInv'
    BY <1>1, <2>4 DEF BodyInv, LengthInv, RangesInv, fileVars
  <2>12. DoneInv'
    BY <2>3, <2>4, <2>5
       DEF DoneInv, BodyExact, Streamed, UnsatisfiableExact, UndisturbedComplete, At
  <2> QED BY <2>4, <2>5, <2>6, <2>10, <2>11, <2>12
          DEF BodyInv, Unsent, CoalesceInv, StreamInv, ListingInv, At
<1> QED BY <1>5, <1>6

LEMMA TooManyOK ==
    ASSUME BodyInv, TooManyRanges PROVE BodyInv'
<1>1. At("coalesce") /\ UNCHANGED <<fileVars, request, copy>> /\ server.todo = {}
      /\ Len(server.ranges) > MaxCoalescedRanges /\ Empty(416)
  BY DEF TooManyRanges
<1>2. Stretches > MaxCoalescedRanges
  BY <1>1, CoalescedIs
<1>3. reply.status # 200
  BY <1>1 DEF BodyInv, Unsent, At, NoReply
<1> QED BY <1>1, <1>2, <1>3, EmptyOK

-----------------------------------------------------------------------------
(* The body.                                                               *)

\* The bytes read from one offset on come next.
LEMMA InOrderBytes ==
    ASSUME reply.sent \in Seq(Item), NEW from \in Nat, NEW count \in Nat,
           NEW items \in Seq(Item), Len(items) = count,
           \A k \in 1..count : items[k].kind = "byte" /\ items[k].pos = from + k - 1,
           reply'.sent = reply.sent \o items, Asked' = Asked,
           NEW ahead, NEW left, InOrder(ahead),
           \A b : b \in ahead <=> b \in from..from + count - 1 \/ b \in left,
           \A b \in left : b \in Nat /\ b >= from + count
    PROVE  InOrder(left)' /\ Holding("header")' = Holding("header")
<1> DEFINE n == Len(reply.sent)
           sent == reply.sent
           after == reply'.sent
           H == Holding("byte")
           H1 == n + 1..n + count
<1>1. n \in Nat /\ DOMAIN sent = 1..n /\ DOMAIN items = 1..count
  OBVIOUS
<1>2. \A k \in 1..n : sent[k] \in Item
  OBVIOUS
<1>3. DOMAIN after = 1..n + count
      /\ \A k \in 1..n + count : after[k] = IF k <= n THEN sent[k] ELSE items[k - n]
  <2>1. after = sent \o items /\ sent \in Seq(Item)
    OBVIOUS
  <2>2. n = Len(sent)
    OBVIOUS
  <2> HIDE DEF after, sent, n
  <2>3. Len(after) = n + count /\ DOMAIN after = 1..Len(after)
    <3>1. after \in Seq(Item)
      BY <2>1
    <3>2. Len(sent \o items) = Len(sent) + Len(items)
      BY ONLY <2>1, items \in Seq(Item)
    <3> QED BY <2>1, <2>2, <3>1, <3>2
  <2>4. \A k \in 1..n + count : after[k] = IF k <= n THEN sent[k] ELSE items[k - n]
    BY <1>1, <2>1, <2>2
  <2> QED BY <2>3, <2>4
<1>4. \A k \in 1..n : sent[k].pos \in Nat
  BY <1>2 DEF Item
<1> HIDE DEF n
<1>5. \A k \in 1..n : k \in 1..n + count /\ after[k] = sent[k]
  BY <1>1, <1>3
<1>6. \A k \in H1 : /\ k \in 1..n + count /\ k - n \in 1..count /\ after[k] = items[k - n]
                    /\ after[k].kind = "byte" /\ after[k].pos = from + (k - n) - 1
  <2> HIDE DEF after, sent
  <2> TAKE k \in H1
  <2>1. k \in n + 1..n + count /\ k \in Int
    BY <1>1
  <2>2. k \in 1..n + count /\ k - n \in 1..count /\ ~(k <= n)
    BY <1>1, <2>1
  <2>3. after[k] = items[k - n]
    BY <1>3, <2>2
  <2>4. items[k - n].kind = "byte" /\ items[k - n].pos = from + (k - n) - 1
    BY <2>2
  <2> QED BY <2>2, <2>3, <2>4
<1>7. \A k \in 1..n + count : k \in 1..n \/ k \in H1
  BY <1>1
<1>8. \A kind : Holding(kind) = {k \in 1..n : sent[k].kind = kind}
  BY <1>1 DEF Holding
<1>9. \A kind : Holding(kind)' = {k \in 1..n + count : after[k].kind = kind}
  BY <1>3 DEF Holding
<1>10. Holding("byte")' = H \cup H1
  <2> HIDE DEF H1, after, sent
  <2>1. \A k : k \in Holding("byte")' <=> k \in H \cup H1
    BY <1>5, <1>6, <1>7, <1>8, <1>9
  <2> QED BY <2>1
<1>11. Holding("header")' = Holding("header")
  <2> HIDE DEF H1, after, sent
  <2>1. \A k : k \in Holding("header")' <=> k \in Holding("header")
    BY <1>5, <1>6, <1>7, <1>8, <1>9
  <2> QED BY <2>1
<1>12. H \subseteq 1..n
  BY <1>8
<1>13. /\ {sent[k].pos : k \in H} \cup ahead = Asked
       /\ \A j, k \in H : j < k => sent[j].pos < sent[k].pos
       /\ \A k \in H : \A b \in ahead : sent[k].pos < b
  BY DEF InOrder
<1> HIDE DEF H, after, sent
<1>14. \A b : b \in {after[k].pos : k \in H \cup H1}
              <=> b \in {sent[k].pos : k \in H} \/ b \in from..from + count - 1
  <2>1. ASSUME NEW k \in H PROVE after[k].pos = sent[k].pos
    BY <1>5, <1>12
  <2>2. ASSUME NEW k \in H1 PROVE after[k].pos \in from..from + count - 1
    BY <1>1, <1>6
  <2>3. ASSUME NEW b \in from..from + count - 1 PROVE \E k \in H1 : after[k].pos = b
    <3>1. b - from + 1 + n \in H1
      BY <1>1
    <3>2. after[b - from + 1 + n].pos = b
      BY <1>1, <1>6, <3>1
    <3> QED BY <3>1, <3>2
  <2> HIDE DEF H1
  <2>4. \A b : b \in {after[k].pos : k \in H \cup H1}
               <=> \E k \in H \cup H1 : b = after[k].pos
    OBVIOUS
  <2>5. \A b : b \in {sent[k].pos : k \in H} <=> \E k \in H : b = sent[k].pos
    OBVIOUS
  <2> QED BY ONLY <2>1, <2>2, <2>3, <2>4, <2>5
<1>15. {after[k].pos : k \in H \cup H1} \cup left = Asked
  <2>1. \A b : b \in {after[k].pos : k \in H \cup H1} \cup left
               <=> b \in {sent[k].pos : k \in H} \cup ahead
    BY <1>14
  <2>2. {after[k].pos : k \in H \cup H1} \cup left = {sent[k].pos : k \in H} \cup ahead
    BY <2>1
  <2> QED BY <1>13, <2>2
<1>16. ASSUME NEW j \in H \cup H1, NEW k \in H \cup H1, j < k
       PROVE  after[j].pos < after[k].pos
  <2>1. CASE j \in H /\ k \in H
    BY <1>5, <1>12, <1>13, <1>16, <2>1
  <2>2. CASE j \in H /\ k \in H1
    <3>1. after[k].pos \in from..from + count - 1
      BY <1>1, <1>6, <2>2
    <3>2. after[k].pos \in ahead
      BY <3>1
    <3> QED BY <1>5, <1>12, <1>13, <2>2, <3>2
  <2>3. CASE j \in H1 /\ k \in H
    <3>1. j \in n + 1..n + count /\ k \in 1..n
      BY <1>12, <2>3
    <3> QED BY <1>1, <1>16, <3>1
  <2>4. CASE j \in H1 /\ k \in H1
    BY <1>1, <1>6, <1>16, <2>4
  <2> QED BY <2>1, <2>2, <2>3, <2>4
<1>17. ASSUME NEW k \in H \cup H1, NEW b \in left PROVE after[k].pos < b
  <2>1. CASE k \in H
    BY <1>5, <1>12, <1>13, <2>1
  <2>2. CASE k \in H1
    BY <1>1, <1>6, <2>2
  <2> QED BY <2>1, <2>2
<1>18. InOrder(left)'
  <2>1. {reply'.sent[k].pos : k \in Holding("byte")'} \cup left = Asked'
    BY <1>10, <1>15 DEF after
  <2>2. \A j, k \in Holding("byte")' : j < k => reply'.sent[j].pos < reply'.sent[k].pos
    BY <1>10, <1>16 DEF after
  <2>3. \A k \in Holding("byte")' : \A b \in left : reply'.sent[k].pos < b
    BY <1>10, <1>17 DEF after
  <2> QED BY <2>1, <2>2, <2>3 DEF InOrder
<1> QED BY <1>11, <1>18

\* Framing moves no byte.
LEMMA InOrderFrame ==
    ASSUME reply.sent \in Seq(Item), NEW kind \in {"header", "crlf", "final"},
           reply'.sent = Append(reply.sent, Framing(kind)), Asked' = Asked,
           NEW ahead, InOrder(ahead)
    PROVE  /\ InOrder(ahead)'
           /\ Holding("byte")' = Holding("byte")
           /\ Holding("header")' = IF kind = "header"
                                   THEN Holding("header") \cup {Len(reply.sent) + 1}
                                   ELSE Holding("header")
<1> DEFINE n == Len(reply.sent)
           sent == reply.sent
           after == reply'.sent
<1>1. n \in Nat /\ DOMAIN sent = 1..n
  OBVIOUS
<1>2. DOMAIN after = 1..n + 1 /\ after[n + 1] = Framing(kind)
      /\ \A k \in 1..n : after[k] = sent[k]
  BY <1>1
<1>3. after[n + 1].kind = kind
  BY <1>2 DEF Framing
<1>4. n + 1 \notin 1..n /\ \A k : k \in 1..n + 1 <=> k \in 1..n \/ k = n + 1
  <2> HIDE DEF n
  <2> QED BY <1>1
<1>5. \A some : Holding(some) = {k \in 1..n : sent[k].kind = some}
  BY <1>1 DEF Holding
<1>6. \A some : Holding(some)' = {k \in 1..n + 1 : after[k].kind = some}
  BY <1>2 DEF Holding
<1> HIDE DEF n, sent, after
<1>7. \A k, some : k \in Holding(some)' <=> k \in Holding(some) \/ (k = n + 1 /\ some = kind)
  BY <1>2, <1>3, <1>4, <1>5, <1>6
<1>8. Holding("byte")' = Holding("byte")
  <2>1. \A k : k \in Holding("byte")' <=> k \in Holding("byte")
    BY <1>7
  <2> QED BY <2>1
<1>9. Holding("header")' = IF kind = "header" THEN Holding("header") \cup {n + 1}
                           ELSE Holding("header")
  <2>1. CASE kind = "header"
    <3>1. \A k : k \in Holding("header")' <=> k \in Holding("header") \cup {n + 1}
      BY <1>7, <2>1
    <3> QED BY <2>1, <3>1
  <2>2. CASE kind # "header"
    <3>1. \A k : k \in Holding("header")' <=> k \in Holding("header")
      BY <1>7, <2>2
    <3> QED BY <2>2, <3>1
  <2> QED BY <2>1, <2>2
<1>10. \A k \in Holding("byte") : k \in 1..n /\ after[k] = sent[k]
  BY <1>2, <1>5
<1>11. InOrder(ahead)'
  <2>1. {sent[k].pos : k \in Holding("byte")} \cup ahead = Asked
        /\ (\A j, k \in Holding("byte") : j < k => sent[j].pos < sent[k].pos)
        /\ (\A k \in Holding("byte") : \A b \in ahead : sent[k].pos < b)
    BY DEF InOrder, sent
  <2>2. {after[k].pos : k \in Holding("byte")} = {sent[k].pos : k \in Holding("byte")}
    BY <1>10
  <2>3. {reply'.sent[k].pos : k \in Holding("byte")'} \cup ahead = Asked'
    BY <1>8, <2>1, <2>2 DEF after
  <2>4. \A j, k \in Holding("byte")' : j < k => reply'.sent[j].pos < reply'.sent[k].pos
    BY <1>8, <1>10, <2>1 DEF after
  <2>5. \A k \in Holding("byte")' : \A b \in ahead : reply'.sent[k].pos < b
    BY <1>8, <1>10, <2>1 DEF after
  <2> QED BY <2>3, <2>4, <2>5 DEF InOrder
<1> QED BY <1>8, <1>9, <1>11 DEF n

LEMMA SliceShape ==
    ASSUME TypeInv, NEW i \in DOMAIN files, NEW from \in Nat, NEW count \in Nat
    PROVE  /\ Slice(i, from, count) \in Seq(Item) /\ Len(Slice(i, from, count)) = count
           /\ \A k \in 1..count : /\ Slice(i, from, count)[k].kind = "byte"
                                  /\ Slice(i, from, count)[k].pos = from + k - 1
                                  /\ Slice(i, from, count)[k].of = files[i].of
<1>1. files[i] \in Inode
  BY DEF TypeInv
<1>2. files[i].of \in Version
  BY <1>1 DEF Inode
<1>3. \A k \in 1..count : from + k - 1 \in Nat
  OBVIOUS
<1>4. \A pos \in Nat : Byte(i, pos) \in Item
  BY <1>2 DEF Byte, Item
<1>5. \A k \in 1..count : Byte(i, from + k - 1) \in Item
  BY <1>3, <1>4
<1>6. Slice(i, from, count) = [k \in 1..count |-> Byte(i, from + k - 1)]
  BY DEF Slice
<1>7. Slice(i, from, count) \in [1..count -> Item]
  BY <1>5, <1>6
<1>8. Slice(i, from, count) \in Seq(Item) /\ Len(Slice(i, from, count)) = count
  BY <1>7
<1>9. \A k \in 1..count : Slice(i, from, count)[k] = Byte(i, from + k - 1)
  BY <1>6
<1> QED BY <1>8, <1>9 DEF Byte

\* The types after something has been sent.
LEMMA EmitType ==
    ASSUME TypeInv, UNCHANGED <<fileVars, request, copy>>, server.fd # NoFile,
           server' \in Server, server'.fd = server.fd,
           server'.at \in {"stream", "part", "partBody"},
           NEW items \in Seq(Item), Emit(items)
    PROVE  /\ TypeInv' /\ reply' \in Reply
           /\ reply.sent \in Seq(Item) /\ reply'.sent = reply.sent \o items
           /\ Len(reply'.sent) = Len(reply.sent) + Len(items)
           /\ reply'.status = reply.status /\ reply'.length = reply.length
           /\ reply'.whole = reply.whole /\ reply'.listing = reply.listing
<1>1. reply \in Reply /\ reply' = [reply EXCEPT !.sent = reply.sent \o items]
  BY DEF TypeInv, Emit
<1>2. reply.sent \in Seq(Item)
  BY <1>1 DEF Reply
<1>3. Len(reply.sent \o items) = Len(reply.sent) + Len(items)
      /\ reply.sent \o items \in Seq(Item)
  BY ONLY <1>2, items \in Seq(Item)
<1>4. /\ reply' \in Reply /\ reply'.sent = reply.sent \o items
      /\ reply'.status = reply.status /\ reply'.length = reply.length
      /\ reply'.whole = reply.whole /\ reply'.listing = reply.listing
  BY <1>1, <1>3 DEF Reply
<1>5. TypeInv'
  BY <1>4, TypeKept
<1> QED BY <1>2, <1>3, <1>4, <1>5

\* A chunk read from the descriptor and sent.
LEMMA ChunkOK ==
    ASSUME BodyInv, UNCHANGED <<fileVars, request, copy>>,
           At("stream") \/ At("partBody"),
           NEW count \in Nat, server.offset + count <= server.stop,
           Emit(Slice(server.fd, server.offset, count)),
           server' = [server EXCEPT !.offset = server.offset + count]
    PROVE  /\ TypeInv' /\ LengthInv' /\ RangesInv'
           /\ server'.at = server.at /\ server'.repr = server.repr /\ server'.fd = server.fd
           /\ server'.ranges = server.ranges /\ server'.stop = server.stop
           /\ server'.offset = server.offset + count
           /\ server'.disturbed = server.disturbed
           /\ reply'.status = reply.status /\ reply'.length = reply.length
           /\ reply'.listing = reply.listing
           /\ Len(reply'.sent) = Len(reply.sent) + count
           /\ Holding("header")' = Holding("header")
           /\ (\A k \in DOMAIN reply.sent : reply.sent[k].kind = "byte")
                 => \A k \in DOMAIN reply'.sent : reply'.sent[k].kind = "byte"
           /\ \A left : (\A b \in left : b \in Nat /\ b >= server.stop)
                        /\ InOrder(Current \cup left) => InOrder(Current \cup left)'
<1> DEFINE from == server.offset
           items == Slice(server.fd, from, count)
<1>1. /\ TypeInv /\ server \in Server /\ server.fd # NoFile /\ server.fd \in DOMAIN files
  BY DEF BodyInv, TypeInv, At
<1>2. from \in Nat /\ server.stop \in Nat
  BY <1>1 DEF Server
<1>3. /\ items \in Seq(Item) /\ Len(items) = count
      /\ \A k \in 1..count : items[k].kind = "byte" /\ items[k].pos = from + k - 1
  BY <1>1, <1>2, SliceShape
<1>4. /\ server'.at = server.at /\ server'.repr = server.repr /\ server'.fd = server.fd
      /\ server'.ranges = server.ranges /\ server'.stop = server.stop
      /\ server'.todo = server.todo /\ server'.disturbed = server.disturbed
      /\ server'.offset = from + count /\ server' \in Server
  BY <1>1, <1>2 DEF Server
<1>5. Emit(items) /\ server'.at \in {"stream", "part", "partBody"}
  BY <1>4 DEF At
<1> HIDE DEF items, from
<1>6. /\ TypeInv' /\ reply' \in Reply
      /\ reply.sent \in Seq(Item) /\ reply'.sent = reply.sent \o items
      /\ Len(reply'.sent) = Len(reply.sent) + count
      /\ reply'.status = reply.status /\ reply'.length = reply.length
      /\ reply'.whole = reply.whole /\ reply'.listing = reply.listing
  BY <1>1, <1>3, <1>4, <1>5, EmitType
<1>7. Asked' = Asked
  BY <1>4, <1>6, AskedKept
<1>8. LengthInv' /\ RangesInv'
  BY <1>4 DEF BodyInv, LengthInv, RangesInv, fileVars
<1>9. ASSUME NEW left, \A b \in left : b \in Nat /\ b >= server.stop,
             InOrder(Current \cup left)
      PROVE  InOrder(Current \cup left)'
  <2> DEFINE after == (from + count..server.stop - 1) \cup left
  <2>1. Current = from..server.stop - 1 /\ Current' = from + count..server.stop - 1
    BY <1>4 DEF Current, from
  <2>2. \A b : b \in Current \cup left <=> b \in from..from + count - 1 \/ b \in after
    BY <1>2, <2>1 DEF from
  <2>3. \A b \in after : b \in Nat /\ b >= from + count
    BY <1>2, <1>9 DEF from
  <2>4. Current' \cup left = after
    BY <2>1
  <2>5. ASSUME NEW s, s = after, NEW all, all = Current \cup left PROVE InOrder(s)'
    <3>1. InOrder(all)
      BY <1>9, <2>5
    <3>2. \A b : b \in all <=> b \in from..from + count - 1 \/ b \in s
      BY <2>2, <2>5
    <3>3. \A b \in s : b \in Nat /\ b >= from + count
      BY <2>3, <2>5
    <3> HIDE DEF after
    <3> QED BY <1>2, <1>3, <1>6, <1>7, <3>1, <3>2, <3>3, InOrderBytes
  <2>6. ASSUME NEW s, s = after PROVE InOrder(Current \cup left)'
    <3>1. InOrder(s)'
      BY <2>5, <2>6
    <3>2. s = Current' \cup left
      BY <2>4, <2>6
    <3> QED BY <3>1, <3>2 DEF InOrder
  <2> QED BY <2>6
<1> DEFINE n == Len(reply.sent)
<1>10. n \in Nat /\ DOMAIN reply.sent = 1..n /\ DOMAIN items = 1..count
  BY <1>3, <1>6
<1>11. DOMAIN reply'.sent = 1..n + count
  BY <1>6 DEF Reply
<1>12. \A k \in 1..n + count :
          reply'.sent[k] = IF k <= n THEN reply.sent[k] ELSE items[k - n]
  BY <1>3, <1>6, <1>10
<1> HIDE DEF n
<1>13. \A k \in 1..n + count : ~(k <= n) => reply'.sent[k].kind = "byte"
  BY <1>3, <1>10, <1>12
<1>14. Holding("header")' = Holding("header")
  <2>1. \A k : k \in Holding("header")' <=> k \in Holding("header")
    BY <1>10, <1>11, <1>12, <1>13 DEF Holding
  <2> QED BY <2>1
<1>15. (\A k \in DOMAIN reply.sent : reply.sent[k].kind = "byte")
          => \A k \in DOMAIN reply'.sent : reply'.sent[k].kind = "byte"
  <2>1. \A k \in 1..n + count : k <= n => k \in 1..n
    BY <1>10
  <2> QED BY <1>10, <1>11, <1>12, <1>13, <2>1
<1> QED BY <1>4, <1>6, <1>8, <1>9, <1>14, <1>15 DEF from

\* Only a file that has been written to ends before the response does.
LEMMA ReadMisses ==
    ASSUME BodyInv, At("stream") \/ At("partBody"), server.offset < server.stop,
           server.stop <= server.repr.len, Available < server.stop - server.offset
    PROVE  server.disturbed
<1>1. /\ server \in Server /\ server.fd # NoFile /\ server.fd \in DOMAIN files
      /\ files[server.fd] \in Inode
  BY DEF BodyInv, TypeInv, At
<1>2. /\ server.offset \in Nat /\ server.stop \in Nat /\ server.repr.len \in Nat
      /\ server.disturbed \in BOOLEAN
  BY <1>1 DEF Server, Repr
<1>3. files[server.fd].len \in Nat
  BY <1>1, RespondAssumption DEF Inode
<1>4. ~server.disturbed => files[server.fd].len = server.repr.len
  BY <1>1 DEF BodyInv, LengthInv
<1> QED BY <1>2, <1>3, <1>4 DEF Available

LEMMA AvailableType == BodyInv /\ (At("stream") \/ At("partBody")) => Available \in Nat
<1> SUFFICES ASSUME BodyInv, At("stream") \/ At("partBody") PROVE Available \in Nat
  OBVIOUS
<1>1. server \in Server /\ files[server.fd] \in Inode
  BY DEF BodyInv, TypeInv, At
<1>2. server.offset \in Nat /\ files[server.fd].len \in Nat
  BY <1>1, RespondAssumption DEF Server, Inode
<1> QED BY <1>2 DEF Available

\* The stream ends, or breaks off because somebody wrote to the file.
LEMMA FinishOK ==
    ASSUME BodyInv, UNCHANGED <<fileVars, request, copy>>,
           NEW whole \in BOOLEAN, Finish(whole),
           reply.status = 200 \/ (reply.status = 206 /\ Accepted),
           Len(reply.sent) <= reply.length, ~whole => server.disturbed,
           BodyExact'
    PROVE  BodyInv'
<1>0. TypeInv
  BY DEF BodyInv
<1>1. /\ server' \in Server /\ server'.at = "done" /\ server'.fd = NoFile
      /\ server'.repr = server.repr /\ server'.disturbed = server.disturbed
      /\ reply' \in Reply /\ reply'.whole = whole /\ reply'.status = reply.status
      /\ reply'.length = reply.length /\ reply'.sent = reply.sent
      /\ reply'.listing = reply.listing
  BY <1>0, FinishType
<1>2. server'.ranges = <<>> /\ server'.todo = {}
  BY <1>0, DoneRanges DEF Finish
<1>3. TypeInv'
  BY <1>0, <1>1, TypeKept
<1>4. Raw' = Raw /\ Asked' = Asked /\ Stretches' = Stretches
  BY <1>1, AskedKept
<1>5. UnsatisfiableExact'
  BY <1>1, <1>4 DEF UnsatisfiableExact, Accepted, Raw
<1>6. UndisturbedComplete'
  BY <1>1 DEF UndisturbedComplete
<1>7. ListingInv'
  BY <1>1 DEF BodyInv, ListingInv
<1> QED BY <1>1, <1>2, <1>3, <1>5, <1>6, <1>7, OverOK DEF DoneInv

LEMMA ReadChunkOK ==
    ASSUME BodyInv, ReadChunk PROVE BodyInv'
<1> DEFINE count == Lesser(Lesser(ChunkSize, Available), server.stop - server.offset)
<1>1. /\ At("stream") /\ server.offset < server.stop
      /\ UNCHANGED <<fileVars, request, copy>>
      /\ IF count = 0 THEN Finish(FALSE)
         ELSE /\ Emit(Slice(server.fd, server.offset, count))
              /\ server' = [server EXCEPT !.offset = server.offset + count]
  BY DEF ReadChunk
<1>2. /\ reply.status = 200 \/ (reply.status = 206 /\ Accepted)
      /\ \A k \in DOMAIN reply.sent : reply.sent[k].kind = "byte"
      /\ server.stop <= server.repr.len /\ InOrder(Current)
      /\ Len(reply.sent) + (server.stop - server.offset) = reply.length
  BY <1>1 DEF BodyInv, StreamInv
<1>3. /\ server.offset \in Nat /\ server.stop \in Nat /\ Len(reply.sent) \in Nat
      /\ reply.length \in Nat /\ Available \in Nat /\ ChunkSize \in Nat \ {0}
  <2>1. server \in Server /\ reply \in Reply
    BY DEF BodyInv, TypeInv
  <2> QED BY <1>1, <2>1, AvailableType, RespondAssumption DEF Server, Reply
<1>4. CASE count = 0
  <2>1. Finish(FALSE)
    BY <1>1, <1>4
  <2>2. Available < server.stop - server.offset
    BY <1>1, <1>3, <1>4 DEF Lesser
  <2>3. server.disturbed
    BY <1>1, <1>2, <2>2, ReadMisses
  <2>4. ~reply'.whole
    BY <2>1, FinishType DEF BodyInv
  <2>5. BodyExact'
    BY <2>4 DEF BodyExact, Streamed
  <2>6. Len(reply.sent) <= reply.length
    BY <1>1, <1>2, <1>3
  <2> QED BY <1>1, <1>2, <2>1, <2>3, <2>5, <2>6, FinishOK
<1>5. CASE count # 0
  <2>1. count \in Nat /\ server.offset + count <= server.stop
    BY <1>1, <1>3 DEF Lesser
  <2>2. Emit(Slice(server.fd, server.offset, count))
        /\ server' = [server EXCEPT !.offset = server.offset + count]
    BY <1>1, <1>5
  <2> HIDE DEF count
  <2>3. /\ TypeInv' /\ LengthInv' /\ RangesInv'
        /\ server'.at = server.at /\ server'.repr = server.repr /\ server'.fd = server.fd
        /\ server'.ranges = server.ranges /\ server'.stop = server.stop
        /\ server'.offset = server.offset + count
        /\ server'.disturbed = server.disturbed
        /\ reply'.status = reply.status /\ reply'.length = reply.length
        /\ reply'.listing = reply.listing
        /\ Len(reply'.sent) = Len(reply.sent) + count
        /\ \A k \in DOMAIN reply'.sent : reply'.sent[k].kind = "byte"
    BY <1>1, <1>2, <2>1, <2>2, ChunkOK
  <2>4. InOrder(Current)'
    <3>1. ASSUME NEW none, none = {} PROVE InOrder(Current)'
      <4>1. InOrder(Current \cup none)
        BY <1>2, <3>1 DEF InOrder
      <4>2. InOrder(Current \cup none)'
        BY <1>1, <2>1, <2>2, <3>1, <4>1, ChunkOK
      <4> QED BY <3>1, <4>2 DEF InOrder
    <3> QED BY <3>1
  <2>5. Raw' = Raw /\ Asked' = Asked /\ Stretches' = Stretches
    BY <1>1, <2>3, AskedKept
  <2>6. reply'.status = 200 \/ (reply'.status = 206 /\ Accepted')
    BY <1>2, <2>3, <2>5 DEF Accepted
  <2>7. Len(reply'.sent) + (server'.stop - server'.offset) = reply'.length
        /\ server'.offset <= server'.stop /\ Len(reply'.sent) <= reply'.length
    BY <1>2, <1>3, <2>1, <2>3
  <2>8. StreamInv'
    BY <1>2, <2>3, <2>4, <2>6, <2>7 DEF StreamInv
  <2>9. DoneInv'
    BY <1>1, <2>3, <2>7
       DEF DoneInv, BodyExact, Streamed, UnsatisfiableExact, UndisturbedComplete, At
  <2>10. ListingInv'
    BY <1>1, <2>3 DEF BodyInv, ListingInv
  <2> QED BY <1>1, <2>3, <2>8, <2>9, <2>10
          DEF BodyInv, Unsent, CoalesceInv, PartInv, At
<1> QED BY <1>4, <1>5

LEMMA StreamEndsOK ==
    ASSUME BodyInv, StreamEnds PROVE BodyInv'
<1>1. /\ At("stream") /\ server.offset >= server.stop
      /\ UNCHANGED <<fileVars, request, copy>>
      /\ Finish(Len(reply.sent) = reply.length)
  BY DEF StreamEnds
<1>2. /\ reply.status = 200 \/ (reply.status = 206 /\ Accepted)
      /\ \A k \in DOMAIN reply.sent : reply.sent[k].kind = "byte"
      /\ server.offset <= server.stop /\ InOrder(Current)
      /\ Len(reply.sent) + (server.stop - server.offset) = reply.length
  BY <1>1 DEF BodyInv, StreamInv
<1>3. /\ server.offset \in Nat /\ server.stop \in Nat /\ Len(reply.sent) \in Nat
      /\ reply.length \in Nat
  <2>1. server \in Server /\ reply \in Reply
    BY DEF BodyInv, TypeInv
  <2> QED BY <2>1 DEF Server, Reply
<1>4. server.stop = server.offset /\ Len(reply.sent) = reply.length /\ Current = {}
  BY <1>1, <1>2, <1>3 DEF Current
<1>5. Finish(TRUE)
  BY <1>1, <1>4 DEF Finish
<1>6. server'.repr = server.repr /\ reply'.status = reply.status /\ reply'.sent = reply.sent
  BY <1>5, FinishType DEF BodyInv
<1>7. Asked' = Asked /\ \A kind : Holding(kind)' = Holding(kind)
  BY <1>1, <1>6, AskedKept DEF Holding
<1>8. Holding("header") = {}
  BY <1>2 DEF Holding
<1>9. BodyExact'
  BY <1>2, <1>4, <1>6, <1>7, <1>8 DEF BodyExact, InOrder
<1>10. Len(reply.sent) <= reply.length
  BY <1>3, <1>4
<1>11. ASSUME NEW whole \in BOOLEAN, whole = TRUE PROVE BodyInv'
  <2>1. Finish(whole) /\ (~whole => server.disturbed)
    BY <1>5, <1>11
  <2> QED BY <1>1, <1>2, <1>9, <1>10, <2>1, FinishOK
<1> QED BY <1>11

\* A part's header, or the line break after it.
LEMMA FrameOK ==
    ASSUME BodyInv, UNCHANGED <<fileVars, request, copy>>,
           At("part") \/ At("partBody"),
           server' \in Server, server'.fd = server.fd, server'.repr = server.repr,
           server'.at \in {"part", "partBody"},
           NEW kind \in {"header", "crlf"}, Emit(<<Framing(kind)>>)
    PROVE  /\ TypeInv'
           /\ reply.sent \in Seq(Item) /\ reply'.sent = Append(reply.sent, Framing(kind))
           /\ Len(reply'.sent) = Len(reply.sent) + 1
           /\ reply'.status = reply.status /\ reply'.length = reply.length
           /\ reply'.listing = reply.listing
           /\ Raw' = Raw /\ Asked' = Asked /\ Stretches' = Stretches
<1>1. TypeInv /\ server.fd # NoFile
  BY DEF BodyInv, TypeInv, At
<1>2. Framing(kind) \in Item
  <2>1. 0 \in Version
    BY RespondAssumption DEF Version
  <2> QED BY <2>1 DEF Framing, Item
<1>3. <<Framing(kind)>> \in Seq(Item) /\ Len(<<Framing(kind)>>) = 1
  BY <1>2
<1>4. /\ TypeInv' /\ reply.sent \in Seq(Item)
      /\ reply'.sent = reply.sent \o <<Framing(kind)>>
      /\ Len(reply'.sent) = Len(reply.sent) + 1
      /\ reply'.status = reply.status /\ reply'.length = reply.length
      /\ reply'.listing = reply.listing
  <2> DEFINE items == <<Framing(kind)>>
  <2>1. items \in Seq(Item) /\ Len(items) = 1 /\ Emit(items)
        /\ server'.at \in {"stream", "part", "partBody"}
    BY <1>3
  <2> HIDE DEF items
  <2>2. /\ TypeInv' /\ reply.sent \in Seq(Item) /\ reply'.sent = reply.sent \o items
        /\ Len(reply'.sent) = Len(reply.sent) + 1
        /\ reply'.status = reply.status /\ reply'.length = reply.length
        /\ reply'.listing = reply.listing
    BY <1>1, <2>1, EmitType
  <2> QED BY <2>2 DEF items
<1>5. reply'.sent = Append(reply.sent, Framing(kind))
  <2>1. \A s \in Seq(Item), item \in Item : s \o <<item>> = Append(s, item)
    OBVIOUS
  <2> QED BY <1>2, <1>4, <2>1
<1>6. Raw' = Raw /\ Asked' = Asked /\ Stretches' = Stretches
  BY <1>4, AskedKept
<1> QED BY <1>4, <1>5, <1>6

\* The first range and the others.
LEMMA BytesOutTail ==
    ASSUME NEW ranges \in Seq(Stretch), ranges # <<>>, NEW len,
           Within(Range(ranges), len), Separated(ranges)
    PROVE  /\ BytesOut(ranges) = Bytes(ranges[1]) \cup BytesOut(Tail(ranges))
           /\ Separated(Tail(ranges))
           /\ \A k \in DOMAIN Tail(ranges) : ranges[1].end + 1 < Tail(ranges)[k].start
<1> DEFINE t == Tail(ranges)
           n == Len(ranges)
<1>1. /\ t \in Seq(Stretch) /\ Len(t) = n - 1 /\ n \in Nat /\ 1 \in 1..n
      /\ \A k \in 1..n - 1 : t[k] = ranges[k + 1]
  BY WithinTail
<1>2. DOMAIN ranges = 1..n
  OBVIOUS
<1> HIDE DEF t, n
<1>3. DOMAIN t = 1..n - 1
  BY <1>1
<1>4. \A k \in 1..n - 1 : k + 1 \in 1..n /\ 1 < k + 1
  BY <1>1
<1>5. \A k \in 1..n : k = 1 \/ (k - 1 \in 1..n - 1 /\ (k - 1) + 1 = k)
  BY <1>1
<1>6. \A b : b \in BytesOut(ranges) <=> b \in Bytes(ranges[1]) \cup BytesOut(t)
  <2>1. \A b : b \in BytesOut(ranges) <=> \E k \in 1..n : b \in Bytes(ranges[k])
    BY <1>2 DEF BytesOut
  <2>2. \A b : b \in BytesOut(t) <=> \E k \in 1..n - 1 : b \in Bytes(ranges[k + 1])
    BY <1>1, <1>3 DEF BytesOut
  <2>3. ASSUME NEW b, NEW k \in 1..n, b \in Bytes(ranges[k])
        PROVE  b \in Bytes(ranges[1]) \/ \E j \in 1..n - 1 : b \in Bytes(ranges[j + 1])
    <3>1. CASE k = 1
      BY <2>3, <3>1
    <3>2. CASE k # 1
      <4>1. k - 1 \in 1..n - 1 /\ (k - 1) + 1 = k
        BY <1>5, <3>2
      <4>2. b \in Bytes(ranges[(k - 1) + 1])
        BY <2>3, <4>1
      <4> QED BY <4>1, <4>2
    <3> QED BY <3>1, <3>2
  <2> QED BY <1>1, <1>4, <2>1, <2>2, <2>3
<1>7. BytesOut(ranges) = Bytes(ranges[1]) \cup BytesOut(t)
  BY <1>6
<1>8. Separated(t)
  <2> SUFFICES ASSUME NEW j \in 1..n - 1, NEW k \in 1..n - 1, j < k
               PROVE  t[j].end + 1 < t[k].start
    BY <1>3 DEF Separated
  <2>1. j + 1 \in 1..n /\ k + 1 \in 1..n /\ j + 1 < k + 1
    BY <1>4
  <2>2. ranges[j + 1].end + 1 < ranges[k + 1].start
    BY <1>2, <2>1 DEF Separated
  <2> QED BY <1>1, <2>2
<1>9. ASSUME NEW k \in DOMAIN t PROVE ranges[1].end + 1 < t[k].start
  <2>1. k \in 1..n - 1 /\ k + 1 \in 1..n /\ 1 < k + 1
    BY <1>3, <1>4
  <2>2. ranges[1].end + 1 < ranges[k + 1].start
    BY <1>1, <1>2, <2>1 DEF Separated
  <2> QED BY <1>1, <2>1, <2>2
<1> QED BY <1>7, <1>8, <1>9 DEF t

LEMMA NextPartOK ==
    ASSUME BodyInv, NextPart PROVE BodyInv'
<1> DEFINE ranges == server.ranges
           rest == Tail(server.ranges)
           r == server.ranges[1]
           len == server.repr.len
<1>1. /\ At("part") /\ ranges # <<>> /\ Emit(<<Framing("header")>>)
      /\ server' = [server EXCEPT !.at = "partBody", !.offset = r.start,
                                  !.stop = r.end + 1, !.ranges = rest]
      /\ UNCHANGED <<fileVars, request, copy>>
  BY DEF NextPart
<1>2. /\ reply.status = 206 /\ Accepted /\ DOMAIN Raw # {1} /\ Separated(ranges)
      /\ InOrder({} \cup BytesOut(ranges))
      /\ Cardinality(Holding("header")) + Len(ranges) = Stretches
      /\ Len(reply.sent) + 0 + MultipartLength(ranges) = reply.length
  BY <1>1 DEF BodyInv, PartInv
<1>3. server \in Server /\ reply \in Reply /\ ranges \in Seq(Stretch) /\ len \in Nat
  BY DEF BodyInv, TypeInv, Server, Repr
<1>4. Within(server.todo \cup Range(ranges), len)
  BY DEF BodyInv, RangesInv
<1>5. Within(Range(ranges), len)
  BY <1>4 DEF Within
<1> HIDE DEF ranges, rest, r, len
<1>6. /\ rest \in Seq(Stretch) /\ Within(Range(rest), len) /\ Len(rest) = Len(ranges) - 1
      /\ Len(ranges) \in Nat /\ r \in Stretch /\ r.start <= r.end /\ r.end < len
  BY <1>1, <1>3, <1>5, WithinTail DEF ranges, rest, r
<1>7. /\ BytesOut(ranges) = Bytes(r) \cup BytesOut(rest) /\ Separated(rest)
      /\ \A k \in DOMAIN rest : r.end + 1 < rest[k].start
  BY <1>1, <1>2, <1>3, <1>5, BytesOutTail DEF ranges, rest, r
<1>8. /\ MultipartLength(ranges) \in Nat /\ MultipartLength(rest) \in Nat
      /\ MultipartLength(ranges) = MultipartLength(rest) + 2 + ByteLen(r)
  BY <1>1, <1>3, <1>5, MultipartTail DEF ranges, rest, r
<1>9. r.start \in Nat /\ r.end \in Nat
  BY <1>6 DEF Stretch
<1>10. /\ server'.at = "partBody" /\ server'.fd = server.fd /\ server'.repr = server.repr
       /\ server'.offset = r.start /\ server'.stop = r.end + 1 /\ server'.ranges = rest
       /\ server'.todo = server.todo /\ server'.disturbed = server.disturbed
       /\ server' \in Server
  <2>1. /\ server'.at = "partBody" /\ server'.fd = server.fd /\ server'.repr = server.repr
        /\ server'.offset = r.start /\ server'.stop = r.end + 1 /\ server'.ranges = rest
        /\ server'.todo = server.todo /\ server'.disturbed = server.disturbed
    BY <1>1, <1>3 DEF Server
  <2>2. r.end + 1 \in Nat /\ "partBody" \in Stages
    BY <1>9 DEF Stages
  <2>3. server' \in Server
    BY <1>1, <1>3, <1>6, <1>9, <2>2 DEF Server
  <2> QED BY <2>1, <2>3
<1>11. /\ TypeInv'
       /\ reply.sent \in Seq(Item) /\ reply'.sent = Append(reply.sent, Framing("header"))
       /\ Len(reply'.sent) = Len(reply.sent) + 1
       /\ reply'.status = reply.status /\ reply'.length = reply.length
       /\ reply'.listing = reply.listing
       /\ Raw' = Raw /\ Asked' = Asked /\ Stretches' = Stretches
  BY <1>1, <1>10, FrameOK
<1>12. ASSUME NEW ahead, ahead = {} \cup BytesOut(ranges)
       PROVE  /\ InOrder(ahead)'
              /\ Holding("header")' = Holding("header") \cup {Len(reply.sent) + 1}
  <2>1. InOrder(ahead)
    BY <1>2, <1>12
  <2> QED BY <1>11, <2>1, InOrderFrame
<1>13. Cardinality(Holding("header")') = Cardinality(Holding("header")) + 1
       /\ Cardinality(Holding("header")) \in Nat
  <2> DEFINE n == Len(reply.sent)
  <2>1. n \in Nat /\ Holding("header") \subseteq 1..n
    BY <1>11 DEF Holding
  <2>2. IsFiniteSet(1..n)
    BY <2>1, FS_Interval
  <2>3. IsFiniteSet(Holding("header"))
    BY <2>1, <2>2, FS_Subset
  <2>4. n + 1 \notin Holding("header")
    BY <2>1
  <2> HIDE DEF n
  <2>5. Holding("header")' = Holding("header") \cup {n + 1}
    BY <1>12 DEF n
  <2>6. Cardinality(Holding("header") \cup {n + 1}) = Cardinality(Holding("header")) + 1
    BY <2>3, <2>4, FS_AddElement
  <2> QED BY <2>3, <2>5, <2>6, FS_CardinalityType
<1>14. InOrder(Current \cup BytesOut(server.ranges))'
  <2>1. ASSUME NEW s, s = {} \cup BytesOut(ranges)
        PROVE  InOrder(Current \cup BytesOut(server.ranges))'
    <3>1. InOrder(s)'
      BY <1>12, <2>1
    <3>2. Current' = Bytes(r)
      <4>1. (r.end + 1) - 1 = r.end
        BY <1>9
      <4> QED BY <1>10, <4>1 DEF Current, Bytes
    <3>3. s = Current' \cup BytesOut(server'.ranges)
      BY <1>7, <1>10, <2>1, <3>2
    <3> QED BY <3>1, <3>3 DEF InOrder
  <2> QED BY <2>1
<1>15. server'.offset <= server'.stop /\ server'.stop <= server'.repr.len
       /\ \A k \in DOMAIN server'.ranges : server'.stop < server'.ranges[k].start
  BY <1>3, <1>6, <1>7, <1>9, <1>10 DEF len
<1>16. Cardinality(Holding("header")') + Len(server'.ranges) = Stretches'
  <2> DEFINE headers == Cardinality(Holding("header"))
             headers1 == Cardinality(Holding("header")')
             parts == Len(ranges)
             parts1 == Len(server'.ranges)
  <2>1. /\ headers \in Nat /\ headers1 = headers + 1
        /\ parts \in Nat /\ parts1 = parts - 1
        /\ headers + parts = Stretches /\ Stretches' = Stretches
    BY <1>2, <1>6, <1>10, <1>11, <1>13
  <2> HIDE DEF headers, headers1, parts, parts1
  <2>2. headers1 + parts1 = Stretches'
    BY <2>1
  <2> QED BY <2>2 DEF headers1, parts1
<1>17. /\ Len(reply'.sent) + (server'.stop - server'.offset + 1)
             + MultipartLength(server'.ranges) = reply'.length
       /\ Len(reply'.sent) <= reply'.length
  <2>1. Len(reply.sent) \in Nat /\ reply.length \in Nat
    BY <1>3, <1>11 DEF Reply
  <2> DEFINE sent == Len(reply.sent)
             sent1 == Len(reply'.sent)
             total == MultipartLength(ranges)
             total1 == MultipartLength(server'.ranges)
  <2>2. /\ sent1 = sent + 1 /\ sent + 0 + total = reply.length /\ reply'.length = reply.length
        /\ sent \in Nat /\ total \in Nat /\ total1 \in Nat
        /\ total = total1 + 2 + (r.end - r.start + 1)
    BY <1>2, <1>8, <1>10, <1>11, <2>1 DEF ByteLen
  <2>3. server'.stop = r.end + 1 /\ server'.offset = r.start
    BY <1>10
  <2> HIDE DEF sent, sent1, total, total1
  <2>4. /\ sent1 + (server'.stop - server'.offset + 1) + total1 = reply'.length
        /\ sent1 <= reply'.length
    <3> DEFINE first == r.start
               last == r.end
    <3>1. first \in Nat /\ last \in Nat /\ first <= last
      BY <1>6, <1>9
    <3>2. /\ sent1 = sent + 1 /\ sent + 0 + total = reply.length
          /\ reply'.length = reply.length /\ reply.length \in Nat
          /\ sent \in Nat /\ total \in Nat /\ total1 \in Nat
          /\ total = total1 + 2 + (last - first + 1)
          /\ server'.stop = last + 1 /\ server'.offset = first
      BY <2>1, <2>2, <2>3
    <3> HIDE DEF first, last
    <3> QED BY ONLY <3>1, <3>2
  <2> QED BY <2>4 DEF sent1, total1
<1>18. PartInv'
  <2>1. reply'.status = 206 /\ Accepted' /\ DOMAIN Raw' # {1}
    BY <1>2, <1>11 DEF Accepted
  <2> QED BY <1>7, <1>10, <1>14, <1>15, <1>16, <1>17, <2>1 DEF PartInv, At
<1>19. LengthInv'
  BY <1>1, <1>10 DEF BodyInv, LengthInv, fileVars
<1>20. RangesInv'
  BY <1>4, <1>6, <1>10 DEF RangesInv, Within, len
<1>21. DoneInv'
  BY <1>10, <1>17
     DEF DoneInv, BodyExact, Streamed, UnsatisfiableExact, UndisturbedComplete, At
<1>22. ListingInv'
  BY <1>1, <1>11 DEF BodyInv, ListingInv
<1> QED BY <1>10, <1>11, <1>18, <1>19, <1>20, <1>21, <1>22
        DEF BodyInv, Unsent, CoalesceInv, StreamInv, At

\* What there is between the parts of a body, and in one.
LEMMA PartIs ==
    ASSUME BodyInv, At("partBody")
    PROVE  /\ reply.status = 206 /\ Accepted /\ DOMAIN Raw # {1}
           /\ Separated(server.ranges)
           /\ server.offset <= server.stop /\ server.stop <= server.repr.len
           /\ \A k \in DOMAIN server.ranges : server.stop < server.ranges[k].start
           /\ InOrder(Current \cup BytesOut(server.ranges))
           /\ Cardinality(Holding("header")) + Len(server.ranges) = Stretches
           /\ Len(reply.sent) + (server.stop - server.offset + 1)
                + MultipartLength(server.ranges) = reply.length
           /\ server.offset \in Nat /\ server.stop \in Nat /\ server.repr.len \in Nat
           /\ Len(reply.sent) \in Nat /\ reply.length \in Nat
           /\ server.ranges \in Seq(Stretch) /\ MultipartLength(server.ranges) \in Nat
           /\ \A b \in BytesOut(server.ranges) : b \in Nat /\ b >= server.stop
<1>1. /\ reply.status = 206 /\ Accepted /\ DOMAIN Raw # {1}
      /\ Separated(server.ranges)
      /\ server.offset <= server.stop /\ server.stop <= server.repr.len
      /\ \A k \in DOMAIN server.ranges : server.stop < server.ranges[k].start
      /\ InOrder(Current \cup BytesOut(server.ranges))
      /\ Cardinality(Holding("header")) + Len(server.ranges) = Stretches
      /\ Len(reply.sent) + (server.stop - server.offset + 1)
           + MultipartLength(server.ranges) = reply.length
  BY DEF BodyInv, PartInv, At
<1>2. server \in Server /\ reply \in Reply
  BY DEF BodyInv, TypeInv
<1>3. /\ server.offset \in Nat /\ server.stop \in Nat /\ server.repr.len \in Nat
      /\ Len(reply.sent) \in Nat /\ reply.length \in Nat /\ server.ranges \in Seq(Stretch)
  BY <1>2 DEF Server, Repr, Reply
<1>4. Within(Range(server.ranges), server.repr.len)
  BY DEF BodyInv, RangesInv, Within
<1>5. MultipartLength(server.ranges) \in Nat
  <2>1. CASE server.ranges = <<>>
    BY <2>1, MultipartEmpty
  <2>2. CASE server.ranges # <<>>
    BY <1>3, <1>4, <2>2, MultipartTail
  <2> QED BY <2>1, <2>2
<1>6. ASSUME NEW b \in BytesOut(server.ranges) PROVE b \in Nat /\ b >= server.stop
  <2>1. PICK k \in DOMAIN server.ranges : b \in Bytes(server.ranges[k])
    BY DEF BytesOut
  <2>2. server.ranges[k] \in Stretch /\ server.stop < server.ranges[k].start
    BY <1>1, <1>3
  <2> QED BY <1>3, <2>1, <2>2 DEF Bytes, Stretch
<1> QED BY <1>1, <1>3, <1>5, <1>6

LEMMA PartBodyOK ==
    ASSUME BodyInv, PartBody PROVE BodyInv'
<1> DEFINE want == Lesser(ChunkSize, server.stop - server.offset)
           left == BytesOut(server.ranges)
<1>1. /\ At("partBody") /\ server.offset < server.stop
      /\ UNCHANGED <<fileVars, request, copy>>
      /\ IF Available < want THEN Finish(FALSE)
         ELSE /\ Emit(Slice(server.fd, server.offset, want))
              /\ server' = [server EXCEPT !.offset = server.offset + want]
  BY DEF PartBody
<1>2. /\ reply.status = 206 /\ Accepted /\ DOMAIN Raw # {1} /\ Separated(server.ranges)
      /\ server.stop <= server.repr.len
      /\ \A k \in DOMAIN server.ranges : server.stop < server.ranges[k].start
      /\ InOrder(Current \cup left)
      /\ Cardinality(Holding("header")) + Len(server.ranges) = Stretches
      /\ Len(reply.sent) + (server.stop - server.offset + 1)
           + MultipartLength(server.ranges) = reply.length
      /\ server.offset \in Nat /\ server.stop \in Nat
      /\ Len(reply.sent) \in Nat /\ reply.length \in Nat
      /\ MultipartLength(server.ranges) \in Nat
      /\ \A b \in left : b \in Nat /\ b >= server.stop
  BY <1>1, PartIs
<1>3. Available \in Nat /\ ChunkSize \in Nat \ {0}
  BY <1>1, AvailableType, RespondAssumption
<1>4. CASE Available < want
  <2>1. Finish(FALSE)
    BY <1>1, <1>4
  <2>2. Available < server.stop - server.offset
    BY <1>1, <1>2, <1>3, <1>4 DEF Lesser
  <2>3. server.disturbed
    BY <1>1, <1>2, <2>2, ReadMisses
  <2>4. ~reply'.whole
    BY <2>1, FinishType DEF BodyInv
  <2>5. BodyExact'
    BY <2>4 DEF BodyExact, Streamed
  <2>6. Len(reply.sent) <= reply.length
    BY <1>1, <1>2
  <2> QED BY <1>1, <1>2, <2>1, <2>3, <2>5, <2>6, FinishOK
<1>5. CASE ~(Available < want)
  <2>1. want \in Nat /\ server.offset + want <= server.stop
    BY <1>1, <1>2, <1>3 DEF Lesser
  <2>2. Emit(Slice(server.fd, server.offset, want))
        /\ server' = [server EXCEPT !.offset = server.offset + want]
    BY <1>1, <1>5
  <2> HIDE DEF want
  <2>3. /\ TypeInv' /\ LengthInv' /\ RangesInv'
        /\ server'.at = server.at /\ server'.repr = server.repr /\ server'.fd = server.fd
        /\ server'.ranges = server.ranges /\ server'.stop = server.stop
        /\ server'.offset = server.offset + want
        /\ server'.disturbed = server.disturbed
        /\ reply'.status = reply.status /\ reply'.length = reply.length
        /\ reply'.listing = reply.listing
        /\ Len(reply'.sent) = Len(reply.sent) + want
        /\ Holding("header")' = Holding("header")
    BY <1>1, <2>1, <2>2, ChunkOK
  <2>4. InOrder(Current \cup BytesOut(server.ranges))'
    <3>1. ASSUME NEW s, s = left PROVE InOrder(Current \cup BytesOut(server.ranges))'
      <4>1. InOrder(Current \cup s) /\ \A b \in s : b \in Nat /\ b >= server.stop
        BY <1>2, <3>1
      <4>2. InOrder(Current \cup s)'
        BY <1>1, <2>1, <2>2, <4>1, ChunkOK
      <4>3. s = BytesOut(server'.ranges)
        BY <2>3, <3>1
      <4> QED BY <4>2, <4>3 DEF InOrder
    <3> QED BY <3>1
  <2>5. Raw' = Raw /\ Asked' = Asked /\ Stretches' = Stretches
    BY <1>1, <2>3, AskedKept
  <2>6. /\ Len(reply'.sent) + (server'.stop - server'.offset + 1)
             + MultipartLength(server'.ranges) = reply'.length
        /\ server'.offset <= server'.stop /\ Len(reply'.sent) <= reply'.length
    <3> DEFINE total == MultipartLength(server.ranges)
               sent == Len(reply.sent)
    <3>1. /\ total \in Nat /\ sent \in Nat
          /\ sent + (server.stop - server.offset + 1) + total = reply.length
          /\ MultipartLength(server'.ranges) = total
          /\ Len(reply'.sent) = sent + want
      BY <1>2, <2>3
    <3> DEFINE off == server.offset
               stop == server.stop
    <3>2. /\ off \in Nat /\ stop \in Nat /\ want \in Nat /\ off + want <= stop
          /\ sent + (stop - off + 1) + total = reply.length
          /\ server'.offset = off + want /\ server'.stop = stop
          /\ reply'.length = reply.length /\ reply.length \in Nat
      BY <1>2, <2>1, <2>3, <3>1
    <3> HIDE DEF total, sent, off, stop
    <3>3. sent + want + (stop - (off + want) + 1) + total = reply.length
          /\ off + want <= stop /\ sent + want <= reply.length
      BY ONLY <3>1, <3>2
    <3> QED BY ONLY <3>1, <3>2, <3>3
  <2>7. PartInv'
    <3>1. /\ reply'.status = 206 /\ Accepted' /\ DOMAIN Raw' # {1}
          /\ Cardinality(Holding("header")') + Len(server'.ranges) = Stretches'
      BY <1>2, <2>3, <2>5 DEF Accepted
    <3> QED BY <1>1, <1>2, <2>3, <2>4, <2>6, <3>1 DEF PartInv, At
  <2>8. DoneInv'
    BY <1>1, <2>3, <2>6
       DEF DoneInv, BodyExact, Streamed, UnsatisfiableExact, UndisturbedComplete, At
  <2>9. ListingInv'
    BY <1>1, <2>3 DEF BodyInv, ListingInv
  <2> QED BY <1>1, <2>3, <2>7, <2>8, <2>9
          DEF BodyInv, Unsent, CoalesceInv, StreamInv, At
<1> QED BY <1>4, <1>5

LEMMA PartTrailerOK ==
    ASSUME BodyInv, PartTrailer PROVE BodyInv'
<1>1. /\ At("partBody") /\ server.offset >= server.stop /\ Emit(<<Framing("crlf")>>)
      /\ server' = [server EXCEPT !.at = "part"] /\ UNCHANGED <<fileVars, request, copy>>
  BY DEF PartTrailer
<1>2. /\ reply.status = 206 /\ Accepted /\ DOMAIN Raw # {1} /\ Separated(server.ranges)
      /\ server.offset <= server.stop
      /\ InOrder(Current \cup BytesOut(server.ranges))
      /\ Cardinality(Holding("header")) + Len(server.ranges) = Stretches
      /\ Len(reply.sent) + (server.stop - server.offset + 1)
           + MultipartLength(server.ranges) = reply.length
      /\ server.offset \in Nat /\ server.stop \in Nat
      /\ Len(reply.sent) \in Nat /\ reply.length \in Nat
      /\ MultipartLength(server.ranges) \in Nat
  BY <1>1, PartIs
<1>3. server.stop - server.offset = 0 /\ Current = {}
  BY <1>1, <1>2 DEF Current
<1>4. server \in Server
  BY DEF BodyInv, TypeInv
<1>5. /\ server'.at = "part" /\ server'.fd = server.fd /\ server'.repr = server.repr
      /\ server'.ranges = server.ranges /\ server'.todo = server.todo
      /\ server'.disturbed = server.disturbed /\ server' \in Server
  BY <1>1, <1>4 DEF Server, Stages
<1>6. /\ TypeInv' /\ reply.sent \in Seq(Item)
      /\ reply'.sent = Append(reply.sent, Framing("crlf"))
      /\ Len(reply'.sent) = Len(reply.sent) + 1
      /\ reply'.status = reply.status /\ reply'.length = reply.length
      /\ reply'.listing = reply.listing
      /\ Raw' = Raw /\ Asked' = Asked /\ Stretches' = Stretches
  BY <1>1, <1>5, FrameOK
<1>7. InOrder({} \cup BytesOut(server.ranges))' /\ Holding("header")' = Holding("header")
  <2>1. ASSUME NEW s, s = Current \cup BytesOut(server.ranges)
        PROVE  InOrder({} \cup BytesOut(server.ranges))' /\ Holding("header")' = Holding("header")
    <3>1. InOrder(s)
      BY <1>2, <2>1
    <3>2. InOrder(s)' /\ Holding("header")' = Holding("header")
      BY <1>6, <3>1, InOrderFrame
    <3>3. s = {} \cup BytesOut(server'.ranges)
      BY <1>3, <1>5, <2>1
    <3> QED BY <3>2, <3>3 DEF InOrder
  <2> QED BY <2>1
<1>8. Len(reply'.sent) + 0 + MultipartLength(server'.ranges) = reply'.length
      /\ Len(reply'.sent) <= reply'.length
  <2> DEFINE total == MultipartLength(server.ranges)
             sent == Len(reply.sent)
  <2>1. /\ total \in Nat /\ sent \in Nat /\ sent + (0 + 1) + total = reply.length
        /\ MultipartLength(server'.ranges) = total /\ Len(reply'.sent) = sent + 1
        /\ reply'.length = reply.length /\ reply.length \in Nat
    BY <1>2, <1>3, <1>5, <1>6
  <2> HIDE DEF total, sent
  <2> QED BY <2>1
<1>9. PartInv'
  <2>1. /\ reply'.status = 206 /\ Accepted' /\ DOMAIN Raw' # {1}
        /\ Cardinality(Holding("header")') + Len(server'.ranges) = Stretches'
    BY <1>2, <1>5, <1>6, <1>7 DEF Accepted
  <2> QED BY <1>2, <1>5, <1>7, <1>8, <2>1 DEF PartInv, At
<1>10. LengthInv' /\ RangesInv'
  BY <1>1, <1>5 DEF BodyInv, LengthInv, RangesInv, fileVars
<1>11. DoneInv'
  BY <1>5, <1>8
     DEF DoneInv, BodyExact, Streamed, UnsatisfiableExact, UndisturbedComplete, At
<1>12. ListingInv'
  BY <1>1, <1>6 DEF BodyInv, ListingInv
<1> QED BY <1>5, <1>6, <1>9, <1>10, <1>11, <1>12
        DEF BodyInv, Unsent, CoalesceInv, StreamInv, At

LEMMA FinalBoundaryOK ==
    ASSUME BodyInv, FinalBoundary PROVE BodyInv'
<1>1. /\ At("part") /\ server.ranges = <<>> /\ Done
      /\ reply' = [reply EXCEPT !.sent = Append(reply.sent, Framing("final")),
                                !.whole = Len(reply.sent) + 1 = reply.length]
      /\ UNCHANGED <<fileVars, request, copy>>
  BY DEF FinalBoundary
<1>2. /\ reply.status = 206 /\ Accepted /\ InOrder({} \cup BytesOut(<<>>))
      /\ Cardinality(Holding("header")) + Len(<<>>) = Stretches
      /\ Len(reply.sent) + 0 + MultipartLength(<<>>) = reply.length
  BY <1>1 DEF BodyInv, PartInv
<1>3. reply \in Reply /\ TypeInv
  BY DEF BodyInv, TypeInv
<1>4. reply.sent \in Seq(Item) /\ Len(reply.sent) \in Nat /\ reply.length \in Nat
  BY <1>3 DEF Reply
<1>5. Len(reply.sent) + 1 = reply.length
  BY <1>2, <1>4, MultipartEmpty
<1>6. Framing("final") \in Item
  <2>1. 0 \in Version
    BY RespondAssumption DEF Version
  <2> QED BY <2>1 DEF Framing, Item
<1>7. /\ Append(reply.sent, Framing("final")) \in Seq(Item)
      /\ Len(Append(reply.sent, Framing("final"))) = Len(reply.sent) + 1
  BY <1>4, <1>6
<1>8. /\ reply'.sent = Append(reply.sent, Framing("final")) /\ reply'.whole
      /\ reply'.status = reply.status /\ reply'.length = reply.length
      /\ reply'.listing = reply.listing /\ reply' \in Reply
  BY <1>1, <1>3, <1>5, <1>7 DEF Reply
<1>9. /\ server' \in Server /\ server'.at = "done" /\ server'.fd = NoFile
      /\ server'.repr = server.repr /\ server'.disturbed = server.disturbed
      /\ server'.ranges = <<>> /\ server'.todo = {}
  BY <1>1, <1>3, DoneType
<1>10. TypeInv'
  BY <1>1, <1>3, <1>8, <1>9, TypeKept
<1>11. Raw' = Raw /\ Asked' = Asked /\ Stretches' = Stretches
  BY <1>1, <1>8, <1>9, AskedKept
<1>12. InOrder({})' /\ Holding("header")' = Holding("header")
  <2>1. InOrder({})
    BY <1>2 DEF InOrder, BytesOut
  <2> QED BY <1>4, <1>8, <1>11, <2>1, InOrderFrame
<1>13. BodyExact'
  <2>1. Cardinality(Holding("header")) = Stretches
    <3>1. Holding("header") \subseteq 1..Len(reply.sent)
      BY <1>4 DEF Holding
    <3>2. Cardinality(Holding("header")) \in Nat
      <4>1. IsFiniteSet(1..Len(reply.sent))
        BY <1>4, FS_Interval
      <4> QED BY <3>1, <4>1, FS_Subset, FS_CardinalityType
    <3>3. Len(<<>>) = 0
      OBVIOUS
    <3> QED BY <1>2, <3>2, <3>3
  <2>2. Cardinality(Holding("header")') = Stretches'
    BY <1>11, <1>12, <2>1
  <2>3. /\ {reply'.sent[k].pos : k \in Holding("byte")'} = Asked'
        /\ \A j, k \in Holding("byte")' : j < k => reply'.sent[j].pos < reply'.sent[k].pos
    BY <1>12 DEF InOrder
  <2> QED BY <2>2, <2>3 DEF BodyExact
<1>14. UnsatisfiableExact'
  BY <1>2, <1>8, <1>11 DEF UnsatisfiableExact, Accepted, Raw
<1>15. UndisturbedComplete' /\ Len(reply'.sent) <= reply'.length
  BY <1>4, <1>5, <1>7, <1>8 DEF UndisturbedComplete
<1>16. ListingInv'
  BY <1>1, <1>8 DEF BodyInv, ListingInv
<1> QED BY <1>9, <1>10, <1>13, <1>14, <1>15, <1>16, OverOK DEF DoneInv

-----------------------------------------------------------------------------
(* Everybody else.                                                         *)

LEMMA WrittenShape ==
    ASSUME TypeInv, NEW i \in 1..Len(files) + 1, NEW len \in WriteLengths,
           NEW mtime \in Nat, Written(i, len, mtime)
    PROVE  /\ files' \in Seq(Inode) /\ Len(files') \in Nat
           /\ DOMAIN files' = 1..Len(files') /\ DOMAIN files = 1..Len(files)
           /\ Len(files) <= Len(files') /\ Len(files') <= Len(files) + 1
           /\ i \in 1..Len(files')
           /\ i = Len(files) + 1 => Len(files') = Len(files) + 1
           /\ files'[i] = [len |-> len, of |-> version + 1, mtime |-> mtime]
           /\ \A j \in 1..Len(files') : j # i => j \in 1..Len(files) /\ files'[j] = files[j]
           /\ version' = version + 1 /\ version' \in Version /\ version \in Nat
           /\ UNCHANGED <<request, reply, copy>>
           /\ server' \in Server
           /\ server' = [server EXCEPT !.disturbed = server.disturbed \/ i = server.fd]
<1> DEFINE n == Len(files)
           new == [len |-> len, of |-> version + 1, mtime |-> mtime]
<1>1. /\ version < MaxWrites /\ version' = version + 1
      /\ files' = [j \in DOMAIN files \cup {i} |-> IF j = i THEN new ELSE files[j]]
      /\ server' = [server EXCEPT !.disturbed = server.disturbed \/ i = server.fd]
      /\ UNCHANGED <<request, reply, copy>>
  BY DEF Written
<1>2. /\ n \in Nat /\ DOMAIN files = 1..n /\ version \in Version /\ server \in Server
      /\ \A j \in 1..n : files[j] \in Inode
  BY DEF TypeInv
<1>3. /\ version \in Nat /\ version + 1 \in Version
  <2>1. MaxWrites \in Nat
    BY RespondAssumption
  <2> QED BY <1>1, <1>2, <2>1 DEF Version
<1>4. new \in Inode
  BY <1>3 DEF Inode
<1> HIDE DEF new, n
<1>5. i \in 1..n + 1
  BY DEF n
<1> DEFINE m == IF i = n + 1 THEN n + 1 ELSE n
<1>6. m \in Nat /\ n <= m /\ m <= n + 1 /\ i \in 1..m /\ (i = n + 1 => m = n + 1)
      /\ \A j : j \in 1..m <=> j \in 1..n \/ j = i
  BY <1>2, <1>5
<1> HIDE DEF m
<1>7. 1..m = (1..n) \cup {i}
  BY <1>6
<1>8. files' = [j \in 1..m |-> IF j = i THEN new ELSE files[j]]
  BY <1>1, <1>2, <1>7
<1>9. \A j \in 1..m : j # i => j \in 1..n
  BY <1>6
<1>10. files' \in [1..m -> Inode]
  BY <1>2, <1>4, <1>8, <1>9
<1>11. files' \in Seq(Inode) /\ Len(files') = m /\ DOMAIN files' = 1..m
  BY <1>6, <1>10
<1>12. files'[i] = new /\ \A j \in 1..m : j # i => files'[j] = files[j]
  BY <1>6, <1>8
<1>13. server' \in Server
  <2>1. (server.disturbed \/ i = server.fd) \in BOOLEAN
    OBVIOUS
  <2> QED BY <1>1, <1>2, <2>1 DEF Server
<1>14. /\ files' \in Seq(Inode) /\ Len(files') \in Nat
       /\ DOMAIN files' = 1..Len(files') /\ DOMAIN files = 1..Len(files)
       /\ Len(files) <= Len(files') /\ Len(files') <= Len(files) + 1
       /\ i \in 1..Len(files')
       /\ i = Len(files) + 1 => Len(files') = Len(files) + 1
  BY <1>2, <1>6, <1>11 DEF n
<1>15. \A j \in 1..Len(files') : j # i => j \in 1..Len(files) /\ files'[j] = files[j]
  BY <1>9, <1>11, <1>12 DEF n
<1> QED BY <1>1, <1>3, <1>11, <1>12, <1>13, <1>14, <1>15 DEF new

\* Nothing but the file's length matters to the response.
LEMMA BodyKept ==
    ASSUME BodyInv, TypeInv', LengthInv', UNCHANGED <<request, reply>>,
           NEW disturbed \in BOOLEAN, server.disturbed => disturbed,
           server' = [server EXCEPT !.disturbed = disturbed]
    PROVE  BodyInv'
<1>1. server \in Server
  BY DEF BodyInv, TypeInv
<1>2. /\ server'.at = server.at /\ server'.repr = server.repr /\ server'.fd = server.fd
      /\ server'.todo = server.todo /\ server'.ranges = server.ranges
      /\ server'.offset = server.offset /\ server'.stop = server.stop
      /\ server'.disturbed = disturbed
  BY <1>1 DEF Server
<1>3. request' = request /\ reply' = reply
  OBVIOUS
<1>4. Raw' = Raw /\ Asked' = Asked /\ Stretches' = Stretches
  BY <1>2, <1>3, AskedKept
<1>5. /\ Current' = Current /\ (Accepted' <=> Accepted)
      /\ \A stage : At(stage)' <=> At(stage)
  BY <1>2, <1>4 DEF Current, Accepted, At
<1>6. \A kind : Holding(kind)' = Holding(kind)
  BY <1>3 DEF Holding
<1>7. \A s : InOrder(s) => InOrder(s)'
  BY <1>3, <1>4, <1>6 DEF InOrder
<1>8. Unsent' /\ RangesInv'
  BY <1>2, <1>3 DEF BodyInv, Unsent, RangesInv, At
<1>9. CoalesceInv'
  BY <1>2, <1>4 DEF BodyInv, CoalesceInv, At
<1>10. StreamInv'
  <2> SUFFICES ASSUME At("stream") PROVE StreamInv'
    BY <1>5 DEF StreamInv
  <2>1. /\ reply.status = 200 \/ (reply.status = 206 /\ Accepted)
        /\ \A k \in DOMAIN reply.sent : reply.sent[k].kind = "byte"
        /\ server.offset <= server.stop /\ server.stop <= server.repr.len
        /\ InOrder(Current)
        /\ Len(reply.sent) + (server.stop - server.offset) = reply.length
    BY DEF BodyInv, StreamInv
  <2>2. ASSUME NEW s, s = Current PROVE InOrder(Current)'
    <3>1. InOrder(s)'
      BY <1>7, <2>1, <2>2
    <3> QED BY <1>5, <2>2, <3>1 DEF InOrder
  <2> QED BY <1>2, <1>3, <1>5, <2>1, <2>2 DEF StreamInv
<1>11. PartInv'
  <2> DEFINE current == IF At("part") THEN {} ELSE Current
             rest == IF At("part") THEN 0 ELSE server.stop - server.offset + 1
             ahead == current \cup BytesOut(server.ranges)
  <2> SUFFICES ASSUME At("part") \/ At("partBody") PROVE PartInv'
    BY <1>5 DEF PartInv
  <2>1. /\ reply.status = 206 /\ Accepted /\ DOMAIN Raw # {1}
        /\ Separated(server.ranges)
        /\ At("partBody") =>
              /\ server.offset <= server.stop
              /\ server.stop <= server.repr.len
              /\ \A k \in DOMAIN server.ranges : server.stop < server.ranges[k].start
        /\ InOrder(ahead)
        /\ Cardinality(Holding("header")) + Len(server.ranges) = Stretches
        /\ Len(reply.sent) + rest + MultipartLength(server.ranges) = reply.length
    BY DEF BodyInv, PartInv
  <2>2. ASSUME NEW s, s = ahead
        PROVE  InOrder((IF At("part") THEN {} ELSE Current) \cup BytesOut(server.ranges))'
    <3>1. InOrder(s)'
      BY <1>7, <2>1, <2>2
    <3> QED BY <1>2, <1>5, <2>2, <3>1 DEF InOrder
  <2>3. /\ reply'.status = 206 /\ Accepted' /\ DOMAIN Raw' # {1} /\ Separated(server'.ranges)
        /\ At("partBody")' =>
              /\ server'.offset <= server'.stop
              /\ server'.stop <= server'.repr.len
              /\ \A k \in DOMAIN server'.ranges : server'.stop < server'.ranges[k].start
    BY <1>2, <1>3, <1>4, <1>5, <2>1
  <2>4. Cardinality(Holding("header")') + Len(server'.ranges) = Stretches'
    BY <1>2, <1>4, <1>6, <2>1
  <2>5. Len(reply'.sent)
          + (IF At("part")' THEN 0 ELSE server'.stop - server'.offset + 1)
          + MultipartLength(server'.ranges) = reply'.length
    BY <1>2, <1>3, <1>5, <2>1
  <2> QED BY <2>2, <2>3, <2>4, <2>5 DEF PartInv
<1>12. DoneInv'
  <2>1. BodyExact'
    BY <1>3, <1>4, <1>5, <1>6 DEF BodyInv, DoneInv, BodyExact, Streamed
  <2>2. UnsatisfiableExact'
    BY <1>3, <1>4, <1>5 DEF BodyInv, DoneInv, UnsatisfiableExact, Raw
  <2>3. UndisturbedComplete'
    BY <1>2, <1>3, <1>5 DEF BodyInv, DoneInv, UndisturbedComplete
  <2> QED BY <1>3, <2>1, <2>2, <2>3 DEF BodyInv, DoneInv
<1>13. ListingInv'
  BY <1>3 DEF BodyInv, ListingInv
<1> QED BY <1>8, <1>9, <1>10, <1>11, <1>12, <1>13 DEF BodyInv

LEMMA WriteType ==
    ASSUME TypeInv, NEW i \in 1..Len(files) + 1, NEW len \in WriteLengths,
           NEW tick \in Later, NEW mtime \in {0, tick}, Written(i, len, mtime),
           now' = tick, named' \in 1..Len(files')
    PROVE  /\ TypeInv' /\ mtime \in Nat /\ tick \in Nat /\ now < tick
           /\ stale' = (stale \/ Second(mtime) <= Second(files[named].mtime))
<1>1. now \in Nat /\ TicksPerSecond \in Nat
  BY RespondAssumption DEF TypeInv
<1>2. tick \in Nat /\ mtime \in Nat /\ now < tick /\ mtime <= tick
  BY <1>1 DEF Later
<1>3. /\ files' \in Seq(Inode) /\ Len(files') \in Nat
      /\ DOMAIN files' = 1..Len(files') /\ DOMAIN files = 1..Len(files)
      /\ Len(files) <= Len(files') /\ Len(files') <= Len(files) + 1
      /\ i \in 1..Len(files')
      /\ files'[i] = [len |-> len, of |-> version + 1, mtime |-> mtime]
      /\ \A j \in 1..Len(files') : j # i => j \in 1..Len(files) /\ files'[j] = files[j]
      /\ version' = version + 1 /\ version' \in Version /\ version \in Nat
      /\ UNCHANGED <<request, reply, copy>>
      /\ server' \in Server
      /\ server' = [server EXCEPT !.disturbed = server.disturbed \/ i = server.fd]
  BY <1>2, WrittenShape
<1>4. stale' = (stale \/ Second(mtime) <= Second(files[named].mtime))
  BY DEF Written
<1>5. server'.fd = server.fd /\ server'.at = server.at
  <2>1. server \in Server
    BY DEF TypeInv
  <2> QED BY <1>3, <2>1 DEF Server
<1>6. ASSUME NEW j \in DOMAIN files' PROVE files'[j].mtime <= now'
  <2>1. CASE j = i
    BY <1>2, <1>3, <2>1
  <2>2. CASE j # i
    <3>1. j \in DOMAIN files /\ files'[j] = files[j]
      BY <1>3, <2>2
    <3>2. files[j].mtime <= now /\ files[j].mtime \in Nat
      <4>1. files[j] \in Inode
        BY <3>1 DEF TypeInv
      <4> QED BY <3>1, <4>1 DEF TypeInv, Inode
    <3> QED BY <1>1, <1>2, <3>1, <3>2
  <2> QED BY <2>1, <2>2
<1>7. Len(files') <= version' + 1
  <2>1. Len(files) <= version + 1 /\ Len(files) \in Nat
    BY DEF TypeInv
  <2> QED BY <1>3, <2>1
<1>8. server'.fd \in 1..Len(files') \cup {NoFile}
  <2>1. server.fd \in 1..Len(files) \cup {NoFile} /\ Len(files) \in Nat
    BY DEF TypeInv
  <2> QED BY <1>3, <1>5, <2>1
<1>9. stale' \in BOOLEAN
  BY <1>4
<1>10. TypeInv'
  BY <1>2, <1>3, <1>5, <1>6, <1>7, <1>8, <1>9 DEF TypeInv
<1> QED BY <1>2, <1>4, <1>10

LEMMA WriteOK ==
    ASSUME BodyInv, NEW i \in 1..Len(files) + 1, NEW len \in WriteLengths,
           NEW tick \in Later, NEW mtime \in {0, tick}, Written(i, len, mtime),
           now' = tick, named' \in 1..Len(files')
    PROVE  BodyInv'
<1>1. TypeInv /\ TypeInv' /\ mtime \in Nat
  BY WriteType DEF BodyInv
<1>2. /\ \A j \in 1..Len(files') : j # i => files'[j] = files[j]
      /\ UNCHANGED <<request, reply>>
      /\ server' = [server EXCEPT !.disturbed = server.disturbed \/ i = server.fd]
  BY <1>1, WrittenShape
<1>3. server \in Server
  BY <1>1 DEF TypeInv
<1> DEFINE disturbed == server.disturbed \/ i = server.fd
<1>4. /\ server'.fd = server.fd /\ server'.repr = server.repr
      /\ server'.disturbed = disturbed
  BY <1>2, <1>3 DEF Server
<1>5. LengthInv'
  <2> SUFFICES ASSUME server'.fd # NoFile, ~server'.disturbed
               PROVE  files'[server'.fd].len = server'.repr.len
    BY DEF LengthInv
  <2>1. server.fd # i /\ server.fd # NoFile /\ ~server.disturbed
    BY <1>4
  <2>2. files[server.fd].len = server.repr.len
    BY <2>1 DEF BodyInv, LengthInv
  <2>3. server'.fd \in 1..Len(files')
    BY <1>1 DEF TypeInv
  <2> QED BY <1>2, <1>4, <2>1, <2>2, <2>3
<1>6. disturbed \in BOOLEAN /\ (server.disturbed => disturbed)
      /\ server' = [server EXCEPT !.disturbed = disturbed]
  BY <1>2
<1> HIDE DEF disturbed
<1> QED BY <1>1, <1>2, <1>5, <1>6, BodyKept

LEMMA OthersOK ==
    ASSUME BodyInv, Rewrite \/ Replace
    PROVE  BodyInv'
<1>0. TypeInv
  BY DEF BodyInv
<1>1. CASE Rewrite
  <2>1. PICK tick \in Later, len \in WriteLengths :
           Written(named, len, tick) /\ now' = tick /\ named' = named
    BY <1>1 DEF Rewrite
  <2>2. named \in 1..Len(files) + 1 /\ named \in 1..Len(files) /\ Len(files) \in Nat
    BY <1>0 DEF TypeInv
  <2>3. tick \in Nat
    BY <1>0, RespondAssumption DEF Later, TypeInv
  <2>4. Len(files) <= Len(files') /\ Len(files') \in Nat
    BY <1>0, <2>1, <2>2, <2>3, WrittenShape
  <2>5. named' \in 1..Len(files')
    BY <2>1, <2>2, <2>4
  <2> QED BY <2>1, <2>2, <2>5, WriteOK
<1>2. CASE Replace
  <2> DEFINE i == Len(files) + 1
  <2>1. PICK tick \in Later, len \in WriteLengths : \E mtime \in {0, tick} :
           Written(i, len, mtime) /\ now' = tick /\ named' = i
    BY <1>2 DEF Replace
  <2>2. PICK mtime \in {0, tick} : Written(i, len, mtime) /\ now' = tick /\ named' = i
    BY <2>1
  <2>3. i \in 1..Len(files) + 1
    BY <1>0 DEF TypeInv
  <2>4. mtime \in Nat
    BY <1>0, RespondAssumption DEF Later, TypeInv
  <2> HIDE DEF i
  <2>5. i \in 1..Len(files')
    BY <1>0, <2>2, <2>3, <2>4, WrittenShape
  <2> QED BY <2>2, <2>3, <2>5, WriteOK
<1> QED BY <1>1, <1>2

LEMMA BodyStutter ==
    ASSUME BodyInv, UNCHANGED respondVars PROVE BodyInv'
<1>1. UNCHANGED <<files, named, now, version, stale, request, server, reply, copy>>
  BY DEF respondVars, fileVars
<1>2. TypeInv' /\ LengthInv'
  BY <1>1 DEF BodyInv, TypeInv, LengthInv
<1>3. server \in Server
  BY DEF BodyInv, TypeInv
<1>4. server.disturbed \in BOOLEAN /\ server' = [server EXCEPT !.disturbed = server.disturbed]
  BY <1>1, <1>3 DEF Server
<1> QED BY <1>1, <1>2, <1>4, BodyKept

\* What has been sent is what was promised, at each step of the server, of the
\* client, and of whoever writes to the file.
THEOREM RespondInvariant == RespondSpec => []BodyInv
<1>1. RespondInit => BodyInv
  BY BodyInit
<1>2. ASSUME BodyInv, [RespondNext]_respondVars PROVE BodyInv'
  <2>1. CASE HandleOther
    BY <1>2, <2>1, HandleOtherOK
  <2>2. CASE Handle
    BY <1>2, <2>2, HandleOK
  <2>3. CASE PreconditionBlocks \/ RangeRejected
    BY <1>2, <2>3, RefusedOK
  <2>4. CASE FullResponse
    BY <1>2, <2>4, FullOK
  <2>5. CASE Select
    BY <1>2, <2>5, ClampRangesOK, CoalesceOK, SingleOK, MultipartOK, TooManyOK DEF Select
  <2>6. CASE ReadChunk \/ StreamEnds
    BY <1>2, <2>6, ReadChunkOK, StreamEndsOK
  <2>7. CASE MultipartStep
    BY <1>2, <2>7, NextPartOK, PartBodyOK, PartTrailerOK, FinalBoundaryOK DEF MultipartStep
  <2>8. CASE ClientStep \/ Receive
    BY <1>2, <2>8, ClientOK
  <2>9. CASE Rewrite \/ Replace
    BY <1>2, <2>9, OthersOK
  <2>10. CASE UNCHANGED respondVars
    BY <1>2, <2>10, BodyStutter
  <2> QED BY <1>2, <2>1, <2>2, <2>3, <2>4, <2>5, <2>6, <2>7, <2>8, <2>9, <2>10
          DEF RespondNext, ServerStep
<1> QED BY <1>1, <1>2, PTL DEF RespondSpec

\* Descriptors, ranges and times are what the handler takes them for; ranges
\* lie inside the representation, and Content-Length is never exceeded.
THEOREM RespondTypeCorrect == RespondSpec => []RespondTypeOK
<1>1. BodyInv => RespondTypeOK
  <2> SUFFICES ASSUME BodyInv PROVE RespondTypeOK
    OBVIOUS
  <2>1. TypeInv
    BY DEF BodyInv
  <2>2. DOMAIN files = 1..Len(files) /\ Len(files) \in Nat /\ version \in Nat
        /\ version <= MaxWrites /\ Len(files) <= MaxWrites + 1
    <3>1. version \in 0..MaxWrites /\ MaxWrites \in Nat
      BY <2>1, RespondAssumption DEF TypeInv, Version
    <3>2. Len(files) <= version + 1 /\ DOMAIN files = 1..Len(files) /\ Len(files) \in Nat
      BY <2>1 DEF TypeInv
    <3> QED BY <3>1, <3>2
  <2>3. DOMAIN files \subseteq 1..MaxWrites + 1
    BY <2>2, RespondAssumption
  <2>4. ASSUME NEW i \in DOMAIN files
        PROVE  files[i] \in [len : {Length} \cup WriteLengths, of : Version, mtime : 0..now]
    <3>1. files[i] \in Inode /\ files[i].mtime <= now /\ now \in Nat
      BY <2>1 DEF TypeInv
    <3> QED BY <3>1 DEF Inode
  <2>5. named \in DOMAIN files /\ version \in Version
        /\ request.method \in {"GET", "HEAD", "POST"}
        /\ server.at \in Stages
    BY <2>1, <2>2 DEF TypeInv, Request, Server
  <2>6. server.fd \in DOMAIN files \cup {NoFile}
        /\ (server.fd = NoFile) = (server.at \in {"idle", "handle", "done"})
    BY <2>1, <2>2 DEF TypeInv
  <2>7. \A r \in server.todo \cup Range(server.ranges) :
           r.start <= r.end /\ r.end < server.repr.len
    BY DEF BodyInv, RangesInv, Within
  <2>8. At("coalesce") => Separated(server.ranges)
    BY DEF BodyInv, CoalesceInv
  <2>9. Len(reply.sent) <= reply.length
    BY DEF BodyInv, DoneInv
  <2>10. \A k \in DOMAIN copy.have : copy.have[k] \in Version
    <3>1. copy.have \in Seq(Version)
      BY <2>1 DEF TypeInv, Copy
    <3> QED BY <3>1
  <2> QED BY <2>3, <2>4, <2>5, <2>6, <2>7, <2>8, <2>9, <2>10 DEF RespondTypeOK
<1> QED BY <1>1, RespondInvariant, PTL

\* A body the client takes for complete is the bytes it asked for, each once
\* and in order, in one part for each gap, whatever is written meanwhile.
THEOREM BodiesAreExact == RespondSpec => []BodyExact
<1>1. BodyInv => BodyExact
  BY DEF BodyInv, DoneInv
<1> QED BY <1>1, RespondInvariant, PTL

\* 416 is for requests that ask for no byte, or in too many ranges, only.
THEOREM RefusalsAreExact == RespondSpec => []UnsatisfiableExact
<1>1. BodyInv => UnsatisfiableExact
  BY DEF BodyInv, DoneInv
<1> QED BY <1>1, RespondInvariant, PTL

\* Content-Length, computed before the body, is what the body comes to.
THEOREM UndisturbedIsComplete == RespondSpec => []UndisturbedComplete
<1>1. BodyInv => UndisturbedComplete
  BY DEF BodyInv, DoneInv
<1> QED BY <1>1, RespondInvariant, PTL

-----------------------------------------------------------------------------
(* Versions.                                                               *)

LEMMA FlattenOne ==
    ASSUME NEW S, NEW s \in Seq(S)
    PROVE  FlattenSeq(<<s>>) = s
<1> DEFINE seqs == <<s>>
           Flattens(f) == f = [i \in 1..Len(seqs) |-> IF i = 1 THEN seqs[i] ELSE f[i-1] \o seqs[i]]
           f == CHOOSE g : Flattens(g)
<1>1. Len(seqs) = 1 /\ seqs[1] = s
  OBVIOUS
<1>2. FlattenSeq(seqs) = f[Len(seqs)]
  BY <1>1 DEF FlattenSeq
<1> HIDE DEF seqs
<1>3. \E g : Flattens(g)
  <2> DEFINE g == [i \in 1..1 |-> s]
  <2>1. g = [i \in 1..1 |-> IF i = 1 THEN seqs[i] ELSE g[i-1] \o seqs[i]]
    BY <1>1
  <2>2. Flattens(g)
    BY <1>1, <2>1
  <2> HIDE DEF g, Flattens
  <2> QED BY <2>2
<1>4. Flattens(f)
  <2> HIDE DEF Flattens
  <2> QED BY <1>3
<1>5. f[1] = s
  <2>1. f = [i \in 1..Len(seqs) |-> IF i = 1 THEN seqs[i] ELSE f[i-1] \o seqs[i]]
    BY <1>4
  <2> HIDE DEF f
  <2> QED BY <1>1, <2>1
<1> QED BY <1>1, <1>2, <1>5 DEF seqs

\* The rest of a download is one range.
LEMMA RestRange ==
    ASSUME NEW by, request = Rest(by)
    PROVE  DOMAIN Raw = {1}
<1> DEFINE spec == [first |-> Len(copy.have), last |-> Blank]
           line == [unit |-> "bytes", specs |-> <<spec>>]
<1>1. request.range = <<line>>
  BY DEF Rest, Plain
<1>2. [k \in DOMAIN <<line>> |-> <<line>>[k].specs] = << <<spec>> >>
  <2> HIDE DEF spec
  <2> QED OBVIOUS
<1>3. <<spec>> \in Seq({spec})
  OBVIOUS
<1>4. FlattenSeq(<< <<spec>> >>) = <<spec>>
  BY <1>3, FlattenOne
<1>5. Raw = <<spec>>
  BY <1>1, <1>2, <1>4 DEF Raw, RawRanges
<1> QED BY <1>5

LEMMA RestIs ==
    ASSUME NEW by
    PROVE  /\ Rest(by).path = copy.path
           /\ Rest(by).ifRange = [by |-> by, tag |-> copy.tag, date |-> copy.date]
BY DEF Rest, Plain

\* A step by which no descriptor is open any more.
LEMMA ClosedOK ==
    ASSUME VersionInv, UNCHANGED <<fileVars, request, copy>>, server'.fd = NoFile,
           ResumeOneVersion'
    PROVE  VersionInv'
<1>1. CopyInv'
  BY DEF VersionInv, CopyInv, Target, Date, HaveAre, fileVars
<1>2. OpenInv'
  BY DEF OpenInv
<1> QED BY <1>1, <1>2 DEF VersionInv

LEMMA EmptyVersion ==
    ASSUME BodyInv, VersionInv, NEW status \in Nat, Empty(status),
           UNCHANGED <<fileVars, request, copy>>
    PROVE  VersionInv'
<1>1. server'.fd = NoFile /\ reply'.length = 0
  BY EmptyType DEF BodyInv
<1>2. ResumeOneVersion'
  BY <1>1 DEF ResumeOneVersion, Resumed, Streamed
<1> QED BY <1>1, <1>2, ClosedOK

\* A step that sends nothing, or bytes of the descriptor's version.
LEMMA OpenOK ==
    ASSUME VersionInv, UNCHANGED <<fileVars, request, copy>>,
           server'.fd = server.fd, server'.repr = server.repr,
           server'.disturbed = server.disturbed, server'.at # "done",
           \A k \in Holding("byte")' :
              \/ k \in Holding("byte") /\ reply'.sent[k].of = reply.sent[k].of
              \/ reply'.sent[k].of = files[server.fd].of,
           At("coalesce")' \/ reply'.status = 206 =>
              ~RangeIsStale(request, server.repr.tag, server.repr.date)
    PROVE  VersionInv'
<1>1. CopyInv'
  BY DEF VersionInv, CopyInv, Target, Date, HaveAre, fileVars
<1>2. ResumeOneVersion'
  BY DEF ResumeOneVersion, Resumed, Streamed, At
<1>3. /\ files' = files /\ named' = named /\ stale' = stale
      /\ request' = request /\ copy' = copy
  BY DEF fileVars
<1>4. /\ \A path : Target(path)' = Target(path)
      /\ \A inode : Date(inode)' = Date(inode)
      /\ (Resuming' <=> Resuming) /\ \A of : HaveAre(of)' <=> HaveAre(of)
  BY <1>3 DEF Target, Date, Resuming, Rest, HaveAre
<1>5. \A of : SentAre(of) /\ of = files[server.fd].of => SentAre(of)'
  BY DEF SentAre
<1>6. OpenInv'
  <2> SUFFICES ASSUME server.fd # NoFile PROVE OpenInv'
    BY DEF OpenInv
  <2> DEFINE target == Target(request.path)
             of == files[server.fd].of
  <2>1. /\ ~stale => server.repr.date <= Date(target)
        /\ ~stale /\ Date(target) <= server.repr.date =>
              server.fd = target /\ SentAre(of)
        /\ ~server.disturbed => server.repr.date = Date(server.fd) /\ SentAre(of)
        /\ ~server.repr.tag.weak =>
              server.fd = 1 /\ (files[1].of = 0 => SentAre(0))
        /\ Resuming /\ ~server.disturbed /\ ~stale
              /\ server.repr.date <= copy.date => HaveAre(of)
    BY DEF VersionInv, OpenInv
  <2>2. ASSUME NEW s, s = of, SentAre(of) PROVE SentAre(files[server.fd].of)'
    <3>1. SentAre(s)'
      BY <1>5, <2>2 DEF SentAre
    <3> QED BY <1>3, <2>2, <3>1 DEF SentAre
  <2>3. ASSUME server.fd = 1, files[1].of = 0, SentAre(0) PROVE SentAre(0)'
    BY <1>5, <2>3
  <2>4. ASSUME NEW s, s = of, HaveAre(of) PROVE HaveAre(files[server.fd].of)'
    BY <1>3, <2>4 DEF HaveAre
  <2>5. Target(request.path)' = target /\ Date(Target(request.path))' = Date(target)
        /\ Date(server.fd)' = Date(server.fd)
    BY <1>3 DEF Target, Date
  <2>6. ~RangeIsStale(request, server.repr.tag, server.repr.date)
           <=> ~RangeIsStale(request', server'.repr.tag, server'.repr.date)
    BY <1>3
  <2> HIDE DEF target, of
  <2>7. SentAre(of) => SentAre(files[server.fd].of)'
    BY <2>2
  <2>8. HaveAre(of) => HaveAre(files[server.fd].of)'
    BY <2>4
  <2> QED BY <1>3, <1>4, <2>1, <2>3, <2>5, <2>6, <2>7, <2>8 DEF OpenInv
<1> QED BY <1>1, <1>2, <1>6 DEF VersionInv

LEMMA VersionInit == RespondInit => VersionInv
<1> SUFFICES ASSUME RespondInit PROVE VersionInv
  OBVIOUS
<1>1. server = NoServer /\ copy = NoCopy
  BY DEF RespondInit
<1> QED BY <1>1 DEF VersionInv, OpenInv, CopyInv, ResumeOneVersion, Resumed, Streamed,
                    At, NoServer, NoCopy

LEMMA OpensVersion ==
    ASSUME BodyInv, VersionInv, At("handle"), NEW i \in DOMAIN files, NEW strong \in BOOLEAN,
           i = Target(request.path), strong => i = 1,
           Opens(i, strong), UNCHANGED <<fileVars, request, copy>>
    PROVE  VersionInv'
<1> DEFINE repr == Representation(i, strong)
<1>1. /\ repr \in Repr /\ repr.date = Date(i) /\ Date(i) \in Nat
      /\ ~repr.tag.weak => strong
  <2>1. repr \in Repr /\ repr.date = Date(i)
    BY RepresentationType DEF BodyInv, Representation, Date
  <2>2. ~repr.tag.weak => strong
    BY DEF Representation, WeakTag
  <2> QED BY <2>1, <2>2 DEF Repr
<1>2. server' = [NoServer EXCEPT !.at = "evaluate", !.fd = i, !.repr = repr] /\ reply' = reply
  BY DEF Opens
<1> HIDE DEF repr
<1>3. /\ server'.at = "evaluate" /\ server'.fd = i /\ server'.repr = repr
      /\ reply'.sent = <<>> /\ reply'.status = 0
  BY <1>2 DEF NoServer, BodyInv, Unsent, At, NoReply
<1>4. /\ files' = files /\ named' = named /\ stale' = stale
      /\ request' = request /\ copy' = copy
  BY DEF fileVars
<1>5. CopyInv'
  BY <1>4 DEF VersionInv, CopyInv, Target, Date, HaveAre
<1>6. ResumeOneVersion'
  BY <1>3 DEF ResumeOneVersion, Resumed, Streamed, At
<1>7. \A of : SentAre(of)'
  BY <1>3 DEF SentAre, Holding
<1>8. Target(request.path)' = i /\ Date(i)' = Date(i) /\ i' = i
  BY <1>4 DEF Target, Date
<1>9. ASSUME Resuming, ~stale, repr.date <= copy.date PROVE HaveAre(files[i].of)
  <2>1. copy.have # <<>> /\ request.path = copy.path
    BY <1>9 DEF Resuming
  <2>2. Date(Target(copy.path)) <= copy.date
    BY <1>1, <1>9, <2>1
  <2> QED BY <1>9, <2>1, <2>2 DEF VersionInv, CopyInv
<1>10. OpenInv'
  <2>1. Date(Target(request.path))' = repr.date /\ server'.repr.date = repr.date
        /\ Date(server.fd)' = repr.date /\ repr.date \in Nat
    BY <1>1, <1>3, <1>4, <1>8 DEF Date
  <2>2. SentAre(files[server.fd].of)' /\ SentAre(0)'
    BY <1>3 DEF SentAre, Holding
  <2>3. ~server'.repr.tag.weak => server'.fd = 1
    BY <1>1, <1>3
  <2>4. Resuming' /\ ~stale' /\ server'.repr.date <= copy'.date
           => HaveAre(files[server.fd].of)'
    BY <1>3, <1>4, <1>9 DEF HaveAre, Resuming, Rest
  <2>5. ~(At("coalesce")' \/ reply'.status = 206)
    BY <1>3 DEF At
  <2> QED BY <1>3, <1>8, <2>1, <2>2, <2>3, <2>4, <2>5 DEF OpenInv
<1> QED BY <1>5, <1>6, <1>10 DEF VersionInv

LEMMA HandleVersion ==
    ASSUME BodyInv, VersionInv, Handle PROVE VersionInv'
<1> DEFINE route == Route(request.path)
<1>1. At("handle") /\ UNCHANGED <<fileVars, request, copy>> /\ TypeInv
  BY DEF Handle, BodyInv
<1>2. \/ route.kind = "none" /\ Empty(route.status)
      \/ route.kind = "object" /\ Opens(1, TRUE)
      \/ route.kind = "file" /\ Opens(named, FALSE)
      \/ /\ server'.fd = NoFile
         /\ reply'.length = 0
  BY DEF Handle, NoServer, NoReply
<1>3. 1 \in DOMAIN files /\ named \in DOMAIN files
  BY <1>1 DEF TypeInv
<1>4. CASE route.kind = "none" /\ Empty(route.status)
  <2>1. route.status \in Nat
    BY RouteShape
  <2> QED BY <1>1, <1>4, <2>1, EmptyVersion
<1>5. CASE route.kind = "object" /\ Opens(1, TRUE)
  <2>1. 1 = Target(request.path)
    BY <1>5 DEF Target
  <2> QED BY <1>1, <1>3, <1>5, <2>1, OpensVersion
<1>6. CASE route.kind = "file" /\ Opens(named, FALSE)
  <2>1. named = Target(request.path)
    BY <1>6 DEF Target
  <2> QED BY <1>1, <1>3, <1>6, <2>1, OpensVersion
<1>7. CASE server'.fd = NoFile /\ reply'.length = 0
  <2>1. ResumeOneVersion'
    BY <1>7 DEF ResumeOneVersion, Resumed, Streamed
  <2> QED BY <1>1, <1>7, <2>1, ClosedOK
<1> QED BY <1>2, <1>4, <1>5, <1>6, <1>7

\* Up to the head of the response, nothing is sent.
LEMMA HeadVersion ==
    ASSUME BodyInv, VersionInv,
           HandleOther \/ PreconditionBlocks \/ RangeRejected \/ FullResponse \/ Select
    PROVE  VersionInv'
<1>0. TypeInv /\ server \in Server
  BY DEF BodyInv, TypeInv
<1>1. /\ UNCHANGED <<fileVars, request, copy>>
      /\ server.at \in {"handle", "evaluate", "coalesce"}
  BY DEF HandleOther, PreconditionBlocks, RangeRejected, FullResponse, Select,
         ClampRanges, Coalesce, SingleRange, Multipart, TooManyRanges, At
<1>2. reply = NoReply /\ Holding("byte") = {}
  BY <1>1 DEF BodyInv, Unsent, At, NoReply, Holding
<1>3. ASSUME NEW status \in Nat, Empty(status) PROVE VersionInv'
  BY <1>1, <1>3, EmptyVersion
<1>4. ASSUME reply'.sent = <<>>, server'.fd = server.fd, server'.repr = server.repr,
             server'.disturbed = server.disturbed,
             server'.at \in {"coalesce", "stream", "part"},
             At("coalesce")' \/ reply'.status = 206 =>
                ~RangeIsStale(request, server.repr.tag, server.repr.date)
      PROVE  VersionInv'
  <2>1. Holding("byte")' = {} /\ server'.at # "done"
    BY <1>4 DEF Holding
  <2> QED BY <1>1, <1>4, <2>1, OpenOK
<1>5. At("coalesce") => ~RangeIsStale(request, server.repr.tag, server.repr.date)
  <2>1. At("coalesce") => server.fd # NoFile
    BY <1>0 DEF TypeInv, At
  <2> QED BY <2>1 DEF VersionInv, OpenInv
<1>6. CASE HandleOther
  BY <1>3, <1>6 DEF HandleOther
<1>7. CASE PreconditionBlocks
  <2>1. Verdict \in {"failed", "notModified", "malformed"}
    BY <1>7 DEF PreconditionBlocks, Verdict, Evaluate
  <2>2. Empty(412) \/ Empty(304) \/ Empty(400)
    BY <1>7, <2>1 DEF PreconditionBlocks
  <2> QED BY <1>3, <2>2
<1>8. CASE RangeRejected
  BY <1>3, <1>8 DEF RangeRejected
<1>9. CASE FullResponse
  <2>1. Starts(200, server.repr.len, "stream")
    BY <1>9 DEF FullResponse
  <2>2. CASE request.method = "HEAD"
    BY <1>3, <2>1, <2>2 DEF Starts
  <2>3. CASE request.method # "HEAD"
    <3>1. /\ server' = [server EXCEPT !.at = "stream", !.stop = server.repr.len]
          /\ reply' = [NoReply EXCEPT !.status = 200, !.length = server.repr.len]
      BY <2>1, <2>3 DEF Starts
    <3>2. /\ reply'.sent = <<>> /\ server'.fd = server.fd /\ server'.repr = server.repr
          /\ server'.disturbed = server.disturbed /\ server'.at = "stream"
          /\ reply'.status = 200
      BY <1>0, <3>1 DEF Server, NoReply
    <3> QED BY <1>4, <3>2 DEF At
  <2> QED BY <2>2, <2>3
<1>10. CASE ClampRanges
  <2>1. RangeApplies
    BY <1>10 DEF ClampRanges
  <2>2. ~RangeIsStale(request, server.repr.tag, server.repr.date)
    BY <2>1 DEF RangeApplies
  <2>3. CASE Empty(416)
    BY <1>3, <2>3
  <2>4. CASE ~Empty(416)
    <3>1. PICK s : server' = [server EXCEPT !.at = "coalesce", !.todo = s] /\ reply' = reply
      BY <1>10, <2>4 DEF ClampRanges
    <3>2. /\ reply'.sent = <<>> /\ server'.fd = server.fd /\ server'.repr = server.repr
          /\ server'.disturbed = server.disturbed /\ server'.at = "coalesce"
      BY <1>0, <1>2, <3>1 DEF Server, NoReply
    <3> QED BY <1>4, <2>2, <3>2
  <2> QED BY <2>3, <2>4
<1>11. CASE Coalesce
  <2>1. PICK r \in server.todo :
           server' = [server EXCEPT !.todo = server.todo \ {r}, !.ranges = Absorb(server.ranges, r)]
    BY <1>11 DEF Coalesce
  <2>2. reply' = reply /\ At("coalesce")
    BY <1>11 DEF Coalesce
  <2>3. /\ reply'.sent = <<>> /\ server'.fd = server.fd /\ server'.repr = server.repr
        /\ server'.disturbed = server.disturbed /\ server'.at = "coalesce"
    BY <1>0, <1>2, <2>1, <2>2 DEF Server, NoReply, At
  <2> QED BY <1>4, <1>5, <2>2, <2>3
<1>12. CASE SingleRange
  <2>1. At("coalesce")
    BY <1>12 DEF SingleRange
  <2>2. CASE request.method = "HEAD"
    BY <1>3, <1>12, <2>2 DEF SingleRange
  <2>3. CASE request.method # "HEAD"
    <3> DEFINE r == server.ranges[1]
    <3>1. /\ server' = [server EXCEPT !.at = "stream", !.offset = r.start, !.stop = r.end + 1]
          /\ reply' = [NoReply EXCEPT !.status = 206, !.length = ByteLen(r)]
      BY <1>12, <2>3 DEF SingleRange
    <3> HIDE DEF r
    <3>2. /\ reply'.sent = <<>> /\ server'.fd = server.fd /\ server'.repr = server.repr
          /\ server'.disturbed = server.disturbed /\ server'.at = "stream"
      BY <1>0, <3>1 DEF Server, NoReply
    <3> QED BY <1>4, <1>5, <2>1, <3>2
  <2> QED BY <2>2, <2>3
<1>13. CASE Multipart
  <2>1. At("coalesce") /\ Starts(206, MultipartLength(server.ranges), "part")
    BY <1>13 DEF Multipart
  <2>2. CASE request.method = "HEAD"
    BY <1>3, <2>1, <2>2 DEF Starts
  <2>3. CASE request.method # "HEAD"
    <3>1. /\ server' = [server EXCEPT !.at = "part", !.stop = server.repr.len]
          /\ reply' = [NoReply EXCEPT !.status = 206, !.length = MultipartLength(server.ranges)]
      BY <2>1, <2>3 DEF Starts
    <3>2. /\ reply'.sent = <<>> /\ server'.fd = server.fd /\ server'.repr = server.repr
          /\ server'.disturbed = server.disturbed /\ server'.at = "part"
      BY <1>0, <3>1 DEF Server, NoReply
    <3> QED BY <1>4, <1>5, <2>1, <3>2
  <2> QED BY <2>2, <2>3
<1>14. CASE TooManyRanges
  BY <1>3, <1>14 DEF TooManyRanges
<1> QED BY <1>6, <1>7, <1>8, <1>9, <1>10, <1>11, <1>12, <1>13, <1>14 DEF Select

LEMMA ChunkVersion ==
    ASSUME BodyInv, VersionInv, UNCHANGED <<fileVars, request, copy>>,
           At("stream") \/ At("partBody"),
           NEW count \in Nat, server.offset + count <= server.stop,
           Emit(Slice(server.fd, server.offset, count)),
           server' = [server EXCEPT !.offset = server.offset + count]
    PROVE  VersionInv'
<1> DEFINE items == Slice(server.fd, server.offset, count)
           n == Len(reply.sent)
<1>1. /\ server'.at = server.at /\ server'.repr = server.repr /\ server'.fd = server.fd
      /\ server'.disturbed = server.disturbed /\ reply'.status = reply.status
  BY ChunkOK
<1>2. /\ server \in Server /\ server.fd \in DOMAIN files /\ server.fd # NoFile
      /\ TypeInv /\ reply \in Reply
  BY DEF BodyInv, TypeInv, At
<1>3. server.offset \in Nat /\ reply.sent \in Seq(Item)
  BY <1>2 DEF Server, Reply
<1>4. /\ items \in Seq(Item) /\ Len(items) = count
      /\ \A k \in 1..count : items[k].of = files[server.fd].of
  BY <1>2, <1>3, SliceShape
<1>5. reply'.sent = reply.sent \o items
  BY <1>2 DEF Emit, Reply
<1> HIDE DEF items
<1>6. n \in Nat /\ n = Len(reply.sent) /\ DOMAIN reply.sent = 1..n
  BY <1>3
<1>7. /\ Len(reply.sent \o items) = n + count /\ reply.sent \o items \in Seq(Item)
      /\ \A k \in 1..n + count :
            (reply.sent \o items)[k] = IF k <= n THEN reply.sent[k] ELSE items[k - n]
  <2>1. reply.sent \o items \in Seq(Item)
    BY <1>3, <1>4
  <2>2. Len(reply.sent \o items) = Len(reply.sent) + Len(items)
    <3>1. \A s, t \in Seq(Item) : Len(s \o t) = Len(s) + Len(t)
      OBVIOUS
    <3> QED BY <1>3, <1>4, <3>1
  <2>3. \A k \in 1..n + count :
           (reply.sent \o items)[k] = IF k <= n THEN reply.sent[k] ELSE items[k - n]
    BY <1>3, <1>4
  <2> QED BY <1>4, <2>1, <2>2, <2>3
<1> HIDE DEF n
<1>8. DOMAIN reply'.sent = 1..n + count
      /\ \A k \in 1..n + count :
            reply'.sent[k] = IF k <= n THEN reply.sent[k] ELSE items[k - n]
  BY <1>5, <1>7
<1>9. ASSUME NEW k \in Holding("byte")'
      PROVE  \/ k \in Holding("byte") /\ reply'.sent[k].of = reply.sent[k].of
             \/ reply'.sent[k].of = files[server.fd].of
  <2>1. k \in 1..n + count /\ reply'.sent[k].kind = "byte"
    BY <1>8 DEF Holding
  <2>2. CASE k <= n
    <3>1. k \in 1..n /\ reply'.sent[k] = reply.sent[k]
      BY <1>6, <1>8, <2>1, <2>2
    <3> QED BY <1>6, <2>1, <3>1 DEF Holding
  <2>3. CASE ~(k <= n)
    <3>1. k - n \in 1..count /\ reply'.sent[k] = items[k - n]
      BY <1>6, <1>8, <2>1, <2>3
    <3> QED BY <1>4, <3>1
  <2> QED BY <2>2, <2>3
<1>10. At("coalesce")' \/ reply'.status = 206 =>
          ~RangeIsStale(request, server.repr.tag, server.repr.date)
  BY <1>1, <1>2 DEF VersionInv, OpenInv, At
<1>11. server'.at # "done"
  BY <1>1 DEF At
<1> QED BY <1>1, <1>9, <1>10, <1>11, OpenOK

\* Framing says nothing of a version.
LEMMA FrameVersion ==
    ASSUME BodyInv, VersionInv, NextPart \/ PartTrailer
    PROVE  VersionInv'
<1>1. /\ UNCHANGED <<fileVars, request, copy>>
      /\ server.at \in {"part", "partBody"}
      /\ reply' = [reply EXCEPT !.sent =
                     reply.sent \o <<Framing(IF NextPart THEN "header" ELSE "crlf")>>]
      /\ \/ server' = [server EXCEPT !.at = "partBody",
                         !.offset = server.ranges[1].start,
                         !.stop = server.ranges[1].end + 1, !.ranges = Tail(server.ranges)]
         \/ server' = [server EXCEPT !.at = "part"]
  BY DEF NextPart, PartTrailer, Emit, At
<1> DEFINE item == Framing(IF NextPart THEN "header" ELSE "crlf")
           n == Len(reply.sent)
<1>2. /\ server \in Server /\ reply \in Reply /\ server.fd # NoFile
  BY <1>1 DEF BodyInv, TypeInv
<1>3. /\ server'.fd = server.fd /\ server'.repr = server.repr
      /\ server'.disturbed = server.disturbed /\ server'.at \in {"part", "partBody"}
  BY <1>1, <1>2 DEF Server
<1>4. item \in Item /\ item.kind # "byte"
  <2>1. 0 \in Version
    BY RespondAssumption DEF Version
  <2> QED BY <2>1 DEF Framing, Item
<1>5. reply.sent \in Seq(Item) /\ reply'.sent = reply.sent \o <<item>>
      /\ reply'.status = reply.status
  BY <1>1, <1>2 DEF Reply
<1> HIDE DEF item
<1>6. reply'.sent = Append(reply.sent, item)
  <2>1. \A s \in Seq(Item), i \in Item : s \o <<i>> = Append(s, i)
    OBVIOUS
  <2> QED BY <1>4, <1>5, <2>1
<1>7. /\ n \in Nat /\ DOMAIN reply.sent = 1..n /\ DOMAIN reply'.sent = 1..n + 1
      /\ reply'.sent[n + 1] = item /\ \A k \in 1..n : reply'.sent[k] = reply.sent[k]
  BY <1>4, <1>5, <1>6
<1> HIDE DEF n
<1>8. ASSUME NEW k \in Holding("byte")'
      PROVE  k \in Holding("byte") /\ reply'.sent[k].of = reply.sent[k].of
  <2>1. k \in 1..n + 1 /\ reply'.sent[k].kind = "byte"
    BY <1>7 DEF Holding
  <2>2. k # n + 1
    BY <1>4, <1>7, <2>1
  <2>3. k \in 1..n
    BY <1>7, <2>1, <2>2
  <2> QED BY <1>7, <2>1, <2>3 DEF Holding
<1>9. At("coalesce")' \/ reply'.status = 206 =>
         ~RangeIsStale(request, server.repr.tag, server.repr.date)
  BY <1>2, <1>3, <1>5 DEF VersionInv, OpenInv, At
<1>10. server'.at # "done"
  BY <1>3
<1> QED BY <1>1, <1>3, <1>8, <1>9, <1>10, OpenOK

\* Equal elements in both, equal elements in all.
LEMMA OneVersionConcat ==
    ASSUME NEW s \in Seq(Version), NEW t \in Seq(Version), NEW of,
           \A k \in DOMAIN s : s[k] = of, \A k \in DOMAIN t : t[k] = of
    PROVE  OneVersion(s \o t)
<1>1. s \o t \in Seq(Version) /\ Len(s \o t) = Len(s) + Len(t)
      /\ Len(s) \in Nat /\ Len(t) \in Nat /\ DOMAIN s = 1..Len(s) /\ DOMAIN t = 1..Len(t)
  OBVIOUS
<1>2. \A k \in 1..Len(s) + Len(t) :
         (s \o t)[k] = IF k <= Len(s) THEN s[k] ELSE t[k - Len(s)]
  OBVIOUS
<1>3. DOMAIN (s \o t) = 1..Len(s) + Len(t)
  BY <1>1
<1>4. ASSUME NEW k \in 1..Len(s) + Len(t) PROVE (s \o t)[k] = of
  <2>1. CASE k <= Len(s)
    <3>1. k \in DOMAIN s
      BY <1>1, <2>1
    <3> QED BY <1>2, <2>1, <3>1
  <2>2. CASE ~(k <= Len(s))
    <3>1. k - Len(s) \in DOMAIN t
      BY <1>1, <2>2
    <3> QED BY <1>2, <2>2, <3>1
  <2> QED BY <2>1, <2>2
<1> QED BY <1>3, <1>4 DEF OneVersion

\* The end of a stream: a resumed download is one version, or excused.
LEMMA StreamVersion ==
    ASSUME BodyInv, VersionInv, At("stream"), NEW whole \in BOOLEAN, Finish(whole),
           UNCHANGED <<fileVars, request, copy>>
    PROVE  VersionInv'
<1>1. /\ server'.fd = NoFile /\ server'.at = "done" /\ server'.repr = server.repr
      /\ server'.disturbed = server.disturbed
      /\ reply'.whole = whole /\ reply'.status = reply.status
      /\ reply'.sent = reply.sent
  BY FinishType DEF BodyInv
<1>2. /\ files' = files /\ stale' = stale /\ request' = request /\ copy' = copy
  BY DEF fileVars
<1>3. /\ server \in Server /\ reply \in Reply /\ copy \in Copy /\ server.fd # NoFile
      /\ reply.sent \in Seq(Item) /\ copy.have \in Seq(Version)
  BY DEF BodyInv, TypeInv, Reply, Copy, At
<1> DEFINE rest == [k \in DOMAIN reply.sent |-> reply.sent[k].of]
<1>4. rest \in Seq(Version)
  <2>1. \A k \in DOMAIN reply.sent : reply.sent[k].of \in Version
    <3> TAKE k \in DOMAIN reply.sent
    <3>1. reply.sent[k] \in Item
      BY <1>3
    <3> QED BY <3>1 DEF Item
  <2> QED BY <1>3, <2>1
<1>5. Holding("byte") = DOMAIN reply.sent
  BY DEF BodyInv, StreamInv, Holding
<1>6. \A of : SentAre(of) => \A k \in DOMAIN rest : rest[k] = of
  BY <1>5 DEF SentAre
<1>7. DOMAIN rest = DOMAIN reply.sent
  OBVIOUS
<1> HIDE DEF rest
<1>8. ASSUME reply.status = 206, ~server.disturbed, copy.have # <<>>,
             request \in {Rest("tag"), Rest("date")}
      PROVE  \/ OneVersion(copy.have \o rest)
             \/ stale
             \/ request.ifRange.by = "tag" /\ files[1].of # 0
  <2>1. ~RangeIsStale(request, server.repr.tag, server.repr.date)
    BY <1>3, <1>8 DEF VersionInv, OpenInv
  <2>2. CASE request = Rest("tag")
    <3>1. request.ifRange = [by |-> "tag", tag |-> copy.tag, date |-> copy.date]
      BY <2>2, RestIs
    <3>2. copy.tag = server.repr.tag /\ ~copy.tag.weak
      BY <2>1, <3>1 DEF RangeIsStale, StrongMatch
    <3>3. files[1].of = 0 => SentAre(0) /\ HaveAre(0)
      BY <1>3, <1>8, <3>2 DEF VersionInv, OpenInv, CopyInv
    <3>4. files[1].of = 0 => OneVersion(copy.have \o rest)
      BY <1>3, <1>4, <1>6, <3>3, OneVersionConcat DEF HaveAre
    <3> QED BY <3>1, <3>4
  <2>3. CASE request = Rest("date")
    <3>1. request.ifRange = [by |-> "date", tag |-> copy.tag, date |-> copy.date]
      BY <2>3, RestIs
    <3>2. server.repr.date \in Nat /\ copy.date \in Nat
      BY <1>3 DEF Server, Repr, Copy
    <3>3. server.repr.date <= copy.date
      BY <2>1, <3>1, <3>2 DEF RangeIsStale
    <3>4. ~stale => HaveAre(files[server.fd].of) /\ SentAre(files[server.fd].of)
      BY <1>3, <1>8, <2>3, <3>3, RestIs DEF VersionInv, OpenInv, Resuming
    <3>5. ~stale => OneVersion(copy.have \o rest)
      BY <1>3, <1>4, <1>6, <3>4, OneVersionConcat DEF HaveAre
    <3> QED BY <3>5
  <2> QED BY <1>8, <2>2, <2>3
<1>9. ResumeOneVersion'
  <2> SUFFICES ASSUME Resumed' PROVE ResumeOneVersion'
    BY DEF ResumeOneVersion
  <2>1. /\ reply.status = 206 /\ ~server.disturbed /\ copy.have # <<>>
        /\ request \in {Rest("tag"), Rest("date")}
    BY <1>1, <1>2 DEF Resumed, Rest
  <2>2. \/ OneVersion(copy.have \o rest)
        \/ stale
        \/ request.ifRange.by = "tag" /\ files[1].of # 0
    BY <1>8, <2>1
  <2>3. OneVersion(copy'.have \o [k \in DOMAIN reply'.sent |-> reply'.sent[k].of])
           <=> OneVersion(copy.have \o rest)
    BY <1>1, <1>2 DEF rest
  <2> QED BY <1>2, <2>2, <2>3 DEF ResumeOneVersion
<1> QED BY <1>1, <1>9, ClosedOK

LEMMA BodyVersion ==
    ASSUME BodyInv, VersionInv,
           ReadChunk \/ StreamEnds \/ PartBody \/ FinalBoundary
    PROVE  VersionInv'
<1>1. ASSUME NEW whole \in BOOLEAN, ~whole, Finish(whole),
             UNCHANGED <<fileVars, request, copy>>
      PROVE  VersionInv'
  <2>1. server'.fd = NoFile /\ ~reply'.whole
    BY <1>1, FinishType DEF BodyInv
  <2>2. ResumeOneVersion'
    BY <2>1 DEF ResumeOneVersion, Resumed, Streamed
  <2> QED BY <1>1, <2>1, <2>2, ClosedOK
<1>2. CASE ReadChunk
  <2> DEFINE count == Lesser(Lesser(ChunkSize, Available), server.stop - server.offset)
  <2>1. /\ At("stream") /\ server.offset < server.stop
        /\ UNCHANGED <<fileVars, request, copy>>
        /\ IF count = 0 THEN Finish(FALSE)
           ELSE /\ Emit(Slice(server.fd, server.offset, count))
                /\ server' = [server EXCEPT !.offset = server.offset + count]
    BY <1>2 DEF ReadChunk
  <2>2. count \in Nat /\ server.offset + count <= server.stop
    <3>1. server \in Server /\ Available \in Nat /\ ChunkSize \in Nat
      BY <2>1, AvailableType, RespondAssumption DEF BodyInv, TypeInv
    <3> QED BY <2>1, <3>1 DEF Server, Lesser
  <2>3. CASE count = 0
    BY <1>1, <2>1, <2>3
  <2>4. CASE count # 0
    <3>1. Emit(Slice(server.fd, server.offset, count))
          /\ server' = [server EXCEPT !.offset = server.offset + count]
      BY <2>1, <2>4
    <3> HIDE DEF count
    <3> QED BY <2>1, <2>2, <3>1, ChunkVersion
  <2> QED BY <2>3, <2>4
<1>3. CASE StreamEnds
  <2>1. At("stream") /\ UNCHANGED <<fileVars, request, copy>>
        /\ Finish(Len(reply.sent) = reply.length)
    BY <1>3 DEF StreamEnds
  <2>2. ASSUME NEW whole \in BOOLEAN, whole = (Len(reply.sent) = reply.length)
        PROVE  VersionInv'
    <3>1. Finish(whole)
      BY <2>1, <2>2
    <3> QED BY <2>1, <3>1, StreamVersion
  <2> QED BY <2>2
<1>4. CASE PartBody
  <2> DEFINE want == Lesser(ChunkSize, server.stop - server.offset)
  <2>1. /\ At("partBody") /\ server.offset < server.stop
        /\ UNCHANGED <<fileVars, request, copy>>
        /\ IF Available < want THEN Finish(FALSE)
           ELSE /\ Emit(Slice(server.fd, server.offset, want))
                /\ server' = [server EXCEPT !.offset = server.offset + want]
    BY <1>4 DEF PartBody
  <2>2. want \in Nat /\ server.offset + want <= server.stop
    <3>1. server \in Server /\ ChunkSize \in Nat
      BY RespondAssumption DEF BodyInv, TypeInv
    <3> QED BY <2>1, <3>1 DEF Server, Lesser
  <2>3. CASE Available < want
    BY <1>1, <2>1, <2>3
  <2>4. CASE ~(Available < want)
    <3>1. Emit(Slice(server.fd, server.offset, want))
          /\ server' = [server EXCEPT !.offset = server.offset + want]
      BY <2>1, <2>4
    <3> HIDE DEF want
    <3> QED BY <2>1, <2>2, <3>1, ChunkVersion
  <2> QED BY <2>3, <2>4
<1>5. CASE FinalBoundary
  <2>1. At("part") /\ Done /\ UNCHANGED <<fileVars, request, copy>>
    BY <1>5 DEF FinalBoundary
  <2>2. server'.fd = NoFile
    BY <2>1, DoneType DEF BodyInv
  <2>3. DOMAIN Raw # {1}
    BY <2>1 DEF BodyInv, PartInv
  <2>4. request \notin {Rest("tag"), Rest("date")}
    BY <2>3, RestRange
  <2>5. request' = request /\ copy' = copy
    BY <2>1
  <2>6. ResumeOneVersion'
    BY <2>4, <2>5 DEF ResumeOneVersion, Resumed, Rest
  <2> QED BY <2>1, <2>2, <2>6, ClosedOK
<1> QED BY <1>2, <1>3, <1>4, <1>5

LEMMA ClientVersion ==
    ASSUME BodyInv, VersionInv, ClientStep \/ Receive
    PROVE  VersionInv'
<1>1. /\ UNCHANGED fileVars /\ server'.fd = NoFile /\ server'.at # "done"
      /\ \/ copy' = copy
         \/ copy' = NoCopy
         \/ Disconnect
  BY DEF ClientStep, Send, Resume, Revalidate, Disconnect, Receive, NoServer
<1>2. OpenInv' /\ ResumeOneVersion'
  BY <1>1 DEF OpenInv, ResumeOneVersion, Resumed, Streamed, At
<1>3. /\ files' = files /\ named' = named /\ stale' = stale
  BY <1>1 DEF fileVars
<1>4. CASE copy' = copy
  <2>1. CopyInv'
    BY <1>3, <1>4 DEF VersionInv, CopyInv, Target, Date, HaveAre
  <2> QED BY <1>2, <2>1 DEF VersionInv
<1>5. CASE copy' = NoCopy
  <2>1. CopyInv'
    BY <1>5 DEF CopyInv, NoCopy
  <2> QED BY <1>2, <2>1 DEF VersionInv
<1>6. CASE Disconnect
  <2>1. /\ At("stream")
        /\ copy' = [path |-> request.path,
                    have |-> [k \in DOMAIN reply.sent |-> reply.sent[k].of],
                    tag |-> server.repr.tag, date |-> server.repr.date,
                    disturbed |-> server.disturbed]
    BY <1>6 DEF Disconnect
  <2>2. /\ copy'.path = request.path /\ copy'.tag = server.repr.tag
        /\ copy'.date = server.repr.date
        /\ copy'.have = [k \in DOMAIN reply.sent |-> reply.sent[k].of]
    BY <2>1
  <2>3. server.fd # NoFile
    BY <2>1 DEF BodyInv, TypeInv, At
  <2>4. Holding("byte") = DOMAIN reply.sent
    BY <2>1 DEF BodyInv, StreamInv, Holding
  <2>5. \A of : SentAre(of) => \A k \in DOMAIN copy'.have : copy'.have[k] = of
    BY <2>2, <2>4 DEF SentAre
  <2> DEFINE target == Target(request.path)
  <2>6. /\ ~stale => server.repr.date <= Date(target)
        /\ ~stale /\ Date(target) <= server.repr.date =>
              server.fd = target /\ SentAre(files[server.fd].of)
        /\ ~server.repr.tag.weak => (files[1].of = 0 => SentAre(0))
    BY <2>3 DEF VersionInv, OpenInv
  <2>7. Target(copy.path)' = target /\ Date(Target(copy.path))' = Date(target)
    BY <1>3, <2>2 DEF Target, Date
  <2> HIDE DEF target
  <2>8. ~stale' => copy'.date <= Date(Target(copy.path))'
    BY <1>3, <2>2, <2>6, <2>7
  <2>9. ~stale' /\ Date(Target(copy.path))' <= copy'.date =>
           HaveAre(files[Target(copy.path)].of)'
    BY <1>3, <2>2, <2>5, <2>6, <2>7 DEF HaveAre
  <2>10. ~copy'.tag.weak /\ files'[1].of = 0 => HaveAre(0)'
    BY <1>3, <2>2, <2>5, <2>6 DEF HaveAre
  <2>11. CopyInv'
    BY <2>8, <2>9, <2>10 DEF CopyInv
  <2> QED BY <1>2, <2>11 DEF VersionInv
<1> QED BY <1>1, <1>4, <1>5, <1>6

\* A write leaves what a path names alone, or dates it later.
LEMMA WriteMoves ==
    ASSUME TypeInv, NEW i \in 1..Len(files) + 1, NEW len \in WriteLengths,
           NEW tick \in Later, NEW mtime \in {0, tick}, Written(i, len, mtime),
           now' = tick, named' = i, i = named \/ i = Len(files) + 1, ~stale', NEW path
    PROVE  /\ ~stale /\ Date(Target(path)) \in Nat /\ Date(Target(path))' \in Nat
           /\ \/ /\ Target(path)' = Target(path) /\ Target(path) # i
                 /\ files'[Target(path)] = files[Target(path)]
                 /\ Date(Target(path))' = Date(Target(path))
              \/ Date(Target(path)) < Date(Target(path))'
<1>1. mtime \in Nat /\ stale' = (stale \/ Second(mtime) <= Second(files[named].mtime))
  <2>1. now \in Nat /\ TicksPerSecond \in Nat
    BY RespondAssumption DEF TypeInv
  <2> QED BY <2>1 DEF Later, Written
<1>2. /\ Len(files') \in Nat /\ DOMAIN files' = 1..Len(files') /\ DOMAIN files = 1..Len(files)
      /\ i \in 1..Len(files')
      /\ files'[i] = [len |-> len, of |-> version + 1, mtime |-> mtime]
      /\ \A j \in 1..Len(files') : j # i => files'[j] = files[j]
      /\ Len(files) <= Len(files')
  BY <1>1, WrittenShape
<1>3. \A j \in 1..Len(files) : Date(j) \in Nat
  <2> TAKE j \in 1..Len(files)
  <2>1. files[j] \in Inode
    BY <1>2 DEF TypeInv
  <2> QED BY <2>1, SecondType DEF Date, Inode
<1>4. /\ named \in 1..Len(files) /\ 1 \in 1..Len(files) /\ Len(files) \in Nat
  BY DEF TypeInv
<1>5. \A j \in 1..Len(files) : j \in 1..Len(files')
  BY <1>2, <1>4
<1>6. Second(mtime) \in Nat /\ Second(mtime) > Date(named) /\ ~stale
  <2>1. Second(mtime) \in Nat /\ Date(named) \in Nat
    BY <1>1, <1>3, <1>4, SecondType
  <2>2. ~(stale \/ Second(mtime) <= Second(files[named].mtime))
    BY <1>1
  <2>3. ~(Second(mtime) <= Date(named)) /\ ~stale
    BY <2>2 DEF Date
  <2> QED BY <2>1, <2>3
<1>7. Second(files'[i].mtime) = Second(mtime)
  BY <1>2
<1>8. CASE Route(path).kind = "object"
  <2>1. Target(path) = 1 /\ Target(path)' = 1
    BY <1>8 DEF Target
  <2>2. CASE i = 1
    <3>1. named = 1
      BY <1>4, <2>2
    <3>2. Date(Target(path))' = Second(files'[1].mtime)
      BY <2>1 DEF Date
    <3> QED BY <1>3, <1>4, <1>6, <1>7, <2>1, <2>2, <3>1, <3>2
  <2>3. CASE i # 1
    <3>1. files'[1] = files[1]
      BY <1>2, <1>4, <1>5, <2>3
    <3>2. Date(Target(path))' = Date(1)
      BY <2>1, <3>1 DEF Date
    <3> QED BY <1>3, <1>4, <1>6, <2>1, <2>3, <3>1, <3>2
  <2> QED BY <2>2, <2>3
<1>9. CASE Route(path).kind # "object"
  <2>1. Target(path) = named /\ Target(path)' = i
    BY <1>9 DEF Target
  <2>2. Date(Target(path))' = Second(files'[i].mtime)
    BY <2>1 DEF Date
  <2> QED BY <1>3, <1>4, <1>6, <1>7, <2>1, <2>2
<1> QED BY <1>8, <1>9

LEMMA WriteVersion ==
    ASSUME BodyInv, VersionInv,
           NEW i \in 1..Len(files) + 1, NEW len \in WriteLengths,
           NEW tick \in Later, NEW mtime \in {0, tick}, Written(i, len, mtime),
           now' = tick, named' = i, i = named \/ i = Len(files) + 1
    PROVE  VersionInv'
<1>1. TypeInv /\ server \in Server /\ copy \in Copy
  BY DEF BodyInv, TypeInv
<1>3. mtime \in Nat
  BY <1>1, RespondAssumption DEF Later, TypeInv
<1>4. /\ DOMAIN files' = 1..Len(files') /\ DOMAIN files = 1..Len(files)
      /\ Len(files) \in Nat /\ Len(files') \in Nat /\ Len(files) <= Len(files')
      /\ files'[i] = [len |-> len, of |-> version + 1, mtime |-> mtime]
      /\ \A j \in 1..Len(files') : j # i => files'[j] = files[j]
      /\ version \in Nat
      /\ request' = request /\ reply' = reply /\ copy' = copy
      /\ server' = [server EXCEPT !.disturbed = server.disturbed \/ i = server.fd]
  BY <1>1, <1>3, WrittenShape DEF TypeInv
<1>5. /\ server'.at = server.at /\ server'.repr = server.repr /\ server'.fd = server.fd
      /\ server'.disturbed = (server.disturbed \/ i = server.fd)
  BY <1>1, <1>4 DEF Server
<1>6. ASSUME NEW j \in 1..Len(files), j # i PROVE files'[j] = files[j]
  BY <1>4, <1>6
<1>7. files'[1].of = 0 => files'[1] = files[1] /\ i # 1
  <2>1. files'[i].of = version + 1 /\ version + 1 # 0
    BY <1>4
  <2>2. 1 \in 1..Len(files)
    BY <1>1 DEF TypeInv
  <2> QED BY <1>6, <2>1, <2>2
<1>8. ASSUME ~stale', NEW path
      PROVE  /\ ~stale /\ Date(Target(path)) \in Nat /\ Date(Target(path))' \in Nat
             /\ \/ /\ Target(path)' = Target(path) /\ Target(path) # i
                   /\ files'[Target(path)] = files[Target(path)]
                   /\ Date(Target(path))' = Date(Target(path))
                \/ Date(Target(path)) < Date(Target(path))'
  BY <1>1, <1>8, WriteMoves
<1>9. /\ \A of : SentAre(of)' <=> SentAre(of)
      /\ \A of : HaveAre(of)' <=> HaveAre(of)
      /\ (Resuming' <=> Resuming)
  BY <1>4 DEF SentAre, HaveAre, Holding, Resuming, Rest
<1>10. CopyInv'
  <2> SUFFICES ASSUME copy.have # <<>> PROVE CopyInv'
    BY <1>4 DEF CopyInv
  <2>1. /\ ~stale => copy.date <= Date(Target(copy.path))
        /\ ~stale /\ Date(Target(copy.path)) <= copy.date =>
              HaveAre(files[Target(copy.path)].of)
        /\ ~copy.tag.weak /\ files[1].of = 0 => HaveAre(0)
    BY DEF VersionInv, CopyInv
  <2>2. copy.date \in Nat
    BY <1>1 DEF Copy
  <2>3. Target(copy.path)' = (IF Route(copy.path).kind = "object" THEN 1 ELSE named')
    BY <1>4 DEF Target
  <2>4. ~stale' => copy.date <= Date(Target(copy.path))'
    <3> SUFFICES ASSUME ~stale' PROVE copy.date <= Date(Target(copy.path))'
      OBVIOUS
    <3>1. /\ ~stale /\ Date(Target(copy.path)) \in Nat /\ Date(Target(copy.path))' \in Nat
          /\ Date(Target(copy.path)) <= Date(Target(copy.path))'
      <4>1. ASSUME NEW path, path = copy.path
            PROVE  /\ ~stale /\ Date(Target(copy.path)) \in Nat /\ Date(Target(copy.path))' \in Nat
                   /\ Date(Target(copy.path)) <= Date(Target(copy.path))'
        <5>1. Target(path) = Target(copy.path) /\ Target(path)' = Target(copy.path)'
              /\ Date(Target(path))' = Date(Target(copy.path))'
          BY <1>4, <4>1 DEF Target, Date
        <5> QED BY <1>8, <4>1, <5>1
      <4> QED BY <4>1
    <3> QED BY <2>1, <2>2, <3>1
  <2>5. ~stale' /\ Date(Target(copy.path))' <= copy.date =>
           HaveAre(files[Target(copy.path)].of)'
    <3> SUFFICES ASSUME ~stale', Date(Target(copy.path))' <= copy.date
                 PROVE  HaveAre(files[Target(copy.path)].of)'
      OBVIOUS
    <3>1. ASSUME NEW path, path = copy.path PROVE HaveAre(files[Target(copy.path)].of)'
      <4>1. Target(path) = Target(copy.path) /\ Target(path)' = Target(copy.path)'
            /\ Date(Target(path))' = Date(Target(copy.path))'
        BY <1>4, <3>1 DEF Target, Date
      <4>2. /\ ~stale /\ Date(Target(path)) \in Nat /\ Date(Target(path))' \in Nat
            /\ \/ /\ Target(path)' = Target(path)
                  /\ files'[Target(path)] = files[Target(path)]
                  /\ Date(Target(path))' = Date(Target(path))
               \/ Date(Target(path)) < Date(Target(path))'
        BY <1>8
      <4>3. /\ Target(path)' = Target(path) /\ Date(Target(path)) <= copy.date
            /\ files'[Target(path)] = files[Target(path)]
        BY <2>1, <2>2, <4>1, <4>2
      <4>4. HaveAre(files[Target(path)].of)
        BY <2>1, <4>1, <4>2, <4>3
      <4> QED BY <1>4, <4>1, <4>3, <4>4 DEF HaveAre
    <3> QED BY <3>1
  <2>6. ~copy'.tag.weak /\ files'[1].of = 0 => HaveAre(0)'
    BY <1>4, <1>7, <1>9, <2>1
  <2> QED BY <1>4, <2>4, <2>5, <2>6 DEF CopyInv
<1>11. ResumeOneVersion'
  <2> SUFFICES ASSUME Resumed' PROVE ResumeOneVersion'
    BY DEF ResumeOneVersion
  <2>1. server.fd = NoFile /\ server.fd # i
    <3>1. server.at = "done"
      BY <1>5 DEF Resumed, Streamed, At
    <3>2. server.fd = NoFile
      BY <1>1, <3>1 DEF TypeInv
    <3>3. i \in Nat
      BY <1>4
    <3> QED BY <3>2, <3>3, RespondAssumption
  <2>2. Resumed
    <3>1. Streamed <=> Streamed'
      BY <1>4, <1>5 DEF Streamed, At
    <3>2. ~server'.disturbed => ~server.disturbed
      BY <1>5
    <3>3. request \in {Rest("tag"), Rest("date")} <=> (request \in {Rest("tag"), Rest("date")})'
      BY <1>4 DEF Rest
    <3>4. OneVersion(copy.have)' <=> OneVersion(copy.have)
      BY <1>4 DEF OneVersion
    <3> QED BY <1>4, <3>1, <3>2, <3>3, <3>4 DEF Resumed
  <2>3. \/ OneVersion(copy.have \o [k \in DOMAIN reply.sent |-> reply.sent[k].of])
        \/ stale
        \/ request.ifRange.by = "tag" /\ files[1].of # 0
    BY <2>2 DEF VersionInv, ResumeOneVersion
  <2>4. stale => stale'
    BY DEF Written
  <2>5. OneVersion(copy'.have \o [k \in DOMAIN reply'.sent |-> reply'.sent[k].of])
          <=> OneVersion(copy.have \o [k \in DOMAIN reply.sent |-> reply.sent[k].of])
    BY <1>4
  <2>6. files[1].of # 0 => files'[1].of # 0
    BY <1>7
  <2> QED BY <1>4, <2>3, <2>4, <2>5, <2>6 DEF ResumeOneVersion
<1>12. OpenInv'
  <2> SUFFICES ASSUME server.fd # NoFile PROVE OpenInv'
    BY <1>5 DEF OpenInv
  <2>1. /\ ~stale => server.repr.date <= Date(Target(request.path))
        /\ ~stale /\ Date(Target(request.path)) <= server.repr.date =>
              server.fd = Target(request.path) /\ SentAre(files[server.fd].of)
        /\ ~server.disturbed =>
              /\ server.repr.date = Date(server.fd)
              /\ SentAre(files[server.fd].of)
        /\ ~server.repr.tag.weak =>
              server.fd = 1 /\ (files[1].of = 0 => SentAre(0))
        /\ Resuming /\ ~server.disturbed /\ ~stale
              /\ server.repr.date <= copy.date => HaveAre(files[server.fd].of)
        /\ At("coalesce") \/ reply.status = 206 =>
              ~RangeIsStale(request, server.repr.tag, server.repr.date)
    BY DEF VersionInv, OpenInv
  <2>2. server.repr.date \in Nat /\ server.fd \in 1..Len(files)
    BY <1>1 DEF Server, Repr, TypeInv
  <2>3. server.fd # i => files'[server.fd] = files[server.fd]
    BY <1>6, <2>2
  <2>4. ASSUME ~stale'
        PROVE  /\ server.repr.date <= Date(Target(request.path))'
               /\ Date(Target(request.path))' <= server.repr.date =>
                     server.fd = Target(request.path)' /\ SentAre(files[server.fd].of)'
    <3>1. ASSUME NEW path, path = request.path
          PROVE  /\ server.repr.date <= Date(Target(request.path))'
                 /\ Date(Target(request.path))' <= server.repr.date =>
                       server.fd = Target(request.path)' /\ SentAre(files[server.fd].of)'
      <4>1. Target(path) = Target(request.path) /\ Target(path)' = Target(request.path)'
            /\ Date(Target(path))' = Date(Target(request.path))'
        BY <1>4, <3>1 DEF Target, Date
      <4>2. /\ ~stale /\ Date(Target(path)) \in Nat /\ Date(Target(path))' \in Nat
            /\ \/ /\ Target(path)' = Target(path) /\ Target(path) # i
                  /\ files'[Target(path)] = files[Target(path)]
                  /\ Date(Target(path))' = Date(Target(path))
               \/ Date(Target(path)) < Date(Target(path))'
        BY <1>8, <2>4
      <4>3. server.repr.date <= Date(Target(path))
        BY <2>1, <4>1, <4>2
      <4>4. server.repr.date <= Date(Target(path))'
        BY <2>2, <4>2, <4>3
      <4>5. ASSUME Date(Target(path))' <= server.repr.date
            PROVE  server.fd = Target(path)' /\ SentAre(files[server.fd].of)'
        <5>1. /\ Target(path)' = Target(path) /\ Date(Target(path)) <= server.repr.date
              /\ files'[Target(path)] = files[Target(path)]
          BY <2>2, <4>2, <4>3, <4>5
        <5>2. server.fd = Target(path) /\ SentAre(files[server.fd].of)
          BY <2>1, <4>1, <4>2, <5>1
        <5> QED BY <1>4, <1>5, <5>1, <5>2 DEF SentAre, Holding
      <4> QED BY <4>1, <4>4, <4>5
    <3> QED BY <3>1
  <2>5. ASSUME ~server'.disturbed
        PROVE  server.repr.date = Date(server.fd)' /\ SentAre(files[server.fd].of)'
    <3>1. ~server.disturbed /\ files'[server.fd] = files[server.fd]
      BY <1>5, <2>3, <2>5
    <3>2. Date(server.fd)' = Date(server.fd)
      BY <1>5, <3>1 DEF Date
    <3> QED BY <1>4, <1>5, <2>1, <3>1, <3>2 DEF SentAre, Holding
  <2>6. ~server.repr.tag.weak =>
           server.fd = 1 /\ (files'[1].of = 0 => SentAre(0)')
    BY <1>7, <1>9, <2>1
  <2>7. ASSUME Resuming', ~server'.disturbed, ~stale', server.repr.date <= copy.date
        PROVE  HaveAre(files[server.fd].of)'
    <3>1. ~server.disturbed /\ files'[server.fd] = files[server.fd] /\ ~stale /\ Resuming
      BY <1>5, <1>9, <2>3, <2>7 DEF Written
    <3>2. HaveAre(files[server.fd].of)
      BY <2>1, <2>7, <3>1
    <3> QED BY <1>4, <1>5, <3>1, <3>2 DEF HaveAre
  <2>8. At("coalesce")' \/ reply'.status = 206 =>
           ~RangeIsStale(request', server'.repr.tag, server'.repr.date)
    BY <1>4, <1>5, <2>1 DEF At
  <2>9. /\ server'.fd = server.fd /\ server'.repr = server.repr /\ copy' = copy
    BY <1>4, <1>5
  <2> QED BY <2>4, <2>5, <2>6, <2>7, <2>8, <2>9 DEF OpenInv
<1> QED BY <1>10, <1>11, <1>12 DEF VersionInv

LEMMA VersionOthers ==
    ASSUME BodyInv, VersionInv, Rewrite \/ Replace
    PROVE  VersionInv'
<1>0. TypeInv
  BY DEF BodyInv
<1>1. CASE Rewrite
  <2>1. PICK tick \in Later, len \in WriteLengths :
           Written(named, len, tick) /\ now' = tick /\ named' = named
    BY <1>1 DEF Rewrite
  <2>2. named \in 1..Len(files) + 1
    BY <1>0 DEF TypeInv
  <2>3. ASSUME NEW i \in 1..Len(files) + 1, i = named PROVE VersionInv'
    BY <2>1, <2>3, WriteVersion
  <2> QED BY <2>2, <2>3
<1>2. CASE Replace
  <2> DEFINE new == Len(files) + 1
  <2>1. PICK tick \in Later, len \in WriteLengths : \E mtime \in {0, tick} :
           Written(new, len, mtime) /\ now' = tick /\ named' = new
    BY <1>2 DEF Replace
  <2>2. PICK mtime \in {0, tick} : Written(new, len, mtime) /\ now' = tick /\ named' = new
    BY <2>1
  <2>3. new \in 1..Len(files) + 1
    BY <1>0 DEF TypeInv
  <2>4. ASSUME NEW i \in 1..Len(files) + 1, i = new PROVE VersionInv'
    <3>1. Written(i, len, mtime) /\ named' = i /\ i = Len(files) + 1
      BY <2>2, <2>4
    <3> QED BY <2>2, <3>1, WriteVersion
  <2> QED BY <2>3, <2>4
<1> QED BY <1>1, <1>2

LEMMA VersionStutter ==
    ASSUME VersionInv, UNCHANGED respondVars PROVE VersionInv'
<1>1. /\ files' = files /\ named' = named /\ stale' = stale /\ request' = request
      /\ server' = server /\ reply' = reply /\ copy' = copy
  BY DEF respondVars, fileVars
<1>2. OpenInv'
  BY <1>1 DEF VersionInv, OpenInv, Target, Date, SentAre, HaveAre, Holding, Resuming, Rest, At
<1>3. CopyInv'
  BY <1>1 DEF VersionInv, CopyInv, Target, Date, HaveAre
<1>4. ResumeOneVersion'
  BY <1>1 DEF VersionInv, ResumeOneVersion, Resumed, Streamed, OneVersion, Rest, At
<1> QED BY <1>2, <1>3, <1>4 DEF VersionInv

\* What is open and what a client has kept agree on the version they are of.
THEOREM VersionInvariant == RespondSpec => []VersionInv
<1>1. RespondInit => VersionInv
  BY VersionInit
<1>2. ASSUME BodyInv, VersionInv, [RespondNext]_respondVars PROVE VersionInv'
  <2>1. CASE HandleOther \/ PreconditionBlocks \/ RangeRejected \/ FullResponse \/ Select
    BY <1>2, <2>1, HeadVersion
  <2>2. CASE Handle
    BY <1>2, <2>2, HandleVersion
  <2>3. CASE ReadChunk \/ StreamEnds
    BY <1>2, <2>3, BodyVersion
  <2>4. CASE MultipartStep
    BY <1>2, <2>4, BodyVersion, FrameVersion DEF MultipartStep
  <2>5. CASE ClientStep \/ Receive
    BY <1>2, <2>5, ClientVersion
  <2>6. CASE Rewrite \/ Replace
    BY <1>2, <2>6, VersionOthers
  <2>7. CASE UNCHANGED respondVars
    BY <1>2, <2>7, VersionStutter
  <2> QED BY <1>2, <2>1, <2>2, <2>3, <2>4, <2>5, <2>6, <2>7 DEF RespondNext, ServerStep
<1> QED BY <1>1, <1>2, RespondInvariant, PTL DEF RespondSpec

\* A download that was broken off and resumed is one version of the file,
\* unless a write hid behind the second that Last-Modified counts in, or the
\* object was written to: If-Range is checked against the tag and the date of
\* the descriptor the rest is then read from.
THEOREM ResumedIsOneVersion == RespondSpec => []ResumeOneVersion
<1>1. VersionInv => ResumeOneVersion
  BY DEF VersionInv
<1> QED BY <1>1, VersionInvariant, PTL

-----------------------------------------------------------------------------
(* A copy and its tag, against the file that is there.                      *)

FileTag(inode) == WeakTag(inode, files[inode].len, files[inode].mtime)

IsObject(path) == Route(path).kind = "object"

\* No two inodes hold the same version.
Apart ==
    \A i \in DOMAIN files :
       /\ files[i].of <= version
       /\ \A j \in DOMAIN files : files[j].of = files[i].of => j = i

\* A tag goes with the inode it was made of, until a write dates that later.
OpenTag ==
    server.fd # NoFile =>
       /\ server.repr.tag.weak <=> ~IsObject(request.path)
       /\ ~server.repr.tag.weak => server.repr.tag = StrongTag
       /\ server.repr.tag.weak =>
             /\ server.repr.tag.inode = server.fd
             /\ ~server.disturbed => server.repr.tag = FileTag(server.fd)
             /\ server.disturbed => server.repr.tag.mtime < files[server.fd].mtime

CopyTag ==
    copy.have # <<>> =>
       /\ copy.tag.weak <=> ~IsObject(copy.path)
       /\ ~copy.tag.weak => copy.tag = StrongTag
       /\ copy.tag.weak =>
             LET i == copy.tag.inode
             IN  /\ i \in DOMAIN files /\ copy.tag.mtime <= files[i].mtime
                 /\ copy.tag.mtime = files[i].mtime => HaveAre(files[i].of)
       /\ ~copy.disturbed =>
             /\ \A k \in DOMAIN copy.have : copy.have[k] <= version
             /\ \A i \in DOMAIN files : HaveAre(files[i].of) =>
                   /\ copy.date = Date(i)
                   /\ copy.tag.weak => copy.tag = FileTag(i)

TagInv == Apart /\ OpenTag /\ CopyTag

LEMMA TagInit == RespondInit => TagInv
<1> SUFFICES ASSUME RespondInit PROVE TagInv
  OBVIOUS
<1>1. /\ server.fd = NoFile /\ copy.have = <<>> /\ version = 0
      /\ files = << [len |-> Length, of |-> 0, mtime |-> 0] >>
  BY DEF RespondInit, NoServer, NoCopy
<1>2. DOMAIN files = {1} /\ files[1].of = 0
  BY <1>1
<1>3. Apart
  BY <1>1, <1>2 DEF Apart
<1> QED BY <1>1, <1>3 DEF TagInv, OpenTag, CopyTag

\* A step of the server that opens nothing.
LEMMA TagKept ==
    ASSUME TagInv, UNCHANGED <<fileVars, request>>, copy' = copy \/ copy' = NoCopy,
           \/ server'.fd = NoFile
           \/ /\ server'.fd = server.fd /\ server'.repr = server.repr
              /\ server'.disturbed = server.disturbed
    PROVE  TagInv'
<1>1. files' = files /\ version' = version /\ request' = request
  BY DEF fileVars
<1>2. Apart'
  BY <1>1 DEF TagInv, Apart
<1>3. OpenTag'
  BY <1>1 DEF TagInv, OpenTag, FileTag, IsObject
<1>4. CASE copy' = copy
  <2>1. CopyTag'
    BY <1>1, <1>4 DEF TagInv, CopyTag, FileTag, IsObject, HaveAre, Date
  <2> QED BY <1>2, <1>3, <2>1 DEF TagInv
<1>5. CASE copy' = NoCopy
  <2>1. CopyTag'
    BY <1>5 DEF CopyTag, NoCopy
  <2> QED BY <1>2, <1>3, <2>1 DEF TagInv
<1> QED BY <1>4, <1>5

LEMMA OpensTag ==
    ASSUME BodyInv, TagInv, NEW i \in DOMAIN files, NEW strong \in BOOLEAN,
           strong = IsObject(request.path), Opens(i, strong),
           UNCHANGED <<fileVars, request, copy>>
    PROVE  TagInv'
<1> DEFINE repr == Representation(i, strong)
<1>1. /\ strong => repr.tag = StrongTag
      /\ ~strong => repr.tag = FileTag(i)
  BY DEF Representation, FileTag
<1>2. server' = [NoServer EXCEPT !.at = "evaluate", !.fd = i, !.repr = repr]
  BY DEF Opens
<1> HIDE DEF repr
<1>3. server'.fd = i /\ server'.repr = repr /\ ~server'.disturbed
  BY <1>2 DEF NoServer
<1>4. files' = files /\ version' = version /\ request' = request /\ copy' = copy
  BY DEF fileVars
<1>5. ~StrongTag.weak /\ FileTag(i).weak /\ FileTag(i).inode = i
  BY DEF StrongTag, FileTag, WeakTag
<1>6. IsObject(request.path)' = strong /\ FileTag(i)' = FileTag(i)
  BY <1>4 DEF IsObject, FileTag
<1>7. FileTag(server.fd)' = FileTag(i)
  BY <1>3, <1>4 DEF FileTag
<1>8. OpenTag'
  BY <1>1, <1>3, <1>5, <1>6, <1>7 DEF OpenTag
<1>9. Apart' /\ CopyTag'
  BY <1>4 DEF TagInv, Apart, CopyTag, FileTag, IsObject, HaveAre, Date
<1> QED BY <1>8, <1>9 DEF TagInv

\* Handling a request opens what its path is, or nothing.
LEMMA HandleTag ==
    ASSUME BodyInv, TagInv, Handle PROVE TagInv'
<1> DEFINE route == Route(request.path)
<1>1. UNCHANGED <<fileVars, request, copy>> /\ TypeInv
  BY DEF Handle, BodyInv
<1>2. \/ route.kind = "none" /\ Empty(route.status)
      \/ route.kind = "object" /\ Opens(1, TRUE)
      \/ route.kind = "file" /\ Opens(named, FALSE)
      \/ server'.fd = NoFile
  BY DEF Handle, NoServer
<1>3. 1 \in DOMAIN files /\ named \in DOMAIN files
  BY <1>1 DEF TypeInv
<1>4. CASE route.kind = "none" /\ Empty(route.status)
  <2>1. route.status \in Nat
    BY RouteShape
  <2> QED BY <1>1, <1>4, <2>1, EmptyType, TagKept
<1>5. CASE route.kind = "object" /\ Opens(1, TRUE)
  BY <1>1, <1>3, <1>5, OpensTag DEF IsObject
<1>6. CASE route.kind = "file" /\ Opens(named, FALSE)
  BY <1>1, <1>3, <1>6, OpensTag DEF IsObject
<1>7. CASE server'.fd = NoFile
  BY <1>1, <1>7, TagKept
<1> QED BY <1>2, <1>4, <1>5, <1>6, <1>7

\* No other step of the server opens a file, or forgets about one it keeps.
LEMMA ServerKeeps ==
    ASSUME BodyInv, ServerStep, ~Handle
    PROVE  /\ UNCHANGED <<fileVars, request, copy>>
           /\ \/ server'.fd = NoFile
              \/ /\ server'.fd = server.fd /\ server'.repr = server.repr
                 /\ server'.disturbed = server.disturbed
<1>1. TypeInv /\ server \in Server
  BY DEF BodyInv, TypeInv
<1>2. UNCHANGED <<fileVars, request, copy>>
  BY DEF ServerStep, HandleOther, PreconditionBlocks, RangeRejected, FullResponse,
         Select, ClampRanges, Coalesce, SingleRange, Multipart, TooManyRanges,
         ReadChunk, StreamEnds, MultipartStep, NextPart, PartBody, PartTrailer,
         FinalBoundary
<1> DEFINE Kept == /\ server'.fd = server.fd /\ server'.repr = server.repr
                   /\ server'.disturbed = server.disturbed
           Closed == server'.fd = NoFile
<1> SUFFICES Closed \/ Kept
  BY <1>2
<1>3. ASSUME NEW status, Empty(status) PROVE Closed
  BY <1>1, <1>3, DoneType DEF Empty
<1>4. ASSUME NEW whole, Finish(whole) PROVE Closed
  BY <1>1, <1>4, DoneType DEF Finish
<1>5. ASSUME NEW status, NEW length, NEW stage, Starts(status, length, stage)
      PROVE  Closed \/ Kept
  BY <1>1, <1>3, <1>5 DEF Starts, Server
<1>6. CASE HandleOther \/ RangeRejected \/ TooManyRanges
  BY <1>3, <1>6 DEF HandleOther, RangeRejected, TooManyRanges
<1>7. CASE PreconditionBlocks
  BY <1>3, <1>7 DEF PreconditionBlocks
<1>8. CASE FullResponse \/ Multipart
  BY <1>5, <1>8 DEF FullResponse, Multipart
<1>9. CASE ClampRanges
  <2>1. \/ Empty(416)
        \/ server' = [server EXCEPT !.at = "coalesce",
                        !.todo = Satisfiable(RawRanges(request.range), server.repr.len)]
    BY <1>9 DEF ClampRanges
  <2> QED BY <1>1, <1>3, <2>1 DEF Server
<1>10. CASE Coalesce
  <2>1. PICK r \in server.todo :
           server' = [server EXCEPT !.todo = server.todo \ {r},
                                    !.ranges = Absorb(server.ranges, r)]
    BY <1>10 DEF Coalesce
  <2> QED BY <1>1, <2>1 DEF Server
<1>11. CASE SingleRange
  <2> DEFINE r == server.ranges[1]
  <2>1. \/ Empty(206)
        \/ server' = [server EXCEPT !.at = "stream", !.offset = r.start,
                                    !.stop = r.end + 1]
    BY <1>11 DEF SingleRange
  <2> QED BY <1>1, <1>3, <2>1 DEF Server
<1>12. CASE ReadChunk
  <2> DEFINE count == Lesser(Lesser(ChunkSize, Available), server.stop - server.offset)
  <2>1. \/ Finish(FALSE)
        \/ server' = [server EXCEPT !.offset = server.offset + count]
    BY <1>12 DEF ReadChunk
  <2> QED BY <1>1, <1>4, <2>1 DEF Server
<1>13. CASE StreamEnds
  BY <1>4, <1>13 DEF StreamEnds
<1>14. CASE NextPart \/ PartTrailer
  <2>1. \/ server' = [server EXCEPT !.at = "part"]
        \/ server' = [server EXCEPT !.at = "partBody", !.offset = server.ranges[1].start,
                         !.stop = server.ranges[1].end + 1, !.ranges = Tail(server.ranges)]
    BY <1>14 DEF NextPart, PartTrailer
  <2> QED BY <1>1, <2>1 DEF Server
<1>15. CASE PartBody
  <2> DEFINE want == Lesser(ChunkSize, server.stop - server.offset)
  <2>1. \/ Finish(FALSE)
        \/ server' = [server EXCEPT !.offset = server.offset + want]
    BY <1>15 DEF PartBody
  <2> QED BY <1>1, <1>4, <2>1 DEF Server
<1>16. CASE FinalBoundary
  BY <1>1, <1>16, DoneType DEF FinalBoundary
<1>17. Closed \/ Kept
  BY <1>6, <1>7, <1>8, <1>9, <1>10, <1>11, <1>12, <1>13, <1>14, <1>15, <1>16
     DEF ServerStep, Select, MultipartStep
<1> QED BY <1>17

LEMMA DisconnectTag ==
    ASSUME BodyInv, VersionInv, TagInv, Disconnect PROVE TagInv'
<1>1. /\ At("stream") /\ server' = NoServer /\ UNCHANGED fileVars
      /\ copy' = [path |-> request.path,
                  have |-> [k \in DOMAIN reply.sent |-> reply.sent[k].of],
                  tag |-> server.repr.tag, date |-> server.repr.date,
                  disturbed |-> server.disturbed]
      /\ reply.sent # <<>>
  BY DEF Disconnect
<1>2. /\ copy'.path = request.path /\ copy'.tag = server.repr.tag
      /\ copy'.date = server.repr.date /\ copy'.disturbed = server.disturbed
      /\ copy'.have = [k \in DOMAIN reply.sent |-> reply.sent[k].of]
  BY <1>1
<1>3. files' = files /\ version' = version
  BY <1>1 DEF fileVars
<1>4. /\ server.fd # NoFile /\ server.fd \in DOMAIN files /\ TypeInv
      /\ server \in Server /\ reply \in Reply
  BY <1>1 DEF BodyInv, TypeInv, At
<1> DEFINE fd == server.fd
           tag == server.repr.tag
           Have(of) == \A k \in DOMAIN copy'.have : copy'.have[k] = of
<1>5. /\ (tag.weak <=> ~IsObject(request.path)) /\ (~tag.weak => tag = StrongTag)
      /\ tag.weak => /\ tag.inode = fd
                     /\ ~server.disturbed => tag = FileTag(fd)
                     /\ server.disturbed => tag.mtime < files[fd].mtime
  BY <1>4 DEF TagInv, OpenTag
<1>6. ~server.disturbed => server.repr.date = Date(fd) /\ SentAre(files[fd].of)
  BY <1>4 DEF VersionInv, OpenInv
<1>7. Holding("byte") = DOMAIN reply.sent
  BY <1>1 DEF BodyInv, StreamInv, Holding
<1>8. \A of : SentAre(of) => Have(of)
  BY <1>2, <1>7 DEF SentAre
<1>9. PICK k \in DOMAIN reply.sent : TRUE
  <2>1. reply.sent \in Seq(Item)
    BY <1>4 DEF Reply
  <2>2. 1 \in DOMAIN reply.sent
    BY <1>1, <2>1
  <2> QED BY <2>2
<1>10. Apart' /\ OpenTag'
  BY <1>1, <1>3 DEF TagInv, Apart, OpenTag, NoServer
<1>11. /\ files[fd].mtime \in Nat /\ tag \in Tags
       /\ \A i \in DOMAIN files : files[i].of <= version
       /\ \A i \in DOMAIN files : files[i].of = files[fd].of => i = fd
  <2>1. files[fd] \in Inode /\ tag \in Tags
    BY <1>4 DEF TypeInv, Server, Repr
  <2> QED BY <1>4, <2>1 DEF TypeInv, Inode, TagInv, Apart
<1>12. tag.weak => /\ tag.inode \in DOMAIN files /\ tag.mtime <= files[tag.inode].mtime
                   /\ tag.mtime = files[tag.inode].mtime => Have(files[tag.inode].of)
  <2> SUFFICES ASSUME tag.weak
               PROVE  /\ tag.mtime <= files[fd].mtime
                      /\ tag.mtime = files[fd].mtime => Have(files[fd].of)
    BY <1>4, <1>5
  <2>1. tag.mtime \in Nat
    BY <1>11 DEF Tags
  <2>2. CASE server.disturbed
    BY <1>5, <1>11, <2>1, <2>2
  <2>3. CASE ~server.disturbed
    <3>1. tag.mtime = files[fd].mtime
      BY <1>5, <2>3 DEF FileTag, WeakTag
    <3> QED BY <1>6, <1>8, <1>11, <2>3, <3>1
  <2> QED BY <2>2, <2>3 DEF TypeInv
<1>13. ASSUME ~server.disturbed
       PROVE  /\ \A j \in DOMAIN copy'.have : copy'.have[j] <= version
              /\ \A i \in DOMAIN files : Have(files[i].of) =>
                    server.repr.date = Date(i) /\ (tag.weak => tag = FileTag(i))
  <2>1. \A j \in DOMAIN copy'.have : copy'.have[j] = files[fd].of
    BY <1>2, <1>6, <1>7, <1>13 DEF SentAre
  <2>2. ASSUME NEW i \in DOMAIN files, Have(files[i].of) PROVE i = fd
    <3>1. copy'.have[k] = files[i].of
      BY <1>2, <1>9, <2>2
    <3>2. copy'.have[k] = files[fd].of
      BY <1>2, <1>9, <2>1
    <3> QED BY <1>11, <3>1, <3>2
  <2> QED BY <1>4, <1>5, <1>6, <1>11, <1>13, <2>1, <2>2
<1>14. CopyTag'
  <2>1. /\ \A i : FileTag(i)' = FileTag(i) /\ Date(i)' = Date(i)
        /\ IsObject(copy.path)' = IsObject(request.path)
    BY <1>2, <1>3 DEF FileTag, Date, IsObject
  <2> HIDE DEF fd, tag
  <2>2. \A of : Have(of) <=> \A j \in DOMAIN copy'.have : copy'.have[j] = of
    OBVIOUS
  <2> HIDE DEF Have
  <2>3. \A i : HaveAre(files[i].of)' <=> Have(files[i].of)
    BY <1>3, <2>2 DEF HaveAre
  <2> QED BY <1>2, <1>3, <1>5, <1>12, <1>13, <2>1, <2>3 DEF CopyTag, tag
<1> QED BY <1>10, <1>14 DEF TagInv

LEMMA ClientTag ==
    ASSUME BodyInv, VersionInv, TagInv, ClientStep \/ Receive PROVE TagInv'
<1>1. CASE Disconnect
  BY <1>1, DisconnectTag
<1>2. CASE ~Disconnect
  <2>1. /\ UNCHANGED fileVars /\ server'.fd = NoFile
        /\ copy' = copy \/ copy' = NoCopy
    BY <1>2 DEF ClientStep, Send, Resume, Revalidate, Receive, NoServer
  <2>2. files' = files /\ version' = version
    BY <2>1 DEF fileVars
  <2>3. Apart' /\ OpenTag'
    BY <2>1, <2>2 DEF TagInv, Apart, OpenTag
  <2>4. CASE copy' = copy
    <3>1. CopyTag'
      BY <2>2, <2>4 DEF TagInv, CopyTag, FileTag, IsObject, HaveAre, Date
    <3> QED BY <2>3, <3>1 DEF TagInv
  <2>5. CASE copy' = NoCopy
    <3>1. CopyTag'
      BY <2>5 DEF CopyTag, NoCopy
    <3> QED BY <2>3, <3>1 DEF TagInv
  <2> QED BY <2>1, <2>4, <2>5
<1> QED BY <1>1, <1>2

\* A write makes a version of its own, and dates what it writes into later.
LEMMA WriteTag ==
    ASSUME BodyInv, TagInv,
           NEW i \in 1..Len(files) + 1, NEW len \in WriteLengths,
           NEW tick \in Later, NEW mtime \in {0, tick}, Written(i, len, mtime),
           i = Len(files) + 1 \/ mtime = tick
    PROVE  TagInv'
<1>1. TypeInv /\ server \in Server /\ copy \in Copy /\ now \in Nat
  BY DEF BodyInv, TypeInv
<1>2. mtime \in Nat /\ (mtime = tick => now < mtime)
  BY <1>1, RespondAssumption DEF Later
<1>3. /\ DOMAIN files' = 1..Len(files') /\ DOMAIN files = 1..Len(files)
      /\ Len(files) \in Nat /\ Len(files') \in Nat /\ Len(files) <= Len(files')
      /\ i \in 1..Len(files')
      /\ files'[i] = [len |-> len, of |-> version + 1, mtime |-> mtime]
      /\ \A j \in 1..Len(files') : j # i => j \in 1..Len(files) /\ files'[j] = files[j]
      /\ version' = version + 1 /\ version \in Nat
      /\ request' = request /\ reply' = reply /\ copy' = copy
      /\ server' = [server EXCEPT !.disturbed = server.disturbed \/ i = server.fd]
  BY <1>1, <1>2, WrittenShape DEF TypeInv
<1>4. /\ server'.repr = server.repr /\ server'.fd = server.fd
      /\ server'.disturbed = (server.disturbed \/ i = server.fd)
  BY <1>1, <1>3 DEF Server
<1>5. ASSUME NEW j \in 1..Len(files)
      PROVE  /\ j \in 1..Len(files') /\ files[j].mtime \in Nat /\ files[j].mtime <= now
             /\ files[j].of \in Nat /\ files[j].of <= version
  <2>1. files[j] \in Inode /\ files[j].mtime <= now
    BY <1>1, <1>3 DEF TypeInv
  <2>2. files[j].of <= version
    BY <1>3 DEF TagInv, Apart
  <2> QED BY <1>3, <2>1, <2>2 DEF Inode, Version
<1>6. i \in 1..Len(files) => now < mtime
  BY <1>2, <1>3
<1>7. Apart'
  <2>1. \A j \in 1..Len(files') : /\ files'[j].of <= version + 1
                                  /\ j # i => files'[j].of <= version
    BY <1>3, <1>5
  <2>2. \A j \in 1..Len(files') : j # i => files'[j].of \in Nat
    BY <1>3, <1>5
  <2>3. \A j, k \in 1..Len(files') : files'[j].of = files'[k].of => j = k
    <3> SUFFICES ASSUME NEW j \in 1..Len(files'), NEW k \in 1..Len(files'),
                        files'[j].of = files'[k].of
                 PROVE  j = k
      OBVIOUS
    <3>1. CASE j = i
      BY <1>3, <2>1, <2>2, <3>1
    <3>2. CASE k = i
      BY <1>3, <2>1, <2>2, <3>2
    <3>3. CASE j # i /\ k # i
      <4>1. /\ j \in DOMAIN files /\ k \in DOMAIN files
            /\ files[j].of = files[k].of
        BY <1>3, <3>3
      <4> QED BY <4>1 DEF TagInv, Apart
    <3> QED BY <3>1, <3>2, <3>3
  <2> QED BY <1>3, <2>1, <2>3 DEF Apart
<1>8. OpenTag'
  <2> SUFFICES ASSUME server.fd # NoFile PROVE OpenTag'
    BY <1>4 DEF OpenTag
  <2>1. server.fd \in 1..Len(files) /\ server.repr.tag \in Tags
    BY <1>1 DEF TypeInv, Server, Repr
  <2>2. /\ server.repr.tag.weak <=> ~IsObject(request.path)
        /\ ~server.repr.tag.weak => server.repr.tag = StrongTag
        /\ server.repr.tag.weak =>
              /\ server.repr.tag.inode = server.fd
              /\ ~server.disturbed => server.repr.tag = FileTag(server.fd)
              /\ server.disturbed => server.repr.tag.mtime < files[server.fd].mtime
    BY DEF TagInv, OpenTag
  <2>3. IsObject(request.path)' = IsObject(request.path)
    BY <1>3 DEF IsObject
  <2>4. CASE i # server.fd
    <3>1. files'[server.fd] = files[server.fd] /\ (server'.disturbed <=> server.disturbed)
      <4>1. server.fd \in 1..Len(files')
        BY <1>5, <2>1
      <4> QED BY <1>3, <1>4, <2>4, <4>1
    <3>2. FileTag(server.fd)' = FileTag(server.fd)
      BY <1>4, <3>1 DEF FileTag
    <3> QED BY <1>4, <2>2, <2>3, <3>1, <3>2 DEF OpenTag
  <2>5. CASE i = server.fd
    <3>1. server'.disturbed /\ files'[server.fd].mtime = mtime /\ now < mtime
      <4>1. files'[server.fd] = [len |-> len, of |-> version + 1, mtime |-> mtime]
        BY <1>3, <2>5
      <4>2. server'.disturbed
        BY <1>4, <2>5
      <4>3. now < mtime
        BY <1>6, <2>1, <2>5
      <4> QED BY <4>1, <4>2, <4>3
    <3>2. server.repr.tag.weak => server.repr.tag.mtime <= files[server.fd].mtime
      <4>1. server.repr.tag.mtime \in Nat /\ files[server.fd].mtime \in Nat
        BY <1>5, <2>1 DEF Tags
      <4>2. FileTag(server.fd).mtime = files[server.fd].mtime
        BY DEF FileTag, WeakTag
      <4> QED BY <2>2, <4>1, <4>2
    <3>3. server.repr.tag.weak => server.repr.tag.mtime < mtime
      <4>1. server.repr.tag.mtime \in Nat /\ files[server.fd].mtime \in Nat
            /\ files[server.fd].mtime <= now
        BY <1>5, <2>1 DEF Tags
      <4> QED BY <1>1, <1>2, <3>1, <3>2, <4>1
    <3> QED BY <1>4, <2>2, <2>3, <3>1, <3>3 DEF OpenTag
  <2> QED BY <2>4, <2>5
<1>9. CopyTag'
  <2> SUFFICES ASSUME copy.have # <<>> PROVE CopyTag'
    BY <1>3 DEF CopyTag
  <2>1. /\ copy.tag.weak <=> ~IsObject(copy.path)
        /\ ~copy.tag.weak => copy.tag = StrongTag
    BY DEF TagInv, CopyTag
  <2>2. /\ \A of : HaveAre(of)' <=> HaveAre(of)
        /\ IsObject(copy.path)' = IsObject(copy.path)
    BY <1>3 DEF HaveAre, IsObject
  <2> DEFINE n == copy.tag.inode
  <2>3. ASSUME copy.tag.weak
        PROVE  /\ n \in DOMAIN files' /\ copy.tag.mtime <= files'[n].mtime
               /\ copy.tag.mtime = files'[n].mtime => HaveAre(files'[n].of)
    <3>1. /\ n \in 1..Len(files) /\ copy.tag.mtime <= files[n].mtime
          /\ copy.tag.mtime = files[n].mtime => HaveAre(files[n].of)
      BY <1>3, <2>3 DEF TagInv, CopyTag
    <3>2. copy.tag.mtime \in Nat /\ files[n].mtime \in Nat /\ files[n].mtime <= now
          /\ n \in 1..Len(files')
      BY <1>1, <1>5, <3>1 DEF Copy, Tags
    <3>3. CASE n # i
      BY <1>3, <3>1, <3>2, <3>3
    <3>4. CASE n = i
      <4>1. files'[n].mtime = mtime /\ now < mtime
        BY <1>3, <1>6, <3>1, <3>4
      <4> QED BY <1>1, <1>2, <1>3, <3>1, <3>2, <4>1
    <3> QED BY <3>3, <3>4
  <2>4. ASSUME ~copy.disturbed
        PROVE  /\ \A k \in DOMAIN copy.have : copy.have[k] <= version'
               /\ \A j \in DOMAIN files' : HaveAre(files'[j].of) =>
                     copy.date = Date(j)' /\ (copy.tag.weak => copy.tag = FileTag(j)')
    <3>1. /\ \A k \in DOMAIN copy.have : copy.have[k] <= version
          /\ \A j \in DOMAIN files : HaveAre(files[j].of) =>
                copy.date = Date(j) /\ (copy.tag.weak => copy.tag = FileTag(j))
      BY <2>4 DEF TagInv, CopyTag
    <3>2. copy.have \in Seq(Version)
      BY <1>1 DEF Copy
    <3>3. Len(copy.have) # 0 /\ Len(copy.have) \in Nat /\ DOMAIN copy.have = 1..Len(copy.have)
      BY <3>2
    <3>4. \A k \in DOMAIN copy.have : copy.have[k] \in Nat
      <4>1. \A v \in Version : v \in Nat
        BY RespondAssumption DEF Version
      <4>2. \A k \in DOMAIN copy.have : copy.have[k] \in Version
        BY <3>2
      <4> QED BY <4>1, <4>2
    <3>5. \A k \in DOMAIN copy.have : copy.have[k] <= version'
      BY <1>3, <3>1, <3>4
    <3>6. ASSUME NEW j \in DOMAIN files', HaveAre(files'[j].of)
          PROVE  copy.date = Date(j)' /\ (copy.tag.weak => copy.tag = FileTag(j)')
      <4>1. j # i
        <5> SUFFICES ASSUME j = i PROVE FALSE
          OBVIOUS
        <5>1. 1 \in DOMAIN copy.have
          BY <3>3
        <5>2. copy.have[1] = version + 1
          BY <1>3, <3>6, <5>1 DEF HaveAre
        <5> QED BY <1>3, <3>1, <5>1, <5>2
      <4>2. j \in DOMAIN files /\ files'[j] = files[j]
        BY <1>3, <4>1
      <4>3. Date(j)' = Date(j) /\ FileTag(j)' = FileTag(j)
        BY <4>2 DEF Date, FileTag
      <4> QED BY <3>1, <3>6, <4>2, <4>3
    <3> QED BY <3>5, <3>6
  <2> HIDE DEF n
  <2>5. copy' = copy
    BY <1>3
  <2> QED BY <2>1, <2>2, <2>3, <2>4, <2>5 DEF CopyTag, n
<1> QED BY <1>7, <1>8, <1>9 DEF TagInv

LEMMA OthersTag ==
    ASSUME BodyInv, TagInv, Rewrite \/ Replace PROVE TagInv'
<1>0. TypeInv /\ Len(files) \in Nat
  BY DEF BodyInv, TypeInv
<1>1. CASE Rewrite
  <2>1. PICK tick \in Later, len \in WriteLengths : Written(named, len, tick)
    BY <1>1 DEF Rewrite
  <2>2. named \in 1..Len(files) + 1
    BY <1>0 DEF TypeInv
  <2>3. ASSUME NEW mtime \in {0, tick}, mtime = tick PROVE TagInv'
    <3>1. Written(named, len, mtime)
      BY <2>1, <2>3
    <3> QED BY <2>2, <2>3, <3>1, WriteTag
  <2> QED BY <2>3
<1>2. CASE Replace
  <2> DEFINE new == Len(files) + 1
  <2>1. PICK tick \in Later, len \in WriteLengths : \E mtime \in {0, tick} :
           Written(new, len, mtime)
    BY <1>2 DEF Replace
  <2>2. PICK mtime \in {0, tick} : Written(new, len, mtime)
    BY <2>1
  <2>3. new \in 1..Len(files) + 1
    BY <1>0
  <2> QED BY <2>2, <2>3, WriteTag
<1> QED BY <1>1, <1>2

\* What the preconditions make of a validation.
LEMMA ValidationVerdict ==
    ASSUME TypeInv, NEW by \in {"tag", "weakened", "date"}, request = Validation(by)
    PROVE  /\ request.path = copy.path /\ (request.ifNoneMatch = Absent <=> by = "date")
           /\ by = "date" =>
                 (Verdict = "notModified" <=> copy.date >= server.repr.date)
           /\ by # "date" =>
                 (Verdict = "notModified" <=> WeakMatch(copy.tag, server.repr.tag))
<1>1. /\ request.path = copy.path /\ request.ifMatch = Absent
      /\ request.ifUnmodifiedSince = Absent
      /\ request.ifNoneMatch = IF by = "tag" THEN copy.tag
                               ELSE IF by = "weakened" THEN Weakened(copy.tag)
                               ELSE Absent
      /\ request.ifModifiedSince = copy.date
  BY ValidationIs
<1>2. copy.tag \in Tags /\ copy.date \in Nat /\ server.repr.date \in Nat
  BY DEF TypeInv, Copy, Server, Repr
<1>3. /\ Weakened(copy.tag) \in Tags
      /\ Weakened(Weakened(copy.tag)) = Weakened(copy.tag)
  BY <1>2 DEF Weakened, Tags
<1>4. /\ ~UnmodifiedFails(request, server.repr.date)
      /\ request.ifUnmodifiedSince # BadDate
  BY <1>1, HeaderAssumption DEF UnmodifiedFails
<1>5. CASE by = "date"
  <2>1. request.ifNoneMatch = Absent /\ request.ifModifiedSince = copy.date
    BY <1>1, <1>5
  <2>2. copy.date # Absent /\ copy.date # BadDate
    BY <1>2, HeaderAssumption
  <2>3. Verdict = "notModified" <=> NotModifiedSince(request, server.repr.date)
    BY <1>1, <1>4, <2>1, <2>2 DEF Verdict, Evaluate
  <2> QED BY <1>1, <1>5, <2>1, <2>2, <2>3 DEF NotModifiedSince
<1>6. CASE by # "date"
  <2> DEFINE condition == request.ifNoneMatch
  <2>1. condition \in Tags /\ condition # Absent /\ condition # AnyTag
    BY <1>1, <1>2, <1>3, <1>6, HeaderAssumption
  <2>2. Weakened(condition) = Weakened(copy.tag)
    BY <1>1, <1>3, <1>6
  <2>3. Verdict = "notModified" <=> Matches(condition, server.repr.tag)
    BY <1>1, <1>4, <2>1 DEF Verdict, Evaluate
  <2>4. Matches(condition, server.repr.tag) <=> WeakMatch(copy.tag, server.repr.tag)
    BY <2>1, <2>2 DEF Matches, WeakMatch
  <2> QED BY <1>1, <1>6, <2>1, <2>3, <2>4
<1> QED BY <1>5, <1>6

\* A 304 is sent for the version the client has and, got while nobody wrote, is
\* sent whenever that version is there, by the tag, weakened or not, and by the
\* date; what excuses it is a write the date has hidden or a damaged object.
THEOREM CopiesRevalidate == RespondSpec => []RevalidationTrue
<1>1. RespondInit => TagInv
  BY TagInit
<1>2. ASSUME BodyInv, VersionInv, TagInv, [RespondNext]_respondVars PROVE TagInv'
  <2>1. CASE Handle
    BY <1>2, <2>1, HandleTag
  <2>2. CASE ServerStep /\ ~Handle
    BY <1>2, <2>2, ServerKeeps, TagKept
  <2>3. CASE ClientStep \/ Receive
    BY <1>2, <2>3, ClientTag
  <2>4. CASE Rewrite \/ Replace
    BY <1>2, <2>4, OthersTag
  <2>5. CASE UNCHANGED respondVars
    BY <1>2, <2>5, TagKept DEF respondVars
  <2> QED BY <1>2, <2>1, <2>2, <2>3, <2>4, <2>5 DEF RespondNext
<1>3. BodyInv /\ VersionInv /\ TagInv => RevalidationTrue
  <2> DEFINE same == files[server.fd].of = copy.have[1]
             tag == server.repr.tag
  <2> SUFFICES ASSUME BodyInv, VersionInv, TagInv, Revalidated
               PROVE  /\ Verdict = "notModified" =>
                            \/ same
                            \/ request.ifNoneMatch = Absent /\ stale
                            \/ tag = StrongTag /\ files[1].of # 0
                      /\ same /\ ~copy.disturbed => Verdict = "notModified"
    BY DEF RevalidationTrue
  <2>1. TypeInv /\ server.fd # NoFile /\ server.fd \in DOMAIN files
    BY DEF Revalidated, BodyInv, TypeInv, At
  <2>2. PICK by \in {"tag", "weakened", "date"} : request = Validation(by)
    BY DEF Revalidated
  <2>3. /\ request.path = copy.path /\ (request.ifNoneMatch = Absent <=> by = "date")
        /\ by = "date" =>
              (Verdict = "notModified" <=> copy.date >= server.repr.date)
        /\ by # "date" =>
              (Verdict = "notModified" <=> WeakMatch(copy.tag, tag))
    BY <2>1, <2>2, ValidationVerdict
  <2>4. /\ copy.have # <<>> /\ copy.have \in Seq(Version) /\ 1 \in DOMAIN copy.have
        /\ copy.date \in Nat /\ server.repr.date \in Nat
        /\ copy.tag \in Tags /\ tag \in Tags
    <3>1. copy.have # <<>> /\ copy.have \in Seq(Version)
      BY <2>1 DEF Revalidated, TypeInv, Copy
    <3>2. 1 \in DOMAIN copy.have
      BY <3>1
    <3> QED BY <2>1, <3>1, <3>2 DEF TypeInv, Copy, Server, Repr
  <2>5. same <=> HaveAre(files[server.fd].of)
    BY <2>4 DEF Revalidated, OneVersion, HaveAre
  <2>6. /\ (tag.weak <=> copy.tag.weak) /\ (~tag.weak => tag = StrongTag /\ copy.tag = StrongTag)
        /\ tag.weak => tag = FileTag(server.fd)
    BY <2>1, <2>3, <2>4 DEF TagInv, OpenTag, CopyTag, Revalidated
  <2>7. /\ server.repr.date = Date(server.fd)
        /\ ~stale /\ server.repr.date <= copy.date => same
        /\ ~tag.weak => server.fd = 1
    BY <2>1, <2>3, <2>4, <2>5 DEF VersionInv, OpenInv, Resuming, Revalidated
  <2>8. ~tag.weak /\ files[1].of = 0 => same
    BY <2>4, <2>5, <2>6, <2>7 DEF VersionInv, CopyInv
  <2>9. same /\ ~copy.disturbed =>
           copy.date = Date(server.fd) /\ (tag.weak => copy.tag = FileTag(server.fd))
    BY <2>1, <2>4, <2>5, <2>6 DEF TagInv, CopyTag
  <2>10. tag.weak /\ WeakMatch(copy.tag, tag) => same
    <3> SUFFICES ASSUME tag.weak, WeakMatch(copy.tag, tag) PROVE same
      OBVIOUS
    <3>1. copy.tag = tag
      <4>1. \A t \in Tags : t.weak => Weakened(t) = t
        BY DEF Tags, Weakened
      <4> QED BY <2>4, <2>6, <4>1 DEF WeakMatch
    <3>2. copy.tag.inode = server.fd /\ copy.tag.mtime = files[server.fd].mtime
      BY <2>6, <3>1 DEF FileTag, WeakTag
    <3> QED BY <2>4, <2>5, <2>6, <3>2 DEF TagInv, CopyTag
  <2>11. ASSUME Verdict = "notModified"
         PROVE  \/ same
                \/ request.ifNoneMatch = Absent /\ stale
                \/ tag = StrongTag /\ files[1].of # 0
    <3>1. CASE by = "date"
      <4>1. server.repr.date <= copy.date
        BY <2>3, <2>4, <2>11, <3>1
      <4> QED BY <2>3, <2>7, <3>1, <4>1
    <3>2. CASE by # "date"
      BY <2>3, <2>6, <2>8, <2>10, <2>11, <3>2
    <3> QED BY <3>1, <3>2
  <2>12. ASSUME same, ~copy.disturbed PROVE Verdict = "notModified"
    <3>1. CASE by = "date"
      BY <2>3, <2>4, <2>7, <2>9, <2>12, <3>1
    <3>2. CASE by # "date"
      <4>1. copy.tag = tag
        BY <2>6, <2>9, <2>12
      <4> QED BY <2>3, <3>2, <4>1 DEF WeakMatch
    <3> QED BY <3>1, <3>2
  <2> QED BY <2>11, <2>12
<1> QED BY <1>1, <1>2, <1>3, RespondInvariant, VersionInvariant, PTL DEF RespondSpec

\* Where an entity tag is given, the date that goes with it decides nothing,
\* not even when it is malformed.
THEOREM TagsDecide == RespondSpec => []TagsOutrankDates
<1>1. BodyInv => TagsOutrankDates
  <2> SUFFICES ASSUME BodyInv,
                      NEW im \in {Absent, BadDate} \cup 0..1,
                      NEW iu \in {Absent, BadDate} \cup 0..1
               PROVE  Evaluate([request EXCEPT
                                  !.ifModifiedSince =
                                     IF request.ifNoneMatch = Absent THEN @ ELSE im,
                                  !.ifUnmodifiedSince =
                                     IF request.ifMatch = Absent THEN @ ELSE iu],
                               server.repr.tag, server.repr.date) = Verdict
    BY DEF TagsOutrankDates
  <2> DEFINE modified == IF request.ifNoneMatch = Absent THEN request.ifModifiedSince ELSE im
             unmodified == IF request.ifMatch = Absent THEN request.ifUnmodifiedSince ELSE iu
             r == [request EXCEPT !.ifModifiedSince = modified,
                                  !.ifUnmodifiedSince = unmodified]
  <2>1. request \in Request
    BY DEF BodyInv, TypeInv
  <2> HIDE DEF modified, unmodified
  <2>2. /\ r.ifMatch = request.ifMatch /\ r.ifNoneMatch = request.ifNoneMatch
        /\ r.ifModifiedSince = modified /\ r.ifUnmodifiedSince = unmodified
    BY <2>1 DEF Request
  <2>3. /\ request.ifNoneMatch = Absent => r.ifModifiedSince = request.ifModifiedSince
        /\ request.ifMatch = Absent => r.ifUnmodifiedSince = request.ifUnmodifiedSince
    BY <2>2 DEF modified, unmodified
  <2>4. r = [request EXCEPT
               !.ifModifiedSince = IF request.ifNoneMatch = Absent THEN @ ELSE im,
               !.ifUnmodifiedSince = IF request.ifMatch = Absent THEN @ ELSE iu]
    BY DEF modified, unmodified
  <2> HIDE DEF r
  <2>5. \A tag, date : Evaluate(r, tag, date) = Evaluate(request, tag, date)
    BY <2>2, <2>3 DEF Evaluate, UnmodifiedFails, NotModifiedSince
  <2> QED BY <2>4, <2>5 DEF Verdict
<1> QED BY <1>1, RespondInvariant, PTL
-----------------------------------------------------------------------------
(* From a listing back to its entries.                                      *)

\* The text of names, each encoded.
Hrefs(names) == [k \in DOMAIN names |-> Href(names[k])]

\* Encoding a name and decoding it again is the identity, whatever is in it,
\* and no name makes a segment that is refused.
LEMMA HrefDecodes ==
    ASSUME NEW name, IsName(name)
    PROVE  /\ Decoded(Href(name)) = name /\ Href(name) # <<>>
           /\ ~BadEscape(Href(name)) /\ ~Impossible(Href(name))
<1>1. name \in Seq(STRING) /\ DOMAIN Href(name) = DOMAIN name
  BY DEF IsName, Href
<1>2. \A k \in DOMAIN name : /\ Href(name)[k].atom = name[k]
                             /\ Href(name)[k].escaped = (name[k] \in HrefSegment)
  BY DEF Href
<1>3. Decoded(Href(name)) = name
  BY <1>1, <1>2 DEF Decoded
<1>4. Href(name) # <<>>
  <2>1. Len(name) \in Nat /\ Len(name) # 0 /\ DOMAIN name = 1..Len(name)
    BY <1>1 DEF IsName
  <2>2. 1 \in DOMAIN Href(name)
    BY <1>1, <2>1
  <2>3. DOMAIN <<>> = {}
    OBVIOUS
  <2> QED BY <2>2, <2>3
<1>5. ~BadEscape(Href(name))
  BY <1>1, <1>2 DEF BadEscape, HrefSegment, IsName
<1>6. ~Impossible(Href(name))
  BY <1>1, <1>2, <1>3, <1>4 DEF Impossible, IsName
<1> QED BY <1>3, <1>4, <1>5, <1>6

\* A path without "." is its own canonical form.
LEMMA CanonicalStays ==
    ASSUME NEW names \in Seq(Seq(STRING)),
           \A k \in DOMAIN names : names[k] # <<".">>
    PROVE  Canonical(names) = names
<1> DEFINE Keeps(f) ==
              f = [k \in 0..Len(names) |->
                     IF k = 0 THEN <<>>
                     ELSE IF names[k] = <<".">> THEN f[k - 1]
                     ELSE Append(f[k - 1], names[k])]
           h == [k \in 0..Len(names) |-> SubSeq(names, 1, k)]
           f == CHOOSE g : Keeps(g)
<1>1. Len(names) \in Nat /\ DOMAIN names = 1..Len(names)
  OBVIOUS
<1>2. /\ SubSeq(names, 1, 0) = <<>> /\ SubSeq(names, 1, Len(names)) = names
      /\ \A k \in 1..Len(names) :
            SubSeq(names, 1, k) = Append(SubSeq(names, 1, k - 1), names[k])
  OBVIOUS
<1>3. \A k \in 0..Len(names) :
         /\ k = 0 \/ (k \in 1..Len(names) /\ k - 1 \in 0..Len(names))
         /\ h[k] = SubSeq(names, 1, k)
  BY <1>1
<1>4. Keeps(h)
  <2>1. \A k \in 0..Len(names) :
           h[k] = IF k = 0 THEN <<>>
                  ELSE IF names[k] = <<".">> THEN h[k - 1]
                  ELSE Append(h[k - 1], names[k])
    <3> HIDE DEF h
    <3> QED BY <1>1, <1>2, <1>3
  <2>2. h = [k \in 0..Len(names) |-> h[k]]
    OBVIOUS
  <2> HIDE DEF h
  <2> QED BY <2>1, <2>2
<1>5. Keeps(f)
  <2> HIDE DEF Keeps, h
  <2> QED BY <1>4
<1>6. Canonical(names) = f[Len(names)]
  BY DEF Canonical
<1> HIDE DEF f
<1>7. \A k \in 0..Len(names) :
         f[k] = IF k = 0 THEN <<>>
                ELSE IF names[k] = <<".">> THEN f[k - 1]
                ELSE Append(f[k - 1], names[k])
  BY <1>5
<1> HIDE DEF h, Keeps
<1> DEFINE S == {k \in Nat : k <= Len(names) => f[k] = SubSeq(names, 1, k)}
<1>8. 0 \in S
  <2>1. 0 \in 0..Len(names)
    BY <1>1
  <2>2. f[0] = <<>>
    BY <1>7, <2>1
  <2> QED BY <1>2, <2>2
<1>9. ASSUME NEW k \in Nat, k \in S PROVE k + 1 \in S
  <2> SUFFICES ASSUME k + 1 <= Len(names)
               PROVE  f[k + 1] = SubSeq(names, 1, k + 1)
    OBVIOUS
  <2>1. /\ k + 1 \in 0..Len(names) /\ k + 1 \in 1..Len(names) /\ k + 1 # 0
        /\ (k + 1) - 1 = k /\ f[k] = SubSeq(names, 1, k)
    BY <1>1, <1>9
  <2>2. f[k + 1] = Append(f[k], names[k + 1])
    BY <1>1, <1>7, <2>1
  <2> QED BY <1>2, <2>1, <2>2
<1>10. \A k \in Nat : k \in S
  <2> HIDE DEF S
  <2> QED BY <1>8, <1>9, SetInduction
<1>11. f[Len(names)] = SubSeq(names, 1, Len(names))
  BY <1>1, <1>10
<1> QED BY <1>2, <1>6, <1>11

\* What the entries of a listed directory are.
LEMMA ListedAre ==
    ASSUME NEW dir \in Dirs, Inside(dir), NEW name \in Listed(dir)
    PROVE  /\ Append(dir, name) \in Dirs \cup Regulars
           /\ Append(dir, name)[1] # DotPcas
           /\ Append(dir, name) # <<LegacyDb>>
<1>1. PICK g \in Dirs \cup Regulars : g # <<>> /\ Front(g) = dir /\ name = Last(g)
  BY DEF Listed, Children
<1>2. g \in Seq(Seq(STRING)) /\ dir \in Seq(Seq(STRING))
  BY SiteAssumption
<1>3. Len(g) \in Nat /\ Len(g) # 0
  BY <1>1, <1>2
<1>4. Append(dir, name) = g
  <2>1. Append(SubSeq(g, 1, Len(g) - 1), g[Len(g)]) = g
    BY <1>2, <1>3
  <2> QED BY <1>1, <2>1 DEF Front, Last
<1>5. CASE dir = <<>>
  <2>1. Len(dir) = 0 /\ Len(g) = 1
    <3>1. Len(Append(dir, name)) = Len(dir) + 1
      BY <1>2, <1>1, <1>3 DEF Last
    <3> QED BY <1>4, <1>5, <3>1
  <2>2. g[1] = name
    BY <1>1, <2>1 DEF Last
  <2>3. name # DotPcas /\ name # LegacyDb
    BY <1>5 DEF Listed
  <2>4. g = <<LegacyDb>> => g[1] = LegacyDb
    OBVIOUS
  <2> QED BY <1>1, <1>4, <2>2, <2>3, <2>4
<1>6. CASE dir # <<>>
  <2>1. Len(dir) \in Nat /\ Len(dir) # 0
    BY <1>2, <1>6
  <2>2. Len(g) = Len(dir) + 1 /\ g[1] = dir[1]
    <3>1. name \in Seq(STRING)
      BY <1>1, <1>2, <1>3 DEF Last
    <3>2. /\ Len(Append(dir, name)) = Len(dir) + 1
          /\ \A k \in 1..Len(dir) : Append(dir, name)[k] = dir[k]
      BY <1>2, <3>1
    <3>3. 1 \in 1..Len(dir)
      BY <2>1
    <3> QED BY <1>4, <3>2, <3>3
  <2>3. dir[1] # DotPcas
    BY <1>6 DEF Inside
  <2>4. Len(<<LegacyDb>>) = 1
    OBVIOUS
  <2> QED BY <1>1, <1>4, <2>1, <2>2, <2>3, <2>4
<1> QED BY <1>5, <1>6

\* The link of an entry is its encoded names, with a slash after a directory's.
LEMMA LinkIs ==
    ASSUME NEW dir \in Dirs, Inside(dir), NEW name \in Listed(dir),
           NEW g, g = Append(dir, name)
    PROVE  /\ g \in Seq(Seq(STRING)) /\ g # <<>> /\ \A k \in DOMAIN g : IsName(g[k])
           /\ Hrefs(g) \in Seq(Seq(Units)) /\ Len(Hrefs(g)) = Len(g)
           /\ LinkTo(dir, name) =
                 IF g \in Dirs THEN Append(Hrefs(g), <<>>) ELSE Hrefs(g)
<1>1. g \in Seq(Seq(STRING)) /\ dir \in Seq(Seq(STRING)) /\ \A k \in DOMAIN g : IsName(g[k])
  BY ListedAre, SiteAssumption
<1>2. PICK h \in Dirs \cup Regulars : h # <<>> /\ name = Last(h)
  BY DEF Listed, Children
<1>3. name \in Seq(STRING)
  <2>1. h \in Seq(Seq(STRING)) /\ Len(h) \in 1..Len(h)
    BY <1>2, SiteAssumption
  <2> QED BY <1>2, <2>1 DEF Last
<1>4. /\ Len(g) = Len(dir) + 1 /\ Len(dir) \in Nat /\ g[Len(dir) + 1] = name
      /\ \A k \in 1..Len(dir) : g[k] = dir[k]
  BY <1>1, <1>3
<1>5. g # <<>>
  BY <1>4
<1>6. \A text \in Seq(STRING) : Href(text) \in Seq(Units)
  <2> TAKE text \in Seq(STRING)
  <2>1. \A k \in 1..Len(text) : text[k] \in STRING
    OBVIOUS
  <2>2. \A k \in 1..Len(text) :
           [atom |-> text[k], escaped |-> text[k] \in HrefSegment] \in Units
    BY <2>1 DEF Units
  <2>3. Len(text) \in Nat /\ DOMAIN text = 1..Len(text)
    OBVIOUS
  <2> QED BY <2>2, <2>3 DEF Href
<1>7. \A names \in Seq(Seq(STRING)) :
         /\ Hrefs(names) \in Seq(Seq(Units)) /\ Len(Hrefs(names)) = Len(names)
         /\ \A k \in 1..Len(names) : Hrefs(names)[k] = Href(names[k])
  <2> TAKE names \in Seq(Seq(STRING))
  <2>1. Len(names) \in Nat /\ DOMAIN names = 1..Len(names)
    OBVIOUS
  <2>2. \A k \in 1..Len(names) : Href(names[k]) \in Seq(Units)
    BY <1>6
  <2> QED BY <2>1, <2>2 DEF Hrefs
<1>8. Hrefs(dir) \o <<Href(name)>> = Hrefs(g)
  <2>1. /\ Hrefs(dir) \in Seq(Seq(Units)) /\ Len(Hrefs(dir)) = Len(dir)
        /\ Hrefs(g) \in Seq(Seq(Units)) /\ Len(Hrefs(g)) = Len(dir) + 1
        /\ Href(name) \in Seq(Units)
    BY <1>1, <1>3, <1>4, <1>6, <1>7
  <2>2. \A k \in 1..Len(dir) : Hrefs(g)[k] = Hrefs(dir)[k]
    <3> TAKE k \in 1..Len(dir)
    <3>1. k \in 1..Len(g)
      BY <1>4
    <3> QED BY <1>1, <1>4, <1>7, <3>1
  <2>3. Hrefs(g)[Len(dir) + 1] = Href(name)
    <3>1. Len(dir) + 1 \in 1..Len(g)
      BY <1>4
    <3> QED BY <1>1, <1>4, <1>7, <3>1
  <2>4. \A s, t \in Seq(Seq(Units)), u \in Seq(Units) :
           /\ Len(t) = Len(s) + 1 /\ t[Len(s) + 1] = u
           /\ \A k \in 1..Len(s) : t[k] = s[k]
           => s \o <<u>> = t
    <3> TAKE s, t \in Seq(Seq(Units)), u \in Seq(Units)
    <3> HAVE /\ Len(t) = Len(s) + 1 /\ t[Len(s) + 1] = u
             /\ \A k \in 1..Len(s) : t[k] = s[k]
    <3> DEFINE v == s \o <<u>>
    <3>1. /\ v \in Seq(Seq(Units)) /\ Len(v) = Len(s) + 1 /\ v[Len(s) + 1] = u
          /\ \A k \in 1..Len(s) : v[k] = s[k]
      OBVIOUS
    <3> HIDE DEF v
    <3>2. Len(s) \in Nat /\ \A k \in 1..Len(s) + 1 : k \in 1..Len(s) \/ k = Len(s) + 1
      OBVIOUS
    <3>3. \A k \in 1..Len(s) + 1 : v[k] = t[k]
      BY <3>1, <3>2
    <3>4. v = t
      BY <3>1, <3>3
    <3> QED BY <3>4 DEF v
  <2>5. /\ Len(Hrefs(g)) = Len(Hrefs(dir)) + 1
        /\ Hrefs(g)[Len(Hrefs(dir)) + 1] = Href(name)
        /\ \A k \in 1..Len(Hrefs(dir)) : Hrefs(g)[k] = Hrefs(dir)[k]
    BY <2>1, <2>2, <2>3
  <2> QED BY <2>1, <2>4, <2>5
<1>9. LinkTo(dir, name) =
         Hrefs(g) \o (IF g \in Dirs THEN << <<>> >> ELSE <<>>)
  BY <1>8 DEF LinkTo, Hrefs
<1>10. \A s \in Seq(Seq(Units)) : s \o <<>> = s /\ s \o << <<>> >> = Append(s, <<>>)
  OBVIOUS
<1> QED BY <1>1, <1>5, <1>7, <1>9, <1>10

Accepts(raw) == ~Refused(raw, 400) /\ ~Refused(raw, 404)

\* Read back, a link has the names of its entry, and none that is refused; it
\* ends in a slash exactly if the entry is a directory.
LEMMA LinkReads ==
    ASSUME NEW dir \in Dirs, Inside(dir), NEW name \in Listed(dir),
           NEW g, g = Append(dir, name), NEW raw, raw = LinkTo(dir, name)
    PROVE  /\ raw # <<>> /\ raw[1] = Href(g[1])
           /\ (TrailingSlash(raw) <=> g \in Dirs) /\ Segments(raw) = g
           /\ Accepts(raw)
<1>1. /\ g \in Seq(Seq(STRING)) /\ g # <<>> /\ \A k \in DOMAIN g : IsName(g[k])
      /\ Hrefs(g) \in Seq(Seq(Units)) /\ Len(Hrefs(g)) = Len(g)
      /\ raw = IF g \in Dirs THEN Append(Hrefs(g), <<>>) ELSE Hrefs(g)
  BY LinkIs
<1>2. Len(g) \in Nat /\ Len(g) # 0 /\ DOMAIN g = 1..Len(g)
  BY <1>1
<1>3. \A k \in 1..Len(g) : Hrefs(g)[k] = Href(g[k])
  BY <1>1, <1>2 DEF Hrefs
<1>4. /\ \A k \in 1..Len(g) : raw[k] = Href(g[k])
      /\ Len(raw) = IF g \in Dirs THEN Len(g) + 1 ELSE Len(g)
      /\ g \in Dirs => raw[Len(raw)] = <<>>
  <2>1. \A s \in Seq(Seq(Units)) :
           /\ Len(Append(s, <<>>)) = Len(s) + 1 /\ Append(s, <<>>)[Len(s) + 1] = <<>>
           /\ \A k \in 1..Len(s) : Append(s, <<>>)[k] = s[k]
    OBVIOUS
  <2> QED BY <1>1, <1>2, <1>3, <2>1
<1>5. raw # <<>>
  <2>1. Len(raw) # 0
    BY <1>2, <1>4
  <2> QED BY <2>1
<1>6. TrailingSlash(raw) <=> g \in Dirs
  <2>1. g \notin Dirs => raw[Len(raw)] # <<>>
    <3>1. Len(g) \in 1..Len(g)
      BY <1>1, <1>2
    <3>2. IsName(g[Len(g)])
      BY <1>1, <1>2, <3>1
    <3> QED BY <1>4, <3>1, <3>2, HrefDecodes
  <2> QED BY <1>4, <1>5, <2>1 DEF TrailingSlash, Last
<1>7. RawSegments(raw) = Hrefs(g)
  <2>1. \A s \in Seq(Seq(Units)) :
           SubSeq(Append(s, <<>>), 1, Len(Append(s, <<>>)) - 1) = s
    OBVIOUS
  <2> QED BY <1>1, <1>5, <1>6, <2>1 DEF RawSegments, Front
<1>8. \A k \in 1..Len(g) : Decoded(Hrefs(g)[k]) = g[k] /\ Hrefs(g)[k] # <<>>
                           /\ ~BadEscape(Hrefs(g)[k]) /\ ~Impossible(Hrefs(g)[k])
  BY <1>1, <1>2, <1>3, HrefDecodes
<1>9. DOMAIN Hrefs(g) = 1..Len(g)
  BY <1>1, <1>2
<1>10. Segments(raw) = g
  <2>1. Segments(raw) = [k \in 1..Len(g) |-> g[k]]
    BY <1>7, <1>8, <1>9 DEF Segments
  <2>2. g = [k \in 1..Len(g) |-> g[k]]
    <3>1. g \in Seq(Seq(STRING))
      BY <1>1
    <3> QED BY ONLY <3>1
  <2> QED BY <2>1, <2>2
<1>11. Accepts(raw)
  BY <1>7, <1>8, <1>9 DEF Accepts, Refused
<1>12. raw[1] = Href(g[1])
  <2>1. 1 \in 1..Len(g)
    BY <1>1, <1>2
  <2> QED BY <1>4, <2>1
<1> QED BY <1>5, <1>6, <1>10, <1>11, <1>12

\* The link of a listed entry is answered with the entry, unless it is pcas or
\* below it.
LEMMA LinkLeads ==
    ASSUME NEW dir \in Dirs, Inside(dir), NEW name \in Listed(dir),
           Append(dir, name)[1] # Pcas
    PROVE  LET there == Route(LinkTo(dir, name))
           IN  there.status = 200 /\ there.target = Append(dir, name)
<1> DEFINE g == Append(dir, name)
           raw == LinkTo(dir, name)
<1>1. /\ g \in Seq(Seq(STRING)) /\ g # <<>> /\ \A k \in DOMAIN g : IsName(g[k])
      /\ Hrefs(g) \in Seq(Seq(Units)) /\ Len(Hrefs(g)) = Len(g)
      /\ raw = IF g \in Dirs THEN Append(Hrefs(g), <<>>) ELSE Hrefs(g)
  BY LinkIs
<1>2. g \in Dirs \cup Regulars /\ g[1] # DotPcas /\ g # <<LegacyDb>> /\ g[1] # Pcas
  BY ListedAre
<1>3. /\ raw # <<>> /\ raw[1] = Href(g[1])
      /\ (TrailingSlash(raw) <=> g \in Dirs) /\ Segments(raw) = g
      /\ Accepts(raw)
  BY LinkReads
<1> HIDE DEF g, raw
<1>4. ~MatchRoute(raw)
  <2> SUFFICES ASSUME raw[1] = <<[atom |-> "pcas", escaped |-> FALSE]>> PROVE FALSE
    BY DEF MatchRoute
  <2>1. 1 \in DOMAIN g
    BY <1>1
  <2>2. Decoded(raw[1]) = g[1]
    BY <1>1, <1>3, <2>1, HrefDecodes
  <2>3. Decoded(<<[atom |-> "pcas", escaped |-> FALSE]>>) = <<"pcas">>
    BY DEF Decoded
  <2> QED BY <1>2, <2>2, <2>3 DEF Pcas
<1>5. ~ReservedTopLevel(g) /\ ~LegacyDatabase(g) /\ Inside(g)
  BY <1>2 DEF ReservedTopLevel, LegacyDatabase, Inside
<1>6. Canonical(g) = g /\ DotsInDirs(g)
  BY <1>1, CanonicalStays DEF DotsInDirs, IsName
<1>7. Route(raw) = RouteVisible(raw)
  BY <1>3, <1>4, <1>5 DEF Accepts, Route
<1>8. CASE g \in Dirs
  <2>1. RouteVisible(raw) = RouteDirectory(raw, g)
    BY <1>3, <1>5, <1>6, <1>8 DEF RouteVisible
  <2>2. RouteDirectory(raw, g).status = 200 /\ RouteDirectory(raw, g).target = g
    BY <1>3, <1>8 DEF RouteDirectory, Outcome
  <2>3. Route(raw).status = 200 /\ Route(raw).target = g
    BY <1>7, <2>1, <2>2
  <2> QED BY <2>3 DEF raw, g
<1>9. CASE g \notin Dirs
  <2>1. RouteVisible(raw) = Outcome(200, "file", g)
    BY <1>2, <1>3, <1>5, <1>6, <1>9 DEF RouteVisible
  <2>2. Route(raw).status = 200 /\ Route(raw).target = g
    BY <1>7, <2>1 DEF Outcome
  <2> QED BY <2>2 DEF raw, g
<1> QED BY <1>8, <1>9

\* What is listed is a directory inside the root.
LEMMA ListingIs ==
    ASSUME NEW raw, Route(raw).kind = "listing"
    PROVE  Route(raw).target \in Dirs /\ Inside(Route(raw).target)
<1>1. \A status, kind, dir : /\ Outcome(status, kind, dir).kind = kind
                             /\ Outcome(status, kind, dir).target = dir
  BY DEF Outcome
<1>2. \A status : Fail(status).kind # "listing"
  BY <1>1 DEF Fail
<1>3. RouteDigest(raw).kind # "listing"
  BY <1>1, <1>2 DEF RouteDigest
<1>4. Route(raw) = RouteVisible(raw)
  BY <1>2, <1>3 DEF Route
<1> DEFINE target == Canonical(Segments(raw))
<1>5. /\ Inside(target) /\ target \in Dirs
      /\ RouteVisible(raw) = RouteDirectory(raw, target)
  BY <1>1, <1>2, <1>4 DEF RouteVisible
<1> HIDE DEF target
<1>6. RouteDirectory(raw, target).kind = "listing" => RouteDirectory(raw, target).target = target
  BY <1>1, <1>2 DEF RouteDirectory
<1> QED BY <1>4, <1>5, <1>6

\* Every link of a listing is answered with the entry it is for and with no
\* other, whatever bytes the names have; but a top-level entry named pcas, with
\* all below it, is the digest route's.
THEOREM LinksAreLive == RespondSpec => []ListingLinksLive
<1>1. BodyInv => ListingLinksLive
  <2> DEFINE dir == Route(request.path).target
             there(name) == Route(LinkTo(dir, name))
  <2> SUFFICES ASSUME BodyInv, NEW name \in reply.listing
               PROVE  \/ there(name).status = 200 /\ there(name).target = Append(dir, name)
                      \/ Append(dir, name)[1] = Pcas
    BY DEF ListingLinksLive
  <2>1. Route(request.path).kind = "listing" /\ name \in Listed(dir)
    BY DEF BodyInv, ListingInv
  <2>2. dir \in Dirs /\ Inside(dir)
    BY <2>1, ListingIs
  <2> HIDE DEF dir
  <2> QED BY <2>1, <2>2, LinkLeads
<1> QED BY <1>1, RespondInvariant, PTL
====

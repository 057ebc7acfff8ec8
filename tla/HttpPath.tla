------------------------------- MODULE HttpPath -------------------------------
(***************************************************************************)
(* From the raw path of a request to what `pcas serve` does with it, and   *)
(* back: the links of a directory listing.                                 *)
(*                                                                         *)
(* A name is a sequence of atoms: one byte, or a run of bytes that only    *)
(* matters as a whole.  A raw segment is a sequence of units, each an atom *)
(* that is percent-encoded or not; "%" not encoded is an escape that is    *)
(* none.  A raw path is what its body (without the leading "/") splits     *)
(* into at each "/"; <<>> is the path "/".  Links are not symbolic.        *)
(***************************************************************************)
EXTENDS Naturals, Sequences, SequencesExt

CONSTANTS
    Dirs,       \* the directories under the root: sequences of names
    Regulars,   \* the regular files
    Objects     \* the digests .pcas/sha256 has an entry for

Pcas == <<"pcas">>
DotPcas == <<".", "pcas">>
DotDot == <<".", ".">>
LegacyDb == <<"purecas.db">>
IndexHtml == <<"index.html">>

\* 64 hexadecimal digits.
DigestAtoms == {"digest", "unknownDigest"}

\* What a file system takes for the name of an entry.
IsName(name) ==
    /\ name \in Seq(STRING) /\ name \notin {<<>>, <<".">>, DotDot}
    /\ \A k \in DOMAIN name : name[k] \notin {"/", "NUL"}

ASSUME SiteAssumption ==
    /\ <<>> \in Dirs /\ Dirs \cap Regulars = {}
    /\ \A f \in Dirs \cup Regulars :
          f \in Seq(Seq(STRING)) /\ \A k \in DOMAIN f : IsName(f[k])
    /\ \A f \in (Dirs \cup Regulars) \ {<<>>} : Front(f) \in Dirs
    /\ Objects \subseteq DigestAtoms

-----------------------------------------------------------------------------
(* path::parse *)

\* decode_segment, where it succeeds.
Decoded(raw) == [k \in DOMAIN raw |-> raw[k].atom]

BadEscape(raw) ==
    \E k \in DOMAIN raw :
       \/ raw[k].atom = "%" /\ ~raw[k].escaped
       \/ raw[k].atom = "NUL" /\ raw[k].escaped

Impossible(raw) ==
    \/ raw = <<>>
    \/ Decoded(raw) = DotDot
    \/ "/" \in {raw[k].atom : k \in DOMAIN raw}

TrailingSlash(raw) == raw = <<>> \/ Last(raw) = <<>>

RawSegments(raw) == IF TrailingSlash(raw) /\ raw # <<>> THEN Front(raw) ELSE raw

Segments(raw) ==
    [k \in DOMAIN RawSegments(raw) |-> Decoded(RawSegments(raw)[k])]

\* Segments are decoded in order, and the first that is refused decides.
Refused(raw, status) ==
    LET segments == RawSegments(raw)
        fault(k) == IF segments[k] = <<>> THEN 404
                    ELSE IF BadEscape(segments[k]) THEN 400
                    ELSE IF Impossible(segments[k]) THEN 404 ELSE 0
    IN  \E k \in DOMAIN segments :
           /\ fault(k) = status
           /\ \A j \in 1..k-1 : fault(j) = 0

ReservedTopLevel(names) == names # <<>> /\ names[1] \in {Pcas, DotPcas}

LegacyDatabase(names) == names = <<LegacyDb>>

-----------------------------------------------------------------------------
(* resolve::finalize: the canonical name, and what is there *)

Canonical(names) ==
    LET kept[k \in 0..Len(names)] ==
          IF k = 0 THEN <<>>
          ELSE IF names[k] = <<".">> THEN kept[k - 1]
          ELSE Append(kept[k - 1], names[k])
    IN  kept[Len(names)]

\* A "." is looked up in what comes before it: ENOTDIR after a regular file.
DotsInDirs(names) ==
    \A k \in DOMAIN names :
       names[k] = <<".">> => Canonical(SubSeq(names, 1, k - 1)) \in Dirs

Inside(names) == names = <<>> \/ names[1] # DotPcas

-----------------------------------------------------------------------------
(* handle, dispatch and respond_directory: one outcome for each path *)

\* The target is the canonical name of what was asked for: of a directory,
\* also when its index.html is served for it.
Outcome(status, kind, target) ==
    [status |-> status, kind |-> kind, target |-> target]

Fail(status) == Outcome(status, "none", <<>>)

\* digest::match_route looks at the raw path: nothing escaped, no slash after.
MatchRoute(raw) ==
    /\ Len(raw) = 2
    /\ raw[1] = <<[atom |-> "pcas", escaped |-> FALSE]>>
    /\ \E d \in DigestAtoms : raw[2] = <<[atom |-> d, escaped |-> FALSE]>>

RouteDigest(raw) ==
    IF raw[2][1].atom \in Objects THEN Outcome(200, "object", <<>>) ELSE Fail(404)

RouteDirectory(raw, dir) ==
    IF ~TrailingSlash(raw) THEN Fail(301)
    ELSE IF Append(dir, IndexHtml) \in Regulars THEN Outcome(200, "file", dir)
    ELSE Outcome(200, "listing", dir)

RouteVisible(raw) ==
    LET target == Canonical(Segments(raw))
    IN  IF ~DotsInDirs(Segments(raw)) \/ ~Inside(target) THEN Fail(404)
        ELSE IF target \in Dirs THEN RouteDirectory(raw, target)
        ELSE IF target \in Regulars /\ ~TrailingSlash(raw)
             THEN Outcome(200, "file", target)
        ELSE Fail(404)

Route(raw) ==
    IF MatchRoute(raw) THEN RouteDigest(raw)
    ELSE IF Refused(raw, 400) THEN Fail(400)
    ELSE IF \/ Refused(raw, 404)
            \/ ReservedTopLevel(Segments(raw)) \/ LegacyDatabase(Segments(raw))
         THEN Fail(404)
    ELSE RouteVisible(raw)

-----------------------------------------------------------------------------
(* Directory listings *)

Children(dir) ==
    {Last(f) : f \in {g \in Dirs \cup Regulars : g # <<>> /\ Front(g) = dir}}

\* respond_directory hides two names, at the root only.
Listed(dir) ==
    IF dir = <<>> THEN Children(dir) \ {DotPcas, LegacyDb} ELSE Children(dir)

\* Seeded bug: "%" itself is left as it is.
ReservedBytes == {" ", "\"", "<", "&", "#", "?", "/"}

\* HREF_SEGMENT, as far as atoms go.
HrefSegment == {" ", "\"", "<", "&", "#", "?", "/", "%"}

Href(name) ==
    [k \in DOMAIN name |->
       [atom |-> name[k], escaped |-> name[k] \in HrefSegment]]

\* Where the link of an entry leads, from the page whose path ends in a slash.
LinkTo(dir, name) ==
    [k \in DOMAIN dir |-> Href(dir[k])] \o <<Href(name)>>
    \o (IF Append(dir, name) \in Dirs THEN << <<>> >> ELSE <<>>)
=============================================================================

----------------------------- MODULE Preconditions -----------------------------
(***************************************************************************)
(* precondition::evaluate and the If-Range test of respond, with the       *)
(* comparisons of the headers crate: If-Match and If-Range compare entity  *)
(* tags strongly, If-None-Match weakly, dates by the second.               *)
(***************************************************************************)
EXTENDS Naturals

CONSTANTS
    Absent,    \* the header is not there
    AnyTag,    \* If-Match: * or If-None-Match: *
    BadDate    \* a date that does not parse

\* W/"<device>-<inode>-<size>-<mtime_ns>".
WeakTag(inode, len, mtime) ==
    [weak |-> TRUE, inode |-> inode, len |-> len, mtime |-> mtime]

\* "<digest>".
StrongTag == [weak |-> FALSE, inode |-> 0, len |-> 0, mtime |-> 0]

Tags == [weak : BOOLEAN, inode : Nat, len : Nat, mtime : Nat]

ASSUME HeaderAssumption ==
    /\ Absent \notin Tags /\ AnyTag \notin Tags
    /\ Absent \notin Nat /\ BadDate \notin Nat /\ BadDate # Absent

StrongMatch(tag, other) == tag = other /\ ~tag.weak /\ ~other.weak

\* Two tags match weakly when they differ in nothing but the W/ before them.
Weakened(tag) == [tag EXCEPT !.weak = TRUE]

WeakMatch(tag, other) == Weakened(tag) = Weakened(other)

\* Seeded bug: If-None-Match looks at the W/ as well.
MatchesAlike(condition, tag) == condition = AnyTag \/ condition = tag

Matches(condition, tag) ==
    condition = AnyTag \/ (condition # Absent /\ WeakMatch(condition, tag))

MatchesStrongly(condition, tag) ==
    condition = AnyTag \/ (condition # Absent /\ StrongMatch(condition, tag))

UnmodifiedFails(r, date) ==
    r.ifUnmodifiedSince \notin {Absent, BadDate} /\ r.ifUnmodifiedSince < date

NotModifiedSince(r, date) ==
    r.ifModifiedSince \notin {Absent, BadDate} /\ r.ifModifiedSince >= date

\* Seeded bug: the dates are looked at although a tag was given.
DatesToo(r, tag, date) ==
    IF r.ifMatch # Absent /\ ~MatchesStrongly(r.ifMatch, tag) THEN "failed"
    ELSE IF UnmodifiedFails(r, date) THEN "failed"
    ELSE IF r.ifNoneMatch # Absent /\ Matches(r.ifNoneMatch, tag)
         THEN "notModified"
    ELSE IF NotModifiedSince(r, date) THEN "notModified"
    ELSE "proceed"

\* Only GET and HEAD get this far.
Evaluate(r, tag, date) ==
    IF r.ifMatch # Absent /\ ~MatchesStrongly(r.ifMatch, tag) THEN "failed"
    ELSE IF r.ifMatch = Absent /\ r.ifUnmodifiedSince = BadDate THEN "malformed"
    ELSE IF r.ifMatch = Absent /\ UnmodifiedFails(r, date) THEN "failed"
    ELSE IF r.ifNoneMatch # Absent /\ Matches(r.ifNoneMatch, tag)
         THEN "notModified"
    ELSE IF r.ifNoneMatch = Absent /\ r.ifModifiedSince = BadDate
         THEN "malformed"
    ELSE IF r.ifNoneMatch = Absent /\ NotModifiedSince(r, date)
         THEN "notModified"
    ELSE "proceed"

\* Seeded bug: If-Range is not looked at.
RangeAlwaysCurrent(r, tag, date) == FALSE

\* IfRange::is_modified.  A date is a Nat, a tag a record.
RangeIsStale(r, tag, date) ==
    /\ r.ifRange.by \in {"tag", "date"}
    /\ IF r.ifRange.by = "tag" THEN ~StrongMatch(r.ifRange.tag, tag)
       ELSE r.ifRange.date < date
=============================================================================

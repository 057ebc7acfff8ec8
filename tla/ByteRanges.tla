------------------------------ MODULE ByteRanges ------------------------------
(***************************************************************************)
(* serve/range.rs: the grammar of Range, the clamping of each range to the *)
(* representation, and one round of the loop that coalesces them.          *)
(*                                                                         *)
(* A range-spec is the pair of texts around its "-", each a number, Blank, *)
(* or Junk (not a decimal number; a spec without "-" has first = Junk).    *)
(***************************************************************************)
EXTENDS Naturals, Sequences, SequencesExt

CONSTANTS
    MaxU64,               \* the largest u64
    MaxRawRanges,         \* MAX_RAW_RANGES
    MaxCoalescedRanges,   \* MAX_COALESCED_RANGES
    Blank,                \* no text on that side of the "-"
    Junk                  \* text that is no number

ASSUME RangeAssumption ==
    /\ {MaxU64, MaxRawRanges, MaxCoalescedRanges} \subseteq Nat
    /\ Blank \notin Nat /\ Junk \notin Nat /\ Blank # Junk

-----------------------------------------------------------------------------
(* read_range_header *)

\* parse_u64: strict, and checked for overflow.
IsU64(text) == text \in 0..MaxU64

\* parse_one.
WellFormed(spec) ==
    \/ spec.first = Blank /\ IsU64(spec.last)
    \/ IsU64(spec.first) /\ spec.last = Blank
    \/ /\ IsU64(spec.first) /\ IsU64(spec.last)
       /\ spec.first <= spec.last

\* The field lines of one request count as one line, joined by commas.
RawRanges(lines) == FlattenSeq([k \in DOMAIN lines |-> lines[k].specs])

\* Only the first line may name a unit that is to be ignored.
RangeHeader(lines) ==
    IF lines = <<>> THEN "absent"
    ELSE IF lines[1].unit = "other" THEN "unsupportedUnit"
    ELSE IF /\ \A k \in DOMAIN lines : lines[k].unit = "bytes"
            /\ \A k \in DOMAIN RawRanges(lines) : WellFormed(RawRanges(lines)[k])
         THEN "bytes"
    ELSE "malformed"

-----------------------------------------------------------------------------
(* select *)

Lesser(m, n) == IF m <= n THEN m ELSE n

Greater(m, n) == IF m >= n THEN m ELSE n

ByteRange(start, end) == [start |-> start, end |-> end]

\* Seeded bug: the last byte is taken to be at len.
ClampToLen(spec, len) ==
    IF spec.first = Blank
    THEN IF spec.last = 0 \/ len = 0 THEN {}
         ELSE {ByteRange(len - Lesser(spec.last, len), len)}
    ELSE IF spec.first > len THEN {}
    ELSE {ByteRange(spec.first,
                    IF spec.last = Blank THEN len ELSE Lesser(spec.last, len))}

\* clamp: a set of one range, or of none.
Clamp(spec, len) ==
    IF spec.first = Blank
    THEN IF spec.last = 0 \/ len = 0 THEN {}
         ELSE {ByteRange(len - Lesser(spec.last, len), len - 1)}
    ELSE IF spec.first >= len THEN {}
    ELSE {ByteRange(spec.first,
                    IF spec.last = Blank THEN len - 1
                    ELSE Lesser(spec.last, len - 1))}

Satisfiable(raw, len) == UNION {Clamp(raw[k], len) : k \in DOMAIN raw}

\* Seeded bug: the later of two overlapping ranges decides where they end.
AbsorbEnd(out, r) ==
    IF out # <<>> /\ r.start <= out[Len(out)].end + 1
    THEN [out EXCEPT ![Len(out)].end = r.end]
    ELSE Append(out, r)

\* Seeded bug: ranges that touch are kept apart.
AbsorbApart(out, r) ==
    IF out # <<>> /\ r.start <= out[Len(out)].end
    THEN [out EXCEPT ![Len(out)].end = Greater(@, r.end)]
    ELSE Append(out, r)

\* coalesce, for the next range in order of starts.
Absorb(out, r) ==
    IF out # <<>> /\ r.start <= out[Len(out)].end + 1
    THEN [out EXCEPT ![Len(out)].end = Greater(@, r.end)]
    ELSE Append(out, r)

-----------------------------------------------------------------------------
(* What it all means, independently of how it is computed *)

Bytes(r) == r.start..r.end

BytesIn(ranges) == UNION {Bytes(r) : r \in ranges}

BytesOut(out) == UNION {Bytes(out[k]) : k \in DOMAIN out}

\* The bytes of a representation a range-spec asks for.
Wanted(spec, len) ==
    IF spec.first = Blank THEN {b \in 0..len-1 : b + spec.last >= len}
    ELSE {b \in 0..len-1 :
            /\ b >= spec.first
            /\ spec.last = Blank \/ b <= spec.last}

\* Ascending, and with a gap of a byte at least between any two.
Separated(out) ==
    \A j, k \in DOMAIN out : j < k => out[j].end + 1 < out[k].start
=============================================================================

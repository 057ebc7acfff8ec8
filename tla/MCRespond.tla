------------------------------- MODULE MCRespond -------------------------------
(* TLC instances of Respond. *)
EXTENDS Respond

u(atom) == [atom |-> atom, escaped |-> FALSE]
e(atom) == [atom |-> atom, escaped |-> TRUE]

MCDirs == { <<>>, << <<"d">> >>, << <<"d">>, <<"pcas">> >>, << <<"i">> >>,
            << Pcas >>, << DotPcas >> }
MCRegulars == { << <<"f">> >>, << <<"x", "%", " ">> >>, << Pcas, <<"f">> >>, << LegacyDb >>,
                << <<"d">>, LegacyDb >>, << <<"d">>, <<"?", "#">> >>,
                << <<"i">>, IndexHtml >> }
MCObjects == {"digest"}

File == << <<u("f")>> >>
Object == << <<u("pcas")>>, <<u("digest")>> >>

\* Every way handle and path::parse can go.
Paths ==
    { <<>>, File, << <<u("f")>>, <<>> >>, Object,
      << <<u("pcas")>>, <<u("unknownDigest")>> >>,
      << <<u("pcas")>>, <<u("digest")>>, <<>> >>,
      << <<u("pcas")>> >>, << <<u(".")>>, <<u("pcas")>>, <<>> >>, << <<u("."), u("pcas")>>, <<u("f")>> >>,
      << <<u("purecas.db")>> >>, << <<u("d")>> >>, << <<u("d")>>, <<>> >>,
      << <<u("i")>>, <<>> >>, << <<u("d")>>, <<e("pcas")>>, <<>> >>,
      << <<u("missing")>> >>, << <<>>, <<u("f")>> >>,
      << <<u("d")>>, <<u("."), e(".")>>, <<u("f")>> >>,
      << <<u("d"), e("/"), u("f")>> >>,
      << <<u("f")>>, <<u(".")>> >>, << <<u("d")>>, <<u(".")>>, <<>> >>,
      << <<u("f"), u("%")>> >>, << <<u("f"), e("NUL")>> >> }

Routed == {[Plain EXCEPT !.path = path] : path \in Paths}
          \cup {[Plain EXCEPT !.path = <<>>, !.method = m] : m \in {"HEAD", "POST"}}

InitialTag == WeakTag(1, Length, 0)

\* The same tags, but for the W/.
WeakDigest == Weakened(StrongTag)
StrongFile == [InitialTag EXCEPT !.weak = FALSE]

\* Preconditions on the file (weak tag) and on the object (strong tag).
Conditional ==
    {[Plain EXCEPT !.path = path, !.method = "HEAD", !.ifMatch = im,
                   !.ifUnmodifiedSince = iu, !.ifNoneMatch = in,
                   !.ifModifiedSince = id] :
       path \in {File, Object},
       im \in {Absent, AnyTag, StrongTag, InitialTag, WeakDigest, StrongFile},
       iu \in {Absent, BadDate, 0},
       in \in {Absent, StrongTag, InitialTag, WeakDigest, StrongFile},
       id \in {Absent, BadDate, 0}}

Spec(first, last) == [first |-> first, last |-> last]

\* Past the end, overlapping, touching, empty, inverted, overflowing, garbled.
Specs == { Spec(0, 0), Spec(1, 2), Spec(2, 9), Spec(4, 4), Spec(3, Blank),
           Spec(5, Blank), Spec(Blank, 1), Spec(Blank, 9), Spec(Blank, 0) }
Paired == { Spec(0, 0), Spec(1, 2), Spec(2, 9), Spec(4, 4), Spec(Blank, 1),
            Spec(Blank, 0) }
BadSpecs == { Spec(2, 1), Spec(0, MaxU64 + 1), Spec(Junk, Junk), Spec(Blank, Junk) }

Line(specs) == [unit |-> "bytes", specs |-> specs]
Other == [unit |-> "other", specs |-> <<Spec(0, 0)>>]

SpecLists ==
    {<<s>> : s \in Specs \cup BadSpecs} \cup {<<s, t>> : s, t \in Paired}
    \cup {<<Spec(4, 4), s, t>> : s, t \in {Spec(0, 0), Spec(2, 9), Spec(1, 2), Spec(2, 2)}}
    \cup {<<Spec(0, 0), Spec(0, 0), Spec(0, 0), Spec(0, 0)>>}

RangeLines ==
    {<<Line(specs)>> : specs \in SpecLists}
    \cup {<<Other>>, <<Other, Line(<<Spec(0, 0)>>)>>, <<Line(<<Spec(0, 0)>>), Other>>,
          <<Line(<<Spec(3, 3)>>), Line(<<Spec(0, 1)>>)>>}

Ranged == {[Plain EXCEPT !.path = File, !.range = lines] : lines \in RangeLines}

Qualified ==
    {[Plain EXCEPT !.path = path, !.method = m, !.range = <<Line(<<s>>)>>,
                   !.ifRange = [by |-> by, tag |-> StrongTag, date |-> 0]] :
       path \in {File, Object}, m \in {"GET", "HEAD"}, s \in {Spec(0, 1), Spec(Blank, 9)},
       by \in {"absent", "bad", "tag", "date"}}
    \cup {[Plain EXCEPT !.path = File, !.method = "HEAD",
                        !.range = <<Line(<<Spec(0, 0), Spec(4, 4)>>)>>]}

MCRequests == Routed \cup Conditional \cup Ranged \cup Qualified

MCWriteLengths == {0, 3, 6}
=============================================================================

-------------------------- MODULE LegacyStoreProofs --------------------------
(***************************************************************************)
(* What LegacySpec promises whatever the number of processes, roots,       *)
(* files, chunks, faults and edits, for every command a user can give:     *)
(* the inductive invariant, and what fs::copy can do to the files.         *)
(***************************************************************************)
EXTENDS LegacyStore, TLAPS, FiniteSetTheorems, WellFoundedInduction

-----------------------------------------------------------------------------
(* Sequences and finite sets.                                              *)

(* Induction over the numbers, for a set instead of a predicate.            *)
LEMMA SetInduction ==
    ASSUME NEW S, 0 \in S, \A k \in Nat : k \in S => k + 1 \in S
    PROVE  \A k \in Nat : k \in S
<1> DEFINE T == {1 .. k : k \in {j \in Nat : j \notin S}}
           R == StrictSubsetOrdering(Nat)
           F == FiniteSubsetsOf(Nat)
<1> SUFFICES ASSUME NEW k \in Nat, k \notin S PROVE FALSE
  OBVIOUS
<1>1. IsWellFoundedOn(R, F)
  BY FS_StrictSubsetOrderingWellFounded
<1>2. T \subseteq F /\ T # {}
  <2>1. \A j \in Nat : IsFiniteSet(1 .. j)
    BY FS_Interval
  <2>2. \A j \in Nat : 1 .. j \in SUBSET Nat
    OBVIOUS
  <2>3. \A j \in Nat : 1 .. j \in F
    BY <2>1, <2>2 DEF FiniteSubsetsOf
  <2>4. 1 .. k \in T
    OBVIOUS
  <2> HIDE DEF F
  <2> QED BY <2>3, <2>4
<1>3. PICK m \in T : \A y \in T : <<y, m>> \notin R
  <2> HIDE DEF T, R, F
  <2> QED BY <1>1, <1>2, WFMin
<1>4. PICK j \in Nat : j \notin S /\ m = 1 .. j
  BY <1>3
<1>5. j # 0 /\ j - 1 \in Nat /\ j - 1 \notin S
  BY <1>4
<1>6. 1 .. (j - 1) \in T
  BY <1>5
<1>7. <<1 .. (j - 1), 1 .. j>> \in R
  <2>1. 1 .. (j-1) \subseteq 1..j /\ j \in 1..j /\ j \notin 1..(j-1) /\ 1..j \subseteq Nat
    BY <1>5
  <2> QED BY <2>1 DEF StrictSubsetOrdering
<1> QED BY <1>3, <1>4, <1>6, <1>7

(* f is what FlattenSeq computes for the first m sequences.                 *)
Flattens(seqs, f, m) ==
    f = [i \in 1..m |-> IF i = 1 THEN seqs[i] ELSE f[i-1] \o seqs[i]]

LEMMA FlattensNext ==
    ASSUME NEW seqs, NEW k \in Nat, NEW f, Flattens(seqs, f, k + 1)
    PROVE  \E g : Flattens(seqs, g, k + 2)
<1> DEFINE g == [i \in 1..(k + 2) |-> IF i = k + 2 THEN f[k + 1] \o seqs[k + 2] ELSE f[i]]
<1>1. \A i \in 1..(k + 2) :
         g[i] = IF i = 1 THEN seqs[i] ELSE g[i-1] \o seqs[i]
  <2> TAKE i \in 1..(k + 2)
  <2>1. CASE i = k + 2
    <3>1. i - 1 = k + 1 /\ i - 1 \in 1..(k + 2) /\ i - 1 # k + 2 /\ i # 1
      BY <2>1
    <3> QED BY <2>1, <3>1
  <2>2. CASE i # k + 2
    <3>1. i \in 1..(k + 1)
      BY <2>2
    <3>2. f[i] = IF i = 1 THEN seqs[i] ELSE f[i-1] \o seqs[i]
      BY <3>1 DEF Flattens
    <3>3. i # 1 => g[i - 1] = f[i - 1]
      BY <3>1
    <3> QED BY <2>2, <3>2, <3>3
  <2> QED BY <2>1, <2>2
<1>2. g = [i \in 1..(k + 2) |-> IF i = 1 THEN seqs[i] ELSE g[i-1] \o seqs[i]]
  BY <1>1
<1> QED BY <1>2 DEF Flattens

LEMMA FlattensExists ==
    ASSUME NEW seqs, NEW n \in Nat, n # 0
    PROVE  \E f : Flattens(seqs, f, n)
<1> DEFINE S == {k \in Nat : \E f : Flattens(seqs, f, k + 1)}
<1>1. 0 \in S
  <2>1. Flattens(seqs, [i \in 1..1 |-> seqs[1]], 1)
    BY DEF Flattens
  <2>2. 0 + 1 = 1
    OBVIOUS
  <2> QED BY <2>1, <2>2
<1>2. ASSUME NEW k \in Nat, k \in S PROVE k + 1 \in S
  <2>1. (k + 1) + 1 = k + 2
    OBVIOUS
  <2>2. \E f : Flattens(seqs, f, k + 1)
    BY <1>2
  <2>3. \E f : Flattens(seqs, f, k + 2)
    BY <2>2, FlattensNext
  <2> QED BY <2>1, <2>3
<1>3. n - 1 \in S
  <2> HIDE DEF S
  <2>1. \A k \in Nat : k \in S
    BY <1>1, <1>2, SetInduction
  <2> QED BY <2>1
<1>4. (n - 1) + 1 = n
  OBVIOUS
<1> QED BY <1>3, <1>4

(* What is closed under concatenation is closed under FlattenSeq.           *)
LEMMA FlattenClosed ==
    ASSUME NEW G, <<>> \in G, \A a, b \in G : a \o b \in G,
           NEW seqs \in Seq(G)
    PROVE  FlattenSeq(seqs) \in G
<1> DEFINE n == Len(seqs)
           flatten == CHOOSE f : Flattens(seqs, f, n)
           I == {k \in Nat : k < n => flatten[k + 1] \in G}
<1>0. n \in Nat /\ \A i \in 1..n : seqs[i] \in G
  OBVIOUS
<1>1. CASE n = 0
  BY <1>1 DEF FlattenSeq
<1>2. CASE n # 0
  <2>1. Flattens(seqs, flatten, n)
    BY <1>0, <1>2, FlattensExists
  <2>2. FlattenSeq(seqs) = flatten[n]
    BY <1>2 DEF FlattenSeq, Flattens
  <2> HIDE DEF flatten, n
  <2>3. \A i \in 1..n : flatten[i] = IF i = 1 THEN seqs[i] ELSE flatten[i-1] \o seqs[i]
    BY <2>1 DEF Flattens
  <2>4. 0 \in I
    <3>1. 1 \in 1..n /\ 0 + 1 = 1
      BY <1>0, <1>2
    <3> QED BY <1>0, <2>3, <3>1
  <2>5. ASSUME NEW k \in Nat, k \in I PROVE k + 1 \in I
    <3> SUFFICES ASSUME k + 1 < n PROVE flatten[(k + 1) + 1] \in G
      OBVIOUS
    <3>1. k + 2 \in 1..n /\ k < n /\ (k + 2) - 1 = k + 1 /\ k + 2 # 1 /\ (k + 1) + 1 = k + 2
      BY <1>0
    <3>2. flatten[k + 2] = flatten[k + 1] \o seqs[k + 2]
      BY <2>3, <3>1
    <3>3. flatten[k + 1] \in G
      BY <2>5, <3>1
    <3> QED BY <1>0, <3>1, <3>2, <3>3
  <2>6. n - 1 \in I
    <3> HIDE DEF I
    <3>1. \A k \in Nat : k \in I
      BY <2>4, <2>5, SetInduction
    <3> QED BY <1>0, <1>2, <3>1
  <2>7. flatten[n] \in G
    <3>1. n - 1 < n /\ (n - 1) + 1 = n
      BY <1>0
    <3> QED BY <2>6, <3>1
  <2> QED BY <2>2, <2>7
<1> QED BY <1>1, <1>2

LEMMA SetToSeqType ==
    ASSUME NEW S, IsFiniteSet(S)
    PROVE  SetToSeq(S) \in Seq(S)
<1>1. Cardinality(S) \in Nat /\ ExistsBijection(1..Cardinality(S), S)
  BY FS_CardinalityType
<1>2. PICK f \in [1..Cardinality(S) -> S] : IsInjective(f)
  BY <1>1 DEF ExistsBijection, Bijection, Injection, IsInjective
<1>3. SetToSeq(S) \in [1..Cardinality(S) -> S]
  BY <1>2 DEF SetToSeq
<1> QED BY <1>1, <1>3

LEMMA SetToSeqCovers ==
    ASSUME NEW S, IsFiniteSet(S), NEW x \in S
    PROVE  \E i \in 1..Len(SetToSeq(S)) : SetToSeq(S)[i] = x
<1> DEFINE n == Cardinality(S)
           s == SetToSeq(S)
<1>1. n \in Nat /\ ExistsBijection(1..n, S)
  BY FS_CardinalityType
<1>2. PICK f \in [1..n -> S] : IsInjective(f)
  BY <1>1 DEF ExistsBijection, Bijection, Injection, IsInjective
<1>3. s \in [1..n -> S] /\ IsInjective(s)
  BY <1>2 DEF SetToSeq
<1> HIDE DEF s
<1>4. s \in Injection(1..n, S)
  BY <1>3 DEF Injection, IsInjective
<1>5. Cardinality(1..n) = n
  BY <1>1, FS_Interval
<1>6. s \in Surjection(1..n, S)
  BY <1>4, <1>5, FS_Injection
<1>7. \E i \in 1..n : s[i] = x
  BY <1>6 DEF Surjection
<1>8. Len(s) = n
  BY <1>1, <1>3
<1> QED BY <1>7, <1>8 DEF s

LEMMA SetToSeqsType ==
    ASSUME NEW S, IsFiniteSet(S), NEW s \in SetToSeqs(S)
    PROVE  s \in Seq(S)
<1>1. Cardinality(S) \in Nat
  BY FS_CardinalityType
<1>2. s \in [1..Cardinality(S) -> S]
  BY DEF SetToSeqs
<1> QED BY <1>1, <1>2

LEMMA DigestsFinite == IsFiniteSet(Digest) /\ IsFiniteSet(Ids)
<1> DEFINE Cells == (1..Size) \X Atoms
           g == [f \in Digest |-> {<<i, f[i]>> : i \in 1..Size}]
<1>1. IsFiniteSet(Atoms) /\ IsFiniteSet(Packages) /\ Size \in Nat
  BY LegacyAssumption
<1>2. IsFiniteSet(SUBSET Cells)
  <2>1. IsFiniteSet(1..Size)
    BY <1>1, FS_Interval
  <2>2. IsFiniteSet(Cells)
    BY <1>1, <2>1, FS_Product
  <2> HIDE DEF Cells
  <2> QED BY <2>2, FS_SUBSET
<1>3. g \in [Digest -> SUBSET Cells]
  <2>1. \A f \in Digest, i \in 1..Size : f[i] \in Atoms
    BY DEF Digest
  <2>2. \A f \in Digest : {<<i, f[i]>> : i \in 1..Size} \in SUBSET Cells
    BY <2>1
  <2> HIDE DEF Cells
  <2> QED BY <2>2
<1>4. ASSUME NEW a \in Digest, NEW b \in Digest, g[a] = g[b] PROVE a = b
  <2>1. ASSUME NEW i \in 1..Size PROVE a[i] = b[i]
    <3>1. <<i, a[i]>> \in {<<j, b[j]>> : j \in 1..Size}
      BY <1>4
    <3> QED BY <3>1
  <2>2. a = [i \in 1..Size |-> a[i]] /\ b = [i \in 1..Size |-> b[i]]
    BY DEF Digest
  <2> QED BY <2>1, <2>2
<1>5. g \in Injection(Digest, SUBSET Cells)
  <2> HIDE DEF g, Cells
  <2> QED BY <1>3, <1>4 DEF Injection, IsInjective
<1>6. IsFiniteSet(Digest)
  <2> HIDE DEF g, Cells
  <2> QED BY <1>2, <1>5, FS_Injection
<1> QED BY <1>1, <1>6, FS_Union DEF Ids

-----------------------------------------------------------------------------
(* The calls of the commands.                                              *)

Inputs == Sources \cup Digest \cup {Absent}
Parts == {"names", "tags", "metadata", "relations"}

StatementCalls ==
    [op : {"insert_blob"}, hash : Digest \cup {Added}]
    \cup [op : {"insert_blob_name"}, hash : Digest \cup {Added}, name : Names]
    \cup [op : {"create_package"}, name : Packages]
    \cup [op : {"add_blob_to_package"}, name : Packages, hash : Digest]
    \cup [op : {"add_tag"}, hash : Ids \cup {Added}, tag : Tags]
    \cup [op : {"set_metadata"}, hash : Ids \cup {Added}, value : Values]
    \cup [op : {"add_relation"}, hash : Digest, target : Digest]

(* The statements that take rows away.                                      *)
RemovingCalls == [op : {"delete_members", "delete_package"}, name : Packages]

(* The calls of a command that takes none away and transfers nothing.       *)
AddingCalls ==
    StatementCalls
    \cup [op : {"store"}, input : Inputs]
    \cup [op : {"verify_path"}, input : Sources, expected : Digest]
    \cup [op : {"download"}, body : Digest \cup {Absent}, expected : Digest \cup {NoValue}]

(* The calls a command starts with that takes none away.                    *)
CommandCalls ==
    AddingCalls
    \cup [op : {"export"}, name : Packages]
    \cup [op : {"import_blobs", "import_manifest"}]

(* The calls an import and an export put at the head of the list.           *)
ImportingCalls ==
    StatementCalls
    \cup [op : {"import_blob"}, hash : Digest]
    \cup [op : {"merge_metadata"}, hash : Ids, value : Values]
    \cup [op : {"ensure_package"}, name : Packages]
ExportingCalls ==
    [op : {"export_blob"}, hash : Digest]
    \cup [op : {"collect"}, part : Parts]
    \cup [op : {"create_manifest", "write_manifest"}]

WorkCalls == CommandCalls \cup RemovingCalls \cup ImportingCalls \cup ExportingCalls
AllCalls == WorkCalls \cup Lines

UsesAdded(c) ==
    c.op \in {"insert_blob", "insert_blob_name", "add_tag", "set_metadata"} /\ c.hash = Added
InsertsHash(c) == c.op = "insert_blob" /\ c.hash # Added

(* Some call of s before the i-th stores a blob, or imports the blob h.     *)
StoresBefore(s, i) == \E j \in 1..(i - 1) : s[j].op = "store"
ImportsBefore(s, i, h) == \E j \in 1..(i - 1) : s[j].op = "import_blob" /\ s[j].hash = h

(* The calls of s get the file of every row they insert themselves.         *)
Lists(C) ==
    {s \in Seq(C) : \A i \in 1..Len(s) :
        /\ UsesAdded(s[i]) => StoresBefore(s, i)
        /\ InsertsHash(s[i]) => ImportsBefore(s, i, s[i].hash)}

LEMMA NoCalls == \A C : <<>> \in Lists(C)
BY DEF Lists

LEMMA Concatenation ==
    ASSUME NEW C, NEW a \in Seq(C), NEW b \in Seq(C)
    PROVE  /\ a \o b \in Seq(C) /\ Len(a \o b) = Len(a) + Len(b)
           /\ \A i \in 1..Len(a) : (a \o b)[i] = a[i]
           /\ \A i \in 1..Len(b) : (a \o b)[Len(a) + i] = b[i]
           /\ \A i \in 1..Len(a \o b) :
                 \/ i \in 1..Len(a) /\ (a \o b)[i] = a[i]
                 \/ /\ i - Len(a) \in 1..Len(b) /\ i > Len(a)
                    /\ (a \o b)[i] = b[i - Len(a)]
OBVIOUS

(* The calls that follow a list may also use what the list stored.          *)
LEMMA ListsExtended ==
    ASSUME NEW C, NEW a \in Lists(C), NEW b \in Seq(C),
           \A i \in 1..Len(b) :
              /\ UsesAdded(b[i]) => StoresBefore(b, i) \/ \E j \in 1..Len(a) : a[j].op = "store"
              /\ InsertsHash(b[i]) => ImportsBefore(b, i, b[i].hash)
    PROVE  a \o b \in Lists(C)
<1> DEFINE s == a \o b
<1>1. a \in Seq(C) /\ Len(a) \in Nat /\ Len(b) \in Nat
  BY DEF Lists
<1>2. /\ s \in Seq(C) /\ Len(s) = Len(a) + Len(b)
      /\ \A i \in 1..Len(a) : s[i] = a[i]
      /\ \A i \in 1..Len(b) : s[Len(a) + i] = b[i]
      /\ \A i \in 1..Len(s) :
            \/ i \in 1..Len(a) /\ s[i] = a[i]
            \/ i - Len(a) \in 1..Len(b) /\ i > Len(a) /\ s[i] = b[i - Len(a)]
  BY <1>1, Concatenation
<1> HIDE DEF s
<1>3. ASSUME NEW i \in 1..Len(s)
      PROVE  /\ UsesAdded(s[i]) => StoresBefore(s, i)
             /\ InsertsHash(s[i]) => ImportsBefore(s, i, s[i].hash)
  <2>1. CASE i \in 1..Len(a) /\ s[i] = a[i]
    <3>1. \A j \in 1..(i - 1) : s[j] = a[j]
      BY <1>1, <1>2, <2>1
    <3>2. /\ UsesAdded(a[i]) => StoresBefore(a, i)
          /\ InsertsHash(a[i]) => ImportsBefore(a, i, a[i].hash)
      BY <2>1 DEF Lists
    <3> QED BY <2>1, <3>1, <3>2 DEF StoresBefore, ImportsBefore
  <2>2. CASE i - Len(a) \in 1..Len(b) /\ i > Len(a) /\ s[i] = b[i - Len(a)]
    <3>1. PICK k \in 1..Len(b) : k = i - Len(a) /\ s[i] = b[k]
      BY <2>2
    <3>2. \A j \in 1..(k - 1) : Len(a) + j \in 1..(i - 1) /\ s[Len(a) + j] = b[j]
      BY <1>1, <1>2, <3>1
    <3>3. \A j \in 1..Len(a) : j \in 1..(i - 1) /\ s[j] = a[j]
      BY <1>1, <1>2, <2>2
    <3>4. ASSUME UsesAdded(s[i]) PROVE StoresBefore(s, i)
      <4>1. CASE StoresBefore(b, k)
        BY <3>2, <4>1 DEF StoresBefore
      <4>2. CASE \E j \in 1..Len(a) : a[j].op = "store"
        BY <3>3, <4>2 DEF StoresBefore
      <4> QED BY <3>1, <3>4, <4>1, <4>2
    <3>5. ASSUME InsertsHash(s[i]) PROVE ImportsBefore(s, i, s[i].hash)
      <4>1. PICK j \in 1..(k - 1) : b[j].op = "import_blob" /\ b[j].hash = b[k].hash
        BY <3>1, <3>5 DEF ImportsBefore
      <4> QED BY <3>1, <3>2, <4>1 DEF ImportsBefore
    <3> QED BY <3>4, <3>5
  <2> QED BY <1>2, <2>1, <2>2
<1>4. s \in Lists(C)
  BY <1>2, <1>3 DEF Lists
<1> QED BY <1>4 DEF s

LEMMA ListsConcatenated ==
    ASSUME NEW C, NEW a \in Lists(C), NEW b \in Lists(C)
    PROVE  a \o b \in Lists(C)
<1>1. b \in Seq(C) /\ \A i \in 1..Len(b) :
              /\ UsesAdded(b[i]) => StoresBefore(b, i)
              /\ InsertsHash(b[i]) => ImportsBefore(b, i, b[i].hash)
  BY DEF Lists
<1> QED BY <1>1, ListsExtended

LEMMA ListsFlattened ==
    ASSUME NEW C, NEW seqs \in Seq(Lists(C))
    PROVE  FlattenSeq(seqs) \in Lists(C)
BY NoCalls, ListsConcatenated, FlattenClosed

(* A list none of whose calls inserts the row of a blob.                    *)
LEMMA PlainList ==
    ASSUME NEW C, NEW s \in Seq(C),
           \A i \in 1..Len(s) : ~UsesAdded(s[i]) /\ ~InsertsHash(s[i])
    PROVE  s \in Lists(C)
BY DEF Lists

LEMMA SingleCall ==
    ASSUME NEW C, NEW c \in C, ~UsesAdded(c), ~InsertsHash(c)
    PROVE  <<c>> \in Lists(C)
<1>1. <<c>> \in Seq(C) /\ \A i \in 1..Len(<<c>>) : <<c>>[i] = c
  OBVIOUS
<1> QED BY <1>1, PlainList

LEMMA ThreeCalls ==
    ASSUME NEW a, NEW b, NEW c
    PROVE  <<a>> \o <<b, c>> = <<a, b, c>>
<1> DEFINE s == <<a>> \o <<b, c>>
           t == <<a, b, c>>
<1>1. <<a>> \in Seq({a, b, c}) /\ <<b, c>> \in Seq({a, b, c})
  OBVIOUS
<1>2. Len(<<a>>) = 1 /\ Len(<<b, c>>) = 2 /\ <<a>>[1] = a /\ <<b, c>>[1] = b /\ <<b, c>>[2] = c
  OBVIOUS
<1>3. /\ s \in Seq({a, b, c}) /\ Len(s) = 3
      /\ s[1] = a /\ s[1 + 1] = b /\ s[1 + 2] = c
  BY <1>1, <1>2, Concatenation
<1>4. t \in Seq({a, b, c}) /\ Len(t) = 3 /\ t[1] = a /\ t[2] = b /\ t[3] = c
  OBVIOUS
<1> HIDE DEF s, t
<1>5. 1 + 1 = 2 /\ 1 + 2 = 3 /\ 1..3 = {1, 2, 3}
  OBVIOUS
<1>6. s = [i \in 1..3 |-> s[i]] /\ t = [i \in 1..3 |-> t[i]]
  BY <1>3, <1>4
<1>7. \A i \in 1..3 : s[i] = t[i]
  BY <1>3, <1>4, <1>5
<1> QED BY <1>6, <1>7 DEF s, t

LEMMA StoredList ==
    ASSUME NEW input \in Inputs
    PROVE  /\ Stores(input) \in Lists(AddingCalls)
           /\ \A name \in Names : Stored(input, name) \in Lists(AddingCalls)
           /\ \A name : Len(Stored(input, name)) = 3 /\ Stored(input, name)[1].op = "store"
<1> DEFINE c1 == [op |-> "store", input |-> input]
           c2 == [op |-> "insert_blob", hash |-> Added]
<1>1. c1 \in AddingCalls /\ ~UsesAdded(c1) /\ ~InsertsHash(c1)
  BY DEF AddingCalls, UsesAdded, InsertsHash
<1>2. <<c1>> \in Lists(AddingCalls)
  <2> HIDE DEF c1
  <2> QED BY <1>1, SingleCall
<1>3. ASSUME NEW name
      PROVE  /\ Len(Stored(input, name)) = 3 /\ Stored(input, name)[1].op = "store"
             /\ name \in Names => Stored(input, name) \in Lists(AddingCalls)
  <2> DEFINE c3 == [op |-> "insert_blob_name", hash |-> Added, name |-> name]
             s == <<c1>> \o <<c2, c3>>
  <2>1. s = <<c1, c2, c3>>
    BY ThreeCalls
  <2>2. name \in Names => c2 \in AddingCalls /\ c3 \in AddingCalls
    BY DEF AddingCalls, StatementCalls
  <2>3. ~InsertsHash(c2) /\ ~InsertsHash(c3) /\ c1.op = "store"
    BY DEF InsertsHash
  <2>4. name \in Names => s \in Lists(AddingCalls)
    <3> HIDE DEF c1, c2, c3
    <3>1. StoresBefore(<<c1, c2, c3>>, 2) /\ StoresBefore(<<c1, c2, c3>>, 3)
      BY <2>3 DEF StoresBefore
    <3>2. /\ Len(<<c1, c2, c3>>) = 3 /\ <<c1, c2, c3>>[1] = c1
          /\ <<c1, c2, c3>>[2] = c2 /\ <<c1, c2, c3>>[3] = c3
      OBVIOUS
    <3>3. \A i \in 1..3 :
             /\ UsesAdded(<<c1, c2, c3>>[i]) => StoresBefore(<<c1, c2, c3>>, i)
             /\ ~InsertsHash(<<c1, c2, c3>>[i])
      BY <1>1, <2>3, <3>1, <3>2
    <3>4. name \in Names => <<c1, c2, c3>> \in Seq(AddingCalls)
      BY <1>1, <2>2
    <3> QED BY <2>1, <3>2, <3>3, <3>4 DEF Lists
  <2>5. s = Stored(input, name)
    BY DEF Stored, Stores
  <2>6. Len(s) = 3 /\ s[1] = c1
    <3> HIDE DEF c1, c2, c3
    <3> QED BY <2>1
  <2> QED BY <2>3, <2>4, <2>5, <2>6
<1> QED BY <1>2, <1>3 DEF Stores

LEMMA DownloadList ==
    ASSUME NEW body \in Digest \cup {Absent}, NEW expected \in Digest \cup {NoValue}
    PROVE  Download(body, expected) \in Lists(AddingCalls)
<1> DEFINE c == [op |-> "download", body |-> body, expected |-> expected]
<1>1. c \in AddingCalls /\ ~UsesAdded(c) /\ ~InsertsHash(c)
  BY DEF AddingCalls, UsesAdded, InsertsHash
<1>2. <<c>> \in Lists(AddingCalls)
  <2> HIDE DEF c
  <2> QED BY <1>1, SingleCall
<1> QED BY <1>2 DEF Download

LEMMA UnzippedList ==
    ASSUME NEW archive \in Archives
    PROVE  /\ UnzipAndStore(archive) \in Lists(AddingCalls)
           /\ FlattenSeq([i \in 1..Len(archive) |->
                 IF Skipped(archive[i]) THEN <<>> ELSE Stores(archive[i].body)])
              \in Lists(AddingCalls)
<1> DEFINE stored == [i \in 1..Len(archive) |->
              IF Skipped(archive[i]) THEN <<>> ELSE Stored(archive[i].body, archive[i].name)]
           stores == [i \in 1..Len(archive) |->
              IF Skipped(archive[i]) THEN <<>> ELSE Stores(archive[i].body)]
<1>1. Len(archive) \in Nat
  BY DEF Archives
<1>2. ASSUME NEW i \in 1..Len(archive), ~Skipped(archive[i])
      PROVE  archive[i].body \in Inputs /\ archive[i].name \in Names
  <2>1. archive[i] \in [dir : {TRUE}, name : Names \cup {NoValue}, body : {NoValue}]
                       \cup [dir : {FALSE}, name : Names \cup {NoValue}, body : Digest]
    <3> DEFINE Entry == [dir : {TRUE}, name : Names \cup {NoValue}, body : {NoValue}]
                        \cup [dir : {FALSE}, name : Names \cup {NoValue}, body : Digest]
    <3>1. archive \in Seq(Entry)
      BY DEF Archives
    <3> HIDE DEF Entry
    <3>2. archive[i] \in Entry
      BY <3>1
    <3> QED BY <3>2 DEF Entry
  <2>2. ~archive[i].dir /\ archive[i].name # NoValue
    BY <1>2 DEF Skipped
  <2>3. archive[i] \in [dir : {FALSE}, name : Names \cup {NoValue}, body : Digest]
    BY <2>1, <2>2
  <2> QED BY <2>2, <2>3 DEF Inputs
<1>3. \A i \in 1..Len(archive) : /\ stored[i] \in Lists(AddingCalls)
                                 /\ stores[i] \in Lists(AddingCalls)
  BY <1>2, NoCalls, StoredList
<1>4. stored \in Seq(Lists(AddingCalls)) /\ stores \in Seq(Lists(AddingCalls))
  <2>1. /\ stored \in [1..Len(archive) -> Lists(AddingCalls)]
        /\ stores \in [1..Len(archive) -> Lists(AddingCalls)]
    BY <1>3
  <2> HIDE DEF stored, stores
  <2> QED BY <1>1, <2>1
<1>5. FlattenSeq(stored) \in Lists(AddingCalls) /\ FlattenSeq(stores) \in Lists(AddingCalls)
  <2> HIDE DEF stored, stores
  <2> QED BY <1>4, ListsFlattened
<1> QED BY <1>5 DEF UnzipAndStore

LEMMA TagsList ==
    ASSUME NEW id \in Ids \cup {Added}, NEW tags \in Seq(Tags)
    PROVE  /\ AddTags(id, tags) \in Seq(AddingCalls)
           /\ Len(AddTags(id, tags)) = Len(tags)
           /\ \A i \in 1..Len(tags) : /\ ~InsertsHash(AddTags(id, tags)[i])
                                      /\ id # Added => ~UsesAdded(AddTags(id, tags)[i])
<1>1. \A i \in 1..Len(tags) :
         /\ [op |-> "add_tag", hash |-> id, tag |-> tags[i]] \in AddingCalls
         /\ ~InsertsHash([op |-> "add_tag", hash |-> id, tag |-> tags[i]])
         /\ id # Added => ~UsesAdded([op |-> "add_tag", hash |-> id, tag |-> tags[i]])
  BY DEF AddingCalls, StatementCalls, UsesAdded, InsertsHash
<1> QED BY <1>1 DEF AddTags

LEMMA MetadataList ==
    ASSUME NEW id \in Ids \cup {Added}, NEW value \in Values
    PROVE  /\ BlobMetadata(id, value) \in Seq(AddingCalls)
           /\ Len(BlobMetadata(id, value)) = 1
           /\ ~InsertsHash(BlobMetadata(id, value)[1])
           /\ id # Added => ~UsesAdded(BlobMetadata(id, value)[1])
BY DEF BlobMetadata, AddingCalls, StatementCalls, UsesAdded, InsertsHash

LEMMA AddPathList ==
    ASSUME NEW file \in Sources, NEW tags \in Seq(Tags), NEW meta \in Values \cup {NoValue}
    PROVE  AddPath(file) \o AddTags(Added, tags)
              \o (IF meta = NoValue THEN <<>> ELSE BlobMetadata(Added, meta))
           \in Lists(AddingCalls)
<1> DEFINE a == AddPath(file)
           b == AddTags(Added, tags)
           m == IF meta = NoValue THEN <<>> ELSE BlobMetadata(Added, meta)
<1>1. a \in Lists(AddingCalls) /\ Len(a) = 3 /\ a[1].op = "store"
  <2>1. file \in Inputs /\ file \in Names
    BY LegacyAssumption DEF Inputs
  <2> QED BY <2>1, StoredList DEF AddPath
<1>2. b \in Seq(AddingCalls) /\ Len(b) \in Nat /\ \A i \in 1..Len(b) : ~InsertsHash(b[i])
  <2>1. Len(tags) \in Nat
    OBVIOUS
  <2>2. Added \in Ids \cup {Added}
    OBVIOUS
  <2>3. /\ b \in Seq(AddingCalls) /\ Len(b) = Len(tags)
        /\ \A i \in 1..Len(tags) : ~InsertsHash(b[i])
    BY <2>2, TagsList
  <2> HIDE DEF b
  <2> QED BY <2>1, <2>3
<1>3. m \in Seq(AddingCalls) /\ Len(m) \in Nat /\ \A i \in 1..Len(m) : ~InsertsHash(m[i])
  <2>1. CASE meta = NoValue
    BY <2>1
  <2>2. CASE meta # NoValue
    <3>1. meta \in Values
      BY <2>2
    <3> QED BY <2>2, <3>1, MetadataList
  <2> QED BY <2>1, <2>2
<1> HIDE DEF a, b, m
<1>4. a \o b \in Lists(AddingCalls)
  BY <1>1, <1>2, ListsExtended
<1>5. 1 \in 1..Len(a \o b) /\ (a \o b)[1].op = "store"
  <2>1. a \in Seq(AddingCalls)
    BY <1>1 DEF Lists
  <2> QED BY <1>1, <1>2, <2>1, Concatenation
<1>6. (a \o b) \o m \in Lists(AddingCalls)
  BY <1>3, <1>4, <1>5, ListsExtended
<1> QED BY <1>6 DEF a, b, m

LEMMA AddPathCommandList ==
    ASSUME NEW c, c.files \in Seq(Sources), c.tags \in Seq(Tags), c.meta \in Values \cup {NoValue}
    PROVE  AddPathCommand(c) \in Lists(AddingCalls)
<1> DEFINE seqs == [i \in 1..Len(c.files) |->
              AddPath(c.files[i]) \o AddTags(Added, c.tags)
              \o (IF c.meta = NoValue THEN <<>> ELSE BlobMetadata(Added, c.meta))]
<1>1. \A i \in 1..Len(c.files) : seqs[i] \in Lists(AddingCalls)
  <2> TAKE i \in 1..Len(c.files)
  <2>1. c.files[i] \in Sources
    OBVIOUS
  <2>2. AddPath(c.files[i]) \o AddTags(Added, c.tags)
           \o (IF c.meta = NoValue THEN <<>> ELSE BlobMetadata(Added, c.meta))
        \in Lists(AddingCalls)
    BY <2>1, AddPathList
  <2> QED BY <2>2
<1>2. Len(c.files) \in Nat
  OBVIOUS
<1>3. seqs = [i \in 1..Len(c.files) |-> seqs[i]]
  OBVIOUS
<1>4. FlattenSeq(seqs) \in Lists(AddingCalls)
  <2> HIDE DEF seqs
  <2>1. seqs \in [1..Len(c.files) -> Lists(AddingCalls)]
    BY <1>1, <1>3
  <2>2. seqs \in Seq(Lists(AddingCalls))
    BY <1>2, <2>1
  <2> QED BY <2>2, ListsFlattened
<1> QED BY <1>4 DEF AddPathCommand

LEMMA AddUrlCommandList ==
    ASSUME NEW c, c.body \in Digest \cup {Absent}, c.name \in Names,
           c.expected \in Digest \cup {NoValue}, c.unzip \in BOOLEAN, c.archive \in Archives
    PROVE  /\ AddUrlCommand(c) \in Lists(AddingCalls)
           /\ FetchAndStore(c.body, c.expected) \in Lists(AddingCalls)
           /\ FetchUnzipAndStore(c.body, c.archive, c.expected) \in Lists(AddingCalls)
<1>1. /\ Download(c.body, c.expected) \in Lists(AddingCalls)
      /\ Download(c.body, NoValue) \in Lists(AddingCalls)
  BY DownloadList
<1>2. /\ Stored(c.body, c.name) \in Lists(AddingCalls)
      /\ Stores(c.body) \in Lists(AddingCalls)
  BY StoredList DEF Inputs
<1>3. AddUrlCommand(c) \in Lists(AddingCalls)
  BY <1>1, <1>2, UnzippedList, ListsConcatenated
     DEF AddUrlCommand, AddVerifiedUrlUnzip, AddVerifiedUrl, AddUrlUnzip, AddUrl
<1> QED BY <1>1, <1>2, <1>3, UnzippedList, ListsConcatenated
        DEF FetchAndStore, FetchUnzipAndStore

LEMMA AddVerifiedPathList ==
    ASSUME NEW file \in Sources, NEW expected \in Digest
    PROVE  AddVerifiedPath(file, expected) \in Lists(AddingCalls)
<1> DEFINE c == [op |-> "verify_path", input |-> file, expected |-> expected]
<1>1. c \in AddingCalls /\ ~UsesAdded(c) /\ ~InsertsHash(c)
  BY DEF AddingCalls, UsesAdded, InsertsHash
<1>2. <<c>> \in Lists(AddingCalls)
  <2> HIDE DEF c
  <2> QED BY <1>1, SingleCall
<1>3. AddPath(file) \in Lists(AddingCalls)
  BY LegacyAssumption, StoredList DEF Inputs, AddPath
<1> QED BY <1>2, <1>3, ListsConcatenated DEF AddVerifiedPath

LEMMA PackageCommandList ==
    ASSUME NEW c, c.cmd \in {"pkg-create", "pkg-add"}, c.name \in Packages,
           c.cmd = "pkg-add" => c.hashes \in Seq(Digest)
    PROVE  PackageCommand(c) \in Lists(AddingCalls)
<1>1. CASE c.cmd = "pkg-create"
  <2> DEFINE d == [op |-> "create_package", name |-> c.name]
  <2>1. d \in AddingCalls /\ ~UsesAdded(d) /\ ~InsertsHash(d)
    BY DEF AddingCalls, StatementCalls, UsesAdded, InsertsHash
  <2>2. <<d>> \in Lists(AddingCalls)
    <3> HIDE DEF d
    <3> QED BY <2>1, SingleCall
  <2> QED BY <1>1, <2>2 DEF PackageCommand
<1>2. CASE c.cmd = "pkg-add"
  <2> DEFINE s == [i \in 1..Len(c.hashes) |->
                [op |-> "add_blob_to_package", name |-> c.name, hash |-> c.hashes[i]]]
  <2>1. Len(c.hashes) \in Nat /\ \A i \in 1..Len(c.hashes) : c.hashes[i] \in Digest
    BY <1>2
  <2>2. \A i \in 1..Len(c.hashes) :
           s[i] \in AddingCalls /\ ~UsesAdded(s[i]) /\ ~InsertsHash(s[i])
    BY <2>1 DEF AddingCalls, StatementCalls, UsesAdded, InsertsHash
  <2>3. Len(s) = Len(c.hashes) /\ s \in Seq(AddingCalls)
    <3>1. s \in [1..Len(c.hashes) -> AddingCalls]
      BY <2>2
    <3> HIDE DEF s
    <3> QED BY <2>1, <3>1
  <2>4. s \in Lists(AddingCalls)
    <3> HIDE DEF s
    <3> QED BY <2>2, <2>3, PlainList
  <2> QED BY <1>2, <2>4 DEF PackageCommand
<1> QED BY <1>1, <1>2

LEMMA RemovePackageList ==
    ASSUME NEW name \in Packages
    PROVE  /\ RemovePackage(name) \in Lists(RemovingCalls)
           /\ \A i \in 1..Len(RemovePackage(name)) : RemovePackage(name)[i].name = name
<1> DEFINE d == [op |-> "delete_members", name |-> name]
           e == [op |-> "delete_package", name |-> name]
<1>1. /\ d \in RemovingCalls /\ ~UsesAdded(d) /\ ~InsertsHash(d) /\ d.name = name
      /\ e \in RemovingCalls /\ ~UsesAdded(e) /\ ~InsertsHash(e) /\ e.name = name
  BY DEF RemovingCalls, UsesAdded, InsertsHash
<1>2. RemovePackage(name) = <<d, e>>
  BY DEF RemovePackage
<1> HIDE DEF d, e
<1>3. <<d, e>> \in Seq(RemovingCalls) /\ \A i \in 1..Len(<<d, e>>) : <<d, e>>[i] \in {d, e}
  BY <1>1
<1>4. <<d, e>> \in Lists(RemovingCalls)
  BY <1>1, <1>3, PlainList
<1> QED BY <1>1, <1>2, <1>3, <1>4

LEMMA LinesList == \A input \in Seq(Lines) : input \in Lists(Lines)
<1> TAKE input \in Seq(Lines)
<1>1. \A c \in Lines : ~UsesAdded(c) /\ ~InsertsHash(c)
  BY DEF Lines, UsesAdded, InsertsHash
<1>2. \A i \in 1..Len(input) : input[i] \in Lines
  OBVIOUS
<1> QED BY <1>1, <1>2, PlainList

(* Every command starts with calls of known shape.                          *)
LEMMA CallsSorted ==
    ASSUME NEW c \in Commands
    PROVE  \/ Calls(c) \in Lists(AddingCalls)
           \/ c.cmd = "export" /\ Calls(c) \in Lists([op : {"export"}, name : Packages])
           \/ c.cmd = "import" /\ Calls(c) \in Lists([op : {"import_blobs", "import_manifest"}])
           \/ c.cmd = "pkg-rm" /\ c.name \in Packages /\ Calls(c) = RemovePackage(c.name)
           \/ c.cmd = "lfs-agent" /\ Calls(c) \in Lists(Lines)
<1>0. c.cmd \in {"add-path", "add-verified-path", "add-url", "fetch", "fetch-unzip",
                 "pkg-create", "pkg-rm", "export", "pkg-add", "import", "tag", "meta", "rel",
                 "lfs-agent"}
  BY DEF Commands, Urls
<1>1. CASE c.cmd = "add-path"
  <2>1. c.files \in Seq(Sources) /\ c.tags \in Seq(Tags) /\ c.meta \in Values \cup {NoValue}
    BY <1>1 DEF Commands, Urls
  <2> QED BY <1>1, <2>1, AddPathCommandList DEF Calls
<1>2. CASE c.cmd = "add-verified-path"
  <2>1. c.file \in Sources /\ c.expected \in Digest
    BY <1>2 DEF Commands, Urls
  <2> QED BY <1>2, <2>1, AddVerifiedPathList DEF Calls
<1>3. CASE c.cmd \in {"add-url", "fetch", "fetch-unzip"}
  <2>1. /\ c.body \in Digest \cup {Absent} /\ c.name \in Names
        /\ c.expected \in Digest \cup {NoValue} /\ c.unzip \in BOOLEAN /\ c.archive \in Archives
    BY <1>3 DEF Commands, Urls
  <2> QED BY <1>3, <2>1, AddUrlCommandList DEF Calls
<1>4. CASE c.cmd \in {"pkg-create", "pkg-add", "pkg-rm"}
  <2>1. c.name \in Packages /\ (c.cmd = "pkg-add" => c.hashes \in Seq(Digest))
    BY <1>4 DEF Commands, Urls
  <2>2. Calls(c) = PackageCommand(c)
    BY <1>4 DEF Calls
  <2>3. c.cmd = "pkg-rm" => PackageCommand(c) = RemovePackage(c.name)
    BY DEF PackageCommand
  <2> QED BY <1>4, <2>1, <2>2, <2>3, PackageCommandList
<1>5. CASE c.cmd = "export"
  <2> DEFINE d == [op |-> "export", name |-> c.name]
  <2>1. c.name \in Packages
    BY <1>5 DEF Commands, Urls
  <2>2. d \in [op : {"export"}, name : Packages] /\ ~UsesAdded(d) /\ ~InsertsHash(d)
    BY <2>1 DEF UsesAdded, InsertsHash
  <2>3. <<d>> \in Lists([op : {"export"}, name : Packages])
    <3> HIDE DEF d
    <3> QED BY <2>2, SingleCall
  <2> QED BY <1>5, <2>3 DEF Calls
<1>6. CASE c.cmd = "import"
  <2> DEFINE d == [op |-> "import_blobs"]
             e == [op |-> "import_manifest"]
             C == [op : {"import_blobs", "import_manifest"}]
  <2>1. /\ d \in C /\ ~UsesAdded(d) /\ ~InsertsHash(d)
        /\ e \in C /\ ~UsesAdded(e) /\ ~InsertsHash(e)
    BY DEF UsesAdded, InsertsHash
  <2>2. <<d, e>> \in Lists(C)
    <3> HIDE DEF d, e, C
    <3>1. <<d, e>> \in Seq(C) /\ \A i \in 1..Len(<<d, e>>) : <<d, e>>[i] \in {d, e}
      BY <2>1
    <3> QED BY <2>1, <3>1, PlainList
  <2> QED BY <1>6, <2>2 DEF Calls
<1>7. CASE c.cmd = "tag"
  <2>1. c.id \in Ids /\ c.id # Added /\ c.tags \in Seq(Tags)
    BY <1>7, LegacyAssumption DEF Commands, Urls
  <2>2. AddTags(c.id, c.tags) \in Lists(AddingCalls)
    BY <2>1, TagsList, PlainList
  <2> QED BY <1>7, <2>2 DEF Calls
<1>8. CASE c.cmd = "meta"
  <2>1. c.id \in Ids /\ c.id # Added /\ c.value \in Values
    BY <1>8, LegacyAssumption DEF Commands, Urls
  <2>2. BlobMetadata(c.id, c.value) \in Lists(AddingCalls)
    BY <2>1, MetadataList, PlainList
  <2> QED BY <1>8, <2>2 DEF Calls
<1>9. CASE c.cmd = "rel"
  <2> DEFINE d == [op |-> "add_relation", hash |-> c.id, target |-> c.target]
  <2>1. c.id \in Digest /\ c.target \in Digest
    BY <1>9 DEF Commands, Urls
  <2>2. d \in AddingCalls /\ ~UsesAdded(d) /\ ~InsertsHash(d)
    BY <2>1 DEF AddingCalls, StatementCalls, UsesAdded, InsertsHash
  <2>3. <<d>> \in Lists(AddingCalls)
    <3> HIDE DEF d
    <3> QED BY <2>2, SingleCall
  <2> QED BY <1>9, <2>3 DEF Calls
<1>10. CASE c.cmd = "lfs-agent"
  <2>1. c.input \in Seq(Lines)
    BY <1>10 DEF Commands, Urls
  <2> QED BY <1>10, <2>1, LinesList DEF Calls
<1> QED BY <1>0, <1>1, <1>2, <1>3, <1>4, <1>5, <1>6, <1>7, <1>8, <1>9, <1>10

LEMMA CallsTyped ==
    ASSUME NEW c \in Commands
    PROVE  \/ Calls(c) \in Lists(CommandCalls)
           \/ c.cmd = "pkg-rm" /\ c.name \in Packages /\ Calls(c) = RemovePackage(c.name)
           \/ c.cmd = "lfs-agent" /\ Calls(c) \in Lists(Lines)
<1>1. \A A, B : A \subseteq B => Lists(A) \subseteq Lists(B)
  <2> TAKE A, B
  <2> HAVE A \subseteq B
  <2>1. Seq(A) \subseteq Seq(B)
    OBVIOUS
  <2> QED BY <2>1 DEF Lists
<1>2. /\ AddingCalls \subseteq CommandCalls
      /\ [op : {"export"}, name : Packages] \subseteq CommandCalls
      /\ [op : {"import_blobs", "import_manifest"}] \subseteq CommandCalls
  BY DEF CommandCalls
<1>3. /\ Lists(AddingCalls) \subseteq Lists(CommandCalls)
      /\ Lists([op : {"export"}, name : Packages]) \subseteq Lists(CommandCalls)
      /\ Lists([op : {"import_blobs", "import_manifest"}]) \subseteq Lists(CommandCalls)
  BY <1>1, <1>2
<1> QED BY <1>3, CallsSorted

-----------------------------------------------------------------------------
(* The inductive invariant.                                                *)

Chunks == Atoms \cup {Hole}
Data == {d \in Seq(Chunks) : Len(d) <= Size}
BlobFiles == [data : Data, readonly : BOOLEAN]

Statuses == {"new", "running", "ok", "err", "fault", "crashed"}

Process ==
    [script : Seq(Commands), next : Nat,
     status : Statuses, before : Statuses, calls : Seq(AllCalls),
     pc : {"call", "open", "write", "seal", "persist", "register", "answer"},
     buf : Data, digest : Digest \cup {NoValue}, linked : BOOLEAN, alone : BOOLEAN,
     manifest : Manifests \cup {NoManifest}, kept : Metadata, found : Metadata]

StateOK ==
    /\ source \in [Sources -> Digest \cup {Absent}]
    /\ files \in [Places \X Digest -> BlobFiles \cup {NoFile}]
    /\ db \in [Roots -> Databases] /\ \A r \in Roots : ForeignKeys(db[r])
    /\ manifest \in Manifests \cup {NoManifest, Torn}
    /\ run \in [Procs -> Process]
    /\ edits \in Nat

(* Of a process record r, next to the sources src and the files fs.         *)
RootOf(r) == r.script[r.next].root
Op(r) == r.calls[1].op
TargetOf(r) ==
    CASE Op(r) \in {"store", "upload"} -> <<RootOf(r), r.digest>>
      [] Op(r) = "import_blob" -> <<RootOf(r), r.calls[1].hash>>
      [] Op(r) = "export_blob" -> <<ExportDir, r.calls[1].hash>>
HasFile(r, fs) == r.digest \in Digest /\ fs[<<RootOf(r), r.digest>>] # NoFile
NeedsManifest(c) == c.op \in {"collect", "create_manifest", "write_manifest"}

(* A process has calls left exactly while its command runs, and only the    *)
(* agent reads lines.                                                       *)
Stage(r) ==
    /\ r.status = "new" => r.next = 1
    /\ r.status # "new" => r.next \in 1..Len(r.script)
    /\ r.status = "running" <=> r.calls # <<>>
    /\ r.calls \in Seq(WorkCalls) \/ r.calls \in Seq(Lines)
    /\ r.status # "running" => r.pc = "call" /\ r.buf = <<>>

(* How far a process can be in a call.                                      *)
Position(r) ==
    r.status = "running" =>
        /\ r.pc \in {"open", "write"} => Op(r) \in Copies
        /\ r.pc = "seal" => Op(r) \in {"store", "import_blob", "upload"}
        /\ r.pc \in {"persist", "register", "answer"} => Op(r) = "upload"
        /\ r.pc = "call" => r.buf \in Seq(Atoms)
        /\ r.pc = "call" /\ Op(r) \notin {"store", "verify_path", "upload"} => r.buf = <<>>
        /\ r.pc = "open" => r.buf = <<>>
        /\ r.pc = "persist" => r.buf = r.digest
        /\ r.pc # "call" /\ Op(r) \in {"store", "upload"} => r.digest \in Digest

(* The files a call in progress works on are there.                         *)
Footing(r, src, fs) ==
    r.status = "running" =>
        /\ r.pc \in {"open", "write"} /\ Op(r) = "store" /\ r.calls[1].input \in Sources
           => src[r.calls[1].input] # Absent
        /\ r.pc \in {"open", "write"} /\ Op(r) = "store" => r.calls[1].input # Absent
        /\ r.pc = "write" /\ Op(r) = "import_blob"
           => fs[<<ExportDir, r.calls[1].hash>>] # NoFile
        /\ r.pc = "write" /\ Op(r) = "export_blob"
           => fs[<<RootOf(r), r.calls[1].hash>>] # NoFile
        /\ r.pc \in {"write", "seal"} => fs[TargetOf(r)] # NoFile
        /\ r.pc \in {"register", "answer"} => HasFile(r, fs)

(* The remaining calls insert no row before its file.                       *)
Remaining(r, fs) ==
    \A i \in 1..Len(r.calls) :
        /\ UsesAdded(r.calls[i]) => HasFile(r, fs) \/ StoresBefore(r.calls, i)
        /\ InsertsHash(r.calls[i]) =>
              \/ fs[<<RootOf(r), r.calls[i].hash>>] # NoFile
              \/ ImportsBefore(r.calls, i, r.calls[i].hash)
        /\ NeedsManifest(r.calls[i]) => r.manifest \in Manifests

ProcessOK(r, src, fs) ==
    /\ r \in Process
    /\ Stage(r) /\ Position(r) /\ Footing(r, src, fs) /\ Remaining(r, fs)

RowsBacked == \A r \in Roots : \A h \in db[r].rows : files[<<r, h>>] # NoFile

LegacyInv ==
    /\ StateOK
    /\ \A p \in Procs : ProcessOK(run[p], source, files)
    /\ RowsBacked

-----------------------------------------------------------------------------
(* Process records.                                                        *)

LEMMA CallShape ==
    ASSUME NEW c \in AllCalls
    PROVE  /\ c.op = "store" => c.input \in Inputs
           /\ c.op = "verify_path" => c.input \in Sources
           /\ c.op = "upload" => c.input \in Sources /\ c.oid \in Digest
           /\ c.op \in {"import_blob", "export_blob"} => c.hash \in Digest
           /\ c.op = "collect" => c.part \in Parts
           /\ c.op = "merge_metadata" => c.hash \in Ids /\ c.value \in Values
           /\ c.op = "ensure_package" => c.name \in Packages
           /\ c.op = "export" => c.name \in Packages
           /\ c.op \in Statements => c \in StatementCalls \cup RemovingCalls
BY DEF AllCalls, WorkCalls, CommandCalls, AddingCalls, RemovingCalls, ImportingCalls, ExportingCalls, StatementCalls, Lines, Statements

LEMMA RootTyped ==
    ASSUME NEW r \in Process, Stage(r), r.status # "new"
    PROVE  r.script[r.next] \in Commands /\ RootOf(r) \in Roots /\ RootOf(r) \in Places
<1>1. r.script \in Seq(Commands) /\ r.next \in 1..Len(r.script)
  BY DEF Process, Stage
<1>2. r.script[r.next] \in Commands
  BY <1>1
<1>3. \A c \in Commands : c.root \in Roots
  BY DEF Commands, Urls
<1> QED BY <1>2, <1>3 DEF RootOf, Places

LEMMA HeadTyped ==
    ASSUME NEW r \in Process, Stage(r), r.status = "running"
    PROVE  /\ r.calls \in Seq(AllCalls) /\ Len(r.calls) \in Nat /\ Len(r.calls) >= 1
           /\ r.calls[1] \in AllCalls /\ Head(r.calls) = r.calls[1]
           /\ Tail(r.calls) \in Seq(AllCalls) /\ Len(Tail(r.calls)) = Len(r.calls) - 1
           /\ \A i \in 1..Len(Tail(r.calls)) :
                 Tail(r.calls)[i] = r.calls[i + 1] /\ i + 1 \in 1..Len(r.calls)
<1>1. r.calls \in Seq(AllCalls) /\ r.calls # <<>>
  BY DEF Process, Stage
<1> DEFINE s == r.calls
<1>2. s \in Seq(AllCalls) /\ s # <<>>
  BY <1>1
<1> HIDE DEF s
<1>3. /\ Len(s) \in Nat /\ Len(s) >= 1 /\ s[1] \in AllCalls /\ Head(s) = s[1]
      /\ Tail(s) \in Seq(AllCalls) /\ Len(Tail(s)) = Len(s) - 1
      /\ \A i \in 1..Len(Tail(s)) : Tail(s)[i] = s[i + 1] /\ i + 1 \in 1..Len(s)
  BY <1>2
<1> QED BY <1>2, <1>3 DEF s

LEMMA EndsOK ==
    ASSUME NEW r \in Process, Stage(r), r.status # "new", NEW src, NEW fs,
           NEW status \in {"ok", "err", "fault", "crashed"}
    PROVE  ProcessOK(Ends(r, status), src, fs)
<1> DEFINE s == Ends(r, status)
<1>1. s = [r EXCEPT !.calls = <<>>, !.pc = "call", !.buf = <<>>, !.status = status]
  BY DEF Ends
<1>2. <<>> \in Data /\ <<>> \in Seq(AllCalls)
  BY LegacyAssumption DEF Data
<1>3. s \in Process
  BY <1>1, <1>2 DEF Process, Statuses
<1>4. /\ s.calls = <<>> /\ s.pc = "call" /\ s.buf = <<>> /\ s.status = status
      /\ s.next = r.next /\ s.script = r.script
  BY <1>1 DEF Process
<1> HIDE DEF s
<1>5. Stage(s) /\ Position(s) /\ Footing(s, src, fs)
  BY <1>4 DEF Stage, Position, Footing
<1>6. Remaining(s, fs)
  BY <1>4 DEF Remaining
<1> QED BY <1>3, <1>5, <1>6 DEF ProcessOK, s

LEMMA TargetTyped ==
    ASSUME NEW r \in Process, Stage(r), r.status = "running",
           Op(r) \in {"store", "upload", "import_blob", "export_blob"},
           Op(r) \in {"store", "upload"} => r.digest \in Digest
    PROVE  TargetOf(r) \in Places \X Digest
<1>1. RootOf(r) \in Places /\ ExportDir \in Places
  BY RootTyped DEF Places
<1>2. Op(r) \in {"import_blob", "export_blob"} => r.calls[1].hash \in Digest
  BY HeadTyped, CallShape DEF Op
<1> QED BY <1>1, <1>2 DEF TargetOf

(* What a process relies on stays when files appear and sources are edited. *)
LEMMA RemainingKept ==
    ASSUME NEW r \in Process, Stage(r), NEW fs, NEW fs2, Remaining(r, fs),
           \A t \in Places \X Digest : fs[t] # NoFile => fs2[t] # NoFile
    PROVE  Remaining(r, fs2)
<1> SUFFICES ASSUME NEW i \in 1..Len(r.calls)
             PROVE  /\ UsesAdded(r.calls[i]) => HasFile(r, fs2) \/ StoresBefore(r.calls, i)
                    /\ InsertsHash(r.calls[i]) =>
                          \/ fs2[<<RootOf(r), r.calls[i].hash>>] # NoFile
                          \/ ImportsBefore(r.calls, i, r.calls[i].hash)
                    /\ NeedsManifest(r.calls[i]) => r.manifest \in Manifests
  BY DEF Remaining
<1>1. r.calls \in Seq(AllCalls)
  BY DEF Process
<1>2. r.status = "running"
  BY <1>1 DEF Stage
<1>3. RootOf(r) \in Places
  BY <1>2, RootTyped
<1>4. HasFile(r, fs) => HasFile(r, fs2)
  BY <1>3 DEF HasFile
<1>5. r.calls[i] \in AllCalls
  BY <1>1
<1>6. InsertsHash(r.calls[i]) => r.calls[i].hash \in Digest
  BY <1>5 DEF InsertsHash, AllCalls, WorkCalls, CommandCalls, AddingCalls, RemovingCalls, ImportingCalls,
              ExportingCalls, StatementCalls, Lines
<1>7. /\ UsesAdded(r.calls[i]) => HasFile(r, fs) \/ StoresBefore(r.calls, i)
      /\ InsertsHash(r.calls[i]) =>
            \/ fs[<<RootOf(r), r.calls[i].hash>>] # NoFile
            \/ ImportsBefore(r.calls, i, r.calls[i].hash)
      /\ NeedsManifest(r.calls[i]) => r.manifest \in Manifests
  BY DEF Remaining
<1> QED BY <1>3, <1>4, <1>6, <1>7

LEMMA ProcessKept ==
    ASSUME NEW r, NEW src, NEW src2, NEW fs, NEW fs2, ProcessOK(r, src, fs),
           NEW s \in Process,
           s.script = r.script, s.next = r.next, s.status = r.status, s.calls = r.calls,
           s.pc = r.pc, s.buf = r.buf, s.digest = r.digest, s.manifest = r.manifest,
           \A f \in Sources : src[f] # Absent => src2[f] # Absent,
           \A t \in Places \X Digest : fs[t] # NoFile => fs2[t] # NoFile
    PROVE  ProcessOK(s, src2, fs2)
<1>1. r \in Process /\ Stage(r) /\ Position(r) /\ Footing(r, src, fs) /\ Remaining(r, fs2)
  BY RemainingKept DEF ProcessOK
<1>2. Op(s) = Op(r) /\ RootOf(s) = RootOf(r) /\ TargetOf(s) = TargetOf(r)
  BY DEF Op, RootOf, TargetOf
<1>3. Stage(s) /\ Position(s)
  BY <1>1, <1>2 DEF Stage, Position
<1>4. Remaining(s, fs2)
  BY <1>1, <1>2 DEF Remaining, HasFile
<1>5. Footing(s, src2, fs2)
  <2> SUFFICES ASSUME r.status = "running" PROVE Footing(s, src2, fs2)
    BY DEF Footing
  <2>1. RootOf(r) \in Places /\ ExportDir \in Places
    BY <1>1, RootTyped DEF Places
  <2>2. Op(r) \in {"import_blob", "export_blob"} => r.calls[1].hash \in Digest
    BY <1>1, HeadTyped, CallShape DEF Op
  <2>3. r.pc \in {"write", "seal"} => TargetOf(r) \in Places \X Digest
    BY <1>1, TargetTyped DEF Position, Copies
  <2>4. HasFile(r, fs) => HasFile(r, fs2)
    BY <2>1 DEF HasFile
  <2>5. HasFile(r, fs2) => HasFile(s, fs2)
    BY <1>2 DEF HasFile
  <2>6. Footing(r, src, fs)
    BY <1>1
  <2> QED BY <1>2, <2>1, <2>2, <2>3, <2>4, <2>5, <2>6 DEF Footing
<1> QED BY <1>3, <1>4, <1>5 DEF ProcessOK

(* The lists that the head of the calls may be replaced with.               *)
LEMMA ReturnsOK ==
    ASSUME NEW r \in Process, Stage(r), r.status = "running", NEW src, NEW fs,
           Remaining(r, fs),
           Op(r) = "store" => HasFile(r, fs),
           Op(r) = "import_blob" => fs[<<RootOf(r), r.calls[1].hash>>] # NoFile,
           NEW pre \in Lists(WorkCalls), pre = <<>> \/ r.calls[1] \notin Lines,
           \A i \in 1..Len(pre) : NeedsManifest(pre[i]) => r.manifest \in Manifests
    PROVE  ProcessOK(Returns(r, pre), src, fs)
<1> DEFINE s == Returns(r, pre)
           rest == Tail(r.calls)
           list == pre \o rest
           status == IF list = <<>> THEN "ok" ELSE "running"
<1>1. s = [r EXCEPT !.calls = list, !.pc = "call", !.buf = <<>>, !.status = status]
  BY DEF Returns, Process
<1>2. /\ r.calls \in Seq(AllCalls) /\ Len(r.calls) \in Nat /\ Len(r.calls) >= 1
      /\ r.calls[1] \in AllCalls
      /\ rest \in Seq(AllCalls) /\ Len(rest) = Len(r.calls) - 1
      /\ \A i \in 1..Len(rest) : rest[i] = r.calls[i + 1] /\ i + 1 \in 1..Len(r.calls)
  BY HeadTyped
<1>3. pre \in Seq(WorkCalls)
  BY DEF Lists
<1>4. pre \in Seq(AllCalls) /\ Len(pre) \in Nat
  BY <1>3 DEF AllCalls
<1>5. list \in Seq(WorkCalls) \/ list \in Seq(Lines)
  <2>1. CASE r.calls \in Seq(WorkCalls)
    <3>1. rest \in Seq(WorkCalls)
      BY <1>2, <2>1
    <3> QED BY <1>3, <3>1
  <2>2. CASE r.calls \in Seq(Lines)
    <3>1. r.calls[1] \in Lines /\ rest \in Seq(Lines)
      BY <1>2, <2>2
    <3>2. pre = <<>> /\ list = rest
      BY <3>1
    <3> QED BY <3>1, <3>2
  <2> QED BY <2>1, <2>2 DEF Stage
<1> HIDE DEF rest
<1>6. /\ list \in Seq(AllCalls) /\ Len(list) = Len(pre) + Len(rest)
      /\ \A i \in 1..Len(pre) : list[i] = pre[i]
      /\ \A i \in 1..Len(rest) : list[Len(pre) + i] = rest[i]
      /\ \A i \in 1..Len(list) :
            \/ i \in 1..Len(pre) /\ list[i] = pre[i]
            \/ i - Len(pre) \in 1..Len(rest) /\ i > Len(pre) /\ list[i] = rest[i - Len(pre)]
  <2>1. pre \in Seq(AllCalls) /\ rest \in Seq(AllCalls)
    BY <1>2, <1>4
  <2> QED BY ONLY <2>1, Concatenation
<1> HIDE DEF list
<1>7. s \in Process
  <2>1. <<>> \in Data
    BY LegacyAssumption DEF Data
  <2> QED BY <1>1, <1>6, <2>1 DEF Process, Statuses
<1>8. /\ s.calls = list /\ s.pc = "call" /\ s.buf = <<>> /\ s.status = status
      /\ s.next = r.next /\ s.script = r.script /\ s.digest = r.digest /\ s.manifest = r.manifest
  BY <1>1 DEF Process
<1> HIDE DEF s
<1>9. Stage(s) /\ Position(s) /\ Footing(s, src, fs)
  BY <1>8, <1>5 DEF Stage, Position, Footing
<1>10. RootOf(s) = RootOf(r) /\ (HasFile(s, fs) <=> HasFile(r, fs))
  BY <1>8 DEF RootOf, HasFile
<1>11. ASSUME NEW i \in 1..Len(list)
      PROVE  /\ UsesAdded(list[i]) => HasFile(r, fs) \/ StoresBefore(list, i)
             /\ InsertsHash(list[i]) =>
                   \/ fs[<<RootOf(r), list[i].hash>>] # NoFile
                   \/ ImportsBefore(list, i, list[i].hash)
             /\ NeedsManifest(list[i]) => r.manifest \in Manifests
  <2>1. CASE i \in 1..Len(pre) /\ list[i] = pre[i]
    <3>1. \A j \in 1..(i - 1) : list[j] = pre[j]
      BY <1>4, <1>6, <2>1
    <3>2. /\ UsesAdded(pre[i]) => StoresBefore(pre, i)
          /\ InsertsHash(pre[i]) => ImportsBefore(pre, i, pre[i].hash)
      BY <2>1 DEF Lists
    <3> QED BY <2>1, <3>1, <3>2 DEF StoresBefore, ImportsBefore
  <2>2. CASE i - Len(pre) \in 1..Len(rest) /\ i > Len(pre) /\ list[i] = rest[i - Len(pre)]
    <3>1. PICK k \in 1..Len(rest) : k = i - Len(pre) /\ list[i] = rest[k]
      BY <2>2
    <3>2. rest[k] = r.calls[k + 1] /\ k + 1 \in 1..Len(r.calls)
      BY <1>2, <3>1
    <3>3. ASSUME NEW j \in 1..k, j # 1
          PROVE  Len(pre) + (j - 1) \in 1..(i - 1) /\ list[Len(pre) + (j - 1)] = r.calls[j]
      <4>1. j - 1 \in 1..Len(rest) /\ (j - 1) + 1 = j
        BY <1>2, <3>1, <3>3
      <4>2. list[Len(pre) + (j - 1)] = rest[j - 1] /\ rest[j - 1] = r.calls[(j - 1) + 1]
        BY <1>2, <1>6, <4>1
      <4>3. Len(pre) + (j - 1) \in 1..(i - 1)
        BY <1>4, <3>1, <4>1
      <4> QED BY <4>1, <4>2, <4>3
    <3>4. /\ UsesAdded(r.calls[k + 1]) => HasFile(r, fs) \/ StoresBefore(r.calls, k + 1)
          /\ InsertsHash(r.calls[k + 1]) =>
                \/ fs[<<RootOf(r), r.calls[k + 1].hash>>] # NoFile
                \/ ImportsBefore(r.calls, k + 1, r.calls[k + 1].hash)
          /\ NeedsManifest(r.calls[k + 1]) => r.manifest \in Manifests
      BY <3>2 DEF Remaining
    <3>5. (k + 1) - 1 = k
      OBVIOUS
    <3>6. ASSUME StoresBefore(r.calls, k + 1) PROVE HasFile(r, fs) \/ StoresBefore(list, i)
      <4>1. PICK j \in 1..k : r.calls[j].op = "store"
        BY <3>5, <3>6 DEF StoresBefore
      <4>2. CASE j = 1
        BY <4>1, <4>2 DEF Op
      <4>3. CASE j # 1
        BY <3>3, <4>1, <4>3 DEF StoresBefore
      <4> QED BY <4>2, <4>3
    <3>7. ASSUME NEW h, ImportsBefore(r.calls, k + 1, h)
          PROVE  fs[<<RootOf(r), h>>] # NoFile \/ ImportsBefore(list, i, h)
      <4>1. PICK j \in 1..k : r.calls[j].op = "import_blob" /\ r.calls[j].hash = h
        BY <3>5, <3>7 DEF ImportsBefore
      <4>2. CASE j = 1
        BY <4>1, <4>2 DEF Op
      <4>3. CASE j # 1
        BY <3>3, <4>1, <4>3 DEF ImportsBefore
      <4> QED BY <4>2, <4>3
    <3> QED BY <3>1, <3>2, <3>4, <3>6, <3>7
  <2> QED BY <1>6, <2>1, <2>2
<1>12. Remaining(s, fs)
  BY <1>8, <1>10, <1>11 DEF Remaining
<1> QED BY <1>7, <1>9, <1>12 DEF ProcessOK, s

-----------------------------------------------------------------------------
(* The frame of the steps.                                                 *)

LEMMA Current ==
    ASSUME LegacyInv, NEW p \in Procs, run[p].status = "running"
    PROVE  /\ ProcessOK(run[p], source, files) /\ run[p] \in Process
           /\ Stage(run[p]) /\ Position(run[p]) /\ Footing(run[p], source, files)
           /\ Remaining(run[p], files)
           /\ Call(p) = run[p].calls[1] /\ Call(p) \in AllCalls /\ Call(p).op = Op(run[p])
           /\ Command(p) \in Commands /\ Root(p) = RootOf(run[p])
           /\ Root(p) \in Roots /\ Root(p) \in Places
           /\ Target(p) = TargetOf(run[p])
<1>1. /\ ProcessOK(run[p], source, files) /\ run[p] \in Process
      /\ Stage(run[p]) /\ Position(run[p]) /\ Footing(run[p], source, files)
      /\ Remaining(run[p], files)
  BY DEF LegacyInv, ProcessOK
<1>2. Call(p) = run[p].calls[1] /\ Call(p) \in AllCalls
  BY <1>1, HeadTyped DEF Call
<1>3. Root(p) = RootOf(run[p]) /\ Root(p) \in Roots /\ Root(p) \in Places
      /\ Command(p) \in Commands
  BY <1>1, RootTyped DEF Root, Command, RootOf
<1>4. Target(p) = TargetOf(run[p])
  BY <1>2, <1>3 DEF Target, TargetOf, Op
<1> QED BY <1>1, <1>2, <1>3, <1>4 DEF Op

(* The processes other than p do not notice p's step, but for alone.        *)
LEMMA GoesOK ==
    ASSUME LegacyInv, NEW p \in Procs, NEW r, Goes(p, r), ProcessOK(r, source', files'),
           \A f \in Sources : source[f] # Absent => source'[f] # Absent,
           \A t \in Places \X Digest : files[t] # NoFile => files'[t] # NoFile
    PROVE  /\ run' \in [Procs -> Process] /\ run'[p] = r
           /\ \A q \in Procs : ProcessOK(run'[q], source', files')
<1>1. run' = [q \in Procs |-> IF q = p THEN r
                 ELSE [run[q] EXCEPT !.alone = @ /\ run[q].status # "running"]]
  BY DEF Goes
<1>2. ASSUME NEW q \in Procs, q # p PROVE ProcessOK(run'[q], source', files')
  <2> DEFINE s == [run[q] EXCEPT !.alone = @ /\ run[q].status # "running"]
  <2>1. ProcessOK(run[q], source, files) /\ run[q] \in Process
    BY DEF LegacyInv, ProcessOK
  <2>2. /\ s \in Process
        /\ s.script = run[q].script /\ s.next = run[q].next /\ s.status = run[q].status
        /\ s.calls = run[q].calls /\ s.pc = run[q].pc /\ s.buf = run[q].buf
        /\ s.digest = run[q].digest /\ s.manifest = run[q].manifest
    BY <2>1 DEF Process
  <2>3. run'[q] = s
    BY <1>1, <1>2
  <2> HIDE DEF s
  <2>4. ProcessOK(s, source', files')
    BY <2>1, <2>2, ProcessKept
  <2> QED BY <2>3, <2>4
<1>3. run'[p] = r
  BY <1>1
<1>4. \A q \in Procs : ProcessOK(run'[q], source', files')
  BY <1>2, <1>3
<1>5. run' \in [Procs -> Process]
  <2>1. \A q \in Procs : run'[q] \in Process
    BY <1>4 DEF ProcessOK
  <2>2. run' = [q \in Procs |-> run'[q]]
    BY <1>1
  <2> QED BY <2>1, <2>2
<1> QED BY <1>3, <1>4, <1>5

LEMMA RecordStepOK ==
    ASSUME LegacyInv, NEW p \in Procs, NEW r, Goes(p, r), ProcessOK(r, source, files),
           UNCHANGED <<source, files, db, manifest, edits>>
    PROVE  LegacyInv'
<1>1. ProcessOK(r, source', files')
  BY Zenon
<1>2. /\ run' \in [Procs -> Process]
      /\ \A q \in Procs : ProcessOK(run'[q], source', files')
  BY <1>1, GoesOK
<1>3. StateOK'
  BY <1>2 DEF LegacyInv, StateOK
<1>4. RowsBacked'
  BY DEF LegacyInv, RowsBacked
<1>5. (\A q \in Procs : ProcessOK(run[q], source, files))'
  BY <1>2
<1> QED BY <1>3, <1>4, <1>5 DEF LegacyInv

LEMMA EndStepOK ==
    ASSUME LegacyInv, NEW p \in Procs, run[p].status = "running",
           NEW status \in {"ok", "err", "fault", "crashed"}, Goes(p, Ends(run[p], status)),
           UNCHANGED <<source, files, db, manifest, edits>>
    PROVE  LegacyInv'
<1>1. ProcessOK(Ends(run[p], status), source, files)
  BY Current, EndsOK
<1> QED BY <1>1, RecordStepOK

(* A call returns that stored and imported nothing.                         *)
LEMMA ReturnStepOK ==
    ASSUME LegacyInv, NEW p \in Procs, run[p].status = "running",
           Call(p).op \notin {"store", "import_blob"},
           NEW pre \in Lists(WorkCalls), pre = <<>> \/ Call(p) \notin Lines,
           \A i \in 1..Len(pre) : NeedsManifest(pre[i]) => run[p].manifest \in Manifests,
           Goes(p, Returns(run[p], pre)), UNCHANGED <<source, files, db, manifest, edits>>
    PROVE  LegacyInv'
<1>1. ProcessOK(Returns(run[p], pre), source, files)
  BY Current, ReturnsOK
<1> QED BY <1>1, RecordStepOK

LEMMA PlainReturnOK ==
    ASSUME LegacyInv, NEW p \in Procs, run[p].status = "running",
           Call(p).op \notin {"store", "import_blob"},
           Goes(p, Returns(run[p], <<>>)), UNCHANGED <<source, files, db, manifest, edits>>
    PROVE  LegacyInv'
BY NoCalls, ReturnStepOK

-----------------------------------------------------------------------------
(* Steps that only move the process.                                       *)

LEMMA InputBytes ==
    ASSUME LegacyInv, NEW input \in Inputs
    PROVE  /\ Bytes(input) \in Digest \cup {Absent}
           /\ Bytes(input) # Absent =>
                 /\ Len(Bytes(input)) = Size
                 /\ \A i \in 1..Size : Bytes(input)[i] \in Atoms
<1>1. Bytes(input) \in Digest \cup {Absent}
  BY DEF Bytes, Inputs, LegacyInv, StateOK
<1>2. \A d \in Digest : Len(d) = Size /\ \A i \in 1..Size : d[i] \in Atoms
  BY LegacyAssumption DEF Digest
<1> QED BY <1>1, <1>2

LEMMA ReadingOK ==
    ASSUME NEW r, ProcessOK(r, source, files), r.status = "running", r.pc = "call",
           Op(r) \in {"store", "verify_path", "upload"}, Len(r.buf) < Size, NEW atom \in Atoms
    PROVE  ProcessOK([r EXCEPT !.buf = Append(@, atom)], source, files)
<1> DEFINE s == [r EXCEPT !.buf = Append(@, atom)]
<1>1. r \in Process /\ Stage(r) /\ Position(r) /\ Footing(r, source, files) /\ Remaining(r, files)
  BY DEF ProcessOK
<1>2. r.buf \in Seq(Atoms) /\ r.buf \in Seq(Chunks) /\ Size \in Nat
  BY <1>1, LegacyAssumption DEF Position, Process, Data
<1>3. Append(r.buf, atom) \in Seq(Atoms) /\ Append(r.buf, atom) \in Data
  <2>1. Append(r.buf, atom) \in Seq(Chunks)
    BY <1>2 DEF Chunks
  <2> QED BY <1>2, <2>1 DEF Data
<1>4. s \in Process
  BY <1>1, <1>3 DEF Process
<1>5. /\ s.script = r.script /\ s.next = r.next /\ s.status = r.status /\ s.calls = r.calls
      /\ s.pc = r.pc /\ s.buf = Append(r.buf, atom) /\ s.digest = r.digest
      /\ s.manifest = r.manifest
  BY <1>1 DEF Process
<1> HIDE DEF s
<1>6. Op(s) = Op(r) /\ RootOf(s) = RootOf(r)
  BY <1>5 DEF Op, RootOf
<1>7. Stage(s)
  BY <1>1, <1>5 DEF Stage
<1>8. Position(s)
  BY <1>1, <1>3, <1>5, <1>6 DEF Position
<1>9. Footing(s, source, files)
  BY <1>5 DEF Footing
<1>10. Remaining(s, files)
  BY <1>1, <1>5, <1>6 DEF Remaining, HasFile
<1> QED BY <1>4, <1>7, <1>8, <1>9, <1>10 DEF ProcessOK, s

LEMMA HashFileOK ==
    ASSUME LegacyInv, NEW p \in Procs, HashFile(p)
    PROVE  LegacyInv'
<1> DEFINE bytes == Bytes(Call(p).input)
<1>1. /\ run[p].status = "running" /\ run[p].pc = "call"
      /\ Call(p).op \in {"store", "verify_path"}
      /\ bytes # Absent => Len(run[p].buf) < Len(bytes)
      /\ UNCHANGED <<source, files, db, manifest, edits>>
  BY DEF HashFile, At, ReadsOnly
<1>2. Call(p).input \in Inputs
  BY <1>1, Current, CallShape DEF Inputs
<1>3. CASE bytes = Absent
  <2>1. Goes(p, Ends(run[p], "err"))
    BY <1>3 DEF HashFile
  <2> QED BY <1>1, <2>1, EndStepOK
<1>4. CASE bytes # Absent
  <2> DEFINE atom == bytes[Len(run[p].buf) + 1]
  <2>1. Goes(p, [run[p] EXCEPT !.buf = Append(@, atom)])
    <3>1. [run[p] EXCEPT !.buf = Append(@, atom)]
          = [run[p] EXCEPT !.buf = Append(@, bytes[Len(@) + 1])]
      BY <1>1, Current DEF Process
    <3> QED BY <1>4, <3>1 DEF HashFile
  <2>2. Len(run[p].buf) \in Nat /\ Len(run[p].buf) < Size
    <3>1. run[p].buf \in Seq(Chunks)
      BY <1>1, Current DEF Process, Data
    <3> QED BY <1>1, <1>2, <1>4, <3>1, InputBytes
  <2>3. atom \in Atoms
    BY <1>2, <1>4, <2>2, InputBytes
  <2>4. ProcessOK([run[p] EXCEPT !.buf = Append(@, atom)], source, files)
    <3> HIDE DEF atom
    <3>1. ProcessOK(run[p], source, files) /\ Op(run[p]) \in {"store", "verify_path", "upload"}
      BY <1>1, Current
    <3> QED BY <1>1, <2>2, <2>3, <3>1, ReadingOK
  <2> HIDE DEF atom
  <2> QED BY <1>1, <2>1, <2>4, RecordStepOK
<1> QED BY <1>3, <1>4

LEMMA ReadUploadOK ==
    ASSUME LegacyInv, NEW p \in Procs, ReadUpload(p)
    PROVE  LegacyInv'
<1> DEFINE bytes == Bytes(Call(p).input)
           atom == bytes[Len(run[p].buf) + 1]
<1>1. /\ run[p].status = "running" /\ run[p].pc = "call" /\ Call(p).op = "upload"
      /\ bytes # Absent /\ Len(run[p].buf) < Len(bytes)
      /\ UNCHANGED <<source, files, db, manifest, edits>>
  BY DEF ReadUpload, At, Sends
<1>2. Call(p).input \in Inputs
  BY <1>1, Current, CallShape DEF Inputs
<1>3. Goes(p, [run[p] EXCEPT !.buf = Append(@, atom)])
  <2>1. [run[p] EXCEPT !.buf = Append(@, atom)]
        = [run[p] EXCEPT !.buf = Append(@, bytes[Len(@) + 1])]
    BY <1>1, Current DEF Process
  <2> QED BY <2>1 DEF ReadUpload
<1>4. Len(run[p].buf) \in Nat /\ Len(run[p].buf) < Size
  <2>1. run[p].buf \in Seq(Chunks)
    BY <1>1, Current DEF Process, Data
  <2> QED BY <1>1, <1>2, <2>1, InputBytes
<1>5. atom \in Atoms
  BY <1>1, <1>2, <1>4, InputBytes
<1>6. ProcessOK([run[p] EXCEPT !.buf = Append(@, atom)], source, files)
  <2> HIDE DEF atom
  <2>1. ProcessOK(run[p], source, files) /\ Op(run[p]) \in {"store", "verify_path", "upload"}
    BY <1>1, Current
  <2> QED BY <1>1, <1>4, <1>5, <2>1, ReadingOK
<1> HIDE DEF atom
<1> QED BY <1>1, <1>3, <1>6, RecordStepOK

(* What has been read to the end is a digest.                               *)
LEMMA HashedDigest ==
    ASSUME LegacyInv, NEW p \in Procs, At(p, "call", {"store", "verify_path", "upload"}), Hashed(p)
    PROVE  run[p].buf \in Digest /\ Bytes(Call(p).input) # Absent
<1>1. run[p].status = "running" /\ run[p].pc = "call"
      /\ Call(p).op \in {"store", "verify_path", "upload"}
  BY DEF At
<1>2. Call(p).input \in Inputs
  BY <1>1, Current, CallShape DEF Inputs
<1>3. run[p].buf \in Seq(Atoms)
  BY <1>1, Current DEF Position
<1>4. Len(run[p].buf) = Size /\ Bytes(Call(p).input) # Absent
  BY <1>2, InputBytes DEF Hashed
<1> QED BY <1>3, <1>4 DEF Digest

LEMMA StoreBlobOK ==
    ASSUME LegacyInv, NEW p \in Procs, StoreBlob(p)
    PROVE  LegacyInv'
<1> DEFINE hash == run[p].buf
           found == [run[p] EXCEPT !.digest = hash]
           s == [found EXCEPT !.pc = "open", !.buf = <<>>]
<1>1. /\ run[p].status = "running" /\ run[p].pc = "call" /\ Call(p).op = "store"
      /\ UNCHANGED <<source, files, db, manifest, edits>>
  BY DEF StoreBlob, At, ReadsOnly
<1>2. hash \in Digest /\ Bytes(Call(p).input) # Absent
  BY HashedDigest DEF StoreBlob, At
<1>3. /\ found \in Process /\ found.calls = run[p].calls /\ found.status = run[p].status
      /\ found.next = run[p].next /\ found.script = run[p].script /\ found.pc = run[p].pc
      /\ found.buf = run[p].buf /\ found.digest = hash /\ found.manifest = run[p].manifest
  BY <1>1, <1>2, Current DEF Process
<1>4. Stage(found) /\ Op(found) = "store" /\ RootOf(found) = Root(p) /\ found.calls[1] = Call(p)
  BY <1>1, <1>3, Current DEF Stage, Op, RootOf
<1>5. ASSUME NEW i \in 1..Len(found.calls)
      PROVE  /\ UsesAdded(found.calls[i]) => i = 1 \/ StoresBefore(found.calls, i)
             /\ InsertsHash(found.calls[i]) =>
                   \/ files[<<RootOf(found), found.calls[i].hash>>] # NoFile
                   \/ ImportsBefore(found.calls, i, found.calls[i].hash)
             /\ NeedsManifest(found.calls[i]) => found.manifest \in Manifests
             /\ ~UsesAdded(found.calls[1])
  <2>1. i # 1 => StoresBefore(found.calls, i)
    BY <1>4 DEF StoresBefore, Op
  <2>2. Remaining(run[p], files) /\ RootOf(run[p]) = RootOf(found)
    BY <1>1, <1>4, Current
  <2> QED BY <1>3, <1>4, <2>1, <2>2 DEF Remaining, UsesAdded, Op
<1>6. CASE Exists(Root(p), hash)
  <2>1. Goes(p, Returns(found, <<>>))
    BY <1>6 DEF StoreBlob
  <2>2. HasFile(found, files)
    BY <1>2, <1>3, <1>4, <1>6 DEF HasFile, Exists
  <2>3. Remaining(found, files)
    <3> HIDE DEF found
    <3> QED BY <1>5, <2>2 DEF Remaining
  <2>4. ProcessOK(Returns(found, <<>>), source, files)
    <3> HIDE DEF found
    <3>1. \A i \in 1..Len(<<>>) : NeedsManifest(<<>>[i]) => found.manifest \in Manifests
      OBVIOUS
    <3>2. Op(found) # "import_blob" /\ found.status = "running"
      BY <1>1, <1>3, <1>4
    <3>3. <<>> \in Lists(WorkCalls)
      BY NoCalls
    <3> QED BY <1>3, <1>4, <2>2, <2>3, <3>1, <3>2, <3>3, ReturnsOK
  <2> HIDE DEF found
  <2> QED BY <1>1, <2>1, <2>4, RecordStepOK
<1>7. CASE ~Exists(Root(p), hash)
  <2>1. Goes(p, s)
    BY <1>7 DEF StoreBlob
  <2>2. /\ s \in Process /\ s.calls = found.calls /\ s.status = "running"
        /\ s.next = found.next /\ s.script = found.script /\ s.pc = "open"
        /\ s.buf = <<>> /\ s.digest = hash /\ s.manifest = found.manifest
    <3>1. <<>> \in Data
      BY LegacyAssumption DEF Data
    <3> HIDE DEF found, hash
    <3> QED BY <1>1, <1>3, <3>1 DEF Process
  <2> HIDE DEF s, found
  <2>3. Op(s) = "store" /\ RootOf(s) = RootOf(found) /\ s.calls[1] = Call(p)
    BY <1>4, <2>2 DEF Op, RootOf
  <2>4. Stage(s) /\ Position(s)
    BY <1>1, <1>2, <1>3, <1>4, <2>2, <2>3 DEF Stage, Position, Copies
  <2>5. Footing(s, source, files)
    <3>1. Absent \notin Sources
      BY LegacyAssumption
    <3>2. /\ s.calls[1].input # Absent
          /\ s.calls[1].input \in Sources => source[s.calls[1].input] # Absent
      BY <1>2, <2>3, <3>1 DEF Bytes
    <3> QED BY <2>2, <2>3, <3>2 DEF Footing
  <2>6. Remaining(s, files)
    BY <1>5, <2>2, <2>3 DEF Remaining
  <2>7. ProcessOK(s, source, files)
    BY <2>2, <2>4, <2>5, <2>6 DEF ProcessOK
  <2> QED BY <1>1, <2>1, <2>7, RecordStepOK
<1> QED BY <1>6, <1>7

(* A process goes to another place of its call.                             *)
LEMMA MovedFields ==
    ASSUME NEW r \in Process,
           NEW pc \in {"call", "open", "write", "seal", "persist", "register", "answer"}
    PROVE  LET s == [r EXCEPT !.pc = pc]
           IN  /\ s \in Process /\ s.calls = r.calls /\ s.status = r.status
               /\ s.next = r.next /\ s.script = r.script /\ s.pc = pc
               /\ s.buf = r.buf /\ s.digest = r.digest /\ s.manifest = r.manifest
               /\ Op(s) = Op(r) /\ RootOf(s) = RootOf(r) /\ TargetOf(s) = TargetOf(r)
<1> DEFINE s == [r EXCEPT !.pc = pc]
<1>1. /\ s \in Process /\ s.calls = r.calls /\ s.status = r.status
      /\ s.next = r.next /\ s.script = r.script /\ s.pc = pc
      /\ s.buf = r.buf /\ s.digest = r.digest /\ s.manifest = r.manifest
  BY DEF Process
<1> HIDE DEF s
<1>2. Op(s) = Op(r) /\ RootOf(s) = RootOf(r) /\ TargetOf(s) = TargetOf(r)
  BY <1>1 DEF Op, RootOf, TargetOf
<1> QED BY <1>1, <1>2 DEF s

LEMMA MovesOK ==
    ASSUME NEW r \in Process, NEW fs, NEW src, Stage(r), r.status = "running", Remaining(r, fs),
           NEW pc \in {"call", "open", "write", "seal", "persist", "register", "answer"},
           Position([r EXCEPT !.pc = pc]), Footing([r EXCEPT !.pc = pc], src, fs)
    PROVE  ProcessOK([r EXCEPT !.pc = pc], src, fs)
<1> DEFINE s == [r EXCEPT !.pc = pc]
<1>1. /\ s \in Process /\ s.calls = r.calls /\ s.status = r.status
      /\ s.next = r.next /\ s.script = r.script
      /\ s.digest = r.digest /\ s.manifest = r.manifest
  BY DEF Process
<1>2. RootOf(s) = RootOf(r) /\ Position(s) /\ Footing(s, src, fs)
  BY <1>1 DEF RootOf
<1> HIDE DEF s
<1>3. Stage(s)
  BY <1>1 DEF Stage
<1>4. Remaining(s, fs)
  BY <1>1, <1>2 DEF Remaining, HasFile
<1> QED BY <1>1, <1>2, <1>3, <1>4 DEF ProcessOK, s

LEMMA VerifyPathOK ==
    ASSUME LegacyInv, NEW p \in Procs, VerifyPath(p)
    PROVE  LegacyInv'
<1>1. /\ run[p].status = "running" /\ Call(p).op = "verify_path"
      /\ UNCHANGED <<source, files, db, manifest, edits>>
  BY DEF VerifyPath, At, ReadsOnly
<1>2. Goes(p, Returns(run[p], <<>>)) \/ Goes(p, Ends(run[p], "err"))
  BY DEF VerifyPath
<1> QED BY <1>1, <1>2, PlainReturnOK, EndStepOK

LEMMA FetchOK ==
    ASSUME LegacyInv, NEW p \in Procs, Fetch(p)
    PROVE  LegacyInv'
<1>1. /\ run[p].status = "running" /\ Call(p).op = "download"
      /\ UNCHANGED <<source, files, db, manifest, edits>>
  BY DEF Fetch, At, ReadsOnly
<1>2. Goes(p, Returns(run[p], <<>>)) \/ Goes(p, Ends(run[p], "err"))
  BY DEF Fetch
<1> QED BY <1>1, <1>2, PlainReturnOK, EndStepOK

(* The blob is to be copied: the process is about to open it.               *)
LEMMA OpeningOK ==
    ASSUME LegacyInv, NEW p \in Procs, run[p].status = "running", run[p].pc = "call",
           Call(p).op \in {"import_blob", "export_blob"},
           Goes(p, [run[p] EXCEPT !.pc = "open"]),
           UNCHANGED <<source, files, db, manifest, edits>>
    PROVE  LegacyInv'
<1> DEFINE s == [run[p] EXCEPT !.pc = "open"]
<1>1. /\ s.status = "running" /\ s.pc = "open" /\ s.buf = run[p].buf /\ s.calls = run[p].calls
      /\ Op(s) = Op(run[p])
  BY Current, MovedFields
<1>2. Position(s)
  <2>1. run[p].buf = <<>>
    BY Current DEF Position
  <2>2. Op(s) \in {"import_blob", "export_blob"}
    BY <1>1, Current
  <2> HIDE DEF s
  <2> QED BY <1>1, <2>1, <2>2 DEF Position, Copies
<1>3. Footing(s, source, files)
  <2>1. Op(s) \in {"import_blob", "export_blob"}
    BY <1>1, Current
  <2> HIDE DEF s
  <2> QED BY <1>1, <2>1 DEF Footing
<1>4. ProcessOK(s, source, files)
  BY <1>2, <1>3, Current, MovesOK
<1> HIDE DEF s
<1> QED BY <1>4, RecordStepOK DEF s

LEMMA CopyBlobToOK ==
    ASSUME LegacyInv, NEW p \in Procs, CopyBlobTo(p)
    PROVE  LegacyInv'
BY OpeningOK DEF CopyBlobTo, At, ReadsOnly

LEMMA ImportBlobOK ==
    ASSUME LegacyInv, NEW p \in Procs, ImportBlob(p)
    PROVE  LegacyInv'
<1>1. /\ run[p].status = "running" /\ run[p].pc = "call" /\ Call(p).op = "import_blob"
      /\ UNCHANGED <<source, files, db, manifest, edits>>
  BY DEF ImportBlob, At, ReadsOnly
<1>2. CASE Exists(Root(p), Call(p).hash)
  <2>1. Goes(p, Returns(run[p], <<>>))
    BY <1>2 DEF ImportBlob
  <2>2. files[<<RootOf(run[p]), run[p].calls[1].hash>>] # NoFile /\ Op(run[p]) = "import_blob"
    BY <1>1, <1>2, Current DEF Exists
  <2>3. \A i \in 1..Len(<<>>) : NeedsManifest(<<>>[i]) => run[p].manifest \in Manifests
    OBVIOUS
  <2>4. <<>> \in Lists(WorkCalls)
    BY NoCalls
  <2>5. ProcessOK(Returns(run[p], <<>>), source, files)
    BY <1>1, <2>2, <2>3, <2>4, Current, ReturnsOK
  <2> QED BY <1>1, <2>1, <2>5, RecordStepOK
<1>3. CASE ~Exists(Root(p), Call(p).hash)
  BY <1>1, <1>3, OpeningOK DEF ImportBlob
<1> QED BY <1>2, <1>3

LEMMA EndCopyOK ==
    ASSUME LegacyInv, NEW p \in Procs, EndCopy(p)
    PROVE  LegacyInv'
<1> DEFINE s == [run[p] EXCEPT !.pc = "seal"]
<1>1. /\ run[p].status = "running" /\ run[p].pc = "write" /\ Call(p).op \in Copies
      /\ UNCHANGED <<source, files, db, manifest, edits>>
  BY DEF EndCopy, At, ReadsOnly
<1>2. CASE Call(p).op = "export_blob"
  <2>1. Goes(p, Returns(run[p], <<>>))
    BY <1>2 DEF EndCopy
  <2> QED BY <1>1, <1>2, <2>1, PlainReturnOK
<1>3. CASE Call(p).op # "export_blob"
  <2>1. Goes(p, s)
    BY <1>3 DEF EndCopy
  <2>2. /\ s.status = "running" /\ s.pc = "seal" /\ s.calls = run[p].calls
        /\ s.digest = run[p].digest /\ Op(s) = Op(run[p]) /\ TargetOf(s) = TargetOf(run[p])
    BY <1>1, Current, MovedFields
  <2>3. Op(s) \in {"store", "import_blob"}
    BY <1>1, <1>3, <2>2, Current DEF Copies
  <2>4. /\ Position(run[p]) /\ Footing(run[p], source, files)
    BY <1>1, Current
  <2>5. Position(s) /\ Footing(s, source, files)
    <3> HIDE DEF s
    <3> QED BY <1>1, <2>2, <2>3, <2>4 DEF Position, Footing
  <2>6. ProcessOK(s, source, files)
    BY <1>1, <2>5, Current, MovesOK
  <2> HIDE DEF s
  <2> QED BY <1>1, <2>1, <2>6, RecordStepOK
<1> QED BY <1>2, <1>3

LEMMA StartOK ==
    ASSUME LegacyInv, NEW p \in Procs, Start(p)
    PROVE  LegacyInv'
<1> DEFINE r == run[p]
           next == IF r.status \in {"ok", "err", "fault"} THEN r.next + 1 ELSE r.next
           c == r.script[next]
           status == IF Calls(c) = <<>> THEN "ok" ELSE "running"
           before == IF next = r.next THEN r.before ELSE r.status
           found == IF r.status = "crashed" THEN r.found ELSE db[c.root].metadata
           s == [r EXCEPT !.next = next, !.calls = Calls(c),
                          !.before = before, !.status = status,
                          !.pc = "call", !.alone = TRUE, !.manifest = NoManifest,
                          !.kept = db[c.root].metadata, !.found = found]
<1>1. /\ r.status # "running" /\ next <= Len(r.script)
      /\ UNCHANGED <<source, files, db, manifest, edits>>
  BY DEF Start
<1>2. run' = [run EXCEPT ![p] = s]
  BY DEF Start
<1>3. r \in Process /\ Stage(r)
  BY DEF LegacyInv, ProcessOK
<1>4. next \in 1..Len(r.script) /\ next \in Nat
  BY <1>1, <1>3 DEF Stage, Process
<1>5. c \in Commands
  BY <1>3, <1>4 DEF Process
<1>6. c.root \in Roots /\ db[c.root].metadata \in Metadata
  <2>1. c.root \in Roots
    BY <1>5 DEF Commands, Urls
  <2> QED BY <2>1 DEF LegacyInv, StateOK, Databases
<1>6a. found \in Metadata
  BY <1>3, <1>6 DEF Process
<1> HIDE DEF found
<1>7. Calls(c) \in Lists(CommandCalls) \cup Lists(RemovingCalls) \cup Lists(Lines)
  BY <1>5, CallsTyped, RemovePackageList
<1> HIDE DEF c
<1>8. Calls(c) \in Seq(AllCalls) /\ (Calls(c) \in Seq(WorkCalls) \/ Calls(c) \in Seq(Lines))
  BY <1>7 DEF Lists, AllCalls, WorkCalls
<1>9. \A i \in 1..Len(Calls(c)) :
         /\ UsesAdded(Calls(c)[i]) => StoresBefore(Calls(c), i)
         /\ InsertsHash(Calls(c)[i]) => ImportsBefore(Calls(c), i, Calls(c)[i].hash)
         /\ ~NeedsManifest(Calls(c)[i])
  <2> TAKE i \in 1..Len(Calls(c))
  <2>1. /\ UsesAdded(Calls(c)[i]) => StoresBefore(Calls(c), i)
        /\ InsertsHash(Calls(c)[i]) => ImportsBefore(Calls(c), i, Calls(c)[i].hash)
        /\ Calls(c)[i] \in CommandCalls \cup RemovingCalls \cup Lines
    BY <1>7 DEF Lists
  <2>2. \A d \in CommandCalls \cup RemovingCalls \cup Lines : ~NeedsManifest(d)
    BY DEF CommandCalls, AddingCalls, RemovingCalls, StatementCalls, Lines, NeedsManifest
  <2> QED BY <2>1, <2>2
<1> HIDE DEF next
<1>9a. before \in Statuses
  BY <1>3 DEF Process
<1> HIDE DEF before
<1>10. /\ s \in Process /\ s.script = r.script /\ s.next = next /\ s.status = status
       /\ s.calls = Calls(c) /\ s.pc = "call" /\ s.buf = r.buf
  BY <1>3, <1>4, <1>6, <1>6a, <1>8, <1>9a DEF Process, Statuses
<1> HIDE DEF s
<1>11. r.buf = <<>>
  BY <1>1, <1>3 DEF Stage
<1>12. ProcessOK(s, source, files)
  <2>1. Stage(s)
    BY <1>4, <1>8, <1>10, <1>11 DEF Stage
  <2>2. Position(s) /\ Footing(s, source, files)
    BY <1>10, <1>11 DEF Position, Footing
  <2>3. Remaining(s, files)
    BY <1>9, <1>10 DEF Remaining
  <2> QED BY <1>10, <2>1, <2>2, <2>3 DEF ProcessOK
<1>13. run \in [Procs -> Process]
  BY DEF LegacyInv, StateOK
<1>14. \A q \in Procs : ProcessOK(run'[q], source', files')
  <2>1. ASSUME NEW q \in Procs PROVE ProcessOK(run'[q], source, files)
    <3>1. ProcessOK(run[q], source, files)
      BY DEF LegacyInv
    <3> QED BY <1>2, <1>12, <1>13, <3>1
  <2> QED BY <1>1, <2>1
<1>15. run' \in [Procs -> Process]
  BY <1>2, <1>10, <1>13
<1>16. StateOK'
  BY <1>1, <1>15 DEF LegacyInv, StateOK
<1>17. RowsBacked'
  BY <1>1 DEF LegacyInv, RowsBacked
<1>18. (\A q \in Procs : ProcessOK(run[q], source, files))'
  BY <1>14
<1> QED BY <1>16, <1>17, <1>18 DEF LegacyInv

LEMMA CrashOK ==
    ASSUME LegacyInv, NEW p \in Procs, Crash(p) \/ CallFails(p)
    PROVE  LegacyInv'
<1>1. /\ run[p].status = "running" /\ UNCHANGED <<source, files, db, manifest, edits>>
      /\ Goes(p, Ends(run[p], "crashed")) \/ Goes(p, Ends(run[p], "fault"))
  BY DEF Crash, CallFails
<1> QED BY <1>1, EndStepOK

-----------------------------------------------------------------------------
(* The agent.                                                              *)

LEMMA WorkHead ==
    ASSUME LegacyInv, NEW p \in Procs, run[p].status = "running"
    PROVE  /\ Call(p).op \notin {"upload", "fetch", "init", "blank", "unparsable", "terminate"}
                 => Call(p) \notin Lines
           /\ Call(p).op = "upload" => \A i \in 1..Len(run[p].calls) : run[p].calls[i] \in Lines
<1>1. \A c \in Lines : c.op \in {"upload", "fetch", "init", "blank", "unparsable", "terminate"}
  BY DEF Lines
<1>2. \A c \in WorkCalls : c.op # "upload"
  BY DEF WorkCalls, CommandCalls, AddingCalls, RemovingCalls, StatementCalls, ImportingCalls, ExportingCalls
<1>3. /\ Call(p) = run[p].calls[1]
      /\ run[p].calls \in Seq(WorkCalls) \/ run[p].calls \in Seq(Lines)
      /\ Len(run[p].calls) \in Nat /\ Len(run[p].calls) >= 1
  BY Current, HeadTyped DEF Stage
<1>4. run[p].calls \in Seq(WorkCalls) => Call(p) \in WorkCalls
  BY <1>3
<1> QED BY <1>1, <1>2, <1>3, <1>4

(* An upload has been hashed: the agent keeps its digest.                   *)
LEMMA StoreBlobWithProgressOK ==
    ASSUME LegacyInv, NEW p \in Procs, StoreBlobWithProgress(p)
    PROVE  LegacyInv'
<1> DEFINE r == run[p]
           hash == r.buf
           pc == IF Exists(Root(p), hash) THEN "register" ELSE "persist"
           s == [r EXCEPT !.digest = hash, !.pc = pc]
<1>1. /\ r.status = "running" /\ r.pc = "call" /\ Call(p).op = "upload"
      /\ UNCHANGED <<source, files, db, manifest, edits>>
      /\ Goes(p, s)
  BY DEF StoreBlobWithProgress, At, ReadsOnly
<1>2. hash \in Digest
  BY HashedDigest DEF StoreBlobWithProgress, At
<1>3. /\ r \in Process /\ Stage(r) /\ Position(r) /\ Remaining(r, files)
      /\ Root(p) = RootOf(r) /\ Op(r) = "upload"
  BY <1>1, Current
<1>4. /\ s \in Process /\ s.calls = r.calls /\ s.status = r.status
      /\ s.next = r.next /\ s.script = r.script /\ s.pc = pc
      /\ s.buf = r.buf /\ s.digest = hash /\ s.manifest = r.manifest
  BY <1>1, <1>2, <1>3 DEF Process
<1> HIDE DEF s
<1>5. Op(s) = "upload" /\ RootOf(s) = RootOf(r)
  BY <1>3, <1>4 DEF Op, RootOf
<1>6. Stage(s) /\ Position(s)
  BY <1>1, <1>2, <1>3, <1>4, <1>5 DEF Stage, Position
<1>7. Footing(s, source, files)
  BY <1>2, <1>3, <1>4, <1>5 DEF Footing, HasFile, Exists
<1>8. Remaining(s, files)
  <2>1. \A c \in Lines : ~UsesAdded(c) /\ ~InsertsHash(c) /\ ~NeedsManifest(c)
    BY DEF Lines, UsesAdded, InsertsHash, NeedsManifest
  <2>2. \A i \in 1..Len(r.calls) : r.calls[i] \in Lines
    BY <1>1, WorkHead
  <2> QED BY <1>4, <2>1, <2>2 DEF Remaining
<1>9. ProcessOK(s, source, files)
  BY <1>4, <1>6, <1>7, <1>8 DEF ProcessOK
<1> QED BY <1>1, <1>9, RecordStepOK

LEMMA AnsweredOK ==
    ASSUME LegacyInv, NEW p \in Procs,
           Mismatch(p) \/ CompleteUpload(p) \/ MissingUpload(p) \/ HandleDownload(p)
    PROVE  LegacyInv'
<1>1. /\ run[p].status = "running" /\ Call(p).op \in {"upload", "fetch"}
      /\ UNCHANGED <<source, files, db, manifest, edits>>
      /\ Goes(p, Returns(run[p], <<>>))
  BY DEF Mismatch, CompleteUpload, MissingUpload, HandleDownload, UploadFails, At, Sends
<1> QED BY <1>1, PlainReturnOK

LEMMA AgentLineOK ==
    ASSUME LegacyInv, NEW p \in Procs, AgentLine(p)
    PROVE  LegacyInv'
<1>1. /\ run[p].status = "running" /\ Call(p).op \in {"init", "blank", "unparsable", "terminate"}
      /\ UNCHANGED <<source, files, db, manifest, edits>>
  BY DEF AgentLine, At, Sends
<1>2. \/ Goes(p, Returns(run[p], <<>>))
      \/ Goes(p, Ends(run[p], "err")) \/ Goes(p, Ends(run[p], "ok"))
  BY <1>1 DEF AgentLine
<1> QED BY <1>1, <1>2, PlainReturnOK, EndStepOK

(* The upload has been registered, or the statement failed.                 *)
LEMMA RegisteredOK ==
    ASSUME LegacyInv, NEW p \in Procs, At(p, "register", {"upload"})
    PROVE  ProcessOK([run[p] EXCEPT !.pc = "answer"], source, files)
<1> DEFINE s == [run[p] EXCEPT !.pc = "answer"]
<1>1. run[p].status = "running" /\ run[p].pc = "register" /\ Call(p).op = "upload"
  BY DEF At
<1>2. /\ Position(run[p]) /\ Footing(run[p], source, files) /\ Op(run[p]) = "upload"
  BY <1>1, Current
<1>3. /\ s.status = "running" /\ s.pc = "answer" /\ s.calls = run[p].calls
      /\ s.digest = run[p].digest /\ Op(s) = Op(run[p]) /\ RootOf(s) = RootOf(run[p])
  BY <1>1, Current, MovedFields
<1>4. Position(s) /\ Footing(s, source, files)
  <2> HIDE DEF s
  <2> QED BY <1>1, <1>2, <1>3 DEF Position, Footing, HasFile
<1> QED BY <1>1, <1>4, Current, MovesOK

LEMMA UploadCallFailsOK ==
    ASSUME LegacyInv, NEW p \in Procs, UploadCallFails(p)
    PROVE  LegacyInv'
<1>1. run[p].status = "running" /\ Call(p).op = "upload"
  BY DEF UploadCallFails
<1>2. CASE UploadFails(p)
  <2>1. UNCHANGED <<source, files, db, manifest, edits>> /\ Goes(p, Returns(run[p], <<>>))
    BY <1>2 DEF UploadFails, Sends
  <2> QED BY <1>1, <2>1, PlainReturnOK
<1>3. CASE /\ run[p].pc = "register" /\ Goes(p, [run[p] EXCEPT !.pc = "answer"])
           /\ UNCHANGED <<source, files, db, manifest, edits>>
  <2>1. At(p, "register", {"upload"})
    BY <1>1, <1>3 DEF At
  <2>2. ProcessOK([run[p] EXCEPT !.pc = "answer"], source, files)
    BY <2>1, RegisteredOK
  <2> QED BY <1>3, <2>2, RecordStepOK
<1> QED BY <1>2, <1>3 DEF UploadCallFails

-----------------------------------------------------------------------------
(* Export and import.                                                      *)

(* Calls of an import that need nothing from the calls before them.         *)
PlainCalls == {c \in ImportingCalls : ~UsesAdded(c) /\ ~InsertsHash(c)}

LEMMA PlainCallsList ==
    ASSUME NEW s \in Seq(PlainCalls)
    PROVE  s \in Lists(WorkCalls) /\ \A i \in 1..Len(s) : ~NeedsManifest(s[i])
<1>1. \A i \in 1..Len(s) : s[i] \in PlainCalls
  OBVIOUS
<1>2. s \in Seq(WorkCalls)
  BY <1>1 DEF PlainCalls, WorkCalls
<1>3. \A c \in PlainCalls : ~NeedsManifest(c)
  BY DEF PlainCalls, ImportingCalls, StatementCalls, NeedsManifest
<1> QED BY <1>1, <1>2, <1>3, PlainList DEF PlainCalls

LEMMA PlainStepOK ==
    ASSUME LegacyInv, NEW p \in Procs, run[p].status = "running",
           Call(p).op \notin {"store", "import_blob"}, Call(p) \notin Lines,
           NEW pre \in Seq(PlainCalls),
           Goes(p, Returns(run[p], pre)), UNCHANGED <<source, files, db, manifest, edits>>
    PROVE  LegacyInv'
<1>1. pre \in Lists(WorkCalls) /\ \A i \in 1..Len(pre) : ~NeedsManifest(pre[i])
  BY PlainCallsList
<1> QED BY <1>1, ReturnStepOK

LEMMA MergeMetadataCalls ==
    ASSUME LegacyInv, NEW p \in Procs, MergeMetadata(p)
    PROVE  \E pre \in Seq(PlainCalls) : Goes(p, Returns(run[p], pre))
<1> DEFINE c == Call(p)
           d == [op |-> "set_metadata", hash |-> c.hash, value |-> c.value]
           pre == IF db[Root(p)].metadata[c.hash] = NoValue
                  THEN BlobMetadata(c.hash, c.value) ELSE <<>>
<1>1. /\ run[p].status = "running" /\ c.op = "merge_metadata"
      /\ Goes(p, Returns(run[p], pre))
  BY DEF MergeMetadata, At
<1>2. c.hash \in Ids /\ c.value \in Values /\ c.hash # Added
  BY <1>1, Current, CallShape, LegacyAssumption
<1>3. d \in PlainCalls
  BY <1>2 DEF PlainCalls, ImportingCalls, StatementCalls, UsesAdded, InsertsHash
<1>4. pre \in Seq(PlainCalls)
  <2>1. BlobMetadata(c.hash, c.value) = <<d>>
    BY DEF BlobMetadata
  <2> HIDE DEF d
  <2> QED BY <1>3, <2>1
<1> HIDE DEF pre
<1> QED BY <1>1, <1>4

LEMMA EnsurePackageCalls ==
    ASSUME LegacyInv, NEW p \in Procs, EnsurePackage(p)
    PROVE  \E pre \in Seq(PlainCalls) : Goes(p, Returns(run[p], pre))
<1> DEFINE c == Call(p)
           d == [op |-> "create_package", name |-> c.name]
           pre == IF PackageExists(db[Root(p)], c.name) THEN <<>> ELSE <<d>>
<1>1. /\ run[p].status = "running" /\ c.op = "ensure_package"
      /\ Goes(p, Returns(run[p], pre))
  BY DEF EnsurePackage, At
<1>2. c.name \in Packages
  BY <1>1, Current, CallShape
<1>3. d \in PlainCalls
  BY <1>2 DEF PlainCalls, ImportingCalls, StatementCalls, UsesAdded, InsertsHash
<1>4. pre \in Seq(PlainCalls)
  <2> HIDE DEF d
  <2> QED BY <1>3
<1> HIDE DEF pre
<1> QED BY <1>1, <1>4

LEMMA MergeOK ==
    ASSUME LegacyInv, NEW p \in Procs, MergeMetadata(p) \/ EnsurePackage(p)
    PROVE  LegacyInv'
<1>1. /\ run[p].status = "running" /\ Call(p).op \in {"merge_metadata", "ensure_package"}
      /\ UNCHANGED <<source, files, db, manifest, edits>>
  BY DEF MergeMetadata, EnsurePackage, At, ReadsOnly
<1>2. PICK pre \in Seq(PlainCalls) : Goes(p, Returns(run[p], pre))
  BY MergeMetadataCalls, EnsurePackageCalls
<1>3. Call(p) \notin Lines
  BY <1>1, WorkHead
<1> QED BY <1>1, <1>2, <1>3, PlainStepOK

LEMMA BlobThenRowList ==
    ASSUME NEW hash \in Digest
    PROVE  BlobThenRow(hash) \in Lists(ImportingCalls)
<1> DEFINE a == [op |-> "import_blob", hash |-> hash]
           b == [op |-> "insert_blob", hash |-> hash]
<1>1. /\ a \in ImportingCalls /\ a.op = "import_blob" /\ a.hash = hash
      /\ b \in ImportingCalls /\ b.hash = hash
      /\ ~UsesAdded(a) /\ ~UsesAdded(b) /\ ~InsertsHash(a)
  BY LegacyAssumption DEF ImportingCalls, StatementCalls, UsesAdded, InsertsHash, Ids
<1>2. BlobThenRow(hash) = <<a, b>>
  BY DEF BlobThenRow
<1> HIDE DEF a, b
<1>3. <<a, b>> \in Seq(ImportingCalls) /\ Len(<<a, b>>) = 2 /\ <<a, b>>[1] = a /\ <<a, b>>[2] = b
  BY <1>1
<1>4. ImportsBefore(<<a, b>>, 2, hash)
  BY <1>1, <1>3 DEF ImportsBefore
<1>5. \A i \in 1..2 :
         /\ UsesAdded(<<a, b>>[i]) => StoresBefore(<<a, b>>, i)
         /\ InsertsHash(<<a, b>>[i]) => ImportsBefore(<<a, b>>, i, <<a, b>>[i].hash)
  <2> TAKE i \in 1..2
  <2>1. i = 1 \/ i = 2
    OBVIOUS
  <2> QED BY <1>1, <1>3, <1>4, <2>1
<1> QED BY <1>2, <1>3, <1>5 DEF Lists

LEMMA ImportBlobsCalls ==
    ASSUME NEW p \in Procs, ImportBlobs(p)
    PROVE  \E pre \in Lists(ImportingCalls) : Goes(p, Returns(run[p], pre))
<1> DEFINE S == {h \in Digest : Exists(ExportDir, h)}
<1>1. PICK order \in SetToSeqs(S) :
         Goes(p, Returns(run[p], FlattenSeq([i \in 1..Len(order) |-> BlobThenRow(order[i])])))
  BY DEF ImportBlobs
<1> DEFINE seqs == [i \in 1..Len(order) |-> BlobThenRow(order[i])]
           pre == FlattenSeq(seqs)
<1>2. order \in Seq(Digest)
  <2>1. S \in SUBSET Digest
    OBVIOUS
  <2> HIDE DEF S
  <2>2. IsFiniteSet(S)
    BY <2>1, DigestsFinite, FS_Subset
  <2>3. order \in Seq(S)
    BY <2>2, SetToSeqsType
  <2> QED BY <2>1, <2>3
<1>3. pre \in Lists(ImportingCalls)
  <2>1. \A i \in 1..Len(order) : seqs[i] \in Lists(ImportingCalls)
    BY <1>2, BlobThenRowList
  <2>2. Len(order) \in Nat /\ seqs = [i \in 1..Len(order) |-> seqs[i]]
    BY <1>2
  <2> HIDE DEF seqs
  <2>3. seqs \in [1..Len(order) -> Lists(ImportingCalls)]
    BY <2>1, <2>2
  <2>4. seqs \in Seq(Lists(ImportingCalls))
    BY <2>2, <2>3
  <2> QED BY <2>4, ListsFlattened
<1> HIDE DEF pre
<1> QED BY <1>1, <1>3 DEF pre

LEMMA ImportBlobsOK ==
    ASSUME LegacyInv, NEW p \in Procs, ImportBlobs(p)
    PROVE  LegacyInv'
<1>1. /\ run[p].status = "running" /\ Call(p).op = "import_blobs"
      /\ UNCHANGED <<source, files, db, manifest, edits>>
  BY DEF ImportBlobs, At, ReadsOnly
<1>2. PICK pre \in Lists(ImportingCalls) : Goes(p, Returns(run[p], pre))
  BY ImportBlobsCalls
<1>3. pre \in Lists(WorkCalls) /\ \A i \in 1..Len(pre) : ~NeedsManifest(pre[i])
  <2>1. pre \in Seq(ImportingCalls) /\ \A i \in 1..Len(pre) : pre[i] \in ImportingCalls
    BY <1>2 DEF Lists
  <2>2. pre \in Seq(WorkCalls)
    BY <2>1 DEF WorkCalls
  <2>3. \A c \in ImportingCalls : ~NeedsManifest(c)
    BY DEF ImportingCalls, StatementCalls, NeedsManifest
  <2> QED BY <1>2, <2>1, <2>2, <2>3 DEF Lists
<1>4. Call(p) \notin Lines
  BY <1>1, WorkHead
<1> QED BY <1>1, <1>2, <1>3, <1>4, ReturnStepOK

LEMMA ManifestTaken ==
    ASSUME LegacyInv, NEW p \in Procs, run[p].status = "running", NEW m \in Manifests
    PROVE  LET s == [run[p] EXCEPT !.manifest = m]
           IN  /\ s \in Process /\ Stage(s) /\ s.status = "running" /\ Remaining(s, files)
               /\ Op(s) = Call(p).op /\ s.calls = run[p].calls /\ s.manifest = m
<1> DEFINE r == run[p]
           s == [r EXCEPT !.manifest = m]
<1>1. r \in Process /\ Stage(r) /\ Remaining(r, files) /\ Op(r) = Call(p).op
  BY Current
<1>2. /\ s \in Process /\ s.script = r.script /\ s.next = r.next /\ s.status = r.status
      /\ s.calls = r.calls /\ s.pc = r.pc /\ s.buf = r.buf /\ s.digest = r.digest
      /\ s.manifest = m
  BY <1>1 DEF Process
<1> HIDE DEF s
<1>3. Op(s) = Op(r) /\ RootOf(s) = RootOf(r)
  BY <1>2 DEF Op, RootOf
<1>4. Stage(s)
  BY <1>1, <1>2 DEF Stage
<1>5. Remaining(s, files)
  BY <1>1, <1>2, <1>3 DEF Remaining, HasFile
<1> QED BY <1>1, <1>2, <1>3, <1>4, <1>5 DEF s

(* A call returns that took a manifest.                                     *)
LEMMA ManifestReturnOK ==
    ASSUME LegacyInv, NEW p \in Procs, run[p].status = "running", NEW m \in Manifests,
           Call(p).op \notin {"store", "import_blob"}, Call(p) \notin Lines,
           NEW pre \in Lists(WorkCalls),
           Goes(p, Returns([run[p] EXCEPT !.manifest = m], pre)),
           UNCHANGED <<source, files, db, manifest, edits>>
    PROVE  LegacyInv'
<1> DEFINE s == [run[p] EXCEPT !.manifest = m]
<1>1. /\ s \in Process /\ Stage(s) /\ s.status = "running" /\ Remaining(s, files)
      /\ Op(s) = Call(p).op /\ s.calls = run[p].calls /\ s.manifest = m
  BY ManifestTaken
<1> HIDE DEF s
<1>2. s.calls[1] \notin Lines
  BY <1>1, Current
<1>3. ProcessOK(Returns(s, pre), source, files)
  BY <1>1, <1>2, ReturnsOK
<1> QED BY <1>3, RecordStepOK DEF s

LEMMA CollectedType ==
    ASSUME NEW d \in Databases, NEW m \in Manifests, NEW part \in Parts
    PROVE  [m EXCEPT ![part] = Collected(d, m, part)] \in Manifests
<1>1. AllMetadata(d, m.hashes \cup {m.package}) \in Metadata
  BY DEF AllMetadata, Databases, Metadata
<1>2. /\ AllBlobNames(d, m.hashes) \in SUBSET (Digest \X Names)
      /\ AllTags(d, m.hashes \cup {m.package}) \in SUBSET (Ids \X Tags)
      /\ AllRelations(d, m.hashes) \in SUBSET (Digest \X Digest)
  BY DEF AllBlobNames, AllTags, AllRelations, Databases
<1>3. CASE part = "names"
  BY <1>2, <1>3 DEF Collected, Manifests
<1>4. CASE part = "tags"
  BY <1>2, <1>4 DEF Collected, Manifests
<1>5. CASE part = "metadata"
  BY <1>1, <1>5 DEF Collected, Manifests
<1>6. CASE part = "relations"
  BY <1>2, <1>6 DEF Collected, Manifests
<1> QED BY <1>3, <1>4, <1>5, <1>6 DEF Parts

LEMMA CollectOK ==
    ASSUME LegacyInv, NEW p \in Procs, Collect(p)
    PROVE  LegacyInv'
<1> DEFINE m == run[p].manifest
           part == Call(p).part
           m2 == [m EXCEPT ![part] = Collected(db[Root(p)], m, part)]
<1>1. /\ run[p].status = "running" /\ Call(p).op = "collect"
      /\ UNCHANGED <<source, files, db, manifest, edits>>
      /\ Goes(p, Returns([run[p] EXCEPT !.manifest = m2], <<>>))
  BY DEF Collect, At, ReadsOnly
<1>2. m \in Manifests
  <2>1. Remaining(run[p], files) /\ Call(p) = run[p].calls[1] /\ 1 \in 1..Len(run[p].calls)
    BY <1>1, Current, HeadTyped
  <2> QED BY <1>1, <2>1 DEF Remaining, NeedsManifest
<1>3. part \in Parts
  BY <1>1, Current, CallShape
<1>4. db[Root(p)] \in Databases
  BY <1>1, Current DEF LegacyInv, StateOK
<1>5. m2 \in Manifests
  BY <1>2, <1>3, <1>4, CollectedType
<1>6. Call(p) \notin Lines
  BY <1>1, WorkHead
<1>7. <<>> \in Lists(WorkCalls)
  BY NoCalls
<1> HIDE DEF m2
<1> QED BY <1>1, <1>5, <1>6, <1>7, ManifestReturnOK

(* The calls of an export collect every part and end with the manifest.     *)
Collecting(part) == [op |-> "collect", part |-> part]
Finishes(calls) ==
    /\ Len(calls) \in Nat /\ Len(calls) >= 1
    /\ calls[Len(calls)].op = "write_manifest"
    /\ \A i \in 1..Len(calls) : calls[i].op # "export"
    /\ \A part \in Parts : \E i \in 1..Len(calls) : calls[i] = Collecting(part)
(* They copy every blob of the list m, which has no names yet, and write    *)
(* the manifest last.                                                       *)
CopyingBlob(h) == [op |-> "export_blob", hash |-> h]
CopiesAll(m, calls) ==
    /\ m.names = {}
    /\ \A h \in m.hashes : \E i \in 1..Len(calls) : calls[i] = CopyingBlob(h)
    /\ \A i \in 1..Len(calls) : calls[i].op = "write_manifest" => i = Len(calls)

LEMMA ExportPackageCalls ==
    ASSUME LegacyInv, NEW p \in Procs, ExportPackage(p)
    PROVE  \E m \in Manifests : \E pre \in Seq(ExportingCalls) :
              /\ Goes(p, Returns([run[p] EXCEPT !.manifest = m], pre))
              /\ m.package = Call(p).name
              /\ m.hashes = ShowPackage(db[Root(p)], Call(p).name)
              /\ Finishes(pre) /\ CopiesAll(m, pre)
<1> DEFINE c == Call(p)
           hashes == ShowPackage(db[Root(p)], c.name)
           m == [package |-> c.name, hashes |-> hashes, names |-> {}, tags |-> {},
                 metadata |-> EmptyDb.metadata, relations |-> {}]
           order == SetToSeq(hashes)
           exports == Prefixed("export_blob", order)
           collects == [i \in 1..4 |->
               [op |-> "collect", part |-> <<"names", "tags", "metadata", "relations">>[i]]]
           writes == << [op |-> "create_manifest"], [op |-> "write_manifest"] >>
           pre == exports \o collects \o writes
<1>1. /\ run[p].status = "running" /\ c.op = "export"
      /\ Goes(p, Returns([run[p] EXCEPT !.manifest = m], pre))
  BY DEF ExportPackage, At
<1>2. c.name \in Packages /\ hashes \in SUBSET Digest
  <2>1. c.name \in Packages
    BY <1>1, Current, CallShape
  <2>2. db[Root(p)].members \in SUBSET (Packages \X Digest)
    BY <1>1, Current DEF LegacyInv, StateOK, Databases
  <2> QED BY <2>1, <2>2 DEF ShowPackage
<1>3. m \in Manifests
  BY <1>2 DEF Manifests, EmptyDb, Metadata
<1>4. order \in Seq(Digest)
  <2> HIDE DEF hashes
  <2>1. IsFiniteSet(hashes)
    BY <1>2, DigestsFinite, FS_Subset
  <2> QED BY <1>2, <2>1, SetToSeqType
<1>5. exports \in Seq(ExportingCalls)
  <2> HIDE DEF order
  <2>1. Len(order) \in Nat
    BY <1>4
  <2>2. exports \in [1..Len(order) -> ExportingCalls]
    BY <1>4 DEF Prefixed, ExportingCalls
  <2> HIDE DEF exports
  <2> QED BY <2>1, <2>2
<1>6. collects \in Seq(ExportingCalls)
  <2>1. \A i \in 1..4 : <<"names", "tags", "metadata", "relations">>[i] \in Parts
    BY DEF Parts
  <2>2. \A i \in 1..4 : collects[i] \in ExportingCalls
    BY <2>1 DEF ExportingCalls
  <2>3. collects = [i \in 1..4 |-> collects[i]]
    OBVIOUS
  <2> HIDE DEF collects
  <2>4. collects \in [1..4 -> ExportingCalls]
    BY <2>2, <2>3
  <2>5. \A k \in Nat : \A f \in [1..k -> ExportingCalls] : f \in Seq(ExportingCalls)
    OBVIOUS
  <2> QED BY <2>4, <2>5
<1>7. writes \in Seq(ExportingCalls)
  <2>1. [op |-> "create_manifest"] \in ExportingCalls /\ [op |-> "write_manifest"] \in ExportingCalls
    BY DEF ExportingCalls
  <2> QED BY <2>1
<1>8. pre \in Seq(ExportingCalls)
  <2> HIDE DEF exports, collects, writes
  <2> QED BY <1>5, <1>6, <1>7
<1>9. Finishes(pre)
  <2> DEFINE first == exports \o collects
  <2>1. /\ Len(writes) = 2 /\ writes[2].op = "write_manifest" /\ Len(collects) = 4
        /\ \A part \in Parts : \E i \in 1..4 : collects[i] = Collecting(part)
    BY DEF Collecting, Parts
  <2>2. pre = first \o writes
    <3> HIDE DEF exports, collects, writes
    <3> QED BY <1>5, <1>6, <1>7
  <2> HIDE DEF exports, collects, writes, pre
  <2>3. /\ first \in Seq(ExportingCalls) /\ Len(first) = Len(exports) + 4 /\ Len(exports) \in Nat
        /\ \A i \in 1..4 : first[Len(exports) + i] = collects[i]
    <3>1. /\ first \in Seq(ExportingCalls) /\ Len(first) = Len(exports) + Len(collects)
          /\ \A i \in 1..Len(collects) : first[Len(exports) + i] = collects[i]
      BY ONLY <1>5, <1>6, Concatenation
    <3>2. Len(exports) \in Nat
      BY <1>5
    <3> QED BY <2>1, <3>1, <3>2
  <2> HIDE DEF first
  <2>4. /\ Len(pre) = Len(first) + 2
        /\ \A i \in 1..Len(first) : pre[i] = first[i]
        /\ \A i \in 1..2 : pre[Len(first) + i] = writes[i]
    <3>1. first \in Seq(ExportingCalls) /\ writes \in Seq(ExportingCalls)
      BY <1>7, <2>3
    <3>2. /\ Len(first \o writes) = Len(first) + Len(writes)
          /\ \A i \in 1..Len(first) : (first \o writes)[i] = first[i]
          /\ \A i \in 1..Len(writes) : (first \o writes)[Len(first) + i] = writes[i]
      BY ONLY <3>1, Concatenation
    <3> QED BY <2>1, <2>2, <3>2
  <2>5. \A part \in Parts : \E i \in 1..Len(pre) : pre[i] = Collecting(part)
    <3> TAKE part \in Parts
    <3>1. PICK i \in 1..4 : collects[i] = Collecting(part)
      BY <2>1
    <3>2. Len(exports) + i \in 1..Len(first)
      BY <2>3
    <3>3. pre[Len(exports) + i] = Collecting(part) /\ Len(exports) + i \in 1..Len(pre)
      BY <2>3, <2>4, <3>1, <3>2
    <3> QED BY <3>3
  <2>6. /\ Len(pre) \in Nat /\ Len(pre) >= 1 /\ pre[Len(pre)].op = "write_manifest"
    <3>1. Len(first) + 2 = Len(pre) /\ 2 \in 1..2 /\ Len(first) \in Nat
      BY <2>3, <2>4
    <3>2. pre[Len(pre)] = writes[2]
      BY <2>4, <3>1
    <3> QED BY <2>1, <3>1, <3>2
  <2>7. \A i \in 1..Len(pre) : pre[i].op # "export"
    <3>1. \A c1 \in ExportingCalls : c1.op # "export"
      BY DEF ExportingCalls
    <3> QED BY <1>8, <3>1
  <2> QED BY <2>5, <2>6, <2>7 DEF Finishes
<1>10. m.package = c.name /\ m.hashes = hashes /\ m.names = {}
  BY DEF m
<1>11. CopiesAll(m, pre)
  <2> DEFINE rest == collects \o writes
  <2>1. /\ Len(writes) = 2 /\ writes[1].op = "create_manifest" /\ Len(collects) = 4
        /\ \A i \in 1..4 : collects[i].op = "collect"
        /\ Len(exports) = Len(order) /\ \A i \in 1..Len(order) : exports[i] = CopyingBlob(order[i])
    BY <1>4 DEF CopyingBlob, Prefixed
  <2>2. \A h \in hashes : \E i \in 1..Len(order) : order[i] = h
    <3> HIDE DEF hashes
    <3>1. IsFiniteSet(hashes)
      BY <1>2, DigestsFinite, FS_Subset
    <3> QED BY <3>1, SetToSeqCovers
  <2>3. pre = exports \o rest /\ rest \in Seq(ExportingCalls)
    <3> HIDE DEF exports, collects, writes
    <3> QED BY <1>5, <1>6, <1>7
  <2> HIDE DEF exports, collects, writes, pre, order, m, hashes
  <2>4. /\ Len(rest) = 6
        /\ \A i \in 1..4 : rest[i] = collects[i]
        /\ \A i \in 1..2 : rest[4 + i] = writes[i]
    <3>1. /\ Len(collects \o writes) = Len(collects) + Len(writes)
          /\ \A i \in 1..Len(collects) : (collects \o writes)[i] = collects[i]
          /\ \A i \in 1..Len(writes) : (collects \o writes)[Len(collects) + i] = writes[i]
      BY ONLY <1>6, <1>7, Concatenation
    <3> QED BY <2>1, <3>1
  <2>5. \A i \in 1..5 : rest[i].op # "write_manifest"
    <3>1. rest[4 + 1].op = "create_manifest"
      BY <2>1, <2>4
    <3>2. \A i \in 1..4 : rest[i].op = "collect"
      BY <2>1, <2>4
    <3>3. \A i \in 1..5 : i \in 1..4 \/ i = 4 + 1
      OBVIOUS
    <3> QED BY <3>1, <3>2, <3>3
  <2> HIDE DEF rest
  <2>6. /\ Len(pre) = Len(exports) + 6 /\ Len(exports) \in Nat
        /\ \A i \in 1..Len(exports) : pre[i] = exports[i]
        /\ \A i \in 1..Len(pre) :
              \/ i \in 1..Len(exports) /\ pre[i] = exports[i]
              \/ i - Len(exports) \in 1..6 /\ pre[i] = rest[i - Len(exports)]
    <3>1. /\ Len(exports \o rest) = Len(exports) + Len(rest)
          /\ \A i \in 1..Len(exports) : (exports \o rest)[i] = exports[i]
          /\ \A i \in 1..Len(exports \o rest) :
                \/ i \in 1..Len(exports) /\ (exports \o rest)[i] = exports[i]
                \/ /\ i - Len(exports) \in 1..Len(rest) /\ i > Len(exports)
                   /\ (exports \o rest)[i] = rest[i - Len(exports)]
      BY ONLY <1>5, <2>3, Concatenation
    <3>2. Len(exports) \in Nat
      BY <1>5
    <3> QED BY <2>3, <2>4, <3>1, <3>2
  <2>7. ASSUME NEW i \in 1..Len(pre), pre[i].op = "write_manifest" PROVE i = Len(pre)
    <3>1. ~(i \in 1..Len(exports) /\ pre[i] = exports[i])
      <4>1. \A h : CopyingBlob(h).op = "export_blob"
        BY DEF CopyingBlob
      <4>2. i \in 1..Len(exports) => exports[i].op = "export_blob"
        BY <2>1, <4>1
      <4> QED BY <2>7, <4>2
    <3>2. i - Len(exports) \in 1..6 /\ i - Len(exports) \notin 1..5
      BY <2>5, <2>6, <2>7, <3>1
    <3> QED BY <2>6, <3>2
  <2>8. ASSUME NEW h \in m.hashes PROVE \E i \in 1..Len(pre) : pre[i] = CopyingBlob(h)
    <3>1. PICK i \in 1..Len(order) : order[i] = h
      BY <1>10, <2>2
    <3>2. i \in 1..Len(exports) /\ pre[i] = CopyingBlob(h)
      BY <2>1, <2>6, <3>1
    <3>3. i \in 1..Len(pre)
      BY <2>6, <3>2
    <3> QED BY <3>2, <3>3
  <2> QED BY <1>10, <2>7, <2>8 DEF CopiesAll
<1> HIDE DEF pre, m
<1> QED BY <1>1, <1>3, <1>8, <1>9, <1>10, <1>11

LEMMA ExportPackageOK ==
    ASSUME LegacyInv, NEW p \in Procs, ExportPackage(p)
    PROVE  LegacyInv'
<1>1. /\ run[p].status = "running" /\ Call(p).op = "export"
      /\ UNCHANGED <<source, files, db, manifest, edits>>
  BY DEF ExportPackage, At, ReadsOnly
<1>2. PICK m \in Manifests, pre \in Seq(ExportingCalls) :
         Goes(p, Returns([run[p] EXCEPT !.manifest = m], pre))
  BY ExportPackageCalls
<1>3. pre \in Lists(WorkCalls)
  <2>1. \A d \in ExportingCalls : d \in WorkCalls /\ ~UsesAdded(d) /\ ~InsertsHash(d)
    BY DEF ExportingCalls, WorkCalls, UsesAdded, InsertsHash
  <2>2. pre \in Seq(WorkCalls) /\ \A i \in 1..Len(pre) : pre[i] \in ExportingCalls
    BY <1>2, <2>1
  <2> QED BY <2>1, <2>2, PlainList
<1>4. Call(p) \notin Lines
  BY <1>1, WorkHead
<1> QED BY <1>1, <1>2, <1>3, <1>4, ManifestReturnOK

LEMMA WriteExportMetadataOK ==
    ASSUME LegacyInv, NEW p \in Procs, WriteExportMetadata(p)
    PROVE  LegacyInv'
<1>1. /\ run[p].status = "running" /\ Call(p).op \in {"create_manifest", "write_manifest"}
      /\ UNCHANGED <<source, files, db, edits>>
      /\ Goes(p, Returns(run[p], <<>>))
  BY DEF WriteExportMetadata, At
<1>2. run[p].manifest \in Manifests
  <2>1. Remaining(run[p], files) /\ Call(p) = run[p].calls[1] /\ 1 \in 1..Len(run[p].calls)
    BY <1>1, Current, HeadTyped
  <2> QED BY <1>1, <2>1 DEF Remaining, NeedsManifest
<1>3. manifest' \in Manifests \cup {Torn}
  BY <1>2 DEF WriteExportMetadata
<1>4. ProcessOK(Returns(run[p], <<>>), source', files')
  <2>1. \A i \in 1..Len(<<>>) : NeedsManifest(<<>>[i]) => run[p].manifest \in Manifests
    OBVIOUS
  <2>2. Op(run[p]) \notin {"store", "import_blob"}
    BY <1>1, Current
  <2>3. <<>> \in Lists(WorkCalls)
    BY NoCalls
  <2>4. ProcessOK(Returns(run[p], <<>>), source, files)
    BY <1>1, <2>1, <2>2, <2>3, Current, ReturnsOK
  <2> QED BY <1>1, <2>4
<1>5. /\ run' \in [Procs -> Process]
      /\ \A q \in Procs : ProcessOK(run'[q], source', files')
  BY <1>1, <1>4, GoesOK
<1>6. StateOK'
  BY <1>1, <1>3, <1>5 DEF LegacyInv, StateOK
<1>7. RowsBacked'
  BY <1>1 DEF LegacyInv, RowsBacked
<1>8. (\A q \in Procs : ProcessOK(run[q], source, files))'
  BY <1>5
<1> QED BY <1>6, <1>7, <1>8 DEF LegacyInv

LEMMA MappedCalls ==
    ASSUME NEW S, NEW s \in Seq(S), NEW f, f = [i \in 1..Len(s) |-> f[i]],
           NEW C, \A i \in 1..Len(s) : f[i] \in C
    PROVE  f \in Seq(C)
<1>1. Len(s) \in Nat
  OBVIOUS
<1>2. f \in [1..Len(s) -> C]
  OBVIOUS
<1> QED BY <1>1, <1>2

Member(s, c) == \E i \in 1..Len(s) : s[i] = c

LEMMA MemberConcatenated ==
    ASSUME NEW C, NEW a \in Seq(C), NEW b \in Seq(C), NEW c, Member(a, c) \/ Member(b, c)
    PROVE  Member(a \o b, c)
<1>1. /\ Len(a) \in Nat /\ Len(b) \in Nat /\ Len(a \o b) = Len(a) + Len(b)
      /\ \A i \in 1..Len(a) : (a \o b)[i] = a[i]
      /\ \A i \in 1..Len(b) : (a \o b)[Len(a) + i] = b[i]
  BY Concatenation
<1>2. /\ \A i \in 1..Len(a) : i \in 1..Len(a \o b)
      /\ \A i \in 1..Len(b) : Len(a) + i \in 1..Len(a \o b)
  BY <1>1
<1>3. CASE Member(a, c)
  BY <1>1, <1>2, <1>3 DEF Member
<1>4. CASE Member(b, c)
  BY <1>1, <1>2, <1>4 DEF Member
<1> QED BY <1>3, <1>4

(* The calls of the manifest m, one for each thing it lists.                *)
ManifestCalls(m) ==
    {[op |-> "insert_blob_name", hash |-> x[1], name |-> x[2]] : x \in m.names}
    \cup {[op |-> "add_tag", hash |-> x[1], tag |-> x[2]] : x \in m.tags}
    \cup {[op |-> "merge_metadata", hash |-> id, value |-> m.metadata[id]] :
             id \in {i \in Ids : m.metadata[i] # NoValue}}
    \cup {[op |-> "add_relation", hash |-> x[1], target |-> x[2]] : x \in m.relations}
    \cup {[op |-> "ensure_package", name |-> m.package]}
    \cup {[op |-> "add_blob_to_package", name |-> m.package, hash |-> h] : h \in m.hashes}

LEMMA ImportCallsPlain ==
    ASSUME NEW m \in Manifests
    PROVE  /\ ImportCalls(m) \in Seq(PlainCalls)
           /\ \A c \in ManifestCalls(m) : Member(ImportCalls(m), c)
           /\ \A i \in 1..Len(ImportCalls(m)) :
                 /\ ImportCalls(m)[i] \in ManifestCalls(m)
                 /\ ImportCalls(m)[i].op = "add_blob_to_package" =>
                       \E j \in 1..(i - 1) : ImportCalls(m)[j].op = "ensure_package"
<1> DEFINE ids == {id \in Ids : m.metadata[id] # NoValue}
           pairs == {<<id, m.metadata[id]>> : id \in ids}
           names == SetToSeq(m.names)
           tags == SetToSeq(m.tags)
           values == SetToSeq(pairs)
           relations == SetToSeq(m.relations)
           hashes == SetToSeq(m.hashes)
           s1 == [i \in 1..Len(names) |->
                    [op |-> "insert_blob_name", hash |-> names[i][1], name |-> names[i][2]]]
           s2 == [i \in 1..Len(tags) |->
                    [op |-> "add_tag", hash |-> tags[i][1], tag |-> tags[i][2]]]
           s3 == [i \in 1..Len(values) |->
                    [op |-> "merge_metadata", hash |-> values[i][1], value |-> values[i][2]]]
           s4 == [i \in 1..Len(relations) |->
                    [op |-> "add_relation", hash |-> relations[i][1], target |-> relations[i][2]]]
           s5 == << [op |-> "ensure_package", name |-> m.package] >>
           s6 == [i \in 1..Len(hashes) |->
                    [op |-> "add_blob_to_package", name |-> m.package, hash |-> hashes[i]]]
<1> DEFINE Own == {c \in PlainCalls : c \in ManifestCalls(m)}
<1>1. /\ m.package \in Packages /\ m.hashes \in SUBSET Digest
      /\ m.names \in SUBSET (Digest \X Names) /\ m.tags \in SUBSET (Ids \X Tags)
      /\ m.metadata \in Metadata /\ m.relations \in SUBSET (Digest \X Digest)
  BY DEF Manifests
<1>2. pairs \in SUBSET (Ids \X Values)
  BY <1>1 DEF Metadata
<1>3. /\ IsFiniteSet(Names) /\ IsFiniteSet(Tags) /\ IsFiniteSet(Digest) /\ IsFiniteSet(Ids)
      /\ Added \notin Ids /\ Digest \subseteq Ids
  BY LegacyAssumption, DigestsFinite DEF Ids
<1>4. IsFiniteSet(pairs)
  <2> DEFINE g == [id \in ids |-> <<id, m.metadata[id]>>]
  <2>1. IsFiniteSet(ids)
    BY <1>3, FS_Subset
  <2>2. g \in Surjection(ids, pairs)
    <3>1. g \in [ids -> pairs]
      OBVIOUS
    <3>2. \A x \in pairs : \E id \in ids : g[id] = x
      OBVIOUS
    <3> HIDE DEF g, pairs, ids
    <3> QED BY <3>1, <3>2 DEF Surjection
  <2> HIDE DEF g, pairs, ids
  <2> QED BY <2>1, <2>2, FS_Surjection
<1> HIDE DEF pairs
<1>5. /\ names \in Seq(Digest \X Names) /\ \A i \in 1..Len(names) : names[i] \in m.names
      /\ \A x \in m.names : \E i \in 1..Len(names) : names[i] = x
  <2>1. IsFiniteSet(m.names)
    BY <1>1, <1>3, FS_Product, FS_Subset
  <2> QED BY <1>1, <2>1, SetToSeqType, SetToSeqCovers
<1>6. /\ tags \in Seq(Ids \X Tags) /\ \A i \in 1..Len(tags) : tags[i] \in m.tags
      /\ \A x \in m.tags : \E i \in 1..Len(tags) : tags[i] = x
  <2>1. IsFiniteSet(m.tags)
    BY <1>1, <1>3, FS_Product, FS_Subset
  <2> QED BY <1>1, <2>1, SetToSeqType, SetToSeqCovers
<1>7. /\ values \in Seq(Ids \X Values) /\ \A i \in 1..Len(values) : values[i] \in pairs
      /\ \A x \in pairs : \E i \in 1..Len(values) : values[i] = x
  BY <1>2, <1>4, SetToSeqType, SetToSeqCovers
<1>8. /\ relations \in Seq(Digest \X Digest)
      /\ \A i \in 1..Len(relations) : relations[i] \in m.relations
      /\ \A x \in m.relations : \E i \in 1..Len(relations) : relations[i] = x
  <2>1. IsFiniteSet(m.relations)
    BY <1>1, <1>3, FS_Product, FS_Subset
  <2> QED BY <1>1, <2>1, SetToSeqType, SetToSeqCovers
<1>9. /\ hashes \in Seq(Digest) /\ \A i \in 1..Len(hashes) : hashes[i] \in m.hashes
      /\ \A x \in m.hashes : \E i \in 1..Len(hashes) : hashes[i] = x
  <2>1. IsFiniteSet(m.hashes)
    BY <1>1, <1>3, FS_Subset
  <2> QED BY <1>1, <2>1, SetToSeqType, SetToSeqCovers
<1> HIDE DEF names, tags, values, relations, hashes
<1>10. s1 \in Seq(Own)
  <2>1. \A i \in 1..Len(names) : names[i][1] \in Digest /\ names[i][2] \in Names
    BY <1>5
  <2>2. \A i \in 1..Len(names) : s1[i] \in PlainCalls
    BY <1>3, <2>1 DEF PlainCalls, ImportingCalls, StatementCalls, UsesAdded, InsertsHash
  <2>3. s1 = [i \in 1..Len(names) |-> s1[i]]
    OBVIOUS
  <2>a. \A i \in 1..Len(names) : s1[i] \in ManifestCalls(m)
    BY <1>5 DEF ManifestCalls
  <2>b. \A i \in 1..Len(names) : s1[i] \in Own
    BY <2>2, <2>a
  <2> HIDE DEF s1
  <2> QED BY <1>5, <2>b, <2>3, MappedCalls
<1>11. s2 \in Seq(Own)
  <2>1. \A i \in 1..Len(tags) : tags[i][1] \in Ids /\ tags[i][2] \in Tags
    BY <1>6
  <2>2. \A i \in 1..Len(tags) : s2[i] \in PlainCalls
    BY <1>3, <2>1 DEF PlainCalls, ImportingCalls, StatementCalls, UsesAdded, InsertsHash
  <2>3. s2 = [i \in 1..Len(tags) |-> s2[i]]
    OBVIOUS
  <2>a. \A i \in 1..Len(tags) : s2[i] \in ManifestCalls(m)
    BY <1>6 DEF ManifestCalls
  <2>b. \A i \in 1..Len(tags) : s2[i] \in Own
    BY <2>2, <2>a
  <2> HIDE DEF s2
  <2> QED BY <1>6, <2>b, <2>3, MappedCalls
<1>12. s3 \in Seq(Own)
  <2>1. \A i \in 1..Len(values) : values[i][1] \in Ids /\ values[i][2] \in Values
    BY <1>7
  <2>2. \A i \in 1..Len(values) : s3[i] \in PlainCalls
    BY <1>3, <2>1 DEF PlainCalls, ImportingCalls, UsesAdded, InsertsHash
  <2>3. s3 = [i \in 1..Len(values) |-> s3[i]]
    OBVIOUS
  <2>a. \A i \in 1..Len(values) : s3[i] \in ManifestCalls(m)
    <3> TAKE i \in 1..Len(values)
    <3>1. PICK id \in ids : values[i] = <<id, m.metadata[id]>>
      BY <1>7 DEF pairs
    <3>2. s3[i] = [op |-> "merge_metadata", hash |-> id, value |-> m.metadata[id]]
      BY <3>1
    <3> QED BY <3>2 DEF ManifestCalls
  <2>b. \A i \in 1..Len(values) : s3[i] \in Own
    BY <2>2, <2>a
  <2> HIDE DEF s3
  <2> QED BY <1>7, <2>b, <2>3, MappedCalls
<1>13. s4 \in Seq(Own)
  <2>1. \A i \in 1..Len(relations) : relations[i][1] \in Digest /\ relations[i][2] \in Digest
    BY <1>8
  <2>2. \A i \in 1..Len(relations) : s4[i] \in PlainCalls
    BY <1>3, <2>1 DEF PlainCalls, ImportingCalls, StatementCalls, UsesAdded, InsertsHash
  <2>3. s4 = [i \in 1..Len(relations) |-> s4[i]]
    OBVIOUS
  <2>a. \A i \in 1..Len(relations) : s4[i] \in ManifestCalls(m)
    BY <1>8 DEF ManifestCalls
  <2>b. \A i \in 1..Len(relations) : s4[i] \in Own
    BY <2>2, <2>a
  <2> HIDE DEF s4
  <2> QED BY <1>8, <2>b, <2>3, MappedCalls
<1>14. s5 \in Seq(Own)
  <2>1. [op |-> "ensure_package", name |-> m.package] \in PlainCalls
    BY <1>1 DEF PlainCalls, ImportingCalls, UsesAdded, InsertsHash
  <2>2. [op |-> "ensure_package", name |-> m.package] \in Own
    BY <2>1 DEF ManifestCalls
  <2> HIDE DEF Own
  <2> QED BY <2>2
<1>15. s6 \in Seq(Own)
  <2>1. \A i \in 1..Len(hashes) : s6[i] \in PlainCalls
    BY <1>1, <1>9 DEF PlainCalls, ImportingCalls, StatementCalls, UsesAdded, InsertsHash
  <2>2. s6 = [i \in 1..Len(hashes) |-> s6[i]]
    OBVIOUS
  <2>a. \A i \in 1..Len(hashes) : s6[i] \in ManifestCalls(m)
    BY <1>9 DEF ManifestCalls
  <2>b. \A i \in 1..Len(hashes) : s6[i] \in Own
    BY <2>1, <2>a
  <2> HIDE DEF s6
  <2> QED BY <1>9, <2>b, <2>2, MappedCalls
<1>16. ImportCalls(m) = s1 \o s2 \o s3 \o s4 \o s5 \o s6
  BY DEF ImportCalls, pairs, names, tags, values, relations, hashes
(* Each list has the calls of its part of the manifest.                     *)
<1>17. \A x \in m.names : Member(s1, [op |-> "insert_blob_name", hash |-> x[1], name |-> x[2]])
  <2> TAKE x \in m.names
  <2>1. PICK i \in 1..Len(names) : names[i] = x
    BY <1>5
  <2>2. s1[i] = [op |-> "insert_blob_name", hash |-> x[1], name |-> x[2]] /\ Len(s1) = Len(names)
    BY <1>5, <2>1
  <2> HIDE DEF s1
  <2> QED BY <2>1, <2>2 DEF Member
<1>18. \A x \in m.tags : Member(s2, [op |-> "add_tag", hash |-> x[1], tag |-> x[2]])
  <2> TAKE x \in m.tags
  <2>1. PICK i \in 1..Len(tags) : tags[i] = x
    BY <1>6
  <2>2. s2[i] = [op |-> "add_tag", hash |-> x[1], tag |-> x[2]] /\ Len(s2) = Len(tags)
    BY <1>6, <2>1
  <2> HIDE DEF s2
  <2> QED BY <2>1, <2>2 DEF Member
<1>19. \A id \in ids :
          Member(s3, [op |-> "merge_metadata", hash |-> id, value |-> m.metadata[id]])
  <2> TAKE id \in ids
  <2>1. <<id, m.metadata[id]>> \in pairs
    BY DEF pairs
  <2>2. PICK i \in 1..Len(values) : values[i] = <<id, m.metadata[id]>>
    BY <1>7, <2>1
  <2>3. /\ s3[i] = [op |-> "merge_metadata", hash |-> id, value |-> m.metadata[id]]
        /\ Len(s3) = Len(values)
    BY <1>7, <2>2
  <2> HIDE DEF s3
  <2> QED BY <2>2, <2>3 DEF Member
<1>20. \A x \in m.relations : Member(s4, [op |-> "add_relation", hash |-> x[1], target |-> x[2]])
  <2> TAKE x \in m.relations
  <2>1. PICK i \in 1..Len(relations) : relations[i] = x
    BY <1>8
  <2>2. s4[i] = [op |-> "add_relation", hash |-> x[1], target |-> x[2]] /\ Len(s4) = Len(relations)
    BY <1>8, <2>1
  <2> HIDE DEF s4
  <2> QED BY <2>1, <2>2 DEF Member
<1>21. Member(s5, [op |-> "ensure_package", name |-> m.package])
  BY DEF Member
<1>22. \A h \in m.hashes :
          Member(s6, [op |-> "add_blob_to_package", name |-> m.package, hash |-> h])
  <2> TAKE h \in m.hashes
  <2>1. PICK i \in 1..Len(hashes) : hashes[i] = h
    BY <1>9
  <2>2. /\ s6[i] = [op |-> "add_blob_to_package", name |-> m.package, hash |-> h]
        /\ Len(s6) = Len(hashes)
    BY <1>9, <2>1
  <2> HIDE DEF s6
  <2> QED BY <2>1, <2>2 DEF Member
<1> HIDE DEF s1, s2, s3, s4, s5, s6
<1> DEFINE t2 == s1 \o s2
           t3 == t2 \o s3
           t4 == t3 \o s4
           t5 == t4 \o s5
<1>x. \A u \in Seq(Own) : u \in Seq(PlainCalls) /\ \A i \in 1..Len(u) : u[i] \in ManifestCalls(m)
  OBVIOUS
<1> HIDE DEF Own
<1>23. t2 \in Seq(Own) /\ \A c : Member(s1, c) \/ Member(s2, c) => Member(t2, c)
  BY <1>10, <1>11, MemberConcatenated
<1> HIDE DEF t2
<1>24. t3 \in Seq(Own) /\ \A c : Member(t2, c) \/ Member(s3, c) => Member(t3, c)
  BY <1>12, <1>23, MemberConcatenated
<1> HIDE DEF t3
<1>25. t4 \in Seq(Own) /\ \A c : Member(t3, c) \/ Member(s4, c) => Member(t4, c)
  BY <1>13, <1>24, MemberConcatenated
<1> HIDE DEF t4
<1>26. t5 \in Seq(Own) /\ \A c : Member(t4, c) \/ Member(s5, c) => Member(t5, c)
  BY <1>14, <1>25, MemberConcatenated
<1> HIDE DEF t5
<1>27. /\ t5 \o s6 \in Seq(Own)
       /\ \A c : Member(t5, c) \/ Member(s6, c) => Member(t5 \o s6, c)
  BY <1>15, <1>26, MemberConcatenated
<1>28. ImportCalls(m) = t5 \o s6
  BY <1>16 DEF t2, t3, t4, t5
<1>29. ASSUME NEW c \in ManifestCalls(m) PROVE Member(ImportCalls(m), c)
  <2>1. \/ Member(s1, c) \/ Member(s2, c) \/ Member(s3, c)
        \/ Member(s4, c) \/ Member(s5, c) \/ Member(s6, c)
    BY <1>17, <1>18, <1>19, <1>20, <1>21, <1>22 DEF ManifestCalls
  <2> QED BY <1>23, <1>24, <1>25, <1>26, <1>27, <1>28, <2>1
(* ensure_package comes before the members.                                 *)
<1>30. ASSUME NEW i \in 1..Len(ImportCalls(m)),
              ImportCalls(m)[i].op = "add_blob_to_package"
       PROVE  \E j \in 1..(i - 1) : ImportCalls(m)[j].op = "ensure_package"
  <2>1. Len(s5) = 1 /\ s5[1].op = "ensure_package"
    BY DEF s5
  <2>2. \A k \in 1..Len(t4) : t4[k].op # "add_blob_to_package"
    <3>1. /\ \A k \in 1..Len(s1) : s1[k].op # "add_blob_to_package"
          /\ \A k \in 1..Len(s2) : s2[k].op # "add_blob_to_package"
          /\ \A k \in 1..Len(s3) : s3[k].op # "add_blob_to_package"
          /\ \A k \in 1..Len(s4) : s4[k].op # "add_blob_to_package"
      BY <1>5, <1>6, <1>7, <1>8 DEF s1, s2, s3, s4
    <3>2. \A k \in 1..Len(t2) : t2[k].op # "add_blob_to_package"
      BY <1>10, <1>11, <3>1, Concatenation DEF t2
    <3>3. \A k \in 1..Len(t3) : t3[k].op # "add_blob_to_package"
      BY <1>12, <1>23, <3>1, <3>2, Concatenation DEF t3
    <3> QED BY <1>13, <1>24, <3>1, <3>3, Concatenation DEF t4
  <2>3. /\ Len(t4) \in Nat /\ Len(t5) = Len(t4) + 1 /\ t5[Len(t4) + 1] = s5[1]
        /\ \A k \in 1..Len(t4) : t5[k] = t4[k]
    <3>1. 1 \in 1..Len(s5) /\ Len(t4) \in Nat
      BY <1>25, <2>1
    <3>2. /\ Len(t4 \o s5) = Len(t4) + Len(s5)
          /\ \A k \in 1..Len(t4) : (t4 \o s5)[k] = t4[k]
          /\ \A k \in 1..Len(s5) : (t4 \o s5)[Len(t4) + k] = s5[k]
      BY <1>14, <1>25, Concatenation
    <3> QED BY <2>1, <3>1, <3>2 DEF t5
  <2>4. \A k \in 1..Len(t5) : (t5 \o s6)[k] = t5[k]
    BY <1>15, <1>26, Concatenation
  <2>5. Len(t4) + 1 \in 1..Len(t5) /\ (t5 \o s6)[Len(t4) + 1].op = "ensure_package"
    BY <2>1, <2>3, <2>4
  <2>6. i > Len(t4) + 1
    <3>1. \A k \in 1..Len(t4) : (t5 \o s6)[k] = t4[k]
      BY <2>3, <2>4
    <3>2. i # Len(t4) + 1 /\ i \notin 1..Len(t4)
      BY <1>28, <1>30, <2>2, <2>5, <3>1
    <3> QED BY <2>3, <3>2
  <2>7. Len(t4) + 1 \in 1..(i - 1)
    BY <2>3, <2>6
  <2> QED BY <1>28, <2>5, <2>7
<1> QED BY <1>27, <1>28, <1>29, <1>30, <1>x

LEMMA ImportManifestOK ==
    ASSUME LegacyInv, NEW p \in Procs, ImportManifest(p)
    PROVE  LegacyInv'
<1>1. /\ run[p].status = "running" /\ Call(p).op = "import_manifest"
      /\ UNCHANGED <<source, files, db, manifest, edits>>
  BY DEF ImportManifest, At, ReadsOnly
<1>2. CASE manifest = NoManifest
  <2>1. Goes(p, Returns(run[p], <<>>))
    BY <1>2, LegacyAssumption DEF ImportManifest
  <2> QED BY <1>1, <2>1, PlainReturnOK
<1>3. CASE manifest # NoManifest /\ manifest = Torn
  <2>1. Goes(p, Ends(run[p], "err"))
    BY <1>3 DEF ImportManifest
  <2> QED BY <1>1, <2>1, EndStepOK
<1>4. CASE manifest # NoManifest /\ manifest # Torn
  <2>1. Goes(p, Returns([run[p] EXCEPT !.manifest = manifest], ImportCalls(manifest)))
    BY <1>4 DEF ImportManifest
  <2>2. manifest \in Manifests
    BY <1>4 DEF LegacyInv, StateOK
  <2>3. ImportCalls(manifest) \in Lists(WorkCalls)
    BY <2>2, ImportCallsPlain, PlainCallsList
  <2>4. Call(p) \notin Lines
    BY <1>1, WorkHead
  <2> QED BY <1>1, <2>1, <2>2, <2>3, <2>4, ManifestReturnOK
<1> QED BY <1>2, <1>3, <1>4

-----------------------------------------------------------------------------
(* The database.                                                           *)

LEMMA ExecuteType ==
    ASSUME NEW d \in Databases, NEW c, c.op \in Statements,
           c.op = "insert_blob" => c.hash \in Digest,
           c.op = "insert_blob_name" => c.hash \in Digest /\ c.name \in Names,
           c.op \in {"create_package", "delete_members", "delete_package"} => c.name \in Packages,
           c.op = "add_blob_to_package" => c.name \in Packages /\ c.hash \in Digest,
           c.op = "add_tag" => c.hash \in Ids /\ c.tag \in Tags,
           c.op = "set_metadata" => c.hash \in Ids /\ c.value \in Values,
           c.op = "add_relation" => c.hash \in Digest /\ c.target \in Digest
    PROVE  /\ Execute(d, c) \in Databases
           /\ \A h \in Execute(d, c).rows :
                 h \in d.rows \/ (c.op = "insert_blob" /\ h = c.hash)
<1>1. CASE c.op = "insert_blob"
  BY <1>1 DEF Execute, InsertBlob, Databases
<1>2. CASE c.op = "insert_blob_name"
  BY <1>2 DEF Execute, InsertBlobName, Databases
<1>3. CASE c.op = "create_package"
  BY <1>3 DEF Execute, CreatePackage, Databases
<1>4. CASE c.op = "add_blob_to_package"
  BY <1>4 DEF Execute, AddBlobToPackage, Databases
<1>5. CASE c.op = "delete_members"
  BY <1>5 DEF Execute, DeleteMembers, Databases
<1>6. CASE c.op = "delete_package"
  BY <1>6 DEF Execute, DeletePackage, Databases
<1>7. CASE c.op = "add_tag"
  BY <1>7 DEF Execute, AddTag, Databases
<1>8. CASE c.op = "set_metadata"
  <2>1. Execute(d, c) = [d EXCEPT !.metadata = [@ EXCEPT ![c.hash] = c.value]]
    BY <1>8 DEF Execute, SetMetadata
  <2>2. [d.metadata EXCEPT ![c.hash] = c.value] \in Metadata
    BY <1>8 DEF Databases, Metadata
  <2> QED BY <2>1, <2>2 DEF Databases
<1>9. CASE c.op = "add_relation"
  BY <1>9 DEF Execute, AddRelation, Databases
<1> QED BY <1>1, <1>2, <1>3, <1>4, <1>5, <1>6, <1>7, <1>8, <1>9 DEF Statements

(* Added is resolved to a digest, and a row to insert has its file.         *)
LEMMA ResolvedShape ==
    ASSUME LegacyInv, NEW p \in Procs, run[p].status = "running", Call(p).op \in Statements
    PROVE  LET c == Resolved(p)
           IN  /\ c.op \in Statements
               /\ c.op = "insert_blob" =>
                     c.hash \in Digest /\ files[<<Root(p), c.hash>>] # NoFile
               /\ c.op = "insert_blob_name" => c.hash \in Digest /\ c.name \in Names
               /\ c.op \in {"create_package", "delete_members", "delete_package"}
                     => c.name \in Packages
               /\ c.op = "add_blob_to_package" => c.name \in Packages /\ c.hash \in Digest
               /\ c.op = "add_tag" => c.hash \in Ids /\ c.tag \in Tags
               /\ c.op = "set_metadata" => c.hash \in Ids /\ c.value \in Values
               /\ c.op = "add_relation" => c.hash \in Digest /\ c.target \in Digest
<1> DEFINE d == Call(p)
           c == Resolved(p)
           r == run[p]
<1>1. /\ d \in StatementCalls \cup RemovingCalls /\ d = r.calls[1] /\ RootOf(r) = Root(p)
      /\ Remaining(r, files) /\ 1 \in 1..Len(r.calls)
  BY Current, HeadTyped, CallShape
<1>2. ~StoresBefore(r.calls, 1) /\ \A h : ~ImportsBefore(r.calls, 1, h)
  BY DEF StoresBefore, ImportsBefore
<1>3. /\ UsesAdded(d) => r.digest \in Digest /\ files[<<Root(p), r.digest>>] # NoFile
      /\ InsertsHash(d) => files[<<Root(p), d.hash>>] # NoFile
  BY <1>1, <1>2 DEF Remaining, HasFile
<1>4. Added \notin Digest /\ Added \notin Ids /\ Digest \subseteq Ids
  BY LegacyAssumption DEF Ids
<1> HIDE DEF d, r
<1>5. CASE UsesAdded(d)
  <2>1. d \in [op : {"insert_blob"}, hash : {Added}]
             \cup [op : {"insert_blob_name"}, hash : {Added}, name : Names]
             \cup [op : {"add_tag"}, hash : {Added}, tag : Tags]
             \cup [op : {"set_metadata"}, hash : {Added}, value : Values]
    BY <1>1, <1>5 DEF StatementCalls, RemovingCalls, UsesAdded
  <2>2. "hash" \in DOMAIN d /\ d.hash = Added
    BY <2>1
  <2>3. c = [d EXCEPT !.hash = r.digest]
    BY <2>2 DEF Resolved, d, r
  <2>4. CASE d \in [op : {"insert_blob"}, hash : {Added}]
    BY <1>3, <1>5, <2>3, <2>4 DEF Statements
  <2>5. CASE d \in [op : {"insert_blob_name"}, hash : {Added}, name : Names]
    BY <1>3, <1>5, <2>3, <2>5 DEF Statements
  <2>6. CASE d \in [op : {"add_tag"}, hash : {Added}, tag : Tags]
    BY <1>3, <1>4, <1>5, <2>3, <2>6 DEF Statements
  <2>7. CASE d \in [op : {"set_metadata"}, hash : {Added}, value : Values]
    BY <1>3, <1>4, <1>5, <2>3, <2>7 DEF Statements
  <2> QED BY <2>1, <2>4, <2>5, <2>6, <2>7
<1>6. CASE ~UsesAdded(d)
  <2>1. c = d
    <3>1. "hash" \in DOMAIN d => d.hash # Added
      BY <1>1, <1>4, <1>6 DEF StatementCalls, RemovingCalls, UsesAdded
    <3> QED BY <3>1 DEF Resolved, d
  <2>2. d.op = "insert_blob" => InsertsHash(d)
    BY <1>6 DEF UsesAdded, InsertsHash
  <2>3. /\ d.op \in Statements
        /\ d.op \in {"insert_blob", "insert_blob_name"} => d.hash \in Digest
        /\ d.op = "insert_blob_name" => d.name \in Names
    BY <1>1, <1>6 DEF StatementCalls, RemovingCalls, Statements, UsesAdded
  <2>4. /\ d.op \in {"create_package", "delete_members", "delete_package"} => d.name \in Packages
        /\ d.op = "add_blob_to_package" => d.name \in Packages /\ d.hash \in Digest
        /\ d.op = "add_relation" => d.hash \in Digest /\ d.target \in Digest
    BY <1>1 DEF StatementCalls, RemovingCalls
  <2>5. /\ d.op = "add_tag" => d.hash \in Ids /\ d.tag \in Tags
        /\ d.op = "set_metadata" => d.hash \in Ids /\ d.value \in Values
    BY <1>1, <1>6 DEF StatementCalls, RemovingCalls, UsesAdded
  <2> QED BY <1>3, <2>1, <2>2, <2>3, <2>4, <2>5
<1> QED BY <1>5, <1>6

LEMMA DbStepOK ==
    ASSUME LegacyInv, NEW p \in Procs, run[p].status = "running",
           NEW d \in Databases, ForeignKeys(d),
           \A h \in d.rows : h \in db[Root(p)].rows \/ files[<<Root(p), h>>] # NoFile,
           db' = [db EXCEPT ![Root(p)] = d],
           NEW r, Goes(p, r), ProcessOK(r, source, files),
           UNCHANGED <<source, files, manifest, edits>>
    PROVE  LegacyInv'
<1>1. Root(p) \in Roots
  BY Current
<1>2. db \in [Roots -> Databases] /\ \A q \in Roots : ForeignKeys(db[q])
  BY DEF LegacyInv, StateOK
<1>3. ProcessOK(r, source', files')
  BY Zenon
<1>4. /\ run' \in [Procs -> Process]
      /\ \A q \in Procs : ProcessOK(run'[q], source', files')
  BY <1>3, GoesOK
<1>5. db' \in [Roots -> Databases] /\ \A q \in Roots : ForeignKeys(db'[q])
  BY <1>1, <1>2
<1>6. StateOK'
  BY <1>4, <1>5 DEF LegacyInv, StateOK
<1>7. RowsBacked'
  BY <1>1, <1>2 DEF LegacyInv, RowsBacked
<1>8. (\A q \in Procs : ProcessOK(run[q], source, files))'
  BY <1>4
<1> QED BY <1>6, <1>7, <1>8 DEF LegacyInv

LEMMA StatementOK ==
    ASSUME LegacyInv, NEW p \in Procs, Statement(p)
    PROVE  LegacyInv'
<1> DEFINE d == db[Root(p)]
           c == Resolved(p)
<1>1. /\ run[p].status = "running" /\ Call(p).op \in Statements
      /\ UNCHANGED <<source, files, manifest, edits>>
  BY DEF Statement, At
<1>2. CASE Rejected(d, c)
  <2>1. Goes(p, Ends(run[p], "err")) /\ UNCHANGED db
    BY <1>2 DEF Statement
  <2> QED BY <1>1, <2>1, EndStepOK
<1>3. CASE ~Rejected(d, c)
  <2>1. db' = [db EXCEPT ![Root(p)] = Execute(d, c)] /\ Goes(p, Returns(run[p], <<>>))
    BY <1>3 DEF Statement
  <2>2. ForeignKeys(Execute(d, c))
    BY <1>3 DEF Rejected
  <2>3. d \in Databases
    BY <1>1, Current DEF LegacyInv, StateOK
  <2>4. /\ c.op \in Statements
        /\ c.op = "insert_blob" => c.hash \in Digest /\ files[<<Root(p), c.hash>>] # NoFile
        /\ c.op = "insert_blob_name" => c.hash \in Digest /\ c.name \in Names
        /\ c.op \in {"create_package", "delete_members", "delete_package"} => c.name \in Packages
        /\ c.op = "add_blob_to_package" => c.name \in Packages /\ c.hash \in Digest
        /\ c.op = "add_tag" => c.hash \in Ids /\ c.tag \in Tags
        /\ c.op = "set_metadata" => c.hash \in Ids /\ c.value \in Values
        /\ c.op = "add_relation" => c.hash \in Digest /\ c.target \in Digest
    BY <1>1, ResolvedShape
  <2> HIDE DEF c, d
  <2>5. /\ Execute(d, c) \in Databases
        /\ \A h \in Execute(d, c).rows : h \in d.rows \/ (c.op = "insert_blob" /\ h = c.hash)
    BY <2>3, <2>4, ExecuteType
  <2>6. \A h \in Execute(d, c).rows : h \in db[Root(p)].rows \/ files[<<Root(p), h>>] # NoFile
    BY <2>4, <2>5 DEF d
  <2>7. ProcessOK(Returns(run[p], <<>>), source, files)
    <3>1. \A i \in 1..Len(<<>>) : NeedsManifest(<<>>[i]) => run[p].manifest \in Manifests
      OBVIOUS
    <3>2. Op(run[p]) \notin {"store", "import_blob"}
      BY <1>1, Current DEF Statements
    <3>3. <<>> \in Lists(WorkCalls)
      BY NoCalls
    <3> QED BY <1>1, <3>1, <3>2, <3>3, Current, ReturnsOK
  <2> QED BY <1>1, <2>1, <2>2, <2>5, <2>6, <2>7, DbStepOK
<1> QED BY <1>2, <1>3

LEMMA RegisterOK ==
    ASSUME LegacyInv, NEW p \in Procs, Register(p)
    PROVE  LegacyInv'
<1> DEFINE d == db[Root(p)]
           e == InsertBlob(d, [hash |-> run[p].digest])
<1>1. /\ run[p].status = "running" /\ run[p].pc = "register" /\ At(p, "register", {"upload"})
      /\ UNCHANGED <<source, files, manifest, edits>>
      /\ Goes(p, [run[p] EXCEPT !.pc = "answer"])
  BY DEF Register, At
<1>2. db' = [db EXCEPT ![Root(p)] = e]
  BY DEF Register
<1>3. run[p].digest \in Digest /\ files[<<Root(p), run[p].digest>>] # NoFile
  BY <1>1, Current DEF Footing, HasFile
<1>4. d \in Databases /\ ForeignKeys(d)
  BY <1>1, Current DEF LegacyInv, StateOK
<1>5. e = [d EXCEPT !.rows = @ \cup {run[p].digest}]
  BY DEF InsertBlob
<1> HIDE DEF d, e
<1>6. /\ e \in Databases /\ e.rows = d.rows \cup {run[p].digest}
      /\ e.names = d.names /\ e.members = d.members /\ e.packages = d.packages
  BY <1>3, <1>4, <1>5 DEF Databases
<1>7. ForeignKeys(e)
  BY <1>4, <1>6 DEF ForeignKeys
<1>8. \A h \in e.rows : h \in db[Root(p)].rows \/ files[<<Root(p), h>>] # NoFile
  BY <1>3, <1>6 DEF d
<1>9. ProcessOK([run[p] EXCEPT !.pc = "answer"], source, files)
  BY <1>1, RegisteredOK
<1> QED BY <1>1, <1>2, <1>6, <1>7, <1>8, <1>9, DbStepOK

-----------------------------------------------------------------------------
(* The steps that change files.                                            *)

LEMMA FileStepOK ==
    ASSUME LegacyInv, NEW p \in Procs, NEW r, Goes(p, r), ProcessOK(r, source', files'),
           files' \in [Places \X Digest -> BlobFiles \cup {NoFile}],
           \A t \in Places \X Digest : files[t] # NoFile => files'[t] # NoFile,
           UNCHANGED <<source, db, manifest, edits>>
    PROVE  LegacyInv'
<1>1. /\ run' \in [Procs -> Process]
      /\ \A q \in Procs : ProcessOK(run'[q], source', files')
  BY GoesOK
<1>2. StateOK'
  BY <1>1 DEF LegacyInv, StateOK
<1>3. RowsBacked'
  <2>1. \A q \in Roots, h \in Digest : <<q, h>> \in Places \X Digest
    BY DEF Places
  <2>2. \A q \in Roots : db[q].rows \subseteq Digest
    BY DEF LegacyInv, StateOK, Databases
  <2> QED BY <2>1, <2>2 DEF LegacyInv, RowsBacked
<1>4. (\A q \in Procs : ProcessOK(run[q], source, files))'
  BY <1>1
<1> QED BY <1>2, <1>3, <1>4 DEF LegacyInv

LEMMA BlobIsFile ==
    /\ \A f \in BlobFiles : f # NoFile
    /\ \A d \in Digest : d \in Data /\ Len(d) = Size
    /\ <<>> \in Data
<1>1. Size \in Nat /\ NoFile \notin [data : Seq(Chunks), readonly : BOOLEAN]
  BY LegacyAssumption DEF Chunks
<1>2. \A d \in Digest : d \in Seq(Chunks) /\ Len(d) = Size
  BY <1>1 DEF Digest, Chunks
<1> QED BY <1>1, <1>2 DEF Data, BlobFiles

(* The file fs::copy reads, once it is there.                               *)
LEMMA FromTyped ==
    ASSUME LegacyInv, NEW p \in Procs, run[p].status = "running",
           run[p].pc \in {"open", "write"}, From(p) # NoFile
    PROVE  From(p).data \in Data /\ From(p).readonly \in BOOLEAN
<1>1. Op(run[p]) \in Copies /\ Call(p).op = Op(run[p])
  BY Current DEF Position
<1>2. CASE Call(p).op = "store"
  <2>1. Bytes(Call(p).input) \in Digest
    <3>1. Call(p).input \in Inputs /\ Call(p) = run[p].calls[1]
      BY <1>2, Current, CallShape
    <3>2. Bytes(Call(p).input) # Absent
      BY <1>1, <1>2, <3>1, Current DEF Footing, Bytes
    <3> QED BY <3>1, <3>2, InputBytes
  <2>2. From(p) = [data |-> Bytes(Call(p).input), readonly |-> FALSE]
    BY <1>2 DEF From
  <2> QED BY <2>1, <2>2, BlobIsFile
<1>3. CASE Call(p).op # "store"
  <2>1. Call(p).hash \in Digest /\ Root(p) \in Places /\ ExportDir \in Places
    BY <1>1, <1>3, Current, CallShape DEF Copies, Places
  <2>2. From(p) \in {files[<<ExportDir, Call(p).hash>>], files[<<Root(p), Call(p).hash>>]}
    BY <1>1, <1>3 DEF From, Copies
  <2>3. From(p) \in BlobFiles
    BY <2>1, <2>2 DEF LegacyInv, StateOK
  <2> QED BY <2>3 DEF BlobFiles
<1> QED BY <1>2, <1>3

LEMMA CopyTarget ==
    ASSUME LegacyInv, NEW p \in Procs, run[p].status = "running",
           Call(p).op \in {"store", "import_blob", "export_blob", "upload"}, run[p].pc # "call"
    PROVE  Target(p) \in Places \X Digest
<1>1. Op(run[p]) \in {"store", "upload"} => run[p].digest \in Digest
  BY Current DEF Position
<1> QED BY <1>1, Current, TargetTyped

LEMMA OpenCopyOK ==
    ASSUME LegacyInv, NEW p \in Procs, OpenCopy(p)
    PROVE  LegacyInv'
<1> DEFINE t == Target(p)
           r == run[p]
           f == [data |-> <<>>, readonly |-> From(p).readonly]
           s == [r EXCEPT !.pc = "write", !.linked = TRUE]
           refused == From(p) = NoFile \/ (files[t] # NoFile /\ files[t].readonly)
<1>1. /\ r.status = "running" /\ r.pc = "open" /\ Call(p).op \in Copies
      /\ UNCHANGED <<source, db, manifest, edits>>
  BY DEF OpenCopy, At, KeepsRest
<1>2. CASE refused
  <2>1. Goes(p, Ends(r, "err")) /\ UNCHANGED files
    BY <1>2 DEF OpenCopy
  <2> QED BY <1>1, <2>1, EndStepOK
<1>3. CASE ~refused
  <2>1. files' = [files EXCEPT ![t] = f] /\ Goes(p, s)
    BY <1>3 DEF OpenCopy
  <2>2. t \in Places \X Digest
    BY <1>1, CopyTarget DEF Copies
  <2>3. f \in BlobFiles /\ f # NoFile
    <3>1. From(p).readonly \in BOOLEAN
      BY <1>1, <1>3, FromTyped
    <3>2. f \in BlobFiles
      BY <3>1, BlobIsFile DEF BlobFiles
    <3> QED BY <3>2, BlobIsFile
  <2>4. files \in [Places \X Digest -> BlobFiles \cup {NoFile}]
    BY DEF LegacyInv, StateOK
  <2> HIDE DEF f
  <2>5. /\ files' \in [Places \X Digest -> BlobFiles \cup {NoFile}]
        /\ \A u \in Places \X Digest : files[u] # NoFile => files'[u] # NoFile
        /\ files'[t] # NoFile
    BY <2>1, <2>2, <2>3, <2>4
  <2>6. /\ r \in Process /\ Stage(r) /\ Position(r) /\ Footing(r, source, files)
        /\ Remaining(r, files) /\ Op(r) = Call(p).op /\ r.calls[1] = Call(p)
        /\ Root(p) = RootOf(r) /\ t = TargetOf(r)
    BY <1>1, Current
  <2>7. Remaining(r, files')
    BY <2>5, <2>6, RemainingKept
  <2>8. /\ s \in Process /\ s.script = r.script /\ s.next = r.next /\ s.status = r.status
        /\ s.calls = r.calls /\ s.pc = "write" /\ s.buf = r.buf /\ s.digest = r.digest
        /\ s.manifest = r.manifest
    BY <2>6 DEF Process
  <2> HIDE DEF s
  <2>9. Op(s) = Op(r) /\ RootOf(s) = RootOf(r) /\ TargetOf(s) = t
    BY <2>6, <2>8 DEF Op, RootOf, TargetOf
  <2>10. Stage(s) /\ Position(s)
    BY <1>1, <2>6, <2>8, <2>9 DEF Stage, Position
  <2>11. Footing(s, source', files')
    <3>1. /\ Op(r) = "import_blob" => files[<<ExportDir, Call(p).hash>>] # NoFile
          /\ Op(r) = "export_blob" => files[<<Root(p), Call(p).hash>>] # NoFile
      BY <1>3, <2>6 DEF From
    <3>2. Op(r) \in {"import_blob", "export_blob"} => Call(p).hash \in Digest
      BY <1>1, <2>6, Current, CallShape
    <3>3. Root(p) \in Places /\ ExportDir \in Places
      BY <1>1, Current DEF Places
    <3>4. /\ Op(r) = "import_blob" => files'[<<ExportDir, Call(p).hash>>] # NoFile
          /\ Op(r) = "export_blob" => files'[<<Root(p), Call(p).hash>>] # NoFile
      BY <2>5, <3>1, <3>2, <3>3
    <3> HIDE DEF r, t
    <3> QED BY <1>1, <2>5, <2>6, <2>8, <2>9, <3>4 DEF Footing
  <2>12. Remaining(s, files')
    BY <2>7, <2>8, <2>9 DEF Remaining, HasFile
  <2>13. ProcessOK(s, source', files')
    BY <2>8, <2>10, <2>11, <2>12 DEF ProcessOK
  <2> QED BY <1>1, <2>1, <2>5, <2>13, FileStepOK
<1> QED BY <1>2, <1>3

(* One chunk of a file is written, past the end with a hole before it.      *)
LEMMA OverwrittenData ==
    ASSUME NEW data \in Data, NEW k \in 1..Size, NEW chunk \in Chunks
    PROVE  LET new == Overwritten(data, k, chunk)
           IN  /\ new \in Data /\ Len(new) \in Nat /\ Len(data) \in Nat
               /\ Len(new) = (IF k > Len(data) THEN k ELSE Len(data))
               /\ new[k] = chunk
               /\ \A i \in 1..Len(data) : i # k => new[i] = data[i]
<1> DEFINE n == IF k > Len(data) THEN k ELSE Len(data)
           new == Overwritten(data, k, chunk)
<1>1. data \in Seq(Chunks) /\ Len(data) \in Nat /\ Len(data) <= Size /\ Size \in Nat
  BY LegacyAssumption DEF Data
<1>2. n \in Nat /\ n <= Size /\ k \in 1..n /\ \A i \in 1..Len(data) : i \in 1..n
  BY <1>1
<1>3. \A i \in 1..Len(data) : data[i] \in Chunks
  BY <1>1
<1>4. new = [i \in 1..n |-> IF i = k THEN chunk ELSE IF i <= Len(data) THEN data[i] ELSE Hole]
  BY DEF Overwritten
<1> HIDE DEF new, n
<1>5. new \in [1..n -> Chunks]
  <2>1. \A i \in 1..n : (IF i = k THEN chunk ELSE IF i <= Len(data) THEN data[i] ELSE Hole) \in Chunks
    BY <1>1, <1>2, <1>3 DEF Chunks
  <2> QED BY <1>4, <2>1
<1>6. new \in Seq(Chunks) /\ Len(new) = n
  BY <1>2, <1>5
<1>7. new[k] = chunk /\ \A i \in 1..Len(data) : i # k => new[i] = data[i]
  BY <1>1, <1>2, <1>4
<1>8. new \in Data
  BY <1>2, <1>6 DEF Data
<1> QED BY <1>1, <1>2, <1>6, <1>7, <1>8 DEF n, new

(* What a copy in progress reads and writes.                                *)
LEMMA CopyInProgress ==
    ASSUME LegacyInv, NEW p \in Procs, At(p, "write", Copies)
    PROVE  /\ run[p].status = "running" /\ run[p].pc = "write" /\ Op(run[p]) \in Copies
           /\ From(p) # NoFile /\ From(p).data \in Data /\ From(p).readonly \in BOOLEAN
           /\ Target(p) \in Places \X Digest
           /\ files[Target(p)] \in BlobFiles /\ files[Target(p)] # NoFile
           /\ run[p].buf \in Data /\ Len(run[p].buf) \in Nat
<1>1. /\ run[p].status = "running" /\ run[p].pc = "write" /\ Call(p).op \in Copies
  BY DEF At
<1>2. /\ Call(p).op = Op(run[p]) /\ Call(p) = run[p].calls[1] /\ Root(p) = RootOf(run[p])
      /\ Footing(run[p], source, files) /\ Target(p) = TargetOf(run[p]) /\ run[p] \in Process
      /\ Call(p) \in AllCalls
  BY <1>1, Current
<1>3. Target(p) \in Places \X Digest
  BY <1>1, CopyTarget DEF Copies
<1>4. files[Target(p)] # NoFile
  BY <1>1, <1>2 DEF Footing
<1>5. files[Target(p)] \in BlobFiles
  BY <1>3, <1>4 DEF LegacyInv, StateOK
<1>6. From(p) # NoFile
  <2>1. CASE Call(p).op = "store"
    <3>1. Bytes(Call(p).input) \in Digest
      <4>1. Call(p).input \in Inputs
        BY <1>2, <2>1, CallShape
      <4>2. Bytes(Call(p).input) # Absent
        BY <1>1, <1>2, <2>1, <4>1 DEF Footing, Bytes
      <4> QED BY <4>1, <4>2, InputBytes
    <3>2. From(p) = [data |-> Bytes(Call(p).input), readonly |-> FALSE]
      BY <2>1 DEF From
    <3>3. From(p) \in BlobFiles
      BY <3>1, <3>2, BlobIsFile DEF BlobFiles
    <3> QED BY <3>3, BlobIsFile
  <2>2. CASE Call(p).op # "store"
    BY <1>1, <1>2, <2>2 DEF From, Footing, Copies
  <2> QED BY <2>1, <2>2
<1>7. From(p).data \in Data /\ From(p).readonly \in BOOLEAN
  BY <1>1, <1>6, FromTyped
<1>8. run[p].buf \in Data
  BY <1>2 DEF Process
<1>9. Len(run[p].buf) \in Nat
  BY <1>8 DEF Data
<1> QED BY <1>1, <1>2, <1>3, <1>4, <1>5, <1>6, <1>7, <1>8, <1>9

LEMMA CopyChunkOK ==
    ASSUME LegacyInv, NEW p \in Procs, CopyChunk(p)
    PROVE  LegacyInv'
<1> DEFINE r == run[p]
           k == Len(r.buf) + 1
           t == Target(p)
           chunk == From(p).data[k]
           f == [files[t] EXCEPT !.data = Overwritten(files[t].data, k, chunk)]
           s == [r EXCEPT !.buf = Append(@, chunk)]
<1>1. /\ At(p, "write", Copies) /\ k <= Len(From(p).data)
      /\ files' = IF r.linked
                  THEN [files EXCEPT ![t].data = Overwritten(@, k, chunk)] ELSE files
      /\ Goes(p, s)
      /\ UNCHANGED <<source, db, manifest, edits>>
  BY DEF CopyChunk, KeepsRest
<1>2. /\ r.status = "running" /\ r.pc = "write" /\ Op(r) \in Copies
      /\ From(p).data \in Data
      /\ t \in Places \X Digest /\ files[t] \in BlobFiles /\ files[t] # NoFile
      /\ r.buf \in Data /\ Len(r.buf) \in Nat
  BY <1>1, CopyInProgress
<1>3. files \in [Places \X Digest -> BlobFiles \cup {NoFile}]
  BY DEF LegacyInv, StateOK
<1>4. k \in 1..Size /\ chunk \in Chunks
  <2>1. From(p).data \in Seq(Chunks) /\ Len(From(p).data) <= Size /\ Size \in Nat
    BY <1>2, LegacyAssumption DEF Data
  <2>2. k \in 1..Len(From(p).data)
    BY <1>1, <1>2, <2>1
  <2> QED BY <2>1, <2>2
<1>5. /\ r \in Process /\ Stage(r) /\ Position(r) /\ Footing(r, source, files)
      /\ Remaining(r, files)
  BY <1>2, Current
<1>6. s \in Process /\ s.script = r.script /\ s.next = r.next /\ s.status = r.status
      /\ s.calls = r.calls /\ s.pc = r.pc /\ s.digest = r.digest /\ s.manifest = r.manifest
  <2> HIDE DEF chunk
  <2>1. Append(r.buf, chunk) \in Data
    BY <1>2, <1>4, LegacyAssumption DEF Data
  <2> QED BY <1>5, <2>1 DEF Process
<1> HIDE DEF chunk, k, t, f, s
<1>7. f \in BlobFiles /\ f # NoFile
  <2>1. files[t].data \in Data
    BY <1>2 DEF BlobFiles
  <2>2. Overwritten(files[t].data, k, chunk) \in Data
    BY <1>4, <2>1, OverwrittenData
  <2>3. f \in BlobFiles
    BY <1>2, <2>2 DEF BlobFiles, f
  <2> QED BY <2>3, BlobIsFile
<1>8. files' = IF r.linked THEN [files EXCEPT ![t] = f] ELSE files
  BY <1>1 DEF f
<1>9. /\ files' \in [Places \X Digest -> BlobFiles \cup {NoFile}]
      /\ \A u \in Places \X Digest : files[u] # NoFile => files'[u] # NoFile
  BY <1>2, <1>3, <1>7, <1>8
<1>10. ProcessOK(s, source, files')
  <2>1. Op(s) = Op(r) /\ RootOf(s) = RootOf(r) /\ TargetOf(s) = TargetOf(r)
    BY <1>6 DEF Op, RootOf, TargetOf
  <2>2. Stage(s)
    BY <1>2, <1>5, <1>6 DEF Stage
  <2>3. Position(s)
    BY <1>2, <1>5, <1>6, <2>1 DEF Position
  <2>4. Footing(s, source, files) /\ Remaining(s, files)
    BY <1>5, <1>6, <2>1 DEF Footing, Remaining, HasFile
  <2>5. ProcessOK(s, source, files)
    BY <1>6, <2>2, <2>3, <2>4 DEF ProcessOK
  <2> QED BY <1>6, <1>9, <2>5, ProcessKept
<1>11. ProcessOK(s, source', files')
  BY <1>1, <1>10
<1> QED BY <1>1, <1>9, <1>11, FileStepOK

LEMMA SealOK ==
    ASSUME LegacyInv, NEW p \in Procs, Seal(p)
    PROVE  LegacyInv'
<1> DEFINE r == run[p]
           t == Target(p)
           f == [files[t] EXCEPT !.readonly = TRUE]
           s == [r EXCEPT !.pc = "register"]
<1>1. /\ r.status = "running" /\ r.pc = "seal" /\ Call(p).op \in {"store", "import_blob", "upload"}
      /\ files' = [files EXCEPT ![t] = f]
      /\ UNCHANGED <<source, db, manifest, edits>>
  BY DEF Seal, At, KeepsRest
<1>2. /\ r \in Process /\ Stage(r) /\ Position(r) /\ Footing(r, source, files)
      /\ Remaining(r, files) /\ Op(r) = Call(p).op /\ t = TargetOf(r) /\ r.calls[1] = Call(p)
  BY <1>1, Current
<1>3. t \in Places \X Digest
  BY <1>1, CopyTarget
<1>4. files \in [Places \X Digest -> BlobFiles \cup {NoFile}]
  BY DEF LegacyInv, StateOK
<1>5. files[t] # NoFile
  BY <1>1, <1>2 DEF Footing
<1>6. f \in BlobFiles /\ f # NoFile
  <2>1. files[t] \in BlobFiles
    BY <1>3, <1>4, <1>5
  <2>2. f \in BlobFiles
    BY <2>1 DEF BlobFiles
  <2> QED BY <2>2, BlobIsFile
<1> HIDE DEF f
<1>7. /\ files' \in [Places \X Digest -> BlobFiles \cup {NoFile}]
      /\ \A u \in Places \X Digest : files[u] # NoFile => files'[u] # NoFile
      /\ files'[t] # NoFile
  BY <1>1, <1>3, <1>4, <1>6
<1>8. Remaining(r, files')
  BY <1>2, <1>7, RemainingKept
<1>9. r.digest \in Digest \/ Op(r) = "import_blob"
  BY <1>1, <1>2 DEF Position
<1>10. /\ Op(r) \in {"store", "upload"} => HasFile(r, files')
       /\ Op(r) = "import_blob" => files'[<<RootOf(r), r.calls[1].hash>>] # NoFile
  BY <1>2, <1>7, <1>9 DEF HasFile, TargetOf
<1>11. CASE Op(r) = "upload"
  <2>1. Goes(p, s)
    BY <1>2, <1>11 DEF Seal
  <2>2. /\ s.status = r.status /\ s.pc = "register" /\ s.digest = r.digest
        /\ Op(s) = Op(r) /\ RootOf(s) = RootOf(r)
    BY <1>2, MovedFields
  <2>3. Position(s) /\ Footing(s, source', files')
    <3> HIDE DEF s
    <3> QED BY <1>1, <1>9, <1>10, <1>11, <2>2 DEF Position, Footing, HasFile
  <2>4. ProcessOK(s, source', files')
    BY <1>1, <1>2, <1>8, <2>3, MovesOK
  <2> HIDE DEF s
  <2> QED BY <1>1, <1>7, <2>1, <2>4, FileStepOK
<1>12. CASE Op(r) # "upload"
  <2>1. Goes(p, Returns(r, <<>>))
    BY <1>2, <1>12 DEF Seal
  <2>2. \A i \in 1..Len(<<>>) : NeedsManifest(<<>>[i]) => r.manifest \in Manifests
    OBVIOUS
  <2>3. <<>> \in Lists(WorkCalls)
    BY NoCalls
  <2>4. ProcessOK(Returns(r, <<>>), source', files')
    <3> HIDE DEF r
    <3> QED BY <1>1, <1>2, <1>8, <1>10, <2>2, <2>3, ReturnsOK DEF r
  <2> QED BY <1>1, <1>7, <2>1, <2>4, FileStepOK
<1> QED BY <1>11, <1>12

(* A process keeps its place, whatever becomes of linked and alone.         *)
LEMMA PlaceKept ==
    ASSUME LegacyInv, NEW q \in Procs, NEW linked \in BOOLEAN, NEW alone \in BOOLEAN,
           \A f \in Sources : source[f] # Absent => source'[f] # Absent,
           \A t \in Places \X Digest : files[t] # NoFile => files'[t] # NoFile
    PROVE  ProcessOK([run[q] EXCEPT !.linked = linked, !.alone = alone], source', files')
<1> DEFINE s == [run[q] EXCEPT !.linked = linked, !.alone = alone]
<1>1. ProcessOK(run[q], source, files) /\ run[q] \in Process
  BY DEF LegacyInv, ProcessOK
<1>2. /\ s \in Process
      /\ s.script = run[q].script /\ s.next = run[q].next /\ s.status = run[q].status
      /\ s.calls = run[q].calls /\ s.pc = run[q].pc /\ s.buf = run[q].buf
      /\ s.digest = run[q].digest /\ s.manifest = run[q].manifest
  BY <1>1 DEF Process
<1> HIDE DEF s
<1>3. ProcessOK(s, source', files')
  BY <1>1, <1>2, ProcessKept, SMTT(60)
<1> QED BY <1>3 DEF s

LEMMA PersistOK ==
    ASSUME LegacyInv, NEW p \in Procs, Persist(p)
    PROVE  LegacyInv'
<1> DEFINE r == run[p]
           t == Target(p)
           f == Temporary(p)
           s == [r EXCEPT !.pc = "seal"]
<1>1. /\ r.status = "running" /\ r.pc = "persist" /\ Call(p).op = "upload"
      /\ files' = [files EXCEPT ![t] = f]
      /\ UNCHANGED <<source, db, manifest, edits>>
  BY DEF Persist, At, KeepsRest
<1>2. /\ r \in Process /\ Stage(r) /\ Position(r) /\ Footing(r, source, files)
      /\ Remaining(r, files) /\ Op(r) = Call(p).op /\ t = TargetOf(r)
  BY <1>1, Current
<1>3. t \in Places \X Digest
  BY <1>1, CopyTarget
<1>4. files \in [Places \X Digest -> BlobFiles \cup {NoFile}]
  BY DEF LegacyInv, StateOK
<1>5. f \in BlobFiles /\ f # NoFile
  <2>1. r.buf \in Digest
    BY <1>1, <1>2 DEF Position
  <2>2. f \in BlobFiles
    BY <2>1, BlobIsFile DEF Temporary, BlobFiles
  <2> QED BY <2>2, BlobIsFile
<1> HIDE DEF f
<1>6. /\ files' \in [Places \X Digest -> BlobFiles \cup {NoFile}]
      /\ \A u \in Places \X Digest : files[u] # NoFile => files'[u] # NoFile
      /\ files'[t] # NoFile
  BY <1>1, <1>3, <1>4, <1>5
<1>7. run' = [q \in Procs |->
                 IF q = p THEN s
                 ELSE [run[q] EXCEPT !.linked = @ /\ ~Writing(q, t),
                                     !.alone = @ /\ run[q].status # "running"]]
  BY DEF Persist
<1>8. ProcessOK(s, source', files')
  <2>1. Remaining(r, files')
    BY <1>2, <1>6, RemainingKept
  <2>2. /\ s.status = r.status /\ s.pc = "seal" /\ s.digest = r.digest
        /\ Op(s) = Op(r) /\ TargetOf(s) = TargetOf(r)
    BY <1>2, MovedFields
  <2>3. Position(s) /\ Footing(s, source', files')
    <3> HIDE DEF s
    <3> QED BY <1>1, <1>2, <1>6, <2>2 DEF Position, Footing
  <2> QED BY <1>1, <1>2, <2>1, <2>3, MovesOK
<1> HIDE DEF s
<1>9. \A q \in Procs \ {p} : ProcessOK(run'[q], source', files')
  <2>1. ASSUME NEW q \in Procs \ {p} PROVE ProcessOK(run'[q], source', files')
    <3> DEFINE linked == run[q].linked /\ ~Writing(q, t)
               alone == run[q].alone /\ run[q].status # "running"
    <3>1. linked \in BOOLEAN /\ alone \in BOOLEAN
      OBVIOUS
    <3>2. run'[q] = [run[q] EXCEPT !.linked = linked, !.alone = alone]
      <4>1. run'[q] = [run[q] EXCEPT !.linked = @ /\ ~Writing(q, t),
                                     !.alone = @ /\ run[q].status # "running"]
        BY <1>7
      <4>2. run[q] \in Process
        BY DEF LegacyInv, StateOK
      <4> QED BY <4>1, <4>2 DEF Process
    <3> HIDE DEF linked, alone
    <3>3. ProcessOK([run[q] EXCEPT !.linked = linked, !.alone = alone], source', files')
      BY <1>1, <1>6, <3>1, PlaceKept
    <3> QED BY <3>2, <3>3
  <2> QED BY <2>1
<1>10. \A q \in Procs : ProcessOK(run'[q], source', files')
  BY <1>7, <1>8, <1>9
<1>11. run' \in [Procs -> Process]
  <2>1. run' = [q \in Procs |-> run'[q]]
    BY <1>7
  <2>2. \A q \in Procs : run'[q] \in Process
    BY <1>10 DEF ProcessOK
  <2> QED BY <2>1, <2>2
<1>12. StateOK'
  BY <1>1, <1>6, <1>11 DEF LegacyInv, StateOK
<1>13. RowsBacked'
  <2>1. \A q \in Roots, h \in Digest : <<q, h>> \in Places \X Digest
    BY DEF Places
  <2>2. \A q \in Roots : db[q].rows \subseteq Digest
    BY DEF LegacyInv, StateOK, Databases
  <2> QED BY <1>1, <1>6, <2>1, <2>2 DEF LegacyInv, RowsBacked
<1>14. (\A q \in Procs : ProcessOK(run[q], source, files))'
  BY <1>10
<1> QED BY <1>12, <1>13, <1>14 DEF LegacyInv

LEMMA EditOK ==
    ASSUME LegacyInv, NEW f \in Sources, NEW k \in 1..Size, NEW chunk \in Atoms, Edit(f, k, chunk)
    PROVE  LegacyInv'
<1>1. /\ source[f] # Absent /\ source' = [source EXCEPT ![f][k] = chunk]
      /\ edits' = edits + 1
      /\ run' = [q \in Procs |-> [run[q] EXCEPT !.alone = @ /\ run[q].status # "running"]]
      /\ UNCHANGED <<files, db, manifest>>
  BY DEF Edit
<1>2. source \in [Sources -> Digest \cup {Absent}] /\ edits \in Nat
  BY DEF LegacyInv, StateOK
<1>3. [source[f] EXCEPT ![k] = chunk] \in Digest
  <2>1. source[f] \in Digest
    BY <1>1, <1>2
  <2> QED BY <2>1 DEF Digest
<1>4. /\ source' \in [Sources -> Digest \cup {Absent}]
      /\ \A g \in Sources : source[g] # Absent => source'[g] # Absent
  <2>1. source' = [source EXCEPT ![f] = [source[f] EXCEPT ![k] = chunk]]
    BY <1>1
  <2>2. Absent \notin Digest
    BY LegacyAssumption
  <2> QED BY <1>2, <1>3, <2>1, <2>2
<1>5. \A q \in Procs : ProcessOK(run'[q], source', files')
  <2>1. ASSUME NEW q \in Procs PROVE ProcessOK(run'[q], source', files')
    <3> DEFINE alone == run[q].alone /\ run[q].status # "running"
    <3>1. run[q] \in Process /\ run[q].linked \in BOOLEAN /\ alone \in BOOLEAN
      BY DEF LegacyInv, StateOK, Process
    <3>2. run'[q] = [run[q] EXCEPT !.linked = run[q].linked, !.alone = alone]
      BY <1>1, <3>1 DEF Process
    <3> DEFINE linked == run[q].linked
    <3> HIDE DEF alone, linked
    <3>3. linked \in BOOLEAN /\ run'[q] = [run[q] EXCEPT !.linked = linked, !.alone = alone]
      BY <3>1, <3>2 DEF linked
    <3>4. ProcessOK([run[q] EXCEPT !.linked = linked, !.alone = alone], source', files')
      BY <1>1, <1>4, <3>1, <3>3, PlaceKept
    <3> QED BY <3>3, <3>4
  <2> QED BY <2>1
<1>6. run' \in [Procs -> Process]
  <2>1. run' = [q \in Procs |-> run'[q]]
    BY <1>1
  <2>2. \A q \in Procs : run'[q] \in Process
    BY <1>5 DEF ProcessOK
  <2> QED BY <2>1, <2>2
<1>7. StateOK'
  BY <1>1, <1>2, <1>4, <1>6 DEF LegacyInv, StateOK
<1>8. RowsBacked'
  BY <1>1 DEF LegacyInv, RowsBacked
<1>9. (\A q \in Procs : ProcessOK(run[q], source, files))'
  BY <1>5
<1> QED BY <1>7, <1>8, <1>9 DEF LegacyInv

-----------------------------------------------------------------------------
(* The invariant holds of every behaviour.                                 *)

LEMMA LegacyInvInit == LegacyInit => LegacyInv
<1> SUFFICES ASSUME LegacyInit PROVE LegacyInv
  OBVIOUS
<1>1. PICK s \in Scenarios :
        /\ source = s.source /\ files = s.files /\ db = s.db
        /\ manifest = s.manifest
        /\ run = [p \in Procs |-> Idle(s.scripts[p])]
        /\ edits = 0
  BY DEF LegacyInit
<1>2. /\ s.scripts \in [Procs -> Seq(Commands)]
      /\ s.source \in [Sources -> Digest \cup {Absent}]
      /\ s.db \in [Roots -> Databases]
      /\ s.manifest \in Manifests \cup {NoManifest}
      /\ s.files = [t \in Places \X Digest |-> s.files[t]]
      /\ \A t \in Places \X Digest :
           s.files[t] \in {NoFile} \cup [data : {t[2]}, readonly : BOOLEAN]
      /\ \A r \in Roots : /\ ForeignKeys(s.db[r])
                          /\ \A h \in s.db[r].rows : s.files[<<r, h>>] # NoFile
  BY ScenarioAssumption
<1>3. files \in [Places \X Digest -> BlobFiles \cup {NoFile}]
  <2>1. \A t \in Places \X Digest : [data : {t[2]}, readonly : BOOLEAN] \subseteq BlobFiles
    BY BlobIsFile DEF BlobFiles
  <2>2. \A t \in Places \X Digest : s.files[t] \in BlobFiles \cup {NoFile}
    BY <1>2, <2>1
  <2> QED BY <1>1, <1>2, <2>2
<1>4. ASSUME NEW script \in Seq(Commands) PROVE ProcessOK(Idle(script), source, files)
  <2> DEFINE r == Idle(script)
  <2>1. EmptyDb.metadata \in Metadata
    BY DEF EmptyDb, Metadata
  <2>2. r \in Process
    <3>1. <<>> \in Seq(AllCalls) /\ <<>> \in Data
      BY BlobIsFile
    <3> QED BY <2>1, <3>1 DEF Idle, Process, Statuses
  <2>3. /\ r.status = "new" /\ r.next = 1 /\ r.calls = <<>> /\ r.pc = "call" /\ r.buf = <<>>
    BY DEF Idle
  <2> HIDE DEF r
  <2>4. Stage(r) /\ Position(r) /\ Footing(r, source, files)
    BY <2>3 DEF Stage, Position, Footing
  <2>5. Remaining(r, files)
    BY <2>3 DEF Remaining
  <2> QED BY <2>2, <2>4, <2>5 DEF ProcessOK, r
<1>5. \A p \in Procs : ProcessOK(run[p], source, files)
  BY <1>1, <1>2, <1>4
<1>6. run \in [Procs -> Process]
  <2>1. \A p \in Procs : run[p] \in Process
    BY <1>5 DEF ProcessOK
  <2> QED BY <1>1, <2>1
<1>7. StateOK
  BY <1>1, <1>2, <1>3, <1>6 DEF StateOK
<1>8. RowsBacked
  BY <1>1, <1>2 DEF RowsBacked
<1> QED BY <1>5, <1>7, <1>8 DEF LegacyInv

LEMMA LegacyInvStep == LegacyInv /\ [LegacyNext]_vars => LegacyInv'
<1> SUFFICES ASSUME LegacyInv, [LegacyNext]_vars PROVE LegacyInv'
  OBVIOUS
<1>1. ASSUME NEW p \in Procs, Start(p) PROVE LegacyInv'
  BY <1>1, StartOK
<1>2. ASSUME NEW p \in Procs, Statement(p) PROVE LegacyInv'
  BY <1>2, StatementOK
<1>3. ASSUME NEW p \in Procs, StoreStep(p) PROVE LegacyInv'
  BY <1>3, HashFileOK, StoreBlobOK, VerifyPathOK, FetchOK, OpenCopyOK, CopyChunkOK,
     EndCopyOK, SealOK DEF StoreStep
<1>4. ASSUME NEW p \in Procs, TransferStep(p) PROVE LegacyInv'
  BY <1>4, ExportPackageOK, CopyBlobToOK, CollectOK, WriteExportMetadataOK, ImportBlobsOK,
     ImportBlobOK, ImportManifestOK, MergeOK DEF TransferStep
<1>5. ASSUME NEW p \in Procs, AgentStep(p) PROVE LegacyInv'
  BY <1>5, ReadUploadOK, StoreBlobWithProgressOK, PersistOK, AnsweredOK, RegisterOK,
     AgentLineOK DEF AgentStep
<1>6. ASSUME NEW p \in Procs, Crash(p) \/ CallFails(p) \/ UploadCallFails(p) PROVE LegacyInv'
  BY <1>6, CrashOK, UploadCallFailsOK
<1>7. ASSUME NEW f \in Sources, NEW k \in 1..Size, NEW chunk \in Atoms, Edit(f, k, chunk)
      PROVE  LegacyInv'
  BY <1>7, EditOK
<1>8. CASE UNCHANGED vars
  <2>1. UNCHANGED <<source, files, db, manifest, run, edits>>
    BY <1>8 DEF vars
  <2> QED BY <2>1 DEF LegacyInv, StateOK, RowsBacked
<1> QED BY <1>1, <1>2, <1>3, <1>4, <1>5, <1>6, <1>7, <1>8 DEF LegacyNext, Step

(* At every point of every interleaving, failures and crashes included, a   *)
(* process is somewhere inside one of its commands, and what the calls it   *)
(* has left rely on is there: the digest it hashed, the file it stored.     *)
THEOREM LegacyInvariant == LegacySpec => []LegacyInv
BY LegacyInvInit, LegacyInvStep, PTL DEF LegacySpec

(* Every state the store goes through is well-formed: the tables keep their *)
(* references, each file is a sequence of at most Size chunks, and a        *)
(* process has calls left exactly while its command runs.                   *)
THEOREM LegacyTypeCorrect == LegacySpec => []LegacyTypeOK
<1>1. LegacyInv => LegacyTypeOK
  <2> SUFFICES ASSUME LegacyInv PROVE LegacyTypeOK
    OBVIOUS
  <2>1. ASSUME NEW t \in Places \X Digest, files[t] # NoFile
        PROVE  /\ files[t].data \in Seq(Atoms \cup {Hole})
               /\ Len(files[t].data) <= Size /\ files[t].readonly \in BOOLEAN
    <3>1. files[t] \in BlobFiles
      BY <2>1 DEF LegacyInv, StateOK
    <3> QED BY <3>1 DEF BlobFiles, Data, Chunks
  <2>2. ASSUME NEW p \in Procs
        PROVE  /\ run[p].status \in {"new", "running", "ok", "err", "fault", "crashed"}
               /\ (run[p].status = "running") <=> (run[p].calls # <<>>)
               /\ Len(run[p].buf) <= Size
    BY DEF LegacyInv, ProcessOK, Process, Statuses, Stage, Data
  <2> QED BY <2>1, <2>2 DEF LegacyInv, StateOK, LegacyTypeOK
<1> QED BY <1>1, LegacyInvariant, PTL

(* A digest the database knows has a file, whichever processes add, import  *)
(* and upload at once and wherever they die: every call that inserts a row  *)
(* comes after the call that puts its file there, and no call deletes one.  *)
THEOREM RowsAlwaysBacked == LegacySpec => []RowsBackedByFiles
<1>1. LegacyInv => RowsBackedByFiles
  BY DEF LegacyInv, RowsBacked, RowsBackedByFiles, Exists
<1> QED BY <1>1, LegacyInvariant, PTL

-----------------------------------------------------------------------------
(* What fs::copy can do to the files of the store.                         *)

(* A process record that has a copy open, reads x, and writes to the name t. *)
Opened(r) == r.status = "running" /\ r.pc = "write"
Copying(r, t) == Opened(r) /\ r.linked /\ TargetOf(r) = t

ReadData(r, src, fs) ==
    CASE Op(r) = "store" ->
            (IF r.calls[1].input \in Sources THEN src[r.calls[1].input] ELSE r.calls[1].input)
      [] Op(r) = "import_blob" -> fs[<<ExportDir, r.calls[1].hash>>].data
      [] Op(r) = "export_blob" -> fs[<<RootOf(r), r.calls[1].hash>>].data

(* Chunk i of a file that is to have the bytes d is right.                  *)
Filled(data, d, i) == i <= Len(data) /\ data[i] = d[i]

(* Only a copy leaves a file that does not have the bytes of its digest.    *)
CopiedOnly ==
    /\ \A p \in Procs : Opened(run[p]) => TargetOf(run[p]) \in copied
    /\ \A t \in Places \X Digest :
         t \notin copied /\ files[t] # NoFile => files[t].data = t[2]

(* A copy to a file nobody has reason to doubt reads the bytes of the      *)
(* digest, and every chunk that is not right is still to be written.        *)
SoundCopies ==
    \A t \in Places \X Digest :
        t \notin doubtful =>
            /\ \A p \in Procs :
                 Copying(run[p], t) => ReadData(run[p], source, files) = t[2]
            /\ files[t] # NoFile =>
                 \A i \in 1..Size :
                    \/ Filled(files[t].data, t[2], i)
                    \/ \E p \in Procs : Copying(run[p], t) /\ Len(run[p].buf) < i

CopyInv == CopiedOnly /\ SoundCopies

-----------------------------------------------------------------------------
(* The step of one process, as the others see it.                          *)

Undisturbed(r, s) ==
    /\ s.script = r.script /\ s.next = r.next /\ s.status = r.status /\ s.calls = r.calls
    /\ s.pc = r.pc /\ s.buf = r.buf /\ s.digest = r.digest /\ s.linked = r.linked

LEMMA UndisturbedCopy ==
    ASSUME NEW r, NEW s, Undisturbed(r, s)
    PROVE  /\ Opened(s) = Opened(r) /\ TargetOf(s) = TargetOf(r)
           /\ Op(s) = Op(r) /\ RootOf(s) = RootOf(r)
           /\ \A t : Copying(s, t) = Copying(r, t)
           /\ \A src, fs : ReadData(s, src, fs) = ReadData(r, src, fs)
<1>1. Op(s) = Op(r) /\ RootOf(s) = RootOf(r) /\ s.calls = r.calls
  BY DEF Undisturbed, Op, RootOf
<1>2. TargetOf(s) = TargetOf(r) /\ Opened(s) = Opened(r) /\ s.linked = r.linked
  BY <1>1 DEF Undisturbed, TargetOf, Opened
<1> QED BY <1>1, <1>2 DEF Copying, ReadData

LEMMA CopyFrame ==
    ASSUME LegacyInv, NEW p \in Procs, NEW r, Goes(p, r)
    PROVE  run'[p] = r /\ \A q \in Procs \ {p} : Undisturbed(run[q], run'[q])
<1>1. run' = [q \in Procs |-> IF q = p THEN r
                 ELSE [run[q] EXCEPT !.alone = @ /\ run[q].status # "running"]]
  BY DEF Goes
<1>2. ASSUME NEW q \in Procs \ {p} PROVE Undisturbed(run[q], run'[q])
  <2>1. run[q] \in Process
    BY DEF LegacyInv, StateOK
  <2>2. run'[q] = [run[q] EXCEPT !.alone = @ /\ run[q].status # "running"]
    BY <1>1
  <2> QED BY <2>1, <2>2 DEF Process, Undisturbed
<1> QED BY <1>1, <1>2

(* A process opens no copy, and one it had open is finished or doubtful.    *)
LEMMA NoOpening ==
    ASSUME LegacyInv, CopyInv, NEW p \in Procs, ~Opened(run'[p]),
           \A q \in Procs \ {p} : Undisturbed(run[q], run'[q]),
           \A t \in Places \X Digest :
              Copying(run[p], t) => t \in doubtful' \/ Len(run[p].buf) >= Size,
           source' = source, copied' = copied, doubtful \subseteq doubtful',
           \A t \in Places \X Digest :
              /\ files[t] = NoFile <=> files'[t] = NoFile
              /\ files[t].data = files'[t].data
    PROVE  CopyInv'
<1>1. ASSUME NEW q \in Procs, q # p
      PROVE  /\ Opened(run'[q]) = Opened(run[q]) /\ TargetOf(run'[q]) = TargetOf(run[q])
             /\ \A t : Copying(run'[q], t) = Copying(run[q], t)
             /\ run'[q].buf = run[q].buf
             /\ \A src, fs : ReadData(run'[q], src, fs) = ReadData(run[q], src, fs)
  <2>1. Undisturbed(run[q], run'[q])
    BY <1>1
  <2> QED BY <2>1, UndisturbedCopy DEF Undisturbed
<1>2. \A t : ~Copying(run'[p], t)
  BY DEF Copying
<1>3. CopiedOnly'
  BY <1>1 DEF CopyInv, CopiedOnly
<1>4. ASSUME NEW t \in Places \X Digest, t \notin doubtful'
      PROVE  /\ \A q \in Procs : Copying(run'[q], t) => ReadData(run'[q], source', files') = t[2]
             /\ files'[t] # NoFile =>
                  \A i \in 1..Size :
                     \/ Filled(files'[t].data, t[2], i)
                     \/ \E q \in Procs : Copying(run'[q], t) /\ Len(run'[q].buf) < i
  <2>1. t \notin doubtful
    BY <1>4
  <2>2. ASSUME NEW q \in Procs, Copying(run'[q], t)
        PROVE  ReadData(run'[q], source', files') = t[2]
    <3>1. q # p /\ Copying(run[q], t)
      BY <1>1, <1>2, <2>2
    <3>2. ReadData(run[q], source, files) = t[2]
      BY <2>1, <3>1 DEF CopyInv, SoundCopies
    <3>3. run[q].status = "running" /\ run[q].pc = "write"
      BY <3>1 DEF Copying, Opened
    <3>4. ReadData(run[q], source, files') = ReadData(run[q], source, files)
      <4>1. Op(run[q]) \in {"import_blob", "export_blob"} => run[q].calls[1].hash \in Digest
        BY <3>3, Current, CallShape
      <4>2. RootOf(run[q]) \in Places /\ ExportDir \in Places
        BY <3>3, Current DEF Places
      <4> QED BY <4>1, <4>2 DEF ReadData
    <3> QED BY <1>1, <3>1, <3>2, <3>4
  <2>3. ASSUME files'[t] # NoFile, NEW i \in 1..Size
        PROVE  \/ Filled(files'[t].data, t[2], i)
               \/ \E q \in Procs : Copying(run'[q], t) /\ Len(run'[q].buf) < i
    <3>1. CASE Filled(files[t].data, t[2], i)
      BY <3>1 DEF Filled
    <3>2. CASE ~Filled(files[t].data, t[2], i)
      <4>1. files[t] # NoFile
        BY <2>3
      <4>2. PICK q \in Procs : Copying(run[q], t) /\ Len(run[q].buf) < i
        BY <2>1, <3>2, <4>1 DEF CopyInv, SoundCopies
      <4>3. q # p
        <5>1. ASSUME q = p PROVE FALSE
          <6>1. Len(run[p].buf) >= Size
            BY <1>4, <4>2, <5>1
          <6>2. run[p].buf \in Data
            BY DEF LegacyInv, StateOK, Process
          <6>3. Len(run[p].buf) \in Nat /\ Size \in Nat
            BY <6>2, LegacyAssumption DEF Data
          <6> QED BY <4>2, <5>1, <6>1, <6>3
        <5> QED BY <5>1
      <4> QED BY <1>1, <4>2, <4>3
    <3> QED BY <3>1, <3>2
  <2> QED BY <2>2, <2>3
<1>5. SoundCopies'
  BY <1>4 DEF SoundCopies
<1> QED BY <1>3, <1>5 DEF CopyInv

(* A step of a process that has no copy open, nor opens one.                *)
LEMMA PlainStep ==
    ASSUME LegacyInv, CopyInv, NEW p \in Procs, run[p].pc # "write",
           NEW r, r.pc # "write", Goes(p, r), UNCHANGED <<source, files, copied, doubtful>>
    PROVE  CopyInv'
<1>1. run'[p] = r /\ \A q \in Procs \ {p} : Undisturbed(run[q], run'[q])
  BY CopyFrame
<1>2. ~Opened(run'[p]) /\ \A t : ~Copying(run[p], t)
  BY <1>1 DEF Opened, Copying
<1> QED BY <1>1, <1>2, NoOpening

-----------------------------------------------------------------------------
(* The steps that leave the files alone.                                   *)

LEMMA ReturnedPlace ==
    /\ \A r, pre : "pc" \in DOMAIN r => Returns(r, pre).pc = "call"
    /\ \A r, status : "pc" \in DOMAIN r => Ends(r, status).pc = "call"
BY DEF Returns, Ends

LEMMA RecordPlace ==
    ASSUME LegacyInv, NEW p \in Procs
    PROVE  /\ "pc" \in DOMAIN run[p]
           /\ \A m : "pc" \in DOMAIN [run[p] EXCEPT !.manifest = m]
           /\ \A d : "pc" \in DOMAIN [run[p] EXCEPT !.digest = d]
           /\ \A pc : [run[p] EXCEPT !.pc = pc].pc = pc
           /\ \A pc, d : [run[p] EXCEPT !.digest = d, !.pc = pc].pc = pc
           /\ \A buf : [run[p] EXCEPT !.buf = buf].pc = run[p].pc
<1>1. run[p] \in Process
  BY DEF LegacyInv, StateOK
<1> QED BY <1>1 DEF Process

(* The call returns, or the command ends.                                   *)
LEMMA LeavesCall ==
    ASSUME LegacyInv, CopyInv, NEW p \in Procs, run[p].pc # "write",
           \/ \E pre : Goes(p, Returns(run[p], pre))
           \/ \E m, pre : Goes(p, Returns([run[p] EXCEPT !.manifest = m], pre))
           \/ \E d, pre : Goes(p, Returns([run[p] EXCEPT !.digest = d], pre))
           \/ \E status : Goes(p, Ends(run[p], status)),
           UNCHANGED <<source, files, copied, doubtful>>
    PROVE  CopyInv'
<1>1. PICK r : Goes(p, r) /\ r.pc = "call"
  <2>1. ASSUME NEW pre, Goes(p, Returns(run[p], pre)) PROVE \E r : Goes(p, r) /\ r.pc = "call"
    BY <2>1, RecordPlace, ReturnedPlace
  <2>2. ASSUME NEW m, NEW pre, Goes(p, Returns([run[p] EXCEPT !.manifest = m], pre))
        PROVE  \E r : Goes(p, r) /\ r.pc = "call"
    <3> DEFINE s == [run[p] EXCEPT !.manifest = m]
    <3>1. "pc" \in DOMAIN s
      BY RecordPlace
    <3> HIDE DEF s
    <3> QED BY <2>2, <3>1, ReturnedPlace DEF s
  <2>3. ASSUME NEW d, NEW pre, Goes(p, Returns([run[p] EXCEPT !.digest = d], pre))
        PROVE  \E r : Goes(p, r) /\ r.pc = "call"
    <3> DEFINE s == [run[p] EXCEPT !.digest = d]
    <3>1. "pc" \in DOMAIN s
      BY RecordPlace
    <3> HIDE DEF s
    <3> QED BY <2>3, <3>1, ReturnedPlace DEF s
  <2>4. ASSUME NEW status, Goes(p, Ends(run[p], status))
        PROVE  \E r : Goes(p, r) /\ r.pc = "call"
    BY <2>4, RecordPlace, ReturnedPlace
  <2> QED BY <2>1, <2>2, <2>3, <2>4
<1>2. r.pc # "write"
  BY <1>1
<1> QED BY <1>1, <1>2, PlainStep

(* The process goes on within the call.                                     *)
LEMMA StaysInCall ==
    ASSUME LegacyInv, CopyInv, NEW p \in Procs, run[p].pc # "write",
           \/ \E pc \in {"call", "open", "seal", "persist", "register", "answer"} :
                \/ Goes(p, [run[p] EXCEPT !.pc = pc])
                \/ \E d : Goes(p, [run[p] EXCEPT !.digest = d, !.pc = pc])
           \/ \E buf : Goes(p, [run[p] EXCEPT !.buf = buf]),
           UNCHANGED <<source, files, copied, doubtful>>
    PROVE  CopyInv'
<1>1. PICK r : Goes(p, r) /\ r.pc # "write"
  <2> DEFINE Idling == {"call", "open", "seal", "persist", "register", "answer"}
  <2>1. ASSUME NEW pc \in Idling, Goes(p, [run[p] EXCEPT !.pc = pc])
        PROVE  \E r : Goes(p, r) /\ r.pc # "write"
    BY <2>1, RecordPlace
  <2>2. ASSUME NEW pc \in Idling, NEW d, Goes(p, [run[p] EXCEPT !.digest = d, !.pc = pc])
        PROVE  \E r : Goes(p, r) /\ r.pc # "write"
    BY <2>2, RecordPlace
  <2>3. ASSUME NEW buf, Goes(p, [run[p] EXCEPT !.buf = buf])
        PROVE  \E r : Goes(p, r) /\ r.pc # "write"
    <3> DEFINE s == [run[p] EXCEPT !.buf = buf]
    <3>1. Goes(p, s) /\ s.pc = run[p].pc
      BY <2>3, RecordPlace
    <3> HIDE DEF s
    <3>2. s.pc # "write"
      BY <3>1
    <3> QED BY <3>1, <3>2
  <2> QED BY <2>1, <2>2, <2>3
<1> QED BY <1>1, PlainStep

LEMMA ReadingCopies ==
    ASSUME LegacyInv, CopyInv, NEW p \in Procs,
           HashFile(p) \/ ReadUpload(p) \/ VerifyPath(p) \/ Fetch(p)
    PROVE  CopyInv'
<1>1. run[p].pc # "write" /\ UNCHANGED <<source, files, copied, doubtful>>
  BY DEF HashFile, ReadUpload, VerifyPath, Fetch, At, ReadsOnly, Sends
<1>2. run[p] \in Process
  BY DEF LegacyInv, StateOK
<1>3. CASE HashFile(p)
  <2> DEFINE bytes == Bytes(Call(p).input)
  <2>1. CASE bytes = Absent
    <3>1. Goes(p, Ends(run[p], "err"))
      BY <1>3, <2>1 DEF HashFile
    <3> QED BY <1>1, <3>1, LeavesCall
  <2>2. CASE bytes # Absent
    <3>1. Goes(p, [run[p] EXCEPT !.buf = Append(@, bytes[Len(@) + 1])])
      BY <1>3, <2>2 DEF HashFile
    <3>2. \E buf : Goes(p, [run[p] EXCEPT !.buf = buf])
      <4> HIDE DEF bytes
      <4> QED BY <3>1
    <3> QED BY <1>1, <3>2, StaysInCall
  <2> QED BY <2>1, <2>2
<1>4. CASE ReadUpload(p)
  <2> DEFINE bytes == Bytes(Call(p).input)
  <2>1. Goes(p, [run[p] EXCEPT !.buf = Append(@, bytes[Len(@) + 1])])
    BY <1>4 DEF ReadUpload
  <2>2. \E buf : Goes(p, [run[p] EXCEPT !.buf = buf])
    <3> HIDE DEF bytes
    <3> QED BY <2>1
  <2> QED BY <1>1, <2>2, StaysInCall
<1>5. CASE VerifyPath(p) \/ Fetch(p)
  <2>1. Goes(p, Returns(run[p], <<>>)) \/ Goes(p, Ends(run[p], "err"))
    BY <1>5 DEF VerifyPath, Fetch
  <2> QED BY <1>1, <2>1, LeavesCall
<1> QED BY <1>3, <1>4, <1>5

LEMMA StoringCopies ==
    ASSUME LegacyInv, CopyInv, NEW p \in Procs, StoreBlob(p) \/ StoreBlobWithProgress(p)
    PROVE  CopyInv'
<1> DEFINE hash == run[p].buf
           s == [run[p] EXCEPT !.digest = hash]
           t == [s EXCEPT !.pc = "open", !.buf = <<>>]
<1>1. run[p].pc # "write" /\ UNCHANGED <<source, files, copied, doubtful>>
  BY DEF StoreBlob, StoreBlobWithProgress, At, ReadsOnly
<1>2. CASE StoreBlob(p)
  <2>1. Goes(p, Returns(s, <<>>)) \/ Goes(p, t)
    BY <1>2 DEF StoreBlob
  <2>2. t.pc = "open"
    <3>1. run[p] \in Process
      BY DEF LegacyInv, StateOK
    <3> QED BY <3>1 DEF Process
  <2> HIDE DEF t, hash
  <2>3. CASE Goes(p, Returns(s, <<>>))
    BY <1>1, <2>3, LeavesCall
  <2>4. CASE Goes(p, t)
    <3>1. t.pc # "write"
      BY <2>2
    <3> QED BY <1>1, <2>4, <3>1, PlainStep
  <2> QED BY <2>1, <2>3, <2>4
<1>3. CASE StoreBlobWithProgress(p)
  <2>1. \E pc \in {"register", "persist"} : Goes(p, [run[p] EXCEPT !.digest = hash, !.pc = pc])
    BY <1>3 DEF StoreBlobWithProgress
  <2> HIDE DEF hash
  <2>2. \E pc \in {"call", "open", "seal", "persist", "register", "answer"} :
           \E d : Goes(p, [run[p] EXCEPT !.digest = d, !.pc = pc])
    BY <2>1
  <2> QED BY <1>1, <2>2, StaysInCall
<1> QED BY <1>2, <1>3

LEMMA StatementCopies ==
    ASSUME LegacyInv, CopyInv, NEW p \in Procs, Statement(p) \/ Register(p)
    PROVE  CopyInv'
<1>1. run[p].pc # "write" /\ UNCHANGED <<source, files, copied, doubtful>>
  BY DEF Statement, Register, At
<1>2. \/ Goes(p, Ends(run[p], "err")) \/ Goes(p, Returns(run[p], <<>>))
      \/ Goes(p, [run[p] EXCEPT !.pc = "answer"])
  BY DEF Statement, Register
<1> QED BY <1>1, <1>2, LeavesCall, StaysInCall

LEMMA TransferCopies ==
    ASSUME LegacyInv, CopyInv, NEW p \in Procs, TransferStep(p)
    PROVE  CopyInv'
<1>1. run[p].pc # "write" /\ UNCHANGED <<source, files, copied, doubtful>>
  BY DEF TransferStep, ExportPackage, CopyBlobTo, Collect, WriteExportMetadata, ImportBlobs,
         ImportBlob, ImportManifest, MergeMetadata, EnsurePackage, At, ReadsOnly
<1>2. CASE ExportPackage(p)
  <2>1. \E m, pre : Goes(p, Returns([run[p] EXCEPT !.manifest = m], pre))
    BY <1>2 DEF ExportPackage
  <2> QED BY <1>1, <2>1, LeavesCall
<1>3. CASE CopyBlobTo(p)
  BY <1>1, <1>3, StaysInCall DEF CopyBlobTo
<1>4. CASE Collect(p)
  <2>1. \E m, pre : Goes(p, Returns([run[p] EXCEPT !.manifest = m], pre))
    BY <1>4 DEF Collect
  <2> QED BY <1>1, <2>1, LeavesCall
<1>5. CASE WriteExportMetadata(p)
  BY <1>1, <1>5, LeavesCall DEF WriteExportMetadata
<1>6. CASE ImportBlobs(p)
  <2>1. \E pre : Goes(p, Returns(run[p], pre))
    BY <1>6 DEF ImportBlobs
  <2> QED BY <1>1, <2>1, LeavesCall
<1>7. CASE ImportBlob(p)
  <2>1. Goes(p, Returns(run[p], <<>>)) \/ Goes(p, [run[p] EXCEPT !.pc = "open"])
    BY <1>7 DEF ImportBlob
  <2> QED BY <1>1, <2>1, LeavesCall, StaysInCall
<1>8. CASE ImportManifest(p)
  <2>1. \/ Goes(p, Returns(run[p], <<>>)) \/ Goes(p, Ends(run[p], "err"))
        \/ Goes(p, Returns([run[p] EXCEPT !.manifest = manifest], ImportCalls(manifest)))
    BY <1>8 DEF ImportManifest
  <2> QED BY <1>1, <2>1, LeavesCall
<1>9. CASE MergeMetadata(p)
  <2>1. \E pre : Goes(p, Returns(run[p], pre))
    BY <1>9 DEF MergeMetadata
  <2> QED BY <1>1, <2>1, LeavesCall
<1>10. CASE EnsurePackage(p)
  <2>1. \E pre : Goes(p, Returns(run[p], pre))
    BY <1>10 DEF EnsurePackage
  <2> QED BY <1>1, <2>1, LeavesCall
<1> QED BY <1>2, <1>3, <1>4, <1>5, <1>6, <1>7, <1>8, <1>9, <1>10 DEF TransferStep

LEMMA AnsweringCopies ==
    ASSUME LegacyInv, CopyInv, NEW p \in Procs,
           \/ Mismatch(p) \/ CompleteUpload(p) \/ MissingUpload(p) \/ HandleDownload(p)
           \/ AgentLine(p)
    PROVE  CopyInv'
<1>1. run[p].pc # "write" /\ UNCHANGED <<source, files, copied, doubtful>>
  BY DEF Mismatch, CompleteUpload, MissingUpload, HandleDownload, AgentLine, At, Sends, UploadFails
<1>2. \/ Goes(p, Returns(run[p], <<>>)) \/ \E status : Goes(p, Ends(run[p], status))
  <2>1. CASE AgentLine(p)
    BY <2>1 DEF AgentLine, At
  <2>2. CASE Mismatch(p) \/ CompleteUpload(p) \/ MissingUpload(p) \/ HandleDownload(p)
    BY <2>2 DEF Mismatch, CompleteUpload, MissingUpload, HandleDownload, UploadFails
  <2> QED BY <2>1, <2>2
<1> QED BY <1>1, <1>2, LeavesCall

LEMMA UploadFailureCopies ==
    ASSUME LegacyInv, CopyInv, NEW p \in Procs, UploadCallFails(p)
    PROVE  CopyInv'
<1>1. run[p].pc # "write" /\ UNCHANGED <<source, files, copied, doubtful>>
  BY DEF UploadCallFails, Sends, UploadFails
<1>2. Goes(p, Returns(run[p], <<>>)) \/ Goes(p, [run[p] EXCEPT !.pc = "answer"])
  BY DEF UploadCallFails, UploadFails
<1> QED BY <1>1, <1>2, LeavesCall, StaysInCall

(* A command that starts was not running, and has nothing open.             *)
LEMMA StartCopies ==
    ASSUME LegacyInv, CopyInv, NEW p \in Procs, Start(p)
    PROVE  CopyInv'
<1>1. run[p].status # "running" /\ UNCHANGED <<source, files, copied, doubtful>>
  BY DEF Start
<1>2. run \in [Procs -> Process]
  BY DEF LegacyInv, StateOK
<1> DEFINE r == run[p]
           next == IF r.status \in {"ok", "err", "fault"} THEN r.next + 1 ELSE r.next
           c == r.script[next]
           calls == Calls(c)
           before == IF next = r.next THEN r.before ELSE r.status
           status == IF calls = <<>> THEN "ok" ELSE "running"
           kept == db[c.root].metadata
           found == IF r.status = "crashed" THEN r.found ELSE db[c.root].metadata
<1>3. run' = [run EXCEPT ![p] =
                 [@ EXCEPT !.next = next, !.calls = calls,
                           !.before = before, !.status = status,
                           !.pc = "call", !.alone = TRUE, !.manifest = NoManifest,
                           !.kept = kept, !.found = found]]
  BY DEF Start
<1> HIDE DEF next, c, calls, before, status, kept, found
<1>4. run'[p].pc = "call"
  BY <1>2, <1>3 DEF Process
<1>5. \A q \in Procs \ {p} : run'[q] = run[q]
  BY <1>2, <1>3
<1>6. \A q \in Procs \ {p} : Undisturbed(run[q], run'[q])
  BY <1>5 DEF Undisturbed
<1>7. ~Opened(run'[p]) /\ \A t : ~Copying(run[p], t)
  BY <1>1, <1>4 DEF Opened, Copying
<1> QED BY <1>1, <1>6, <1>7, NoOpening

-----------------------------------------------------------------------------
(* The copies.                                                             *)

LEMMA CopyLinks ==
    ASSUME LegacyInv, NEW p \in Procs
    PROVE  /\ \A t : Writing(p, t) <=> Copying(run[p], t)
           /\ run[p].status = "running" /\ run[p].pc \in {"open", "write"} =>
                 /\ Op(run[p]) \in Copies /\ Call(p).op = Op(run[p])
                 /\ Target(p) = TargetOf(run[p]) /\ TargetOf(run[p]) \in Places \X Digest
                 /\ From(p).data = ReadData(run[p], source, files)
                 /\ Op(run[p]) = "store" =>
                       /\ TargetOf(run[p]) = <<RootOf(run[p]), run[p].digest>>
                       /\ Reads(p) = run[p].calls[1].input
                 /\ Op(run[p]) = "import_blob" =>
                       /\ TargetOf(run[p]) = <<RootOf(run[p]), run[p].calls[1].hash>>
                       /\ Reads(p) = <<ExportDir, run[p].calls[1].hash>>
                 /\ Op(run[p]) = "export_blob" =>
                       /\ TargetOf(run[p]) = <<ExportDir, run[p].calls[1].hash>>
                       /\ Reads(p) = <<RootOf(run[p]), run[p].calls[1].hash>>
                 /\ RootOf(run[p]) \in Roots /\ RootOf(run[p]) # ExportDir
                 /\ Op(run[p]) # "store" => run[p].calls[1].hash \in Digest
<1>1. ASSUME run[p].status = "running", run[p].pc \in {"open", "write"}
      PROVE  /\ Op(run[p]) \in Copies /\ Call(p).op = Op(run[p])
             /\ Target(p) = TargetOf(run[p]) /\ TargetOf(run[p]) \in Places \X Digest
             /\ From(p).data = ReadData(run[p], source, files)
             /\ Op(run[p]) = "store" =>
                   /\ TargetOf(run[p]) = <<RootOf(run[p]), run[p].digest>>
                   /\ Reads(p) = run[p].calls[1].input
             /\ Op(run[p]) = "import_blob" =>
                   /\ TargetOf(run[p]) = <<RootOf(run[p]), run[p].calls[1].hash>>
                   /\ Reads(p) = <<ExportDir, run[p].calls[1].hash>>
             /\ Op(run[p]) = "export_blob" =>
                   /\ TargetOf(run[p]) = <<ExportDir, run[p].calls[1].hash>>
                   /\ Reads(p) = <<RootOf(run[p]), run[p].calls[1].hash>>
             /\ RootOf(run[p]) \in Roots /\ RootOf(run[p]) # ExportDir
             /\ Op(run[p]) # "store" => run[p].calls[1].hash \in Digest
  <2>1. Op(run[p]) \in Copies
    BY <1>1, Current DEF Position
  <2>2. /\ Call(p) = run[p].calls[1] /\ Call(p).op = Op(run[p]) /\ Root(p) = RootOf(run[p])
        /\ Root(p) \in Roots /\ Target(p) = TargetOf(run[p]) /\ Call(p) \in AllCalls
    BY <1>1, Current
  <2>3. TargetOf(run[p]) \in Places \X Digest
    BY <1>1, <2>1, <2>2, CopyTarget DEF Copies
  <2>4. From(p).data = ReadData(run[p], source, files)
    BY <2>1, <2>2 DEF From, ReadData, Bytes, Copies
  <2>5. /\ Op(run[p]) = "store" => /\ TargetOf(run[p]) = <<RootOf(run[p]), run[p].digest>>
                                   /\ Reads(p) = run[p].calls[1].input
        /\ Op(run[p]) = "import_blob" =>
              /\ TargetOf(run[p]) = <<RootOf(run[p]), run[p].calls[1].hash>>
              /\ Reads(p) = <<ExportDir, run[p].calls[1].hash>>
        /\ Op(run[p]) = "export_blob" =>
              /\ TargetOf(run[p]) = <<ExportDir, run[p].calls[1].hash>>
              /\ Reads(p) = <<RootOf(run[p]), run[p].calls[1].hash>>
    BY <2>2 DEF TargetOf, Reads
  <2>6. RootOf(run[p]) # ExportDir
    BY <2>2, LegacyAssumption
  <2>7. Op(run[p]) # "store" => run[p].calls[1].hash \in Digest
    BY <2>1, <2>2, CallShape DEF Copies
  <2> QED BY <2>1, <2>2, <2>3, <2>4, <2>5, <2>6, <2>7
<1>2. ASSUME NEW t PROVE Writing(p, t) <=> Copying(run[p], t)
  <2>1. CASE Opened(run[p])
    BY <1>1, <2>1 DEF Writing, At, Copying, Opened
  <2>2. CASE ~Opened(run[p])
    BY <2>2 DEF Writing, At, Copying, Opened
  <2> QED BY <2>1, <2>2
<1> QED BY <1>1, <1>2

(* What a copy reads when one file changes.                                 *)
LEMMA ReadElsewhere ==
    ASSUME LegacyInv, NEW q \in Procs, NEW u, Copying(run[q], u), NEW t \in Places \X Digest,
           NEW fs, \A x \in Places \X Digest : x # t => fs[x] = files[x]
    PROVE  /\ u \in Places \X Digest
           /\ \/ ReadData(run[q], source, fs) = ReadData(run[q], source, files)
              \/ /\ u \in CopiesOf(t) /\ ReadData(run[q], source, fs) = fs[t].data
                 /\ t[2] = u[2] /\ t # u
<1> DEFINE r == run[q]
           h == r.calls[1].hash
<1>1. r.status = "running" /\ r.pc = "write" /\ u = TargetOf(r)
  BY DEF Copying, Opened
<1>2. /\ u \in Places \X Digest /\ Op(r) \in Copies /\ Writing(q, u)
      /\ Op(r) = "import_blob" => u = <<RootOf(r), h>> /\ Reads(q) = <<ExportDir, h>>
      /\ Op(r) = "export_blob" => u = <<ExportDir, h>> /\ Reads(q) = <<RootOf(r), h>>
      /\ RootOf(r) \in Roots /\ RootOf(r) # ExportDir
      /\ Op(r) # "store" => h \in Digest
  BY <1>1, CopyLinks
<1>3. RootOf(r) \in Places /\ ExportDir \in Places
  BY <1>2 DEF Places
<1>4. Reads(q) = t => u \in CopiesOf(t)
  BY <1>2 DEF CopiesOf
<1>5. CASE Op(r) = "store"
  BY <1>2, <1>5 DEF ReadData
<1>6. CASE Op(r) = "import_blob"
  <2>1. CASE t = <<ExportDir, h>>
    BY <1>2, <1>4, <1>6, <2>1 DEF ReadData
  <2>2. CASE t # <<ExportDir, h>>
    BY <1>2, <1>3, <1>6, <2>2 DEF ReadData
  <2> QED BY <2>1, <2>2
<1>7. CASE Op(r) = "export_blob"
  <2>1. CASE t = <<RootOf(r), h>>
    BY <1>2, <1>4, <1>7, <2>1 DEF ReadData
  <2>2. CASE t # <<RootOf(r), h>>
    BY <1>2, <1>3, <1>7, <2>2 DEF ReadData
  <2> QED BY <2>1, <2>2
<1> QED BY <1>2, <1>5, <1>6, <1>7 DEF Copies

LEMMA EndingCopies ==
    ASSUME LegacyInv, CopyInv, NEW p \in Procs, EndCopy(p)
    PROVE  CopyInv'
<1>1. /\ run[p].status = "running" /\ run[p].pc = "write" /\ EndOfFile(p)
      /\ UNCHANGED <<source, files, copied, doubtful>>
  BY DEF EndCopy, At, ReadsOnly
<1>2. PICK r : Goes(p, r) /\ r.pc # "write"
  <2>1. Goes(p, Returns(run[p], <<>>)) \/ Goes(p, [run[p] EXCEPT !.pc = "seal"])
    BY DEF EndCopy
  <2>2. Returns(run[p], <<>>).pc = "call" /\ [run[p] EXCEPT !.pc = "seal"].pc = "seal"
    BY RecordPlace, ReturnedPlace
  <2> QED BY <2>1, <2>2
<1>3. ~Opened(run'[p]) /\ \A q \in Procs \ {p} : Undisturbed(run[q], run'[q])
  BY <1>2, CopyFrame DEF Opened
<1>4. ASSUME NEW t \in Places \X Digest, Copying(run[p], t)
      PROVE  t \in doubtful' \/ Len(run[p].buf) >= Size
  <2>1. CASE t \notin doubtful
    <3>1. ReadData(run[p], source, files) = t[2]
      BY <1>4, <2>1 DEF CopyInv, SoundCopies
    <3>2. From(p).data = t[2]
      BY <1>1, <3>1, CopyLinks
    <3>3. Len(t[2]) = Size
      BY BlobIsFile
    <3> QED BY <1>1, <3>2, <3>3 DEF EndOfFile
  <2>2. CASE t \in doubtful
    BY <1>1, <2>2
  <2> QED BY <2>1, <2>2
<1> QED BY <1>1, <1>3, <1>4, NoOpening

LEMMA SealingCopies ==
    ASSUME LegacyInv, CopyInv, NEW p \in Procs, Seal(p)
    PROVE  CopyInv'
<1> DEFINE t == Target(p)
           f == [files[t] EXCEPT !.readonly = TRUE]
<1>1. /\ run[p].status = "running" /\ run[p].pc = "seal"
      /\ Call(p).op \in {"store", "import_blob", "upload"}
      /\ files' = [files EXCEPT ![t] = f]
      /\ UNCHANGED <<source, copied, doubtful>>
  BY DEF Seal, At, KeepsRest
<1>2. PICK r : Goes(p, r) /\ r.pc # "write"
  <2>1. Goes(p, Returns(run[p], <<>>)) \/ Goes(p, [run[p] EXCEPT !.pc = "register"])
    BY DEF Seal
  <2>2. Returns(run[p], <<>>).pc = "call" /\ [run[p] EXCEPT !.pc = "register"].pc = "register"
    BY RecordPlace, ReturnedPlace
  <2> QED BY <2>1, <2>2
<1>3. ~Opened(run'[p]) /\ \A q \in Procs \ {p} : Undisturbed(run[q], run'[q])
  BY <1>2, CopyFrame DEF Opened
<1>4. \A u : ~Copying(run[p], u)
  BY <1>1 DEF Copying, Opened
<1>5. t \in Places \X Digest /\ files[t] # NoFile
  <2>1. t \in Places \X Digest
    BY <1>1, CopyTarget
  <2>2. Footing(run[p], source, files) /\ t = TargetOf(run[p])
    BY <1>1, Current
  <2> QED BY <1>1, <2>1, <2>2 DEF Footing
<1>6. files \in [Places \X Digest -> BlobFiles \cup {NoFile}]
  BY DEF LegacyInv, StateOK
<1>7. f.data = files[t].data /\ f # NoFile
  <2>1. files[t] \in BlobFiles
    BY <1>5, <1>6
  <2>2. f \in BlobFiles /\ f.data = files[t].data
    BY <2>1 DEF BlobFiles
  <2> QED BY <2>2, BlobIsFile
<1> HIDE DEF f
<1>8. \A u \in Places \X Digest :
         (files[u] = NoFile <=> files'[u] = NoFile) /\ files[u].data = files'[u].data
  BY <1>1, <1>5, <1>6, <1>7
<1> QED BY <1>1, <1>3, <1>4, <1>8, NoOpening

LEMMA CrashingCopies ==
    ASSUME LegacyInv, CopyInv, NEW p \in Procs, Crash(p) \/ CallFails(p)
    PROVE  CopyInv'
<1>1. /\ UNCHANGED <<source, files, copied>>
      /\ doubtful' = doubtful \cup {t \in Places \X Digest : Writing(p, t)}
  BY DEF Crash, CallFails, CutShort
<1>2. PICK r : Goes(p, r) /\ r.pc # "write"
  <2>1. Goes(p, Ends(run[p], "crashed")) \/ Goes(p, Ends(run[p], "fault"))
    BY DEF Crash, CallFails
  <2> QED BY <2>1, RecordPlace, ReturnedPlace
<1>3. ~Opened(run'[p]) /\ \A q \in Procs \ {p} : Undisturbed(run[q], run'[q])
  BY <1>2, CopyFrame DEF Opened
<1>4. \A t \in Places \X Digest : Copying(run[p], t) => t \in doubtful'
  BY <1>1, CopyLinks
<1>5. doubtful \subseteq doubtful'
  BY <1>1
<1> QED BY <1>1, <1>3, <1>4, <1>5, NoOpening

LEMMA EditingCopies ==
    ASSUME LegacyInv, CopyInv, NEW f \in Sources, NEW k \in 1..Size, NEW chunk \in Atoms,
           Edit(f, k, chunk)
    PROVE  CopyInv'
<1>1. /\ source' = [source EXCEPT ![f][k] = chunk]
      /\ run' = [q \in Procs |-> [run[q] EXCEPT !.alone = @ /\ run[q].status # "running"]]
      /\ doubtful' = doubtful \cup CopiesOf(f)
      /\ UNCHANGED <<files, copied>>
  BY DEF Edit
<1>2. ASSUME NEW q \in Procs
      PROVE  /\ Opened(run'[q]) = Opened(run[q]) /\ TargetOf(run'[q]) = TargetOf(run[q])
             /\ \A t : Copying(run'[q], t) = Copying(run[q], t)
             /\ run'[q].buf = run[q].buf
             /\ \A src, fs : ReadData(run'[q], src, fs) = ReadData(run[q], src, fs)
  <2>1. Undisturbed(run[q], run'[q])
    <3>1. run[q] \in Process
      BY DEF LegacyInv, StateOK
    <3> QED BY <1>1, <3>1 DEF Process, Undisturbed
  <2> QED BY <2>1, UndisturbedCopy DEF Undisturbed
<1>3. CopiedOnly'
  BY <1>1, <1>2 DEF CopyInv, CopiedOnly
<1>4. ASSUME NEW t \in Places \X Digest, t \notin doubtful'
      PROVE  /\ \A q \in Procs : Copying(run'[q], t) => ReadData(run'[q], source', files') = t[2]
             /\ files'[t] # NoFile =>
                  \A i \in 1..Size :
                     \/ Filled(files'[t].data, t[2], i)
                     \/ \E q \in Procs : Copying(run'[q], t) /\ Len(run'[q].buf) < i
  <2>1. t \notin doubtful /\ t \notin CopiesOf(f)
    BY <1>1, <1>4
  <2>2. ASSUME NEW q \in Procs, Copying(run'[q], t)
        PROVE  ReadData(run'[q], source', files') = t[2]
    <3>1. Copying(run[q], t)
      BY <1>2, <2>2
    <3>2. ReadData(run[q], source, files) = t[2]
      BY <2>1, <3>1 DEF CopyInv, SoundCopies
    <3>3. /\ Writing(q, t) /\ Op(run[q]) \in Copies
          /\ Op(run[q]) = "store" => Reads(q) = run[q].calls[1].input
      BY <3>1, CopyLinks DEF Copying, Opened
    <3>4. Reads(q) # f
      BY <2>1, <3>3 DEF CopiesOf
    <3>5. \A g \in Sources : g # f => source'[g] = source[g]
      BY <1>1 DEF LegacyInv, StateOK
    <3>6. ReadData(run[q], source', files) = ReadData(run[q], source, files)
      <4>1. CASE Op(run[q]) = "store"
        BY <3>3, <3>4, <3>5, <4>1 DEF ReadData
      <4>2. CASE Op(run[q]) \in {"import_blob", "export_blob"}
        BY <4>2 DEF ReadData
      <4> QED BY <3>3, <4>1, <4>2 DEF Copies
    <3> QED BY <1>1, <1>2, <3>2, <3>6
  <2>3. ASSUME files'[t] # NoFile, NEW i \in 1..Size
        PROVE  \/ Filled(files'[t].data, t[2], i)
               \/ \E q \in Procs : Copying(run'[q], t) /\ Len(run'[q].buf) < i
    <3>1. \/ Filled(files[t].data, t[2], i)
          \/ \E q \in Procs : Copying(run[q], t) /\ Len(run[q].buf) < i
      BY <1>1, <2>1, <2>3 DEF CopyInv, SoundCopies
    <3> QED BY <1>1, <1>2, <3>1
  <2> QED BY <2>2, <2>3
<1>5. SoundCopies'
  BY <1>4 DEF SoundCopies
<1> QED BY <1>3, <1>5 DEF CopyInv

LEMMA DigestFilled ==
    ASSUME NEW d \in Digest, NEW i \in 1..Size
    PROVE  Filled(d, d, i)
<1>1. Len(d) = Size /\ Size \in Nat
  BY BlobIsFile, LegacyAssumption
<1> QED BY <1>1 DEF Filled

(* The rename makes the file whole at once, and copies to the file it       *)
(* replaces go on without a name.                                           *)
LEMMA PersistingCopies ==
    ASSUME LegacyInv, CopyInv, NEW p \in Procs, Persist(p)
    PROVE  CopyInv'
<1> DEFINE t == Target(p)
           d == run[p].digest
<1>1. /\ run[p].status = "running" /\ run[p].pc = "persist" /\ Call(p).op = "upload"
      /\ files' = [files EXCEPT ![t] = Temporary(p)]
      /\ run' = [q \in Procs |->
                   IF q = p THEN [run[q] EXCEPT !.pc = "seal"]
                   ELSE [run[q] EXCEPT !.linked = @ /\ ~Writing(q, t),
                                       !.alone = @ /\ run[q].status # "running"]]
      /\ UNCHANGED <<source, copied, doubtful>>
  BY DEF Persist, At, KeepsRest
<1>2. t \in Places \X Digest /\ t[2] = d /\ d \in Digest /\ Temporary(p).data = d
  <2>1. t \in Places \X Digest /\ t = TargetOf(run[p]) /\ Op(run[p]) = "upload"
    BY <1>1, Current, CopyTarget
  <2>2. run[p].buf = d /\ d \in Digest
    BY <1>1, <2>1, Current DEF Position
  <2> QED BY <2>1, <2>2 DEF TargetOf, Temporary
<1>3. files \in [Places \X Digest -> BlobFiles \cup {NoFile}]
  BY DEF LegacyInv, StateOK
<1>4. files'[t].data = t[2] /\ \A x \in Places \X Digest : x # t => files'[x] = files[x]
  BY <1>1, <1>2, <1>3
<1>5. ASSUME NEW q \in Procs, q # p
      PROVE  /\ run'[q].status = run[q].status /\ run'[q].pc = run[q].pc
             /\ run'[q].calls = run[q].calls /\ run'[q].script = run[q].script
             /\ run'[q].next = run[q].next /\ run'[q].digest = run[q].digest
             /\ run'[q].buf = run[q].buf
             /\ run'[q].linked = (run[q].linked /\ ~Writing(q, t))
  <2>1. run[q] \in Process
    BY DEF LegacyInv, StateOK
  <2>2. run'[q] = [run[q] EXCEPT !.linked = @ /\ ~Writing(q, t),
                                 !.alone = @ /\ run[q].status # "running"]
    BY <1>1, <1>5
  <2> QED BY <2>1, <2>2 DEF Process
<1>6. ASSUME NEW q \in Procs, q # p
      PROVE  /\ Opened(run'[q]) = Opened(run[q]) /\ TargetOf(run'[q]) = TargetOf(run[q])
             /\ \A src, fs : ReadData(run'[q], src, fs) = ReadData(run[q], src, fs)
             /\ \A u : Copying(run'[q], u) <=> Copying(run[q], u) /\ u # t
  <2>1. Op(run'[q]) = Op(run[q]) /\ RootOf(run'[q]) = RootOf(run[q])
    BY <1>5, <1>6 DEF Op, RootOf
  <2>2. Opened(run'[q]) = Opened(run[q]) /\ TargetOf(run'[q]) = TargetOf(run[q])
    BY <1>5, <1>6, <2>1 DEF Opened, TargetOf
  <2>3. \A src, fs : ReadData(run'[q], src, fs) = ReadData(run[q], src, fs)
    BY <1>5, <1>6, <2>1 DEF ReadData
  <2>4. Writing(q, t) <=> Copying(run[q], t)
    BY CopyLinks
  <2> QED BY <1>5, <1>6, <2>2, <2>3, <2>4 DEF Copying
<1>7. ~Opened(run'[p]) /\ \A u : ~Copying(run'[p], u) /\ ~Copying(run[p], u)
  <2>1. run'[p].pc = "seal"
    BY <1>1, RecordPlace
  <2> QED BY <1>1, <2>1 DEF Opened, Copying
<1>8. CopiedOnly'
  <2>1. \A q \in Procs : Opened(run'[q]) => TargetOf(run'[q]) \in copied'
    BY <1>1, <1>6, <1>7 DEF CopyInv, CopiedOnly
  <2>2. \A u \in Places \X Digest :
           u \notin copied' /\ files'[u] # NoFile => files'[u].data = u[2]
    BY <1>1, <1>4 DEF CopyInv, CopiedOnly
  <2> QED BY <2>1, <2>2 DEF CopiedOnly
<1>9. ASSUME NEW u \in Places \X Digest, u \notin doubtful'
      PROVE  /\ \A q \in Procs : Copying(run'[q], u) => ReadData(run'[q], source', files') = u[2]
             /\ files'[u] # NoFile =>
                  \A i \in 1..Size :
                     \/ Filled(files'[u].data, u[2], i)
                     \/ \E q \in Procs : Copying(run'[q], u) /\ Len(run'[q].buf) < i
  <2>1. u \notin doubtful
    BY <1>1, <1>9
  <2>2. ASSUME NEW q \in Procs, Copying(run'[q], u)
        PROVE  ReadData(run'[q], source', files') = u[2]
    <3>1. q # p /\ Copying(run[q], u)
      BY <1>6, <1>7, <2>2
    <3>2. ReadData(run[q], source, files) = u[2]
      BY <2>1, <3>1 DEF CopyInv, SoundCopies
    <3>3. \/ ReadData(run[q], source, files') = ReadData(run[q], source, files)
          \/ ReadData(run[q], source, files') = files'[t].data /\ t[2] = u[2]
      BY <1>2, <1>4, <3>1, ReadElsewhere
    <3>4. ReadData(run[q], source, files') = u[2]
      BY <1>4, <3>2, <3>3
    <3>5. source' = source
      BY <1>1
    <3>6. \A src, fs : ReadData(run'[q], src, fs) = ReadData(run[q], src, fs)
      BY ONLY <1>6, <3>1
    <3> QED BY <3>4, <3>5, <3>6
  <2>3. ASSUME files'[u] # NoFile, NEW i \in 1..Size
        PROVE  \/ Filled(files'[u].data, u[2], i)
               \/ \E q \in Procs : Copying(run'[q], u) /\ Len(run'[q].buf) < i
    <3>1. CASE u = t
      BY <1>2, <1>4, <3>1, DigestFilled
    <3>2. CASE u # t
      <4>1. files'[u] = files[u]
        BY <1>4, <3>2
      <4>2. \/ Filled(files[u].data, u[2], i)
            \/ \E q \in Procs : Copying(run[q], u) /\ Len(run[q].buf) < i
        BY <2>1, <2>3, <4>1 DEF CopyInv, SoundCopies
      <4> QED BY <1>5, <1>6, <1>7, <3>2, <4>1, <4>2
    <3> QED BY <3>1, <3>2
  <2> QED BY <2>2, <2>3
<1>10. SoundCopies'
  BY <1>9 DEF SoundCopies
<1> QED BY <1>8, <1>10 DEF CopyInv

LEMMA OpeningCopies ==
    ASSUME LegacyInv, CopyInv, NEW p \in Procs, OpenCopy(p)
    PROVE  CopyInv'
<1> DEFINE t == Target(p)
           refused == From(p) = NoFile \/ (files[t] # NoFile /\ files[t].readonly)
           f == [data |-> <<>>, readonly |-> From(p).readonly]
           r == [run[p] EXCEPT !.pc = "write", !.linked = TRUE]
<1>1. /\ run[p].status = "running" /\ run[p].pc = "open" /\ UNCHANGED source
  BY DEF OpenCopy, At, KeepsRest
<1>2. CASE refused
  <2>1. Goes(p, Ends(run[p], "err")) /\ UNCHANGED <<files, copied, doubtful>>
    BY <1>2 DEF OpenCopy
  <2> QED BY <1>1, <2>1, LeavesCall
<1>3. CASE ~refused
  <2>1. /\ files' = [files EXCEPT ![t] = f] /\ Goes(p, r)
        /\ copied' = copied \cup {t}
        /\ doubtful' = doubtful \cup CopiesOf(t) \cup {u \in {t} : From(p).data # t[2]}
    BY <1>3 DEF OpenCopy
  <2>2. /\ t = TargetOf(run[p]) /\ t \in Places \X Digest
        /\ From(p).data = ReadData(run[p], source, files)
    BY <1>1, CopyLinks
  <2>3. files \in [Places \X Digest -> BlobFiles \cup {NoFile}]
    BY DEF LegacyInv, StateOK
  <2>4. files'[t].data = <<>> /\ \A x \in Places \X Digest : x # t => files'[x] = files[x]
    <3>1. f.data = <<>>
      OBVIOUS
    <3> HIDE DEF f
    <3> QED BY <2>1, <2>2, <2>3, <3>1
  <2>5. run'[p] = r /\ \A q \in Procs \ {p} : Undisturbed(run[q], run'[q])
    BY <2>1, CopyFrame
  <2>6. /\ r.status = "running" /\ r.pc = "write" /\ r.linked /\ r.calls = run[p].calls
        /\ r.script = run[p].script /\ r.next = run[p].next /\ r.digest = run[p].digest
        /\ r.buf = <<>>
    <3>1. run[p] \in Process /\ run[p].buf = <<>>
      BY <1>1, Current DEF Position
    <3> QED BY <1>1, <3>1 DEF Process
  <2> HIDE DEF r, f
  <2>7. Op(r) = Op(run[p]) /\ RootOf(r) = RootOf(run[p])
    BY <2>6 DEF Op, RootOf
  <2>8. /\ TargetOf(r) = t /\ Copying(r, t) /\ \A u : Copying(r, u) => u = t
        /\ \A src, fs : ReadData(r, src, fs) = ReadData(run[p], src, fs)
    BY <2>2, <2>6, <2>7 DEF TargetOf, Copying, Opened, ReadData
  <2>9. \A u : ~Copying(run[p], u)
    BY <1>1 DEF Copying, Opened
  <2>10. ASSUME NEW q \in Procs, q # p
         PROVE  /\ Opened(run'[q]) = Opened(run[q]) /\ TargetOf(run'[q]) = TargetOf(run[q])
                /\ \A u : Copying(run'[q], u) = Copying(run[q], u)
                /\ run'[q].buf = run[q].buf
                /\ \A src, fs : ReadData(run'[q], src, fs) = ReadData(run[q], src, fs)
    <3>1. Undisturbed(run[q], run'[q])
      BY <2>5, <2>10
    <3> QED BY <3>1, UndisturbedCopy DEF Undisturbed
  <2>11. CopiedOnly'
    <3>1. \A q \in Procs : Opened(run'[q]) => TargetOf(run'[q]) \in copied'
      BY <2>1, <2>5, <2>8, <2>10 DEF CopyInv, CopiedOnly
    <3>2. \A u \in Places \X Digest :
             u \notin copied' /\ files'[u] # NoFile => files'[u].data = u[2]
      BY <2>1, <2>4 DEF CopyInv, CopiedOnly
    <3> QED BY <3>1, <3>2 DEF CopiedOnly
  <2>12. ASSUME NEW u \in Places \X Digest, u \notin doubtful'
         PROVE  /\ \A q \in Procs :
                     Copying(run'[q], u) => ReadData(run'[q], source', files') = u[2]
                /\ files'[u] # NoFile =>
                     \A i \in 1..Size :
                        \/ Filled(files'[u].data, u[2], i)
                        \/ \E q \in Procs : Copying(run'[q], u) /\ Len(run'[q].buf) < i
    <3>1. u \notin doubtful /\ u \notin CopiesOf(t) /\ (u = t => From(p).data = t[2])
      BY <2>1, <2>12
    <3>2. ASSUME NEW q \in Procs, Copying(run'[q], u)
          PROVE  ReadData(run'[q], source', files') = u[2]
      <4>1. CASE q = p
        <5>1. u = t
          BY <2>5, <2>8, <3>2, <4>1
        <5>2. ReadData(run[p], source, files) = u[2]
          BY <2>2, <3>1, <5>1
        <5>3. ReadData(run[p], source, files') = ReadData(run[p], source, files)
          <6>1. /\ Op(run[p]) \in Copies
                /\ RootOf(run[p]) \in Roots /\ RootOf(run[p]) # ExportDir
                /\ Op(run[p]) # "store" => run[p].calls[1].hash \in Digest
                /\ Op(run[p]) = "import_blob" => t = <<RootOf(run[p]), run[p].calls[1].hash>>
                /\ Op(run[p]) = "export_blob" => t = <<ExportDir, run[p].calls[1].hash>>
            BY <1>1, <2>2, CopyLinks
          <6>2. RootOf(run[p]) \in Places /\ ExportDir \in Places
            BY <6>1 DEF Places
          <6> HIDE DEF t
          <6> QED BY <2>4, <6>1, <6>2 DEF ReadData
        <5> QED BY <1>1, <2>5, <2>8, <4>1, <5>2, <5>3
      <4>2. CASE q # p
        <5>1. Copying(run[q], u)
          BY <2>10, <3>2, <4>2
        <5>2. ReadData(run[q], source, files) = u[2]
          BY <3>1, <5>1 DEF CopyInv, SoundCopies
        <5>3. ReadData(run[q], source, files') = ReadData(run[q], source, files)
          BY <2>2, <2>4, <3>1, <5>1, ReadElsewhere
        <5> QED BY <1>1, <2>10, <4>2, <5>2, <5>3
      <4> QED BY <4>1, <4>2
    <3>3. ASSUME files'[u] # NoFile, NEW i \in 1..Size
          PROVE  \/ Filled(files'[u].data, u[2], i)
                 \/ \E q \in Procs : Copying(run'[q], u) /\ Len(run'[q].buf) < i
      <4>1. CASE u = t
        <5>1. Copying(run'[p], u) /\ Len(run'[p].buf) < i
          BY <2>5, <2>6, <2>8, <4>1
        <5> QED BY <5>1
      <4>2. CASE u # t
        <5>1. files'[u] = files[u]
          BY <2>4, <4>2
        <5>2. \/ Filled(files[u].data, u[2], i)
              \/ \E q \in Procs : Copying(run[q], u) /\ Len(run[q].buf) < i
          BY <3>1, <3>3, <5>1 DEF CopyInv, SoundCopies
        <5> QED BY <2>9, <2>10, <5>1, <5>2
      <4> QED BY <4>1, <4>2
    <3> QED BY <3>2, <3>3
  <2>13. SoundCopies'
    BY <2>12 DEF SoundCopies
  <2> QED BY <2>11, <2>13 DEF CopyInv
<1> QED BY <1>2, <1>3

LEMMA ChunkCopies ==
    ASSUME LegacyInv, CopyInv, NEW p \in Procs, CopyChunk(p)
    PROVE  CopyInv'
<1> DEFINE t == Target(p)
           buf == run[p].buf
           k == Len(buf) + 1
           chunk == From(p).data[k]
           r == [run[p] EXCEPT !.buf = Append(@, chunk)]
           new == Overwritten(files[t].data, k, chunk)
           f == [files[t] EXCEPT !.data = new]
<1>1. /\ At(p, "write", Copies) /\ k <= Len(From(p).data)
      /\ files' = IF run[p].linked
                  THEN [files EXCEPT ![t].data = Overwritten(@, k, chunk)] ELSE files
      /\ Goes(p, r)
      /\ doubtful' = doubtful \cup {u \in CopiesOf(t) : files'[t].data # u[2]}
      /\ UNCHANGED <<source, copied>>
  BY DEF CopyChunk, KeepsRest
<1>2. /\ run[p].status = "running" /\ run[p].pc = "write"
      /\ From(p).data \in Data /\ t \in Places \X Digest
      /\ files[t] \in BlobFiles /\ buf \in Data /\ Len(buf) \in Nat
  BY <1>1, CopyInProgress
<1>3. t = TargetOf(run[p]) /\ From(p).data = ReadData(run[p], source, files)
  BY <1>2, CopyLinks
<1>4. files \in [Places \X Digest -> BlobFiles \cup {NoFile}]
  BY DEF LegacyInv, StateOK
<1>5. k \in 1..Size /\ chunk \in Chunks /\ k - 1 = Len(buf)
  <2>1. From(p).data \in Seq(Chunks) /\ Len(From(p).data) <= Size /\ Size \in Nat
    BY <1>2, LegacyAssumption DEF Data
  <2>2. k \in 1..Len(From(p).data)
    BY <1>1, <1>2, <2>1
  <2> QED BY <1>2, <2>1, <2>2
<1>6. run'[p] = r /\ \A q \in Procs \ {p} : Undisturbed(run[q], run'[q])
  BY <1>1, CopyFrame
<1>7. /\ r.status = "running" /\ r.pc = "write" /\ r.linked = run[p].linked
      /\ r.calls = run[p].calls /\ r.script = run[p].script /\ r.next = run[p].next
      /\ r.digest = run[p].digest /\ r.buf = Append(buf, chunk)
  <2>1. run[p] \in Process
    BY DEF LegacyInv, StateOK
  <2> QED BY <1>2, <2>1 DEF Process
<1>8. Len(r.buf) = k
  <2>1. buf \in Seq(Chunks)
    BY <1>2 DEF Data
  <2> HIDE DEF chunk, buf, r
  <2> QED BY <1>5, <1>7, <2>1
<1>9. /\ new \in Data /\ Len(new) \in Nat /\ Len(files[t].data) \in Nat
      /\ Len(new) = (IF k > Len(files[t].data) THEN k ELSE Len(files[t].data))
      /\ new[k] = chunk
      /\ \A i \in 1..Len(files[t].data) : i # k => new[i] = files[t].data[i]
  <2>1. files[t].data \in Data
    BY <1>2 DEF BlobFiles
  <2> HIDE DEF k, chunk
  <2> QED BY <1>5, <2>1, OverwrittenData
<1> HIDE DEF r, new, chunk
<1>10. f \in BlobFiles /\ f.data = new
  BY <1>2, <1>9 DEF BlobFiles
<1>11. files' = IF run[p].linked THEN [files EXCEPT ![t] = f] ELSE files
  BY <1>1 DEF new
<1> HIDE DEF f, k, t
<1>12. /\ \A x \in Places \X Digest : x # t => files'[x] = files[x]
       /\ files'[t].data = IF run[p].linked THEN new ELSE files[t].data
       /\ ~run[p].linked => files' = files
  BY <1>2, <1>4, <1>10, <1>11
<1>13. Op(r) = Op(run[p]) /\ RootOf(r) = RootOf(run[p])
  BY <1>7 DEF Op, RootOf
<1>14. /\ Opened(r) /\ Opened(run[p]) /\ TargetOf(r) = t
       /\ \A u : Copying(r, u) <=> run[p].linked /\ u = t
       /\ \A u : Copying(run[p], u) <=> run[p].linked /\ u = t
       /\ \A src, fs : ReadData(r, src, fs) = ReadData(run[p], src, fs)
  BY <1>2, <1>3, <1>7, <1>13 DEF TargetOf, Copying, Opened, ReadData
<1>15. ASSUME NEW q \in Procs, q # p
       PROVE  /\ Opened(run'[q]) = Opened(run[q]) /\ TargetOf(run'[q]) = TargetOf(run[q])
              /\ \A u : Copying(run'[q], u) <=> Copying(run[q], u)
              /\ run'[q].buf = run[q].buf
              /\ \A src, fs : ReadData(run'[q], src, fs) = ReadData(run[q], src, fs)
  <2>1. Undisturbed(run[q], run'[q])
    BY <1>6, <1>15
  <2> QED BY <2>1, UndisturbedCopy DEF Undisturbed
<1>16. ASSUME NEW q \in Procs
       PROVE  /\ Opened(run'[q]) = Opened(run[q]) /\ TargetOf(run'[q]) = TargetOf(run[q])
              /\ \A u : Copying(run'[q], u) <=> Copying(run[q], u)
              /\ \A src, fs : ReadData(run'[q], src, fs) = ReadData(run[q], src, fs)
  <2>1. CASE q # p
    BY <1>15, <2>1
  <2>2. CASE q = p
    <3>1. run'[q] = r
      BY <1>6, <2>2
    <3>2. /\ Opened(r) = Opened(run[p]) /\ TargetOf(r) = TargetOf(run[p])
          /\ \A u : Copying(r, u) <=> Copying(run[p], u)
      <4>1. Opened(r) = Opened(run[p])
        BY <1>2, <1>7 DEF Opened
      <4> QED BY <1>3, <1>14, <4>1
    <3> QED BY <1>14, <2>2, <3>1, <3>2
  <2> QED BY <2>1, <2>2
<1>17. CopiedOnly'
  <2>1. \A q \in Procs : Opened(run'[q]) => TargetOf(run'[q]) \in copied'
    BY <1>1, <1>16 DEF CopyInv, CopiedOnly
  <2>2. t \in copied
    BY <1>3, <1>14 DEF CopyInv, CopiedOnly
  <2>3. \A u \in Places \X Digest :
           u \notin copied' /\ files'[u] # NoFile => files'[u].data = u[2]
    BY <1>1, <1>12, <2>2 DEF CopyInv, CopiedOnly
  <2> QED BY <2>1, <2>3 DEF CopiedOnly
<1>18. ASSUME NEW u \in Places \X Digest, u \notin doubtful'
       PROVE  /\ \A q \in Procs :
                   Copying(run'[q], u) => ReadData(run'[q], source', files') = u[2]
              /\ files'[u] # NoFile =>
                   \A i \in 1..Size :
                      \/ Filled(files'[u].data, u[2], i)
                      \/ \E q \in Procs : Copying(run'[q], u) /\ Len(run'[q].buf) < i
  <2>1. u \notin doubtful /\ (u \in CopiesOf(t) => files'[t].data = u[2])
    BY <1>1, <1>18
  <2>2. ASSUME NEW q \in Procs, Copying(run'[q], u)
        PROVE  ReadData(run'[q], source', files') = u[2]
    <3>1. Copying(run[q], u)
      BY <1>16, <2>2
    <3>2. ReadData(run[q], source, files) = u[2]
      BY <2>1, <3>1 DEF CopyInv, SoundCopies
    <3>3. \/ ReadData(run[q], source, files') = ReadData(run[q], source, files)
          \/ /\ u \in CopiesOf(t)
             /\ ReadData(run[q], source, files') = files'[t].data
      BY <1>2, <1>12, <3>1, ReadElsewhere
    <3>4. ReadData(run[q], source, files') = u[2]
      BY <2>1, <3>2, <3>3
    <3>5. source' = source
      BY <1>1
    <3>6. \A src, fs : ReadData(run'[q], src, fs) = ReadData(run[q], src, fs)
      BY <1>16
    <3> QED BY <3>4, <3>5, <3>6
  <2>3. ASSUME files'[u] # NoFile, NEW i \in 1..Size
        PROVE  \/ Filled(files'[u].data, u[2], i)
               \/ \E q \in Procs : Copying(run'[q], u) /\ Len(run'[q].buf) < i
    <3>1. CASE u # t \/ ~run[p].linked
      <4>1. files'[u] = files[u]
        BY <1>12, <3>1
      <4>2. \/ Filled(files[u].data, u[2], i)
            \/ \E q \in Procs : Copying(run[q], u) /\ Len(run[q].buf) < i
        BY <2>1, <2>3, <4>1 DEF CopyInv, SoundCopies
      <4>3. ~Copying(run[p], u)
        BY <1>14, <3>1
      <4> QED BY <1>15, <4>1, <4>2, <4>3
    <3>2. CASE u = t /\ run[p].linked
      <4>1. files'[u].data = new /\ Copying(run[p], u) /\ Copying(run'[p], u)
        BY <1>6, <1>12, <1>14, <3>2
      <4>2. chunk = u[2][k]
        <5>1. ReadData(run[p], source, files) = u[2]
          BY <2>1, <4>1 DEF CopyInv, SoundCopies
        <5> QED BY <1>3, <5>1 DEF chunk
      <4>3. \/ Filled(files[u].data, u[2], i)
            \/ \E q \in Procs : Copying(run[q], u) /\ Len(run[q].buf) < i
        <5>1. files[u] # NoFile
          BY <1>2, <3>2, BlobIsFile
        <5> QED BY <2>1, <5>1 DEF CopyInv, SoundCopies
      <4>4. i \in Nat /\ k \in Nat
        BY <1>5
      <4>5. CASE i = k
        <5>1. i <= Len(new)
          BY <1>9, <4>4, <4>5
        <5> QED BY <1>9, <4>1, <4>2, <4>5, <5>1 DEF Filled
      <4>6. CASE i # k /\ Filled(files[u].data, u[2], i)
        <5>1. i \in 1..Len(files[t].data) /\ files[t].data[i] = u[2][i]
          BY <1>9, <3>2, <4>6 DEF Filled
        <5>2. i <= Len(new) /\ new[i] = files[t].data[i]
          BY <1>9, <4>4, <4>6, <5>1
        <5> QED BY <4>1, <5>1, <5>2 DEF Filled
      <4>7. CASE i # k /\ \E q \in Procs : Copying(run[q], u) /\ Len(run[q].buf) < i
        <5>1. PICK q \in Procs : Copying(run[q], u) /\ Len(run[q].buf) < i
          BY <4>7
        <5>2. CASE q = p
          <6>1. k < i
            BY <1>2, <1>5, <4>4, <4>7, <5>1, <5>2
          <6> QED BY <1>6, <1>8, <4>1, <6>1
        <5>3. CASE q # p
          BY <1>15, <5>1, <5>3
        <5> QED BY <5>2, <5>3
      <4> QED BY <4>3, <4>5, <4>6, <4>7
    <3> QED BY <3>1, <3>2
  <2> QED BY <2>2, <2>3
<1>19. SoundCopies'
  BY <1>18 DEF SoundCopies
<1> QED BY <1>17, <1>19 DEF CopyInv

-----------------------------------------------------------------------------
(* The invariant holds of every behaviour.                                 *)

LEMMA CopyInvInit == LegacyInit => CopyInv
<1> SUFFICES ASSUME LegacyInit PROVE CopyInv
  OBVIOUS
<1>1. PICK s \in Scenarios :
        /\ files = s.files /\ run = [p \in Procs |-> Idle(s.scripts[p])]
  BY DEF LegacyInit
<1>2. \A t \in Places \X Digest : files[t] \in {NoFile} \cup [data : {t[2]}, readonly : BOOLEAN]
  BY <1>1, ScenarioAssumption
<1>3. \A p \in Procs : ~Opened(run[p])
  BY <1>1 DEF Idle, Opened
<1>4. CopiedOnly
  BY <1>2, <1>3 DEF CopiedOnly
<1>5. SoundCopies
  <2>1. ASSUME NEW t \in Places \X Digest, files[t] # NoFile, NEW i \in 1..Size
        PROVE  Filled(files[t].data, t[2], i)
    <3>1. files[t].data = t[2] /\ t[2] \in Digest
      BY <1>2, <2>1
    <3> QED BY <3>1, DigestFilled
  <2> QED BY <1>3, <2>1 DEF SoundCopies, Copying
<1> QED BY <1>4, <1>5 DEF CopyInv

LEMMA CopyInvStep == LegacyInv /\ CopyInv /\ [LegacyNext]_vars => CopyInv'
<1> SUFFICES ASSUME LegacyInv, CopyInv, [LegacyNext]_vars PROVE CopyInv'
  OBVIOUS
<1>1. ASSUME NEW p \in Procs, Start(p) \/ Statement(p) PROVE CopyInv'
  BY <1>1, StartCopies, StatementCopies
<1>2. ASSUME NEW p \in Procs, StoreStep(p) PROVE CopyInv'
  BY <1>2, ReadingCopies, StoringCopies, OpeningCopies, ChunkCopies, EndingCopies,
     SealingCopies DEF StoreStep
<1>3. ASSUME NEW p \in Procs, TransferStep(p) PROVE CopyInv'
  BY <1>3, TransferCopies
<1>4. ASSUME NEW p \in Procs, AgentStep(p) PROVE CopyInv'
  BY <1>4, ReadingCopies, StoringCopies, PersistingCopies, StatementCopies, AnsweringCopies
     DEF AgentStep
<1>5. ASSUME NEW p \in Procs, Crash(p) \/ CallFails(p) \/ UploadCallFails(p) PROVE CopyInv'
  BY <1>5, CrashingCopies, UploadFailureCopies
<1>6. ASSUME NEW f \in Sources, NEW k \in 1..Size, NEW chunk \in Atoms, Edit(f, k, chunk)
      PROVE  CopyInv'
  BY <1>6, EditingCopies
<1>7. CASE UNCHANGED vars
  <2>1. UNCHANGED <<source, files, run, copied, doubtful>>
    BY <1>7 DEF vars
  <2> QED BY <2>1 DEF CopyInv, CopiedOnly, SoundCopies
<1> QED BY <1>1, <1>2, <1>3, <1>4, <1>5, <1>6, <1>7 DEF LegacyNext, Step

(* While fs::copy runs, in any number of processes at once, a file it never *)
(* opened is whole, and in one whose copies all read the right bytes every  *)
(* chunk that is wrong is still ahead of an open copy.                      *)
THEOREM CopyInvariant == LegacySpec => []CopyInv
BY LegacyInvariant, CopyInvInit, CopyInvStep, PTL DEF LegacySpec

(* What the transfer agent stores is whole from the moment it has its name: *)
(* a file that lacks bytes was opened by fs::copy.                          *)
THEOREM AgentNeverLeavesPart == LegacySpec => []AgentBlobsWhole
<1>1. CopyInv => AgentBlobsWhole
  BY DEF CopyInv, CopiedOnly, AgentBlobsWhole
<1> QED BY <1>1, CopyInvariant, PTL

(* However many processes copy one blob at once, a file no copy of which    *)
(* was cut short or read other bytes is right when the last one is done.    *)
THEOREM DamageHasCause == LegacySpec => []DamageNeedsCause
<1>1. LegacyInv /\ CopyInv => DamageNeedsCause
  <2> SUFFICES ASSUME LegacyInv, CopyInv,
                      NEW t \in Places \X Digest, files[t] # NoFile, t \notin doubtful,
                      \A p \in Procs : ~Writing(p, t)
               PROVE  files[t].data = t[2]
    BY DEF DamageNeedsCause
  <2>1. \A p \in Procs : ~Copying(run[p], t)
    BY CopyLinks
  <2>2. \A i \in 1..Size : Filled(files[t].data, t[2], i)
    BY <2>1 DEF CopyInv, SoundCopies
  <2>3. files[t].data \in Data /\ t[2] \in Digest /\ Size \in Nat
    BY LegacyAssumption DEF LegacyInv, StateOK, BlobFiles
  <2> DEFINE a == files[t].data
             b == t[2]
  <2>4. a \in Seq(Chunks) /\ b \in [1..Size -> Atoms] /\ Len(a) \in Nat /\ Len(a) <= Size
    BY <2>3 DEF Data, Digest
  <2> HIDE DEF a, b
  <2>5. Len(a) = Size
    <3>1. CASE Size = 0
      BY <2>4, <3>1
    <3>2. CASE Size # 0
      <4>1. Size \in 1..Size
        BY <2>3, <3>2
      <4> QED BY <2>2, <2>3, <2>4, <4>1 DEF Filled, a
    <3> QED BY <3>1, <3>2
  <2>6. \A i \in 1..Size : a[i] = b[i]
    BY <2>2 DEF Filled, a, b
  <2>7. a = [i \in 1..Size |-> a[i]] /\ b = [i \in 1..Size |-> b[i]]
    BY <2>4, <2>5
  <2>8. a = b
    BY <2>6, <2>7
  <2> QED BY <2>8 DEF a, b
<1> QED BY <1>1, LegacyInvariant, CopyInvariant, PTL
=============================================================================

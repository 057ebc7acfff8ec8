--------------------------- MODULE StableHashProofs ---------------------------
(***************************************************************************)
(* StableHash implements AtomicHash when every write advances the clock    *)
(* and stamps the mtime: while the mtime of the open file is the one in    *)
(* the first snapshot, what has been read is a prefix of what is there.    *)
(***************************************************************************)
EXTENDS StableHash, SequenceTheorems, TLAPS

\* Nothing was ever stamped with a time to come.
ClockInv ==
    /\ \A i \in Inodes : mtime[i] <= clock
    /\ pre.mtime <= clock

ControlInv ==
    /\ pc \in {"pre", "read", "post"} => fd \in Inodes
    /\ pc = "done" <=> answer # Pending

\* An unchanged mtime vouches for everything read under it.
PrefixInv ==
    pc \in {"read", "post"} /\ mtime[fd] = pre.mtime =>
       /\ pre.size = Len(bytes[fd])
       /\ Len(got) <= Len(bytes[fd])
       /\ \A k \in 1..Len(got) : got[k] = bytes[fd][k]
       /\ pc = "post" => Len(got) = Len(bytes[fd])

\* Each attempt given up was voided by a write of its own.
AttemptInv ==
    /\ pc \in {"open", "pre", "read", "post"} => clock + 1 >= attempt
    /\ pc \in {"read", "post"} /\ mtime[fd] # pre.mtime => clock >= attempt
    /\ answer = Unstable => clock >= MaxAttempts

Inv == TypeOK /\ ClockInv /\ ControlInv /\ PrefixInv /\ AttemptInv

\* A file is a sequence of at most MaxBlocks blocks.
LEMMA FilesAreSequences ==
    \A f \in Files : f \in Seq(Blocks) /\ Len(f) \in 0..MaxBlocks
BY HashAssumption, SeqDef DEF Files

LEMMA InitInv == Init => Inv
BY HashAssumption, FilesAreSequences
   DEF Init, Inv, TypeOK, ClockInv, ControlInv, PrefixInv, AttemptInv, Snapshots

LEMMA HashStepInv ==
    ASSUME Inv, HashStep
    PROVE  Inv'
<1> USE HashAssumption DEF Inv, TypeOK, worldVars
<1>1. CASE Open
  BY <1>1 DEF Open, ClockInv, ControlInv, PrefixInv, AttemptInv
<1>2. CASE PreStat
  <2>1. /\ Len(bytes[fd]) \in 0..MaxBlocks /\ mtime[fd] \in 0..MaxClock
        /\ fd \in Inodes
    BY <1>2, FilesAreSequences DEF PreStat, ControlInv
  <2>2. TypeOK'
    BY <1>2, <2>1 DEF PreStat, Snapshot, Snapshots
  <2>3. got' = <<>> /\ Len(got') = 0
    BY <1>2 DEF PreStat
  <2> QED
    BY <1>2, <2>1, <2>2, <2>3
       DEF PreStat, Snapshot, ClockInv, ControlInv, PrefixInv, AttemptInv
<1>3. CASE ReadBlock
  <2>1. /\ fd \in Inodes /\ bytes[fd] \in Seq(Blocks)
        /\ Len(bytes[fd]) \in Nat /\ Len(got) \in Nat
    BY <1>3, FilesAreSequences DEF ReadBlock, ControlInv
  <2>2. bytes[fd][Len(got) + 1] \in Blocks
    BY <1>3, <2>1, ElementOfSeq DEF ReadBlock
  <2>3. /\ got' \in Seq(Blocks) /\ Len(got') = Len(got) + 1
        /\ got'[Len(got) + 1] = bytes[fd][Len(got) + 1]
        /\ \A k \in 1..Len(got) : got'[k] = got[k]
    BY <1>3, <2>1, <2>2, AppendProperties DEF ReadBlock
  <2>4. PrefixInv'
    BY <1>3, <2>1, <2>3 DEF ReadBlock, PrefixInv
  <2> QED
    BY <1>3, <2>3, <2>4 DEF ReadBlock, ClockInv, ControlInv, AttemptInv
<1>4. CASE ReadEnd
  <2>1. fd \in Inodes /\ Len(bytes[fd]) \in Nat /\ Len(got) \in Nat
    BY <1>4, FilesAreSequences DEF ReadEnd, ControlInv
  <2> QED
    BY <1>4, <2>1
       DEF ReadEnd, AtEnd, ClockInv, ControlInv, PrefixInv, AttemptInv
<1>5. CASE PostStat
  <2>0. fd \in Inodes /\ pc = "post"
    BY <1>5 DEF PostStat, ControlInv
  <2>1. CASE Snapshot(fd) = pre
    <3>1. got \in Files
      <4>1. mtime[fd] = pre.mtime
        BY <2>1 DEF Snapshot
      <4>2. Len(got) = Len(bytes[fd]) /\ Len(got) \in 0..MaxBlocks
        BY <2>0, <4>1, FilesAreSequences DEF PrefixInv
      <4>3. got \in [1..Len(got) -> Blocks]
        BY LenProperties
      <4> QED BY <4>2, <4>3 DEF Files
    <3>2. answer' = [inode |-> fd, hashed |-> got] /\ answer' \in Answers
      BY <1>5, <2>0, <2>1, <3>1 DEF PostStat, Return, Answers
    <3> QED
      BY <1>5, <2>0, <2>1, <3>2
         DEF PostStat, Return, ClockInv, ControlInv, PrefixInv, AttemptInv
  <2>2. CASE Snapshot(fd) # pre
    <3>1. clock >= attempt
      <4>1. mtime[fd] = pre.mtime => Snapshot(fd) = pre
        BY <2>0 DEF PrefixInv, Snapshot, Snapshots
      <4> QED BY <2>0, <2>2, <4>1 DEF AttemptInv
    <3>2. CASE AttemptsLeft
      BY <1>5, <2>0, <2>2, <3>1, <3>2
         DEF PostStat, AttemptsLeft, Return, ClockInv, ControlInv, PrefixInv,
             AttemptInv
    <3>3. CASE ~AttemptsLeft
      BY <1>5, <2>0, <2>2, <3>1, <3>3
         DEF PostStat, AttemptsLeft, Return, ClockInv, ControlInv, PrefixInv,
             AttemptInv
    <3> QED BY <3>2, <3>3
  <2> QED BY <2>1, <2>2
<1>6. CASE CallFails
  BY <1>6 DEF CallFails, Return, ClockInv, ControlInv, PrefixInv, AttemptInv
<1> QED BY <1>1, <1>2, <1>3, <1>4, <1>5, <1>6 DEF HashStep

LEMMA WorldInv ==
    ASSUME Honest, Inv, World
    PROVE  Inv'
<1> USE HashAssumption DEF Inv, TypeOK, hashVars
<1>1. CASE Rename
  BY <1>1 DEF Rename, ClockInv, ControlInv, PrefixInv, AttemptInv
<1>2. ASSUME NEW i \in Inodes, Write(i) PROVE Inv'
  <2>1. /\ clock' = clock + 1 /\ clock' \in 0..MaxClock
        /\ mtime' = [mtime EXCEPT ![i] = clock + 1]
        /\ UNCHANGED <<named, pc, attempt, fd, pre, got, answer>>
        /\ \A j \in Inodes \ {i} : bytes'[j] = bytes[j]
        /\ bytes' \in [Inodes -> Files]
    BY <1>2 DEF Write
  <2>2. mtime' \in [Inodes -> 0..MaxClock] /\ mtime'[i] = clock + 1
        /\ \A j \in Inodes \ {i} : mtime'[j] = mtime[j]
    BY <2>1
  <2>3. TypeOK' /\ ClockInv' /\ ControlInv'
    BY <2>1, <2>2 DEF ClockInv, ControlInv, Snapshots
  <2>4. PrefixInv'
    BY <2>1, <2>2 DEF ClockInv, ControlInv, PrefixInv, Snapshots
  <2>5. AttemptInv'
    BY <2>1, <2>2 DEF ControlInv, AttemptInv
  <2> QED BY <2>3, <2>4, <2>5
<1> QED BY <1>1, <1>2 DEF World

LEMMA InvIsInvariant ==
    ASSUME Honest
    PROVE  Spec => []Inv
<1>1. Inv /\ UNCHANGED vars => Inv'
  BY DEF Inv, TypeOK, ClockInv, ControlInv, PrefixInv, AttemptInv, vars,
         worldVars, hashVars
<1>2. Inv /\ [Next]_vars => Inv'
  BY <1>1, HashStepInv, WorldInv DEF Next
<1> QED BY InitInv, <1>2, PTL DEF Spec

\* Every reachable state is well typed.
THEOREM HashTypeCorrect ==
    ASSUME Honest
    PROVE  Spec => []TypeOK
<1>1. Inv => TypeOK
  BY DEF Inv
<1> QED BY <1>1, InvIsInvariant, PTL

\* MAX_HASH_ATTEMPTS attempts absorb any smaller number of writes.
THEOREM UnstableNeedsWriters ==
    ASSUME Honest
    PROVE  Spec => []UnstableOnlyWhenWritten
<1>1. Inv => UnstableOnlyWhenWritten
  BY DEF Inv, AttemptInv, UnstableOnlyWhenWritten
<1> QED BY <1>1, InvIsInvariant, PTL

\* What was hashed when the two snapshots agree is the file.
LEMMA HashedIsFile ==
    ASSUME Inv, pc = "post", Snapshot(fd) = pre
    PROVE  got = bytes[fd] /\ fd \in Inodes
<1> USE DEF Inv, TypeOK
<1>1. fd \in Inodes /\ bytes[fd] \in Seq(Blocks)
  BY FilesAreSequences DEF ControlInv
<1>2. /\ Len(got) = Len(bytes[fd])
      /\ \A k \in 1..Len(got) : got[k] = bytes[fd][k]
  BY DEF Snapshot, PrefixInv
<1> QED BY <1>1, <1>2, SeqEqual

\* hash_file_stable implements the atomic hash: Open, the successful PostStat
\* and the two errors are its steps, everything else stutters.
THEOREM HashingIsAtomic ==
    ASSUME Honest
    PROVE  Spec => HashesOneInstant
<1>1. Init => Atomic!Init
  BY DEF Init, Atomic!Init
<1>2. Inv /\ [Next]_vars => [Atomic!Next]_Atomic!vars
  <2> SUFFICES ASSUME Inv, [Next]_vars PROVE [Atomic!Next]_Atomic!vars
    OBVIOUS
  <2> USE DEF Atomic!Next, Atomic!vars
  <2>1. CASE Open
    BY <2>1 DEF Open, Atomic!Open, worldVars, Inv, ControlInv
  <2>2. CASE PreStat \/ ReadBlock \/ ReadEnd
    BY <2>2 DEF PreStat, ReadBlock, ReadEnd, worldVars
  <2>3. CASE PostStat
    <3>1. CASE Snapshot(fd) = pre
      <4>1. answer' = [inode |-> fd, hashed |-> bytes[fd]] /\ fd # Absent
        BY <2>3, <3>1, HashedIsFile, HashAssumption DEF PostStat, Return
      <4> QED
        BY <2>3, <4>1
           DEF PostStat, Atomic!Answer, worldVars, Inv, ControlInv
    <3>2. CASE Snapshot(fd) # pre
      BY <2>3, <3>2
         DEF PostStat, Return, Atomic!GiveUp, worldVars, Inv, ControlInv
    <3> QED BY <3>1, <3>2
  <2>4. CASE CallFails
    BY <2>4 DEF CallFails, Return, Atomic!GiveUp, worldVars, Inv, ControlInv
  <2>5. CASE World
    BY <2>5 DEF World, Rename, Write, hashVars, Atomic!World, Inv, TypeOK
  <2>6. CASE UNCHANGED vars
    BY <2>6 DEF vars, worldVars, hashVars
  <2> QED BY <2>1, <2>2, <2>3, <2>4, <2>5, <2>6 DEF Next, HashStep
<1> QED
  BY <1>1, <1>2, InvIsInvariant, PTL DEF Spec, HashesOneInstant, Atomic!Spec
=============================================================================

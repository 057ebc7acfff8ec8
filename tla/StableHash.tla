------------------------------ MODULE StableHash ------------------------------
(***************************************************************************)
(* hash_file_stable, one action per system call: open, fstat, chunked      *)
(* reads, fstat, and again if the two snapshots differ.  Anyone may write  *)
(* the files and rename over the path between two calls.                   *)
(*                                                                         *)
(* A file is a sequence of blocks, the unit of one read.  What was hashed  *)
(* is kept as the blocks fed to the hasher.                                *)
(***************************************************************************)
EXTENDS Naturals, Sequences

CONSTANTS
    Inodes,        \* files the path may name
    Absent,        \* what a missing path names, what no descriptor has open
    Blocks,        \* contents of one block
    MaxBlocks,     \* bound: blocks per file
    MaxAttempts,   \* MAX_HASH_ATTEMPTS
    MaxClock,      \* bound: ticks of the clock
    Honest,        \* does each write advance the clock and stamp the mtime?
    Pending,       \* hash_file_stable has not returned
    IoError,       \* it returned the error of a call
    Unstable       \* it returned "changed while being hashed"

Files == UNION {[1..n -> Blocks] : n \in 0..MaxBlocks}

Answers == [inode : Inodes, hashed : Files]

ASSUME HashAssumption ==
    /\ Absent \notin Inodes
    /\ MaxBlocks \in Nat /\ MaxClock \in Nat
    /\ MaxAttempts \in Nat \ {0}
    /\ Honest \in BOOLEAN
    /\ Pending \notin Answers \cup {IoError, Unstable}
    /\ {IoError, Unstable} \cap Answers = {}
    /\ IoError # Unstable

VARIABLES
    named,     \* the inode the path names
    bytes,     \* the blocks of each inode
    mtime,     \* the mtime of each inode
    clock,     \* the clock mtimes are taken from
    pc,        \* the next call
    attempt,   \* _attempt, counted from 1
    fd,        \* the inode behind the open descriptor
    pre,       \* the snapshot taken before reading
    got,       \* the blocks hashed so far; its length is the file offset
    answer     \* what hash_file_stable returns

worldVars == <<named, bytes, mtime, clock>>
hashVars  == <<pc, attempt, fd, pre, got, answer>>
vars      == <<worldVars, hashVars>>

\* Seeded bug: the mtime is left out.
SizeOnly(i) == [size |-> Len(bytes[i]), mtime |-> 0]

\* FileSnapshot.  The inode and the device are those of the descriptor.
Snapshot(i) == [size |-> Len(bytes[i]), mtime |-> mtime[i]]

Snapshots == [size : 0..MaxBlocks, mtime : 0..MaxClock]

TypeOK ==
    /\ named \in Inodes \cup {Absent}
    /\ bytes \in [Inodes -> Files]
    /\ mtime \in [Inodes -> 0..MaxClock]
    /\ clock \in 0..MaxClock
    /\ pc \in {"open", "pre", "read", "post", "done"}
    /\ attempt \in 1..MaxAttempts
    /\ fd \in Inodes \cup {Absent}
    /\ pre \in Snapshots
    /\ got \in Seq(Blocks)
    /\ answer \in Answers \cup {Pending, IoError, Unstable}

-----------------------------------------------------------------------------
(* The caller's thread *)

Return(result) == pc' = "done" /\ answer' = result

Open ==
    /\ pc = "open" /\ named # Absent
    /\ fd' = named
    /\ pc' = "pre"
    /\ UNCHANGED <<worldVars, attempt, pre, got, answer>>

PreStat ==
    /\ pc = "pre"
    /\ pre' = Snapshot(fd)
    /\ got' = <<>>
    /\ pc' = "read"
    /\ UNCHANGED <<worldVars, attempt, fd, answer>>

\* Seeded bug: the file is taken to end where the first snapshot said.
AtRecordedEnd == Len(got) = pre.size

\* read returns 0.
AtEnd == Len(got) >= Len(bytes[fd])

ReadBlock ==
    /\ pc = "read" /\ Len(got) < Len(bytes[fd])
    /\ got' = Append(got, bytes[fd][Len(got) + 1])
    /\ UNCHANGED <<worldVars, pc, attempt, fd, pre, answer>>

ReadEnd ==
    /\ pc = "read" /\ AtEnd
    /\ pc' = "post"
    /\ UNCHANGED <<worldVars, attempt, fd, pre, got, answer>>

\* Seeded bug: the last attempt is never made.
OneAttemptShort == attempt + 1 < MaxAttempts

\* Seeded bug: the attempts are counted from 0 and compared as if from 1.
OneAttemptMore == attempt <= MaxAttempts

AttemptsLeft == attempt < MaxAttempts

PostStat ==
    /\ pc = "post"
    /\ \/ /\ Snapshot(fd) = pre
          /\ Return([inode |-> fd, hashed |-> got])
          /\ UNCHANGED attempt
       \/ /\ Snapshot(fd) # pre /\ AttemptsLeft
          /\ attempt' = attempt + 1
          /\ pc' = "open"
          /\ UNCHANGED answer
       \/ /\ Snapshot(fd) # pre /\ ~AttemptsLeft
          /\ Return(Unstable)
          /\ UNCHANGED attempt
    /\ UNCHANGED <<worldVars, fd, pre, got>>

\* Any call may fail; opening a path that is gone does.
CallFails ==
    /\ pc # "done"
    /\ Return(IoError)
    /\ UNCHANGED <<worldVars, attempt, fd, pre, got>>

-----------------------------------------------------------------------------
(* Everybody else *)

\* One write, truncation or extension.  An honest write is stamped with a time
\* no earlier one had; otherwise the clock may be too coarse to have advanced,
\* or the writer may set the mtime back.
Write(i) ==
    /\ \E new \in Files : bytes' = [bytes EXCEPT ![i] = new]
    /\ clock' \in IF Honest THEN {clock + 1} ELSE {clock, clock + 1}
    /\ clock' <= MaxClock
    /\ \E t \in IF Honest THEN {clock'} ELSE 0..clock' :
          mtime' = [mtime EXCEPT ![i] = t]
    /\ UNCHANGED <<named, hashVars>>

\* The path is renamed over, moved away or moved back.
Rename ==
    /\ named' \in Inodes \cup {Absent}
    /\ UNCHANGED <<bytes, mtime, clock, hashVars>>

-----------------------------------------------------------------------------

Init ==
    /\ named \in Inodes \cup {Absent}
    /\ bytes \in [Inodes -> Files]
    /\ mtime = [i \in Inodes |-> 0]
    /\ clock = 0
    /\ pc = "open" /\ attempt = 1
    /\ fd = Absent
    /\ pre = [size |-> 0, mtime |-> 0]
    /\ got = <<>>
    /\ answer = Pending

HashStep == Open \/ PreStat \/ ReadBlock \/ ReadEnd \/ PostStat \/ CallFails

World == Rename \/ \E i \in Inodes : Write(i)

Next == HashStep \/ World

Spec == Init /\ [][Next]_vars

\* The thread keeps making calls.  A call on an open file never blocks, and it
\* is not obliged to fail.
Progress == Open \/ PreStat \/ ReadBlock \/ ReadEnd \/ PostStat

FairSpec == Spec /\ WF_vars(Progress)

-----------------------------------------------------------------------------

Atomic ==
    INSTANCE AtomicHash WITH Errors <- {IoError, Unstable}

\* hash_file_stable answers with the bytes the file had at one instant, although
\* it reads them block by block while others write.
HashesOneInstant == Atomic!Spec

\* The same promise as one formula: what was hashed is in the file when the
\* answer is given.
AnswerIsSnapshot ==
    [][answer' # answer /\ answer' \in Answers =>
          answer'.hashed = bytes[answer'.inode]]_vars

\* A file is called unstable only after as many writes as there are attempts:
\* an occasional writer is absorbed.
UnstableOnlyWhenWritten == answer = Unstable => clock >= MaxAttempts

\* An open file is always dealt with, whatever its writers do to its length:
\* the call ends, or finds the path gone when it tries to open it again.
LeavesOpenFile == pc \in {"pre", "read", "post"} ~> pc \in {"open", "done"}
=============================================================================

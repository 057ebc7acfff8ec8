------------------------------ MODULE AtomicHash ------------------------------
(***************************************************************************)
(* What hash_file_stable promises its callers: it answers with the bytes   *)
(* the file it opened had at one instant, or it answers with an error.     *)
(* Nothing is promised about files it opened and gave up.                  *)
(***************************************************************************)
CONSTANTS Inodes, Absent, Files, Pending, Errors

VARIABLES
    named,    \* the inode the path names, or Absent
    bytes,    \* the bytes of each inode
    fd,       \* the inode that is open, or Absent
    answer    \* Pending, an error, or an inode with the bytes hashed

vars == <<named, bytes, fd, answer>>

Init ==
    /\ named \in Inodes \cup {Absent}
    /\ bytes \in [Inodes -> Files]
    /\ fd = Absent
    /\ answer = Pending

Open ==
    /\ answer = Pending /\ named # Absent
    /\ fd' = named
    /\ UNCHANGED <<named, bytes, answer>>

Answer ==
    /\ answer = Pending /\ fd # Absent
    /\ answer' = [inode |-> fd, hashed |-> bytes[fd]]
    /\ UNCHANGED <<named, bytes, fd>>

GiveUp ==
    /\ answer = Pending
    /\ answer' \in Errors
    /\ UNCHANGED <<named, bytes, fd>>

\* Everybody else: files are written, paths are renamed.
World ==
    /\ named' \in Inodes \cup {Absent}
    /\ bytes' \in [Inodes -> Files]
    /\ UNCHANGED <<fd, answer>>

Next == Open \/ Answer \/ GiveUp \/ World

Spec == Init /\ [][Next]_vars
=============================================================================

----------------------------- MODULE VersionQuery -----------------------------
(***************************************************************************)
(* src/cpp/GetVersion/main.cpp: GetRunningVersion() looks the version of   *)
(* the package copilot up in the output of `dpkg -l | grep copilot', and   *)
(* main() prints its fields.                                               *)
(*                                                                         *)
(* A line of the output is what the code reads of it: whether the package  *)
(* is copilot itself, and the numbers sscanf stores, or <<>> if the        *)
(* version has not the form major.minor.patch-rc.number.  A uint32_t is    *)
(* the set of the positions of its one bits.                               *)
(***************************************************************************)
EXTENDS Naturals, Sequences

CONSTANTS
  Numbers,     \* the numbers that occur in versions, as sets of bits
  MaxLines     \* bound on the lines of the output

Word == 0 .. 31
Byte == 0 .. 7

Versions == {<<>>} \cup (Numbers \X Numbers \X Numbers \X Numbers)
Lines == [copilot : BOOLEAN, version : Versions]

VARIABLES
  pc,
  queue,       \* the output of dpkg, as a sequence of lines
  result       \* what GetRunningVersion returns

vars == <<pc, queue, result>>

Init ==
  /\ pc = "exec"
  /\ queue = <<>>
  /\ result = {}

\* x << k, and (x >> k) & 0xFF
ShiftLeft(x, k) == {i + k : i \in x} \cap Word
ByteAt(x, k) == {i \in Byte : i + k \in x}

\* Mutant: minor and patch are shifted by less than a byte.
Pack_Nibbles(v) == ShiftLeft(v[1], 24) \cup ShiftLeft(v[2], 20) \cup ShiftLeft(v[3], 8) \cup v[4]

Pack(v) == ShiftLeft(v[1], 24) \cup ShiftLeft(v[2], 16) \cup ShiftLeft(v[3], 8) \cup v[4]

\* popen fails, or the output is read to its end; an empty one is version 0.
Exec ==
  /\ pc = "exec"
  /\ \E n \in 0 .. MaxLines : queue' \in [1 .. n -> Lines]
  /\ pc' = IF queue' = <<>> THEN "returned" ELSE "search"
  /\ UNCHANGED result

Wanted(line) == line.copilot /\ line.version # <<>>

\* Mutant: the loop ends with its first turn.
Search_Once ==
  /\ pc = "search"
  /\ result' = IF Wanted(Head(queue)) THEN Pack(Head(queue).version) ELSE {}
  /\ pc' = "returned"
  /\ UNCHANGED queue

\* A turn of the loop makes a new stream of the whole output and reads its first
\* line: one that is not wanted is read again by the next turn, which changes
\* nothing.
Search ==
  /\ pc = "search"
  /\ Wanted(Head(queue))
  /\ result' = Pack(Head(queue).version)
  /\ pc' = "returned"
  /\ UNCHANGED queue

Next == Exec \/ Search

Spec == Init /\ [][Next]_vars

-----------------------------------------------------------------------------
(* Properties *)

TypeOK ==
  /\ pc \in {"exec", "search", "returned"}
  /\ queue \in Seq(Lines)
  /\ result \subseteq Word

\* Number n of version v fits into a byte, and so do the numbers after it.
FitsFrom(v, n) == \A m \in n .. 4 : v[m] \subseteq Byte

\* The version printed (lines 61-64) is that of a copilot package that dpkg
\* lists, as far as its numbers fit into a byte each: one that does not (line 49)
\* spoils its own field and those before it, and none that follows.
PrintsListedVersion ==
  pc = "returned" /\ queue # <<>> =>
    \E i \in 1 .. Len(queue) :
      /\ Wanted(queue[i])
      /\ \A n \in 1 .. 4 :
           FitsFrom(queue[i].version, n) => ByteAt(result, 32 - 8 * n) = queue[i].version[n]

\* What the comment of GetRunningVersion (lines 8-10) says of 0.2.1-rc.16: it is
\* returned as 0x0002010a.
ReturnsDocumentedNumber ==
  pc = "returned" /\ queue # <<>> =>
    (Head(queue) = [copilot |-> TRUE, version |-> <<{}, {1}, {0}, {4}>>] => result = {1, 3, 8, 17})

\* GetRunningVersion is in its loop, and the output begins with the line it looks
\* for, or with another one.
Found == pc = "search" /\ Wanted(Head(queue))
Hidden == pc = "search" /\ ~Wanted(Head(queue))
=============================================================================

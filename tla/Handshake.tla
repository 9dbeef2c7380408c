------------------------------ MODULE Handshake ------------------------------
(***************************************************************************)
(* src/cpp/shm_example: shm_server.cpp writes the alphabet into a System V *)
(* segment, byte by byte, and polls the first byte until it is '*';        *)
(* shm_client.cpp prints the segment up to the first NUL and then writes   *)
(* '*' over its first byte.  Nothing else orders the two.  The segment     *)
(* outlives both, and neither creates it.                                  *)
(***************************************************************************)
EXTENDS Naturals, Sequences

CONSTANTS
  Clients, Server,
  Letters,      \* how many there are: 'a' to 'z' is 1 .. Letters
  MaxRuns       \* bound on the runs of the server

VARIABLES
  pc,           \* where the server and each client are
  memory,       \* the bytes of the segment, or <<>> if there is none
  position,     \* the pointer s of the server and of each client
  printed,      \* what each client has printed
  runs          \* the number of runs of the server so far

vars == <<pc, memory, position, printed, runs>>

NUL == 0
Star == Letters + 1
Alphabet == [i \in 1 .. Letters |-> i]

\* Addresses 1 .. Letters + 1; a new segment is full of NULs.
Fresh == [i \in 1 .. Letters + 1 |-> NUL]

Init ==
  /\ pc = [p \in Clients \cup {Server} |-> "out"]
  /\ memory \in {<<>>, Fresh}
  /\ position = [p \in Clients \cup {Server} |-> 1]
  /\ printed = [c \in Clients |-> <<>>]
  /\ runs = 0

Goto(p, label) == pc' = [pc EXCEPT ![p] = label]

\* shmget and shmat, which fail when the segment does not exist.
Attach(p, label) ==
  /\ Goto(p, IF memory = <<>> THEN "failed" ELSE label)
  /\ position' = [position EXCEPT ![p] = 1]

-----------------------------------------------------------------------------
(* The server *)

ServerStarts ==
  /\ pc[Server] \in {"out", "returned"}
  /\ runs < MaxRuns
  /\ runs' = runs + 1
  /\ Attach(Server, "write")
  /\ UNCHANGED <<memory, printed>>

\* *s++ = c for every letter, then *s = NULL.
Write ==
  /\ pc[Server] = "write"
  /\ LET i == position[Server]
     IN  /\ memory' = [memory EXCEPT ![i] = IF i > Letters THEN NUL ELSE i]
         /\ position' = [position EXCEPT ![Server] = i + 1]
         /\ Goto(Server, IF i > Letters THEN "poll" ELSE "write")
  /\ UNCHANGED <<printed, runs>>

\* Mutant: the poll looks where the pointer is.
Poll_AtTheEnd ==
  /\ pc[Server] = "poll"
  /\ memory[Letters + 1] = Star
  /\ Goto(Server, "returned")
  /\ UNCHANGED <<memory, position, printed, runs>>

\* The poll finds the mark; until then it sleeps and looks again.
Poll ==
  /\ pc[Server] = "poll"
  /\ memory[1] = Star
  /\ Goto(Server, "returned")
  /\ UNCHANGED <<memory, position, printed, runs>>

-----------------------------------------------------------------------------
(* A client *)

ClientStarts(c) ==
  /\ pc[c] = "out"
  /\ Attach(c, "read")
  /\ UNCHANGED <<memory, printed, runs>>

\* The test of the loop, *s != NULL.
Read(c) ==
  /\ pc[c] = "read"
  /\ Goto(c, IF memory[position[c]] = NUL THEN "mark" ELSE "put")
  /\ UNCHANGED <<memory, position, printed, runs>>

\* putchar(*s), which reads the byte again, and s++.
Put(c) ==
  /\ pc[c] = "put"
  /\ printed' = [printed EXCEPT ![c] = Append(@, memory[position[c]])]
  /\ position' = [position EXCEPT ![c] = @ + 1]
  /\ Goto(c, "read")
  /\ UNCHANGED <<memory, runs>>

\* Mutant: the mark goes where the pointer is.
Mark_AtTheEnd(c) ==
  /\ pc[c] = "mark"
  /\ memory' = [memory EXCEPT ![position[c]] = Star]
  /\ Goto(c, "returned")
  /\ UNCHANGED <<position, printed, runs>>

Mark(c) ==
  /\ pc[c] = "mark"
  /\ memory' = [memory EXCEPT ![1] = Star]
  /\ Goto(c, "returned")
  /\ UNCHANGED <<position, printed, runs>>

-----------------------------------------------------------------------------
ServerNext == Write \/ Poll
ClientNext(c) == Read(c) \/ Put(c) \/ Mark(c)

Next ==
  \/ ServerStarts \/ ServerNext
  \/ \E c \in Clients : ClientStarts(c) \/ ClientNext(c)

Spec == Init /\ [][Next]_vars

-----------------------------------------------------------------------------
(* Properties *)

TypeOK ==
  /\ pc \in [Clients \cup {Server} -> {"out", "failed", "write", "poll",
                                    "read", "put", "mark", "returned"}]
  /\ pc[Server] \in {"out", "failed", "write", "poll", "returned"}
  /\ \A c \in Clients : pc[c] \in {"out", "failed", "read", "put", "mark", "returned"}
  /\ memory = <<>> \/ memory \in [1 .. Letters + 1 -> 0 .. Letters + 1]
  /\ position \in [Clients \cup {Server} -> 1 .. Letters + 2]
  /\ printed \in [Clients -> Seq(1 .. Letters + 1)]
  /\ runs \in 0 .. MaxRuns

\* A client that runs beside the server, or before it, or after others, prints a
\* prefix of the alphabet (client, lines 35-36), whose first letter a mark may
\* have replaced, and stays inside the segment, although it reads a byte once for
\* the test and once for the output.
PrintsPrefix ==
  \A c \in Clients :
    /\ position[c] <= Letters + 1
    /\ \A i \in 1 .. Len(printed[c]) : printed[c][i] \in {i} \cup (IF i = 1 THEN {Star} ELSE {})

\* The server polls and a client has started to read; the server has returned.
Awaited(c) == pc[Server] = "poll" /\ pc[c] = "read" /\ position[c] = 1
Answered == pc[Server] = "returned"

\* What the server says of its poll (server, lines 42-47): when it returns, a
\* client has read what it put there.
ReturnsWhenRead ==
  pc[Server] = "returned" =>
    \E c \in Clients : Len(printed[c]) = Letters
=============================================================================

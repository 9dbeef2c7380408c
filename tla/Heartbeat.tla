------------------------------ MODULE Heartbeat ------------------------------
(***************************************************************************)
(* src/cpp/multicast: server.cpp sends a heartbeat to a multicast group    *)
(* every second, client.cpp prints those it receives.  Both keep their     *)
(* socket in a global fd, which TryOpenConnection opens when it is -1 and  *)
(* which they close and reset when a transfer fails.  What the datagrams   *)
(* hold changes nothing but the output.                                    *)
(***************************************************************************)
EXTENDS Naturals

VARIABLES
  pc,            \* where the server and the client are
  fd,            \* is the value of the process's fd other than -1?
  sockets        \* the number of sockets the process has open

vars == <<pc, fd, sockets>>

Programs == {"server", "client"}

Init ==
  /\ pc = [p \in Programs |-> "open"]
  /\ fd = [p \in Programs |-> FALSE]
  /\ sockets = [p \in Programs |-> 0]

Goto(p, label) == pc' = [pc EXCEPT ![p] = label]

-----------------------------------------------------------------------------
(* TryOpenConnection *)

KeepOpen(p) ==
  /\ pc[p] = "open" /\ fd[p]
  /\ Goto(p, "transfer")
  /\ UNCHANGED <<fd, sockets>>

Open(p) ==
  /\ pc[p] = "open" /\ ~fd[p]
  /\ fd' = [fd EXCEPT ![p] = TRUE]
  /\ sockets' = [sockets EXCEPT ![p] = @ + 1]
  /\ Goto(p, "transfer")

\* socket() fails, or a later step does: then the guard closes the socket, whose
\* number stays in fd.  Either way main() ends.
OpenFails(p) ==
  /\ pc[p] = "open" /\ ~fd[p]
  /\ fd' \in {fd, [fd EXCEPT ![p] = TRUE]}
  /\ Goto(p, "ended")
  /\ UNCHANGED sockets

-----------------------------------------------------------------------------
(* main() *)

\* Mutant: fd is reset, the socket is not closed.
TransferFails_Leaks(p) ==
  /\ pc[p] = "transfer"
  /\ fd' = [fd EXCEPT ![p] = FALSE]
  /\ Goto(p, "open")
  /\ UNCHANGED sockets

\* close(fd), fd = -1: sendto fails; recvfrom fails and was not interrupted, or
\* returns no data.
TransferFails(p) ==
  /\ pc[p] = "transfer"
  /\ sockets' = [sockets EXCEPT ![p] = @ - 1]
  /\ fd' = [fd EXCEPT ![p] = FALSE]
  /\ Goto(p, "open")

\* The heartbeat is sent; recvfrom is interrupted, or its datagram printed or not.
TransferEnds(p) ==
  /\ pc[p] = "transfer"
  /\ Goto(p, "open")
  /\ UNCHANGED <<fd, sockets>>

-----------------------------------------------------------------------------
Next ==
  \E p \in Programs :
    KeepOpen(p) \/ Open(p) \/ OpenFails(p) \/ TransferFails(p) \/ TransferEnds(p)

Spec == Init /\ [][Next]_vars

-----------------------------------------------------------------------------
(* Properties *)

TypeOK ==
  /\ pc \in [Programs -> {"open", "transfer", "ended"}]
  /\ fd \in [Programs -> BOOLEAN]
  /\ sockets \in [Programs -> Nat]

\* A transfer uses an open socket, the only one of its process, although a failed
\* TryOpenConnection leaves in fd the number of the socket its guard has closed
\* (line 32): fd is stale only in a main() that has ended, without a socket.
OwnsItsSocket ==
  \A p \in Programs :
    /\ pc[p] = "transfer" => fd[p] /\ sockets[p] = 1
    /\ pc[p] = "open" => sockets[p] = IF fd[p] THEN 1 ELSE 0
    /\ pc[p] = "ended" => sockets[p] = 0
=============================================================================

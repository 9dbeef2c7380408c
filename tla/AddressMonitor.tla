--------------------------- MODULE AddressMonitor ---------------------------
(***************************************************************************)
(* src/c/rtnet/main.c: print the address of a network interface, subscribe *)
(* to the kernel's notifications, and print it again after each one that   *)
(* ip_changed() takes for a change of this interface.                      *)
(*                                                                         *)
(* External are the interface, with at most one address of each family and *)
(* a link that runs or not, and the notifications: one datagram for each   *)
(* change, kept in a socket buffer of bounded size.  When it is full a     *)
(* notification is lost and the next recv() fails.                         *)
(***************************************************************************)
EXTENDS Naturals, Sequences

CONSTANTS
  Addresses,      \* the addresses an interface may have
  NoAddress,      \* the interface has none of a family
  Loopback,       \* what is printed then, 127.0.0.1
  MaxQueue,       \* the capacity of the socket buffer
  MaxChanges      \* bound on the changes of the interfaces

Families == {"AF_INET", "AF_INET6"}
Messages == [type : {"RTM_NEWADDR", "RTM_DELADDR", "RTM_NEWLINK"}, nic : {"own", "other"}]

VARIABLES
  pc,             \* "start", "create", "bind", "recv", "print", "exited"
  address,        \* the address of each family
  running,        \* is the link up
  queue,          \* the datagrams in the socket buffer
  overrun,        \* was a datagram lost that recv() has not reported yet
  shown,          \* what was printed last
  missed,         \* history: has anything changed unnoticed since
  changes         \* the changes so far

nicVars == <<address, running, changes>>
vars == <<pc, nicVars, queue, overrun, shown, missed>>

Has(f) == address[f] # NoAddress

\* What print_ip() prints when getnameinfo() fails for the families unnamed: the
\* IPv4 address first, then the IPv6 address.
PrintedWithout(unnamed) ==
  IF Has("AF_INET") /\ "AF_INET" \notin unnamed
  THEN [host |-> address["AF_INET"], active |-> running]
  ELSE IF Has("AF_INET6") /\ "AF_INET6" \notin unnamed
  THEN [host |-> address["AF_INET6"], active |-> running]
  ELSE [host |-> Loopback, active |-> FALSE]

Printed == PrintedWithout({})

Init ==
  /\ pc = "start"
  /\ address \in [Families -> Addresses \cup {NoAddress}]
  /\ running \in BOOLEAN
  /\ queue = <<>>
  /\ overrun = FALSE
  /\ shown = [host |-> NoAddress, active |-> FALSE]
  /\ missed = FALSE
  /\ changes = 0

-----------------------------------------------------------------------------
(* The kernel. *)

\* The socket is a member of the groups from bind() on.
Subscribed == pc \in {"recv", "print"}

Send(type, nic) ==
  IF ~Subscribed \/ overrun
  THEN UNCHANGED <<queue, overrun>>
  ELSE IF Len(queue) < MaxQueue
  THEN queue' = Append(queue, [type |-> type, nic |-> nic]) /\ UNCHANGED overrun
  ELSE overrun' = TRUE /\ UNCHANGED queue

CountChange == changes < MaxChanges /\ changes' = changes + 1

\* An address is added, or the link changes: the program may not be listening.
Gain ==
  /\ CountChange
  /\ \/ /\ \E f \in Families, a \in Addresses :
             address[f] = NoAddress /\ address' = [address EXCEPT ![f] = a]
        /\ UNCHANGED running
        /\ Send("RTM_NEWADDR", "own")
     \/ /\ running' = ~running
        /\ UNCHANGED address
        /\ Send("RTM_NEWLINK", "own")
  /\ missed' = (missed \/ pc \in {"create", "bind"})
  /\ UNCHANGED <<pc, shown>>

\* An address is deleted, of which ip_changed() takes no notice.
Lose ==
  /\ CountChange
  /\ \E f \in Families :
       Has(f) /\ address' = [address EXCEPT ![f] = NoAddress]
  /\ Send("RTM_DELADDR", "own")
  /\ missed' = (missed \/ pc # "start")
  /\ UNCHANGED <<pc, running, shown>>

\* Something changes at another interface.
Other ==
  /\ CountChange
  /\ \E type \in {"RTM_NEWADDR", "RTM_DELADDR", "RTM_NEWLINK"} : Send(type, "other")
  /\ UNCHANGED <<pc, address, running, shown, missed>>

-----------------------------------------------------------------------------
(* The program. *)

\* print_ip, which prints nothing if getifaddrs fails.
print_ip ==
  \/ \E unnamed \in SUBSET Families :
       shown' = PrintedWithout(unnamed) /\ missed' = (shown' # Printed)
  \/ shown' = shown /\ missed' = TRUE

FirstPrint ==
  /\ pc = "start"
  /\ print_ip
  /\ pc' = "create"
  /\ UNCHANGED <<nicVars, queue, overrun>>

\* create_sock: socket() and bind(), either of which may fail.
CreateSocket ==
  /\ pc = "create"
  /\ pc' \in {"bind", "exited"}
  /\ UNCHANGED <<nicVars, queue, overrun, shown, missed>>

Bind ==
  /\ pc = "bind"
  /\ pc' \in {"recv", "exited"}
  /\ UNCHANGED <<nicVars, queue, overrun, shown, missed>>

\* Mutant: a change of the link is no reason to print.
Relevant_NoLink(m) == m.type = "RTM_NEWADDR" /\ m.nic = "own"

\* What ip_changed() counts as a change.
Relevant(m) == m.type \in {"RTM_NEWADDR", "RTM_NEWLINK"} /\ m.nic = "own"

\* ip_changed, recv() having returned a datagram.
ip_changed ==
  /\ pc = "recv" /\ queue # <<>> /\ ~overrun
  /\ queue' = Tail(queue)
  /\ pc' = IF Relevant(Head(queue)) THEN "print" ELSE "recv"
  /\ UNCHANGED <<nicVars, overrun, shown, missed>>

\* recv() fails, as it does after a loss: main() returns.
RecvFails ==
  /\ pc = "recv"
  /\ pc' = "exited"
  /\ queue' = <<>> /\ overrun' = FALSE
  /\ UNCHANGED <<nicVars, shown, missed>>

PrintAgain ==
  /\ pc = "print"
  /\ print_ip
  /\ pc' = "recv"
  /\ UNCHANGED <<nicVars, queue, overrun>>

Program ==
  FirstPrint \/ CreateSocket \/ Bind \/ ip_changed \/ RecvFails \/ PrintAgain

Next == Gain \/ Lose \/ Other \/ Program

Spec == Init /\ [][Next]_vars

-----------------------------------------------------------------------------

TypeOK ==
  /\ pc \in {"start", "create", "bind", "recv", "print", "exited"}
  /\ address \in [Families -> Addresses \cup {NoAddress}] /\ running \in BOOLEAN
  /\ queue \in Seq(Messages) /\ Len(queue) <= MaxQueue
  /\ overrun \in BOOLEAN /\ missed \in BOOLEAN
  /\ shown \in [host : Addresses \cup {NoAddress, Loopback}, active : BOOLEAN]
  /\ changes \in 0 .. MaxChanges

\* While the program waits in recv() with nothing to receive, what it printed
\* last is what the interface has.  The exceptions, of which each is seen by no
\* later notification, are: a change between the first print (line 173) and
\* bind() (line 30), a deleted address (line 73 has no case for it), a
\* getifaddrs() that failed or a getnameinfo() (line 131) that made another
\* address be printed, and a lost notification, after which the program ends
\* rather than print something stale.
ShownIsCurrent ==
  pc = "recv" /\ queue = <<>> /\ ~overrun /\ ~missed => shown = Printed
=============================================================================

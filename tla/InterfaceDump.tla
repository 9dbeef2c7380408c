---------------------------- MODULE InterfaceDump ----------------------------
(***************************************************************************)
(* src/c/rtnet/ex_rtnetlink.c lists the network interfaces and their IPv4  *)
(* addresses: one dump of the links fills an array, a second one, of the   *)
(* addresses, fills in the array's entries.  The kernel sends a dump in    *)
(* parts and in the order of the interfaces' indices; the interfaces come, *)
(* go and change their addresses meanwhile.                                *)
(***************************************************************************)
EXTENDS Naturals, Sequences, FiniteSets

CONSTANTS
  Indices,        \* the indices of interfaces
  Addresses,
  MaxAddresses,   \* the length of ipv4_addrs
  MaxUpdates      \* bound on the changes of the interfaces

VARIABLES
  pc,
  queue,          \* the indices that the dump under way has still to visit
  interfaces,     \* the array: records of an index and its addresses
  links,          \* the addresses of each interface that exists
  stable,         \* history: the addresses that were there all the time
  updates

vars == <<pc, queue, interfaces, links, stable, updates>>

\* The addresses of the interfaces of a set.
Maps == UNION {[I -> SUBSET Addresses] : I \in SUBSET Indices}

Init ==
  /\ pc = "links"
  /\ queue = Indices
  /\ interfaces = <<>>
  /\ links \in Maps
  /\ stable = links
  /\ updates = 0

-----------------------------------------------------------------------------
(* The interfaces *)

\* What both functions have in common, restricted to the indices of both.
Common(f, g) == [i \in DOMAIN f \cap DOMAIN g |-> f[i] \cap g[i]]

Change ==
  /\ updates < MaxUpdates
  /\ updates' = updates + 1
  /\ \/ \E i \in DOMAIN links, A \in SUBSET Addresses : links' = [links EXCEPT ![i] = A]
     \/ \E i \in DOMAIN links : links' = [j \in DOMAIN links \ {i} |-> links[j]]
     \/ \E i \in Indices \ DOMAIN links :
          links' = [j \in DOMAIN links \cup {i} |-> IF j = i THEN {} ELSE links[j]]
  /\ stable' = Common(stable, links')
  /\ UNCHANGED <<pc, queue, interfaces>>

\* The kernel goes on with the dump at the least index left.
Visits(i) == i \in queue /\ \A j \in queue : i <= j

-----------------------------------------------------------------------------
(* get_interfaces *)

Link(i) ==
  /\ pc = "links" /\ Visits(i)
  /\ interfaces' = IF i \in DOMAIN links
                     THEN Append(interfaces, [index |-> i, ipv4 |-> {}])
                     ELSE interfaces
  /\ queue' = queue \ {i}
  /\ UNCHANGED <<pc, links, stable, updates>>

LinksDone ==
  /\ pc = "links" /\ queue = {}
  /\ pc' = "addresses"
  /\ queue' = Indices
  /\ UNCHANGED <<interfaces, links, stable, updates>>

\* send or recvmsg fails, or the kernel reports an error: main() fails too.
LinksFail ==
  /\ pc = "links"
  /\ pc' = "failed"
  /\ UNCHANGED <<queue, interfaces, links, stable, updates>>

-----------------------------------------------------------------------------
(* get_ip_addresses *)

\* What ipv4_addrs takes of the addresses A.
Taken(A) == {T \in SUBSET A : IF Cardinality(A) <= MaxAddresses
                                THEN T = A ELSE Cardinality(T) = MaxAddresses}

\* Mutant: the interface with index i is looked for at the place i.
Address_ByPlace(i) ==
  /\ pc = "addresses" /\ Visits(i)
  /\ queue' = queue \ {i}
  /\ IF i \in DOMAIN links
       THEN \E T \in Taken(links[i]) :
              interfaces' = [k \in DOMAIN interfaces |->
                IF k = i THEN [interfaces[k] EXCEPT !.ipv4 = T] ELSE interfaces[k]]
       ELSE UNCHANGED interfaces
  /\ UNCHANGED <<pc, links, stable, updates>>

\* The addresses of an interface that the first dump did not list are dropped.
Address(i) ==
  /\ pc = "addresses" /\ Visits(i)
  /\ queue' = queue \ {i}
  /\ IF i \in DOMAIN links
       THEN \E T \in Taken(links[i]) :
              interfaces' = [k \in DOMAIN interfaces |->
                IF interfaces[k].index = i THEN [interfaces[k] EXCEPT !.ipv4 = T]
                                           ELSE interfaces[k]]
       ELSE UNCHANGED interfaces
  /\ UNCHANGED <<pc, links, stable, updates>>

AddressesDone ==
  /\ pc = "addresses" /\ queue = {}
  /\ pc' = "printed"
  /\ UNCHANGED <<queue, interfaces, links, stable, updates>>

\* send or recvmsg fails, or the kernel reports an error: main() prints what it
\* has all the same.
AddressesFail ==
  /\ pc = "addresses"
  /\ pc' = "printed partly"
  /\ UNCHANGED <<queue, interfaces, links, stable, updates>>

-----------------------------------------------------------------------------
Next ==
  \/ Change
  \/ \E i \in Indices : Link(i) \/ Address(i)
  \/ LinksDone \/ LinksFail \/ AddressesDone \/ AddressesFail

Spec == Init /\ [][Next]_vars

-----------------------------------------------------------------------------
(* Properties *)

Entries == [index : Indices, ipv4 : SUBSET Addresses]

TypeOK ==
  /\ pc \in {"links", "addresses", "printed", "printed partly", "failed"}
  /\ queue \subseteq Indices
  /\ interfaces \in Seq(Entries)
  /\ links \in Maps /\ stable \in Maps
  /\ updates \in 0 .. MaxUpdates

\* Does entry k show the addresses that interface i has had all the time, unless
\* it is full?
Shows(k, i) ==
  /\ interfaces[k].index = i
  /\ stable[i] \subseteq interfaces[k].ipv4 \/ Cardinality(interfaces[k].ipv4) = MaxAddresses

\* Although the dumps are neither atomic nor of the same moment, no interface is
\* listed twice, and what was there all the time is listed: the interface, and
\* its addresses unless the entry is full (lines 40-215).
StableIsListed ==
  /\ \A k, l \in DOMAIN interfaces : interfaces[k].index = interfaces[l].index => k = l
  /\ pc = "printed" => \A i \in DOMAIN stable : \E k \in DOMAIN interfaces : Shows(k, i)
=============================================================================

----------------------------- MODULE PromiseMap -----------------------------
(***************************************************************************)
(* The request-response matching of src/cpp/promise_map/main.cpp.  A       *)
(* requester sends a request, puts a pointer to a promise on its stack     *)
(* into the shared map, under the key of the request, and waits for the    *)
(* promise with a timeout; the thread that receives acknowledgements finds *)
(* the entry of an acknowledgement's key, reads the pointer in it, and     *)
(* satisfies the promise.                                                  *)
(*                                                                         *)
(* Nothing protects the map: each of its operations is taken here to be    *)
(* atomic, which is the best the code can hope for.  What the receiver     *)
(* holds between its steps may be gone: the node of the map, freed by an   *)
(* erase(), and the promise, by the requester's return.  Their memory      *)
(* keeps its contents until a later insert() takes the node, or a later    *)
(* request's promise the place on the stack; a place is named after the    *)
(* request that was the first to have it.  The network loses, duplicates   *)
(* and reorders acknowledgements.                                          *)
(***************************************************************************)
EXTENDS Naturals, FiniteSets

CONSTANTS
  Requests,     \* the calls of ForwardRequest
  Keys,         \* the keys <<mid, session_ix, rcs_tick>>
  None,
  MaxCopies     \* bound on the copies of one acknowledgement

ASSUME ConstantsAssumption == None \notin Requests \cup Keys /\ MaxCopies \in Nat

VARIABLES
  key,          \* the key of each request
  pc,           \* per request: "send", "construct", "insert", "wait", "erase",
                \* "return", "done"
  promise,      \* per request: "none", "pending", "satisfied", "destroyed"
  place,        \* per request: where its promise lies or lay, or None
  value,        \* per request: the key of the acknowledgement in its promise
  result,       \* per request: what ForwardRequest returned, or None
  promise_map_, \* per key: the node of its entry, or None
  second,       \* per node: the request to whose promise it points, or None
  acks,         \* per key: the acknowledgements on their way
  received,     \* the key being handled by Receive, or None
  it,           \* the node Receive has found, or None
  target,       \* the request to whose promise it->second points, once read
  copies,       \* history: per key, the acknowledgements sent so far
  stale,        \* history: has the node of `it' been erased
  errors        \* history: "dangling" uses of a node or promise, and calls of
                \* set_value that find a promise "satisfied_twice"

requestVars == <<pc, promise, place, value, result>>
mapVars == <<promise_map_, second>>
networkVars == <<acks, copies>>
receiverVars == <<received, it, target, stale, errors>>
vars == <<key, requestVars, mapVars, networkVars, receiverVars>>

Init ==
  /\ key \in [Requests -> Keys]
  /\ pc = [r \in Requests |-> "send"]
  /\ promise = [r \in Requests |-> "none"]
  /\ place = [r \in Requests |-> None]
  /\ value = [r \in Requests |-> None]
  /\ result = [r \in Requests |-> None]
  /\ promise_map_ = [k \in Keys |-> None]
  /\ second = [n \in Requests |-> None]
  /\ acks = [k \in Keys |-> 0]
  /\ received = None
  /\ it = None
  /\ target = None
  /\ copies = [k \in Keys |-> 0]
  /\ stale = FALSE
  /\ errors = {}

Goto(r, label) == pc' = [pc EXCEPT ![r] = label]

Living(r) == promise[r] \in {"pending", "satisfied"}

-----------------------------------------------------------------------------
(* ForwardRequest, lines 83-111 *)

\* The request is sent before its promise exists.
Send(r) ==
  /\ pc[r] = "send"
  /\ Goto(r, "construct")
  /\ UNCHANGED <<key, promise, place, value, result, mapVars, networkVars, receiverVars>>

\* The promise lies on the stack, perhaps where one lay that is destroyed.
Construct(r) ==
  /\ pc[r] = "construct"
  /\ \E p \in {r} \cup {place[s] : s \in {s \in Requests : promise[s] = "destroyed"}} :
       /\ \A s \in Requests : Living(s) => place[s] # p
       /\ place' = [place EXCEPT ![r] = p]
  /\ promise' = [promise EXCEPT ![r] = "pending"]
  /\ Goto(r, "insert")
  /\ UNCHANGED <<key, value, result, mapVars, networkVars, receiverVars>>

\* insert() leaves an entry that has the key already as it is.  A new entry is a
\* node of its own, perhaps one that was freed.
Insert(r) ==
  /\ pc[r] = "insert"
  /\ IF promise_map_[key[r]] # None
       THEN UNCHANGED mapVars
       ELSE \E n \in {r} \cup {n \in Requests : second[n] # None} :
              /\ \A k \in Keys : promise_map_[k] # n
              /\ promise_map_' = [promise_map_ EXCEPT ![key[r]] = n]
              /\ second' = [second EXCEPT ![n] = r]
  /\ Goto(r, "wait")
  /\ UNCHANGED <<key, promise, place, value, result, networkVars, receiverVars>>

\* wait_for finds the promise satisfied ...
Wake(r) ==
  /\ pc[r] = "wait"
  /\ promise[r] = "satisfied"
  /\ result' = [result EXCEPT ![r] = value[r]]
  /\ Goto(r, "erase")
  /\ UNCHANGED <<key, promise, place, value, mapVars, networkVars, receiverVars>>

\* ... or times out: the result is false.
Timeout(r) ==
  /\ pc[r] = "wait"
  /\ promise[r] = "pending"
  /\ Goto(r, "erase")
  /\ UNCHANGED <<key, promise, place, value, result, mapVars, networkVars, receiverVars>>

\* Mutant: the entry stays in the map.
Erase_LeavesEntry(r) ==
  /\ pc[r] = "erase"
  /\ Goto(r, "return")
  /\ UNCHANGED <<key, promise, place, value, result, mapVars, networkVars, receiverVars>>

\* erase(key) frees the node of the key's entry, whoever has inserted it.
Erase(r) ==
  /\ pc[r] = "erase"
  /\ promise_map_' = [promise_map_ EXCEPT ![key[r]] = None]
  /\ stale' = (stale \/ (it # None /\ promise_map_[key[r]] = it))
  /\ Goto(r, "return")
  /\ UNCHANGED <<key, promise, place, value, result, second, networkVars,
                 received, it, target, errors>>

\* The promise is destroyed on return.
Return(r) ==
  /\ pc[r] = "return"
  /\ promise' = [promise EXCEPT ![r] = "destroyed"]
  /\ Goto(r, "done")
  /\ UNCHANGED <<key, place, value, result, mapVars, networkVars, receiverVars>>

-----------------------------------------------------------------------------
(* The network and Receive, lines 127-149 *)

\* The peer answers a request that was sent; the network may repeat the answer.
Answer(k) ==
  /\ \E r \in Requests : key[r] = k /\ pc[r] # "send"
  /\ copies[k] < MaxCopies
  /\ copies' = [copies EXCEPT ![k] = @ + 1]
  /\ acks' = [acks EXCEPT ![k] = @ + 1]
  /\ UNCHANGED <<key, requestVars, mapVars, receiverVars>>

Lose(k) ==
  /\ acks[k] > 0
  /\ acks' = [acks EXCEPT ![k] = @ - 1]
  /\ UNCHANGED <<key, requestVars, mapVars, copies, receiverVars>>

\* Mutant: a message that was handled is handled again.
Find_NotConsumed(k) ==
  /\ received = None
  /\ acks[k] > 0
  /\ IF promise_map_[k] = None
       THEN UNCHANGED <<received, it>>
       ELSE received' = k /\ it' = promise_map_[k]
  /\ UNCHANGED <<key, requestVars, mapVars, networkVars, target, stale, errors>>

\* Mutant: the search compares less than the whole key.
Find_AnyEntry(k) ==
  /\ received = None
  /\ acks[k] > 0
  /\ acks' = [acks EXCEPT ![k] = @ - 1]
  /\ \E l \in Keys :
       /\ promise_map_[l] # None
       /\ received' = k /\ it' = promise_map_[l]
  /\ UNCHANGED <<key, requestVars, mapVars, copies, target, stale, errors>>

\* find(): an iterator to the entry of the key, or "not found".
Find(k) ==
  /\ received = None
  /\ acks[k] > 0
  /\ acks' = [acks EXCEPT ![k] = @ - 1]
  /\ IF promise_map_[k] = None
       THEN UNCHANGED <<received, it>>
       ELSE received' = k /\ it' = promise_map_[k]
  /\ UNCHANGED <<key, requestVars, mapVars, copies, target, stale, errors>>

Dangling(condition) == IF condition THEN {"dangling"} ELSE {}

\* it->second: the pointer of the entry, or what a freed node holds by now.
Dereference ==
  /\ received # None /\ target = None
  /\ target' = second[it]
  /\ errors' = errors \cup Dangling(stale)
  /\ UNCHANGED <<key, requestVars, mapVars, networkVars, received, it, stale>>

\* ->set_value(): on the promise that lies where the pointer points, which throws
\* if that is satisfied; if none lies there any more, nothing that matters here.
SetValue ==
  /\ target # None
  /\ LET there == {r \in Requests : Living(r) /\ place[r] = place[target]}
     IN  /\ promise' = [r \in Requests |-> IF r \in there THEN "satisfied" ELSE promise[r]]
         /\ value' = [r \in Requests |->
                        IF r \in there /\ promise[r] = "pending" THEN received ELSE value[r]]
         /\ errors' = errors \cup Dangling(target \notin there) \cup
              {"satisfied_twice" : r \in {r \in there : promise[r] = "satisfied"}}
  /\ received' = None /\ it' = None /\ target' = None /\ stale' = FALSE
  /\ UNCHANGED <<key, pc, place, result, mapVars, networkVars>>

-----------------------------------------------------------------------------
RequesterStep(r) ==
  \/ Send(r) \/ Construct(r) \/ Insert(r)
  \/ Wake(r) \/ Timeout(r) \/ Erase(r) \/ Return(r)

Next ==
  \/ \E r \in Requests : RequesterStep(r)
  \/ \E k \in Keys : Answer(k) \/ Lose(k) \/ Find(k)
  \/ Dereference \/ SetValue

Spec == Init /\ [][Next]_vars

-----------------------------------------------------------------------------
(* Properties *)

\* Every entry of the map is a node of its own that points to a living promise,
\* of a request with that key, also when requests share a key and erase each
\* other's entries, and whatever set_value has been called on.
EntriesPointToLivePromises ==
  /\ \A k \in Keys : promise_map_[k] # None =>
       /\ key[second[promise_map_[k]]] = k
       /\ Living(second[promise_map_[k]])
  /\ \A k, l \in Keys : promise_map_[k] = promise_map_[l] /\ k # l => promise_map_[k] = None

\* As long as Receive has not used a node or a promise that was gone, a request
\* returns the acknowledgement of its own key or none, whatever is lost, repeated
\* or late.  Afterwards it may return that of another, whose promise lay where its
\* own lies.
ResponseMatchesRequest ==
  "dangling" \notin errors => \A r \in Requests : result[r] \in {None, key[r]}

\* A promise is satisfied twice, which throws in the receiving thread (line 143),
\* only if there was more than one acknowledgement of its key, repeated or of
\* another request, or Receive has used a node or a promise that was gone.
TwiceOnlyIfRepeated ==
  "satisfied_twice" \in errors => "dangling" \in errors \/ \E k \in Keys : copies[k] > 1

TimedOut(r) == pc[r] \in {"erase", "return", "done"} /\ result[r] = None

\* If an acknowledgement comes once, the iterator and then the pointer that Receive
\* holds (lines 141-143) are good, and to a pending promise, until a request with
\* this key times out: its own requester, which destroys the promise, or another
\* one, whose erase() frees the node.
PointerLivesUntilTimeout ==
  /\ "dangling" \notin errors
  /\ received # None /\ copies[received] = 1
  /\ \A r \in Requests : key[r] = received => ~TimedOut(r)
  => IF target = None
       THEN ~stale /\ promise[second[it]] = "pending"
       ELSE promise[target] = "pending"
=============================================================================

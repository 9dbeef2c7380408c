-------------------------- MODULE PromiseMapProofs --------------------------
(***************************************************************************)
(* What PromiseMap guarantees for any number of requests and keys.  The    *)
(* properties are consequences of the life of a promise (LifeInv), of      *)
(* where promises and entries lie (PlaceInv, MapInv), of what Receive      *)
(* holds (ReceiveInv), and of a count of acknowledgements: those on their  *)
(* way, the one in Receive, and the one that satisfied a promise are as    *)
(* many different copies (CopiesInv).  What is said of values and of       *)
(* copies holds until Receive uses a node or a promise that is gone.       *)
(***************************************************************************)
EXTENDS PromiseMap, TLAPS

TypeOK ==
  /\ key \in [Requests -> Keys]
  /\ pc \in [Requests -> {"send", "construct", "insert", "wait", "erase", "return", "done"}]
  /\ promise \in [Requests -> {"none", "pending", "satisfied", "destroyed"}]
  /\ place \in [Requests -> Requests \cup {None}]
  /\ value \in [Requests -> Keys \cup {None}]
  /\ result \in [Requests -> Keys \cup {None}]
  /\ promise_map_ \in [Keys -> Requests \cup {None}]
  /\ second \in [Requests -> Requests \cup {None}]
  /\ acks \in [Keys -> Nat]
  /\ copies \in [Keys -> Nat]
  /\ received \in Keys \cup {None}
  /\ it \in Requests \cup {None}
  /\ target \in Requests \cup {None}
  /\ stale \in BOOLEAN

Sound == "dangling" \notin errors

\* A promise exists from Construct to Return, and has a value if it is satisfied.
LifeInv ==
  \A r \in Requests :
    /\ promise[r] = "none" <=> pc[r] \in {"send", "construct"}
    /\ promise[r] = "destroyed" <=> pc[r] = "done"
    /\ value[r] = None => promise[r] # "satisfied"
    /\ value[r] # None => promise[r] \in {"satisfied", "destroyed"}
    /\ result[r] \in {None, value[r]}
    /\ Sound => value[r] \in {None, key[r]}

\* Promises that live at the same time lie in different places.
PlaceInv ==
  \A r, s \in Requests : Living(r) /\ Living(s) /\ place[r] = place[s] => r = s

\* An entry is a node of its own and points to the promise of a request of its key
\* that waits or is about to erase; a node holds no pointer to what never was.
MapInv ==
  /\ \A k \in Keys : promise_map_[k] # None =>
       /\ second[promise_map_[k]] \in Requests
       /\ key[second[promise_map_[k]]] = k
       /\ pc[second[promise_map_[k]]] \in {"wait", "erase"}
  /\ \A k, l \in Keys : promise_map_[k] = promise_map_[l] /\ k # l => promise_map_[k] = None
  /\ \A n \in Requests : second[n] # None => promise[second[n]] # "none"

\* The iterator is that of the entry, unless a request with its key has erased that;
\* the pointer was read from an entry.
ReceiveInv ==
  /\ received = None <=> it = None
  /\ received = None => target = None /\ ~stale
  /\ it # None => second[it] \in Requests
  /\ it # None /\ ~stale => promise_map_[received] = it
  /\ stale => \E r \in Requests : key[r] = received /\ pc[r] \in {"return", "done"}
  /\ Sound /\ target # None => key[target] = received /\ promise[target] # "none"

AnsweredBy(k) == \E r \in Requests : key[r] = k /\ value[r] # None

One(condition) == IF condition THEN 1 ELSE 0

\* No copy of an acknowledgement is in two places.
CopiesInv ==
  Sound =>
    \A k \in Keys : copies[k] >= acks[k] + One(received = k) + One(AnsweredBy(k))

IInv ==
  TypeOK /\ LifeInv /\ PlaceInv /\ MapInv /\ ReceiveInv /\ CopiesInv /\ TwiceOnlyIfRepeated

-----------------------------------------------------------------------------
LEMMA InitInv == Init => IInv
<1> SUFFICES ASSUME Init PROVE IInv
  OBVIOUS
<1> USE ConstantsAssumption DEF Init
<1>1. TypeOK /\ LifeInv /\ MapInv /\ ReceiveInv
  BY DEF TypeOK, LifeInv, MapInv, ReceiveInv
<1>2. PlaceInv
  BY DEF PlaceInv, Living
<1>3. CopiesInv
  BY DEF CopiesInv, AnsweredBy, One
<1>4. TwiceOnlyIfRepeated
  BY DEF TwiceOnlyIfRepeated
<1> QED
  BY <1>1, <1>2, <1>3, <1>4 DEF IInv

\* A step that leaves the acknowledgements, the values and what Receive has done
\* alone keeps the count.
LEMMA CopiesKept ==
  ASSUME CopiesInv, TwiceOnlyIfRepeated,
         UNCHANGED <<key, value, acks, copies, received, errors>>
  PROVE  CopiesInv' /\ TwiceOnlyIfRepeated'
BY DEF CopiesInv, TwiceOnlyIfRepeated, AnsweredBy, One, Sound

\* A step of a requester that waits or returns leaves the places of the living.
LEMMA PlaceKept ==
  ASSUME PlaceInv, UNCHANGED place, \A r \in Requests : Living(r)' => Living(r)
  PROVE  PlaceInv'
BY DEF PlaceInv

LEMMA RequesterInv ==
  ASSUME IInv, NEW r \in Requests, RequesterStep(r)
  PROVE  IInv'
<1> USE ConstantsAssumption DEF IInv
<1>1. CASE Send(r) \/ Wake(r) \/ Timeout(r)
  <2>1. TypeOK' /\ LifeInv'
    BY <1>1 DEF Send, Wake, Timeout, Goto, networkVars, receiverVars, mapVars, TypeOK, LifeInv, Sound
  <2>2. MapInv' /\ ReceiveInv'
    BY <1>1 DEF Send, Wake, Timeout, Goto, networkVars, receiverVars, mapVars, TypeOK, MapInv,
                ReceiveInv, Sound
  <2>3. PlaceInv'
    BY <1>1, PlaceKept DEF Send, Wake, Timeout, Living
  <2> QED
    BY <1>1, <2>1, <2>2, <2>3, CopiesKept DEF Send, Wake, Timeout, networkVars, receiverVars
<1>2. CASE Construct(r)
  <2>1. PICK p \in {r} \cup {place[s] : s \in {s \in Requests : promise[s] = "destroyed"}} :
          /\ \A s \in Requests : Living(s) => place[s] # p
          /\ place' = [place EXCEPT ![r] = p]
    BY <1>2 DEF Construct
  <2>5. p \in Requests \cup {None}
    BY <2>1 DEF TypeOK
  <2>2. TypeOK' /\ LifeInv'
    BY <1>2, <2>1, <2>5 DEF Construct, Goto, networkVars, receiverVars, mapVars, TypeOK, LifeInv,
                            Sound
  <2>3. MapInv' /\ ReceiveInv'
    BY <1>2 DEF Construct, Goto, networkVars, receiverVars, mapVars, TypeOK, MapInv, ReceiveInv,
                Sound
  <2>4. PlaceInv'
    BY <1>2, <2>1 DEF Construct, TypeOK, PlaceInv, Living
  <2> QED
    BY <1>2, <2>2, <2>3, <2>4, CopiesKept DEF Construct, networkVars, receiverVars
<1>3. CASE Insert(r)
  <2>1. LifeInv' /\ PlaceInv'
    BY <1>3, PlaceKept DEF Insert, Goto, receiverVars, TypeOK, LifeInv, Living, Sound
  <2>2. TypeOK' /\ MapInv' /\ ReceiveInv'
    <3>1. CASE UNCHANGED mapVars
      BY <1>3, <3>1 DEF Insert, Goto, networkVars, receiverVars, mapVars, TypeOK, MapInv, ReceiveInv,
                        Sound
    <3>2. ASSUME NEW n \in Requests,
                 \A k \in Keys : promise_map_[k] # n,
                 promise_map_' = [promise_map_ EXCEPT ![key[r]] = n],
                 second' = [second EXCEPT ![n] = r]
          PROVE  TypeOK' /\ MapInv' /\ ReceiveInv'
      <4>1. promise_map_[key[r]] = None \/ promise_map_[key[r]] # None
        OBVIOUS
      <4>2. TypeOK'
        BY <1>3, <3>2 DEF Insert, Goto, networkVars, receiverVars, TypeOK
      <4>3. MapInv'
        BY <1>3, <3>2 DEF Insert, Goto, TypeOK, MapInv, LifeInv
      <4>4. it # None /\ ~stale => promise_map_'[received] = it
        BY <1>3, <3>2 DEF Insert, TypeOK, ReceiveInv, mapVars
      <4>5. ReceiveInv'
        BY <1>3, <3>2, <4>4 DEF Insert, Goto, receiverVars, TypeOK, ReceiveInv, Sound
      <4> QED
        BY <4>2, <4>3, <4>5
    <3> QED
      BY <1>3, <3>1, <3>2 DEF Insert
  <2> QED
    BY <1>3, <2>1, <2>2, CopiesKept DEF Insert, networkVars, receiverVars
<1>4. CASE Erase(r)
  <2>1. TypeOK' /\ LifeInv'
    BY <1>4 DEF Erase, Goto, networkVars, TypeOK, LifeInv, Sound
  <2>2. MapInv'
    BY <1>4 DEF Erase, Goto, TypeOK, MapInv
  <2>3. ReceiveInv'
    <3>1. stale' => \E s \in Requests : key'[s] = received' /\ pc'[s] \in {"return", "done"}
      BY <1>4 DEF Erase, Goto, TypeOK, ReceiveInv, MapInv
    <3> QED
      BY <1>4, <3>1 DEF Erase, TypeOK, ReceiveInv, Sound
  <2>4. PlaceInv'
    BY <1>4, PlaceKept DEF Erase, Living
  <2> QED
    BY <1>4, <2>1, <2>2, <2>3, <2>4, CopiesKept DEF Erase, networkVars
<1>5. CASE Return(r)
  <2>1. TypeOK' /\ LifeInv'
    BY <1>5 DEF Return, Goto, networkVars, receiverVars, mapVars, TypeOK, LifeInv, Sound
  <2>2. MapInv' /\ ReceiveInv'
    BY <1>5 DEF Return, Goto, networkVars, receiverVars, mapVars, TypeOK, MapInv, ReceiveInv, Sound
  <2>3. PlaceInv'
    BY <1>5, PlaceKept DEF Return, Living, TypeOK
  <2> QED
    BY <1>5, <2>1, <2>2, <2>3, CopiesKept DEF Return, networkVars, receiverVars
<1> QED
  BY <1>1, <1>2, <1>3, <1>4, <1>5 DEF RequesterStep

LEMMA NetworkInv ==
  ASSUME IInv, NEW k \in Keys, Answer(k) \/ Lose(k) \/ Find(k)
  PROVE  IInv'
<1> USE ConstantsAssumption DEF IInv
<1>1. TypeOK'
  BY DEF Answer, Lose, Find, requestVars, mapVars, receiverVars, TypeOK
<1>2. LifeInv' /\ PlaceInv' /\ MapInv'
  BY DEF Answer, Lose, Find, requestVars, mapVars, receiverVars, LifeInv, PlaceInv, MapInv, Living,
         Sound
<1>3. ReceiveInv'
  <2>1. CASE Answer(k) \/ Lose(k)
    BY <2>1 DEF Answer, Lose, requestVars, mapVars, receiverVars, ReceiveInv, Sound
  <2>2. CASE Find(k)
    BY <2>2 DEF Find, requestVars, mapVars, TypeOK, MapInv, ReceiveInv, Sound
  <2> QED
    BY <2>1, <2>2
<1>4. CopiesInv'
  <2>1. CASE Answer(k) \/ Lose(k)
    BY <2>1 DEF Answer, Lose, requestVars, receiverVars, TypeOK, CopiesInv, AnsweredBy, One, Sound
  <2>2. CASE Find(k)
    BY <2>2 DEF Find, requestVars, TypeOK, CopiesInv, AnsweredBy, One, Sound
  <2> QED
    BY <2>1, <2>2
<1>5. TwiceOnlyIfRepeated'
  BY DEF Answer, Lose, Find, receiverVars, TypeOK, TwiceOnlyIfRepeated
<1> QED
  BY <1>1, <1>2, <1>3, <1>4, <1>5

LEMMA DereferenceInv ==
  ASSUME IInv, Dereference
  PROVE  IInv'
<1> USE ConstantsAssumption DEF IInv, Dereference, Dangling
<1>1. Sound' => Sound /\ ~stale
  BY DEF Sound
<1>2. TypeOK' /\ MapInv'
  BY DEF requestVars, mapVars, networkVars, TypeOK, MapInv, ReceiveInv
<1>3. LifeInv' /\ PlaceInv'
  BY <1>1 DEF requestVars, LifeInv, PlaceInv, Living
<1>4. ReceiveInv'
  BY <1>1 DEF requestVars, mapVars, TypeOK, MapInv, ReceiveInv
<1>5. CopiesInv'
  BY <1>1 DEF requestVars, networkVars, CopiesInv, AnsweredBy, One
<1>6. TwiceOnlyIfRepeated'
  BY DEF networkVars, TwiceOnlyIfRepeated
<1> QED
  BY <1>2, <1>3, <1>4, <1>5, <1>6

\* What SetValue does to the promise the pointer was for, and to the others.
LEMMA SetValueInv ==
  ASSUME IInv, SetValue
  PROVE  IInv'
<1> DEFINE there == {r \in Requests : Living(r) /\ place[r] = place[target]}
<1> USE ConstantsAssumption DEF IInv
<1>1. /\ target \in Requests /\ received \in Keys
      /\ promise' = [r \in Requests |-> IF r \in there THEN "satisfied" ELSE promise[r]]
      /\ value' = [r \in Requests |->
                     IF r \in there /\ promise[r] = "pending" THEN received ELSE value[r]]
      /\ UNCHANGED <<key, pc, place, result, promise_map_, second, acks, copies>>
      /\ received' = None /\ it' = None /\ target' = None /\ stale' = FALSE
  BY DEF SetValue, mapVars, networkVars, TypeOK, ReceiveInv
<1>2. Sound' => Sound /\ target \in there
  BY DEF SetValue, Dangling, Sound
<1>3. Sound' => there = {target} /\ key[target] = received
  BY <1>1, <1>2 DEF PlaceInv, ReceiveInv
<1> HIDE DEF there
<1>4. there \subseteq {r \in Requests : Living(r)}
  BY DEF there
<1>5. TypeOK'
  BY <1>1 DEF TypeOK
<1>6. LifeInv'
  <2> SUFFICES ASSUME NEW r \in Requests
               PROVE  /\ promise'[r] = "none" <=> pc[r] \in {"send", "construct"}
                      /\ promise'[r] = "destroyed" <=> pc[r] = "done"
                      /\ value'[r] = None => promise'[r] # "satisfied"
                      /\ value'[r] # None => promise'[r] \in {"satisfied", "destroyed"}
                      /\ result[r] \in {None, value'[r]}
                      /\ Sound' => value'[r] \in {None, key[r]}
    BY <1>1 DEF LifeInv
  <2>1. CASE r \in there
    <3>1. Living(r) /\ promise'[r] = "satisfied"
      BY <1>1, <1>4, <2>1
    <3>2. CASE promise[r] = "pending"
      <4>1. value'[r] = received /\ value[r] = None
        BY <1>1, <2>1, <3>2 DEF LifeInv, TypeOK
      <4> QED
        BY <1>1, <1>3, <2>1, <3>1, <3>2, <4>1 DEF LifeInv, Living
    <3>3. CASE promise[r] = "satisfied"
      <4>1. value'[r] = value[r]
        BY <1>1, <3>3
      <4> QED
        BY <1>2, <3>1, <3>3, <4>1 DEF LifeInv
    <3> QED
      BY <3>1, <3>2, <3>3 DEF Living
  <2>2. CASE r \notin there
    <3>1. promise'[r] = promise[r] /\ value'[r] = value[r]
      BY <1>1, <2>2
    <3> QED
      BY <1>2, <3>1 DEF LifeInv
  <2> QED
    BY <2>1, <2>2
<1>7. \A r \in Requests : (Living(r)' <=> Living(r)) /\ (promise'[r] = "none" <=> promise[r] = "none")
  BY <1>1, <1>4 DEF Living
<1>8. PlaceInv'
  BY <1>1, <1>7, PlaceKept
<1>9. MapInv'
  BY <1>1, <1>7 DEF MapInv, TypeOK
<1>10. ReceiveInv'
  BY <1>1 DEF ReceiveInv
<1>11. CopiesInv'
  <2> SUFFICES ASSUME Sound', NEW k \in Keys
               PROVE  copies'[k] >= acks'[k] + One(received' = k) + One(AnsweredBy(k)')
    BY DEF CopiesInv
  <2>1. copies'[k] = copies[k] /\ acks'[k] = acks[k] /\ received' # k
    BY <1>1
  <2>2. CASE received = k
    BY <1>2, <2>1, <2>2 DEF CopiesInv, One, TypeOK
  <2>3. CASE received # k
    <3>1. AnsweredBy(k)' => AnsweredBy(k)
      BY <1>1, <1>3, <2>3 DEF AnsweredBy
    <3> QED
      BY <1>2, <2>1, <2>3, <3>1 DEF CopiesInv, One, TypeOK
  <2> QED
    BY <2>2, <2>3
<1>12. TwiceOnlyIfRepeated'
  <2>1. CASE ~Sound'
    BY <2>1 DEF TwiceOnlyIfRepeated, Sound
  <2>2. CASE Sound' /\ promise[target] = "satisfied"
    <3>1. AnsweredBy(received)
      BY <1>1, <1>3, <2>2 DEF LifeInv, AnsweredBy
    <3>2. copies[received] > 1
      BY <1>1, <1>2, <2>2, <3>1 DEF CopiesInv, One, TypeOK
    <3> QED
      BY <1>1, <3>2 DEF TwiceOnlyIfRepeated
  <2>3. CASE Sound' /\ promise[target] # "satisfied"
    <3>1. "satisfied_twice" \in errors' => "satisfied_twice" \in errors
      BY <1>3, <2>3 DEF SetValue, Dangling, there
    <3> QED
      BY <1>1, <1>2, <2>3, <3>1 DEF TwiceOnlyIfRepeated, Sound
  <2> QED
    BY <2>1, <2>2, <2>3
<1> QED
  BY <1>5, <1>6, <1>8, <1>9, <1>10, <1>11, <1>12

LEMMA StepInv == IInv /\ [Next]_vars => IInv'
<1> SUFFICES ASSUME IInv, [Next]_vars PROVE IInv'
  OBVIOUS
<1>1. CASE UNCHANGED vars
  <2>1. TypeOK' /\ LifeInv' /\ MapInv' /\ ReceiveInv'
    BY <1>1 DEF vars, requestVars, mapVars, networkVars, receiverVars, IInv, TypeOK, LifeInv, MapInv,
                ReceiveInv, Sound
  <2>2. PlaceInv'
    BY <1>1 DEF vars, requestVars, IInv, PlaceInv, Living
  <2> QED
    BY <1>1, <2>1, <2>2, CopiesKept DEF vars, requestVars, networkVars, receiverVars, IInv
<1> QED
  BY <1>1, RequesterInv, NetworkInv, DereferenceInv, SetValueInv DEF Next

THEOREM Invariance == Spec => []IInv
BY InitInv, StepInv, PTL DEF Spec

-----------------------------------------------------------------------------
\* Every entry of the map is a node of its own and points to a promise that lives,
\* for any assignment of keys.
THEOREM PointersAreLive == Spec => []EntriesPointToLivePromises
<1>1. IInv => EntriesPointToLivePromises
  BY DEF IInv, TypeOK, LifeInv, MapInv, Living, EntriesPointToLivePromises
<1> QED
  BY <1>1, Invariance, PTL

\* ForwardRequest returns the acknowledgement of its own key or none, until Receive
\* uses a node or a promise that is gone.
THEOREM ResponsesMatch == Spec => []ResponseMatchesRequest
<1>1. IInv => ResponseMatchesRequest
  BY DEF IInv, LifeInv, Sound, ResponseMatchesRequest
<1> QED
  BY <1>1, Invariance, PTL

\* set_value is called twice on a promise only if an acknowledgement came twice, or
\* after a use of something that was gone.
THEOREM SatisfiedTwiceOnlyIfRepeated == Spec => []TwiceOnlyIfRepeated
BY Invariance, PTL DEF IInv

\* With one acknowledgement, what Receive holds is good, and to a pending promise,
\* until a request with its key times out.
THEOREM PointerUntilTimeout == Spec => []PointerLivesUntilTimeout
<1>1. IInv => PointerLivesUntilTimeout
  <2> SUFFICES ASSUME IInv, Sound, received # None, copies[received] = 1,
                      \A r \in Requests : key[r] = received => ~TimedOut(r)
               PROVE  IF target = None THEN ~stale /\ promise[second[it]] = "pending"
                                       ELSE promise[target] = "pending"
    BY DEF PointerLivesUntilTimeout, Sound
  <2> USE ConstantsAssumption DEF IInv
  <2>1. received \in Keys /\ it \in Requests
    BY DEF TypeOK, ReceiveInv
  <2>2. ~AnsweredBy(received)
    BY <2>1 DEF CopiesInv, One, TypeOK
  <2>3. \A r \in Requests : key[r] = received =>
          /\ pc[r] \in {"send", "construct", "insert", "wait"}
          /\ promise[r] \in {"none", "pending"}
    BY <2>2 DEF AnsweredBy, TimedOut, LifeInv, TypeOK
  <2>4. CASE target = None
    <3>1. ~stale
      BY <2>3 DEF ReceiveInv
    <3>2. second[it] \in Requests /\ key[second[it]] = received /\ pc[second[it]] = "wait"
      BY <2>1, <2>3, <3>1 DEF ReceiveInv, MapInv, TypeOK
    <3> QED
      BY <2>3, <2>4, <3>1, <3>2 DEF LifeInv
  <2>5. CASE target # None
    BY <2>3, <2>5 DEF ReceiveInv, TypeOK
  <2> QED
    BY <2>4, <2>5
<1> QED
  BY <1>1, Invariance, PTL

\* Receive uses a node or a promise that is gone only if a request has timed out or
\* an acknowledgement came more than once: the two races of lines 141-143.
THEOREM DanglingHasCause ==
  Spec => []("dangling" \in errors =>
               (\E r \in Requests : TimedOut(r)) \/ \E k \in Keys : copies[k] > 1)
<1> DEFINE Cause == (\E r \in Requests : TimedOut(r)) \/ \E k \in Keys : copies[k] > 1
<1> DEFINE HasCause == "dangling" \in errors => Cause
<1>1. Init => HasCause
  BY DEF Init
<1>2. IInv /\ HasCause /\ [Next]_vars => HasCause'
  <2> SUFFICES ASSUME IInv, HasCause, [Next]_vars, Sound, ~Sound', ~Cause
               PROVE  FALSE
    <3>1. IInv /\ Cause /\ [Next]_vars => Cause'
      <4> SUFFICES ASSUME IInv, Cause, [Next]_vars PROVE Cause'
        OBVIOUS
      <4>1. ASSUME NEW r \in Requests, TimedOut(r) PROVE TimedOut(r)'
        BY <4>1, ConstantsAssumption
           DEF Next, RequesterStep, Send, Construct, Insert, Wake, Timeout, Erase, Return, Goto,
               Answer, Lose, Find, Dereference, SetValue, vars, requestVars, IInv, TypeOK, TimedOut
      <4>2. ASSUME NEW k \in Keys, copies[k] > 1 PROVE copies'[k] > 1
        BY <4>2 DEF Next, RequesterStep, Send, Construct, Insert, Wake, Timeout, Erase, Return,
                    Answer, Lose, Find, Dereference, SetValue, vars, networkVars, IInv, TypeOK
      <4> QED
        BY <4>1, <4>2
    <3> QED
      BY <3>1 DEF Sound
  <2> USE ConstantsAssumption DEF IInv
  <2>1. ASSUME NEW r \in Requests, key[r] = received, pc[r] \in {"return", "done"}, received # None
        PROVE  FALSE
    <3>1. result[r] # None
      BY <2>1 DEF TimedOut
    <3>2. AnsweredBy(received)
      BY <2>1, <3>1 DEF AnsweredBy, LifeInv
    <3> QED
      BY <2>1, <3>2 DEF CopiesInv, One, TypeOK
  <2>2. Dereference \/ SetValue
    BY DEF Next, RequesterStep, Send, Construct, Insert, Wake, Timeout, Erase, Return, Answer, Lose,
           Find, vars, receiverVars, Sound
  <2>3. CASE Dereference
    <3>1. stale /\ received # None
      BY <2>3 DEF Dereference, Dangling, Sound
    <3> QED
      BY <2>1, <3>1 DEF ReceiveInv
  <2>4. CASE SetValue
    <3>1. target \in Requests /\ ~Living(target) /\ received # None
      BY <2>4 DEF SetValue, Dangling, Sound, ReceiveInv, TypeOK
    <3>2. key[target] = received /\ pc[target] = "done"
      BY <3>1 DEF ReceiveInv, LifeInv, TypeOK, Living
    <3> QED
      BY <2>1, <3>1, <3>2
  <2> QED
    BY <2>2, <2>3, <2>4
<1> QED
  BY <1>1, <1>2, Invariance, PTL DEF Spec

-----------------------------------------------------------------------------
\* With a key of its own, a request that waits is registered: its entry stays in
\* the map from insert() to its own erase().
UniqueKeys == \A r, s \in Requests : key[r] = key[s] => r = s

WaitersAreRegistered ==
  \A r \in Requests : pc[r] \in {"wait", "erase"} =>
    promise_map_[key[r]] # None /\ second[promise_map_[key[r]]] = r

THEOREM EntriesStay == Spec => [](UniqueKeys => WaitersAreRegistered)
<1> DEFINE Registered == UniqueKeys => WaitersAreRegistered
<1>1. Init => Registered
  BY DEF Init, WaitersAreRegistered
<1>2. IInv /\ Registered /\ [Next]_vars => Registered'
  <2> SUFFICES ASSUME IInv, Registered, [Next]_vars, UniqueKeys'
               PROVE  WaitersAreRegistered'
    OBVIOUS
  <2> USE ConstantsAssumption
  <2>1. UniqueKeys /\ key' = key
    BY DEF UniqueKeys, Next, RequesterStep, Send, Construct, Insert, Wake, Timeout, Erase, Return,
           Answer, Lose, Find, Dereference, SetValue, vars
  <2>2. WaitersAreRegistered
    BY <2>1
  <2>3. CASE UNCHANGED <<pc, mapVars>>
    BY <2>1, <2>2, <2>3 DEF WaitersAreRegistered, mapVars
  <2>4. ASSUME NEW r \in Requests, RequesterStep(r)
        PROVE  WaitersAreRegistered'
    <3>1. CASE Send(r) \/ Construct(r) \/ Wake(r) \/ Timeout(r) \/ Return(r)
      BY <2>2, <3>1 DEF Send, Construct, Wake, Timeout, Return, Goto, mapVars, WaitersAreRegistered,
                        IInv, TypeOK
    <3>2. CASE Insert(r)
      <4>1. promise_map_[key[r]] = None
        BY <2>1, <3>2 DEF Insert, UniqueKeys, IInv, TypeOK, MapInv
      <4>2. PICK n \in Requests :
              /\ \A k \in Keys : promise_map_[k] # n
              /\ promise_map_' = [promise_map_ EXCEPT ![key[r]] = n]
              /\ second' = [second EXCEPT ![n] = r]
        BY <3>2, <4>1 DEF Insert
      <4> QED
        BY <2>1, <2>2, <3>2, <4>2 DEF Insert, Goto, WaitersAreRegistered, UniqueKeys, IInv, TypeOK
    <3>3. CASE Erase(r)
      BY <2>1, <2>2, <3>3 DEF Erase, Goto, WaitersAreRegistered, UniqueKeys, IInv, TypeOK
    <3> QED
      BY <2>4, <3>1, <3>2, <3>3 DEF RequesterStep
  <2> QED
    BY <2>3, <2>4 DEF Next, Answer, Lose, Find, Dereference, SetValue, requestVars, vars
<1> QED
  BY <1>1, <1>2, Invariance, PTL DEF Spec

\* Until it has timed out, a request with a key of its own is found by the
\* acknowledgement of its key.
THEOREM AcknowledgementsAreMatched ==
  Spec => [][UniqueKeys =>
               \A r \in Requests : Find(key[r]) /\ pc[r] = "wait" => second[it'] = r]_vars
<1>1. IInv /\ (UniqueKeys => WaitersAreRegistered) =>
        (UniqueKeys =>
           \A r \in Requests : Find(key[r]) /\ pc[r] = "wait" => second[it'] = r)
  BY DEF WaitersAreRegistered, Find
<1> QED
  BY <1>1, Invariance, EntriesStay, PTL
=============================================================================

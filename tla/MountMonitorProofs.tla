------------------------- MODULE MountMonitorProofs -------------------------
(***************************************************************************)
(* Proofs about MountMonitor, for any registrations and any number of      *)
(* changes of the mount state.                                             *)
(***************************************************************************)
EXTENDS MountMonitor, FiniteSetTheorems, FunctionTheorems, TLAPS

(* Lemmas on the removal of nulls *)

\* What is left of a list are entries of it, without nulls.
LEMMA RemovalKeepsEntries ==
  ASSUME NEW S, NEW s \in Seq(S), NEW t \in WithoutNulls(s)
  PROVE  /\ t \in Seq(S)
         /\ \A i \in DOMAIN t : t[i] # Null /\ \E j \in DOMAIN s : t[i] = s[j]
<1> DEFINE kept == {i \in DOMAIN s : s[i] # Null}
<1>1. Cardinality(kept) \in Nat
  <2>1. DOMAIN s = 1 .. Len(s) /\ Len(s) \in Nat
    OBVIOUS
  <2>2. IsFiniteSet(DOMAIN s)
    BY <2>1, FS_Interval
  <2>3. IsFiniteSet(kept)
    BY <2>2, FS_Subset
  <2> QED
    BY <2>3, FS_CardinalityType
<1>2. t \in [1 .. Cardinality(kept) -> ToSet(s) \ {Null}]
  BY DEF WithoutNulls
<1>3. ToSet(s) = {s[i] : i \in DOMAIN s} /\ ToSet(s) \subseteq S
  BY DEF ToSet
<1> HIDE DEF kept
<1>4. t \in Seq(S)
  BY <1>1, <1>2, <1>3
<1>5. \A i \in DOMAIN t : t[i] # Null /\ \E j \in DOMAIN s : t[i] = s[j]
  BY <1>2, <1>3
<1> QED
  BY <1>4, <1>5

\* A list without nulls stays as it is.
LEMMA NothingToRemove ==
  ASSUME NEW S, NEW s \in Seq(S), NEW t \in WithoutNulls(s), Null \notin ToSet(s)
  PROVE  t = s
<1> DEFINE kept == {i \in DOMAIN s : s[i] # Null}
           place(i) == Cardinality({j \in kept : j <= i})
<1>1. DOMAIN s = 1 .. Len(s) /\ Len(s) \in Nat
  OBVIOUS
<1>2. kept = 1 .. Len(s)
  BY <1>1 DEF ToSet
<1>3. \A i \in 1 .. Len(s) : place(i) = i
  <2> TAKE i \in 1 .. Len(s)
  <2>1. {j \in kept : j <= i} = 1 .. i
    BY <1>1, <1>2
  <2>2. Cardinality(1 .. i) = i
    BY FS_Interval
  <2> QED
    BY <2>1, <2>2
<1>4. Cardinality(kept) = Len(s)
  <2>1. Cardinality(1 .. Len(s)) = Len(s)
    BY <1>1, FS_Interval
  <2> QED
    BY <2>1, <1>2
<1>5. /\ t \in [1 .. Cardinality(kept) -> ToSet(s) \ {Null}]
      /\ \A i \in kept : t[place(i)] = s[i]
  BY DEF WithoutNulls
<1> HIDE DEF kept, place
<1>6. DOMAIN t = 1 .. Len(s) /\ \A i \in 1 .. Len(s) : t[i] = s[i]
  BY <1>2, <1>3, <1>4, <1>5
<1>7. t = [i \in 1 .. Len(s) |-> t[i]]
  BY <1>4, <1>5
<1>8. s = [i \in 1 .. Len(s) |-> s[i]]
  BY <1>1
<1> QED
  BY <1>6, <1>7, <1>8

\* The place that the removal gives to the entries it keeps numbers them from 1
\* without a gap, in the order they had.
LEMMA PlacesAreInOrder ==
  ASSUME NEW n \in Nat, NEW kept \in SUBSET (1 .. n)
  PROVE  LET place == [i \in kept |-> Cardinality({j \in kept : j <= i})]
         IN  /\ IsFiniteSet(kept) /\ Cardinality(kept) \in Nat
             /\ \A i, j \in kept : i < j => place[i] < place[j]
             /\ place \in Bijection(kept, 1 .. Cardinality(kept))
<1> DEFINE upTo(i) == {j \in kept : j <= i}
           place == [i \in kept |-> Cardinality(upTo(i))]
           m == Cardinality(kept)
<1>1. IsFiniteSet(kept) /\ m \in Nat
  <2>1. 1 \in Int /\ n \in Int
    OBVIOUS
  <2>2. IsFiniteSet(1 .. n)
    BY <2>1, FS_Interval
  <2>3. IsFiniteSet(kept)
    BY <2>2, FS_Subset
  <2> QED
    BY <2>3, FS_CardinalityType
<1>2. \A i \in kept : upTo(i) \in SUBSET kept /\ i \in upTo(i)
  OBVIOUS
<1>3. ASSUME NEW i \in kept
      PROVE  IsFiniteSet(upTo(i)) /\ Cardinality(upTo(i)) \in 1 .. m
  <2>1. IsFiniteSet(upTo(i)) /\ Cardinality(upTo(i)) <= m
    BY <1>1, <1>2, FS_Subset
  <2>2. Cardinality(upTo(i)) \in Nat /\ Cardinality(upTo(i)) # 0
    BY <1>2, <2>1, FS_CardinalityType, FS_EmptySet
  <2> QED
    BY <1>1, <2>1, <2>2
<1>4. ASSUME NEW i \in kept, NEW j \in kept, i < j
      PROVE  Cardinality(upTo(i)) < Cardinality(upTo(j))
  <2>0. /\ \A x \in kept : x <= i => x <= j
        /\ j <= j /\ ~(j <= i)
    <3>1. \A x \in kept : x \in Int
      OBVIOUS
    <3> QED
      BY <3>1, <1>4
  <2>1. upTo(i) \in SUBSET upTo(j) /\ j \in upTo(j) /\ j \notin upTo(i)
    BY <2>0
  <2>2. Cardinality(upTo(i)) <= Cardinality(upTo(j))
    BY <1>3, <2>1, FS_Subset
  <2>3. Cardinality(upTo(i)) # Cardinality(upTo(j))
    BY <1>3, <2>1, FS_Subset
  <2>4. Cardinality(upTo(i)) \in Int /\ Cardinality(upTo(j)) \in Int
    BY <1>3
  <2> QED
    BY <2>2, <2>3, <2>4
<1> HIDE DEF upTo, m
<1>5. place \in [kept -> 1 .. m] /\ \A i, j \in kept : i < j => place[i] < place[j]
  BY <1>3, <1>4
<1>6. \A i, j \in kept : place[i] = place[j] => i = j
  <2> SUFFICES ASSUME NEW i \in kept, NEW j \in kept, place[i] = place[j]
               PROVE  i = j
    OBVIOUS
  <2>1. i \in Int /\ j \in Int /\ place[i] \in Int
    BY <1>1, <1>5
  <2> HIDE DEF place
  <2> QED
    BY <1>5, <2>1
<1> HIDE DEF place
<1>7. place \in Injection(kept, 1 .. m)
  BY <1>5, <1>6, Fun_IsInj
<1>8. IsFiniteSet(1 .. m) /\ Cardinality(1 .. m) = m
  BY <1>1, FS_Interval
<1>9. place \in Surjection(kept, 1 .. m)
  BY <1>7, <1>8, FS_Injection DEF m
<1>10. place \in Bijection(kept, 1 .. m)
  BY <1>7, <1>9 DEF Bijection
<1> QED
  BY <1>1, <1>5, <1>10 DEF place, upTo, m

\* The removal of nulls is a function: erase-remove has exactly one result, so
\* that Launch, which chooses among the results, is neither blocked nor free.
THEOREM RemovalHasOneResult ==
  ASSUME NEW S, NEW s \in Seq(S)
  PROVE  \E t : WithoutNulls(s) = {t}
<1> DEFINE kept == {i \in DOMAIN s : s[i] # Null}
           place == [i \in kept |-> Cardinality({j \in kept : j <= i})]
           m == Cardinality(kept)
           source == [p \in 1 .. m |-> CHOOSE i \in kept : place[i] = p]
           result == [p \in 1 .. m |-> s[source[p]]]
<1>1. DOMAIN s = 1 .. Len(s) /\ Len(s) \in Nat
  OBVIOUS
<1>2. place \in Bijection(kept, 1 .. m)
  BY <1>1, PlacesAreInOrder
<1>3. WithoutNulls(s) = {t \in [1 .. m -> ToSet(s) \ {Null}] : \A i \in kept : t[place[i]] = s[i]}
  BY DEF WithoutNulls
<1>4. \A i \in kept : s[i] \in ToSet(s) \ {Null}
  BY DEF ToSet
<1> HIDE DEF kept, place, m
<1>5. /\ place \in [kept -> 1 .. m]
      /\ \A i, j \in kept : place[i] = place[j] => i = j
      /\ \A p \in 1 .. m : \E i \in kept : place[i] = p
  BY <1>2 DEF Bijection, Injection, Surjection, IsInjective
<1>6. \A p \in 1 .. m : source[p] \in kept /\ place[source[p]] = p
  BY <1>5
<1>7. \A i \in kept : source[place[i]] = i
  BY <1>5, <1>6
<1> HIDE DEF source
<1>8. result \in WithoutNulls(s)
  BY <1>3, <1>4, <1>5, <1>6, <1>7
<1>9. ASSUME NEW t \in WithoutNulls(s) PROVE t = result
  <2>1. t \in [1 .. m -> ToSet(s) \ {Null}] /\ \A i \in kept : t[place[i]] = s[i]
    BY <1>3
  <2>2. \A p \in 1 .. m : t[p] = result[p]
    BY <1>6, <2>1
  <2> QED
    BY <2>1, <2>2
<1> QED
  BY <1>8, <1>9

-----------------------------------------------------------------------------
(* The inductive invariant *)

\* While the object is under construction, nothing is there to report.
ConstructionInv ==
  main = "constructing" =>
    is_monitoring_ /\ ~is_mounted_ /\ ~current /\ ~last /\ pc \in {"poll", "sleep"}

\* The state of the last batch: what Monitor() sets last to when it sleeps next.
Reported == IF pc \in {"await", "sleep"} THEN current ELSE last

\* Batches alternate, so that their number says which state was reported.
BatchInv ==
  /\ \A i \in DOMAIN batches : batches[i] = IF i % 2 = 1 THEN "mount" ELSE "unmount"
  /\ Len(batches) % 2 = IF Reported THEN 1 ELSE 0
  /\ pc = "launch" => current # last

\* The callbacks that run are of the last batch.
RunningInv ==
  /\ running # {} => pc = "await"
  /\ pc = "await" => batches # <<>>
  /\ \A c \in running : kindOf[c] = batches[Len(batches)]

\* An entry of a list is a callback registered in it.
EntriesInv ==
  \A k \in Kinds : \A i \in DOMAIN callbacks[k] :
    callbacks[k][i] # Null => callbacks[k][i] \in Registered /\ kindOf[callbacks[k][i]] = k

IInv ==
  /\ TypeOK
  /\ ConstructionInv
  /\ BatchInv
  /\ RunningInv
  /\ EntriesInv
  /\ HandlesValidUntilErase

\* The invariant holds when the thread is started.
LEMMA InitInv == Init => IInv
<1> SUFFICES ASSUME Init PROVE IInv
  OBVIOUS
<1>1. Registered = {} /\ DOMAIN handle = {} /\ \A k \in Kinds : callbacks[k] = <<>>
  BY DEF Init, Registered
<1>2. TypeOK
  <2>1. kindOf \in [Registered -> Kinds] /\ handle \in [Registered -> Nat \ {0}]
    BY <1>1 DEF Init, Registered
  <2>2. callbacks \in [Kinds -> Seq(Tokens \cup {Null})] /\ batches \in Seq(Kinds)
    BY DEF Init
  <2>3. shifted \in [Kinds -> BOOLEAN] /\ running \subseteq Registered /\ changes \in 0 .. MaxChanges
    BY TokensAssumption DEF Init
  <2> QED
    BY <1>1, <2>1, <2>2, <2>3 DEF Init, TypeOK
<1>3. ConstructionInv
  BY DEF Init, ConstructionInv
<1>4. BatchInv /\ RunningInv
  BY DEF Init, BatchInv, RunningInv, Reported
<1>5. EntriesInv /\ HandlesValidUntilErase
  BY <1>1 DEF EntriesInv, HandlesValidUntilErase
<1> QED
  BY <1>2, <1>3, <1>4, <1>5 DEF IInv

-----------------------------------------------------------------------------
(* The users' steps *)

\* A registration appends an entry, whose index is its handle.
LEMMA RegisterStep ==
  ASSUME NEW k \in Kinds, NEW c \in Tokens, IInv, Register(k, c)
  PROVE  IInv'
<1>0. /\ TypeOK /\ c \notin Registered /\ c # Null
      /\ Registered' = Registered \cup {c}
      /\ Len(callbacks[k]) \in Nat
  BY TokensAssumption DEF IInv, TypeOK, Register, Registered
<1>1. /\ \A t \in Registered : kindOf'[t] = kindOf[t] /\ handle'[t] = handle[t]
      /\ kindOf'[c] = k /\ handle'[c] = Len(callbacks[k]) + 1
  BY <1>0 DEF Register
<1>2. /\ callbacks' \in [Kinds -> Seq(Tokens \cup {Null})]
      /\ callbacks'[k] = Append(callbacks[k], c)
      /\ \A l \in Kinds \ {k} : callbacks'[l] = callbacks[l]
  BY <1>0 DEF TypeOK, Register
<1>3. /\ Len(callbacks'[k]) = Len(callbacks[k]) + 1
      /\ \A i \in 1 .. Len(callbacks[k]) : callbacks'[k][i] = callbacks[k][i]
      /\ callbacks'[k][Len(callbacks[k]) + 1] = c
  BY <1>0, <1>2 DEF TypeOK
<1>4. TypeOK'
  BY <1>0, <1>2 DEF TypeOK, Register, monitorVars, Registered
<1>5. ConstructionInv' /\ BatchInv'
  BY DEF IInv, ConstructionInv, BatchInv, Reported, Register, Usable, monitorVars
<1>6. RunningInv'
  BY <1>0, <1>1 DEF IInv, RunningInv, Register, monitorVars, TypeOK
<1>7. EntriesInv'
  <2> SUFFICES ASSUME NEW l \in Kinds, NEW i \in 1 .. Len(callbacks'[l]), callbacks'[l][i] # Null
               PROVE  callbacks'[l][i] \in Registered' /\ kindOf'[callbacks'[l][i]] = l
    BY <1>2 DEF EntriesInv
  <2>1. CASE l = k /\ i = Len(callbacks[k]) + 1
    BY <2>1, <1>0, <1>1, <1>3
  <2>2. CASE ~(l = k /\ i = Len(callbacks[k]) + 1)
    <3>1. i \in 1 .. Len(callbacks[l]) /\ callbacks'[l][i] = callbacks[l][i]
      BY <2>2, <1>0, <1>2, <1>3
    <3> QED
      BY <3>1, <1>0, <1>1 DEF IInv, EntriesInv, TypeOK
  <2> QED
    BY <2>1, <2>2
<1>8. HandlesValidUntilErase'
  <2> SUFFICES ASSUME NEW d \in Registered', ~shifted'[kindOf'[d]]
               PROVE  /\ handle'[d] <= Len(callbacks'[kindOf'[d]])
                      /\ callbacks'[kindOf'[d]][handle'[d]] = IF d \in cancelled' THEN Null ELSE d
    BY DEF HandlesValidUntilErase
  <2>0. cancelled' = cancelled /\ shifted' = shifted /\ cancelled \subseteq Registered
    BY <1>0 DEF Register, TypeOK
  <2>1. CASE d = c
    BY <2>0, <2>1, <1>0, <1>1, <1>3
  <2>2. CASE d \in Registered
    <3>1. /\ handle[d] <= Len(callbacks[kindOf[d]])
          /\ callbacks[kindOf[d]][handle[d]] = IF d \in cancelled THEN Null ELSE d
      BY <2>0, <2>2, <1>1 DEF IInv, HandlesValidUntilErase
    <3>2. handle[d] \in Nat \ {0} /\ kindOf[d] \in Kinds
      BY <2>2, <1>0 DEF TypeOK
    <3>3. /\ handle[d] <= Len(callbacks'[kindOf[d]])
          /\ callbacks'[kindOf[d]][handle[d]] = callbacks[kindOf[d]][handle[d]]
      <4>1. CASE kindOf[d] = k
        BY <4>1, <3>1, <3>2, <1>0, <1>3
      <4>2. CASE kindOf[d] # k
        BY <4>2, <3>1, <3>2, <1>2
      <4> QED
        BY <4>1, <4>2
    <3> QED
      BY <3>1, <3>3, <2>0, <2>2, <1>1
  <2> QED
    BY <2>1, <2>2, <1>0
<1> QED
  BY <1>4, <1>5, <1>6, <1>7, <1>8 DEF IInv

\* A cancellation nulls the entry at the handle, if there is one: in a list from
\* which nothing was erased, the entry of that token and of no other.
LEMMA CancelStep ==
  ASSUME NEW c \in Tokens, IInv, Cancel(c)
  PROVE  IInv'
<1> DEFINE k == kindOf[c]
           h == handle[c]
<1>0. /\ TypeOK /\ c \in Registered /\ c \notin cancelled /\ c # Null
      /\ k \in Kinds /\ h \in Nat \ {0} /\ callbacks[k] \in Seq(Tokens \cup {Null})
      /\ kindOf' = kindOf /\ handle' = handle /\ shifted' = shifted
      /\ cancelled' = cancelled \cup {c} /\ Registered' = Registered
  BY TokensAssumption DEF IInv, TypeOK, Cancel, Registered
<1>1. /\ callbacks' \in [Kinds -> Seq(Tokens \cup {Null})]
      /\ \A l \in Kinds : Len(callbacks'[l]) = Len(callbacks[l])
      /\ \A l \in Kinds, i \in Nat \ {0} :
           i <= Len(callbacks[l]) =>
             callbacks'[l][i] = IF l = k /\ i = h THEN Null ELSE callbacks[l][i]
  <2>1. CASE h <= Len(callbacks[k])
    <3>1. callbacks' = [callbacks EXCEPT ![k] = [callbacks[k] EXCEPT ![h] = Null]]
      BY <2>1 DEF Cancel
    <3> DEFINE s == [callbacks[k] EXCEPT ![h] = Null]
    <3>2. /\ s \in Seq(Tokens \cup {Null}) /\ Len(s) = Len(callbacks[k])
          /\ \A i \in 1 .. Len(callbacks[k]) : s[i] = IF i = h THEN Null ELSE callbacks[k][i]
      BY <1>0, <2>1
    <3>3. callbacks'[k] = s /\ \A l \in Kinds \ {k} : callbacks'[l] = callbacks[l]
      BY <1>0, <3>1 DEF TypeOK
    <3>4. callbacks' \in [Kinds -> Seq(Tokens \cup {Null})]
      BY <1>0, <3>1, <3>2 DEF TypeOK
    <3> HIDE DEF s, k, h
    <3>5. ASSUME NEW l \in Kinds
          PROVE  Len(callbacks'[l]) = Len(callbacks[l]) /\ Len(callbacks[l]) \in Nat
      <4>1. callbacks[l] \in Seq(Tokens \cup {Null})
        BY <1>0 DEF TypeOK
      <4>2. CASE l = k
        BY <4>1, <4>2, <3>2, <3>3
      <4>3. CASE l # k
        BY <4>1, <4>3, <3>3
      <4> QED
        BY <4>2, <4>3
    <3> QED
      BY <1>0, <3>2, <3>3, <3>4, <3>5
  <2>2. CASE ~(h <= Len(callbacks[k]))
    BY <2>2, <1>0 DEF Cancel, TypeOK
  <2> QED
    BY <2>1, <2>2
<1> HIDE DEF k, h
<1>2. TypeOK'
  BY <1>0, <1>1 DEF TypeOK, Cancel, monitorVars, Registered
<1>3. ConstructionInv' /\ BatchInv' /\ RunningInv'
  BY DEF IInv, ConstructionInv, BatchInv, RunningInv, Reported, Cancel, Usable, monitorVars
<1>4. EntriesInv'
  <2> SUFFICES ASSUME NEW l \in Kinds, NEW i \in 1 .. Len(callbacks'[l]), callbacks'[l][i] # Null
               PROVE  callbacks'[l][i] \in Registered' /\ kindOf'[callbacks'[l][i]] = l
    BY <1>1 DEF EntriesInv
  <2>1. Len(callbacks'[l]) = Len(callbacks[l]) /\ callbacks[l] \in Seq(Tokens \cup {Null})
    BY <1>0, <1>1 DEF TypeOK
  <2>2. i \in DOMAIN callbacks[l] /\ callbacks'[l][i] = callbacks[l][i]
    BY <2>1, <1>1
  <2> QED
    BY <2>2, <1>0 DEF IInv, EntriesInv
<1>5. HandlesValidUntilErase'
  <2> SUFFICES ASSUME NEW d \in Registered, ~shifted[kindOf[d]]
               PROVE  /\ handle[d] <= Len(callbacks'[kindOf[d]])
                      /\ callbacks'[kindOf[d]][handle[d]] = IF d \in cancelled' THEN Null ELSE d
    BY <1>0 DEF HandlesValidUntilErase
  <2>1. /\ handle[d] <= Len(callbacks[kindOf[d]])
        /\ callbacks[kindOf[d]][handle[d]] = IF d \in cancelled THEN Null ELSE d
        /\ handle[d] \in Nat \ {0} /\ kindOf[d] \in Kinds
    BY <1>0 DEF IInv, HandlesValidUntilErase, TypeOK
  <2>2. kindOf[d] = k /\ handle[d] = h /\ d \notin cancelled => d = c
    <3> SUFFICES ASSUME kindOf[d] = k, handle[d] = h, d \notin cancelled
                 PROVE  d = c
      OBVIOUS
    <3>1. callbacks[kindOf[c]][handle[c]] = c
      BY <1>0 DEF IInv, HandlesValidUntilErase, k
    <3> QED
      BY <3>1, <2>1 DEF k, h
  <2>3. c = d => kindOf[d] = k /\ handle[d] = h
    BY DEF k, h
  <2> QED
    BY <2>1, <2>2, <2>3, <1>0, <1>1
<1> QED
  BY <1>2, <1>3, <1>4, <1>5 DEF IInv

-----------------------------------------------------------------------------
(* The monitor's steps *)

\* A launch starts a batch of the other kind than the last one.
LEMMA LaunchStep ==
  ASSUME IInv, Launch
  PROVE  IInv'
<1>0. /\ TypeOK /\ Edge \in Kinds /\ callbacks[Edge] \in Seq(Tokens \cup {Null})
      /\ current # last /\ current \in BOOLEAN /\ last \in BOOLEAN /\ Len(batches) \in Nat
      /\ kindOf' = kindOf /\ handle' = handle /\ cancelled' = cancelled
      /\ Registered' = Registered
  BY DEF IInv, TypeOK, BatchInv, Launch, clientVars, Registered, Edge, Kinds
<1>1. PICK list \in WithoutNulls(callbacks[Edge]) :
        callbacks' = [callbacks EXCEPT ![Edge] = list]
  BY DEF Launch
<1>2. /\ list \in Seq(Tokens \cup {Null})
      /\ \A i \in DOMAIN list :
           list[i] # Null /\ \E j \in DOMAIN callbacks[Edge] : list[i] = callbacks[Edge][j]
  BY <1>0, RemovalKeepsEntries
<1>3. /\ callbacks' \in [Kinds -> Seq(Tokens \cup {Null})]
      /\ callbacks'[Edge] = list
      /\ \A k \in Kinds \ {Edge} : callbacks'[k] = callbacks[k]
  BY <1>0, <1>1, <1>2 DEF TypeOK
<1>4. running' \subseteq Registered /\ \A c \in running' : kindOf[c] = Edge
  BY <1>0 DEF Launch, ToSet, IInv, EntriesInv
<1>5. /\ batches' \in Seq(Kinds) /\ Len(batches') = Len(batches) + 1
      /\ batches'[Len(batches) + 1] = Edge
      /\ \A i \in 1 .. Len(batches) : batches'[i] = batches[i]
  BY <1>0 DEF Launch, TypeOK
<1>6. shifted' \in [Kinds -> BOOLEAN]
  BY <1>0 DEF Launch, TypeOK
<1>7. TypeOK'
  BY <1>0, <1>3, <1>4, <1>5, <1>6 DEF TypeOK, Launch, clientVars
<1>8. ConstructionInv'
  BY DEF IInv, ConstructionInv, Launch
<1>9. BatchInv'
  <2>1. Len(batches) % 2 = IF last THEN 1 ELSE 0
    BY DEF IInv, BatchInv, Reported, Launch
  <2>2. (Len(batches) + 1) % 2 = IF current THEN 1 ELSE 0
    BY <2>1, <1>0
  <2>3. pc' = "await" /\ current' = current
    BY DEF Launch
  <2>4. \A i \in 1 .. Len(batches) + 1 : batches'[i] = IF i % 2 = 1 THEN "mount" ELSE "unmount"
    <3> TAKE i \in 1 .. Len(batches) + 1
    <3>1. CASE i = Len(batches) + 1
      <4>1. i % 2 = IF current THEN 1 ELSE 0
        BY <3>1, <2>2
      <4>2. batches'[i] = Edge
        BY <3>1, <1>5
      <4> QED
        BY <4>1, <4>2 DEF Edge
    <3>2. CASE i \in 1 .. Len(batches)
      <4>1. i \in DOMAIN batches
        BY <3>2, <1>0 DEF TypeOK
      <4>2. batches[i] = IF i % 2 = 1 THEN "mount" ELSE "unmount"
        BY <4>1 DEF IInv, BatchInv
      <4>3. batches'[i] = batches[i]
        BY <3>2, <1>5
      <4> QED
        BY <4>2, <4>3
    <3> QED
      BY <3>1, <3>2, <1>0
  <2>5. DOMAIN batches' = 1 .. Len(batches) + 1
    BY <1>5
  <2> QED
    BY <2>2, <2>3, <2>4, <2>5, <1>5 DEF BatchInv, Reported
<1>10. RunningInv'
  <2>1. pc' = "await" /\ batches' # <<>> /\ batches'[Len(batches')] = Edge
    BY <1>0, <1>5 DEF Launch
  <2> QED
    BY <2>1, <1>0, <1>4 DEF RunningInv
<1>11. EntriesInv'
  <2> SUFFICES ASSUME NEW k \in Kinds, NEW i \in DOMAIN callbacks'[k], callbacks'[k][i] # Null
               PROVE  callbacks'[k][i] \in Registered /\ kindOf[callbacks'[k][i]] = k
    BY <1>0 DEF EntriesInv
  <2>1. PICK j \in DOMAIN callbacks[k] : callbacks'[k][i] = callbacks[k][j]
    BY <1>2, <1>3
  <2> QED
    BY <2>1 DEF IInv, EntriesInv
<1>12. HandlesValidUntilErase'
  <2> SUFFICES ASSUME NEW c \in Registered, ~shifted'[kindOf[c]]
               PROVE  /\ handle[c] <= Len(callbacks'[kindOf[c]])
                      /\ callbacks'[kindOf[c]][handle[c]] = IF c \in cancelled THEN Null ELSE c
    BY <1>0 DEF HandlesValidUntilErase
  <2>1. kindOf[c] \in Kinds
    BY <1>0 DEF TypeOK
  <2>2. ~shifted[kindOf[c]] /\ (kindOf[c] = Edge => Null \notin ToSet(callbacks[Edge]))
    BY <1>0, <2>1 DEF Launch, TypeOK
  <2>3. callbacks'[kindOf[c]] = callbacks[kindOf[c]]
    <3>1. CASE kindOf[c] = Edge
      BY <3>1, <2>2, <1>0, <1>3, NothingToRemove
    <3>2. CASE kindOf[c] # Edge
      BY <3>2, <2>1, <1>3
    <3> QED
      BY <3>1, <3>2
  <2> QED
    BY <2>2, <2>3 DEF IInv, HandlesValidUntilErase
<1> QED
  BY <1>7, <1>8, <1>9, <1>10, <1>11, <1>12 DEF IInv

\* The other steps leave the lists alone.
LEMMA OtherSteps ==
  ASSUME IInv,
         \/ ConstructorReturns \/ Destroy \/ Join \/ Poll \/ Await \/ Sleep
         \/ \E mounted \in BOOLEAN : SetMounted(mounted)
         \/ \E c \in Tokens : CallbackReturns(c)
         \/ UNCHANGED vars
  PROVE  IInv'
<1>0. /\ callbacks' = callbacks /\ shifted' = shifted /\ kindOf' = kindOf /\ handle' = handle
      /\ cancelled' = cancelled /\ batches' = batches /\ running' \subseteq running
      /\ Registered' = Registered
  BY DEF ConstructorReturns, Destroy, Join, Poll, Await, Sleep, SetMounted, CallbackReturns,
         vars, monitorVars, clientVars, Registered
<1>1. EntriesInv' /\ HandlesValidUntilErase'
  BY <1>0 DEF IInv, EntriesInv, HandlesValidUntilErase
<1>2. TypeOK'
  <2>1. changes' \in 0 .. MaxChanges /\ is_mounted_' \in BOOLEAN
    BY TokensAssumption
       DEF IInv, TypeOK, ConstructorReturns, Destroy, Join, Poll, Await, Sleep, SetMounted,
           CallbackReturns, vars
  <2>2. /\ main' \in {"constructing", "ready", "destroying", "gone"}
        /\ pc' \in {"poll", "launch", "await", "sleep", "end"}
        /\ is_monitoring_' \in BOOLEAN /\ current' \in BOOLEAN /\ last' \in BOOLEAN
    BY DEF IInv, TypeOK, ConstructorReturns, Destroy, Join, Poll, Await, Sleep, SetMounted,
           CallbackReturns, vars, monitorVars
  <2> QED
    BY <2>1, <2>2, <1>0 DEF IInv, TypeOK
<1>3. ConstructionInv'
  <2> SUFFICES ASSUME main' = "constructing"
               PROVE  is_monitoring_' /\ ~is_mounted_' /\ ~current' /\ ~last' /\ pc' \in {"poll", "sleep"}
    BY DEF ConstructionInv
  <2>1. /\ main = "constructing" /\ ~is_mounted_ /\ ~current /\ ~last /\ pc \in {"poll", "sleep"}
        /\ is_monitoring_
    BY DEF IInv, ConstructionInv, ConstructorReturns, Destroy, Join, Poll, Await, Sleep,
           SetMounted, CallbackReturns, vars
  <2>2. Poll \/ Sleep \/ (\E c \in Tokens : CallbackReturns(c)) \/ UNCHANGED vars
    BY <2>1 DEF ConstructorReturns, Destroy, Join, Await, SetMounted, Usable
  <2>3. is_mounted_ = FALSE /\ current = FALSE /\ last = FALSE
    BY <2>1 DEF IInv, TypeOK
  <2> QED
    BY <2>1, <2>2, <2>3 DEF Poll, Sleep, CallbackReturns, vars, monitorVars
<1>4. BatchInv'
  <2>1. pc' = "launch" => current' # last'
    BY DEF IInv, BatchInv, ConstructorReturns, Destroy, Join, Poll, Await, Sleep, SetMounted,
           CallbackReturns, vars, monitorVars
  <2>2. Reported' = Reported
    BY DEF IInv, TypeOK, Reported, ConstructorReturns, Destroy, Join, Poll, Await, Sleep,
           SetMounted, CallbackReturns, vars, monitorVars
  <2> QED
    BY <2>1, <2>2, <1>0 DEF IInv, BatchInv
<1>5. RunningInv'
  <2>1. running' # {} => pc' = "await"
    BY DEF IInv, RunningInv, ConstructorReturns, Destroy, Join, Poll, Await, Sleep, SetMounted,
           CallbackReturns, vars, monitorVars
  <2>2. pc' = "await" => pc = "await"
    BY DEF ConstructorReturns, Destroy, Join, Poll, Await, Sleep, SetMounted, CallbackReturns,
           vars, monitorVars
  <2> QED
    BY <2>1, <2>2, <1>0 DEF IInv, RunningInv
<1> QED
  BY <1>1, <1>2, <1>3, <1>4, <1>5 DEF IInv

-----------------------------------------------------------------------------
(* The theorems *)

LEMMA Invariance == Spec => []IInv
<1>1. ASSUME IInv, [Next]_vars PROVE IInv'
  BY <1>1, RegisterStep, CancelStep, LaunchStep, OtherSteps DEF Next, MonitorStep
<1> QED
  BY <1>1, InitInv, PTL DEF Spec

\* Every variable has its type, for any registrations.
THEOREM TypeCorrect == Spec => []TypeOK
<1>1. IInv => TypeOK
  BY DEF IInv
<1> QED
  BY <1>1, Invariance, PTL

\* The monitor thread does not touch the lists before they are constructed.
THEOREM ListsAreConstructed == Spec => []LaunchesAfterConstruction
<1>1. IInv => LaunchesAfterConstruction
  BY DEF IInv, ConstructionInv, LaunchesAfterConstruction
<1> QED
  BY <1>1, Invariance, PTL

\* Edges are reported in turn, and the callbacks of a batch run alone.
THEOREM EdgesAlternate == Spec => []BatchesInTurn
<1>1. IInv => BatchesInTurn
  BY DEF IInv, BatchInv, RunningInv, BatchesInTurn
<1> QED
  BY <1>1, Invariance, PTL

\* A handle denotes its callback until an entry of its list is erased.
THEOREM HandlesDenoteTheirCallbacks == Spec => []HandlesValidUntilErase
<1>1. IInv => HandlesValidUntilErase
  BY DEF IInv
<1> QED
  BY <1>1, Invariance, PTL

\* last_mounted_state is the state that was reported last: whenever the thread
\* polls, the batches started so far end in a mount batch iff it says mounted.
LastIsReported == pc = "poll" => (last <=> Len(batches) % 2 = 1)

\* At every poll the thread compares the mount state with what it reported
\* last, so that a state that differs from it starts a batch of that state.
THEOREM MonitorKnowsWhatItReported == Spec => []LastIsReported
<1>1. IInv => LastIsReported
  BY DEF IInv, TypeOK, BatchInv, Reported, LastIsReported
<1> QED
  BY <1>1, Invariance, PTL

-----------------------------------------------------------------------------
(* Destruction *)

\* The destructor returns when the thread has left its loop.
GoneInv == main = "gone" => pc = "end"

\* The object is not used after its destructor has returned: the join waits for
\* the thread, the thread for the callbacks it started, and the callbacks are
\* the only others that may still call a method while the destructor waits.
THEOREM NothingUsesAGoneObject == Spec => [][main # "gone"]_vars
<1>1. Init => GoneInv
  BY DEF Init, GoneInv
<1>2. ASSUME GoneInv, [Next]_vars PROVE GoneInv'
  BY <1>2 DEF GoneInv, Next, MonitorStep, ConstructorReturns, SetMounted, Register, Cancel,
              Destroy, Join, Poll, Launch, Await, Sleep, CallbackReturns, vars, monitorVars
<1>3. ASSUME GoneInv, IInv, main = "gone" PROVE ~Next
  <2>1. pc = "end" /\ running = {}
    BY <1>3 DEF GoneInv, IInv, RunningInv
  <2>2. ~Usable
    BY <1>3 DEF Usable
  <2>3. ~MonitorStep
    BY <2>1 DEF MonitorStep, Poll, Launch, Await, Sleep
  <2> QED
    BY <1>3, <2>1, <2>2, <2>3
       DEF Next, ConstructorReturns, SetMounted, Register, Cancel, Destroy, Join,
           CallbackReturns
<1>4. GoneInv /\ IInv /\ [Next]_vars => [main # "gone"]_vars
  BY <1>3
<1> QED
  BY <1>1, <1>2, <1>4, Invariance, PTL DEF Spec
=============================================================================

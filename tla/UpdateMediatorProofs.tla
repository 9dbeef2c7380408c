------------------------ MODULE UpdateMediatorProofs ------------------------
(***************************************************************************)
(* What UpdateMediator guarantees for any devices, any number of tasks and *)
(* any dependencies, cyclic or not.  The invariant says what a task's      *)
(* stack is: a path along the dependencies whose devices the task holds    *)
(* and nobody has updated (StackInv, PathInv), each of whose loops has     *)
(* left settled dependencies behind it (LoopInv).                          *)
(***************************************************************************)
EXTENDS UpdateMediator, TLAPS, SequenceTheorems

\* The listed devices that are not updated: those that are not Settled.
Unsettled == Listed \ updated

\* Nothing happens before UpdateAll, and no task runs that it has not started.
PhaseInv ==
  /\ \A t \in Tasks : call[t] # "none" => t <= spawned
  /\ phase = "setup" => spawned = 0 /\ updated = {}
  /\ phase = "done" => \A t \in 1 .. Len(devices) : call[t] = "returned"

\* A task holds the mutexes of the devices on its stack, once each, and those
\* only; none of them is settled.
StackInv ==
  /\ \A t \in Tasks :
       /\ call[t] = "running" <=> stack[t] # <<>>
       /\ stack[t] # <<>> => stack[t][1] = devices[t]
       /\ \A i \in 1 .. Len(stack[t]) : owner[stack[t][i]] = t /\ stack[t][i] \in Unsettled
       /\ \A i, j \in 1 .. Len(stack[t]) : stack[t][i] = stack[t][j] => i = j
  /\ \A d \in Devices : owner[d] # NoTask =>
       \E i \in 1 .. Len(stack[owner[d]]) : stack[owner[d]][i] = d

\* Each device on a stack is the dependency that the call before it has reached.
PathInv ==
  \A t \in Tasks : \A i \in 1 .. Len(stack[t]) - 1 :
    LET d == stack[t][i]
    IN  next[d] <= Len(dependencies[d]) /\ dependencies[d][next[d]] = stack[t][i + 1]

\* The dependencies that a call's loop has passed are settled.
LoopInv ==
  \A d \in Devices : owner[d] # NoTask =>
    \A i \in 1 .. Len(dependencies[d]) : i < next[d] => dependencies[d][i] \notin Unsettled

\* A task that has returned has left its device updated.
ReturnInv == \A t \in Tasks : call[t] = "returned" => devices[t] \in updated

OrderInv == UpdatedOnce /\ DependenciesFirst

IInv == TypeOK /\ PhaseInv /\ StackInv /\ PathInv /\ LoopInv /\ ReturnInv /\ OrderInv

-----------------------------------------------------------------------------
(* Sequences *)

LEMMA AppendFacts ==
  ASSUME NEW S, NEW s \in Seq(S), NEW x \in S
  PROVE  /\ Append(s, x) \in Seq(S) /\ Len(Append(s, x)) = Len(s) + 1
         /\ \A i \in 1 .. Len(s) : Append(s, x)[i] = s[i]
         /\ Append(s, x)[Len(s) + 1] = x
         /\ Append(s, x) # <<>> /\ Top(Append(s, x)) = x
         /\ Range(Append(s, x)) = Range(s) \cup {x}
         /\ Len(s) \in Nat
<1>1. /\ Append(s, x) \in Seq(S) /\ Len(Append(s, x)) = Len(s) + 1
      /\ \A i \in 1 .. Len(s) : Append(s, x)[i] = s[i]
      /\ Append(s, x)[Len(s) + 1] = x
      /\ Len(s) \in Nat
  OBVIOUS
<1>2. Append(s, x) # <<>>
  BY <1>1
<1>3. Range(Append(s, x)) = Range(s) \cup {x}
  <2>1. DOMAIN s = 1 .. Len(s) /\ DOMAIN Append(s, x) = 1 .. (Len(s) + 1)
    BY <1>1
  <2> QED
    BY <1>1, <2>1 DEF Range
<1> QED
  BY <1>1, <1>2, <1>3 DEF Top

LEMMA PopFacts ==
  ASSUME NEW S, NEW s \in Seq(S), s # <<>>
  PROVE  /\ Pop(s) \in Seq(S) /\ Len(Pop(s)) = Len(s) - 1
         /\ \A i \in 1 .. Len(s) - 1 : Pop(s)[i] = s[i]
         /\ Len(s) \in Nat \ {0} /\ Top(s) = s[Len(s)] /\ Top(s) \in S
         /\ Pop(s) = <<>> <=> Len(s) = 1
<1>1. Len(s) \in Nat \ {0}
  OBVIOUS
<1>2. Pop(s) \in Seq(S) /\ Len(Pop(s)) = Len(s) - 1
      /\ \A i \in 1 .. Len(s) - 1 : Pop(s)[i] = s[i]
  <2>1. /\ \A i \in 1 .. Len(s) - 1 : s[i] \in S
        /\ 1 \in Int /\ Len(s) - 1 \in Int
    BY <1>1
  <2>2. /\ Pop(s) \in Seq(S)
        /\ Len(Pop(s)) = IF 1 <= Len(s) - 1 THEN (Len(s) - 1) - 1 + 1 ELSE 0
        /\ \A i \in 1 .. (Len(s) - 1 - 1 + 1) : Pop(s)[i] = s[1 + i - 1]
    BY <2>1, SubSeqProperties DEF Pop
  <2>3. Len(Pop(s)) = Len(s) - 1
    <3> DEFINE n == Len(s)
    <3>1. n \in Nat \ {0} /\ Len(Pop(s)) = IF 1 <= n - 1 THEN (n - 1) - 1 + 1 ELSE 0
      BY <1>1, <2>2
    <3> HIDE DEF n
    <3>2. Len(Pop(s)) = n - 1
      BY <3>1
    <3> QED
      BY <3>2 DEF n
  <2>4. ASSUME NEW i \in 1 .. Len(s) - 1 PROVE Pop(s)[i] = s[i]
    <3>1. i \in 1 .. (Len(s) - 1 - 1 + 1) /\ 1 + i - 1 = i
      BY <1>1
    <3> QED
      BY <2>2, <3>1
  <2> QED
    BY <2>2, <2>3, <2>4
<1>3. Top(s) = s[Len(s)] /\ Top(s) \in S
  BY <1>1 DEF Top
<1>4. Pop(s) = <<>> <=> Len(s) = 1
  BY <1>1, <1>2
<1> QED
  BY <1>1, <1>2, <1>3, <1>4

LEMMA InitInv == Init => IInv
<1> SUFFICES ASSUME Init PROVE IInv
  OBVIOUS
<1> USE BoundsAssumption DEF Init
<1>1. TypeOK
  BY DEF TypeOK, Tasks, NoTask
<1>2. PhaseInv /\ StackInv /\ PathInv /\ LoopInv /\ ReturnInv
  BY DEF PhaseInv, StackInv, PathInv, LoopInv, ReturnInv, NoTask
<1>3. OrderInv
  BY DEF OrderInv, UpdatedOnce, DependenciesFirst, IsInjective, Range
<1> QED
  BY <1>1, <1>2, <1>3 DEF IInv

-----------------------------------------------------------------------------
(* The caller *)

\* Before UpdateAll there are no calls, no owners and no updates.
LEMMA SetupIsQuiet ==
  ASSUME IInv, phase = "setup"
  PROVE  /\ spawned = 0
         /\ \A t \in Tasks : call[t] = "none" /\ stack[t] = <<>>
         /\ \A d \in Devices : owner[d] = NoTask
         /\ order = <<>> /\ updated = {}
<1> USE DEF IInv
<1>1. spawned = 0 /\ updated = {} /\ \A t \in Tasks : call[t] = "none" /\ stack[t] = <<>>
  BY DEF PhaseInv, StackInv, TypeOK, Tasks
<1>2. \A d \in Devices : owner[d] = NoTask
  BY <1>1 DEF StackInv, TypeOK
<1>3. order = <<>>
  <2>1. \A i \in 1 .. Len(order) : order[i] \in updated
    BY DEF OrderInv, UpdatedOnce, Range, TypeOK
  <2> QED
    BY <1>1, <2>1 DEF TypeOK
<1> QED
  BY <1>1, <1>2, <1>3

LEMMA SetupStep ==
  ASSUME IInv,
         \/ \E d \in Devices : AddDevice(d)
         \/ \E from, to \in Devices : SetDependency(from, to)
  PROVE  IInv'
<1> USE BoundsAssumption DEF IInv
<1>1. phase = "setup" /\ UNCHANGED <<phase, spawned, taskVars>>
  BY DEF AddDevice, SetDependency
<1>2. /\ spawned' = 0 /\ phase' = "setup" /\ order' = <<>> /\ updated' = {}
      /\ \A t \in Tasks : call'[t] = "none" /\ stack'[t] = <<>>
      /\ \A d \in Devices : owner'[d] = NoTask
  BY <1>1, SetupIsQuiet DEF taskVars
<1>3. TypeOK'
  <2>1. devices' \in Seq(Devices) /\ Len(devices') <= MaxDevices /\ Len(devices') \in Nat
    <3>1. CASE \E d \in Devices : AddDevice(d)
      BY <3>1 DEF AddDevice, TypeOK
    <3>2. CASE UNCHANGED devices
      BY <3>2 DEF TypeOK
    <3> QED
      BY <3>1, <3>2 DEF SetDependency
  <2>2. dependencies' \in [Devices -> Seq(Devices)]
    <3>1. ASSUME NEW from \in Devices, NEW to \in Devices, SetDependency(from, to)
          PROVE  dependencies' \in [Devices -> Seq(Devices)]
      <4>1. dependencies \in [Devices -> Seq(Devices)]
        BY DEF TypeOK
      <4>2. Append(dependencies[from], to) \in Seq(Devices)
        BY <4>1, AppendFacts
      <4>3. dependencies' = [dependencies EXCEPT ![from] = Append(dependencies[from], to)]
        BY <3>1 DEF SetDependency
      <4> QED
        BY <4>1, <4>2, <4>3
    <3> QED
      BY <3>1 DEF AddDevice, TypeOK
  <2>3. spawned' \in 0 .. Len(devices')
    BY <1>2, <2>1
  <2> QED
    BY <1>1, <2>1, <2>2, <2>3 DEF TypeOK, taskVars
<1>4. PhaseInv' /\ StackInv' /\ PathInv' /\ LoopInv' /\ ReturnInv'
  BY <1>2 DEF PhaseInv, StackInv, PathInv, LoopInv, ReturnInv
<1>5. OrderInv'
  BY <1>2 DEF OrderInv, UpdatedOnce, DependenciesFirst, IsInjective, Range
<1> QED
  BY <1>3, <1>4, <1>5

LEMMA CallerStep ==
  ASSUME IInv, CallUpdateAll \/ Spawn \/ UpdateAllReturns \/ UNCHANGED vars
  PROVE  IInv'
<1> USE BoundsAssumption DEF IInv
<1>1. UNCHANGED <<setupVars, stack, next, owner, updated, order>>
  BY DEF CallUpdateAll, Spawn, UpdateAllReturns, vars, taskVars
<1>2. Len(devices) \in Nat /\ Len(devices) <= MaxDevices /\ spawned \in 0 .. Len(devices)
  BY DEF TypeOK
<1>3. PathInv' /\ LoopInv' /\ OrderInv'
  BY <1>1 DEF setupVars, PathInv, LoopInv, OrderInv, UpdatedOnce, DependenciesFirst,
              Unsettled, Listed
<1>4. TypeOK' /\ PhaseInv' /\ StackInv' /\ ReturnInv'
  <2>1. CASE Spawn
    <3>1. spawned + 1 \in Tasks /\ spawned' = spawned + 1
      BY <1>2, <2>1 DEF Spawn, Tasks
    <3>2. call[spawned + 1] = "none"
      BY <1>2, <3>1 DEF PhaseInv, TypeOK
    <3>3. TypeOK'
      <4>1. spawned' \in 0 .. Len(devices)
        BY <1>2, <2>1, <3>1 DEF Spawn
      <4>2. call' \in [Tasks -> {"none", "called", "running", "returned"}]
        BY <2>1 DEF Spawn, TypeOK
      <4> QED
        BY <1>1, <2>1, <4>1, <4>2 DEF Spawn, setupVars, TypeOK
    <3>4. PhaseInv'
      BY <1>1, <1>2, <2>1, <3>1 DEF Spawn, setupVars, TypeOK, PhaseInv, Tasks
    <3>5. StackInv' /\ ReturnInv'
      <4>1. \A t \in Tasks : /\ call'[t] = "running" <=> call[t] = "running"
                             /\ call'[t] = "returned" <=> call[t] = "returned"
        BY <2>1, <3>1, <3>2 DEF Spawn, TypeOK
      <4>2. Unsettled' = Unsettled
        BY <1>1 DEF setupVars, Unsettled, Listed
      <4> QED
        BY <1>1, <4>1, <4>2 DEF setupVars, StackInv, ReturnInv
    <3> QED
      BY <3>3, <3>4, <3>5
  <2>2. CASE UNCHANGED <<call, spawned>>
    <3>1. TypeOK' /\ StackInv' /\ ReturnInv'
      BY <1>1, <2>2 DEF CallUpdateAll, Spawn, UpdateAllReturns, vars, setupVars, TypeOK,
                        StackInv, ReturnInv, Unsettled, Listed
    <3>2. PhaseInv'
      BY <1>1, <1>2, <2>2 DEF CallUpdateAll, Spawn, UpdateAllReturns, vars, setupVars, PhaseInv
    <3> QED
      BY <3>1, <3>2
  <2> QED
    BY <2>1, <2>2 DEF CallUpdateAll, Spawn, UpdateAllReturns, vars, taskVars
<1> QED
  BY <1>3, <1>4

-----------------------------------------------------------------------------
(* The tasks *)

\* What a task that calls UpdateDevice knows.
LEMMA CallFacts ==
  ASSUME IInv, NEW t \in Tasks, NEW d \in Devices, Calls(t, d)
  PROVE  /\ t <= spawned /\ t <= Len(devices) /\ phase # "setup" /\ phase # "done"
         /\ call[t] = "called" => d = devices[t] /\ stack[t] = <<>>
         /\ call[t] # "called" =>
              /\ call[t] = "running" /\ stack[t] # <<>>
              /\ Top(stack[t]) \in Devices /\ owner[Top(stack[t])] = t
              /\ next[Top(stack[t])] \in 1 .. Len(dependencies[Top(stack[t])])
              /\ dependencies[Top(stack[t])][next[Top(stack[t])]] = d
<1> USE DEF IInv
<1>1. call[t] \in {"called", "running"}
  BY DEF Calls, InLoop
<1>2. t <= spawned /\ t <= Len(devices) /\ phase # "setup" /\ phase # "done"
  <2>1. t <= spawned /\ t \in Nat \ {0}
    BY <1>1 DEF PhaseInv, Tasks
  <2>2. spawned \in 0 .. Len(devices) /\ Len(devices) \in Nat
    BY DEF TypeOK
  <2>3. t \in 1 .. Len(devices)
    BY <2>1, <2>2
  <2> QED
    BY <1>1, <2>1, <2>2, <2>3 DEF PhaseInv
<1>3. CASE call[t] = "called"
  BY <1>2, <1>3 DEF Calls, InLoop, StackInv, TypeOK
<1>4. CASE call[t] = "running"
  <2>1. stack[t] \in Seq(Devices) /\ stack[t] # <<>>
    BY <1>4 DEF StackInv, TypeOK
  <2>2. Top(stack[t]) = stack[t][Len(stack[t])] /\ Len(stack[t]) \in Nat \ {0}
        /\ Top(stack[t]) \in Devices
    BY <2>1, PopFacts
  <2>3. owner[Top(stack[t])] = t
    BY <2>2 DEF StackInv
  <2>4. /\ next[Top(stack[t])] <= Len(dependencies[Top(stack[t])])
        /\ d = dependencies[Top(stack[t])][next[Top(stack[t])]]
    BY <1>4 DEF Calls, InLoop
  <2> QED
    BY <1>2, <1>4, <2>1, <2>2, <2>3, <2>4 DEF TypeOK
<1> QED
  BY <1>1, <1>3, <1>4

\* A device whose mutex is free is on no stack.
LEMMA FreeOffStack ==
  ASSUME TypeOK, StackInv, NEW d \in Devices, owner[d] = NoTask
  PROVE  \A t \in Tasks : \A i \in 1 .. Len(stack[t]) : stack[t][i] # d
BY DEF StackInv, NoTask, Tasks

LEMMA EnterStep ==
  ASSUME IInv, NEW t \in Tasks, NEW d \in Devices, Enter(t, d)
  PROVE  IInv'
<1> USE DEF IInv
<1>1. /\ owner[d] = NoTask /\ ~Settled(d) /\ Calls(t, d)
      /\ owner' = [owner EXCEPT ![d] = t]
      /\ next' = [next EXCEPT ![d] = 1]
      /\ stack' = [stack EXCEPT ![t] = Append(stack[t], d)]
      /\ call' = [call EXCEPT ![t] = "running"]
      /\ devices' = devices /\ dependencies' = dependencies
      /\ UNCHANGED <<phase, spawned, updated, order>>
  BY DEF Enter, setupVars
<1>2. /\ stack \in [Tasks -> Seq(Devices)] /\ stack[t] \in Seq(Devices)
      /\ owner \in [Devices -> Tasks \cup {NoTask}]
      /\ next \in [Devices -> Nat \ {0}]
      /\ call \in [Tasks -> {"none", "called", "running", "returned"}]
      /\ dependencies \in [Devices -> Seq(Devices)]
  BY DEF TypeOK
<1>13. t # NoTask
  BY DEF Tasks, NoTask
<1>3. /\ stack'[t] \in Seq(Devices) /\ Len(stack'[t]) = Len(stack[t]) + 1
      /\ \A i \in 1 .. Len(stack[t]) : stack'[t][i] = stack[t][i]
      /\ stack'[t][Len(stack[t]) + 1] = d
      /\ stack'[t] # <<>> /\ Len(stack[t]) \in Nat
  <2>1. stack'[t] = Append(stack[t], d)
    BY <1>1, <1>2
  <2>2. /\ Append(stack[t], d) \in Seq(Devices)
        /\ Len(Append(stack[t], d)) = Len(stack[t]) + 1
        /\ \A i \in 1 .. Len(stack[t]) : Append(stack[t], d)[i] = stack[t][i]
        /\ Append(stack[t], d)[Len(stack[t]) + 1] = d
        /\ Append(stack[t], d) # <<>> /\ Len(stack[t]) \in Nat
    BY <1>2, AppendFacts
  <2> QED
    BY <2>1, <2>2
<1>4. \A u \in Tasks \ {t} : stack'[u] = stack[u]
  BY <1>1, <1>2
<1>5. Unsettled' = Unsettled /\ d \in Unsettled
  BY <1>1 DEF Settled, Unsettled, Listed
<1>6. \A u \in Tasks : \A i \in 1 .. Len(stack[u]) : stack[u][i] # d /\ stack[u][i] \in Devices
  BY <1>1, <1>2, FreeOffStack
<1>7. TypeOK'
  <2>1. stack' \in [Tasks -> Seq(Devices)]
    BY <1>1, <1>2, <1>3
  <2>2. owner' \in [Devices -> Tasks \cup {NoTask}]
    BY <1>1, <1>2
  <2>3. next' \in [Devices -> Nat \ {0}]
    BY <1>1, <1>2
  <2>4. call' \in [Tasks -> {"none", "called", "running", "returned"}]
    BY <1>1, <1>2
  <2> QED
    BY <1>1, <2>1, <2>2, <2>3, <2>4 DEF TypeOK
<1>8. PhaseInv'
  BY <1>1, <1>2, CallFacts DEF PhaseInv
<1>9. StackInv'
  <2>1. ASSUME NEW u \in Tasks
        PROVE  /\ call'[u] = "running" <=> stack'[u] # <<>>
               /\ stack'[u] # <<>> => stack'[u][1] = devices'[u]
    <3>1. CASE u = t
      <4>1. CASE call[t] = "called"
        <5>1. stack[t] = <<>> /\ d = devices[t]
          BY <1>1, <4>1, CallFacts
        <5> QED
          BY <1>1, <1>2, <1>3, <3>1, <5>1
      <4>2. CASE call[t] # "called"
        <5>1. call[t] = "running" /\ stack[t] # <<>>
          BY <1>1, <4>2, CallFacts
        <5>2. stack[t][1] = devices[t] /\ 1 \in 1 .. Len(stack[t])
          BY <1>2, <5>1 DEF StackInv
        <5> QED
          BY <1>1, <1>2, <1>3, <3>1, <5>2
      <4> QED
        BY <4>1, <4>2
    <3>2. CASE u # t
      BY <1>1, <1>2, <1>4, <3>2 DEF StackInv
    <3> QED
      BY <3>1, <3>2
  <2>2. ASSUME NEW u \in Tasks, NEW i \in 1 .. Len(stack'[u])
        PROVE  owner'[stack'[u][i]] = u /\ stack'[u][i] \in Unsettled'
    <3>1. CASE u = t /\ i = Len(stack[t]) + 1
      BY <1>1, <1>2, <1>3, <1>5, <3>1
    <3>2. CASE ~(u = t /\ i = Len(stack[t]) + 1)
      <4>1. i \in 1 .. Len(stack[u]) /\ stack'[u][i] = stack[u][i]
        BY <1>3, <1>4, <3>2
      <4> QED
        BY <1>1, <1>2, <1>5, <1>6, <4>1 DEF StackInv
    <3> QED
      BY <3>1, <3>2
  <2>3. ASSUME NEW u \in Tasks, NEW i \in 1 .. Len(stack'[u]), NEW j \in 1 .. Len(stack'[u]),
               stack'[u][i] = stack'[u][j]
        PROVE  i = j
    <3>1. CASE u = t
      <4>1. i \in 1 .. Len(stack[t]) + 1 /\ j \in 1 .. Len(stack[t]) + 1
        BY <1>3, <3>1
      <4>2. CASE i = Len(stack[t]) + 1 /\ j # Len(stack[t]) + 1
        <5>1. stack'[t][i] = d
          BY <1>3, <4>2
        <5>2. j \in 1 .. Len(stack[t])
          BY <1>3, <4>1, <4>2
        <5>3. stack'[t][j] = stack[t][j] /\ stack[t][j] # d
          BY <1>3, <1>6, <5>2
        <5> QED
          BY <2>3, <3>1, <5>1, <5>3
      <4>3. CASE i # Len(stack[t]) + 1 /\ j = Len(stack[t]) + 1
        <5>1. stack'[t][j] = d
          BY <1>3, <4>3
        <5>2. i \in 1 .. Len(stack[t])
          BY <1>3, <4>1, <4>3
        <5>3. stack'[t][i] = stack[t][i] /\ stack[t][i] # d
          BY <1>3, <1>6, <5>2
        <5> QED
          BY <2>3, <3>1, <5>1, <5>3
      <4>4. CASE i # Len(stack[t]) + 1 /\ j # Len(stack[t]) + 1
        <5>1. i \in 1 .. Len(stack[t]) /\ j \in 1 .. Len(stack[t])
          BY <1>3, <4>1, <4>4
        <5> QED
          BY <1>3, <2>3, <3>1, <5>1 DEF StackInv
      <4> QED
        BY <4>2, <4>3, <4>4
    <3>2. CASE u # t
      BY <1>4, <2>3, <3>2 DEF StackInv
    <3> QED
      BY <3>1, <3>2
  <2>4. ASSUME NEW e \in Devices, owner'[e] # NoTask
        PROVE  \E i \in 1 .. Len(stack'[owner'[e]]) : stack'[owner'[e]][i] = e
    <3>1. CASE e = d
      <4>1. owner'[e] = t /\ Len(stack[t]) + 1 \in 1 .. Len(stack'[t])
        BY <1>1, <1>2, <1>3, <3>1
      <4> QED
        BY <1>3, <3>1, <4>1
    <3>2. CASE e # d
      <4>1. owner'[e] = owner[e] /\ owner[e] \in Tasks
        BY <1>1, <1>2, <2>4, <3>2
      <4>2. PICK i \in 1 .. Len(stack[owner[e]]) : stack[owner[e]][i] = e
        BY <2>4, <4>1 DEF StackInv
      <4>3. i \in 1 .. Len(stack'[owner[e]]) /\ stack'[owner[e]][i] = e
        BY <1>3, <1>4, <4>1, <4>2
      <4> QED
        BY <4>1, <4>3
    <3> QED
      BY <3>1, <3>2
  <2> QED
    BY <2>1, <2>2, <2>3, <2>4 DEF StackInv
<1>10. PathInv'
  <2> SUFFICES ASSUME NEW u \in Tasks, NEW i \in 1 .. Len(stack'[u]) - 1
               PROVE  LET e == stack'[u][i]
                      IN  /\ next'[e] <= Len(dependencies'[e])
                          /\ dependencies'[e][next'[e]] = stack'[u][i + 1]
    BY DEF PathInv
  <2>1. i \in 1 .. Len(stack[u]) /\ stack'[u][i] = stack[u][i]
    <3>1. CASE u = t
      BY <1>3, <3>1
    <3>2. CASE u # t
      BY <1>2, <1>4, <3>2
    <3> QED
      BY <3>1, <3>2
  <2>2. next'[stack[u][i]] = next[stack[u][i]]
    BY <1>1, <1>2, <1>6, <2>1
  <2>3. CASE u = t /\ i = Len(stack[t])
    <3>1. call[t] # "called"
      BY <1>1, <1>2, <2>1, <2>3, CallFacts
    <3>2. Top(stack[t]) = stack[t][i]
      BY <2>3 DEF Top
    <3> QED
      BY <1>1, <1>3, <2>1, <2>2, <2>3, <3>1, <3>2, CallFacts
  <2>4. CASE u = t /\ i # Len(stack[t])
    <3>1. i \in 1 .. Len(stack[t]) - 1 /\ i + 1 \in 1 .. Len(stack[t])
      BY <1>3, <2>1, <2>4
    <3>2. stack'[t][i + 1] = stack[t][i + 1]
      BY <1>3, <3>1
    <3> QED
      BY <1>1, <2>1, <2>2, <2>4, <3>1, <3>2 DEF PathInv
  <2>5. CASE u # t
    <3>1. i \in 1 .. Len(stack[u]) - 1 /\ stack'[u][i + 1] = stack[u][i + 1]
      BY <1>4, <2>5
    <3> QED
      BY <1>1, <2>1, <2>2, <3>1 DEF PathInv
  <2> QED
    BY <2>3, <2>4, <2>5
<1>11. LoopInv'
  <2> SUFFICES ASSUME NEW e \in Devices, owner'[e] # NoTask,
                      NEW i \in 1 .. Len(dependencies'[e]), i < next'[e]
               PROVE  dependencies'[e][i] \notin Unsettled'
    BY DEF LoopInv
  <2>1. e # d
    BY <1>1, <1>2
  <2> QED
    BY <1>1, <1>2, <1>5, <2>1 DEF LoopInv
<1>12. ReturnInv' /\ OrderInv'
  BY <1>1, <1>2 DEF ReturnInv, OrderInv, UpdatedOnce, DependenciesFirst, Listed
<1> QED
  BY <1>7, <1>8, <1>9, <1>10, <1>11, <1>12

\* The devices of two positions of stacks are the same only if the positions are.
LEMMA StacksDisjoint ==
  ASSUME StackInv, NEW t \in Tasks, NEW u \in Tasks,
         NEW i \in 1 .. Len(stack[t]), NEW j \in 1 .. Len(stack[u]),
         stack[t][i] = stack[u][j]
  PROVE  t = u /\ i = j
<1>1. owner[stack[t][i]] = t /\ owner[stack[u][j]] = u
  BY DEF StackInv
<1> QED
  BY <1>1 DEF StackInv

LEMMA SkipStep ==
  ASSUME IInv, NEW t \in Tasks, NEW d \in Devices, Skip(t, d)
  PROVE  IInv'
<1> USE DEF IInv
<1>1. /\ d \notin Unsettled /\ Calls(t, d)
      /\ devices' = devices /\ dependencies' = dependencies
      /\ UNCHANGED <<phase, spawned, stack, owner, updated, order>>
  BY DEF Skip, setupVars, Settled, Unsettled
<1>2. Unsettled' = Unsettled /\ Listed' = Listed
  BY <1>1 DEF Unsettled, Listed
<1>3. OrderInv'
  BY <1>1, <1>2 DEF OrderInv, UpdatedOnce, DependenciesFirst
<1>4. CASE call[t] = "called"
  <2>1. /\ call' = [call EXCEPT ![t] = "returned"] /\ next' = next
        /\ d = devices[t] /\ stack[t] = <<>> /\ t \in 1 .. Len(devices)
        /\ phase # "done" /\ phase # "setup" /\ t <= spawned
    BY <1>1, <1>4, CallFacts DEF Skip, Tasks, TypeOK
  <2>2. call \in [Tasks -> {"none", "called", "running", "returned"}]
    BY DEF TypeOK
  <2>3. devices[t] \in updated
    <3>1. devices[t] \in Listed
      BY <2>1 DEF Listed, Range, TypeOK
    <3> QED
      BY <1>1, <2>1, <3>1 DEF Unsettled
  <2>4. TypeOK' /\ PathInv' /\ LoopInv'
    BY <1>1, <1>2, <2>1 DEF TypeOK, PathInv, LoopInv
  <2>5. PhaseInv' /\ ReturnInv'
    BY <1>1, <2>1, <2>2, <2>3 DEF PhaseInv, ReturnInv
  <2>6. \A u \in Tasks : call'[u] = "running" <=> call[u] = "running"
    BY <1>4, <2>1, <2>2
  <2>7. StackInv'
    BY <1>1, <1>2, <2>6 DEF StackInv
  <2> QED
    BY <1>3, <2>4, <2>5, <2>7
<1>5. CASE call[t] # "called"
  <2> DEFINE c == Top(stack[t])
  <2>1. /\ call' = call /\ next' = [next EXCEPT ![c] = next[c] + 1]
        /\ stack[t] # <<>> /\ c \in Devices
        /\ next[c] \in 1 .. Len(dependencies[c]) /\ dependencies[c][next[c]] = d
    BY <1>1, <1>5, CallFacts DEF Skip
  <2>2. stack[t] \in Seq(Devices)
    BY DEF TypeOK
  <2>3. c = stack[t][Len(stack[t])] /\ Len(stack[t]) \in 1 .. Len(stack[t])
    BY <2>1, <2>2, PopFacts
  <2> HIDE DEF c
  <2>4. next \in [Devices -> Nat \ {0}] /\ next' \in [Devices -> Nat \ {0}]
    <3>1. next \in [Devices -> Nat \ {0}]
      BY DEF TypeOK
    <3>2. next[c] + 1 \in Nat \ {0}
      BY <2>1, <3>1
    <3> QED
      BY <2>1, <3>1, <3>2
  <2>5. TypeOK' /\ PhaseInv' /\ ReturnInv' /\ StackInv'
    <3>1. TypeOK'
      BY <1>1, <2>1, <2>4 DEF TypeOK
    <3>2. PhaseInv' /\ ReturnInv'
      BY <1>1, <2>1 DEF PhaseInv, ReturnInv
    <3>3. StackInv'
      BY <1>1, <1>2, <2>1 DEF StackInv
    <3> QED
      BY <3>1, <3>2, <3>3
  <2>6. PathInv'
    <3> SUFFICES ASSUME NEW u \in Tasks, NEW i \in 1 .. Len(stack[u]) - 1
                 PROVE  /\ next'[stack[u][i]] <= Len(dependencies[stack[u][i]])
                        /\ dependencies[stack[u][i]][next'[stack[u][i]]] = stack[u][i + 1]
      BY <1>1 DEF PathInv
    <3>1. stack[u] \in Seq(Devices) /\ i \in 1 .. Len(stack[u]) /\ i # Len(stack[u])
      BY DEF TypeOK
    <3>2. stack[u][i] # c
      BY <2>3, <3>1, StacksDisjoint
    <3>3. next'[stack[u][i]] = next[stack[u][i]]
      BY <2>1, <2>4, <3>1, <3>2
    <3> QED
      BY <3>3 DEF PathInv
  <2>7. LoopInv'
    <3> SUFFICES ASSUME NEW e \in Devices, owner[e] # NoTask,
                        NEW i \in 1 .. Len(dependencies[e]), i < next'[e]
                 PROVE  dependencies[e][i] \notin Unsettled
      BY <1>1, <1>2 DEF LoopInv
    <3>1. CASE e = c /\ i = next[c]
      BY <1>1, <2>1, <3>1
    <3>2. CASE ~(e = c /\ i = next[c])
      <4>1. i < next[e]
        BY <2>1, <2>4, <3>2
      <4> QED
        BY <4>1 DEF LoopInv
    <3> QED
      BY <3>1, <3>2
  <2> QED
    BY <1>3, <2>5, <2>6, <2>7
<1> QED
  BY <1>4, <1>5

\* What a task knows when the loop of its innermost call is over.
LEMMA UpdateFacts ==
  ASSUME IInv, NEW t \in Tasks, Update(t), NEW d, d = Top(stack[t])
  PROVE  /\ call[t] = "running" /\ stack[t] \in Seq(Devices) /\ stack[t] # <<>>
         /\ d \in Devices /\ d = stack[t][Len(stack[t])] /\ owner[d] = t
         /\ d \in Listed /\ d \notin updated /\ phase # "setup" /\ phase # "done"
         /\ \A i \in 1 .. Len(dependencies[d]) : dependencies[d][i] \notin Unsettled
<1> USE DEF IInv
<1>1. call[t] = "running" /\ ~(next[d] <= Len(dependencies[d]))
  BY DEF Update, InLoop
<1>2. stack[t] \in Seq(Devices) /\ stack[t] # <<>>
  BY <1>1 DEF TypeOK, StackInv
<1>3. d \in Devices /\ d = stack[t][Len(stack[t])] /\ Len(stack[t]) \in Nat \ {0}
  BY <1>2, PopFacts
<1>4. owner[d] = t /\ d \in Unsettled
  BY <1>3 DEF StackInv
<1>5. \A i \in 1 .. Len(dependencies[d]) : dependencies[d][i] \notin Unsettled
  <2>1. dependencies[d] \in Seq(Devices) /\ next[d] \in Nat /\ owner[d] # NoTask
    BY <1>3, <1>4 DEF TypeOK, Tasks, NoTask
  <2> QED
    BY <1>1, <1>3, <2>1 DEF LoopInv
<1>6. phase # "setup" /\ phase # "done"
  <2>1. t <= spawned /\ t \in Nat \ {0} /\ spawned \in 0 .. Len(devices) /\ Len(devices) \in Nat
    BY <1>1 DEF PhaseInv, TypeOK, Tasks
  <2>2. t \in 1 .. Len(devices) /\ spawned # 0
    BY <2>1
  <2> QED
    BY <1>1, <2>2 DEF PhaseInv
<1> QED
  BY <1>1, <1>2, <1>3, <1>4, <1>5, <1>6 DEF Unsettled

LEMMA UpdateOrder ==
  ASSUME IInv, NEW t \in Tasks, Update(t)
  PROVE  OrderInv'
<1> DEFINE d == Top(stack[t])
<1>1. /\ order' = Append(order, d) /\ updated' = updated \cup {d}
      /\ devices' = devices /\ dependencies' = dependencies
  BY DEF Update, setupVars
<1>2. /\ d \in Devices /\ d \in Listed /\ d \notin updated
      /\ \A i \in 1 .. Len(dependencies[d]) : dependencies[d][i] \notin Unsettled
  BY UpdateFacts
<1> HIDE DEF d
<1> USE DEF IInv
<1>3. order \in Seq(Devices) /\ dependencies[d] \in Seq(Devices)
  BY <1>2 DEF TypeOK
<1>4. /\ Len(order') = Len(order) + 1 /\ order'[Len(order) + 1] = d
      /\ \A i \in 1 .. Len(order) : order'[i] = order[i]
      /\ DOMAIN order = 1 .. Len(order) /\ DOMAIN order' = 1 .. Len(order) + 1
      /\ Range(order') = Range(order) \cup {d} /\ Len(order) \in Nat
  BY <1>1, <1>2, <1>3, AppendFacts
<1>5. Listed' = Listed
  BY <1>1 DEF Listed
<1>6. Range(order) = updated /\ updated \subseteq Listed /\ IsInjective(order)
      /\ DependenciesFirst
  BY DEF OrderInv, UpdatedOnce
<1>7. \A i \in 1 .. Len(order) : order[i] \in updated
  BY <1>4, <1>6 DEF Range
<1>8. UpdatedOnce'
  <2>1. IsInjective(order')
    BY <1>2, <1>4, <1>6, <1>7 DEF IsInjective
  <2> QED
    BY <1>1, <1>2, <1>4, <1>5, <1>6, <2>1 DEF UpdatedOnce
<1>9. DependenciesFirst'
  <2> SUFFICES ASSUME NEW i \in 1 .. Len(order) + 1,
                      NEW dep \in Range(dependencies[order'[i]]) \cap Listed
               PROVE  \E j \in 1 .. i - 1 : order'[j] = dep
    BY <1>1, <1>4, <1>5 DEF DependenciesFirst
  <2>1. CASE i \in 1 .. Len(order)
    <3>1. PICK j \in 1 .. i - 1 : order[j] = dep
      BY <1>4, <1>6, <2>1 DEF DependenciesFirst
    <3>2. j \in 1 .. Len(order)
      BY <1>4, <2>1
    <3> QED
      BY <1>4, <3>1, <3>2
  <2>2. CASE i = Len(order) + 1
    <3>1. dep \in Range(dependencies[d]) /\ dep \in Listed
      BY <1>4, <2>2
    <3>2. dep \in updated
      <4>1. PICK k \in 1 .. Len(dependencies[d]) : dep = dependencies[d][k]
        BY <1>3, <3>1 DEF Range
      <4> QED
        BY <1>2, <3>1, <4>1 DEF Unsettled
    <3>3. PICK j \in 1 .. Len(order) : order[j] = dep
      BY <1>4, <1>6, <3>2 DEF Range
    <3>4. j \in 1 .. i - 1
      BY <1>4, <2>2
    <3> QED
      BY <1>4, <3>3, <3>4
  <2> QED
    BY <1>4, <2>1, <2>2
<1> QED
  BY <1>8, <1>9 DEF OrderInv

LEMMA UpdateStep ==
  ASSUME IInv, NEW t \in Tasks, Update(t)
  PROVE  IInv'
<1> DEFINE d == Top(stack[t])
           callers == Pop(stack[t])
           n == Len(stack[t])
<1>1. /\ order' = Append(order, d) /\ updated' = updated \cup {d}
      /\ owner' = [owner EXCEPT ![d] = NoTask]
      /\ stack' = [stack EXCEPT ![t] = callers]
      /\ devices' = devices /\ dependencies' = dependencies
      /\ UNCHANGED <<phase, spawned>>
      /\ callers = <<>> => call' = [call EXCEPT ![t] = "returned"] /\ next' = next
      /\ callers # <<>> => call' = call /\ next' = [next EXCEPT ![Top(callers)] = @ + 1]
  BY DEF Update, setupVars
<1>2. /\ call[t] = "running" /\ stack[t] \in Seq(Devices) /\ stack[t] # <<>>
      /\ d \in Devices /\ d = stack[t][n] /\ owner[d] = t
      /\ d \in Listed /\ d \notin updated /\ phase # "setup" /\ phase # "done"
  BY UpdateFacts
<1>3. /\ callers \in Seq(Devices) /\ Len(callers) = n - 1 /\ n \in Nat \ {0}
      /\ \A i \in 1 .. n - 1 : callers[i] = stack[t][i]
      /\ callers = <<>> <=> n = 1
  BY <1>2, PopFacts
<1>4. callers # <<>> => Top(callers) = stack[t][n - 1] /\ n - 1 \in 1 .. n /\ Top(callers) \in Devices
  <2>1. ASSUME callers # <<>> PROVE Top(callers) = callers[n - 1] /\ Top(callers) \in Devices
    BY <1>3, <2>1, PopFacts
  <2> QED
    BY <1>3, <2>1
<1> HIDE DEF d, callers, n
<1> USE DEF IInv
<1>5. /\ stack \in [Tasks -> Seq(Devices)] /\ owner \in [Devices -> Tasks \cup {NoTask}]
      /\ next \in [Devices -> Nat \ {0}]
      /\ call \in [Tasks -> {"none", "called", "running", "returned"}]
      /\ dependencies \in [Devices -> Seq(Devices)]
  BY DEF TypeOK
<1>6. Unsettled' = Unsettled \ {d} /\ Listed' = Listed
  BY <1>1 DEF Unsettled, Listed
<1>7. stack'[t] = callers /\ \A u \in Tasks \ {t} : stack'[u] = stack[u]
  BY <1>1, <1>5
\* What is left on the stacks was there, at the same position, and is not d.
<1>8. ASSUME NEW u \in Tasks, NEW i \in 1 .. Len(stack'[u])
      PROVE  /\ i \in 1 .. Len(stack[u]) /\ stack'[u][i] = stack[u][i]
             /\ stack[u][i] # d /\ stack[u][i] \in Devices
  <2>1. i \in 1 .. Len(stack[u]) /\ stack'[u][i] = stack[u][i] /\ ~(u = t /\ i = n)
    <3>1. CASE u = t
      BY <1>3, <1>7, <3>1 DEF n
    <3>2. CASE u # t
      BY <1>7, <3>2
    <3> QED
      BY <3>1, <3>2
  <2>2. stack[u][i] # d
    <3>1. n \in 1 .. Len(stack[t])
      BY <1>3 DEF n
    <3> QED
      BY <1>2, <2>1, <3>1, StacksDisjoint
  <2> QED
    BY <1>5, <2>1, <2>2
<1>9. next' \in [Devices -> Nat \ {0}]
  <2>1. CASE callers = <<>>
    BY <1>1, <1>5, <2>1
  <2>2. CASE callers # <<>>
    <3>1. next' = [next EXCEPT ![Top(callers)] = next[Top(callers)] + 1]
      BY <1>1, <2>2
    <3>2. next[Top(callers)] + 1 \in Nat \ {0}
      BY <1>4, <1>5, <2>2
    <3> QED
      BY <1>5, <3>1, <3>2
  <2> QED
    BY <2>1, <2>2
<1>10. TypeOK'
  <2>1. stack' \in [Tasks -> Seq(Devices)]
    BY <1>1, <1>3, <1>5
  <2>2. owner' \in [Devices -> Tasks \cup {NoTask}]
    BY <1>1, <1>5
  <2>3. call' \in [Tasks -> {"none", "called", "running", "returned"}]
    BY <1>1, <1>5
  <2>4. order' \in Seq(Devices) /\ updated' \subseteq Devices
    BY <1>1, <1>2, AppendFacts DEF TypeOK
  <2> QED
    BY <1>1, <1>9, <2>1, <2>2, <2>3, <2>4 DEF TypeOK
<1>11. PhaseInv'
  BY <1>1, <1>2, <1>5 DEF PhaseInv
<1>12. StackInv'
  <2>1. ASSUME NEW u \in Tasks
        PROVE  /\ call'[u] = "running" <=> stack'[u] # <<>>
               /\ stack'[u] # <<>> => stack'[u][1] = devices'[u]
    <3>1. CASE u = t
      <4>1. stack'[t] # <<>> => stack'[t][1] = stack[t][1]
        BY <1>3, <1>7
      <4>2. stack[t][1] = devices[t]
        BY <1>2 DEF StackInv
      <4>3. call'[t] = "running" <=> callers # <<>>
        BY <1>1, <1>2, <1>5
      <4> QED
        BY <1>1, <1>7, <3>1, <4>1, <4>2, <4>3
    <3>2. CASE u # t
      <4>1. call'[u] = call[u] /\ stack'[u] = stack[u]
        BY <1>1, <1>5, <1>7, <3>2
      <4> QED
        BY <1>1, <4>1 DEF StackInv
    <3> QED
      BY <3>1, <3>2
  <2>2. ASSUME NEW u \in Tasks, NEW i \in 1 .. Len(stack'[u])
        PROVE  owner'[stack'[u][i]] = u /\ stack'[u][i] \in Unsettled'
    <3>1. owner[stack[u][i]] = u /\ stack[u][i] \in Unsettled
      BY <1>8 DEF StackInv
    <3> QED
      BY <1>1, <1>5, <1>6, <1>8, <3>1
  <2>3. ASSUME NEW u \in Tasks, NEW i \in 1 .. Len(stack'[u]), NEW j \in 1 .. Len(stack'[u]),
               stack'[u][i] = stack'[u][j]
        PROVE  i = j
    BY <1>8, <2>3 DEF StackInv
  <2>4. ASSUME NEW e \in Devices, owner'[e] # NoTask
        PROVE  \E i \in 1 .. Len(stack'[owner'[e]]) : stack'[owner'[e]][i] = e
    <3>1. e # d /\ owner'[e] = owner[e] /\ owner[e] \in Tasks
      BY <1>1, <1>2, <1>5, <2>4
    <3>2. PICK i \in 1 .. Len(stack[owner[e]]) : stack[owner[e]][i] = e
      BY <2>4, <3>1 DEF StackInv
    <3>3. CASE owner[e] = t
      <4>1. i # n /\ i \in 1 .. n
        BY <1>2, <3>1, <3>2, <3>3 DEF n
      <4>2. i \in 1 .. n - 1 /\ i \in 1 .. Len(callers)
        BY <1>3, <4>1
      <4> QED
        BY <1>3, <1>7, <3>1, <3>2, <3>3, <4>2
    <3>4. CASE owner[e] # t
      BY <1>7, <3>1, <3>2, <3>4
    <3> QED
      BY <3>3, <3>4
  <2> QED
    BY <2>1, <2>2, <2>3, <2>4 DEF StackInv
<1>13. PathInv'
  <2> SUFFICES ASSUME NEW u \in Tasks, NEW i \in 1 .. Len(stack'[u]) - 1
               PROVE  /\ next'[stack'[u][i]] <= Len(dependencies'[stack'[u][i]])
                      /\ dependencies'[stack'[u][i]][next'[stack'[u][i]]] = stack'[u][i + 1]
    BY DEF PathInv
  <2>1. Len(stack'[u]) \in Nat /\ i \in 1 .. Len(stack'[u]) /\ i + 1 \in 1 .. Len(stack'[u])
    BY <1>10 DEF TypeOK
  <2>2. /\ stack'[u][i] = stack[u][i] /\ stack'[u][i + 1] = stack[u][i + 1]
        /\ i \in 1 .. Len(stack[u]) - 1 /\ stack[u][i] \in Devices
        /\ i \in 1 .. Len(stack[u])
    <3>1. /\ i \in 1 .. Len(stack[u]) /\ stack'[u][i] = stack[u][i]
          /\ stack[u][i] \in Devices
      BY <1>8, <2>1
    <3>2. i + 1 \in 1 .. Len(stack[u]) /\ stack'[u][i + 1] = stack[u][i + 1]
      BY <1>8, <2>1
    <3>3. Len(stack[u]) \in Nat
      BY <1>5
    <3> QED
      BY <3>1, <3>2, <3>3
  <2>3. callers # <<>> => stack[u][i] # Top(callers)
    <3>1. CASE u = t
      BY <1>3, <1>4, <1>7, <2>1, <2>2, <3>1, StacksDisjoint DEF n
    <3>2. CASE u # t
      <4>1. n - 1 \in 1 .. Len(stack[t]) => stack[u][i] # stack[t][n - 1]
        BY <2>2, <3>2, StacksDisjoint
      <4> QED
        BY <1>3, <1>4, <4>1 DEF n
    <3> QED
      BY <3>1, <3>2
  <2>4. next'[stack[u][i]] = next[stack[u][i]]
    BY <1>1, <1>4, <1>5, <2>2, <2>3
  <2>5. /\ next[stack[u][i]] <= Len(dependencies[stack[u][i]])
        /\ dependencies[stack[u][i]][next[stack[u][i]]] = stack[u][i + 1]
    BY <2>2 DEF PathInv
  <2> QED
    BY <1>1, <2>2, <2>4, <2>5
<1>14. LoopInv'
  <2> SUFFICES ASSUME NEW e \in Devices, owner'[e] # NoTask,
                      NEW i \in 1 .. Len(dependencies[e]), i < next'[e]
               PROVE  dependencies[e][i] \notin Unsettled'
    BY <1>1 DEF LoopInv
  <2>1. owner[e] # NoTask
    BY <1>1, <1>2, <1>5
  <2>2. CASE callers # <<>> /\ e = Top(callers) /\ i = next[e]
    <3>1. n - 1 \in 1 .. Len(stack[t]) - 1 /\ e = stack[t][n - 1] /\ (n - 1) + 1 = n
      BY <1>3, <1>4, <2>2 DEF n
    <3>2. dependencies[e][next[e]] = d
      BY <1>2, <3>1 DEF PathInv
    <3> QED
      BY <1>6, <2>2, <3>2
  <2>3. CASE ~(callers # <<>> /\ e = Top(callers) /\ i = next[e])
    <3>1. next[e] \in Nat /\ i \in Nat /\ i < next'[e]
      BY <1>5
    <3>2. next'[e] = next[e] \/ (callers # <<>> /\ e = Top(callers) /\ next'[e] = next[e] + 1)
      <4>1. CASE callers = <<>>
        BY <1>1, <4>1
      <4>2. CASE callers # <<>>
        <5>1. next' = [next EXCEPT ![Top(callers)] = next[Top(callers)] + 1]
          BY <1>1, <4>2
        <5> QED
          BY <1>5, <4>2, <5>1
      <4> QED
        BY <4>1, <4>2
    <3>3. i < next[e]
      BY <2>3, <3>1, <3>2
    <3> QED
      BY <1>6, <2>1, <3>3 DEF LoopInv
  <2> QED
    BY <2>2, <2>3
<1>15. ReturnInv'
  <2>1. callers = <<>> => d = devices[t]
    BY <1>2, <1>3 DEF StackInv
  <2>2. ASSUME NEW u \in Tasks, call'[u] = "returned" PROVE devices[u] \in updated'
    BY <1>1, <1>5, <2>1, <2>2 DEF ReturnInv
  <2> QED
    BY <1>1, <2>2 DEF ReturnInv
<1> QED
  BY <1>10, <1>11, <1>12, <1>13, <1>14, <1>15, UpdateOrder

THEOREM Invariance == Spec => []IInv
<1>1. IInv /\ [Next]_vars => IInv'
  BY SetupStep, CallerStep, EnterStep, SkipStep, UpdateStep DEF Next, TaskStep
<1> QED
  BY <1>1, InitInv, PTL DEF Spec

-----------------------------------------------------------------------------
\* Devices, tasks, positions and owners are what they should be.
THEOREM TypeCorrect == Spec => []TypeOK
BY Invariance, PTL DEF IInv

\* Every device is updated after the listed devices it depends on.
THEOREM DependenciesComeFirst == Spec => []DependenciesFirst
BY Invariance, PTL DEF IInv, OrderInv

\* No device is updated twice, and only listed ones are.
THEOREM UpdatesAreUnique == Spec => []UpdatedOnce
BY Invariance, PTL DEF IInv, OrderInv

\* When UpdateAll returns all devices are updated and all mutexes free.
THEOREM AllUpdated == Spec => []AllUpdatedAtReturn
<1>1. ASSUME IInv, phase = "done"
      PROVE  updated = Listed /\ \A d \in Devices : owner[d] = NoTask
  <2> USE <1>1 DEF IInv
  <2>1. \A t \in 1 .. Len(devices) : t \in Tasks /\ call[t] = "returned"
    <3>1. Len(devices) \in Nat /\ Len(devices) <= MaxDevices /\ MaxDevices \in Nat
      BY BoundsAssumption DEF TypeOK
    <3> QED
      BY <3>1 DEF PhaseInv, Tasks
  <2>2. Listed \subseteq updated
    <3>1. \A t \in 1 .. Len(devices) : devices[t] \in updated
      BY <2>1 DEF ReturnInv
    <3>2. DOMAIN devices = 1 .. Len(devices)
      BY DEF TypeOK
    <3> QED
      BY <3>1, <3>2 DEF Listed, Range
  <2>3. \A t \in Tasks : stack[t] = <<>>
    <3>1. ASSUME NEW t \in Tasks, call[t] = "running" PROVE FALSE
      <4>1. t <= spawned /\ spawned <= Len(devices) /\ t \in Nat \ {0}
            /\ spawned \in Nat /\ Len(devices) \in Nat
        BY <3>1 DEF PhaseInv, TypeOK, Tasks
      <4>2. t \in 1 .. Len(devices)
        BY <4>1
      <4> QED
        BY <2>1, <3>1, <4>2
    <3> QED
      BY <3>1 DEF StackInv
  <2>4. \A d \in Devices : owner[d] = NoTask
    BY <2>3 DEF StackInv, TypeOK
  <2> QED
    BY <2>2, <2>4 DEF OrderInv, UpdatedOnce
<1>2. IInv => AllUpdatedAtReturn
  BY <1>1 DEF AllUpdatedAtReturn
<1> QED
  BY <1>2, Invariance, PTL

-----------------------------------------------------------------------------
(* Deadlock freedom *)

\* The tasks that UpdateAll has started are on their way or have returned.
SpawnedInv == \A t \in 1 .. spawned : call[t] # "none"

\* A task that was spawned never goes back to where it was before the spawn.
THEOREM SpawnedTasksRun == Spec => []SpawnedInv
<1>1. Init => SpawnedInv
  BY DEF Init, SpawnedInv
<1>2. IInv /\ SpawnedInv /\ [Next]_vars => SpawnedInv'
  <2> SUFFICES ASSUME IInv, SpawnedInv, [Next]_vars PROVE SpawnedInv'
    OBVIOUS
  <2>0. /\ call \in [Tasks -> {"none", "called", "running", "returned"}]
        /\ spawned \in 0 .. Len(devices) /\ Len(devices) \in Nat /\ Len(devices) <= MaxDevices
    BY DEF IInv, TypeOK
  <2>1. CASE Spawn
    BY <2>0, <2>1, BoundsAssumption DEF Spawn, SpawnedInv, Tasks
  <2>2. ASSUME NEW t \in Tasks, TaskStep(t) PROVE SpawnedInv'
    <3>1. spawned' = spawned
      BY <2>2 DEF TaskStep, Enter, Skip, Update
    <3>2. call' = call \/ \E label \in {"running", "returned"} : call' = [call EXCEPT ![t] = label]
      BY <2>2 DEF TaskStep, Enter, Skip, Update
    <3>3. \A u \in 1 .. spawned : u \in Tasks
      BY <2>0, BoundsAssumption DEF Tasks
    <3> QED
      BY <2>0, <3>1, <3>2, <3>3 DEF SpawnedInv
  <2>3. CASE UNCHANGED <<spawned, call>>
    BY <2>3 DEF SpawnedInv
  <2> QED
    BY <2>1, <2>2, <2>3
       DEF Next, AddDevice, SetDependency, CallUpdateAll, UpdateAllReturns, vars, taskVars
<1> QED
  BY <1>1, <1>2, Invariance, PTL DEF Spec

\* Task t is not blocked on a mutex: its innermost loop is over, or the mutex of
\* the device it is to update next is free.
Unblocked(t) ==
  \/ call[t] = "running" /\ ~InLoop(t)
  \/ \E d \in Devices : Calls(t, d) /\ owner[d] = NoTask

\* Without cycles the tasks of UpdateAll never all wait for each other's mutexes,
\* although each holds those of a whole path: until they have all returned, one
\* is to be started or can go on.
NeverAllBlocked ==
  phase = "updating" /\ Acyclic =>
    \/ spawned < Len(devices)
    \/ \A t \in 1 .. Len(devices) : call[t] = "returned"
    \/ \E t \in Tasks : Unblocked(t)

\* Without a cycle of dependencies the tasks of UpdateAll never deadlock.
THEOREM AcyclicUpdatesNeverDeadlock == Spec => []NeverAllBlocked
<1>1. ASSUME IInv, SpawnedInv, Acyclic, ~(spawned < Len(devices)),
             NEW t \in 1 .. Len(devices), call[t] # "returned",
             \A u \in Tasks : ~Unblocked(u)
      PROVE  FALSE
  <2> DEFINE S == {d \in Devices : owner[d] # NoTask}
  <2>0. /\ devices \in Seq(Devices) /\ dependencies \in [Devices -> Seq(Devices)]
        /\ Len(devices) \in Nat /\ spawned = Len(devices) /\ t \in Tasks
        /\ call \in [Tasks -> {"none", "called", "running", "returned"}]
        /\ stack \in [Tasks -> Seq(Devices)]
        /\ next \in [Devices -> Nat \ {0}]
        /\ owner \in [Devices -> Tasks \cup {NoTask}]
    BY <1>1, BoundsAssumption DEF IInv, TypeOK, Tasks
  \* Whoever holds a mutex is a task, and the device is on its stack.
  <2>1. ASSUME NEW d \in S
        PROVE  /\ owner[d] \in Tasks
               /\ \E i \in 1 .. Len(stack[owner[d]]) : stack[owner[d]][i] = d
    BY <1>1, <2>0 DEF IInv, StackInv
  <2>2. ASSUME NEW u \in Tasks, NEW i \in 1 .. Len(stack[u])
        PROVE  stack[u][i] \in S /\ stack[u][i] \in Listed
    <3>1. stack[u][i] \in Devices
      BY <2>0
    <3>2. owner[stack[u][i]] = u /\ stack[u][i] \in Unsettled
      BY <1>1 DEF IInv, StackInv
    <3> QED
      BY <3>1, <3>2 DEF Unsettled, Tasks, NoTask
  <2>3. S \in SUBSET Listed
    BY <2>1, <2>2
  \* The task that has not returned holds a mutex or waits for one.
  <2>4. S # {}
    <3>1. CASE call[t] = "called"
      <4>1. devices[t] \in Devices /\ Calls(t, devices[t])
        BY <2>0, <3>1 DEF Calls
      <4> QED
        BY <1>1, <2>0, <4>1 DEF Unblocked
    <3>2. CASE call[t] = "running"
      <4>1. stack[t] # <<>> /\ stack[t] \in Seq(Devices)
        BY <1>1, <2>0, <3>2 DEF IInv, StackInv
      <4>2. 1 \in 1 .. Len(stack[t])
        BY <4>1
      <4> QED
        BY <2>0, <2>2, <4>2
    <3>3. call[t] # "none"
      BY <1>1, <2>0 DEF SpawnedInv
    <3> QED
      BY <1>1, <2>0, <3>1, <3>2, <3>3
  \* Some device that is locked depends on no device that is; but its owner ...
  <2>5. PICK d \in S : Range(dependencies[d]) \cap S = {}
    BY <1>1, <2>3, <2>4 DEF Acyclic
  <2>6. next[d] \in Nat \ {0} /\ dependencies[d] \in Seq(Devices)
    BY <2>0
  <2>7. \A i \in 1 .. Len(dependencies[d]) :
          dependencies[d][i] \in Devices /\ dependencies[d][i] \in Range(dependencies[d])
    <3>1. DOMAIN dependencies[d] = 1 .. Len(dependencies[d])
      BY <2>6
    <3> QED
      BY <2>6, <3>1 DEF Range
  <2>8. PICK u \in Tasks : u = owner[d] /\ \E i \in 1 .. Len(stack[u]) : stack[u][i] = d
    BY <2>1
  <2>9. PICK i \in 1 .. Len(stack[u]) : stack[u][i] = d
    BY <2>8
  <2>10. Len(stack[u]) \in Nat \ {0} /\ call[u] = "running"
    <3>1. stack[u] \in Seq(Devices)
      BY <2>0
    <3>2. Len(stack[u]) \in Nat \ {0}
      BY <2>9, <3>1
    <3> QED
      BY <1>1, <3>1, <3>2 DEF IInv, StackInv
  \* ... has locked a dependency of it after it,
  <2>11. CASE i # Len(stack[u])
    <3>1. i \in 1 .. Len(stack[u]) - 1 /\ i + 1 \in 1 .. Len(stack[u])
      <4> DEFINE n == Len(stack[u])
      <4>1. n \in Nat \ {0} /\ i \in 1 .. n /\ i # n
        BY <2>9, <2>10, <2>11
      <4> HIDE DEF n
      <4>2. i \in 1 .. n - 1 /\ i + 1 \in 1 .. n
        BY <4>1
      <4> QED
        BY <4>2 DEF n
    <3>2. next[d] <= Len(dependencies[d]) /\ dependencies[d][next[d]] = stack[u][i + 1]
      BY <1>1, <2>9, <3>1 DEF IInv, PathInv
    <3>3. next[d] \in 1 .. Len(dependencies[d])
      BY <2>6, <3>2
    <3> QED
      BY <2>2, <2>5, <2>7, <3>1, <3>2, <3>3
  \* ... or waits for the mutex of one.
  <2>12. CASE i = Len(stack[u])
    <3>1. Top(stack[u]) = d
      BY <2>9, <2>12 DEF Top
    <3>2. InLoop(u)
      BY <1>1, <2>10 DEF Unblocked
    <3>3. next[d] \in 1 .. Len(dependencies[d])
      BY <2>6, <3>1, <3>2 DEF InLoop
    <3>4. Calls(u, dependencies[d][next[d]])
      BY <3>1, <3>2 DEF Calls
    <3>5. owner[dependencies[d][next[d]]] # NoTask
      BY <1>1, <2>7, <3>3, <3>4 DEF Unblocked
    <3> QED
      BY <2>5, <2>7, <3>3, <3>5
  <2> QED
    BY <2>11, <2>12
<1>2. IInv /\ SpawnedInv => NeverAllBlocked
  BY <1>1 DEF NeverAllBlocked
<1> QED
  BY <1>2, Invariance, SpawnedTasksRun, PTL
=============================================================================

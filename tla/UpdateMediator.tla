--------------------------- MODULE UpdateMediator ---------------------------
(***************************************************************************)
(* UpdateMediator of src/cpp/updater_ex/main.cpp: UpdateAll starts one     *)
(* asynchronous task per listed device, and each task updates its device   *)
(* after the devices it depends on, recursively, with the mutex of every   *)
(* device on the path held.                                                *)
(*                                                                         *)
(* A task is its index in `devices'.  Its stack holds the devices of the   *)
(* UpdateDevice calls in progress that hold their device's mutex, the      *)
(* innermost last; next[d] is the position of such a call's loop over      *)
(* dependencies[d].                                                        *)
(***************************************************************************)
EXTENDS Naturals, Sequences, FiniteSets, Functions

CONSTANTS
  Devices,      \* the devices the caller may create
  MaxDevices,   \* bound on the length of `devices'
  MaxDeps       \* bound on the number of SetDependency calls

ASSUME BoundsAssumption == MaxDevices \in Nat /\ MaxDeps \in Nat

Tasks == 1 .. MaxDevices
NoTask == 0

VARIABLES
  devices,        \* the list, in the order of AddDevice
  dependencies,   \* for each device, what it depends on, in order
  phase,          \* the caller: "setup", "updating", "done"
  spawned,        \* the number of tasks UpdateAll has started
  call,           \* per task: "none", "called", "running", "returned"
  stack,
  next,
  owner,          \* the task that holds each device's mutex, or NoTask
  updated,        \* the devices with updated_ set
  order           \* history: the devices the strategy updated, in order

setupVars == <<devices, dependencies>>
taskVars == <<call, stack, next, owner, updated, order>>
vars == <<setupVars, phase, spawned, taskVars>>

Init ==
  /\ devices = <<>>
  /\ dependencies = [d \in Devices |-> <<>>]
  /\ phase = "setup"
  /\ spawned = 0
  /\ call = [t \in Tasks |-> "none"]
  /\ stack = [t \in Tasks |-> <<>>]
  /\ next = [d \in Devices |-> 1]
  /\ owner = [d \in Devices |-> NoTask]
  /\ updated = {}
  /\ order = <<>>

Listed == Range(devices)

-----------------------------------------------------------------------------
(* The caller *)

AddDevice(d) ==
  /\ phase = "setup"
  /\ Len(devices) < MaxDevices
  /\ devices' = Append(devices, d)
  /\ UNCHANGED <<dependencies, phase, spawned, taskVars>>

SetDependency(from, to) ==
  /\ phase = "setup"
  /\ SumFunction([d \in Devices |-> Len(dependencies[d])]) < MaxDeps
  /\ dependencies' = [dependencies EXCEPT ![from] = Append(@, to)]
  /\ UNCHANGED <<devices, phase, spawned, taskVars>>

CallUpdateAll ==
  /\ phase = "setup"
  /\ phase' = "updating"
  /\ UNCHANGED <<setupVars, spawned, taskVars>>

\* One turn of the loop that starts the tasks with std::async.
Spawn ==
  /\ phase = "updating"
  /\ spawned < Len(devices)
  /\ spawned' = spawned + 1
  /\ call' = [call EXCEPT ![spawned + 1] = "called"]
  /\ UNCHANGED <<setupVars, phase, stack, next, owner, updated, order>>

\* Mutant: the last future is not waited for.
UpdateAllReturns_Early ==
  /\ phase = "updating"
  /\ spawned = Len(devices)
  /\ \A t \in 1 .. spawned - 1 : call[t] = "returned"
  /\ phase' = "done"
  /\ UNCHANGED <<setupVars, spawned, taskVars>>

\* Every future.get() has returned.
UpdateAllReturns ==
  /\ phase = "updating"
  /\ spawned = Len(devices)
  /\ \A t \in 1 .. spawned : call[t] = "returned"
  /\ phase' = "done"
  /\ UNCHANGED <<setupVars, spawned, taskVars>>

-----------------------------------------------------------------------------
(* A task in UpdateDevice *)

Top(s) == s[Len(s)]
Pop(s) == SubSeq(s, 1, Len(s) - 1)

\* Mutant: the loop stops before the last dependency.
InLoop_OneShort(t) ==
  /\ call[t] = "running"
  /\ next[Top(stack[t])] < Len(dependencies[Top(stack[t])])

\* The innermost call is in its loop, with a dependency left to update.
InLoop(t) ==
  /\ call[t] = "running"
  /\ next[Top(stack[t])] <= Len(dependencies[Top(stack[t])])

\* Task t calls UpdateDevice(d): from UpdateAll, or from the innermost call.
Calls(t, d) ==
  \/ call[t] = "called" /\ d = devices[t]
  \/ InLoop(t) /\ d = dependencies[Top(stack[t])][next[Top(stack[t])]]

Settled(d) == d \in updated \/ d \notin Listed

\* The mutex is locked, there is something to do, and the loop begins.
Enter(t, d) ==
  /\ Calls(t, d)
  /\ owner[d] = NoTask
  /\ ~Settled(d)
  /\ owner' = [owner EXCEPT ![d] = t]
  /\ next' = [next EXCEPT ![d] = 1]
  /\ stack' = [stack EXCEPT ![t] = Append(@, d)]
  /\ call' = [call EXCEPT ![t] = "running"]
  /\ UNCHANGED <<setupVars, phase, spawned, updated, order>>

\* Mutant: the early return leaves the mutex locked.
Skip_KeepsMutex(t, d) ==
  /\ Calls(t, d)
  /\ owner[d] = NoTask
  /\ Settled(d)
  /\ owner' = [owner EXCEPT ![d] = t]
  /\ IF call[t] = "called"
       THEN /\ call' = [call EXCEPT ![t] = "returned"]
            /\ UNCHANGED next
       ELSE /\ next' = [next EXCEPT ![Top(stack[t])] = @ + 1]
            /\ UNCHANGED call
  /\ UNCHANGED <<setupVars, phase, spawned, stack, updated, order>>

\* The mutex is locked, there is nothing to do, and it is unlocked: on to the
\* caller's next dependency, or the end of the task.
Skip(t, d) ==
  /\ Calls(t, d)
  /\ owner[d] = NoTask
  /\ Settled(d)
  /\ IF call[t] = "called"
       THEN /\ call' = [call EXCEPT ![t] = "returned"]
            /\ UNCHANGED next
       ELSE /\ next' = [next EXCEPT ![Top(stack[t])] = @ + 1]
            /\ UNCHANGED call
  /\ UNCHANGED <<setupVars, phase, spawned, stack, owner, updated, order>>

\* The loop is over: the strategy updates the device, it is marked, its mutex
\* is unlocked and the call returns.
Update(t) ==
  /\ call[t] = "running"
  /\ ~InLoop(t)
  /\ LET d == Top(stack[t])
         callers == Pop(stack[t])
     IN  /\ order' = Append(order, d)
         /\ updated' = updated \cup {d}
         /\ owner' = [owner EXCEPT ![d] = NoTask]
         /\ stack' = [stack EXCEPT ![t] = callers]
         /\ IF callers = <<>>
              THEN /\ call' = [call EXCEPT ![t] = "returned"]
                   /\ UNCHANGED next
              ELSE /\ next' = [next EXCEPT ![Top(callers)] = @ + 1]
                   /\ UNCHANGED call
  /\ UNCHANGED <<setupVars, phase, spawned>>

-----------------------------------------------------------------------------
TaskStep(t) == Update(t) \/ \E d \in Devices : Enter(t, d) \/ Skip(t, d)

Next ==
  \/ \E d \in Devices : AddDevice(d)
  \/ \E from, to \in Devices : SetDependency(from, to)
  \/ CallUpdateAll \/ Spawn \/ UpdateAllReturns
  \/ \E t \in Tasks : TaskStep(t)

Spec == Init /\ [][Next]_vars

\* Started threads run; each mutex is locked a bounded number of times, so that
\* weak fairness suffices to get it.
FairSpec ==
  /\ Spec
  /\ WF_vars(Spawn) /\ WF_vars(UpdateAllReturns)
  /\ \A t \in Tasks : WF_vars(TaskStep(t))

-----------------------------------------------------------------------------
(* Properties *)

TypeOK ==
  /\ devices \in Seq(Devices) /\ Len(devices) <= MaxDevices
  /\ dependencies \in [Devices -> Seq(Devices)]
  /\ phase \in {"setup", "updating", "done"}
  /\ spawned \in 0 .. Len(devices)
  /\ call \in [Tasks -> {"none", "called", "running", "returned"}]
  /\ stack \in [Tasks -> Seq(Devices)]
  /\ next \in [Devices -> Nat \ {0}]
  /\ owner \in [Devices -> Tasks \cup {NoTask}]
  /\ updated \subseteq Devices
  /\ order \in Seq(Devices)

\* A device is updated after every listed device it depends on, whichever
\* tasks update them, and whether or not the dependencies are cyclic.
DependenciesFirst ==
  \A i \in DOMAIN order :
    \A dep \in Range(dependencies[order[i]]) \cap Listed :
      \E j \in 1 .. i - 1 : order[j] = dep

\* No device is updated twice, though several tasks reach it at once, and only
\* listed devices are.
UpdatedOnce ==
  /\ IsInjective(order)
  /\ Range(order) = updated
  /\ updated \subseteq Listed

\* When UpdateAll returns every listed device is updated and no mutex is held.
AllUpdatedAtReturn ==
  phase = "done" => updated = Listed /\ \A d \in Devices : owner[d] = NoTask

\* No listed device depends on itself through listed devices.
Acyclic ==
  \A S \in SUBSET Listed :
    S # {} => \E d \in S : Range(dependencies[d]) \cap S = {}

\* Without cycles the nested mutexes never deadlock and UpdateAll returns.
AcyclicUpdatesReturn ==
  (phase = "updating") ~> (phase = "done" \/ ~Acyclic)
=============================================================================

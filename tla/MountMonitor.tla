---------------------------- MODULE MountMonitor ----------------------------
(***************************************************************************)
(* MountMonitor of src/cpp/callback/main.cpp: a thread polls is_mounted_   *)
(* and, at each change it sees, starts the callbacks registered for that   *)
(* edge asynchronously, drops the cancelled ones from the list, and waits  *)
(* for the started ones.                                                   *)
(*                                                                         *)
(* The two lists and their mutexes are alike: each operation has the kind  *)
(* of list as a parameter.  An operation that runs with the mutex held is  *)
(* one step.  Registrations are told apart by a token, so that one can say *)
(* whose callback an index denotes; `handle' is the index that was         *)
(* returned for the token.  Any thread may register, cancel and            *)
(* SetMounted at any time, running callbacks included.                     *)
(***************************************************************************)
EXTENDS Naturals, FiniteSets, Sequences, SequencesExt

CONSTANTS
  Tokens,         \* the registrations that may be made
  Null,           \* a cancelled entry, nullptr
  MaxChanges      \* bound on the number of SetMounted calls

ASSUME TokensAssumption == Null \notin Tokens /\ MaxChanges \in Nat

Kinds == {"mount", "unmount"}

VARIABLES
  main,           \* the object: "constructing", "ready", "destroying", "gone"
  is_monitoring_, is_mounted_,
  callbacks,      \* for each kind, the list of tokens and Nulls
  pc,             \* the monitor thread: "poll", "launch", "await", "sleep", "end"
  current, last,  \* its current_mounted_state and last_mounted_state
  running,        \* the tokens whose callbacks are executing
  kindOf, handle, \* history: each token's list and index, once registered
  cancelled,      \* history: the tokens whose owner has called Cancel
  shifted,        \* history: for each kind, has an erase moved entries
  batches,        \* history: the kinds of the batches started
  changes         \* the number of SetMounted calls so far

monitorVars == <<pc, current, last, running, batches>>
clientVars == <<kindOf, handle, cancelled>>
vars == <<main, is_monitoring_, is_mounted_, callbacks, monitorVars, clientVars,
          shifted, changes>>

\* Mutant: the object starts in the mounted state.
Init_Mounted ==
  /\ main = "constructing"
  /\ is_monitoring_ = TRUE
  /\ is_mounted_ = TRUE
  /\ callbacks = [k \in Kinds |-> <<>>]
  /\ pc = "poll"
  /\ current = FALSE
  /\ last = FALSE
  /\ running = {}
  /\ kindOf = <<>>
  /\ handle = <<>>
  /\ cancelled = {}
  /\ shifted = [k \in Kinds |-> FALSE]
  /\ batches = <<>>
  /\ changes = 0

\* is_monitoring_ and is_mounted_ are initialised, the thread is started, and
\* only then are the mutexes and the vectors constructed.
Init ==
  /\ main = "constructing"
  /\ is_monitoring_ = TRUE
  /\ is_mounted_ = FALSE
  /\ callbacks = [k \in Kinds |-> <<>>]
  /\ pc = "poll"
  /\ current = FALSE
  /\ last = FALSE
  /\ running = {}
  /\ kindOf = <<>>
  /\ handle = <<>>
  /\ cancelled = {}
  /\ shifted = [k \in Kinds |-> FALSE]
  /\ batches = <<>>
  /\ changes = 0

-----------------------------------------------------------------------------
(* The object's users *)

ConstructorReturns ==
  /\ main = "constructing"
  /\ main' = "ready"
  /\ UNCHANGED <<is_monitoring_, is_mounted_, callbacks, monitorVars, clientVars,
                 shifted, changes>>

\* While the destructor waits, only running callbacks may still use the object.
Usable == main = "ready" \/ (main = "destroying" /\ running # {})

SetMounted(mounted) ==
  /\ Usable
  /\ changes < MaxChanges
  /\ changes' = changes + 1
  /\ is_mounted_' = mounted
  /\ UNCHANGED <<main, is_monitoring_, callbacks, monitorVars, clientVars, shifted>>

Registered == DOMAIN kindOf

Register(k, c) ==
  /\ Usable
  /\ c \notin Registered
  /\ callbacks' = [callbacks EXCEPT ![k] = Append(@, c)]
  /\ kindOf' = [t \in Registered \cup {c} |-> IF t = c THEN k ELSE kindOf[t]]
  /\ handle' = [t \in Registered \cup {c} |->
                  IF t = c THEN Len(callbacks[k]) + 1 ELSE handle[t]]
  /\ UNCHANGED <<main, is_monitoring_, is_mounted_, monitorVars, cancelled, shifted, changes>>

\* Mutant: the entry is erased at once instead of nulled.
Cancel_Erases(c) ==
  /\ Usable
  /\ c \in Registered \ cancelled
  /\ cancelled' = cancelled \cup {c}
  /\ LET k == kindOf[c]
     IN  IF handle[c] <= Len(callbacks[k])
           THEN callbacks' = [callbacks EXCEPT ![k] = RemoveAt(@, handle[c])]
           ELSE UNCHANGED callbacks
  /\ UNCHANGED <<main, is_monitoring_, is_mounted_, monitorVars, kindOf, handle,
                 shifted, changes>>

\* The owner of token c cancels it by the index it was given.
Cancel(c) ==
  /\ Usable
  /\ c \in Registered \ cancelled
  /\ cancelled' = cancelled \cup {c}
  /\ LET k == kindOf[c]
     IN  IF handle[c] <= Len(callbacks[k])
           THEN callbacks' = [callbacks EXCEPT ![k][handle[c]] = Null]
           ELSE UNCHANGED callbacks
  /\ UNCHANGED <<main, is_monitoring_, is_mounted_, monitorVars, kindOf, handle,
                 shifted, changes>>

Destroy ==
  /\ main = "ready"
  /\ main' = "destroying"
  /\ is_monitoring_' = FALSE
  /\ UNCHANGED <<is_mounted_, callbacks, monitorVars, clientVars, shifted, changes>>

Join ==
  /\ main = "destroying"
  /\ pc = "end"
  /\ main' = "gone"
  /\ UNCHANGED <<is_monitoring_, is_mounted_, callbacks, monitorVars, clientVars,
                 shifted, changes>>

-----------------------------------------------------------------------------
(* The monitor thread and the callbacks it starts *)

\* Mutant: only the edge from unmounted to mounted is noticed.
Poll_MountOnly ==
  /\ pc = "poll"
  /\ IF is_monitoring_
       THEN /\ current' = is_mounted_
            /\ pc' = IF current' /\ ~last THEN "launch" ELSE "sleep"
       ELSE /\ pc' = "end"
            /\ UNCHANGED current
  /\ UNCHANGED <<main, is_monitoring_, is_mounted_, callbacks, last, running, batches,
                 clientVars, shifted, changes>>

\* while (is_monitoring_), and the read of IsMounted(), in one step: the destructor
\* may come between them, but waits for the thread in any case.
Poll ==
  /\ pc = "poll"
  /\ IF is_monitoring_
       THEN /\ current' = is_mounted_
            /\ pc' = IF current' # last THEN "launch" ELSE "sleep"
       ELSE /\ pc' = "end"
            /\ UNCHANGED current
  /\ UNCHANGED <<main, is_monitoring_, is_mounted_, callbacks, last, running, batches,
                 clientVars, shifted, changes>>

Edge == IF current THEN "mount" ELSE "unmount"

\* Erase-remove of the nulls, as the set of its only result: the other entries
\* keep their order, so that each moves to the number of them up to it.
WithoutNulls(s) ==
  LET kept == {i \in DOMAIN s : s[i] # Null}
      place(i) == Cardinality({j \in kept : j <= i})
  IN  {t \in [1 .. Cardinality(kept) -> ToSet(s) \ {Null}] :
         \A i \in kept : t[place(i)] = s[i]}

\* With the mutex of the list held: std::async for each callback that is not
\* null, then the removal of the nulls.
Launch ==
  /\ pc = "launch"
  /\ running' = ToSet(callbacks[Edge]) \ {Null}
  /\ \E list \in WithoutNulls(callbacks[Edge]) :
       callbacks' = [callbacks EXCEPT ![Edge] = list]
  /\ shifted' = [shifted EXCEPT ![Edge] = @ \/ Null \in ToSet(callbacks[Edge])]
  /\ batches' = Append(batches, Edge)
  /\ pc' = "await"
  /\ UNCHANGED <<main, is_monitoring_, is_mounted_, current, last, clientVars, changes>>

CallbackReturns(c) ==
  /\ c \in running
  /\ running' = running \ {c}
  /\ UNCHANGED <<main, is_monitoring_, is_mounted_, callbacks, pc, current, last, batches,
                 clientVars, shifted, changes>>

\* future.get() of every callback that was started.
Await ==
  /\ pc = "await"
  /\ running = {}
  /\ pc' = "sleep"
  /\ UNCHANGED <<main, is_monitoring_, is_mounted_, callbacks, current, last, running,
                 batches, clientVars, shifted, changes>>

\* Mutant: last_mounted_state is not updated.
Sleep_ForgetsState ==
  /\ pc = "sleep"
  /\ UNCHANGED last
  /\ pc' = "poll"
  /\ UNCHANGED <<main, is_monitoring_, is_mounted_, callbacks, current, running, batches,
                 clientVars, shifted, changes>>

\* last_mounted_state = current_mounted_state, and 200 ms of sleep.
Sleep ==
  /\ pc = "sleep"
  /\ last' = current
  /\ pc' = "poll"
  /\ UNCHANGED <<main, is_monitoring_, is_mounted_, callbacks, current, running, batches,
                 clientVars, shifted, changes>>

-----------------------------------------------------------------------------
MonitorStep == Poll \/ Launch \/ Await \/ Sleep

Next ==
  \/ ConstructorReturns
  \/ \E mounted \in BOOLEAN : SetMounted(mounted)
  \/ \E k \in Kinds, c \in Tokens : Register(k, c)
  \/ \E c \in Tokens : Cancel(c)
  \/ Destroy \/ Join
  \/ MonitorStep
  \/ \E c \in Tokens : CallbackReturns(c)

Spec == Init /\ [][Next]_vars

\* The monitor thread is scheduled and the callbacks return.
FairSpec ==
  /\ Spec
  /\ WF_vars(MonitorStep) /\ WF_vars(Join)
  /\ \A c \in Tokens : WF_vars(CallbackReturns(c))

-----------------------------------------------------------------------------
(* Properties *)

TypeOK ==
  /\ main \in {"constructing", "ready", "destroying", "gone"}
  /\ is_monitoring_ \in BOOLEAN /\ is_mounted_ \in BOOLEAN
  /\ callbacks \in [Kinds -> Seq(Tokens \cup {Null})]
  /\ pc \in {"poll", "launch", "await", "sleep", "end"}
  /\ current \in BOOLEAN /\ last \in BOOLEAN
  /\ running \subseteq Registered
  /\ Registered \subseteq Tokens
  /\ kindOf \in [Registered -> Kinds]
  /\ handle \in [Registered -> Nat \ {0}]
  /\ cancelled \subseteq Registered
  /\ shifted \in [Kinds -> BOOLEAN]
  /\ batches \in Seq(Kinds)
  /\ changes \in 0 .. MaxChanges

\* The thread started by the constructor reaches neither the mutexes nor the
\* vectors before they are constructed (lines 11-16, 140-148).
LaunchesAfterConstruction == pc = "launch" => main # "constructing"

\* Edges are reported once each and one after the other: batches alternate, a
\* mount batch first, and the callbacks of one have all returned before those
\* of the next start, or the object is destroyed.
BatchesInTurn ==
  /\ \A i \in DOMAIN batches : batches[i] = IF i % 2 = 1 THEN "mount" ELSE "unmount"
  /\ running # {} => pc = "await"
  /\ \A c \in running : kindOf[c] = batches[Len(batches)]

\* As long as no erase has removed an entry of its list, an index denotes the
\* callback it was returned for: cancelling silences that one and no other.
HandlesValidUntilErase ==
  \A c \in Registered : ~shifted[kindOf[c]] =>
    /\ handle[c] <= Len(callbacks[kindOf[c]])
    /\ callbacks[kindOf[c]][handle[c]] = IF c \in cancelled THEN Null ELSE c

\* A cancelled callback leaves its list.  The code breaks it: after an erase,
\* the index of a later entry is out of range or denotes another callback.
CancelRemovesItsCallback ==
  \A c \in cancelled : c \notin ToSet(callbacks[kindOf[c]])

\* If the mount state settles, the monitor reports it: the last batch is of
\* that state, or there was nothing to report.
EventuallyReported ==
  \A b \in BOOLEAN :
    <>[](is_mounted_ = b /\ is_monitoring_) =>
      <>[](last = b /\ (b <=> Len(batches) % 2 = 1))
=============================================================================

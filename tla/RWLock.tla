------------------------------- MODULE RWLock -------------------------------
(***************************************************************************)
(* What every readers-writers lock of the repository promises: a reader    *)
(* shares the lock with readers only, a writer shares it with nobody.      *)
(***************************************************************************)
CONSTANTS Readers, Writers

VARIABLES reading, writing    \* the threads that hold the lock

vars == <<reading, writing>>

Init == reading = {} /\ writing = {}

StartRead(r) ==
  /\ r \notin reading
  /\ writing = {}
  /\ reading' = reading \cup {r}
  /\ UNCHANGED writing

EndRead(r) ==
  /\ r \in reading
  /\ reading' = reading \ {r}
  /\ UNCHANGED writing

StartWrite(w) ==
  /\ reading = {}
  /\ writing = {}
  /\ writing' = {w}
  /\ UNCHANGED reading

EndWrite(w) ==
  /\ writing = {w}
  /\ writing' = {}
  /\ UNCHANGED reading

Next ==
  \/ \E r \in Readers : StartRead(r) \/ EndRead(r)
  \/ \E w \in Writers : StartWrite(w) \/ EndWrite(w)

Spec == Init /\ [][Next]_vars

-----------------------------------------------------------------------------
(* A lock whose holders may die with it in their hands, one or many at once *)

Abandon ==
  /\ reading' \subseteq reading
  /\ writing' \subseteq writing

CrashSpec == Init /\ [][Next \/ Abandon]_vars
=============================================================================

---------------------------- MODULE JobExecutor ----------------------------
(***************************************************************************)
(* What thread_pool (src/cpp/threadpool_new/main.cpp) promises its users,  *)
(* with no mutex, condition variable or flag: jobs wait in a queue, each   *)
(* executor runs the one at the head of it, at most one at a time, and     *)
(* once the executor is closed nothing runs and nothing starts.            *)
(***************************************************************************)
EXTENDS Sequences

CONSTANTS Executors, Jobs, NoJob

VARIABLES
  queue,      \* the jobs submitted and not yet started, oldest first
  running,    \* the job each executor runs, or NoJob
  finished,   \* the jobs that have run to their end
  phase       \* "open", then "closing", then "closed"

vars == <<queue, running, finished, phase>>

Init ==
  /\ queue = <<>>
  /\ running = [e \in Executors |-> NoJob]
  /\ finished = {}
  /\ phase = "open"

Submit ==
  /\ phase # "closed"
  /\ \E j \in Jobs : queue' = Append(queue, j)
  /\ UNCHANGED <<running, finished, phase>>

\* A job that is being fetched when closing begins may still start.
Start(e) ==
  /\ phase # "closed"
  /\ queue # <<>>
  /\ running[e] = NoJob
  /\ running' = [running EXCEPT ![e] = Head(queue)]
  /\ queue' = Tail(queue)
  /\ UNCHANGED <<finished, phase>>

Finish(e) ==
  /\ running[e] # NoJob
  /\ running' = [running EXCEPT ![e] = NoJob]
  /\ finished' = finished \cup {running[e]}
  /\ UNCHANGED <<queue, phase>>

Close ==
  /\ phase = "open"
  /\ phase' = "closing"
  /\ UNCHANGED <<queue, running, finished>>

Closed ==
  /\ phase = "closing"
  /\ \A e \in Executors : running[e] = NoJob
  /\ phase' = "closed"
  /\ UNCHANGED <<queue, running, finished>>

Next ==
  \/ Submit
  \/ \E e \in Executors : Start(e) \/ Finish(e)
  \/ Close
  \/ Closed

Spec == Init /\ [][Next]_vars
=============================================================================

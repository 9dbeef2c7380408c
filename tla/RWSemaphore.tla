---------------------------- MODULE RWSemaphore ----------------------------
(***************************************************************************)
(* The readers-writers programs of                                         *)
(* src/cpp/readers_writers_problem/semaphore/: with_writer_starvation.cpp  *)
(* and, with the third semaphore `in', without_writer_starvation.cpp.      *)
(*                                                                         *)
(* The semaphores and read_count live in a System V segment, which         *)
(* outlives the process: a run that is killed leaves them as they are, and *)
(* only a run started with an argument initialises them.  The segment is   *)
(* born full of zeros.  At most one process uses it at a time.             *)
(***************************************************************************)
EXTENDS Integers, Roles

CONSTANT MaxStarts    \* bound on the number of runs of the program

VARIABLES
  has_in,       \* the program: TRUE for without_writer_starvation.cpp
  in, mx, wrt,  \* the values of the semaphores
  read_count,
  pc,           \* where each reader and writer is
  main,         \* the process: "out", "running", "joining"
  is_running,
  starts,       \* the number of runs so far
  clean         \* history: initialised by a run since the last kill

segment == <<in, mx, wrt, read_count>>
process == <<has_in, main, is_running, starts, clean>>
vars == <<segment, pc, process>>

Init ==
  /\ has_in \in BOOLEAN
  /\ in = 0 /\ mx = 0 /\ wrt = 0 /\ read_count = 0
  /\ pc = [t \in Threads |-> "off"]
  /\ main = "out"
  /\ is_running = FALSE
  /\ starts = 0
  /\ clean = FALSE

Goto(t, label) == pc' = [pc EXCEPT ![t] = label]

-----------------------------------------------------------------------------
(* What readers and writers have in common *)

\* Mutant: readers enter without sem_wait(in).
Loop_ReadersSkipIn(t) ==
  /\ pc[t] = "loop"
  /\ Goto(t, IF ~is_running THEN "off"
             ELSE IF has_in /\ t \in Writers THEN "in"
             ELSE IF t \in Readers THEN "mx" ELSE "wrt")
  /\ UNCHANGED <<segment, process>>

\* while (is_running): into the entry section, or the thread ends.
Loop(t) ==
  /\ pc[t] = "loop"
  /\ Goto(t, IF ~is_running THEN "off"
             ELSE IF has_in THEN "in"
             ELSE IF t \in Readers THEN "mx" ELSE "wrt")
  /\ UNCHANGED <<segment, process>>

\* sem_wait(in)
WaitIn(t) ==
  /\ pc[t] = "in"
  /\ in > 0
  /\ in' = in - 1
  /\ Goto(t, IF t \in Readers THEN "mx" ELSE "wrt")
  /\ UNCHANGED <<mx, wrt, read_count, process>>

\* sem_post(in): the last step of a reader's entry and of a writer's exit.
PostIn(t) ==
  /\ pc[t] = "post_in"
  /\ in' = in + 1
  /\ Goto(t, IF t \in Readers THEN "reading" ELSE "loop")
  /\ UNCHANGED <<mx, wrt, read_count, process>>

-----------------------------------------------------------------------------
(* The reader *)

\* Mutant: the first reader does not wait for wrt.
CountIn_NeverBlocks(r) ==
  /\ pc[r] = "mx"
  /\ mx > 0
  /\ mx' = mx - 1
  /\ read_count' = read_count + 1
  /\ Goto(r, "counted")
  /\ UNCHANGED <<in, wrt, process>>

\* sem_wait(mx) and ++read_count, which only holders of mx touch.
CountIn(r) ==
  /\ pc[r] = "mx"
  /\ mx > 0
  /\ mx' = mx - 1
  /\ read_count' = read_count + 1
  /\ Goto(r, IF read_count' = 1 THEN "wrt" ELSE "counted")
  /\ UNCHANGED <<in, wrt, process>>

\* The first reader: sem_wait(wrt), with mx held.
BlockWriters(r) ==
  /\ pc[r] = "wrt"
  /\ wrt > 0
  /\ wrt' = wrt - 1
  /\ Goto(r, "counted")
  /\ UNCHANGED <<in, mx, read_count, process>>

PostMx(r) ==
  /\ pc[r] \in {"counted", "left"}
  /\ mx' = mx + 1
  /\ Goto(r, IF pc[r] = "left" THEN "loop"
             ELSE IF has_in THEN "post_in" ELSE "reading")
  /\ UNCHANGED <<in, wrt, read_count, process>>

\* Mutant: every reader that leaves posts wrt.
CountOut_EveryOnePosts(r) ==
  /\ pc[r] = "reading"
  /\ mx > 0
  /\ mx' = mx - 1
  /\ read_count' = read_count - 1
  /\ wrt' = wrt + 1
  /\ Goto(r, "left")
  /\ UNCHANGED <<in, process>>

\* Mutant: the last reader does not post wrt.
CountOut_NobodyPosts(r) ==
  /\ pc[r] = "reading"
  /\ mx > 0
  /\ mx' = mx - 1
  /\ read_count' = read_count - 1
  /\ wrt' = wrt
  /\ Goto(r, "left")
  /\ UNCHANGED <<in, process>>

\* The exit section: sem_wait(mx), --read_count, the last one sem_post(wrt).
CountOut(r) ==
  /\ pc[r] = "reading"
  /\ mx > 0
  /\ mx' = mx - 1
  /\ read_count' = read_count - 1
  /\ wrt' = IF read_count' = 0 THEN wrt + 1 ELSE wrt
  /\ Goto(r, "left")
  /\ UNCHANGED <<in, process>>

-----------------------------------------------------------------------------
(* The writer *)

Enter(w) ==
  /\ pc[w] = "wrt"
  /\ wrt > 0
  /\ wrt' = wrt - 1
  /\ Goto(w, "writing")
  /\ UNCHANGED <<in, mx, read_count, process>>

\* Mutant: the writer leaves without sem_post(in).
Exit_KeepsIn(w) ==
  /\ pc[w] = "writing"
  /\ wrt' = wrt + 1
  /\ Goto(w, "loop")
  /\ UNCHANGED <<in, mx, read_count, process>>

Exit(w) ==
  /\ pc[w] = "writing"
  /\ wrt' = wrt + 1
  /\ Goto(w, IF has_in THEN "post_in" ELSE "loop")
  /\ UNCHANGED <<in, mx, read_count, process>>

-----------------------------------------------------------------------------
(* main() *)

\* A run: with an argument it clears the segment and initialises the
\* semaphores, without it takes the segment as it is.  No thread exists yet, so
\* that memset and the sem_init are one step.
Start(with_argument) ==
  /\ main = "out"
  /\ starts < MaxStarts
  /\ starts' = starts + 1
  /\ main' = "running"
  /\ is_running' = TRUE
  /\ pc' = [t \in Threads |-> "loop"]
  /\ clean' = (clean \/ with_argument)
  /\ IF with_argument
       THEN mx' = 1 /\ wrt' = 1 /\ read_count' = 0 /\ in' = IF has_in THEN 1 ELSE 0
       ELSE UNCHANGED segment
  /\ UNCHANGED has_in

Stop ==
  /\ main = "running"
  /\ main' = "joining"
  /\ is_running' = FALSE
  /\ UNCHANGED <<has_in, segment, pc, starts, clean>>

\* sem_destroy, which leaves the values in the segment, and shmdt.
JoinAll ==
  /\ main = "joining"
  /\ \A t \in Threads : pc[t] = "off"
  /\ main' = "out"
  /\ UNCHANGED <<has_in, segment, pc, is_running, starts, clean>>

\* The process is killed: its threads are gone, the segment stays.
Kill ==
  /\ main # "out"
  /\ main' = "out"
  /\ is_running' = FALSE
  /\ pc' = [t \in Threads |-> "off"]
  /\ clean' = FALSE
  /\ UNCHANGED <<has_in, segment, starts>>

-----------------------------------------------------------------------------
ThreadNext(t) ==
  \/ Loop(t) \/ WaitIn(t) \/ PostIn(t)
  \/ t \in Readers /\ (CountIn(t) \/ BlockWriters(t) \/ PostMx(t) \/ CountOut(t))
  \/ t \in Writers /\ (Enter(t) \/ Exit(t))

Next ==
  \/ \E t \in Threads : ThreadNext(t)
  \/ \E with_argument \in BOOLEAN : Start(with_argument)
  \/ Stop \/ JoinAll \/ Kill

Spec == Init /\ [][Next]_vars

-----------------------------------------------------------------------------
(* Properties *)

ReaderLabels == {"off", "loop", "in", "mx", "wrt", "counted", "post_in", "reading", "left"}
WriterLabels == {"off", "loop", "in", "wrt", "writing", "post_in"}

TypeOK ==
  /\ has_in \in BOOLEAN
  /\ in \in {0, 1} /\ mx \in {0, 1} /\ wrt \in {0, 1}
  /\ read_count \in Nat
  /\ pc \in [Threads -> ReaderLabels \cup WriterLabels]
  /\ \A r \in Readers : pc[r] \in ReaderLabels
  /\ \A w \in Writers : pc[w] \in WriterLabels
  /\ main \in {"out", "running", "joining"}
  /\ is_running \in BOOLEAN
  /\ starts \in Nat
  /\ clean \in BOOLEAN

At(S, labels) == {t \in S : pc[t] \in labels}

Lock == INSTANCE RWLock WITH
  reading <- At(Readers, {"reading"}), writing <- At(Writers, {"writing"})

\* Readers exclude writers and writers exclude everybody, in every run: also
\* in one that found the segment as a killed run had left it.
ImplementsRWLock == Lock!CrashSpec

\* The readers counted in read_count.
Counted == At(Readers, {"wrt", "counted", "post_in", "reading"})

\* In a segment that was initialised and not orphaned since, no permit is lost
\* or made: each semaphore is free or has one holder, wrt being held by a
\* writer or by the readers together, and read_count counts the readers.
PermitsConserved ==
  clean =>
    /\ read_count = Cardinality(Counted)
    /\ mx + Cardinality(At(Readers, {"wrt", "counted", "left"})) = 1
    /\ has_in => in + Cardinality(At(Readers, {"mx", "wrt", "counted", "post_in"}))
                   + Cardinality(At(Writers, {"wrt", "writing", "post_in"})) = 1
    /\ wrt + Cardinality(At(Writers, {"writing"}))
           + (IF Counted # {} /\ At(Readers, {"wrt"}) = {} THEN 1 ELSE 0) = 1

\* The purpose of `in': once a writer waits for wrt behind it, no reader that
\* has not been counted yet gets ahead of the writer.
NoOvertaking ==
  [][ has_in /\ main' = "running" /\ At(Writers, {"wrt"}) # {}
        => Counted' \subseteq Counted ]_vars

\* With `in', a writer in its entry section writes, unless the run is killed.
EveryWriterWrites ==
  \A w \in Writers :
    (has_in /\ clean /\ pc[w] \in {"in", "wrt"}) ~> (pc[w] = "writing" \/ ~clean)

\* A reader in its entry section reads, unless the run is killed.
EveryReaderReads ==
  \A r \in Readers :
    (clean /\ pc[r] \in {"in", "mx", "wrt"}) ~> (pc[r] = "reading" \/ ~clean)
=============================================================================

------------------------------- MODULE Roles -------------------------------
(***************************************************************************)
(* The threads of a readers-writers program that is one process.           *)
(***************************************************************************)
EXTENDS FiniteSets

CONSTANTS Readers, Writers

ASSUME ThreadsAssumption ==
  /\ IsFiniteSet(Readers) /\ IsFiniteSet(Writers)
  /\ Readers \cap Writers = {}

Threads == Readers \cup Writers
=============================================================================

----------------------------- MODULE MCCaseStore ----------------------------
(***************************************************************************)
(* Two processes on two cases, with two numbers and one artifact both may  *)
(* have: enough for a linked case, for an id freed by a delete before the  *)
(* next save, and for a match.  Processes and numbers are interchangeable, *)
(* and the run has no liveness property.                                   *)
(***************************************************************************)
EXTENDS CaseStore, TLC

Symmetry == Permutations(Procs) \cup Permutations(Phones)
=============================================================================

------------------------------ MODULE MCLocalState ------------------------------
(* Two processes of one user, two API keys, a cap of two and days of two ticks. *)
EXTENDS LocalState, TLC

CONSTANTS p1, p2, hibp, ipqs
MCProcesses == {p1, p2}
MCKeys == {hibp, ipqs}

\* Nothing tells one process, or one key, from the other.
MCSymmetry == Permutations(MCProcesses) \cup Permutations(MCKeys)
================================================================================

--------------------------- MODULE ReportContract ---------------------------
(***************************************************************************)
(* What Engine.Run promises its caller about InvestigationReport.Results,  *)
(* module by module: every slot is filled exactly once while modules run   *)
(* concurrently; after that only a slot of the second pass may change, at  *)
(* most once, and never when its module was gated; the report is returned  *)
(* only when every slot is filled and is never touched again.              *)
(***************************************************************************)
CONSTANTS
  Slots,      \* one per module
  Revisable,  \* slots of modules that take part in the second pass
  Outcomes,   \* statuses a module can end with
  Locked,     \* the status that excludes a module from the second pass
  Empty       \* not a status: the slot has not been written

VARIABLES slot, revised, phase

contractVars == <<slot, revised, phase>>

ContractInit ==
  /\ slot = [s \in Slots |-> Empty]
  /\ revised = {}
  /\ phase = "gather"

Fill(s) ==
  /\ phase = "gather"
  /\ slot[s] = Empty
  /\ \E o \in Outcomes : slot' = [slot EXCEPT ![s] = o]
  /\ UNCHANGED <<revised, phase>>

Settle ==
  /\ phase = "gather"
  /\ \A s \in Slots : slot[s] # Empty
  /\ phase' = "revise"
  /\ UNCHANGED <<slot, revised>>

Revise(s) ==
  /\ phase = "revise"
  /\ s \in Revisable \ revised
  /\ slot[s] # Locked
  /\ \E o \in Outcomes \ {Locked} : slot' = [slot EXCEPT ![s] = o]
  /\ revised' = revised \cup {s}
  /\ UNCHANGED phase

Return ==
  /\ phase = "revise"
  /\ \A s \in Revisable : s \in revised \/ slot[s] = Locked
  /\ phase' = "published"
  /\ UNCHANGED <<slot, revised>>

ContractNext ==
  \/ \E s \in Slots : Fill(s) \/ Revise(s)
  \/ Settle
  \/ Return

ContractSpec == ContractInit /\ [][ContractNext]_contractVars
=============================================================================

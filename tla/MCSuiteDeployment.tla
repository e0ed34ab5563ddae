-------------------------- MODULE MCSuiteDeployment --------------------------
(* Two modules, the second the one with the username escrow, whose plans   *)
(* hold no records, and a contract of each to spare for every fault.       *)
EXTENDS SuiteDeployment

CONSTANTS core, username, CoreContracts

MCModuleOrder == <<core, username>>

MCBoundId == [c \in Contracts |-> IF c \in CoreContracts THEN core ELSE username]

MCItemsIn == [p \in Payloads |-> 0]

MCSnapshot ==
  [id \in ModuleIds |-> [count |-> 0, batches |-> 0, root |-> [id |-> id, batches |-> <<>>]]]

MCPlans == {MCSnapshot[id] : id \in ModuleIds}
===============================================================================

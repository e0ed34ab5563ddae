--------------------------- MODULE MCSuiteBootstrap ---------------------------
(* Three modules, one of them with a second contract and one with a        *)
(* contract of another suite; imports of none, one or two batches.         *)
EXTENDS SuiteBootstrap

CONSTANTS core, username, release, coreA, coreB, usernameA, usernameForeign, releaseA,
          small, large

MCModuleOrder == <<core, username, release>>

MCBoundId ==
  [c \in Contracts |-> CASE c \in {coreA, coreB} -> core
                         [] c \in {usernameA, usernameForeign} -> username
                         [] c = releaseA -> release]

MCItemsIn == [p \in Payloads |-> IF p = small THEN 1 ELSE 2]

\* The commitment of an import of these payloads.
PlanOf(id, list) ==
  [count |-> IF list = <<>> THEN 0
             ELSE IF Len(list) = 1 THEN MCItemsIn[list[1]]
             ELSE MCItemsIn[list[1]] + MCItemsIn[list[2]],
   batches |-> Len(list),
   root |-> [id |-> id,
             batches |-> [k \in 1..Len(list) |-> [sequence |-> k - 1, count |-> MCItemsIn[list[k]],
                                                  payload |-> list[k]]]]]

MCSnapshot ==
  [id \in ModuleIds |-> CASE id = core -> PlanOf(core, <<small, large>>)
                          [] id = username -> PlanOf(username, <<large>>)
                          [] id = release -> PlanOf(release, <<>>)]

\* The snapshot's commitments, one whose batches are swapped, one that asks for
\* more batches than its records fill, and one without a root.
MCPlans ==
  {MCSnapshot[id] : id \in ModuleIds}
    \cup {PlanOf(core, <<large, small>>),
          [PlanOf(username, <<small, small>>) EXCEPT !.batches = 3],
          [PlanOf(release, <<>>) EXCEPT !.root = None]}
===============================================================================

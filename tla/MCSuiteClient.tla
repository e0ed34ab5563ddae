---------------------------- MODULE MCSuiteClient ----------------------------
EXTENDS SuiteClient

\* Arrays of which one element at a time is removed by moving the last one into
\* its place, and arrays that only grow; pages of two end inside of them and
\* with them.
MCContents ==
  [c \in Lists |-> [v \in 0..2 |->
     IF c \in {"repositories", "refs", "collaborators"}
     THEN <<<<1, 2, 3, 4>>, <<4, 2, 3>>, <<4, 2, 3, 5>>>>[v + 1]
     ELSE <<<<1, 2>>, <<1, 2, 3>>, <<1, 2, 3, 4>>>>[v + 1]]]

MCGenuine ==
  [address |-> "directory", code |-> "directory", chain |-> 1776, version |-> 3, snapshotRoot |-> 1,
   coordinatorCodeHash |-> "coordinator",
   coordinator |-> [address |-> "coordinator", code |-> "coordinator",
                    suiteDirectory |-> "directory", snapshotRoot |-> 1],
   moduleCodeHash |-> [m \in RequiredSuiteModules |-> m],
   modules |-> [m \in RequiredSuiteModules |->
                  [address |-> m, code |-> m, suiteDirectory |-> "directory",
                   bootstrapCoordinator |-> "coordinator", moduleId |-> m]]]

\* A suite on another chain, one whose badge module is not configured, and one
\* with a module that was built for another directory.
MCDirectories ==
  {MCGenuine, [MCGenuine EXCEPT !.chain = 1439],
   [MCGenuine EXCEPT !.modules["badge"].address = NoContract],
   [MCGenuine EXCEPT !.modules["economic"].suiteDirectory = "another"]}
=============================================================================

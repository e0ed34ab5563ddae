---------------------------- MODULE SuiteBootstrap ----------------------------
(***************************************************************************)
(* How a suite comes to life: SuiteDirectory binds the contracts,          *)
(* BootstrapCoordinator drives the imports, and each module, through       *)
(* SuiteModule, keeps its own copy of the progress and checks it again.    *)
(* One action is one transaction; a revert anywhere undoes it all, so a    *)
(* guard is the conjunction of the checks of every contract on the way.    *)
(*                                                                         *)
(* Hashes are modelled by what they commit to: a root is the list of       *)
(* batches hashed into it, under the module's id.  A payload stands for    *)
(* its hash, and what its records do to a module is in Suite.              *)
(***************************************************************************)
EXTENDS Integers, Sequences

CONSTANTS
  ModuleIds,
  ModuleOrder,     \* requiredModuleAt
  UsernameId,
  Contracts,       \* deployed contracts that can be offered as modules
  BoundId,         \* contract -> its moduleId()
  BoundContracts,  \* those deployed for this directory and its coordinator
  Coordinators,    \* contracts that can be offered as coordinator
  BoundCoordinator,\* the one deployed for this directory and its snapshot
  Callers,
  Authority,       \* the deployer named in SuiteDirectory's constructor
  Operator,        \* the operator named in BootstrapCoordinator's constructor
  Payloads,
  ItemsIn,         \* payload -> the number of records it holds
  Plans,           \* the commitments an import can begin with
  Sequences,       \* the sequence numbers and counts a caller can give
  Counts,
  Snapshot,        \* module id -> the commitment computed from the archive
  MaxBatchItems,   \* MAX_IMPORT_BATCH_ITEMS
  None             \* address(0), bytes32(0)

\* A batch as it is hashed, and the rolling commitment over them.
Batch == [sequence: Nat, count: Nat, payload: Payloads]

Root == [id: ModuleIds, batches: Seq(Batch)]

ASSUME BootstrapAssumption ==
  /\ ModuleOrder \in Seq(ModuleIds)
  /\ \A id \in ModuleIds : \E i \in 1..Len(ModuleOrder) : ModuleOrder[i] = id
  /\ \A i, j \in 1..Len(ModuleOrder) : ModuleOrder[i] = ModuleOrder[j] => i = j
  /\ BoundContracts \subseteq Contracts
  /\ BoundId \in [Contracts -> ModuleIds]
  /\ None \notin Contracts \cup Coordinators \cup Callers \cup ModuleIds \cup Root
  /\ ItemsIn \in [Payloads -> Nat]
  /\ Sequences \subseteq Nat /\ Counts \subseteq Nat
  /\ Plans \subseteq [count: Nat, batches: Nat, root: Root \cup {None}]
  /\ \A id \in ModuleIds : Snapshot[id] \in Plans
  /\ MaxBatchItems \in Nat

VARIABLES
  state,                 \* SuiteDirectory
  bootstrapAuthority,
  bootstrapCoordinator,
  moduleAddress,
  nextModuleIndex,       \* BootstrapCoordinator
  usernameEscrowEvidence,
  activated,
  moduleProgress,
  modules                \* SuiteModule, the progress each contract keeps

directoryVars == <<state, bootstrapAuthority, bootstrapCoordinator, moduleAddress>>
coordinatorVars == <<nextModuleIndex, usernameEscrowEvidence, activated, moduleProgress>>
vars == <<directoryVars, coordinatorVars, modules>>

Size == Len(ModuleOrder)

Progress ==
  [started: BOOLEAN, finalized: BOOLEAN, expectedCount: Nat, expectedBatches: Nat,
   importedCount: Nat, nextSequence: Nat, expectedRoot: Root \cup {None},
   rollingRoot: Root \cup {None}]

NoProgress ==
  [started |-> FALSE, finalized |-> FALSE, expectedCount |-> 0, expectedBatches |-> 0,
   importedCount |-> 0, nextSequence |-> 0, expectedRoot |-> None, rollingRoot |-> None]

\* The type of the storage of the directory, the coordinator and the modules.
TypeOK ==
  /\ state \in {"Bootstrapping", "Active"}
  /\ bootstrapAuthority \in {Authority, None}
  /\ bootstrapCoordinator \in Coordinators \cup {None}
  /\ moduleAddress \in [ModuleIds -> Contracts \cup {None}]
  /\ nextModuleIndex \in 0..Size
  /\ usernameEscrowEvidence \in BOOLEAN
  /\ activated \in BOOLEAN
  /\ moduleProgress \in [ModuleIds -> Progress]
  /\ modules \in [Contracts -> Progress]

Init ==
  /\ state = "Bootstrapping"
  /\ bootstrapAuthority = Authority
  /\ bootstrapCoordinator = None
  /\ moduleAddress = [id \in ModuleIds |-> None]
  /\ nextModuleIndex = 0
  /\ usernameEscrowEvidence = FALSE
  /\ activated = FALSE
  /\ moduleProgress = [id \in ModuleIds |-> NoProgress]
  /\ modules = [c \in Contracts |-> NoProgress]

-----------------------------------------------------------------------------
(* SuiteDirectory                                                          *)

SetBootstrapCoordinator(caller, coordinator) ==
  /\ state = "Bootstrapping"
  /\ caller = bootstrapAuthority
  /\ bootstrapCoordinator = None
  /\ coordinator = BoundCoordinator
  /\ bootstrapCoordinator' = coordinator
  /\ bootstrapAuthority' = None
  /\ UNCHANGED <<state, moduleAddress, coordinatorVars, modules>>

\* Mutant: the id a contract was deployed for is not compared.
ConfigureModule_AnyId(id, c) ==
  /\ state = "Bootstrapping"
  /\ bootstrapCoordinator = BoundCoordinator
  /\ moduleAddress[id] = None
  /\ c \in BoundContracts
  /\ moduleAddress' = [moduleAddress EXCEPT ![id] = c]

\* Mutant: an id can be configured again.
ConfigureModule_Again(id, c) ==
  /\ state = "Bootstrapping"
  /\ bootstrapCoordinator = BoundCoordinator
  /\ c \in BoundContracts /\ BoundId[c] = id
  /\ moduleAddress' = [moduleAddress EXCEPT ![id] = c]

ConfigureModule(id, c) ==
  /\ state = "Bootstrapping"
  /\ bootstrapCoordinator = BoundCoordinator
  /\ moduleAddress[id] = None
  /\ c \in BoundContracts /\ BoundId[c] = id
  /\ moduleAddress' = [moduleAddress EXCEPT ![id] = c]

-----------------------------------------------------------------------------
(* SuiteModule and BootstrapCoordinator                                    *)

OnlyOperator(caller) == caller = Operator /\ ~activated

RegisterModule(caller, id, c) ==
  /\ OnlyOperator(caller)
  /\ ConfigureModule(id, c)
  /\ UNCHANGED <<state, bootstrapAuthority, bootstrapCoordinator, coordinatorVars, modules>>

\* The id whose turn it is; requiredModuleAt reverts behind the last.
IsCurrent(id) == nextModuleIndex < Size /\ id = ModuleOrder[nextModuleIndex + 1]

\* What beginBootstrap, and the coordinator beside it, record of an import.
Begun(id, plan) ==
  [started |-> TRUE, finalized |-> FALSE, expectedCount |-> plan.count,
   expectedBatches |-> plan.batches, importedCount |-> 0, nextSequence |-> 0,
   expectedRoot |-> plan.root, rollingRoot |-> [id |-> id, batches |-> <<>>]]

\* Mutant: an import can be begun again with another commitment.
BeginNextModule_Again(caller, id, plan) ==
  LET c == moduleAddress[id] IN
  /\ OnlyOperator(caller)
  /\ IsCurrent(id)
  /\ c # None
  /\ plan.root # None
  /\ moduleProgress' = [moduleProgress EXCEPT ![id] = Begun(id, plan)]
  /\ modules' = [modules EXCEPT ![c] = Begun(BoundId[c], plan)]
  /\ UNCHANGED <<directoryVars, nextModuleIndex, usernameEscrowEvidence, activated>>

BeginNextModule(caller, id, plan) ==
  LET c == moduleAddress[id] IN
  /\ OnlyOperator(caller)
  /\ IsCurrent(id)
  /\ c # None
  /\ ~moduleProgress[id].started /\ ~modules[c].started
  /\ plan.root # None
  /\ moduleProgress' = [moduleProgress EXCEPT ![id] = Begun(id, plan)]
  /\ modules' = [modules EXCEPT ![c] = Begun(BoundId[c], plan)]
  /\ UNCHANGED <<directoryVars, nextModuleIndex, usernameEscrowEvidence, activated>>

\* The progress p with one batch more.
WithBatch(p, sequence, count, payload) ==
  LET batch == [sequence |-> sequence, count |-> count, payload |-> payload] IN
  [started |-> p.started, finalized |-> p.finalized, expectedCount |-> p.expectedCount,
   expectedBatches |-> p.expectedBatches, importedCount |-> p.importedCount + count,
   nextSequence |-> sequence + 1, expectedRoot |-> p.expectedRoot,
   rollingRoot |-> [id |-> p.rollingRoot.id, batches |-> Append(p.rollingRoot.batches, batch)]]

\* The checks that the coordinator and the module each make of a batch.
BatchFits(p, sequence, count) ==
  /\ p.started /\ ~p.finalized
  /\ sequence = p.nextSequence
  /\ p.importedCount + count <= p.expectedCount
  /\ sequence + 1 <= p.expectedBatches

ImportBatch(caller, id, sequence, count, payloadHash, payload) ==
  LET c == moduleAddress[id] IN
  /\ OnlyOperator(caller)
  /\ IsCurrent(id)
  /\ BatchFits(moduleProgress[id], sequence, count)
  /\ payloadHash = payload
  /\ BatchFits(modules[c], sequence, count)
  /\ count \in 1..MaxBatchItems /\ count = ItemsIn[payload]
  /\ modules' = [modules EXCEPT ![c] = WithBatch(@, sequence, count, payloadHash)]
  /\ moduleProgress' = [moduleProgress EXCEPT ![id] = WithBatch(@, sequence, count, payloadHash)]
  /\ UNCHANGED <<directoryVars, nextModuleIndex, usernameEscrowEvidence, activated>>

\* Mutant: the number of records is taken for the records.
ImportComplete_CountOnly(p) ==
  /\ p.started /\ ~p.finalized
  /\ p.importedCount = p.expectedCount
  /\ p.nextSequence = p.expectedBatches

\* The checks that the coordinator and the module each make before sealing.
ImportComplete(p) ==
  /\ p.started /\ ~p.finalized
  /\ p.importedCount = p.expectedCount
  /\ p.nextSequence = p.expectedBatches
  /\ p.rollingRoot = p.expectedRoot

Sealed(p) == [p EXCEPT !.finalized = TRUE]

FinalizeCurrentModule(caller, id) ==
  LET c == moduleAddress[id] IN
  /\ OnlyOperator(caller)
  /\ IsCurrent(id)
  /\ ImportComplete(moduleProgress[id])
  /\ id = UsernameId => usernameEscrowEvidence
  /\ ImportComplete(modules[c])
  /\ modules' = [modules EXCEPT ![c] = Sealed(modules[c])]
  /\ moduleProgress' = [moduleProgress EXCEPT ![id] = Sealed(moduleProgress[id])]
  /\ nextModuleIndex' = nextModuleIndex + 1
  /\ UNCHANGED <<directoryVars, usernameEscrowEvidence, activated>>

AttestUsernameEscrowReleased(caller) ==
  /\ OnlyOperator(caller)
  /\ ~usernameEscrowEvidence
  /\ usernameEscrowEvidence' = TRUE
  /\ UNCHANGED <<directoryVars, nextModuleIndex, activated, moduleProgress, modules>>

ReadyForActivation == ~activated /\ nextModuleIndex = Size /\ usernameEscrowEvidence

ActivateSuite(caller) ==
  /\ OnlyOperator(caller)
  /\ ReadyForActivation
  /\ state = "Bootstrapping"
  /\ bootstrapCoordinator = BoundCoordinator
  /\ \A id \in ModuleIds : moduleAddress[id] # None /\ modules[moduleAddress[id]].finalized
  /\ state' = "Active"
  /\ activated' = TRUE
  /\ UNCHANGED <<bootstrapAuthority, bootstrapCoordinator, moduleAddress, nextModuleIndex,
                 usernameEscrowEvidence, moduleProgress, modules>>

-----------------------------------------------------------------------------
(* The specification                                                       *)

\* Any account, with any arguments.
Next ==
  \E caller \in Callers :
    \/ \E coordinator \in Coordinators : SetBootstrapCoordinator(caller, coordinator)
    \/ \E id \in ModuleIds, c \in Contracts : RegisterModule(caller, id, c)
    \/ \E id \in ModuleIds, plan \in Plans : BeginNextModule(caller, id, plan)
    \/ \E id \in ModuleIds, sequence \in Sequences, count \in Counts,
          payloadHash \in Payloads, payload \in Payloads :
         ImportBatch(caller, id, sequence, count, payloadHash, payload)
    \/ \E id \in ModuleIds : FinalizeCurrentModule(caller, id)
    \/ AttestUsernameEscrowReleased(caller)
    \/ ActivateSuite(caller)

Spec == Init /\ [][Next]_vars

-----------------------------------------------------------------------------
(* Properties                                                              *)

\* The coordinator and the module each keep the progress of an import and
\* update it on their own; they never disagree, and a contract that was not
\* registered under its id has none.
CopiesAgree ==
  \A c \in Contracts :
    modules[c] = IF moduleAddress[BoundId[c]] = c THEN moduleProgress[BoundId[c]] ELSE NoProgress

\* Modules are imported one after the other in the required order: those before
\* nextModuleIndex are sealed and none behind it has begun.
ImportsInOrder ==
  \A i \in 1..Size :
    LET p == moduleProgress[ModuleOrder[i]] IN
    /\ p.finalized <=> i <= nextModuleIndex
    /\ p.started => i <= nextModuleIndex + 1

\* An active suite is complete: every required id has a contract deployed for
\* it, which holds exactly the batches committed to at its start, and the
\* release of the username escrow was attested.
ActivationComplete ==
  state = "Active" =>
    /\ activated /\ usernameEscrowEvidence
    /\ \A id \in ModuleIds :
         LET c == moduleAddress[id] IN
         /\ c \in BoundContracts /\ BoundId[c] = id
         /\ modules[c].finalized
         /\ modules[c].rollingRoot = modules[c].expectedRoot
         /\ modules[c].importedCount = modules[c].expectedCount

\* Bindings and commitments are made once, a sealed module takes no more
\* batches, and no call of the bootstrap changes an active suite.
BootstrapSealed ==
  [][/\ \A id \in ModuleIds : moduleAddress[id] # None => moduleAddress'[id] = moduleAddress[id]
     /\ \A c \in Contracts :
          /\ modules[c].started => modules'[c].expectedRoot = modules[c].expectedRoot
          /\ modules[c].finalized => modules'[c] = modules[c]
     /\ state = "Active" => UNCHANGED vars]_vars

\* The contracts implement the life cycle, read off the module contracts.
Life == INSTANCE SuiteLifecycle WITH
  Content <- Root,
  NoContent <- None,
  committed <- [i \in 1..Size |-> moduleProgress[ModuleOrder[i]].expectedRoot],
  sealed <- [i \in 1..Size |->
               LET c == moduleAddress[ModuleOrder[i]] IN
               IF c # None /\ modules[c].finalized THEN modules[c].rollingRoot ELSE None],
  active <- state = "Active"

\* Each module is sealed with exactly the content committed to before its import
\* began, in order, and the suite becomes active once, after the last.
ImplementsLifecycle == Life!LifecycleSpec
===============================================================================

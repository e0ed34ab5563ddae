------------------------- MODULE SuiteBootstrapProofs -------------------------
(***************************************************************************)
(* An active suite is complete, for any modules, contracts and imports.    *)
(* The inductive invariant adds to the checked properties that a module    *)
(* is bound before it begins, and what a sealed import looks like.         *)
(*                                                                         *)
(* The second half prepares SuiteDeploymentProofs: the invariant of the    *)
(* deployment tools, what their programs hold, and that it is kept by the  *)
(* steps of a tool between its transactions, a crash included.             *)
(***************************************************************************)
EXTENDS SuiteDeployment, TLAPS

\* A registered contract was deployed for its id; an import that began has a
\* contract, a sealed one is complete, and nothing is known before it begins.
Bindings ==
  \A id \in ModuleIds :
    /\ moduleAddress[id] # None =>
         moduleAddress[id] \in BoundContracts /\ BoundId[moduleAddress[id]] = id
    /\ moduleProgress[id].started =>
         /\ moduleAddress[id] # None
         /\ moduleProgress[id].expectedRoot # None
         /\ moduleProgress[id].rollingRoot # None
    /\ ~moduleProgress[id].started => moduleProgress[id] = NoProgress
    /\ moduleProgress[id].finalized =>
         /\ moduleProgress[id].started
         /\ moduleProgress[id].importedCount = moduleProgress[id].expectedCount
         /\ moduleProgress[id].rollingRoot = moduleProgress[id].expectedRoot

\* Both contracts leave the bootstrap in the same transaction.
Activation ==
  /\ activated <=> state = "Active"
  /\ activated => nextModuleIndex = Size /\ usernameEscrowEvidence

BootInd == TypeOK /\ CopiesAgree /\ ImportsInOrder /\ Bindings /\ Activation

\* One position of the order for each id.
LEMMA OrderFacts ==
  /\ Size \in Nat
  /\ \A i \in 1..Size : ModuleOrder[i] \in ModuleIds
  /\ \A i, j \in 1..Size : ModuleOrder[i] = ModuleOrder[j] => i = j
  /\ \A id \in ModuleIds : \E i \in 1..Size : ModuleOrder[i] = id
BY BootstrapAssumption DEF Size

\* The parts of the assumption, one at a time.
LEMMA Distinct == None \notin Contracts /\ None \notin Root /\ None \notin Coordinators
BY BootstrapAssumption, Zenon

\* Contracts that are bound to a module are contracts, bound to one each.
LEMMA BoundIds == BoundContracts \subseteq Contracts /\ BoundId \in [Contracts -> ModuleIds]
BY BootstrapAssumption, Zenon

\* The arguments of the calls are numbers and plans.
LEMMA Arguments ==
  /\ Sequences \subseteq Nat /\ Counts \subseteq Nat
  /\ Plans \subseteq [count: Nat, batches: Nat, root: Root \cup {None}]
BY BootstrapAssumption, Zenon

\* What TypeOK says of one module's progress.
LEMMA ProgressTypes ==
  ASSUME BootInd, NEW id \in ModuleIds
  PROVE  /\ moduleProgress[id] \in Progress
         /\ moduleAddress[id] \in Contracts \cup {None}
         /\ moduleAddress[id] # None => modules[moduleAddress[id]] = moduleProgress[id]
BY BoundIds DEF BootInd, TypeOK, CopiesAgree, Bindings

\* The contracts as deployed.
LEMMA InitInd == Init => BootInd
<1> SUFFICES ASSUME Init PROVE BootInd
  BY Zenon
<1>0. Size \in Nat
  BY OrderFacts, Zenon
<1>1. NoProgress \in Progress
  BY Zenon DEF NoProgress, Progress
<1>2. TypeOK
  <2>1. nextModuleIndex \in 0..Size
    BY <1>0 DEF Init
  <2>2. moduleProgress \in [ModuleIds -> Progress] /\ modules \in [Contracts -> Progress]
    BY <1>1, Zenon DEF Init
  <2> QED
    BY <2>1, <2>2, ZenonT(60) DEF Init, TypeOK
<1>3. CopiesAgree /\ ImportsInOrder /\ Bindings /\ Activation
  BY <1>0, BoundIds, Distinct, OrderFacts DEF Init, CopiesAgree, ImportsInOrder, Bindings, Activation, NoProgress
<1> QED
  BY <1>2, <1>3, Zenon DEF BootInd

\* A step of the bootstrap that gives module id the progress p, in both copies.
Advance(id, p) ==
  /\ moduleAddress[id] # None
  /\ moduleProgress' = [moduleProgress EXCEPT ![id] = p]
  /\ modules' = [modules EXCEPT ![moduleAddress[id]] = p]
  /\ UNCHANGED directoryVars

\* The copies stay equal: the contract that was advanced is the one bound to
\* the id, and no other is.
LEMMA AdvanceKeepsCopies ==
  ASSUME BootInd, NEW id \in ModuleIds, NEW p \in Progress, Advance(id, p)
  PROVE  CopiesAgree'
<1>1. /\ moduleAddress[id] \in Contracts /\ BoundId[moduleAddress[id]] = id
      /\ UNCHANGED moduleAddress
  BY BoundIds, Zenon DEF BootInd, TypeOK, Bindings, Advance, directoryVars
<1>2. ASSUME NEW c \in Contracts
      PROVE  modules'[c] = IF moduleAddress[BoundId[c]] = c THEN moduleProgress'[BoundId[c]]
                           ELSE NoProgress
  <2>1. modules[c] = IF moduleAddress[BoundId[c]] = c THEN moduleProgress[BoundId[c]] ELSE NoProgress
    BY Zenon DEF BootInd, CopiesAgree
  <2>2. modules'[c] = IF c = moduleAddress[id] THEN p ELSE modules[c]
    BY <1>1, Zenon DEF BootInd, TypeOK, Advance
  <2>3. moduleProgress'[BoundId[c]] = IF BoundId[c] = id THEN p ELSE moduleProgress[BoundId[c]]
    BY DEF BootInd, TypeOK, Advance
  <2> QED
    BY <1>1, <2>1, <2>2, <2>3, Zenon
<1> QED
  BY <1>1, <1>2, Zenon DEF CopiesAgree

\* The position of the module whose turn it is.
LEMMA CurrentPosition ==
  ASSUME BootInd, NEW id \in ModuleIds, IsCurrent(id)
  PROVE  /\ nextModuleIndex \in Nat /\ nextModuleIndex + 1 \in 1..Size
         /\ id = ModuleOrder[nextModuleIndex + 1]
         /\ \A i \in 1..Size : ModuleOrder[i] = id => i = nextModuleIndex + 1
         /\ ~moduleProgress[id].finalized
<1>1. nextModuleIndex \in 0..Size /\ nextModuleIndex < Size /\ id = ModuleOrder[nextModuleIndex + 1]
  BY Zenon DEF BootInd, TypeOK, IsCurrent
<1>2. nextModuleIndex \in Nat /\ nextModuleIndex + 1 \in 1..Size
  <2>1. Size \in Nat
    BY OrderFacts, Zenon
  <2> QED
    BY <1>1, <2>1
<1>3. ~moduleProgress[id].finalized
  BY <1>1, <1>2 DEF BootInd, ImportsInOrder
<1> QED
  BY <1>1, <1>2, <1>3, OrderFacts, Zenon

\* Progress of the current module that leaves it unsealed keeps everything.
LEMMA AdvanceKeepsInd ==
  ASSUME BootInd, NEW id \in ModuleIds, NEW p \in Progress, Advance(id, p), IsCurrent(id),
         p.started, ~p.finalized, p.expectedRoot # None, p.rollingRoot # None,
         UNCHANGED <<nextModuleIndex, usernameEscrowEvidence, activated>>
  PROVE  BootInd'
<1>1. CopiesAgree'
  BY AdvanceKeepsCopies, Zenon
<1>2. TypeOK'
  BY Zenon DEF BootInd, TypeOK, Advance, directoryVars
<1>3. \A m \in ModuleIds : moduleProgress'[m] = IF m = id THEN p ELSE moduleProgress[m]
  BY Zenon DEF BootInd, TypeOK, Advance
<1>4. ImportsInOrder'
  <2> SUFFICES ASSUME NEW i \in 1..Size
               PROVE  /\ moduleProgress'[ModuleOrder[i]].finalized <=> i <= nextModuleIndex
                      /\ moduleProgress'[ModuleOrder[i]].started => i <= nextModuleIndex + 1
    BY Zenon DEF ImportsInOrder
  <2>1. CASE ModuleOrder[i] = id
    BY <1>3, <2>1, CurrentPosition
  <2>2. CASE ModuleOrder[i] # id
    BY <1>3, <2>2, OrderFacts, Zenon DEF BootInd, ImportsInOrder
  <2> QED
    BY <2>1, <2>2, Zenon
<1>5. Bindings'
  BY <1>3 DEF Bindings, BootInd, Advance, directoryVars
<1>6. Activation'
  BY Zenon DEF Activation, BootInd, Advance, directoryVars
<1> QED
  BY <1>1, <1>2, <1>4, <1>5, <1>6, Zenon DEF BootInd

\* beginNextModule.
LEMMA BeginKeepsInd ==
  ASSUME BootInd, NEW caller \in Callers, NEW id \in ModuleIds, NEW plan \in Plans,
         BeginNextModule(caller, id, plan)
  PROVE  /\ BootInd' /\ ~activated /\ IsCurrent(id) /\ ~moduleProgress[id].started
         /\ plan.root \in Root
         /\ Advance(id, Begun(id, plan))
         /\ UNCHANGED <<nextModuleIndex, usernameEscrowEvidence, activated>>
<1> DEFINE p == Begun(id, plan)
<1>1. /\ ~activated /\ IsCurrent(id) /\ moduleAddress[id] # None /\ ~moduleProgress[id].started
      /\ plan.root # None
      /\ UNCHANGED <<directoryVars, nextModuleIndex, usernameEscrowEvidence, activated>>
  BY Zenon DEF BeginNextModule, OnlyOperator
<1>2. BoundId[moduleAddress[id]] = id
  BY <1>1, Zenon DEF BootInd, Bindings
<1>3. Advance(id, p)
  BY <1>1, <1>2, Zenon DEF BeginNextModule, Advance
<1>4. plan.count \in Nat /\ plan.batches \in Nat /\ plan.root \in Root
  BY <1>1, Arguments, Zenon
<1>5. [id |-> id, batches |-> <<>>] \in Root /\ [id |-> id, batches |-> <<>>] # None
  <2>1. <<>> \in Seq(Batch)
    OBVIOUS
  <2>2. [id |-> id, batches |-> <<>>] \in Root
    BY <2>1, Zenon DEF Root
  <2> QED
    BY <2>2, Distinct, Zenon
<1>6. p \in Progress /\ p.started /\ ~p.finalized /\ p.expectedRoot # None /\ p.rollingRoot # None
  BY <1>1, <1>4, <1>5, Zenon DEF Begun, Progress
<1> HIDE DEF p
<1>7. BootInd'
  BY <1>1, <1>3, <1>6, AdvanceKeepsInd, Zenon
<1> QED
  BY <1>1, <1>3, <1>4, <1>7, Zenon DEF p

\* importBatch.
LEMMA ImportKeepsInd ==
  ASSUME BootInd, NEW caller \in Callers, NEW id \in ModuleIds, NEW sequence \in Sequences,
         NEW count \in Counts, NEW hash \in Payloads, NEW payload \in Payloads,
         ImportBatch(caller, id, sequence, count, hash, payload)
  PROVE  /\ BootInd' /\ ~activated /\ IsCurrent(id)
         /\ moduleProgress[id].started /\ ~moduleProgress[id].finalized
         /\ Advance(id, WithBatch(moduleProgress[id], sequence, count, hash))
         /\ UNCHANGED <<nextModuleIndex, usernameEscrowEvidence, activated>>
<1> DEFINE p == WithBatch(moduleProgress[id], sequence, count, hash)
<1>1. /\ ~activated /\ IsCurrent(id) /\ moduleProgress[id].started /\ ~moduleProgress[id].finalized
      /\ UNCHANGED <<directoryVars, nextModuleIndex, usernameEscrowEvidence, activated>>
      /\ modules' = [modules EXCEPT ![moduleAddress[id]] =
                       WithBatch(modules[moduleAddress[id]], sequence, count, hash)]
      /\ moduleProgress' = [moduleProgress EXCEPT ![id] = p]
  BY Zenon DEF ImportBatch, OnlyOperator, BatchFits
<1>2. /\ moduleAddress[id] # None /\ modules[moduleAddress[id]] = moduleProgress[id]
      /\ moduleProgress[id].expectedRoot # None /\ moduleProgress[id].rollingRoot # None
  BY <1>1, ProgressTypes, Zenon DEF BootInd, Bindings
<1>3. Advance(id, p)
  BY <1>1, <1>2, Zenon DEF Advance
<1>4. moduleProgress[id] \in Progress /\ moduleProgress[id].rollingRoot \in Root
  BY <1>2, ProgressTypes, Zenon DEF Progress
<1>5. p.rollingRoot \in Root /\ p.rollingRoot # None
  <2> DEFINE batch == [sequence |-> sequence, count |-> count, payload |-> hash]
             root == moduleProgress[id].rollingRoot
  <2>1. batch \in Batch
    BY Arguments, Zenon DEF Batch
  <2>2. root.id \in ModuleIds /\ root.batches \in Seq(Batch)
    BY <1>4, Zenon DEF Root
  <2> HIDE DEF batch
  <2>3. Append(root.batches, batch) \in Seq(Batch)
    BY <2>1, <2>2
  <2>4. p.rollingRoot = [id |-> root.id, batches |-> Append(root.batches, batch)]
    BY Zenon DEF WithBatch, batch
  <2>5. p.rollingRoot \in Root
    BY <2>2, <2>3, <2>4 DEF Root
  <2> QED
    BY <2>5, Distinct, Zenon
<1>6. p \in Progress /\ p.started /\ ~p.finalized /\ p.expectedRoot # None
  <2> DEFINE r == p.rollingRoot
  <2>1. sequence + 1 \in Nat /\ moduleProgress[id].importedCount + count \in Nat
    BY <1>4, Arguments DEF Progress
  <2>2. p = [started |-> moduleProgress[id].started, finalized |-> moduleProgress[id].finalized,
             expectedCount |-> moduleProgress[id].expectedCount,
             expectedBatches |-> moduleProgress[id].expectedBatches,
             importedCount |-> moduleProgress[id].importedCount + count,
             nextSequence |-> sequence + 1, expectedRoot |-> moduleProgress[id].expectedRoot,
             rollingRoot |-> r]
    BY Zenon DEF WithBatch
  <2>3. r \in Root
    BY <1>5, Zenon
  <2> HIDE DEF r, p
  <2> QED
    BY <1>1, <1>2, <1>4, <1>5, <2>1, <2>2, <2>3, Zenon DEF Progress
<1> HIDE DEF p
<1>7. BootInd'
  BY <1>1, <1>3, <1>5, <1>6, AdvanceKeepsInd, Zenon
<1> QED
  BY <1>1, <1>3, <1>7, Zenon DEF p

\* finalizeCurrentModule.
LEMMA FinalizeKeepsInd ==
  ASSUME BootInd, NEW caller \in Callers, NEW id \in ModuleIds, FinalizeCurrentModule(caller, id)
  PROVE  /\ BootInd' /\ ~activated /\ IsCurrent(id)
         /\ moduleProgress[id].started /\ ~moduleProgress[id].finalized
         /\ moduleProgress[id].rollingRoot = moduleProgress[id].expectedRoot
         /\ Advance(id, Sealed(moduleProgress[id]))
         /\ nextModuleIndex' = nextModuleIndex + 1
         /\ UNCHANGED <<usernameEscrowEvidence, activated>>
<1> DEFINE q == moduleProgress[id]
           p == Sealed(q)
<1>1. /\ ~activated /\ IsCurrent(id) /\ q.started /\ ~q.finalized
      /\ q.importedCount = q.expectedCount /\ q.rollingRoot = q.expectedRoot
      /\ nextModuleIndex' = nextModuleIndex + 1
      /\ UNCHANGED <<directoryVars, usernameEscrowEvidence, activated>>
      /\ modules' = [modules EXCEPT ![moduleAddress[id]] = Sealed(modules[moduleAddress[id]])]
      /\ moduleProgress' = [moduleProgress EXCEPT ![id] = p]
  BY Zenon DEF FinalizeCurrentModule, OnlyOperator, ImportComplete
<1>2. /\ moduleAddress[id] # None /\ modules[moduleAddress[id]] = q
      /\ q.expectedRoot # None /\ q.rollingRoot # None
  BY <1>1, ProgressTypes, Zenon DEF BootInd, Bindings
<1>3. Advance(id, p)
  BY <1>1, <1>2, Zenon DEF Advance
<1>4. /\ p \in Progress /\ p.started /\ p.finalized /\ p.expectedRoot # None /\ p.rollingRoot # None
      /\ p.importedCount = p.expectedCount /\ p.rollingRoot = p.expectedRoot
  <2>1. q \in Progress
    BY ProgressTypes, Zenon
  <2> HIDE DEF q
  <2> QED
    BY <1>1, <1>2, <2>1, ZenonT(60) DEF Sealed, Progress
<1>5. /\ nextModuleIndex \in Nat /\ nextModuleIndex + 1 \in 1..Size
      /\ \A i \in 1..Size : ModuleOrder[i] = id => i = nextModuleIndex + 1
      /\ id = ModuleOrder[nextModuleIndex + 1]
  BY <1>1, CurrentPosition, Zenon
<1> HIDE DEF p, q
<1>6. CopiesAgree'
  BY <1>3, <1>4, AdvanceKeepsCopies, Zenon
<1>7. TypeOK'
  <2>1. nextModuleIndex' \in 0..Size
    BY <1>1, <1>5, OrderFacts
  <2> QED
    BY <1>1, <1>3, <1>4, <2>1, Zenon DEF BootInd, TypeOK, Advance, directoryVars
<1>8. \A m \in ModuleIds : moduleProgress'[m] = IF m = id THEN p ELSE moduleProgress[m]
  BY <1>3, Zenon DEF BootInd, TypeOK, Advance
<1>9. ImportsInOrder'
  <2> SUFFICES ASSUME NEW i \in 1..Size
               PROVE  /\ moduleProgress'[ModuleOrder[i]].finalized <=> i <= nextModuleIndex + 1
                      /\ moduleProgress'[ModuleOrder[i]].started => i <= nextModuleIndex + 2
    BY <1>1, <1>5 DEF ImportsInOrder
  <2>1. CASE ModuleOrder[i] = id
    BY <1>4, <1>5, <1>8, <2>1
  <2>2. CASE ModuleOrder[i] # id
    <3>1. moduleProgress'[ModuleOrder[i]] = moduleProgress[ModuleOrder[i]]
      BY <1>8, <2>2, OrderFacts, Zenon
    <3>2. i # nextModuleIndex + 1
      BY <1>5, <2>2, Zenon
    <3> QED
      BY <1>5, <3>1, <3>2 DEF BootInd, ImportsInOrder
  <2> QED
    BY <2>1, <2>2, Zenon
<1>10. Bindings'
  BY <1>3, <1>4, <1>8 DEF Bindings, BootInd, Advance, directoryVars
<1>11. Activation'
  BY <1>1, Zenon DEF Activation, BootInd, directoryVars
<1> QED
  BY <1>1, <1>3, <1>6, <1>7, <1>9, <1>10, <1>11, Zenon DEF BootInd, p, q

\* setBootstrapCoordinator, registerModule, attestUsernameEscrowReleased and
\* activateSuite leave the progress of every import alone.
LEMMA CoordinatorKeepsInd ==
  ASSUME BootInd, NEW caller \in Callers, NEW coordinator \in Coordinators,
         SetBootstrapCoordinator(caller, coordinator)
  PROVE  BootInd' /\ state # "Active" /\ UNCHANGED <<state, moduleAddress, moduleProgress, modules>>
BY Zenon DEF SetBootstrapCoordinator, BootInd, TypeOK, CopiesAgree, ImportsInOrder, Bindings, Activation,
       coordinatorVars

\* Registering a module keeps the invariant.
LEMMA RegisterKeepsInd ==
  ASSUME BootInd, NEW caller \in Callers, NEW id \in ModuleIds, NEW c \in Contracts,
         RegisterModule(caller, id, c)
  PROVE  /\ BootInd' /\ state # "Active" /\ moduleAddress[id] = None
         /\ moduleAddress' = [moduleAddress EXCEPT ![id] = c]
         /\ ~moduleProgress[id].started
         /\ UNCHANGED <<state, moduleProgress, modules>>
<1>1. /\ state # "Active" /\ moduleAddress[id] = None /\ c \in BoundContracts /\ BoundId[c] = id
      /\ moduleAddress' = [moduleAddress EXCEPT ![id] = c]
      /\ UNCHANGED <<state, bootstrapAuthority, bootstrapCoordinator, coordinatorVars, modules>>
  BY Zenon DEF RegisterModule, ConfigureModule
<1>2. ~moduleProgress[id].started /\ moduleProgress[id] = NoProgress
  BY <1>1, Zenon DEF BootInd, Bindings
<1>3. TypeOK'
  BY <1>1, Zenon DEF BootInd, TypeOK, coordinatorVars
<1>4. \A m \in ModuleIds : moduleAddress'[m] = IF m = id THEN c ELSE moduleAddress[m]
  BY <1>1, Zenon DEF BootInd, TypeOK
<1>5. CopiesAgree'
  <2> SUFFICES ASSUME NEW d \in Contracts
               PROVE  modules[d] = IF moduleAddress'[BoundId[d]] = d THEN moduleProgress[BoundId[d]]
                                   ELSE NoProgress
    BY <1>1, Zenon DEF CopiesAgree, coordinatorVars
  <2> QED
    <3>1. modules[d] = IF moduleAddress[BoundId[d]] = d THEN moduleProgress[BoundId[d]] ELSE NoProgress
      BY Zenon DEF BootInd, CopiesAgree
    <3>2. BoundId[d] \in ModuleIds /\ d # None
      BY BoundIds, Distinct, Zenon
    <3>3. CASE BoundId[d] = id
      BY <1>1, <1>2, <1>4, <3>1, <3>2, <3>3, Zenon
    <3>4. CASE BoundId[d] # id
      BY <1>4, <3>1, <3>2, <3>4, Zenon
    <3> QED
      BY <3>3, <3>4, Zenon
<1>6. ImportsInOrder' /\ Activation'
  BY <1>1, Zenon DEF BootInd, ImportsInOrder, Activation, coordinatorVars
<1>7. Bindings'
  BY <1>1, <1>4, Distinct DEF BootInd, Bindings, coordinatorVars
<1> QED
  BY <1>1, <1>2, <1>3, <1>5, <1>6, <1>7, Zenon DEF BootInd, coordinatorVars

\* So does attesting one.
LEMMA AttestKeepsInd ==
  ASSUME BootInd, NEW caller \in Callers, AttestUsernameEscrowReleased(caller)
  PROVE  /\ BootInd' /\ ~activated
         /\ UNCHANGED <<state, moduleAddress, nextModuleIndex, moduleProgress, modules>>
BY Zenon DEF AttestUsernameEscrowReleased, OnlyOperator, BootInd, TypeOK, CopiesAgree, ImportsInOrder,
       Bindings, Activation, directoryVars

\* So does activating the suite.
LEMMA ActivateKeepsInd ==
  ASSUME BootInd, NEW caller \in Callers, ActivateSuite(caller)
  PROVE  /\ BootInd' /\ state # "Active" /\ state' = "Active" /\ nextModuleIndex = Size
         /\ UNCHANGED <<moduleAddress, nextModuleIndex, moduleProgress, modules>>
BY Zenon DEF ActivateSuite, ReadyForActivation, BootInd, TypeOK, CopiesAgree, ImportsInOrder,
       Bindings, Activation

-----------------------------------------------------------------------------
(* What a step does to the bindings, the contents and the order            *)

\* What no step undoes; BootstrapSealed says it of every step.
SealedStep ==
  /\ \A id \in ModuleIds : moduleAddress[id] # None => moduleAddress'[id] = moduleAddress[id]
  /\ \A c \in Contracts :
       /\ modules[c].started => modules'[c].expectedRoot = modules[c].expectedRoot
       /\ modules[c].finalized => modules'[c] = modules[c]
  /\ state = "Active" => UNCHANGED vars

\* The four things a step can be for the life cycle.
Quiet ==
  /\ UNCHANGED <<state, nextModuleIndex>>
  /\ \A m \in ModuleIds : moduleProgress'[m].expectedRoot = moduleProgress[m].expectedRoot

Commits(id, root) ==
  /\ IsCurrent(id) /\ ~moduleProgress[id].started
  /\ UNCHANGED <<state, nextModuleIndex>>
  /\ \A m \in ModuleIds :
       moduleProgress'[m].expectedRoot = IF m = id THEN root ELSE moduleProgress[m].expectedRoot

Seals(id) ==
  /\ IsCurrent(id) /\ moduleProgress[id].started
  /\ UNCHANGED state /\ nextModuleIndex' = nextModuleIndex + 1
  /\ \A m \in ModuleIds : moduleProgress'[m].expectedRoot = moduleProgress[m].expectedRoot

Activates ==
  /\ state # "Active" /\ state' = "Active" /\ nextModuleIndex = Size
  /\ UNCHANGED nextModuleIndex
  /\ \A m \in ModuleIds : moduleProgress'[m].expectedRoot = moduleProgress[m].expectedRoot

LifeStep == Quiet \/ (\E id \in ModuleIds, root \in Root : Commits(id, root))
                 \/ (\E id \in ModuleIds : Seals(id)) \/ Activates

\* A step that advances one unsealed import, keeping its commitment.
LEMMA AdvanceSeals ==
  ASSUME BootInd, NEW id \in ModuleIds, NEW p \in Progress, Advance(id, p), ~activated,
         ~moduleProgress[id].finalized,
         moduleProgress[id].started => p.expectedRoot = moduleProgress[id].expectedRoot
  PROVE  SealedStep
<1>1. state # "Active" /\ UNCHANGED moduleAddress
  BY Zenon DEF BootInd, Activation, Advance, directoryVars
<1>2. \A c \in Contracts : modules'[c] = IF c = moduleAddress[id] THEN p ELSE modules[c]
  BY Zenon DEF BootInd, TypeOK, Advance
<1>3. modules[moduleAddress[id]] = moduleProgress[id]
  BY ProgressTypes, Zenon DEF Advance
<1> QED
  BY <1>1, <1>2, <1>3, Zenon DEF SealedStep

\* Every step keeps the invariant, undoes nothing and is one of the four.
LEMMA StepInd ==
  ASSUME BootInd, [Next]_vars
  PROVE  BootInd' /\ SealedStep /\ LifeStep
<1>1. CASE UNCHANGED vars
  BY <1>1, Zenon DEF vars, directoryVars, coordinatorVars, BootInd, TypeOK, CopiesAgree, ImportsInOrder,
              Bindings, Activation, SealedStep, LifeStep, Quiet
<1>2. ASSUME NEW caller \in Callers, NEW coordinator \in Coordinators,
             SetBootstrapCoordinator(caller, coordinator)
      PROVE  BootInd' /\ SealedStep /\ LifeStep
  <2>1. BootInd' /\ state # "Active" /\ UNCHANGED <<state, moduleAddress, moduleProgress, modules>>
    BY <1>2, CoordinatorKeepsInd, Zenon
  <2>2. UNCHANGED nextModuleIndex
    BY <1>2, Zenon DEF SetBootstrapCoordinator, coordinatorVars
  <2> QED
    BY <2>1, <2>2, Zenon DEF SealedStep, LifeStep, Quiet
<1>3. ASSUME NEW caller \in Callers, NEW id \in ModuleIds, NEW c \in Contracts,
             RegisterModule(caller, id, c)
      PROVE  BootInd' /\ SealedStep /\ LifeStep
  <2>1. /\ BootInd' /\ state # "Active" /\ moduleAddress[id] = None
        /\ moduleAddress' = [moduleAddress EXCEPT ![id] = c]
        /\ UNCHANGED <<state, moduleProgress, modules>>
    BY <1>3, RegisterKeepsInd, Zenon
  <2>2. UNCHANGED nextModuleIndex
    BY <1>3, Zenon DEF RegisterModule, coordinatorVars
  <2>3. \A m \in ModuleIds : moduleAddress'[m] = IF m = id THEN c ELSE moduleAddress[m]
    BY <2>1, Zenon DEF BootInd, TypeOK
  <2> QED
    BY <2>1, <2>2, <2>3, Zenon DEF SealedStep, LifeStep, Quiet
<1>4. ASSUME NEW caller \in Callers, NEW id \in ModuleIds, NEW plan \in Plans,
             BeginNextModule(caller, id, plan)
      PROVE  BootInd' /\ SealedStep /\ LifeStep
  <2> DEFINE p == Begun(id, plan)
  <2>1. /\ BootInd' /\ ~activated /\ IsCurrent(id) /\ ~moduleProgress[id].started
        /\ plan.root \in Root /\ Advance(id, p)
        /\ UNCHANGED <<nextModuleIndex, usernameEscrowEvidence, activated>>
    BY <1>4, BeginKeepsInd, Zenon
  <2>2. p.expectedRoot = plan.root
    BY Zenon DEF Begun
  <2> HIDE DEF p
  <2>3. moduleProgress' = [moduleProgress EXCEPT ![id] = p] /\ UNCHANGED state
    BY <2>1, Zenon DEF Advance, directoryVars
  <2>4. p \in Progress
    BY <2>1, <2>3, Zenon DEF BootInd, TypeOK
  <2>5. SealedStep
    BY <2>1, <2>4, CurrentPosition, AdvanceSeals, Zenon
  <2>6. Commits(id, plan.root)
    BY <2>1, <2>2, <2>3, Zenon DEF Commits, BootInd, TypeOK
  <2> QED
    BY <2>1, <2>5, <2>6, Zenon DEF LifeStep
<1>5. ASSUME NEW caller \in Callers, NEW id \in ModuleIds, NEW sequence \in Sequences,
             NEW count \in Counts, NEW hash \in Payloads, NEW payload \in Payloads,
             ImportBatch(caller, id, sequence, count, hash, payload)
      PROVE  BootInd' /\ SealedStep /\ LifeStep
  <2> DEFINE p == WithBatch(moduleProgress[id], sequence, count, hash)
  <2>1. /\ BootInd' /\ ~activated /\ ~moduleProgress[id].finalized /\ Advance(id, p)
        /\ UNCHANGED nextModuleIndex
    BY <1>5, ImportKeepsInd, Zenon
  <2>2. p.expectedRoot = moduleProgress[id].expectedRoot
    BY Zenon DEF WithBatch
  <2> HIDE DEF p
  <2>3. moduleProgress' = [moduleProgress EXCEPT ![id] = p] /\ UNCHANGED state
    BY <2>1, Zenon DEF Advance, directoryVars
  <2>4. p \in Progress
    BY <2>1, <2>3, Zenon DEF BootInd, TypeOK
  <2>5. SealedStep
    BY <2>1, <2>2, <2>4, AdvanceSeals, Zenon
  <2>6. Quiet
    BY <2>1, <2>2, <2>3, Zenon DEF Quiet, BootInd, TypeOK
  <2> QED
    BY <2>1, <2>5, <2>6, Zenon DEF LifeStep
<1>6. ASSUME NEW caller \in Callers, NEW id \in ModuleIds, FinalizeCurrentModule(caller, id)
      PROVE  BootInd' /\ SealedStep /\ LifeStep
  <2> DEFINE p == Sealed(moduleProgress[id])
  <2>1. /\ BootInd' /\ ~activated /\ IsCurrent(id) /\ moduleProgress[id].started
        /\ ~moduleProgress[id].finalized /\ Advance(id, p)
        /\ nextModuleIndex' = nextModuleIndex + 1
    BY <1>6, FinalizeKeepsInd, Zenon
  <2>2. p.expectedRoot = moduleProgress[id].expectedRoot
    BY ProgressTypes, Zenon DEF Sealed, Progress
  <2> HIDE DEF p
  <2>3. moduleProgress' = [moduleProgress EXCEPT ![id] = p] /\ UNCHANGED state
    BY <2>1, Zenon DEF Advance, directoryVars
  <2>4. p \in Progress
    BY <2>1, <2>3, Zenon DEF BootInd, TypeOK
  <2>5. SealedStep
    BY <2>1, <2>2, <2>4, AdvanceSeals, Zenon
  <2>6. Seals(id)
    BY <2>1, <2>2, <2>3, Zenon DEF Seals, BootInd, TypeOK
  <2> QED
    BY <2>1, <2>5, <2>6, Zenon DEF LifeStep
<1>7. ASSUME NEW caller \in Callers, AttestUsernameEscrowReleased(caller)
      PROVE  BootInd' /\ SealedStep /\ LifeStep
  BY <1>7, AttestKeepsInd, Zenon DEF SealedStep, LifeStep, Quiet, BootInd, Activation
<1>8. ASSUME NEW caller \in Callers, ActivateSuite(caller)
      PROVE  BootInd' /\ SealedStep /\ LifeStep
  BY <1>8, ActivateKeepsInd, Zenon DEF SealedStep, LifeStep, Activates
<1> QED
  BY <1>1, <1>2, <1>3, <1>4, <1>5, <1>6, <1>7, <1>8, Zenon DEF Next

\* The invariant holds in every behaviour.
LEMMA SpecInd == Spec => []BootInd
<1>1. BootInd /\ [Next]_vars => BootInd'
  BY StepInd, Zenon
<1> QED
  BY InitInd, <1>1, PTL DEF Spec

-----------------------------------------------------------------------------
(* The theorems                                                            *)

\* The coordinator's and the modules' own records of an import never differ.
THEOREM CopiesCorrect == Spec => []CopiesAgree
<1>1. BootInd => CopiesAgree
  BY Zenon DEF BootInd
<1> QED
  BY <1>1, SpecInd, PTL

\* Modules are imported one at a time, in the required order.
THEOREM OrderCorrect == Spec => []ImportsInOrder
<1>1. BootInd => ImportsInOrder
  BY Zenon DEF BootInd
<1> QED
  BY <1>1, SpecInd, PTL

\* An active suite is complete wherever the invariant holds.
LEMMA ActiveComplete ==
  ASSUME BootInd
  PROVE  ActivationComplete
<1> SUFFICES ASSUME state = "Active"
             PROVE  ActivationComplete
  BY Zenon DEF ActivationComplete
<1>1. activated /\ usernameEscrowEvidence /\ nextModuleIndex = Size
  BY Zenon DEF BootInd, Activation
<1>2. ASSUME NEW id \in ModuleIds
      PROVE  /\ moduleAddress[id] \in BoundContracts /\ BoundId[moduleAddress[id]] = id
             /\ modules[moduleAddress[id]].finalized
             /\ modules[moduleAddress[id]].rollingRoot = modules[moduleAddress[id]].expectedRoot
             /\ modules[moduleAddress[id]].importedCount = modules[moduleAddress[id]].expectedCount
  <2>1. PICK i \in 1..Size : ModuleOrder[i] = id
    BY OrderFacts, Zenon
  <2>2. moduleProgress[id].finalized
    BY <1>1, <2>1, OrderFacts DEF BootInd, ImportsInOrder
  <2> QED
    BY <2>2, ProgressTypes DEF BootInd, Bindings
<1> QED
  BY <1>1, <1>2, Zenon DEF ActivationComplete

\* An active suite has every required module, holding what was committed to.
THEOREM ActivationCorrect == Spec => []ActivationComplete
<1>1. BootInd => ActivationComplete
  BY ActiveComplete, Zenon
<1> QED
  BY <1>1, SpecInd, PTL

\* Bindings, commitments and sealed imports are never changed, and nothing is
\* changed by the bootstrap once the suite is active.
THEOREM SealingCorrect == Spec => BootstrapSealed
<1>1. BootInd /\ [Next]_vars => SealedStep
  BY StepInd, Zenon
<1>2. BootInd /\ [Next]_vars =>
        [/\ \A id \in ModuleIds : moduleAddress[id] # None => moduleAddress'[id] = moduleAddress[id]
         /\ \A c \in Contracts :
              /\ modules[c].started => modules'[c].expectedRoot = modules[c].expectedRoot
              /\ modules[c].finalized => modules'[c] = modules[c]
         /\ state = "Active" => UNCHANGED vars]_vars
  BY <1>1, Zenon DEF SealedStep
<1> QED
  BY <1>2, SpecInd, PTL DEF Spec, BootstrapSealed

-----------------------------------------------------------------------------
(* The life cycle                                                          *)

\* What the life cycle sees of the contracts.
Committed == [i \in 1..Size |-> moduleProgress[ModuleOrder[i]].expectedRoot]

SealedContent ==
  [i \in 1..Size |->
     LET c == moduleAddress[ModuleOrder[i]] IN
     IF c # None /\ modules[c].finalized THEN modules[c].rollingRoot ELSE None]

\* The contents as the index of the next module gives them.
SealedPrefix ==
  /\ SealedContent = [i \in 1..Size |-> IF i <= nextModuleIndex THEN Committed[i] ELSE None]
  /\ \A i \in 1..Size : i <= nextModuleIndex => Committed[i] # None
  /\ \A i \in 1..Size : moduleProgress[ModuleOrder[i]].started <=> Committed[i] # None

\* What is sealed is what the index passed.
LEMMA SealedUpToIndex == BootInd => SealedPrefix
<1> SUFFICES ASSUME BootInd PROVE SealedPrefix
  BY Zenon
<1>1. ASSUME NEW i \in 1..Size
      PROVE  /\ SealedContent[i] = IF i <= nextModuleIndex THEN Committed[i] ELSE None
             /\ i <= nextModuleIndex => Committed[i] # None
             /\ moduleProgress[ModuleOrder[i]].started <=> Committed[i] # None
  <2> DEFINE id == ModuleOrder[i]
             q == moduleProgress[id]
  <2>1. id \in ModuleIds /\ (q.finalized <=> i <= nextModuleIndex)
    BY OrderFacts, Zenon DEF BootInd, ImportsInOrder
  <2>2. moduleAddress[id] # None => modules[moduleAddress[id]] = q
    BY <2>1, ProgressTypes, Zenon
  <2>3. /\ q.started => moduleAddress[id] # None /\ q.expectedRoot # None
        /\ q.finalized => q.started /\ q.rollingRoot = q.expectedRoot
        /\ ~q.started => q.expectedRoot = None
    BY <2>1 DEF BootInd, Bindings, NoProgress
  <2>4. /\ Committed[i] = q.expectedRoot
        /\ SealedContent[i] = IF moduleAddress[id] # None /\ modules[moduleAddress[id]].finalized
                              THEN modules[moduleAddress[id]].rollingRoot ELSE None
    BY Zenon DEF Committed, SealedContent
  <2> HIDE DEF q, id
  <2>5. q.started <=> Committed[i] # None
    BY <2>3, <2>4, Zenon
  <2> QED
    BY <2>1, <2>2, <2>3, <2>4, <2>5, Zenon DEF q, id
<1>2. SealedContent = [i \in 1..Size |-> SealedContent[i]]
  BY Zenon DEF SealedContent
<1> QED
  BY <1>1, <1>2, Zenon DEF SealedPrefix

\* The same in the next state.
LEMMA SealedUpToIndexNext == BootInd' => SealedPrefix'
BY SealedUpToIndex, PTL

\* A step of the contracts is a step of the life cycle or leaves it alone.
LEMMA LifeStepRefines ==
  ASSUME BootInd, BootInd', LifeStep
  PROVE  [Life!LifecycleNext]_(Life!lifecycleVars)
<1>1. /\ \A i \in 1..Size : ModuleOrder[i] \in ModuleIds
      /\ Size \in Nat /\ nextModuleIndex \in 0..Size /\ nextModuleIndex' \in 0..Size
  BY OrderFacts, Zenon DEF BootInd, TypeOK
<1>2. /\ SealedContent = [i \in 1..Size |-> IF i <= nextModuleIndex THEN Committed[i] ELSE None]
      /\ \A i \in 1..Size : i <= nextModuleIndex => Committed[i] # None
      /\ \A i \in 1..Size : moduleProgress[ModuleOrder[i]].started <=> Committed[i] # None
  BY SealedUpToIndex, Zenon DEF SealedPrefix
<1>3. SealedContent' = [i \in 1..Size |-> IF i <= nextModuleIndex' THEN Committed'[i] ELSE None]
  BY SealedUpToIndexNext, Zenon DEF SealedPrefix
<1>4. /\ Committed = [i \in 1..Size |-> Committed[i]]
      /\ Committed' = [i \in 1..Size |-> Committed'[i]]
      /\ \A i \in 1..Size : /\ Committed[i] = moduleProgress[ModuleOrder[i]].expectedRoot
                            /\ Committed'[i] = moduleProgress'[ModuleOrder[i]].expectedRoot
  BY Zenon DEF Committed
<1>5. ASSUME NEW n \in 1..Size
      PROVE  Life!Current(n) <=> n = nextModuleIndex + 1
  <2>1. Life!Current(n) <=> \A j \in 1..Size : (j < n) <=> SealedContent[j] # None
    BY Zenon DEF Life!Current, SealedContent
  <2>2. \A j \in 1..Size : SealedContent[j] # None <=> j <= nextModuleIndex
    BY <1>2, Zenon
  <2> QED
    BY <1>1, <2>1, <2>2
<1>6. CASE Quiet
  <2>1. Committed' = Committed
    BY <1>1, <1>4, <1>6 DEF Quiet
  <2>2. SealedContent' = SealedContent
    BY <1>2, <1>3, <1>6, <2>1, Zenon DEF Quiet
  <2> QED
    BY <1>6, <2>1, <2>2, Zenon DEF Quiet, Life!lifecycleVars, Committed, SealedContent
<1>7. ASSUME NEW id \in ModuleIds, NEW root \in Root, NEW n \in Int, n = nextModuleIndex + 1,
             Commits(id, root)
      PROVE  Life!LifecycleNext
  <2>1. n \in 1..Size /\ id = ModuleOrder[n] /\ \A i \in 1..Size : ModuleOrder[i] = id => i = n
    BY <1>7, CurrentPosition, Zenon DEF Commits
  <2>2. Life!Current(n)
    BY <1>5, <1>7, <2>1, Zenon
  <2>3. Committed[n] = None /\ Committed'[n] = root
    BY <1>2, <1>4, <1>7, <2>1, Zenon DEF Commits
  <2>4. Committed' = [Committed EXCEPT ![n] = Committed'[n]]
    BY <1>1, <1>4, <1>7, <2>1, <2>3 DEF Commits
  <2>5. SealedContent' = SealedContent
    <3>1. nextModuleIndex' = nextModuleIndex
      BY <1>7, Zenon DEF Commits
    <3>2. \A i \in 1..Size : i <= nextModuleIndex => Committed'[i] = Committed[i]
      BY <1>1, <1>4, <1>7, <2>1 DEF Commits
    <3> QED
      BY <1>1, <1>2, <1>3, <3>1, <3>2, Zenon
  <2>6. UNCHANGED state
    BY <1>7, SMTT(60) DEF Commits
  <2>7. Life!Commit(n)
    BY <2>2, <2>3, <2>4, <2>5, <2>6, Zenon DEF Life!Commit, Committed, SealedContent
  <2> QED
    BY <2>1, <2>7, Zenon DEF Life!LifecycleNext
<1>8. ASSUME NEW id \in ModuleIds, NEW n \in Int, n = nextModuleIndex + 1, Seals(id)
      PROVE  Life!LifecycleNext
  <2>1. n \in 1..Size /\ id = ModuleOrder[n]
    BY <1>8, CurrentPosition, Zenon DEF Seals
  <2>2. Life!Current(n)
    BY <1>5, <1>8, <2>1, Zenon
  <2>3. Committed' = Committed
    BY <1>1, <1>4, <1>8 DEF Seals
  <2>4. Committed[n] # None
    BY <1>2, <1>8, <2>1, Zenon DEF Seals
  <2>5. SealedContent' = [SealedContent EXCEPT ![n] = Committed[n]]
    <3>1. nextModuleIndex' = n
      BY <1>8, Zenon DEF Seals
    <3>2. \A i \in 1..Size : i <= n <=> i <= nextModuleIndex \/ i = n
      BY <1>1, <1>8
    <3> QED
      BY <1>1, <1>2, <1>3, <2>1, <2>3, <3>1, <3>2, ZenonT(60)
  <2>6. UNCHANGED state
    BY <1>8, Zenon DEF Seals
  <2>7. Life!Seal(n)
    BY <2>2, <2>3, <2>4, <2>5, <2>6, ZenonT(60) DEF Life!Seal, Committed, SealedContent
  <2> QED
    BY <2>1, <2>7, Zenon DEF Life!LifecycleNext
<1>9. CASE Activates
  <2>1. Committed' = Committed
    BY <1>1, <1>4, <1>9 DEF Activates
  <2>2. SealedContent' = SealedContent
    BY <1>2, <1>3, <1>9, <2>1, Zenon DEF Activates
  <2>3. \A i \in 1..Size : SealedContent[i] # None
    BY <1>1, <1>2, <1>9, SMTT(60) DEF Activates
  <2>4. Life!Activate
    BY <1>9, <2>1, <2>2, <2>3, Zenon DEF Activates, Life!Activate, Committed, SealedContent
  <2> QED
    BY <2>4, Zenon DEF Life!LifecycleNext
<1>10. nextModuleIndex + 1 \in Int
  BY <1>1
<1> QED
  BY <1>6, <1>7, <1>8, <1>9, <1>10, Zenon DEF LifeStep

\* The contracts implement the life cycle: each module is sealed with exactly
\* what was committed to before its import began, in order, and the suite is
\* activated once, after the last.
THEOREM LifecycleImplemented == Spec => ImplementsLifecycle
<1>1. Init => Life!LifecycleInit
  BY OrderFacts DEF Init, Life!LifecycleInit, NoProgress
<1>2. BootInd /\ [Next]_vars => BootInd' /\ LifeStep
  BY StepInd, Zenon
<1>3. BootInd /\ [Next]_vars => [Life!LifecycleNext]_(Life!lifecycleVars)
  BY <1>2, LifeStepRefines, Zenon
<1> QED
  BY <1>1, <1>3, SpecInd, PTL DEF Spec, ImplementsLifecycle, Life!LifecycleSpec

-----------------------------------------------------------------------------
(* The types                                                               *)

Kinds == {"create", "bind", "register", "begin", "attest", "finalize", "activate"}
Ids == ModuleIds \cup {"directory", BoundCoordinator, None}
Addrs == Contracts \cup {"directory", BoundCoordinator, None}
Items == [do: Kinds, id: Ids]
Txs == [do: Kinds, id: Ids, addr: Addrs]
Marks == {"unsent", "mined", "reverted", "unconfirmed", "existing", "applied", "confirmed_by_state"}
Entries == [do: Kinds, id: Ids, addr: Addrs, tx: Marks]
Names == {"deploy", "rest", "runner", "empty"}
Working == {"announce", "look", "send", "wait", "confirm", "record", "verify", "address"}
Phases == Working \cup {"none", "open", "failing", "check", "finish"}
Final == {"bootstrapping", "deployed_bootstrapping", "broadcasted_and_verified"}
Statuses == {"none", "broadcasting", "failed"} \cup Final
Tools ==
  [name: Names \cup {"none"}, step: Nat, phase: Phases, addr: Addrs, status: Statuses,
   entries: Seq(Entries)]
Files == [by: Names \cup {"none"}, torn: BOOLEAN, status: Statuses, entries: Seq(Entries)]

DeploymentTyped ==
  /\ tool \in Tools /\ file \in Files /\ pool \in Seq(Txs)
  /\ receipt \in {"none", "mined", "reverted"}
  /\ code \subseteq Addrs \ {None}
  /\ moduleAddress \in [ModuleIds -> Contracts \cup {None}]
  /\ bootstrapCoordinator \in {None, BoundCoordinator}

-----------------------------------------------------------------------------
(* The chain                                                               *)

\* What a contract was created for.
CreatedFor(c) == IF c \in Contracts THEN BoundId[c] ELSE c

\* An item left a trace: a transaction that may be mined, or what it did.
Trace(d, i) ==
  \/ \E k \in 1..Len(pool) : pool[k].do = d /\ pool[k].id = i
  \/ d = "create" /\ \E c \in code : CreatedFor(c) = i
  \/ d = "bind" /\ i = BoundCoordinator /\ bootstrapCoordinator # None
  \/ d = "register" /\ i \in ModuleIds /\ moduleAddress[i] # None

\* An item is done, with the address in hand.
Done(what, addr) ==
  /\ what.do = "create" => addr \in code
  /\ what.do = "bind" => bootstrapCoordinator # None
  /\ what.do = "register" => addr # None /\ moduleAddress[what.id] = addr

TxSound(tx) ==
  /\ tx.do = "create" => tx.addr # None /\ CreatedFor(tx.addr) = tx.id
  /\ tx.do = "register" => tx.addr \in code

\* Modules are bound to contracts that exist, and nothing precedes the directory.
ChainSound ==
  /\ \A k \in 1..Len(pool) : TxSound(pool[k])
  /\ \A id \in ModuleIds :
       moduleAddress[id] # None => moduleAddress[id] \in code /\ BoundId[moduleAddress[id]] = id
  /\ "directory" \notin code => \A d, i : Trace(d, i) => d = "create" /\ i = "directory"

-----------------------------------------------------------------------------
(* A tool at work                                                          *)

ItemOf(t) == Program(t.name)[t.step]

InEntries(entries, d, i) == \E k \in 1..Len(entries) : entries[k].do = d /\ entries[k].id = i

\* Where a tool is.
ToolPlaced(t) ==
  /\ t.name = "none" <=> t.phase = "none"
  /\ t.phase = "open" => t.step = 0 /\ t.entries = <<>> /\ t.name \in {"deploy", "rest", "runner"}
  /\ t.phase \in Working => t.step \in 1..Len(Program(t.name))
  /\ t.phase = "check" => t.step = Len(Program(t.name)) + 1
  /\ t.phase \in {"announce", "verify", "address", "failing"} => t.name = "deploy"
  /\ t.phase \in {"look", "confirm"} => t.name # "deploy"
  /\ t.name \in {"rest", "runner", "empty"} => "directory" \in code
  /\ t.name \in {"runner", "empty"} => t.name = BootstrapTool
  /\ t.status \in Final <=> t.phase = "finish"

\* The deployer names what it does, and all there is, in its entries.
DeployerSound(t) ==
  t.name = "deploy" =>
    /\ \A d, i : Trace(d, i) => InEntries(t.entries, d, i)
    /\ t.phase \in Working =>
         /\ Len(t.entries) = t.step
         /\ t.entries[t.step].do = ItemOf(t).do /\ t.entries[t.step].id = ItemOf(t).id
    /\ t.step = 1 /\ t.phase \in {"wait", "record", "verify", "address"} => t.addr = "directory"
    /\ t.step >= 2 => "directory" \in code
    /\ t.phase \in {"verify", "address"} \/ (t.phase = "record" /\ t.entries[t.step].tx = "mined") =>
         Done(ItemOf(t), t.addr)

\* The modules not yet created have no entry, and those registered have one.
RestFrom(entries, s) ==
  \A k \in 1..Len(RestSteps) :
    /\ RestSteps[k].do = "create" /\ RestSteps[k].id \in ModuleIds /\ k >= s =>
         Named(entries, RestSteps[k].id) = {}
    /\ RestSteps[k].do = "bind" /\ k < s => bootstrapCoordinator # None
    /\ RestSteps[k].do = "register" /\ k < s =>
         /\ moduleAddress[RestSteps[k].id] # None
         /\ Named(entries, RestSteps[k].id) = {moduleAddress[RestSteps[k].id]}

\* evm-demo-deploy-rest names one contract for every module, the one that is bound.
RestSound(t) ==
  t.name = "rest" =>
    /\ RestFrom(t.entries, t.step)
    /\ t.phase = "record" =>
         Done(ItemOf(t), t.addr) /\ ~(ItemOf(t).do = "create" /\ ItemOf(t).id \in ModuleIds)

\* Whoever registers a module has it in hand.
HandSound(t) ==
  t.name \in {"deploy", "rest"} /\ t.phase \in Working /\ ItemOf(t).do = "register" =>
    t.addr \in code /\ (t.name = "rest" => Named(t.entries, ItemOf(t).id) = {t.addr})

EntriesSound(entries) ==
  \A k \in 1..Len(entries) : entries[k].do = "create" => entries[k].addr \in code \cup {None}

AllNamed(entries) == Bound /\ \A id \in ModuleIds : Named(entries, id) = {moduleAddress[id]}

StatusSound(status, entries) ==
  /\ status \in {"bootstrapping", "deployed_bootstrapping"} => AllNamed(entries)
  /\ status = "broadcasted_and_verified" => state = "Active" /\ BootstrapTool = "runner"

ToolSound(t) ==
  /\ ToolPlaced(t) /\ DeployerSound(t) /\ RestSound(t) /\ HandSound(t)
  /\ EntriesSound(t.entries) /\ StatusSound(t.status, t.entries)

\* The transaction a tool waits for is the last of the pool, or its receipt is there.
WaitSound ==
  tool.phase = "wait" =>
    /\ receipt = "none" => pool # <<>> /\ pool[Len(pool)] = Tx(Step, tool.addr)
    /\ receipt # "none" => pool = <<>>
    /\ receipt = "mined" => Done(Step, tool.addr)

\* A tool's file is its own, and holds what the deployer announced before it sends it.
FileComplete ==
  /\ tool.name # "none" => file.by = tool.name
  /\ file.by = "deploy" /\ ~file.torn =>
       /\ \A d, i : Trace(d, i) => InEntries(file.entries, d, i)
       /\ tool.name = "deploy" /\ tool.phase \notin {"open", "announce"} =>
            \A d, i : InEntries(tool.entries, d, i) => InEntries(file.entries, d, i)

FileTrue == ~file.torn => EntriesSound(file.entries) /\ StatusSound(file.status, file.entries)

DeploymentInv ==
  /\ DeploymentTyped /\ ChainSound /\ ToolSound(tool) /\ WaitSound /\ FileComplete /\ FileTrue

-----------------------------------------------------------------------------
(* What the programs hold                                                  *)

\* The parts of the suite are told apart.
LEMMA Parts ==
  /\ BoundCoordinator \notin Contracts /\ BoundCoordinator \notin ModuleIds
  /\ "directory" \notin Contracts /\ "directory" \notin ModuleIds
  /\ BoundCoordinator # "directory" /\ BoundCoordinator # None /\ "directory" # None
  /\ None \notin Contracts /\ None \notin ModuleIds
  /\ BoundId \in [Contracts -> ModuleIds]
<1>1. BoundCoordinator \in Coordinators /\ "directory" \notin Coordinators
  BY DeploymentAssumption, Zenon
<1> QED
  BY <1>1, DeploymentAssumption, BootstrapAssumption, Zenon

\* ModuleOrder lists modules, each once.
LEMMA Orders ==
  /\ Size \in Nat
  /\ \A i \in 1..Size : ModuleOrder[i] \in ModuleIds
  /\ \A i, j \in 1..Size : ModuleOrder[i] = ModuleOrder[j] => i = j
  /\ \A id \in ModuleIds : Order(id) \in 1..Size /\ ModuleOrder[Order(id)] = id
<1>1. ModuleOrder \in Seq(ModuleIds)
  BY BootstrapAssumption
<1>2. Size \in Nat /\ \A i \in 1..Size : ModuleOrder[i] \in ModuleIds
  BY <1>1 DEF Size
<1>3. \A i, j \in 1..Size : ModuleOrder[i] = ModuleOrder[j] => i = j
  BY BootstrapAssumption, Zenon DEF Size
<1>4. \A id \in ModuleIds : \E i \in 1..Size : ModuleOrder[i] = id
  BY BootstrapAssumption, Zenon DEF Size
<1>5. \A id \in ModuleIds : Order(id) \in 1..Size /\ ModuleOrder[Order(id)] = id
  BY <1>4, Zenon DEF Order
<1> QED
  BY <1>2, <1>3, <1>5, Zenon

\* An item is one of its two kinds, for a module.
LEMMA ForModulesItem ==
  ASSUME NEW k \in 1..(2 * Size), NEW first, NEW second
  PROVE  /\ (k + 1) \div 2 \in 1..Size
         /\ ForModules(k, first, second).do \in {first, second}
         /\ ForModules(k, first, second).id \in ModuleIds
         /\ ForModules(k, first, second) = Do(ForModules(k, first, second).do, ForModules(k, first, second).id)
<1>1. (k + 1) \div 2 \in 1..Size
  BY Orders
<1>2. ModuleOrder[(k + 1) \div 2] \in ModuleIds
  BY <1>1, Orders, Zenon
<1> DEFINE d == IF k % 2 = 1 THEN first ELSE second
           i == ModuleOrder[(k + 1) \div 2]
<1>3. d \in {first, second}
  BY Zenon
<1>4. ForModules(k, first, second) = Do(d, i)
  BY Zenon DEF ForModules
<1> HIDE DEF d, i
<1>5. Do(d, i).do = d /\ Do(d, i).id = i
  BY DEF Do
<1>6. i \in ModuleIds
  BY <1>2, Zenon DEF i
<1> QED
  BY <1>1, <1>3, <1>4, <1>5, <1>6, Zenon

\* What a concatenation holds.
LEMMA Joined ==
  ASSUME NEW S, NEW a \in Seq(S), NEW b \in Seq(S)
  PROVE  /\ a \o b \in Seq(S) /\ Len(a \o b) = Len(a) + Len(b)
         /\ \A k \in 1..Len(a) : (a \o b)[k] = a[k]
         /\ \A k \in (Len(a) + 1)..(Len(a) + Len(b)) : (a \o b)[k] = b[k - Len(a)]
<1>1. a \o b \in Seq(S) /\ Len(a \o b) = Len(a) + Len(b)
  OBVIOUS
<1>2. \A k \in 1..Len(a) : (a \o b)[k] = a[k]
  OBVIOUS
<1>3. \A k \in (Len(a) + 1)..(Len(a) + Len(b)) : (a \o b)[k] = b[k - Len(a)]
  OBVIOUS
<1> QED
  BY <1>1, <1>2, <1>3, Zenon

\* The items of evm-demo-deploy-rest one by one.
LEMMA RestItems ==
  /\ Len(RestSteps) = 2 * Size + 2
  /\ RestSteps[1] = Do("create", BoundCoordinator)
  /\ RestSteps[2] = Do("bind", BoundCoordinator)
  /\ \A k \in 3..(2 * Size + 2) : RestSteps[k] = ForModules(k - 2, "create", "register")
  /\ RestSteps \in Seq(Items)
<1> DEFINE a == <<Do("create", BoundCoordinator), Do("bind", BoundCoordinator)>>
           b == [k \in 1..(2 * Size) |-> ForModules(k, "create", "register")]
<1>0. \A x \in Kinds, y \in Ids : Do(x, y) \in Items
  BY DEF Do, Items
<1>1. Do("create", BoundCoordinator) \in Items /\ Do("bind", BoundCoordinator) \in Items
  BY <1>0, Zenon DEF Kinds, Ids
<1>2. \A k \in 1..(2 * Size) : ForModules(k, "create", "register") \in Items
  <2> TAKE k \in 1..(2 * Size)
  <2>1. PICK d, i : d = ForModules(k, "create", "register").do /\ i = ForModules(k, "create", "register").id
    BY Zenon
  <2>2. d \in {"create", "register"} /\ i \in ModuleIds /\ ForModules(k, "create", "register") = Do(d, i)
    BY <2>1, ForModulesItem, ZenonT(30)
  <2>3. d \in Kinds /\ i \in Ids
    BY <2>2, Zenon DEF Kinds, Ids
  <2> QED
    BY <1>0, <2>2, <2>3, Zenon
<1>3. b \in Seq(Items) /\ Len(b) = 2 * Size
  BY <1>2, Orders
<1>4. RestSteps = a \o b
  BY Zenon DEF RestSteps
<1>5. a \in Seq(Items) /\ Len(a) = 2 /\ a[1] = Do("create", BoundCoordinator) /\ a[2] = Do("bind", BoundCoordinator)
  BY <1>1
<1>6. \A k \in 1..(2 * Size) : b[k] = ForModules(k, "create", "register")
  BY Zenon
<1> HIDE DEF a, b
<1>7. /\ a \o b \in Seq(Items) /\ Len(a \o b) = Len(a) + Len(b)
      /\ \A k \in 1..Len(a) : (a \o b)[k] = a[k]
      /\ \A k \in (Len(a) + 1)..(Len(a) + Len(b)) : (a \o b)[k] = b[k - Len(a)]
  BY <1>3, <1>5, Joined, Zenon
<1>8. PICK c : c = a \o b
  BY Zenon
<1>9. /\ c \in Seq(Items) /\ Len(c) = 2 * Size + 2
      /\ c[1] = a[1] /\ c[2] = a[2]
      /\ \A k \in 3..(2 * Size + 2) : c[k] = b[k - 2] /\ k - 2 \in 1..(2 * Size)
  <2>1. /\ c \in Seq(Items) /\ Len(c) = 2 + 2 * Size
        /\ \A k \in 1..2 : c[k] = a[k]
        /\ \A k \in (2 + 1)..(2 + 2 * Size) : c[k] = b[k - 2]
    BY <1>3, <1>5, <1>7, <1>8, Zenon
  <2> QED
    BY <2>1, Orders
<1>10. RestSteps = c
  BY <1>4, <1>8, Zenon
<1> QED
  BY <1>5, <1>6, <1>9, <1>10, Zenon

\* A module is created, and registered right behind it.
LEMMA RestModules ==
  ASSUME NEW k \in 3..(2 * Size + 2)
  PROVE  /\ RestSteps[k].do = IF k % 2 = 1 THEN "create" ELSE "register"
         /\ RestSteps[k].id = ModuleOrder[(k - 1) \div 2]
         /\ (k - 1) \div 2 \in 1..Size
<1>1. RestSteps[k] = ForModules(k - 2, "create", "register")
  BY RestItems, Zenon
<1>2. /\ ForModules(k - 2, "create", "register").do = IF (k - 2) % 2 = 1 THEN "create" ELSE "register"
      /\ ForModules(k - 2, "create", "register").id = ModuleOrder[((k - 2) + 1) \div 2]
  BY DEF ForModules, Do
<1>3. (k - 2) % 2 = k % 2 /\ ((k - 2) + 1) \div 2 = (k - 1) \div 2 /\ (k - 1) \div 2 \in 1..Size
  BY Orders
<1> QED
  BY <1>1, <1>2, <1>3, Zenon

\* What a deploying tool does: what it registers it created right before.
DeployShape(p) ==
  /\ p \in Seq(Items)
  /\ \A k \in 1..Len(p) :
       /\ p[k].do \in {"create", "bind", "register"}
       /\ p[k].do = "create" => p[k].id \in ModuleIds \cup {"directory", BoundCoordinator}
       /\ p[k].do = "bind" => p[k].id = BoundCoordinator
       /\ p[k].do = "register" => p[k].id \in ModuleIds
  /\ \A k \in 1..(Len(p) - 1) :
       p[k + 1].do = "register" => p[k].do = "create" /\ p[k].id = p[k + 1].id
  /\ Len(p) > 0 /\ p[1].do = "create"

\* evm-demo-deploy-rest does.
LEMMA RestShape == DeployShape(RestSteps)
<1> DEFINE p == RestSteps
<1>0. p \in Seq(Items) /\ Len(p) = 2 * Size + 2 /\ Size \in Nat
  BY RestItems, Orders, Zenon
<1>1. p[1].do = "create" /\ p[1].id = BoundCoordinator /\ p[2].do = "bind" /\ p[2].id = BoundCoordinator
  BY RestItems DEF Do
<1>2. \A k \in 3..(2 * Size + 2) :
        /\ p[k].do = IF k % 2 = 1 THEN "create" ELSE "register"
        /\ p[k].id = ModuleOrder[(k - 1) \div 2]
        /\ (k - 1) \div 2 \in 1..Size
  BY RestModules, Zenon
<1>3. \A k \in 3..(2 * Size + 2) : p[k].id \in ModuleIds
  BY <1>2, Orders, Zenon
<1> HIDE DEF p
<1>4. ASSUME NEW k \in 1..Len(p)
      PROVE  /\ p[k].do \in {"create", "bind", "register"}
             /\ p[k].do = "create" => p[k].id \in ModuleIds \cup {"directory", BoundCoordinator}
             /\ p[k].do = "bind" => p[k].id = BoundCoordinator
             /\ p[k].do = "register" => p[k].id \in ModuleIds
  <2>1. k = 1 \/ k = 2 \/ k \in 3..(2 * Size + 2)
    BY <1>0
  <2> QED
    BY <2>1, <1>1, <1>2, <1>3, Zenon
<1>5. ASSUME NEW k \in 1..(Len(p) - 1), p[k + 1].do = "register"
      PROVE  p[k].do = "create" /\ p[k].id = p[k + 1].id
  <2>1. PICK j : j = k + 1
    BY Zenon
  <2>2. j \in 1..(2 * Size + 2) /\ p[j].do = "register"
    BY <1>0, <1>5, <2>1
  <2>3. j # 1 /\ j # 2
    BY <1>1, <2>2, Zenon
  <2>4. j \in 3..(2 * Size + 2)
    BY <2>2, <2>3, <1>0
  <2>5. ~(j % 2 = 1)
    BY <1>2, <2>2, <2>4, Zenon
  <2>6. k \in 3..(2 * Size + 2) /\ k % 2 = 1 /\ (k - 1) \div 2 = (j - 1) \div 2
    BY <2>1, <2>4, <2>5, <1>0
  <2> QED
    BY <1>2, <2>1, <2>4, <2>6, Zenon
<1>6. Len(p) > 0
  BY <1>0
<1>7. DeployShape(p)
  BY <1>0, <1>1, <1>4, <1>5, <1>6, Zenon DEF DeployShape
<1> QED
  BY <1>7, Zenon DEF p

\* It creates each module once, registers every module, and binds the coordinator.
LEMMA RestOnce ==
  /\ \A j, k \in 1..Len(RestSteps) :
       /\ RestSteps[j].do = "create" /\ RestSteps[k].do = "create"
       /\ RestSteps[j].id = RestSteps[k].id /\ RestSteps[j].id \in ModuleIds
       => j = k
  /\ \A id \in ModuleIds : \E k \in 1..Len(RestSteps) : RestSteps[k].do = "register" /\ RestSteps[k].id = id
  /\ \E k \in 1..Len(RestSteps) : RestSteps[k].do = "bind"
  /\ \A k \in 1..Len(RestSteps) : RestSteps[k].id # "directory"
<1> DEFINE p == RestSteps
<1>0. Len(p) = 2 * Size + 2 /\ Size \in Nat
  BY RestItems, Orders, Zenon
<1>1. p[1].do = "create" /\ p[1].id = BoundCoordinator /\ p[2].do = "bind" /\ p[2].id = BoundCoordinator
  BY RestItems DEF Do
<1>2. \A k \in 3..(2 * Size + 2) :
        /\ p[k].do = IF k % 2 = 1 THEN "create" ELSE "register"
        /\ p[k].id = ModuleOrder[(k - 1) \div 2]
        /\ (k - 1) \div 2 \in 1..Size
  BY RestModules, Zenon
<1> HIDE DEF p
<1>3. ASSUME NEW k \in 1..Len(p) PROVE k = 1 \/ k = 2 \/ k \in 3..(2 * Size + 2)
  BY <1>0
<1>4. ASSUME NEW j \in 1..Len(p), NEW k \in 1..Len(p), p[j].do = "create", p[k].do = "create",
             p[j].id = p[k].id, p[j].id \in ModuleIds
      PROVE  j = k
  <2>1. j \in 3..(2 * Size + 2) /\ k \in 3..(2 * Size + 2)
    BY <1>1, <1>3, <1>4, Parts, Zenon
  <2>2. j % 2 = 1 /\ k % 2 = 1
    BY <2>1, <1>2, <1>4, Zenon
  <2>3. PICK u, v : u = (j - 1) \div 2 /\ v = (k - 1) \div 2
    BY Zenon
  <2>4. u \in 1..Size /\ v \in 1..Size /\ ModuleOrder[u] = ModuleOrder[v]
    BY <2>1, <2>3, <1>2, <1>4, Zenon
  <2>5. u = v
    BY <2>4, Orders, Zenon
  <2> QED
    BY <2>1, <2>2, <2>3, <2>5, <1>0
<1>5. ASSUME NEW id \in ModuleIds PROVE \E k \in 1..Len(p) : p[k].do = "register" /\ p[k].id = id
  <2>1. PICK i \in 1..Size : ModuleOrder[i] = id
    BY Orders, Zenon
  <2>2. PICK k : k = 2 * i + 2
    BY Zenon
  <2>3. k \in 3..(2 * Size + 2) /\ ~(k % 2 = 1) /\ (k - 1) \div 2 = i /\ k \in 1..Len(p)
    BY <2>2, <1>0
  <2> QED
    BY <1>2, <2>1, <2>3, Zenon
<1>6. \E k \in 1..Len(p) : p[k].do = "bind"
  <2>1. 2 \in 1..Len(p)
    BY <1>0
  <2> QED
    BY <2>1, <1>1, Zenon
<1>7. ASSUME NEW k \in 1..Len(p) PROVE p[k].id # "directory"
  <2>1. k \in 3..(2 * Size + 2) => p[k].id \in ModuleIds
    BY <1>2, Orders, Zenon
  <2> QED
    BY <2>1, <1>1, <1>3, Parts, Zenon
<1>8. \A j, k \in 1..Len(p) :
        /\ p[j].do = "create" /\ p[k].do = "create"
        /\ p[j].id = p[k].id /\ p[j].id \in ModuleIds
        => j = k
  BY <1>4, Zenon
<1>9. \A id \in ModuleIds : \E k \in 1..Len(p) : p[k].do = "register" /\ p[k].id = id
  BY <1>5, Zenon
<1>10. \A k \in 1..Len(p) : p[k].id # "directory"
  BY <1>7, Zenon
<1> QED
  BY <1>6, <1>8, <1>9, <1>10, Zenon DEF p

\* What the two deploying tools do; the directory comes first.
LEMMA DeployPrograms ==
  /\ Program("rest") = RestSteps /\ DeployShape(Program("rest"))
  /\ DeployShape(Program("deploy"))
  /\ Program("deploy")[1].id = "directory"
<1>1. Program("rest") = RestSteps
  BY Zenon DEF Program
<1>2. PICK a : a = <<Do("create", "directory")>>
  BY Zenon
<1>3. PICK b : b = RestSteps
  BY Zenon
<1>4. PICK p : p = a \o b
  BY Zenon
<1>5. Program("deploy") = p
  BY <1>2, <1>3, <1>4, Zenon DEF Program
<1>6. PICK x : x = Do("create", "directory")
  BY Zenon
<1>7. x.do = "create" /\ x.id = "directory" /\ x \in Items
  <2>1. \A u \in Kinds, v \in Ids : Do(u, v) \in Items /\ Do(u, v).do = u /\ Do(u, v).id = v
    BY DEF Do, Items
  <2> QED
    BY <2>1, <1>6, ZenonT(30) DEF Kinds, Ids
<1>8. a \in Seq(Items) /\ Len(a) = 1 /\ a[1] = x
  BY <1>2, <1>6, <1>7
<1>9. DeployShape(b)
  BY <1>3, RestShape, Zenon
<1>10. b \in Seq(Items)
  BY <1>9, Zenon DEF DeployShape
<1>11. /\ p \in Seq(Items) /\ Len(p) = Len(a) + Len(b)
       /\ \A k \in 1..Len(a) : p[k] = a[k]
       /\ \A k \in (Len(a) + 1)..(Len(a) + Len(b)) : p[k] = b[k - Len(a)]
  BY <1>4, <1>8, <1>10, Joined, Zenon
<1>12. p \in Seq(Items) /\ Len(p) = 1 + Len(b) /\ p[1] = x /\ \A k \in 1..Len(b) : p[k + 1] = b[k]
  BY <1>8, <1>10, <1>11
<1>13. ASSUME NEW k \in 1..Len(p)
       PROVE  k = 1 \/ \E j \in 1..Len(b) : p[k] = b[j]
  <2>1. CASE k # 1
    <3>1. PICK j : j = k - 1
      BY Zenon
    <3>2. j \in 1..Len(b) /\ k = j + 1
      BY <1>10, <1>12, <2>1, <3>1
    <3> QED
      BY <3>2, <1>12, Zenon
  <2> QED
    BY <2>1, Zenon
<1>14. ASSUME NEW k \in 1..Len(p)
       PROVE  /\ p[k].do \in {"create", "bind", "register"}
              /\ p[k].do = "create" => p[k].id \in ModuleIds \cup {"directory", BoundCoordinator}
              /\ p[k].do = "bind" => p[k].id = BoundCoordinator
              /\ p[k].do = "register" => p[k].id \in ModuleIds
  <2>1. CASE k = 1
    BY <2>1, <1>7, <1>12, Zenon
  <2>2. CASE k # 1
    <3>1. PICK j \in 1..Len(b) : p[k] = b[j]
      BY <2>2, <1>13, Zenon
    <3>2. PICK x1 : x1 = b[j]
      BY Zenon
    <3>3. /\ x1.do \in {"create", "bind", "register"}
          /\ x1.do = "create" => x1.id \in ModuleIds \cup {"directory", BoundCoordinator}
          /\ x1.do = "bind" => x1.id = BoundCoordinator
          /\ x1.do = "register" => x1.id \in ModuleIds
      BY <3>2, <1>9 DEF DeployShape
    <3> QED
      BY <3>1, <3>2, <3>3, Zenon
  <2> QED
    BY <2>1, <2>2, Zenon
<1>15. ASSUME NEW k \in 1..(Len(p) - 1), p[k + 1].do = "register"
       PROVE  p[k].do = "create" /\ p[k].id = p[k + 1].id
  <2>1. k \in 1..Len(b)
    BY <1>10, <1>12
  <2>2. p[k + 1] = b[k]
    BY <2>1, <1>12, Zenon
  <2>3. k # 1
    BY <1>9, <1>15, <2>2, Zenon DEF DeployShape
  <2>4. PICK j \in 1..(Len(b) - 1) : k = j + 1
    BY <2>1, <2>3, <1>10
  <2>5. j \in 1..Len(b)
    BY <2>4, <1>10
  <2>6. p[k] = b[j]
    BY <2>4, <2>5, <1>12, Zenon
  <2>7. b[j + 1].do = "register"
    BY <1>15, <2>2, <2>4, Zenon
  <2>8. b[j].do = "create" /\ b[j].id = b[j + 1].id
    BY <1>9, <2>4, <2>7, Zenon DEF DeployShape
  <2> QED
    BY <2>2, <2>4, <2>6, <2>8, Zenon
<1>16. Len(p) > 0
  BY <1>10, <1>12
<1>17. DeployShape(p)
  BY <1>7, <1>12, <1>14, <1>15, <1>16, Zenon DEF DeployShape
<1> QED
  BY <1>1, <1>5, <1>7, <1>12, <1>17, RestShape, Zenon

\* The bootstrapping tools' programs hold items too, and never a creation.
LEMMA BootPrograms ==
  ASSUME NEW n \in {"runner", "empty"}
  PROVE  /\ Program(n) \in Seq(Items)
         /\ \A k \in 1..Len(Program(n)) : Program(n)[k].do \notin {"create", "bind", "register"}
         /\ Len(Program(n)) > 0
<1> DEFINE Safe == {x \in Items : x.do \notin {"create", "bind", "register"}}
<1>0. \A u \in Kinds, v \in Ids : Do(u, v) \in Items /\ Do(u, v).do = u /\ Do(u, v).id = v
  BY DEF Do, Items
<1>1. Do("activate", None) \in Safe /\ Do("attest", UsernameId) \in Safe
  BY <1>0, DeploymentAssumption, Zenon DEF Kinds, Ids
<1>2. ASSUME NEW k \in 1..(2 * Size) PROVE ForModules(k, "begin", "finalize") \in Safe
  <2>1. PICK d, i : d = ForModules(k, "begin", "finalize").do /\ i = ForModules(k, "begin", "finalize").id
    BY Zenon
  <2>2. d \in {"begin", "finalize"} /\ i \in ModuleIds /\ ForModules(k, "begin", "finalize") = Do(d, i)
    BY <2>1, ForModulesItem, ZenonT(30)
  <2>3. d \in Kinds /\ i \in Ids
    <3>1. d \in Kinds
      BY <2>2, SMT DEF Kinds
    <3>2. i \in Ids
      BY <2>2, Zenon DEF Ids
    <3> QED
      BY <3>1, <3>2, Zenon
  <2>4. Do(d, i) \in Items /\ Do(d, i).do = d
    BY <1>0, <2>3, Zenon
  <2>5. d \notin {"create", "bind", "register"}
    BY <2>2, Zenon
  <2>6. Do(d, i) \in Safe
    BY <2>4, <2>5, Zenon
  <2> QED
    BY <2>2, <2>6, Zenon
<1> HIDE DEF Safe
<1>3. EmptySteps \in Seq(Safe)
  BY <1>2, Orders DEF EmptySteps
<1>4. RunnerSteps \in Seq(Safe)
  <2>1. PICK a : a = 2 * Order(UsernameId)
    BY Zenon
  <2>2. a \in 1..(2 * Size)
    <3>1. Order(UsernameId) \in 1..Size
      BY Orders, DeploymentAssumption, Zenon
    <3> QED
      BY <2>1, <3>1, Orders
  <2>3. ASSUME NEW k \in 1..(2 * Size + 1)
        PROVE  (IF k = a THEN Do("attest", UsernameId)
                ELSE ForModules(IF k < a THEN k ELSE k - 1, "begin", "finalize")) \in Safe
    <3>1. k # a => (IF k < a THEN k ELSE k - 1) \in 1..(2 * Size)
      BY <2>2, Orders
    <3> QED
      BY <3>1, <1>1, <1>2, Zenon
  <2>4. PICK N : N = 2 * Size + 1
    BY Zenon
  <2>5. PICK g : g = [k \in 1..N |-> IF k = a THEN Do("attest", UsernameId)
                     ELSE ForModules(IF k < a THEN k ELSE k - 1, "begin", "finalize")]
    BY Zenon
  <2>6. g \in [1..N -> Safe]
    BY <2>3, <2>4, <2>5, Zenon
  <2>7. N \in Nat
    BY <2>4, Orders
  <2>8. g \in Seq(Safe)
    BY <2>6, <2>7
  <2>9. RunnerSteps = g
    BY <2>1, <2>4, <2>5, Zenon DEF RunnerSteps
  <2> QED
    BY <2>8, <2>9, Zenon
<1>5. PICK a \in Seq(Safe) : Program(n) = a \o <<Do("activate", None)>>
  BY <1>3, <1>4, Zenon DEF Program
<1>6. PICK b : b = <<Do("activate", None)>>
  BY Zenon
<1>7. b \in Seq(Safe) /\ Len(b) = 1
  BY <1>1, <1>6
<1>8. a \o b \in Seq(Safe) /\ Len(a \o b) = Len(a) + Len(b)
  BY <1>7, Joined, Zenon
<1>9. PICK p : p = Program(n)
  BY Zenon
<1>10. p \in Seq(Safe) /\ Len(p) > 0
  BY <1>5, <1>6, <1>7, <1>8, <1>9
<1>11. \A k \in 1..Len(p) : p[k] \in Safe
  BY <1>10
<1>12. Safe \subseteq Items
  BY Zenon DEF Safe
<1>13. p \in Seq(Items)
  BY <1>10, <1>12
<1> QED
  BY <1>9, <1>10, <1>11, <1>13, Zenon DEF Safe

-----------------------------------------------------------------------------
(* What moves a tool on                                                    *)

Changed(t, u, step, phase, addr, status, entries) ==
  /\ u \in Tools /\ u.name = t.name
  /\ u.step = step /\ u.phase = phase /\ u.addr = addr /\ u.status = status /\ u.entries = entries

\* What a tool is.
LEMMA ToolType ==
  ASSUME NEW t \in Tools
  PROVE  /\ t.name \in Names \cup {"none"} /\ t.step \in Nat /\ t.phase \in Phases
         /\ t.addr \in Addrs /\ t.status \in Statuses /\ t.entries \in Seq(Entries)
BY Zenon DEF Tools

\* A change of phase alone, or with the address, the status, the step.
LEMMA PhaseChange ==
  ASSUME NEW t \in Tools, NEW p \in Phases
  PROVE  Changed(t, [t EXCEPT !.phase = p], t.step, p, t.addr, t.status, t.entries)
BY Zenon DEF Tools, Changed

\* Another address.
LEMMA AddrChange ==
  ASSUME NEW t \in Tools, NEW a \in Addrs
  PROVE  Changed(t, [t EXCEPT !.addr = a], t.step, t.phase, a, t.status, t.entries)
BY Zenon DEF Tools, Changed

\* Another phase and another address.
LEMMA SendChange ==
  ASSUME NEW t \in Tools, NEW p \in Phases, NEW a \in Addrs
  PROVE  Changed(t, [t EXCEPT !.phase = p, !.addr = a], t.step, p, a, t.status, t.entries)
BY Zenon DEF Tools, Changed

\* Another phase and another status.
LEMMA StatusChange ==
  ASSUME NEW t \in Tools, NEW p \in Phases, NEW s \in Statuses
  PROVE  Changed(t, [t EXCEPT !.phase = p, !.status = s], t.step, p, t.addr, s, t.entries)
BY Zenon DEF Tools, Changed

\* Another item.
LEMMA StepChange ==
  ASSUME NEW t \in Tools, NEW k \in Nat, NEW p \in Phases
  PROVE  Changed(t, [t EXCEPT !.step = k, !.phase = p], k, p, t.addr, t.status, t.entries)
BY Zenon DEF Tools, Changed

\* An entry more.
LEMMA AppendType ==
  ASSUME NEW e \in Seq(Entries), NEW x \in Entries
  PROVE  Append(e, x) \in Seq(Entries)
OBVIOUS

\* Another item, with an entry for it.
LEMMA EntryStep ==
  ASSUME NEW t \in Tools, NEW k \in Nat, NEW p \in Phases, NEW x \in Entries
  PROVE  Changed(t, [t EXCEPT !.step = k, !.phase = p, !.entries = Append(@, x)],
                 k, p, t.addr, t.status, Append(t.entries, x))
<1>1. t.entries \in Seq(Entries)
  BY ToolType
<1>2. PICK e : e = Append(t.entries, x)
  BY Zenon
<1>3. e \in Seq(Entries)
  BY <1>1, <1>2, AppendType, Zenon
<1>4. Changed(t, [t EXCEPT !.step = k, !.phase = p, !.entries = e], k, p, t.addr, t.status, e)
  BY <1>3, Zenon DEF Tools, Changed
<1> QED
  BY <1>2, <1>4, Zenon

\* An entry more, at the same item.
LEMMA EntryChange ==
  ASSUME NEW t \in Tools, NEW x \in Entries
  PROVE  Changed(t, [t EXCEPT !.entries = Append(@, x)],
                 t.step, t.phase, t.addr, t.status, Append(t.entries, x))
<1>1. t.entries \in Seq(Entries)
  BY ToolType
<1>2. PICK e : e = Append(t.entries, x)
  BY Zenon
<1>3. e \in Seq(Entries)
  BY <1>1, <1>2, AppendType, Zenon
<1>4. Changed(t, [t EXCEPT !.entries = e], t.step, t.phase, t.addr, t.status, e)
  BY <1>3, Zenon DEF Tools, Changed
<1> QED
  BY <1>2, <1>4, Zenon

\* An entry more and another phase.
LEMMA EntryPhase ==
  ASSUME NEW t \in Tools, NEW p \in Phases, NEW x \in Entries
  PROVE  Changed(t, [t EXCEPT !.phase = p, !.entries = Append(@, x)],
                 t.step, p, t.addr, t.status, Append(t.entries, x))
<1>1. t.entries \in Seq(Entries)
  BY ToolType
<1>2. PICK e : e = Append(t.entries, x)
  BY Zenon
<1>3. e \in Seq(Entries)
  BY <1>1, <1>2, AppendType, Zenon
<1>4. Changed(t, [t EXCEPT !.phase = p, !.entries = e], t.step, p, t.addr, t.status, e)
  BY <1>3, Zenon DEF Tools, Changed
<1> QED
  BY <1>2, <1>4, Zenon

\* Another value in one place.
LEMMA Replaced ==
  ASSUME NEW S, NEW d \in Seq(S), NEW i \in 1..Len(d), NEW y \in S
  PROVE  /\ [d EXCEPT ![i] = y] \in Seq(S) /\ Len([d EXCEPT ![i] = y]) = Len(d)
         /\ [d EXCEPT ![i] = y][i] = y
         /\ \A k \in 1..Len(d) : k # i => [d EXCEPT ![i] = y][k] = d[k]
OBVIOUS

\* The entry of the item changes.
Marked(t, u, p, x) ==
  \E e \in Seq(Entries) :
    /\ Changed(t, u, t.step, p, t.addr, t.status, e)
    /\ Len(e) = Len(t.entries) /\ e[t.step].tx = x
    /\ \A k \in 1..Len(e) :
         e[k].do = t.entries[k].do /\ e[k].id = t.entries[k].id /\ e[k].addr = t.entries[k].addr

\* What became of a transaction is written into its entry.
LEMMA MarkPhase ==
  ASSUME NEW t \in Tools, NEW p \in Phases, NEW x \in Marks, t.step \in 1..Len(t.entries)
  PROVE  Marked(t, [t EXCEPT !.phase = p, !.entries[t.step].tx = x], p, x)
<1>1. PICK d : d = t.entries
  BY Zenon
<1>2. d \in Seq(Entries) /\ t.step \in 1..Len(d)
  BY <1>1, ToolType, Zenon
<1>3. PICK s : s = t.step
  BY Zenon
<1>4. PICK y : y = [d[s] EXCEPT !.tx = x]
  BY Zenon
<1>5. PICK e : e = [d EXCEPT ![s] = y]
  BY Zenon
<1>6. d[s] \in Entries
  BY <1>2, <1>3
<1>7. y \in Entries /\ y.tx = x /\ y.do = d[s].do /\ y.id = d[s].id /\ y.addr = d[s].addr
  BY <1>4, <1>6, Zenon DEF Entries
<1>8. /\ e \in Seq(Entries) /\ Len(e) = Len(d) /\ e[s] = y
      /\ \A k \in 1..Len(d) : k # s => e[k] = d[k]
  BY <1>2, <1>3, <1>5, <1>7, Replaced
<1>9. /\ e \in Seq(Entries) /\ Len(e) = Len(d) /\ e[s].tx = x
      /\ \A k \in 1..Len(e) : e[k].do = d[k].do /\ e[k].id = d[k].id /\ e[k].addr = d[k].addr
  <2>1. ASSUME NEW k \in 1..Len(d)
        PROVE  e[k].do = d[k].do /\ e[k].id = d[k].id /\ e[k].addr = d[k].addr
    <3>1. CASE k = s
      BY <3>1, <1>7, <1>8, Zenon
    <3>2. CASE k # s
      <4>1. e[k] = d[k]
        BY <3>2, <1>8, Zenon
      <4> QED
        BY <4>1, Zenon
    <3> QED
      BY <3>1, <3>2, Zenon
  <2>2. Len(e) = Len(d) /\ e \in Seq(Entries) /\ e[s].tx = x
    BY <1>7, <1>8, Zenon
  <2> QED
    BY <2>1, <2>2, Zenon
<1>10. Changed(t, [t EXCEPT !.phase = p, !.entries = e], s, p, t.addr, t.status, e)
  BY <1>3, <1>9, Zenon DEF Tools, Changed
<1>11. [t EXCEPT !.phase = p, !.entries[t.step].tx = x] = [t EXCEPT !.phase = p, !.entries = e]
  BY <1>1, <1>3, <1>4, <1>5, Zenon
<1> QED
  BY <1>1, <1>3, <1>9, <1>10, <1>11, Zenon DEF Marked

Placed(t, u, p, x) ==
  \E e \in Seq(Entries) :
    /\ Changed(t, u, t.step, p, t.addr, t.status, e)
    /\ Len(e) = Len(t.entries) /\ e[t.step].addr = x
    /\ \A k \in 1..Len(e) :
         /\ e[k].do = t.entries[k].do /\ e[k].id = t.entries[k].id
         /\ k # t.step => e[k].addr = t.entries[k].addr

\* The address of a contract is written into its entry.
LEMMA AddrPhase ==
  ASSUME NEW t \in Tools, NEW p \in Phases, NEW x \in Addrs, t.step \in 1..Len(t.entries)
  PROVE  Placed(t, [t EXCEPT !.phase = p, !.entries[t.step].addr = x], p, x)
<1>1. PICK d : d = t.entries
  BY Zenon
<1>2. d \in Seq(Entries) /\ t.step \in 1..Len(d)
  BY <1>1, ToolType, Zenon
<1>3. PICK s : s = t.step
  BY Zenon
<1>4. PICK y : y = [d[s] EXCEPT !.addr = x]
  BY Zenon
<1>5. PICK e : e = [d EXCEPT ![s] = y]
  BY Zenon
<1>6. d[s] \in Entries
  BY <1>2, <1>3
<1>7. y \in Entries /\ y.addr = x /\ y.do = d[s].do /\ y.id = d[s].id /\ y.tx = d[s].tx
  BY <1>4, <1>6, Zenon DEF Entries
<1>8. /\ e \in Seq(Entries) /\ Len(e) = Len(d) /\ e[s] = y
      /\ \A k \in 1..Len(d) : k # s => e[k] = d[k]
  BY <1>2, <1>3, <1>5, <1>7, Replaced
<1>9. /\ e \in Seq(Entries) /\ Len(e) = Len(d) /\ e[s].addr = x
      /\ \A k \in 1..Len(e) : e[k].do = d[k].do /\ e[k].id = d[k].id /\ (k # s => e[k].addr = d[k].addr)
  <2>1. ASSUME NEW k \in 1..Len(d)
        PROVE  e[k].do = d[k].do /\ e[k].id = d[k].id /\ (k # s => e[k].addr = d[k].addr)
    <3>1. CASE k = s
      BY <3>1, <1>7, <1>8, Zenon
    <3>2. CASE k # s
      <4>1. e[k] = d[k]
        BY <3>2, <1>8, Zenon
      <4> QED
        BY <4>1, Zenon
    <3> QED
      BY <3>1, <3>2, Zenon
  <2>2. Len(e) = Len(d) /\ e \in Seq(Entries) /\ e[s].addr = x
    BY <1>7, <1>8, Zenon
  <2> QED
    BY <2>1, <2>2, Zenon
<1>10. Changed(t, [t EXCEPT !.phase = p, !.entries = e], s, p, t.addr, t.status, e)
  BY <1>3, <1>9, Zenon DEF Tools, Changed
<1>11. [t EXCEPT !.phase = p, !.entries[t.step].addr = x] = [t EXCEPT !.phase = p, !.entries = e]
  BY <1>1, <1>3, <1>4, <1>5, Zenon
<1> QED
  BY <1>1, <1>3, <1>9, <1>10, <1>11, Zenon DEF Placed

\* Every program holds items.
LEMMA ItemTyped ==
  ASSUME NEW n \in Names
  PROVE  /\ Program(n) \in Seq(Items) /\ Len(Program(n)) \in Nat /\ Len(Program(n)) > 0
         /\ \A k \in 1..Len(Program(n)) : Program(n)[k] \in Items
<1>1. Program(n) \in Seq(Items) /\ Len(Program(n)) > 0
  BY DeployPrograms, BootPrograms, Zenon DEF DeployShape, Names
<1>2. PICK p : p = Program(n)
  BY Zenon
<1>3. \A q \in Seq(Items) : Len(q) \in Nat /\ \A k \in 1..Len(q) : q[k] \in Items
  OBVIOUS
<1> QED
  BY <1>1, <1>3, Zenon

\* What an entry more names.
LEMMA AppendFacts ==
  ASSUME NEW e \in Seq(Entries), NEW x \in Entries
  PROVE  /\ Append(e, x) \in Seq(Entries) /\ Len(Append(e, x)) = Len(e) + 1
         /\ Append(e, x)[Len(e) + 1] = x
         /\ \A k \in 1..Len(e) : Append(e, x)[k] = e[k]
         /\ Len(e) \in Nat
OBVIOUS

\* What a list of entries names with one entry more.
LEMMA AppendNamed ==
  ASSUME NEW e \in Seq(Entries), NEW x \in Entries, NEW id
  PROVE  Named(Append(e, x), id) =
           IF x.do = "create" /\ x.id = id THEN Named(e, id) \cup {x.addr} ELSE Named(e, id)
<1>1. PICK f : f = Append(e, x)
  BY Zenon
<1>2. PICK n \in Nat : n = Len(e)
  BY AppendFacts, Zenon
<1>3. Len(f) = n + 1 /\ f[n + 1] = x /\ \A k \in 1..n : f[k] = e[k]
  BY <1>1, <1>2, AppendFacts, Zenon
<1>4. \A k : k \in 1..(n + 1) <=> k \in 1..n \/ k = n + 1
  BY <1>2
<1>5. \A a : a \in Named(e, id) <=> \E k \in 1..n : e[k].do = "create" /\ e[k].id = id /\ a = e[k].addr
  BY <1>2, Zenon DEF Named
<1>6. \A a : a \in Named(f, id) <=> \E k \in 1..(n + 1) : f[k].do = "create" /\ f[k].id = id /\ a = f[k].addr
  BY <1>3, Zenon DEF Named
<1>7. \A a : a \in Named(f, id) <=> a \in Named(e, id) \/ (x.do = "create" /\ x.id = id /\ a = x.addr)
  <2> TAKE a
  <2>1. ASSUME a \in Named(f, id) PROVE a \in Named(e, id) \/ (x.do = "create" /\ x.id = id /\ a = x.addr)
    <3>1. PICK k \in 1..(n + 1) : f[k].do = "create" /\ f[k].id = id /\ a = f[k].addr
      BY <2>1, <1>6, Zenon
    <3>2. k \in 1..n \/ k = n + 1
      BY <1>4, Zenon
    <3> QED
      BY <3>1, <3>2, <1>3, <1>5, Zenon
  <2>2. ASSUME a \in Named(e, id) PROVE a \in Named(f, id)
    <3>1. PICK k \in 1..n : e[k].do = "create" /\ e[k].id = id /\ a = e[k].addr
      BY <2>2, <1>5, Zenon
    <3>2. k \in 1..(n + 1)
      BY <1>4, Zenon
    <3> QED
      BY <3>1, <3>2, <1>3, <1>6, Zenon
  <2>3. ASSUME x.do = "create", x.id = id, a = x.addr PROVE a \in Named(f, id)
    <3>1. n + 1 \in 1..(n + 1)
      BY <1>4, Zenon
    <3> QED
      BY <3>1, <2>3, <1>3, <1>6, Zenon
  <2> QED
    BY <2>1, <2>2, <2>3, Zenon
<1> QED
  BY <1>1, <1>7, Zenon

\* What a list of entries holds with one entry more.
LEMMA AppendIn ==
  ASSUME NEW e \in Seq(Entries), NEW x \in Entries
  PROVE  /\ \A d, i : InEntries(e, d, i) => InEntries(Append(e, x), d, i)
         /\ InEntries(Append(e, x), x.do, x.id)
<1>1. PICK f : f = Append(e, x)
  BY Zenon
<1>2. PICK n \in Nat : n = Len(e)
  BY AppendFacts, Zenon
<1>3. Len(f) = n + 1 /\ f[n + 1] = x /\ \A k \in 1..n : f[k] = e[k]
  BY <1>1, <1>2, AppendFacts, Zenon
<1>4. n + 1 \in 1..(n + 1) /\ \A k \in 1..n : k \in 1..(n + 1)
  BY <1>2
<1>5. \A d, i : InEntries(e, d, i) => InEntries(f, d, i)
  BY <1>2, <1>3, <1>4, Zenon DEF InEntries
<1>6. InEntries(f, x.do, x.id)
  BY <1>3, <1>4, Zenon DEF InEntries
<1> QED
  BY <1>1, <1>5, <1>6, Zenon

\* An entry more keeps the entries sound, if its address has code.
LEMMA AppendSound ==
  ASSUME NEW e \in Seq(Entries), NEW x \in Entries, EntriesSound(e),
         x.do = "create" => x.addr \in code \cup {None}
  PROVE  EntriesSound(Append(e, x))
<1>1. PICK f : f = Append(e, x)
  BY Zenon
<1>2. PICK n \in Nat : n = Len(e)
  BY AppendFacts, Zenon
<1>3. Len(f) = n + 1 /\ f[n + 1] = x /\ \A k \in 1..n : f[k] = e[k]
  BY <1>1, <1>2, AppendFacts, Zenon
<1>4. \A k \in 1..(n + 1) : k \in 1..n \/ k = n + 1
  BY <1>2
<1>5. ASSUME NEW k \in 1..(n + 1), f[k].do = "create" PROVE f[k].addr \in code \cup {None}
  <2>1. CASE k \in 1..n
    <3>1. f[k] = e[k]
      BY <2>1, <1>3, Zenon
    <3> QED
      BY <2>1, <3>1, <1>2, <1>5, Zenon DEF EntriesSound
  <2>2. CASE k = n + 1
    BY <2>2, <1>3, <1>5, Zenon
  <2> QED
    BY <2>1, <2>2, <1>4, Zenon
<1>6. EntriesSound(f)
  BY <1>3, <1>5, Zenon DEF EntriesSound
<1> QED
  BY <1>1, <1>6, Zenon

-----------------------------------------------------------------------------
(* Entering the next item                                                  *)

\* An entry's parts.
LEMMA EntryFields ==
  ASSUME NEW what \in Items, NEW a \in Addrs, NEW x \in Marks
  PROVE  /\ Entry(what, a, x) \in Entries
         /\ Entry(what, a, x).do = what.do /\ Entry(what, a, x).id = what.id
         /\ Entry(what, a, x).addr = a /\ Entry(what, a, x).tx = x
BY DEF Entry, Entries, Items

\* Where Enter leads.
LEMMA EnterFacts ==
  ASSUME NEW t \in Tools, NEW k \in Nat, t.name \in Names, k > 0, k <= Len(Program(t.name)) + 1
  PROVE  \/ /\ k = Len(Program(t.name)) + 1
            /\ Changed(t, Enter(t, k), k, "check", t.addr, t.status, t.entries)
         \/ /\ k \in 1..Len(Program(t.name)) /\ t.name = "deploy"
            /\ Entry(Program(t.name)[k], None, "unsent") \in Entries
            /\ Changed(t, Enter(t, k), k, "announce", t.addr, t.status,
                       Append(t.entries, Entry(Program(t.name)[k], None, "unsent")))
         \/ /\ k \in 1..Len(Program(t.name)) /\ t.name # "deploy"
            /\ Changed(t, Enter(t, k), k, "look", t.addr, t.status, t.entries)
<1>1. PICK n : n = Len(Program(t.name))
  BY Zenon
<1>2. n \in Nat
  BY <1>1, ItemTyped, Zenon
<1>3. (k > n /\ k = n + 1) \/ (~(k > n) /\ k \in 1..n)
  BY <1>1, <1>2
<1>4. "check" \in Phases /\ "announce" \in Phases /\ "look" \in Phases
  BY Zenon DEF Phases, Working
<1>5. CASE k > n /\ k = n + 1
  <2>1. Enter(t, k) = [t EXCEPT !.step = k, !.phase = "check"]
    BY <1>1, <1>5, Zenon DEF Enter
  <2>2. PICK p \in Phases : p = "check"
    BY <1>4, Zenon
  <2>3. Changed(t, [t EXCEPT !.step = k, !.phase = p], k, p, t.addr, t.status, t.entries)
    BY StepChange, Zenon
  <2> QED
    BY <2>1, <2>2, <2>3, <1>1, <1>5, Zenon
<1>6. CASE ~(k > n) /\ k \in 1..n /\ t.name = "deploy"
  <2>1. PICK x : x = Entry(Program(t.name)[k], None, "unsent")
    BY Zenon
  <2>2. x \in Entries
    BY <2>1, <1>1, <1>6, ItemTyped, EntryFields, Zenon DEF Addrs, Marks
  <2>3. Enter(t, k) = [t EXCEPT !.step = k, !.phase = "announce", !.entries = Append(@, x)]
    BY <1>1, <1>6, <2>1, Zenon DEF Enter
  <2>4. PICK p \in Phases : p = "announce"
    BY <1>4, Zenon
  <2>5. Changed(t, [t EXCEPT !.step = k, !.phase = p, !.entries = Append(@, x)],
                k, p, t.addr, t.status, Append(t.entries, x))
    BY <2>2, EntryStep, Zenon
  <2> QED
    BY <2>1, <2>2, <2>3, <2>4, <2>5, <1>1, <1>6, Zenon
<1>7. CASE ~(k > n) /\ k \in 1..n /\ t.name # "deploy"
  <2>1. Enter(t, k) = [t EXCEPT !.step = k, !.phase = "look"]
    BY <1>1, <1>7, Zenon DEF Enter
  <2>2. PICK p \in Phases : p = "look"
    BY <1>4, Zenon
  <2>3. Changed(t, [t EXCEPT !.step = k, !.phase = p], k, p, t.addr, t.status, t.entries)
    BY StepChange, Zenon
  <2> QED
    BY <2>1, <2>2, <2>3, <1>1, <1>7, Zenon
<1> QED
  BY <1>3, <1>5, <1>6, <1>7, Zenon

\* A tool is done with its item, and may enter the next.
Ready(t) ==
  /\ t.name \in Names /\ t.step <= Len(Program(t.name))
  /\ t.name # "deploy" => "directory" \in code
  /\ t.name \in {"runner", "empty"} => t.name = BootstrapTool
  /\ t.status \notin Final
  /\ EntriesSound(t.entries)
  /\ t.name = "deploy" =>
       /\ \A d, i : Trace(d, i) => InEntries(t.entries, d, i)
       /\ Len(t.entries) = t.step
       /\ t.step >= 1 => Done(ItemOf(t), t.addr) /\ "directory" \in code
  /\ t.name = "rest" =>
       /\ RestFrom(t.entries, t.step + 1)
       /\ t.step >= 1 /\ ItemOf(t).do = "create" /\ ItemOf(t).id \in ModuleIds =>
            t.addr \in code /\ Named(t.entries, ItemOf(t).id) = {t.addr}

\* The module a tool enters to register is the one it created or found right before.
LEMMA NextRegisters ==
  ASSUME NEW t \in Tools, Ready(t), t.name \in {"deploy", "rest"}, NEW k, k = t.step + 1,
         k \in 1..Len(Program(t.name)), Program(t.name)[k].do = "register"
  PROVE  /\ t.step >= 1 /\ ItemOf(t).do = "create" /\ ItemOf(t).id = Program(t.name)[k].id
         /\ ItemOf(t).id \in ModuleIds /\ t.addr \in code
<1>1. PICK p : p = Program(t.name)
  BY Zenon
<1>2. DeployShape(p)
  BY <1>1, DeployPrograms, Zenon
<1>3. t.step \in Nat /\ Len(p) \in Nat
  BY <1>1, ToolType, ItemTyped, Zenon DEF Ready
<1>4. k # 1
  BY <1>1, <1>2, Zenon DEF DeployShape
<1>5. t.step \in 1..(Len(p) - 1) /\ t.step >= 1
  BY <1>1, <1>3, <1>4
<1>6. p[t.step + 1].do = "register"
  BY <1>1, Zenon
<1>7. p[t.step].do = "create" /\ p[t.step].id = p[t.step + 1].id
  BY <1>2, <1>5, <1>6, Zenon DEF DeployShape
<1>8. p[k].id \in ModuleIds
  BY <1>1, <1>2, Zenon DEF DeployShape
<1>9. ItemOf(t) = p[t.step]
  BY <1>1, Zenon DEF ItemOf
<1>10. t.step >= 1 /\ ItemOf(t).do = "create" /\ ItemOf(t).id = p[k].id /\ ItemOf(t).id \in ModuleIds
  BY <1>5, <1>7, <1>8, <1>9, Zenon
<1>11. t.addr \in code
  BY <1>10, Zenon DEF Ready, Done
<1> QED
  BY <1>1, <1>10, <1>11, Zenon

\* A tool that goes on to its next item stays sound.
LEMMA EnterSound ==
  ASSUME NEW t \in Tools, Ready(t)
  PROVE  Enter(t, t.step + 1) \in Tools /\ ToolSound(Enter(t, t.step + 1))
<1>1. PICK k : k = t.step + 1
  BY Zenon
<1>2. PICK u : u = Enter(t, k)
  BY Zenon
<1>3. t.step \in Nat /\ Len(Program(t.name)) \in Nat /\ t.name \in Names /\ t.step <= Len(Program(t.name))
  BY ToolType, ItemTyped, Zenon DEF Ready
<1>4. k \in Nat /\ k > 0 /\ k <= Len(Program(t.name)) + 1
  BY <1>1, <1>3
<1>5. PICK x : x = Entry(Program(t.name)[k], None, "unsent")
  BY Zenon
<1>6. \/ /\ k = Len(Program(t.name)) + 1
         /\ Changed(t, u, k, "check", t.addr, t.status, t.entries)
      \/ /\ k \in 1..Len(Program(t.name)) /\ t.name = "deploy" /\ x \in Entries
         /\ Changed(t, u, k, "announce", t.addr, t.status, Append(t.entries, x))
      \/ /\ k \in 1..Len(Program(t.name)) /\ t.name # "deploy"
         /\ Changed(t, u, k, "look", t.addr, t.status, t.entries)
  BY <1>2, <1>3, <1>4, <1>5, EnterFacts, Zenon
<1>7. /\ u \in Tools /\ u.name = t.name /\ u.step = k /\ u.addr = t.addr /\ u.status = t.status
      /\ u.phase \in {"check", "announce", "look"}
      /\ u.phase = "check" => k = Len(Program(t.name)) + 1
      /\ u.phase \in {"announce", "look"} => k \in 1..Len(Program(t.name))
      /\ u.phase = "announce" <=> k \in 1..Len(Program(t.name)) /\ t.name = "deploy"
      /\ u.phase = "announce" => u.entries = Append(t.entries, x) /\ x \in Entries
      /\ u.phase # "announce" => u.entries = t.entries
  <2>1. ~(k = Len(Program(t.name)) + 1 /\ k \in 1..Len(Program(t.name)))
    BY <1>3
  <2> QED
    BY <2>1, <1>6, Zenon DEF Changed
<1>8. t.entries \in Seq(Entries)
  BY ToolType, Zenon
<1>9. u.phase = "announce" =>
        x.do = Program(t.name)[k].do /\ x.id = Program(t.name)[k].id /\ x.addr = None
  <2> SUFFICES ASSUME u.phase = "announce"
               PROVE  x.do = Program(t.name)[k].do /\ x.id = Program(t.name)[k].id /\ x.addr = None
    OBVIOUS
  <2>1. PICK what \in Items : what = Program(t.name)[k]
    BY <1>3, <1>7, ItemTyped, Zenon
  <2>2. PICK m \in Marks : m = "unsent"
    BY Zenon DEF Marks
  <2>3. None \in Addrs
    BY Zenon DEF Addrs
  <2>4. /\ Entry(what, None, m).do = what.do /\ Entry(what, None, m).id = what.id
        /\ Entry(what, None, m).addr = None
    BY <2>3, EntryFields
  <2> QED
    BY <2>1, <2>2, <2>4, <1>5, Zenon
<1>10. ToolPlaced(u)
  <2>1. u.name # "none" /\ u.phase # "none" /\ u.phase # "open" /\ u.phase \notin {"verify", "address", "failing"}
    BY <1>3, <1>7, Zenon DEF Names
  <2>2. u.phase = "look" => u.name # "deploy"
    BY <1>7, Zenon
  <2>3. u.phase \notin {"confirm", "finish"}
    BY <1>7, Zenon
  <2>4. u.phase \in Working => u.step \in 1..Len(Program(u.name))
    BY <1>7, Zenon DEF Working
  <2>5. u.phase = "check" => u.step = Len(Program(u.name)) + 1
    BY <1>7, Zenon
  <2>6. u.name \in {"rest", "runner", "empty"} => "directory" \in code
    BY <1>7, Zenon DEF Ready
  <2>7. u.name \in {"runner", "empty"} => u.name = BootstrapTool
    BY <1>7, Zenon DEF Ready
  <2>8. u.status \notin Final
    BY <1>7, Zenon DEF Ready
  <2>9. u.phase = "announce" => u.name = "deploy"
    BY <1>7, Zenon
  <2> QED
    BY <2>1, <2>2, <2>3, <2>4, <2>5, <2>6, <2>7, <2>8, <2>9, Zenon DEF ToolPlaced
<1>11. EntriesSound(u.entries)
  <2>1. u.phase = "announce" => EntriesSound(Append(t.entries, x))
    BY <1>7, <1>8, <1>9, AppendSound, Zenon DEF Ready
  <2> QED
    BY <2>1, <1>7, Zenon DEF Ready
<1>12. StatusSound(u.status, u.entries)
  BY <1>7, Zenon DEF Ready, StatusSound, Final
<1>13. DeployerSound(u)
  <2> SUFFICES ASSUME u.name = "deploy" PROVE DeployerSound(u)
    BY Zenon DEF DeployerSound
  <2>1. ASSUME NEW d, NEW i, Trace(d, i) PROVE InEntries(u.entries, d, i)
    <3>1. InEntries(t.entries, d, i)
      BY <1>7, <2>1, Zenon DEF Ready
    <3> QED
      BY <3>1, <1>7, <1>8, AppendIn, Zenon
  <2>2. u.phase \in Working => u.phase = "announce"
    BY <1>7, Zenon DEF Working
  <2>3. u.phase = "announce" => Len(u.entries) = u.step /\ u.entries[u.step] = x
    <3>1. Len(t.entries) = t.step
      BY <1>7, Zenon DEF Ready
    <3> QED
      BY <3>1, <1>1, <1>7, <1>8, AppendFacts
  <2>4. u.phase = "announce" => x.do = ItemOf(u).do /\ x.id = ItemOf(u).id
    BY <1>7, <1>9, Zenon DEF ItemOf
  <2>5. u.step >= 2 => "directory" \in code
    <3>1. u.step >= 2 => t.step >= 1
      BY <1>1, <1>3, <1>7
    <3> QED
      BY <3>1, <1>7, Zenon DEF Ready
  <2>6. u.phase \notin {"wait", "record", "verify", "address"}
    BY <1>7, Zenon
  <2>7. \A d, i : Trace(d, i) => InEntries(u.entries, d, i)
    BY <2>1, Zenon
  <2> QED
    BY <2>2, <2>3, <2>4, <2>5, <2>6, <2>7, Zenon DEF DeployerSound
<1>14. RestSound(u)
  <2> SUFFICES ASSUME u.name = "rest" PROVE RestSound(u)
    BY Zenon DEF RestSound
  <2>1. u.phase # "announce" /\ u.phase # "record"
    BY <1>7, Zenon
  <2>2. u.entries = t.entries
    BY <2>1, <1>7, Zenon
  <2>3. RestFrom(u.entries, u.step)
    BY <2>2, <1>1, <1>7, Zenon DEF Ready
  <2> QED
    BY <2>1, <2>3, Zenon DEF RestSound
<1>15. HandSound(u)
  <2> SUFFICES ASSUME u.name \in {"deploy", "rest"}, u.phase \in Working, ItemOf(u).do = "register"
               PROVE  u.addr \in code /\ (u.name = "rest" => Named(u.entries, ItemOf(u).id) = {u.addr})
    BY Zenon DEF HandSound
  <2>1. k \in 1..Len(Program(t.name))
    BY <1>7, Zenon DEF Working
  <2>2. ItemOf(u) = Program(t.name)[k]
    BY <1>7, Zenon DEF ItemOf
  <2>3. /\ t.step >= 1 /\ ItemOf(t).do = "create" /\ ItemOf(t).id = ItemOf(u).id
        /\ ItemOf(t).id \in ModuleIds /\ t.addr \in code
    <3>1. t.name \in {"deploy", "rest"} /\ k = t.step + 1 /\ Program(t.name)[k].do = "register"
      BY <2>2, <1>1, <1>7, Zenon
    <3>2. PICK what : what = Program(t.name)[k]
      BY Zenon
    <3>3. /\ t.step >= 1 /\ ItemOf(t).do = "create" /\ ItemOf(t).id = what.id
          /\ ItemOf(t).id \in ModuleIds /\ t.addr \in code
      BY <2>1, <3>1, <3>2, NextRegisters
    <3> QED
      BY <2>2, <3>2, <3>3, Zenon
  <2>4. u.name = "rest" => Named(t.entries, ItemOf(t).id) = {t.addr} /\ u.entries = t.entries
    BY <2>3, <1>7, Zenon DEF Ready
  <2> QED
    BY <2>3, <2>4, <1>7, Zenon
<1> QED
  BY <1>1, <1>2, <1>7, <1>10, <1>11, <1>12, <1>13, <1>14, <1>15, Zenon DEF ToolSound

\* A tool moves from t to u, and waits for nothing.
Moves(t, u) ==
  /\ u \in Tools /\ ToolSound(u) /\ u.phase \notin {"wait", "open"}
  /\ u.name # "none" => u.name = t.name
  /\ u.name = "deploy" /\ u.phase # "announce" =>
       t.name = "deploy" /\ \A d, i : InEntries(u.entries, d, i) => InEntries(t.entries, d, i)

\* Going on to the next item is a move.
LEMMA EnterMoves ==
  ASSUME NEW t \in Tools, Ready(t)
  PROVE  Moves(t, Enter(t, t.step + 1))
<1>1. PICK k : k = t.step + 1
  BY Zenon
<1>2. PICK u : u = Enter(t, k)
  BY Zenon
<1>3. t.step \in Nat /\ Len(Program(t.name)) \in Nat /\ t.name \in Names /\ t.step <= Len(Program(t.name))
  BY ToolType, ItemTyped, Zenon DEF Ready
<1>4. k \in Nat /\ k > 0 /\ k <= Len(Program(t.name)) + 1
  BY <1>1, <1>3
<1>5. u.name = t.name /\ u.phase \notin {"wait", "open"} /\ (u.phase # "announce" => u.entries = t.entries)
  BY <1>2, <1>3, <1>4, EnterFacts, Zenon DEF Changed
<1>6. u \in Tools /\ ToolSound(u)
  BY <1>1, <1>2, EnterSound, Zenon
<1>7. Moves(t, u)
  BY <1>5, <1>6, Zenon DEF Moves
<1> QED
  BY <1>1, <1>2, <1>7, Zenon

\* No tool runs.
LEMMA IdleMoves ==
  ASSUME NEW t
  PROVE  Moves(t, Idle)
<1>1. /\ Idle.name = "none" /\ Idle.step = 0 /\ Idle.phase = "none" /\ Idle.addr = None
      /\ Idle.status = "none" /\ Idle.entries = <<>>
  BY DEF Idle
<1>2. Idle \in Tools
  <2>1. /\ "none" \in Names \cup {"none"} /\ "none" \in Phases /\ None \in Addrs /\ "none" \in Statuses
    BY Zenon DEF Phases, Addrs, Statuses
  <2>2. <<>> \in Seq(Entries)
    OBVIOUS
  <2> QED
    BY <2>1, <2>2 DEF Idle, Tools
<1>3. ToolPlaced(Idle)
  BY <1>1, Zenon DEF ToolPlaced, Working, Final
<1>4. EntriesSound(Idle.entries)
  <2>1. \A k \in 1..Len(<<>>) : FALSE
    OBVIOUS
  <2> QED
    BY <1>1, <2>1, Zenon DEF EntriesSound
<1>5. DeployerSound(Idle) /\ RestSound(Idle) /\ HandSound(Idle) /\ StatusSound(Idle.status, Idle.entries)
  BY <1>1, Zenon DEF DeployerSound, RestSound, HandSound, StatusSound
<1> QED
  BY <1>1, <1>2, <1>3, <1>4, <1>5, Zenon DEF ToolSound, Moves

\* A tool that fails: the deployer goes on to write that down.
LEMMA FailMoves ==
  ASSUME NEW t \in Tools, ToolSound(t)
  PROVE  Moves(t, Fail(t))
<1>1. CASE t.name # "deploy"
  BY <1>1, IdleMoves, Zenon DEF Fail
<1>2. CASE t.name = "deploy"
  <2>1. PICK u : u = Fail(t)
    BY Zenon
  <2>2. PICK p \in Phases, s \in Statuses : p = "failing" /\ s = "failed"
    BY Zenon DEF Phases, Statuses
  <2>3. Changed(t, [t EXCEPT !.phase = p, !.status = s], t.step, p, t.addr, s, t.entries)
    BY StatusChange, Zenon
  <2>4. Changed(t, u, t.step, "failing", t.addr, "failed", t.entries)
    BY <2>1, <2>2, <2>3, <1>2, Zenon DEF Fail
  <2>5. /\ u \in Tools /\ u.name = "deploy" /\ u.step = t.step /\ u.phase = "failing"
        /\ u.status = "failed" /\ u.entries = t.entries
    BY <2>4, <1>2, Zenon DEF Changed
  <2>6. ToolPlaced(u)
    BY <2>5, Zenon DEF ToolPlaced, Working, Final
  <2>7. DeployerSound(u)
    BY <2>5, <1>2, Zenon DEF ToolSound, DeployerSound, Working
  <2>8. RestSound(u) /\ HandSound(u) /\ StatusSound(u.status, u.entries)
    BY <2>5, Zenon DEF RestSound, HandSound, StatusSound, Working
  <2>9. EntriesSound(u.entries)
    BY <2>5, Zenon DEF ToolSound
  <2>10. Moves(t, u)
    BY <2>5, <2>6, <2>7, <2>8, <2>9, <1>2, Zenon DEF Moves, ToolSound
  <2> QED
    BY <2>1, <2>10, Zenon
<1> QED
  BY <1>1, <1>2, Zenon

\* A tool goes on with the same item, with another phase or another address.
LEMMA PhaseSound ==
  ASSUME NEW t \in Tools, ToolSound(t), t.phase \in Working, NEW u, NEW p \in Working, NEW a \in Addrs,
         Changed(t, u, t.step, p, a, t.status, t.entries),
         p \in {"announce", "verify", "address"} => t.name = "deploy",
         p \in {"look", "confirm"} => t.name # "deploy",
         ItemOf(t).do = "register" => a = t.addr,
         t.name = "deploy" /\ t.step = 1 /\ p \in {"wait", "record", "verify", "address"} => a = "directory",
         t.name = "deploy" /\ (p \in {"verify", "address"} \/ (p = "record" /\ t.entries[t.step].tx = "mined")) =>
           Done(ItemOf(t), a),
         p # "record" \/ t.name # "rest"
  PROVE  ToolSound(u)
<1>1. /\ u \in Tools /\ u.name = t.name /\ u.step = t.step /\ u.phase = p /\ u.addr = a
      /\ u.status = t.status /\ u.entries = t.entries
  BY Zenon DEF Changed
<1>2. ItemOf(u) = ItemOf(t)
  BY <1>1, Zenon DEF ItemOf
<1>3. p \notin {"none", "open", "check", "finish", "failing"} /\ t.phase \notin {"none", "finish"}
  BY Zenon DEF Working
<1>4. t.name # "none" /\ t.status \notin Final /\ t.step \in 1..Len(Program(t.name))
  BY <1>3, Zenon DEF ToolSound, ToolPlaced
<1>5. ToolPlaced(u)
  BY <1>1, <1>3, <1>4, Zenon DEF ToolSound, ToolPlaced
<1>6. DeployerSound(u)
  <2> SUFFICES ASSUME t.name = "deploy" PROVE DeployerSound(u)
    BY <1>1, Zenon DEF DeployerSound
  <2>1. /\ \A d, i : Trace(d, i) => InEntries(u.entries, d, i)
        /\ Len(u.entries) = u.step /\ u.entries[u.step].do = ItemOf(u).do /\ u.entries[u.step].id = ItemOf(u).id
        /\ u.step >= 2 => "directory" \in code
    BY <1>1, <1>2, Zenon DEF ToolSound, DeployerSound
  <2>2. u.step = 1 /\ u.phase \in {"wait", "record", "verify", "address"} => u.addr = "directory"
    BY <1>1, Zenon
  <2>3. u.phase \in {"verify", "address"} \/ (u.phase = "record" /\ u.entries[u.step].tx = "mined") =>
          Done(ItemOf(u), u.addr)
    BY <1>1, <1>2, Zenon DEF Done
  <2> QED
    BY <2>1, <2>2, <2>3, Zenon DEF DeployerSound
<1>7. RestSound(u)
  BY <1>1, Zenon DEF ToolSound, RestSound
<1>8. HandSound(u)
  BY <1>1, <1>2, Zenon DEF ToolSound, HandSound
<1>9. EntriesSound(u.entries) /\ StatusSound(u.status, u.entries)
  BY <1>1, Zenon DEF ToolSound
<1> QED
  BY <1>5, <1>6, <1>7, <1>8, <1>9, Zenon DEF ToolSound

\* evm-demo-deploy-rest is done with its item, with the entries e.
LEMMA RestFromNext ==
  ASSUME NEW t \in Tools, ToolSound(t), t.name = "rest", t.phase \in Working, Done(ItemOf(t), t.addr),
         NEW e,
         \A id \in ModuleIds :
           ~(ItemOf(t).do = "create" /\ ItemOf(t).id = id) => Named(e, id) = Named(t.entries, id)
  PROVE  RestFrom(e, t.step + 1)
<1>1. PICK p : p = RestSteps
  BY Zenon
<1>2. PICK s : s = t.step
  BY Zenon
<1>3. Program("rest") = p /\ DeployShape(p)
  BY <1>1, DeployPrograms, Zenon
<1>4. s \in 1..Len(p) /\ ItemOf(t) = p[s]
  BY <1>2, <1>3, Zenon DEF ToolSound, ToolPlaced, ItemOf
<1>5. Len(p) \in Nat
  BY <1>3 DEF DeployShape
<1>6. RestFrom(t.entries, s)
  BY <1>2, Zenon DEF ToolSound, RestSound
<1>7. \A j, k \in 1..Len(p) :
        p[j].do = "create" /\ p[k].do = "create" /\ p[j].id = p[k].id /\ p[j].id \in ModuleIds => j = k
  BY <1>1, RestOnce, Zenon
<1>8. ASSUME NEW k \in 1..Len(p), p[k].do = "create", p[k].id \in ModuleIds, k >= s + 1
      PROVE  Named(e, p[k].id) = {}
  <2>1. k # s /\ k >= s
    BY <1>4, <1>8
  <2>2. ~(p[s].do = "create" /\ p[s].id = p[k].id)
    BY <2>1, <1>4, <1>7, <1>8, Zenon
  <2>3. Named(e, p[k].id) = Named(t.entries, p[k].id)
    BY <2>2, <1>4, <1>8, Zenon
  <2>4. Named(t.entries, p[k].id) = {}
    BY <2>1, <1>1, <1>6, <1>8, Zenon DEF RestFrom
  <2> QED
    BY <2>3, <2>4, Zenon
<1>9. ASSUME NEW k \in 1..Len(p), p[k].do = "bind", k < s + 1 PROVE bootstrapCoordinator # None
  <2>1. k < s \/ k = s
    BY <1>4, <1>9
  <2>2. k < s => bootstrapCoordinator # None
    BY <1>1, <1>6, <1>9, Zenon DEF RestFrom
  <2>3. k = s => bootstrapCoordinator # None
    BY <1>4, <1>9, Zenon DEF Done
  <2> QED
    BY <2>1, <2>2, <2>3, Zenon
<1>10. ASSUME NEW k \in 1..Len(p), p[k].do = "register", k < s + 1
       PROVE  moduleAddress[p[k].id] # None /\ Named(e, p[k].id) = {moduleAddress[p[k].id]}
  <2>1. k < s \/ k = s
    BY <1>4, <1>10
  <2>2. p[k].id \in ModuleIds /\ k # 1
    BY <1>3, <1>10, Zenon DEF DeployShape
  <2>3. CASE k < s
    <3>1. moduleAddress[p[k].id] # None /\ Named(t.entries, p[k].id) = {moduleAddress[p[k].id]}
      BY <2>3, <1>1, <1>6, <1>10, Zenon DEF RestFrom
    <3>2. PICK j : j = k - 1
      BY Zenon
    <3>3. j \in 1..(Len(p) - 1) /\ k = j + 1 /\ j # s /\ j \in 1..Len(p)
      BY <3>2, <2>2, <2>3, <1>4, <1>5
    <3>4. p[j + 1].do = "register"
      BY <3>3, <1>10, Zenon
    <3>5. p[j].do = "create" /\ p[j].id = p[j + 1].id
      BY <3>3, <3>4, <1>3, Zenon DEF DeployShape
    <3>6. p[j].id = p[k].id
      BY <3>3, <3>5, Zenon
    <3>7. ~(p[s].do = "create" /\ p[s].id = p[k].id)
      BY <3>3, <3>5, <3>6, <2>2, <1>4, <1>7, Zenon
    <3> QED
      BY <3>1, <3>7, <2>2, <1>4, Zenon
  <2>4. CASE k = s
    <3>1. t.addr # None /\ moduleAddress[p[k].id] = t.addr
      BY <2>4, <1>4, <1>10, Zenon DEF Done
    <3>2. Named(t.entries, p[k].id) = {t.addr}
      BY <2>4, <1>4, <1>10, Zenon DEF ToolSound, HandSound
    <3>3. ItemOf(t).do # "create"
      BY <2>4, <1>4, <1>10, Zenon
    <3> QED
      BY <3>1, <3>2, <3>3, <2>2, Zenon
  <2> QED
    BY <2>1, <2>3, <2>4, Zenon
<1>11. RestFrom(e, s + 1)
  BY <1>1, <1>8, <1>9, <1>10, Zenon DEF RestFrom
<1> QED
  BY <1>2, <1>11, Zenon

\* A tool at work has a name and an item.
LEMMA AtWork ==
  ASSUME NEW t \in Tools, ToolSound(t), t.phase \in Working
  PROVE  /\ t.name \in Names /\ t.step \in 1..Len(Program(t.name)) /\ t.step \in Nat
         /\ t.step <= Len(Program(t.name)) /\ ItemOf(t) \in Items
         /\ t.status \notin Final
         /\ t.name = "deploy" => t.step \in 1..Len(t.entries)
<1>1. t.phase \notin {"none", "finish"}
  BY Zenon DEF Working
<1>2. t.name # "none" /\ t.status \notin Final /\ t.step \in 1..Len(Program(t.name))
  BY <1>1, Zenon DEF ToolSound, ToolPlaced
<1>3. t.name \in Names /\ t.step \in Nat
  BY <1>2, ToolType, Zenon
<1>4. Len(Program(t.name)) \in Nat /\ ItemOf(t) \in Items
  BY <1>2, <1>3, ItemTyped, Zenon DEF ItemOf
<1>5. t.step <= Len(Program(t.name))
  BY <1>2, <1>4
<1>6. t.name = "deploy" => t.step \in 1..Len(t.entries)
  <2>1. t.name = "deploy" => Len(t.entries) = t.step
    BY Zenon DEF ToolSound, DeployerSound
  <2>2. t.step \in 1..t.step
    BY <1>2, <1>4
  <2> QED
    BY <2>1, <2>2, Zenon
<1> QED
  BY <1>2, <1>3, <1>4, <1>5, <1>6, Zenon

\* The deployer writes down what became of its transaction.
LEMMA NotedDeploy ==
  ASSUME NEW t \in Tools, ToolSound(t), t.name = "deploy", t.phase = "wait", NEW x \in Marks,
         x = "mined" => Done(ItemOf(t), t.addr)
  PROVE  Moves(t, Noted(t, x))
<1>0. t.phase \in Working
  BY Zenon DEF Working
<1>1. PICK u : u = Noted(t, x)
  BY Zenon
<1>2. PICK p \in Phases : p = "record"
  BY Zenon DEF Phases, Working
<1>3. u = [t EXCEPT !.phase = p, !.entries[t.step].tx = x]
  BY <1>1, <1>2, Zenon DEF Noted
<1>4. t.step \in 1..Len(t.entries)
  BY <1>0, AtWork, Zenon
<1>5. PICK e \in Seq(Entries) :
           /\ Changed(t, u, t.step, p, t.addr, t.status, e)
           /\ Len(e) = Len(t.entries) /\ e[t.step].tx = x
           /\ \A k \in 1..Len(e) :
                e[k].do = t.entries[k].do /\ e[k].id = t.entries[k].id /\ e[k].addr = t.entries[k].addr
  <2>1. Marked(t, [t EXCEPT !.phase = p, !.entries[t.step].tx = x], p, x)
    BY <1>4, MarkPhase, Zenon
  <2>2. Marked(t, u, p, x)
    BY <1>3, <2>1, Zenon
  <2> QED
    BY <2>2, Zenon DEF Marked
<1>6. /\ u \in Tools /\ u.name = "deploy" /\ u.step = t.step /\ u.phase = "record" /\ u.addr = t.addr
      /\ u.status = t.status /\ u.entries = e
  BY <1>2, <1>5, Zenon DEF Changed
<1>7. \A d, i : InEntries(e, d, i) <=> InEntries(t.entries, d, i)
  BY <1>5, Zenon DEF InEntries
<1>8. EntriesSound(e)
  BY <1>5, Zenon DEF ToolSound, EntriesSound
<1>9. t.status \notin Final /\ t.step \in 1..Len(Program("deploy"))
  BY <1>0, AtWork, Zenon
<1>10. ToolPlaced(u)
  BY <1>6, <1>9, Zenon DEF ToolPlaced
<1>11. ItemOf(u) = ItemOf(t)
  BY <1>6, Zenon DEF ItemOf
<1>12. DeployerSound(u)
  <2>1. /\ \A d, i : Trace(d, i) => InEntries(e, d, i)
        /\ Len(t.entries) = t.step /\ t.entries[t.step].do = ItemOf(t).do /\ t.entries[t.step].id = ItemOf(t).id
        /\ t.step >= 2 => "directory" \in code
        /\ t.step = 1 => t.addr = "directory"
    BY <1>0, <1>7, Zenon DEF ToolSound, DeployerSound
  <2>2. Len(e) = t.step /\ e[t.step].do = ItemOf(t).do /\ e[t.step].id = ItemOf(t).id
    BY <2>1, <1>4, <1>5, Zenon
  <2>3. e[t.step].tx = "mined" => Done(ItemOf(u), u.addr)
    BY <1>5, <1>6, <1>11, Zenon DEF Done
  <2> QED
    BY <2>1, <2>2, <2>3, <1>6, <1>11, Zenon DEF DeployerSound
<1>13. RestSound(u)
  BY <1>6, Zenon DEF RestSound
<1>14. HandSound(u)
  BY <1>0, <1>6, <1>11, Zenon DEF ToolSound, HandSound
<1>15. StatusSound(u.status, u.entries)
  BY <1>6, <1>9, Zenon DEF StatusSound, Final
<1>16. Moves(t, u)
  BY <1>6, <1>7, <1>8, <1>10, <1>12, <1>13, <1>14, <1>15, Zenon DEF Moves, ToolSound
<1> QED
  BY <1>1, <1>16, Zenon

\* evm-demo-deploy-rest goes on to its next item.
LEMMA RestReady ==
  ASSUME NEW t \in Tools, ToolSound(t), t.name = "rest", t.phase \in Working, Done(ItemOf(t), t.addr),
         ~(ItemOf(t).do = "create" /\ ItemOf(t).id \in ModuleIds)
  PROVE  Ready(t)
<1>1. PICK e : e = t.entries
  BY Zenon
<1>2. RestFrom(e, t.step + 1)
  <2>1. \A id \in ModuleIds :
           ~(ItemOf(t).do = "create" /\ ItemOf(t).id = id) => Named(e, id) = Named(t.entries, id)
    BY <1>1, Zenon
  <2> QED
    BY <2>1, RestFromNext, Zenon
<1>3. t.name \in Names /\ t.step <= Len(Program(t.name)) /\ t.status \notin Final
  BY AtWork, Zenon
<1> QED
  BY <1>1, <1>2, <1>3, Zenon DEF Ready, ToolSound, ToolPlaced

\* A bootstrapping tool does.
LEMMA BootReady ==
  ASSUME NEW t \in Tools, ToolSound(t), t.name \in {"runner", "empty"}, t.phase \in Working
  PROVE  Ready(t)
<1>1. t.name \in Names /\ t.step <= Len(Program(t.name)) /\ t.status \notin Final
  BY AtWork, Zenon
<1> QED
  BY <1>1, Zenon DEF Ready, ToolSound, ToolPlaced

\* The deployer does.
LEMMA DeployReady ==
  ASSUME NEW t \in Tools, ToolSound(t), t.name = "deploy", t.phase \in {"verify", "address"}
  PROVE  Ready(t)
<1>0. t.phase \in Working
  BY Zenon DEF Working
<1>1. t.name \in Names /\ t.step <= Len(Program(t.name)) /\ t.status \notin Final /\ t.step \in 1..Len(Program(t.name))
  BY <1>0, AtWork, Zenon
<1>2. /\ \A d, i : Trace(d, i) => InEntries(t.entries, d, i)
      /\ Len(t.entries) = t.step /\ Done(ItemOf(t), t.addr)
      /\ t.step >= 2 => "directory" \in code
      /\ t.step = 1 => t.addr = "directory"
  BY <1>0, Zenon DEF ToolSound, DeployerSound
<1>3. t.step = 1 => "directory" \in code
  <2>1. t.step = 1 => ItemOf(t).do = "create"
    BY DeployPrograms, Zenon DEF DeployShape, ItemOf
  <2> QED
    BY <2>1, <1>2, Zenon DEF Done
<1>4. "directory" \in code
  <2>1. t.step = 1 \/ t.step >= 2
    BY <1>1
  <2> QED
    BY <2>1, <1>2, <1>3, Zenon
<1> QED
  BY <1>1, <1>2, <1>4, Zenon DEF Ready, ToolSound

\* A tool other than the deployer writes down an item that names no module.
LEMMA RecordMoves ==
  ASSUME NEW t \in Tools, ToolSound(t), t.name \in {"rest", "runner"}, t.phase \in Working, NEW x \in Marks,
         Done(ItemOf(t), t.addr), ~(ItemOf(t).do = "create" /\ ItemOf(t).id \in ModuleIds),
         NEW u, u = [t EXCEPT !.phase = "record", !.entries = Append(@, Entry(ItemOf(t), t.addr, x))]
  PROVE  Moves(t, u)
<1>1. PICK what \in Items : what = ItemOf(t)
  BY AtWork, Zenon
<1>2. PICK a \in Addrs : a = t.addr
  BY ToolType, Zenon
<1>3. PICK y : y = Entry(what, a, x)
  BY Zenon
<1>4. y \in Entries /\ y.do = what.do /\ y.id = what.id /\ y.addr = a
  BY <1>3, EntryFields
<1>5. PICK p \in Phases : p = "record"
  BY Zenon DEF Phases, Working
<1>6. Changed(t, [t EXCEPT !.phase = p, !.entries = Append(@, y)], t.step, p, t.addr, t.status, Append(t.entries, y))
  BY <1>4, EntryPhase, Zenon
<1>7. u = [t EXCEPT !.phase = p, !.entries = Append(@, y)]
  BY <1>1, <1>2, <1>3, <1>5, Zenon
<1>8. PICK e : e = Append(t.entries, y)
  BY Zenon
<1>9. /\ u \in Tools /\ u.name = t.name /\ u.step = t.step /\ u.phase = "record" /\ u.addr = t.addr
      /\ u.status = t.status /\ u.entries = e
  BY <1>5, <1>6, <1>7, <1>8, Zenon DEF Changed
<1>10. t.entries \in Seq(Entries)
  BY ToolType, Zenon
<1>11. \A id \in ModuleIds : Named(e, id) = Named(t.entries, id)
  <2> TAKE id \in ModuleIds
  <2>1. ~(y.do = "create" /\ y.id = id)
    BY <1>1, <1>4, Zenon
  <2> QED
    BY <2>1, <1>4, <1>8, <1>10, AppendNamed, Zenon
<1>12. t.name \in Names /\ t.step \in 1..Len(Program(t.name)) /\ t.status \notin Final
  BY AtWork, Zenon
<1>13. ToolPlaced(u)
  BY <1>9, <1>12, Zenon DEF ToolSound, ToolPlaced, Names
<1>14. ItemOf(u) = ItemOf(t)
  BY <1>9, Zenon DEF ItemOf
<1>15. EntriesSound(e)
  <2>1. y.do = "create" => y.addr \in code \cup {None}
    BY <1>1, <1>2, <1>4, Zenon DEF Done
  <2> QED
    BY <2>1, <1>4, <1>8, <1>10, AppendSound, Zenon DEF ToolSound
<1>16. DeployerSound(u) /\ StatusSound(u.status, u.entries)
  BY <1>9, <1>12, Zenon DEF DeployerSound, StatusSound, Final
<1>17. t.name = "rest" => RestFrom(e, t.step)
  <2>1. \A k \in 1..Len(RestSteps) : RestSteps[k].do = "register" => RestSteps[k].id \in ModuleIds
    BY RestShape, Zenon DEF DeployShape
  <2> QED
    BY <2>1, <1>11, Zenon DEF ToolSound, RestSound, RestFrom
<1>18. RestSound(u)
  BY <1>9, <1>14, <1>17, Zenon DEF RestSound, Done
<1>19. HandSound(u)
  <2> SUFFICES ASSUME u.name \in {"deploy", "rest"}, u.phase \in Working, ItemOf(u).do = "register"
               PROVE  u.addr \in code /\ (u.name = "rest" => Named(u.entries, ItemOf(u).id) = {u.addr})
    BY Zenon DEF HandSound
  <2>1. t.addr \in code /\ Named(t.entries, ItemOf(t).id) = {t.addr}
    BY <1>9, <1>14, Zenon DEF ToolSound, HandSound
  <2>2. ItemOf(t).id \in ModuleIds
    BY <1>9, <1>12, <1>14, DeployPrograms, Zenon DEF DeployShape, ItemOf
  <2>3. Named(e, ItemOf(t).id) = {t.addr}
    BY <2>1, <2>2, <1>11, Zenon
  <2> QED
    BY <2>1, <2>3, <1>9, <1>14, Zenon
<1> QED
  BY <1>9, <1>13, <1>15, <1>16, <1>18, <1>19, Zenon DEF Moves, ToolSound

\* evm-demo-deploy-rest notes what it did.
LEMMA NotedRest ==
  ASSUME NEW t \in Tools, ToolSound(t), t.name = "rest", t.phase \in Working, NEW x \in Marks,
         Done(ItemOf(t), t.addr), Step = ItemOf(t)
  PROVE  Moves(t, Noted(t, x))
<1>1. CASE Step.do = "create" /\ Step.id # BoundCoordinator
  <2>1. PICK what \in Items : what = ItemOf(t)
    BY AtWork, Zenon
  <2>2. PICK a \in Addrs : a = t.addr
    BY ToolType, Zenon
  <2>3. PICK y : y = Entry(what, a, x)
    BY Zenon
  <2>4. y \in Entries /\ y.do = what.do /\ y.id = what.id /\ y.addr = a
    BY <2>3, EntryFields
  <2>5. PICK v : v = [t EXCEPT !.entries = Append(@, y)]
    BY Zenon
  <2>6. PICK e : e = Append(t.entries, y)
    BY Zenon
  <2>7. /\ v \in Tools /\ v.name = "rest" /\ v.step = t.step /\ v.phase = t.phase /\ v.addr = t.addr
        /\ v.status = t.status /\ v.entries = e
    <3>1. Changed(t, [t EXCEPT !.entries = Append(@, y)], t.step, t.phase, t.addr, t.status, Append(t.entries, y))
      BY <2>4, EntryChange, Zenon
    <3> QED
      BY <3>1, <2>5, <2>6, Zenon DEF Changed
  <2>8. Noted(t, x) = Enter(v, t.step + 1)
    BY <1>1, <2>1, <2>2, <2>3, <2>5, Zenon DEF Noted
  <2>9. t.entries \in Seq(Entries)
    BY ToolType, Zenon
  <2>10. t.name \in Names /\ t.step \in 1..Len(Program(t.name)) /\ t.step <= Len(Program(t.name)) /\ t.status \notin Final
    BY AtWork, Zenon
  <2>11. what.id \in ModuleIds
    <3>1. what.id \in ModuleIds \cup {"directory", BoundCoordinator}
      BY <1>1, <2>1, <2>10, DeployPrograms, Zenon DEF DeployShape, ItemOf
    <3>2. t.step \in 1..Len(RestSteps) /\ RestSteps[t.step] = what
      BY <2>1, <2>10, DeployPrograms, Zenon DEF ItemOf
    <3>3. what.id # "directory"
      BY <3>2, RestOnce, Zenon
    <3> QED
      BY <3>1, <3>3, <1>1, <2>1, Zenon
  <2>12. \A id \in ModuleIds : Named(e, id) = IF what.id = id THEN Named(t.entries, id) \cup {a} ELSE Named(t.entries, id)
    <3> TAKE id \in ModuleIds
    <3>1. Named(e, id) = IF y.do = "create" /\ y.id = id THEN Named(t.entries, id) \cup {y.addr} ELSE Named(t.entries, id)
      BY <2>4, <2>6, <2>9, AppendNamed, Zenon
    <3> QED
      BY <3>1, <2>1, <2>4, <1>1, Zenon
  <2>13. Named(t.entries, what.id) = {}
    <3>1. RestFrom(t.entries, t.step)
      BY Zenon DEF ToolSound, RestSound
    <3>2. t.step \in 1..Len(RestSteps) /\ RestSteps[t.step] = what
      BY <2>1, <2>10, DeployPrograms, Zenon DEF ItemOf
    <3>3. t.step >= t.step
      BY <2>10, ToolType
    <3> QED
      BY <3>1, <3>2, <3>3, <1>1, <2>1, <2>11, Zenon DEF RestFrom
  <2>14. Named(e, what.id) = {a}
    BY <2>11, <2>12, <2>13, Zenon
  <2>15. RestFrom(e, t.step + 1)
    <3>1. \A id \in ModuleIds :
           ~(ItemOf(t).do = "create" /\ ItemOf(t).id = id) => Named(e, id) = Named(t.entries, id)
      BY <1>1, <2>1, <2>12, Zenon
    <3> QED
      BY <3>1, RestFromNext, Zenon
  <2>16. EntriesSound(e)
    <3>1. y.do = "create" => y.addr \in code \cup {None}
      BY <2>1, <2>2, <2>4, Zenon DEF Done
    <3> QED
      BY <3>1, <2>4, <2>6, <2>9, AppendSound, Zenon DEF ToolSound
  <2>17. ItemOf(v) = what
    BY <2>1, <2>7, Zenon DEF ItemOf
  <2>18. t.addr \in code /\ "directory" \in code
    BY <1>1, Zenon DEF Done, ToolSound, ToolPlaced
  <2>19. Ready(v)
    BY <2>2, <2>7, <2>10, <2>14, <2>15, <2>16, <2>17, <2>18, Zenon DEF Ready
  <2>20. Moves(v, Enter(v, v.step + 1))
    BY <2>7, <2>19, EnterMoves, Zenon
  <2>21. PICK w : w = Enter(v, v.step + 1)
    BY Zenon
  <2>22. w.name = "rest"
    <3>1. v.name \in Names /\ v.step \in Nat /\ v.step + 1 \in Nat /\ v.step + 1 > 0
           /\ v.step + 1 <= Len(Program(v.name)) + 1
      BY <2>7, <2>10, ToolType, ItemTyped
    <3> QED
      BY <3>1, <2>7, <2>21, EnterFacts, Zenon DEF Changed
  <2>23. Moves(t, w)
    BY <2>20, <2>21, <2>22, Zenon DEF Moves
  <2> QED
    BY <2>7, <2>8, <2>21, <2>23, Zenon
<1>2. CASE ~(Step.do = "create" /\ Step.id # BoundCoordinator)
  <2>1. PICK u : u = Noted(t, x)
    BY Zenon
  <2>2. u = [t EXCEPT !.phase = "record", !.entries = Append(@, Entry(ItemOf(t), t.addr, x))]
    BY <2>1, <1>2, Zenon DEF Noted
  <2>3. ~(ItemOf(t).do = "create" /\ ItemOf(t).id \in ModuleIds)
    BY <1>2, Parts, Zenon
  <2>4. Moves(t, u)
    BY <2>2, <2>3, RecordMoves, Zenon
  <2> QED
    BY <2>1, <2>4, Zenon
<1> QED
  BY <1>1, <1>2, Zenon

\* A bootstrapping tool does.
LEMMA NotedBoot ==
  ASSUME NEW t \in Tools, ToolSound(t), t.name \in {"runner", "empty"}, t.phase \in Working, NEW x \in Marks,
         Step = ItemOf(t)
  PROVE  Moves(t, Noted(t, x))
<1>1. CASE t.name = "empty"
  <2>1. Noted(t, x) = Enter(t, t.step + 1)
    BY <1>1, Zenon DEF Noted
  <2> QED
    BY <2>1, BootReady, EnterMoves, Zenon
<1>2. CASE t.name = "runner"
  <2>1. PICK u : u = Noted(t, x)
    BY Zenon
  <2>2. u = [t EXCEPT !.phase = "record", !.entries = Append(@, Entry(ItemOf(t), t.addr, x))]
    BY <2>1, <1>2, Zenon DEF Noted
  <2>3. t.step \in 1..Len(Program(t.name))
    BY AtWork, Zenon
  <2>4. ItemOf(t).do \notin {"create", "bind", "register"}
    BY <2>3, BootPrograms, Zenon DEF ItemOf
  <2>5. Done(ItemOf(t), t.addr) /\ ~(ItemOf(t).do = "create" /\ ItemOf(t).id \in ModuleIds)
    BY <2>4, Zenon DEF Done
  <2>6. Moves(t, u)
    BY <2>2, <2>5, <1>2, RecordMoves, Zenon
  <2> QED
    BY <2>1, <2>6, Zenon
<1> QED
  BY <1>1, <1>2, Zenon

-----------------------------------------------------------------------------
(* What a step leaves of the chain                                         *)

\* What is on the chain stays there.
Grows ==
  /\ code \subseteq code'
  /\ \A id \in ModuleIds : moduleAddress[id] # None => moduleAddress'[id] = moduleAddress[id]
  /\ bootstrapCoordinator # None => bootstrapCoordinator' = bootstrapCoordinator
  /\ state = "Active" => state' = "Active"

\* A chain that stays as it is.
LEMMA SameGrows ==
  ASSUME UNCHANGED <<vars, code>>
  PROVE  Grows
<1>1. code' = code /\ moduleAddress' = moduleAddress /\ bootstrapCoordinator' = bootstrapCoordinator /\ state' = state
  BY Zenon DEF vars, directoryVars
<1> QED
  BY <1>1, Zenon DEF Grows

\* What is done stays done.
LEMMA DoneGrows ==
  ASSUME Grows, NEW what, NEW a, Done(what, a), what.do = "register" => what.id \in ModuleIds
  PROVE  Done(what, a)'
<1>1. what.do = "create" => a \in code'
  BY Zenon DEF Grows, Done
<1>2. what.do = "bind" => bootstrapCoordinator' # None
  BY Zenon DEF Grows, Done
<1>3. what.do = "register" => a # None /\ moduleAddress'[what.id] = a
  BY Zenon DEF Grows, Done
<1> QED
  BY <1>1, <1>2, <1>3, Zenon DEF Done

\* Addresses with code keep it.
LEMMA EntriesGrow ==
  ASSUME Grows, NEW e, EntriesSound(e)
  PROVE  EntriesSound(e)'
BY Zenon DEF Grows, EntriesSound

\* What a status reports stays so.
LEMMA StatusGrows ==
  ASSUME Grows, NEW s, NEW e, StatusSound(s, e)
  PROVE  StatusSound(s, e)'
<1>1. s = "broadcasted_and_verified" => state' = "Active" /\ BootstrapTool = "runner"
  BY Zenon DEF Grows, StatusSound
<1>2. ASSUME AllNamed(e) PROVE AllNamed(e)'
  <2>1. bootstrapCoordinator' = BoundCoordinator
    BY <1>2, Parts, Zenon DEF AllNamed, Bound, Grows
  <2>2. \A id \in ModuleIds : moduleAddress'[id] = moduleAddress[id] /\ moduleAddress[id] # None
    BY <1>2, Zenon DEF AllNamed, Bound, Grows
  <2>3. \A id \in ModuleIds : Named(e, id) = {moduleAddress'[id]}
    BY <1>2, <2>2, Zenon DEF AllNamed
  <2> QED
    BY <2>1, <2>2, <2>3, Zenon DEF AllNamed, Bound
<1> QED
  BY <1>1, <1>2, Zenon DEF StatusSound

\* A tool stays sound while the chain grows, if the deployer names what is new.
LEMMA ToolGrows ==
  ASSUME Grows, NEW t \in Tools, ToolSound(t),
         t.name = "deploy" => \A d, i : Trace(d, i)' => Trace(d, i) \/ InEntries(t.entries, d, i)
  PROVE  ToolSound(t)'
<1>1. ToolPlaced(t)'
  BY Zenon DEF ToolSound, ToolPlaced, Grows
<1>2. EntriesSound(t.entries)' /\ StatusSound(t.status, t.entries)'
  BY EntriesGrow, StatusGrows, Zenon DEF ToolSound
<1>3. t.name = "deploy" /\ Done(ItemOf(t), t.addr) /\ t.phase \in Working => Done(ItemOf(t), t.addr)'
  <2> SUFFICES ASSUME t.name = "deploy", Done(ItemOf(t), t.addr), t.phase \in Working
               PROVE  Done(ItemOf(t), t.addr)'
    BY Zenon
  <2>1. PICK what, a : what = ItemOf(t) /\ a = t.addr
    BY Zenon
  <2>2. what.do = "register" => what.id \in ModuleIds
    BY <2>1, AtWork, DeployPrograms, Zenon DEF ItemOf, DeployShape
  <2>3. Done(what, a)'
    BY <2>1, <2>2, DoneGrows, Zenon
  <2> QED
    BY <2>1, <2>3, Zenon DEF Done
<1>4. t.name = "rest" /\ Done(ItemOf(t), t.addr) /\ t.phase \in Working => Done(ItemOf(t), t.addr)'
  <2> SUFFICES ASSUME t.name = "rest", Done(ItemOf(t), t.addr), t.phase \in Working
               PROVE  Done(ItemOf(t), t.addr)'
    BY Zenon
  <2>1. PICK what, a : what = ItemOf(t) /\ a = t.addr
    BY Zenon
  <2>2. what.do = "register" => what.id \in ModuleIds
    BY <2>1, AtWork, DeployPrograms, Zenon DEF ItemOf, DeployShape
  <2>3. Done(what, a)'
    BY <2>1, <2>2, DoneGrows, Zenon
  <2> QED
    BY <2>1, <2>3, Zenon DEF Done
<1>5. DeployerSound(t)'
  <2> SUFFICES ASSUME t.name = "deploy" PROVE DeployerSound(t)'
    BY Zenon DEF DeployerSound
  <2>1. DeployerSound(t)
    BY Zenon DEF ToolSound
  <2>2. \A d, i : Trace(d, i)' => InEntries(t.entries, d, i)
    BY <2>1, Zenon DEF DeployerSound
  <2>3. t.step >= 2 => "directory" \in code'
    BY <2>1, Zenon DEF DeployerSound, Grows
  <2>4. t.phase \in {"verify", "address"} \/ (t.phase = "record" /\ t.entries[t.step].tx = "mined") =>
          Done(ItemOf(t), t.addr)'
    <3>1. t.phase \in {"verify", "address"} \/ (t.phase = "record" /\ t.entries[t.step].tx = "mined") =>
            Done(ItemOf(t), t.addr) /\ t.phase \in Working
      BY <2>1, Zenon DEF DeployerSound, Working
    <3> QED
      BY <3>1, <1>3, Zenon
  <2>5. t.phase \in Working =>
          Len(t.entries) = t.step /\ t.entries[t.step].do = ItemOf(t).do /\ t.entries[t.step].id = ItemOf(t).id
    BY <2>1, Zenon DEF DeployerSound
  <2>6. t.step = 1 /\ t.phase \in {"wait", "record", "verify", "address"} => t.addr = "directory"
    BY <2>1, Zenon DEF DeployerSound
  <2> QED
    BY <2>2, <2>3, <2>4, <2>5, <2>6, Zenon DEF DeployerSound
<1>6. RestSound(t)'
  <2> SUFFICES ASSUME t.name = "rest" PROVE RestSound(t)'
    BY Zenon DEF RestSound
  <2>1. RestSound(t)
    BY Zenon DEF ToolSound
  <2>2. RestFrom(t.entries, t.step)
    BY <2>1, Zenon DEF RestSound
  <2>3. \A k \in 1..Len(RestSteps) : RestSteps[k].do = "register" => RestSteps[k].id \in ModuleIds
    BY RestShape, Zenon DEF DeployShape
  <2>4. RestFrom(t.entries, t.step)'
    BY <2>2, <2>3, Zenon DEF RestFrom, Grows
  <2>5. t.phase = "record" =>
          Done(ItemOf(t), t.addr)' /\ ~(ItemOf(t).do = "create" /\ ItemOf(t).id \in ModuleIds)
    <3>1. t.phase = "record" => t.phase \in Working
      BY Zenon DEF Working
    <3> QED
      BY <3>1, <2>1, <1>4, Zenon DEF RestSound
  <2> QED
    BY <2>4, <2>5, Zenon DEF RestSound
<1>7. HandSound(t)'
  BY Zenon DEF ToolSound, HandSound, Grows
<1> QED
  BY <1>1, <1>2, <1>5, <1>6, <1>7, Zenon DEF ToolSound

\* What is sound of a tool, at the next state.
LEMMA ToolPrimed ==
  ASSUME NEW u, u = tool', ToolSound(u)'
  PROVE  ToolSound(tool)'
<1>1. ToolPlaced(u)' /\ DeployerSound(u)' /\ RestSound(u)' /\ HandSound(u)'
      /\ EntriesSound(u.entries)' /\ StatusSound(u.status, u.entries)'
  BY Zenon DEF ToolSound
<1>2. ToolPlaced(tool)'
  BY <1>1, Zenon DEF ToolPlaced
<1>3. DeployerSound(tool)'
  BY <1>1, Zenon DEF DeployerSound, ItemOf, Done
<1>4. RestSound(tool)'
  BY <1>1, Zenon DEF RestSound, RestFrom, ItemOf, Done
<1>5. HandSound(tool)'
  BY <1>1, Zenon DEF HandSound, ItemOf
<1>6. EntriesSound(tool.entries)' /\ StatusSound(tool.status, tool.entries)'
  BY <1>1, Zenon DEF EntriesSound, StatusSound, AllNamed
<1> QED
  BY <1>2, <1>3, <1>4, <1>5, <1>6, Zenon DEF ToolSound

\* The chain at rest.
LEMMA ChainSame ==
  ASSUME DeploymentInv, UNCHANGED <<vars, code, pool>>,
         receipt' \in {"none", "mined", "reverted"}, tool' \in Tools, file' \in Files
  PROVE  /\ Grows /\ (\A d, i : Trace(d, i)' <=> Trace(d, i))
         /\ DeploymentTyped' /\ ChainSound'
<1>1. Grows
  BY SameGrows, Zenon
<1>2. /\ code' = code /\ pool' = pool /\ moduleAddress' = moduleAddress
      /\ bootstrapCoordinator' = bootstrapCoordinator
  BY Zenon DEF vars, directoryVars
<1>3. \A d, i : Trace(d, i)' <=> Trace(d, i)
  BY <1>2, Zenon DEF Trace
<1>4. DeploymentTyped'
  BY <1>2, Zenon DEF DeploymentInv, DeploymentTyped
<1>5. ChainSound'
  <2>1. \A k \in 1..Len(pool') : TxSound(pool[k])'
    BY <1>2, Zenon DEF DeploymentInv, ChainSound, TxSound
  <2> QED
    BY <2>1, <1>2, <1>3, Zenon DEF DeploymentInv, ChainSound
<1> QED
  BY <1>1, <1>3, <1>4, <1>5, Zenon

\* A file stays true while the chain grows.
LEMMA FileGrows ==
  ASSUME Grows, FileTrue, file' = file
  PROVE  FileTrue'
<1>1. PICK e, s : e = file.entries /\ s = file.status
  BY Zenon
<1>2. ASSUME ~file.torn PROVE EntriesSound(e)' /\ StatusSound(s, e)'
  BY <1>1, <1>2, EntriesGrow, StatusGrows, Zenon DEF FileTrue
<1>3. e = file'.entries /\ s = file'.status
  BY <1>1, Zenon
<1>4. ~file'.torn => EntriesSound(file.entries)' /\ StatusSound(file.status, file.entries)'
  BY <1>2, <1>3, Zenon DEF EntriesSound, StatusSound, AllNamed
<1> QED
  BY <1>4, Zenon DEF FileTrue

\* A step of a tool that leaves the chain and the file as they are.
LEMMA MoveKeeps ==
  ASSUME DeploymentInv, UNCHANGED <<vars, code, pool, file>>, receipt' \in {"none", "mined", "reverted"},
         Moves(tool, tool'), tool'.name = "deploy" => tool.phase \notin {"open", "announce"}
  PROVE  DeploymentInv'
<1>0. UNCHANGED <<vars, code, pool>> /\ file' = file
  BY Zenon
<1>1. PICK u : u = tool'
  BY Zenon
<1>2. u \in Tools /\ ToolSound(u) /\ u.phase # "wait"
  BY <1>1, Zenon DEF Moves
<1>3. file' \in Files
  BY <1>0, Zenon DEF DeploymentInv, DeploymentTyped
<1>4. Grows /\ (\A d, i : Trace(d, i)' <=> Trace(d, i)) /\ DeploymentTyped' /\ ChainSound'
  BY <1>0, <1>1, <1>2, <1>3, ChainSame, Zenon
<1>5. ToolSound(u)'
  BY <1>2, <1>4, ToolGrows, Zenon
<1>6. ToolSound(tool)'
  BY <1>1, <1>5, ToolPrimed, Zenon
<1>7. WaitSound'
  BY <1>1, <1>2, Zenon DEF WaitSound
<1>8. FileTrue'
  BY <1>0, <1>4, FileGrows, Zenon DEF DeploymentInv
<1>9. FileComplete'
  <2> SUFFICES ASSUME file'.by = "deploy", ~file'.torn
               PROVE  /\ \A d, i : Trace(d, i)' => InEntries(file'.entries, d, i)
                      /\ u.name = "deploy" /\ u.phase \notin {"open", "announce"} =>
                           \A d, i : InEntries(u.entries, d, i) => InEntries(file'.entries, d, i)
    <3>1. u.name # "none" => file'.by = u.name
      BY <1>0, <1>1, Zenon DEF Moves, DeploymentInv, FileComplete
    <3> QED
      BY <1>1, <3>1, Zenon DEF FileComplete
  <2>1. \A d, i : Trace(d, i)' => InEntries(file'.entries, d, i)
    BY <1>0, <1>4, Zenon DEF DeploymentInv, FileComplete
  <2>2. ASSUME u.name = "deploy", u.phase \notin {"open", "announce"}, NEW d, NEW i, InEntries(u.entries, d, i)
        PROVE  InEntries(file'.entries, d, i)
    <3>1. tool.name = "deploy" /\ InEntries(tool.entries, d, i)
      BY <2>2, <1>1, Zenon DEF Moves
    <3> QED
      BY <3>1, <2>2, <1>0, <1>1, Zenon DEF DeploymentInv, FileComplete
  <2> QED
    BY <2>1, <2>2, Zenon
<1> QED
  BY <1>4, <1>6, <1>7, <1>8, <1>9, Zenon DEF DeploymentInv

-----------------------------------------------------------------------------
(* The steps of a tool                                                     *)

\* The running tool.
LEMMA RunningTool ==
  ASSUME DeploymentInv
  PROVE  /\ tool \in Tools /\ ToolSound(tool) /\ Step = ItemOf(tool)
         /\ ChainSound /\ code \subseteq Addrs /\ None \notin code
         /\ receipt \in {"none", "mined", "reverted"}
<1>1. tool \in Tools /\ code \subseteq Addrs /\ None \notin code /\ receipt \in {"none", "mined", "reverted"}
  BY Zenon DEF DeploymentInv, DeploymentTyped
<1> QED
  BY <1>1, Zenon DEF DeploymentInv, Step, ItemOf

\* Only evm-demo-deploy-rest looks for contracts and bindings.
LEMMA LookingTool ==
  ASSUME DeploymentInv, tool.phase \in {"look", "confirm"}
  PROVE  /\ tool.phase \in Working /\ tool.name \in {"rest", "runner", "empty"}
         /\ Step.do \in {"create", "bind", "register"} => tool.name = "rest"
         /\ tool.name = "rest" =>
              /\ Step.do \in {"create", "bind", "register"}
              /\ Step.do = "register" => Step.id \in ModuleIds
<1>1. tool.phase \in Working
  BY Zenon DEF Working
<1>2. tool.name \in Names /\ tool.step \in 1..Len(Program(tool.name)) /\ Step = ItemOf(tool)
  BY <1>1, RunningTool, AtWork, Zenon
<1>3. tool.name # "deploy"
  BY Zenon DEF DeploymentInv, ToolSound, ToolPlaced
<1>4. tool.name \in {"runner", "empty"} => Step.do \notin {"create", "bind", "register"}
  BY <1>2, BootPrograms, Zenon DEF ItemOf
<1>5. tool.name = "rest" =>
        Step.do \in {"create", "bind", "register"} /\ (Step.do = "register" => Step.id \in ModuleIds)
  BY <1>2, DeployPrograms, Zenon DEF ItemOf, DeployShape
<1> QED
  BY <1>1, <1>2, <1>3, <1>4, <1>5, Zenon DEF Names

\* With the address of what it found in hand.
LEMMA FoundMoves ==
  ASSUME DeploymentInv, tool.phase = "look", Step.do = "create", NEW c \in code,
         tool' = Noted([tool EXCEPT !.addr = c], "existing")
  PROVE  Moves(tool, tool')
<1>1. tool.phase \in Working /\ tool.name = "rest"
  BY LookingTool, Zenon
<1>2. tool \in Tools /\ ToolSound(tool) /\ Step = ItemOf(tool) /\ c \in Addrs
  BY RunningTool, Zenon
<1>3. PICK t : t = [tool EXCEPT !.addr = c]
  BY Zenon
<1>4. Changed(tool, t, tool.step, tool.phase, c, tool.status, tool.entries)
  BY <1>2, <1>3, AddrChange, Zenon
<1>5. t \in Tools /\ t.name = "rest" /\ t.step = tool.step /\ t.phase = "look" /\ t.addr = c
  BY <1>1, <1>4, Zenon DEF Changed
<1>6. ToolSound(t)
  <2>1. PICK p \in Working : p = tool.phase
    BY <1>1, Zenon
  <2>2. Changed(tool, t, tool.step, p, c, tool.status, tool.entries)
    BY <1>4, <2>1, Zenon
  <2>3. /\ p \notin {"announce", "verify", "address", "record"} /\ tool.name # "deploy"
        /\ ItemOf(tool).do # "register"
    BY <1>1, <1>2, <2>1, Zenon
  <2> QED
    BY <1>1, <1>2, <2>2, <2>3, PhaseSound, Zenon
<1>7. Step = ItemOf(t)
  BY <1>1, <1>2, <1>5, Zenon DEF ItemOf
<1>8. Done(ItemOf(t), t.addr)
  BY <1>5, <1>7, Zenon DEF Done
<1>9. PICK x \in Marks : x = "existing"
  BY Zenon DEF Marks
<1>10. Moves(t, Noted(t, x))
  BY <1>1, <1>5, <1>6, <1>7, <1>8, NotedRest, Zenon
<1>11. PICK u : u = Noted(t, x)
  BY Zenon
<1>12. tool' = u /\ Moves(t, u)
  BY <1>3, <1>9, <1>10, <1>11, Zenon
<1> QED
  BY <1>1, <1>5, <1>12, Zenon DEF Moves

\* The item needs no transaction.
LEMMA LookDoneKeeps ==
  ASSUME DeploymentInv, LookDone
  PROVE  DeploymentInv'
<1>0. tool.phase = "look"
  BY Zenon DEF LookDone
<1>1. UNCHANGED <<vars, code, pool, file>> /\ receipt' = receipt
  BY Zenon DEF LookDone
<1>2. /\ tool \in Tools /\ ToolSound(tool) /\ Step = ItemOf(tool) /\ ChainSound /\ code \subseteq Addrs
      /\ None \notin code /\ receipt \in {"none", "mined", "reverted"}
  BY RunningTool, Zenon
<1>3. /\ tool.phase \in Working /\ tool.name \in {"rest", "runner", "empty"}
      /\ Step.do \in {"create", "bind", "register"} => tool.name = "rest"
      /\ tool.name = "rest" => Step.do \in {"create", "bind", "register"}
  BY <1>0, LookingTool, Zenon
<1> SUFFICES Moves(tool, tool')
  BY <1>0, <1>1, <1>2, MoveKeeps, Zenon
<1>4. CASE tool.name = "rest" /\ Applied(Step) /\ tool' = Enter(tool, tool.step + 1)
  <2>1. Step.do = "bind" /\ bootstrapCoordinator # None
    <3>1. Step.do # "create"
      BY <1>4, Zenon DEF Applied
    <3>2. Step.do # "register"
      BY <1>4, Zenon DEF Applied
    <3>3. Step.do = "bind"
      BY <3>1, <3>2, <1>3, <1>4, Zenon
    <3> QED
      BY <3>3, <1>4, Zenon DEF Applied
  <2>2. Done(ItemOf(tool), tool.addr) /\ ItemOf(tool).do # "create"
    BY <2>1, <1>2, Zenon DEF Done
  <2>3. Ready(tool)
    BY <2>2, <1>2, <1>3, <1>4, RestReady, Zenon
  <2>4. Moves(tool, Enter(tool, tool.step + 1))
    BY <2>3, <1>2, EnterMoves, Zenon
  <2> QED
    BY <2>4, <1>4, Zenon
<1>5. CASE tool.name = "runner" /\ tool' = Noted(tool, "applied")
  <2>1. PICK x \in Marks : x = "applied"
    BY Zenon DEF Marks
  <2>2. Moves(tool, Noted(tool, x))
    BY <1>2, <1>3, <1>5, NotedBoot, Zenon
  <2> QED
    BY <2>1, <2>2, <1>5, Zenon
<1>6. CASE Step.do = "create" /\ Step.id \in code /\ tool' = Noted([tool EXCEPT !.addr = Step.id], "existing")
  BY <1>0, <1>6, FoundMoves, Zenon
<1>7. ASSUME Step.do = "create", Step.id \in ModuleIds, NEW c \in Existing(Step.id),
             tool' = Noted([tool EXCEPT !.addr = c], "existing")
      PROVE  Moves(tool, tool')
  <2>1. c \in code
    BY <1>2, <1>7, Zenon DEF Existing, ChainSound
  <2> QED
    BY <2>1, <1>0, <1>7, FoundMoves, Zenon
<1>8. CASE Step.do = "register" /\ moduleAddress[Step.id] # None /\ moduleAddress[Step.id] = tool.addr
           /\ tool' = Noted(tool, "existing")
  <2>1. Done(ItemOf(tool), tool.addr)
    BY <1>2, <1>8, Zenon DEF Done
  <2>2. PICK x \in Marks : x = "existing"
    BY Zenon DEF Marks
  <2>3. tool.name = "rest"
    BY <1>3, <1>8, Zenon
  <2>4. Moves(tool, Noted(tool, x))
    BY <2>1, <2>3, <1>2, <1>3, NotedRest, Zenon
  <2> QED
    BY <2>2, <2>4, <1>8, Zenon
<1>9. CASE tool' = Fail(tool)
  BY <1>2, <1>9, FailMoves, Zenon
<1> QED
  BY <1>4, <1>5, <1>6, <1>7, <1>8, <1>9, Zenon DEF LookDone

\* A tool other than the deployer goes on with its item.
LEMMA GoesOn ==
  ASSUME NEW t \in Tools, ToolSound(t), t.phase \in Working, t.name # "deploy", NEW p \in {"send", "confirm"}
  PROVE  Moves(t, [t EXCEPT !.phase = p])
<1>1. PICK u : u = [t EXCEPT !.phase = p]
  BY Zenon
<1>2. PICK a \in Addrs : a = t.addr
  BY ToolType, Zenon
<1>3. p \in Phases /\ p \in Working
  BY Zenon DEF Phases, Working
<1>4. Changed(t, [t EXCEPT !.phase = p], t.step, p, t.addr, t.status, t.entries)
  BY <1>3, PhaseChange, Zenon
<1>5. Changed(t, u, t.step, p, a, t.status, t.entries)
  BY <1>1, <1>2, <1>4, Zenon
<1>6. p \notin {"announce", "verify", "address", "record", "wait", "open"}
  BY Zenon
<1>7. ToolSound(u)
  BY <1>2, <1>3, <1>5, <1>6, PhaseSound, Zenon
<1>8. Moves(t, u)
  BY <1>5, <1>6, <1>7, Zenon DEF Changed, Moves
<1> QED
  BY <1>1, <1>8, Zenon

\* The item needs a transaction.
LEMMA LookSendsKeeps ==
  ASSUME DeploymentInv, LookSends
  PROVE  DeploymentInv'
<1>0. tool.phase = "look" /\ tool' = [tool EXCEPT !.phase = "send"]
  BY Zenon DEF LookSends
<1>1. UNCHANGED <<vars, code, pool, file>> /\ receipt' = receipt
  BY Zenon DEF LookSends
<1>2. tool \in Tools /\ ToolSound(tool) /\ receipt \in {"none", "mined", "reverted"}
  BY RunningTool, Zenon
<1>3. tool.phase \in Working /\ tool.name # "deploy"
  BY <1>0, LookingTool, Zenon
<1>4. PICK p \in {"send", "confirm"} : p = "send"
  BY Zenon
<1>5. Moves(tool, [tool EXCEPT !.phase = p])
  BY <1>2, <1>3, GoesOn, Zenon
<1>6. Moves(tool, tool')
  BY <1>0, <1>4, <1>5, Zenon
<1> QED
  BY <1>0, <1>1, <1>2, <1>6, MoveKeeps, Zenon

\* What a waiting tool notes of a mined transaction.
LEMMA NotedMined ==
  ASSUME DeploymentInv, tool.phase \in {"wait", "confirm"}, Done(Step, tool.addr), NEW x \in Marks,
         tool.name = "deploy" => tool.phase = "wait"
  PROVE  Moves(tool, Noted(tool, x))
<1>1. tool \in Tools /\ ToolSound(tool) /\ Step = ItemOf(tool)
  BY RunningTool, Zenon
<1>2. tool.phase \in Working
  BY Zenon DEF Working
<1>3. tool.name \in Names
  BY <1>1, <1>2, AtWork, Zenon
<1>4. Done(ItemOf(tool), tool.addr)
  BY <1>1, Zenon
<1>5. CASE tool.name = "deploy"
  BY <1>1, <1>4, <1>5, NotedDeploy, Zenon
<1>6. CASE tool.name = "rest"
  BY <1>1, <1>2, <1>4, <1>6, NotedRest, Zenon
<1>7. CASE tool.name \in {"runner", "empty"}
  BY <1>1, <1>2, <1>7, NotedBoot, Zenon
<1> QED
  BY <1>3, <1>5, <1>6, <1>7, Zenon DEF Names

\* The receipt is there.
LEMMA ReceiptKeeps ==
  ASSUME DeploymentInv, Receipt
  PROVE  DeploymentInv'
<1>0. tool.phase = "wait" /\ receipt # "none"
  BY Zenon DEF Receipt
<1>1. UNCHANGED <<vars, code, pool, file>> /\ receipt' = receipt
  BY Zenon DEF Receipt
<1>2. tool \in Tools /\ ToolSound(tool) /\ receipt \in {"none", "mined", "reverted"}
  BY RunningTool, Zenon
<1>3. tool.phase \in Working
  BY <1>0, Zenon DEF Working
<1> SUFFICES Moves(tool, tool')
  BY <1>0, <1>1, <1>2, MoveKeeps, Zenon
<1>4. CASE receipt = "mined" /\ tool.name = "runner" /\ tool' = [tool EXCEPT !.phase = "confirm"]
  <2>1. PICK p \in {"send", "confirm"} : p = "confirm"
    BY Zenon
  <2>2. Moves(tool, [tool EXCEPT !.phase = p])
    BY <1>2, <1>3, <1>4, GoesOn, Zenon
  <2> QED
    BY <1>4, <2>1, <2>2, Zenon
<1>5. CASE receipt = "mined" /\ tool' = Noted(tool, "mined")
  <2>1. Done(Step, tool.addr)
    BY <1>0, <1>5, Zenon DEF DeploymentInv, WaitSound
  <2>2. PICK x \in Marks : x = "mined"
    BY Zenon DEF Marks
  <2>3. Moves(tool, Noted(tool, x))
    BY <1>0, <2>1, NotedMined, Zenon
  <2> QED
    BY <1>5, <2>2, <2>3, Zenon
<1>6. CASE tool.name = "deploy" /\ tool' = Noted(tool, "reverted")
  <2>1. PICK x \in Marks : x = "reverted"
    BY Zenon DEF Marks
  <2>2. Moves(tool, Noted(tool, x))
    BY <1>0, <1>2, <1>6, <2>1, NotedDeploy, Zenon
  <2> QED
    BY <1>6, <2>1, <2>2, Zenon
<1>7. CASE tool' = Fail(tool)
  BY <1>2, <1>7, FailMoves, Zenon
<1> QED
  BY <1>4, <1>5, <1>6, <1>7, Zenon DEF Receipt

\* The wait ends without a receipt.
LEMMA UnconfirmedKeeps ==
  ASSUME DeploymentInv, Unconfirmed
  PROVE  DeploymentInv'
<1>0. tool.phase = "wait"
  BY Zenon DEF Unconfirmed
<1>1. UNCHANGED <<vars, code, pool, file>> /\ receipt' = receipt
  BY Zenon DEF Unconfirmed
<1>2. tool \in Tools /\ ToolSound(tool) /\ receipt \in {"none", "mined", "reverted"}
  BY RunningTool, Zenon
<1>3. tool.phase \in Working
  BY <1>0, Zenon DEF Working
<1> SUFFICES Moves(tool, tool')
  BY <1>0, <1>1, <1>2, MoveKeeps, Zenon
<1>4. CASE tool.name # "deploy" /\ tool' = [tool EXCEPT !.phase = "confirm"]
  <2>1. PICK p \in {"send", "confirm"} : p = "confirm"
    BY Zenon
  <2>2. Moves(tool, [tool EXCEPT !.phase = p])
    BY <1>2, <1>3, <1>4, GoesOn, Zenon
  <2> QED
    BY <1>4, <2>1, <2>2, Zenon
<1>5. CASE tool.name = "deploy" /\ tool' = Noted(tool, "unconfirmed")
  <2>1. PICK x \in Marks : x = "unconfirmed"
    BY Zenon DEF Marks
  <2>2. Moves(tool, Noted(tool, x))
    BY <1>0, <1>2, <1>5, <2>1, NotedDeploy, Zenon
  <2> QED
    BY <1>5, <2>1, <2>2, Zenon
<1>6. CASE tool' = Fail(tool)
  BY <1>2, <1>6, FailMoves, Zenon
<1> QED
  BY <1>4, <1>5, <1>6, Zenon DEF Unconfirmed

\* The state shows what no receipt did.
LEMMA ConfirmKeeps ==
  ASSUME DeploymentInv, Confirm
  PROVE  DeploymentInv'
<1>0. tool.phase = "confirm" /\ Shown(Step) /\ tool' = Noted(tool, "confirmed_by_state")
  BY Zenon DEF Confirm
<1>1. UNCHANGED <<vars, code, pool, file>> /\ receipt' = receipt
  BY Zenon DEF Confirm
<1>2. /\ tool \in Tools /\ ToolSound(tool) /\ receipt \in {"none", "mined", "reverted"} /\ None \notin code
      /\ Step = ItemOf(tool)
  BY RunningTool, Zenon
<1>3. /\ tool.phase \in Working /\ tool.name \in {"rest", "runner", "empty"}
      /\ Step.do \in {"create", "bind", "register"} => tool.name = "rest"
  BY <1>0, LookingTool, Zenon
<1>4. Done(Step, tool.addr)
  <2>1. ASSUME Step.do = "create" PROVE tool.addr \in code
    BY <1>0, <2>1, Zenon DEF Shown
  <2>2. ASSUME Step.do = "bind" PROVE bootstrapCoordinator # None
    <3>1. Applied(Step)
      BY <1>0, <2>2, Zenon DEF Shown
    <3> QED
      BY <3>1, <2>2, Zenon DEF Applied
  <2>3. ASSUME Step.do = "register" PROVE tool.addr # None /\ moduleAddress[Step.id] = tool.addr
    <3>1. moduleAddress[Step.id] = tool.addr
      BY <1>0, <2>3, Zenon DEF Shown
    <3>2. tool.addr \in code
      BY <1>2, <1>3, <2>3, Zenon DEF ToolSound, HandSound
    <3> QED
      BY <3>1, <3>2, <1>2, Zenon
  <2> QED
    BY <2>1, <2>2, <2>3, Zenon DEF Done
<1>5. PICK x \in Marks : x = "confirmed_by_state"
  BY Zenon DEF Marks
<1>6. Moves(tool, Noted(tool, x))
  BY <1>0, <1>3, <1>4, NotedMined, Zenon
<1>7. Moves(tool, tool')
  BY <1>0, <1>5, <1>6, Zenon
<1> QED
  BY <1>0, <1>1, <1>2, <1>7, MoveKeeps, Zenon

\* The failures that leave the pool alone, and a kill.
LEMMA FailureKeeps ==
  ASSUME DeploymentInv, GiveUp \/ SendRefused \/ VerifyFails \/ Killed
  PROVE  DeploymentInv'
<1>1. UNCHANGED <<vars, code, pool, file>> /\ receipt' = receipt
  BY Zenon DEF GiveUp, SendRefused, VerifyFails, Killed
<1>2. tool \in Tools /\ ToolSound(tool) /\ receipt \in {"none", "mined", "reverted"}
  BY RunningTool, Zenon
<1>3. CASE tool' = Fail(tool) /\ tool.phase \notin {"open", "announce"}
  <2>1. Moves(tool, tool')
    BY <1>2, <1>3, FailMoves, Zenon
  <2> QED
    BY <1>1, <1>2, <1>3, <2>1, MoveKeeps, Zenon
<1>4. CASE tool' = Idle
  <2>1. Moves(tool, tool')
    BY <1>4, IdleMoves, Zenon
  <2>2. Idle.name = "none"
    BY DEF Idle
  <2> QED
    BY <1>1, <1>2, <1>4, <2>1, <2>2, MoveKeeps, Zenon
<1> QED
  BY <1>3, <1>4, Zenon DEF GiveUp, SendRefused, VerifyFails, Killed

\* The deployer writes the address of a contract down.
LEMMA AddressMoves ==
  ASSUME NEW t \in Tools, ToolSound(t), t.name = "deploy", t.phase = "verify", ItemOf(t).do = "create"
  PROVE  Moves(t, [t EXCEPT !.phase = "address", !.entries[t.step].addr = t.addr])
<1>0. t.phase \in Working
  BY Zenon DEF Working
<1>1. PICK p \in Phases : p = "address"
  BY Zenon DEF Phases, Working
<1>2. PICK x \in Addrs : x = t.addr
  BY ToolType, Zenon
<1>3. PICK u : u = [t EXCEPT !.phase = p, !.entries[t.step].addr = x]
  BY Zenon
<1>4. t.step \in 1..Len(t.entries) /\ t.status \notin Final /\ t.step \in 1..Len(Program(t.name))
  BY <1>0, AtWork, Zenon
<1>5. Placed(t, u, p, x)
  <2>1. Placed(t, [t EXCEPT !.phase = p, !.entries[t.step].addr = x], p, x)
    BY <1>4, AddrPhase, Zenon
  <2> QED
    BY <2>1, <1>3, Zenon
<1>6. PICK e \in Seq(Entries) :
         /\ Changed(t, u, t.step, p, t.addr, t.status, e)
         /\ Len(e) = Len(t.entries) /\ e[t.step].addr = x
         /\ \A k \in 1..Len(e) :
              /\ e[k].do = t.entries[k].do /\ e[k].id = t.entries[k].id
              /\ k # t.step => e[k].addr = t.entries[k].addr
  BY <1>5, Zenon DEF Placed
<1>7. /\ u \in Tools /\ u.name = "deploy" /\ u.step = t.step /\ u.phase = "address" /\ u.addr = t.addr
      /\ u.status = t.status /\ u.entries = e
  BY <1>1, <1>6, Zenon DEF Changed
<1>8. \A d, i : InEntries(e, d, i) <=> InEntries(t.entries, d, i)
  BY <1>6, Zenon DEF InEntries
<1>9. /\ Len(t.entries) = t.step /\ t.entries[t.step].do = ItemOf(t).do /\ t.entries[t.step].id = ItemOf(t).id
      /\ Done(ItemOf(t), t.addr) /\ (t.step = 1 => t.addr = "directory")
      /\ \A d, i : Trace(d, i) => InEntries(e, d, i)
      /\ t.step >= 2 => "directory" \in code
  BY <1>0, <1>8, Zenon DEF ToolSound, DeployerSound
<1>10. EntriesSound(e)
  <2>1. t.addr \in code
    BY <1>9, Zenon DEF Done
  <2>2. ASSUME NEW k \in 1..Len(e), e[k].do = "create" PROVE e[k].addr \in code \cup {None}
    <3>1. CASE k = t.step
      BY <3>1, <2>1, <1>2, <1>6, Zenon
    <3>2. CASE k # t.step
      BY <3>2, <2>2, <1>6, Zenon DEF ToolSound, EntriesSound
    <3> QED
      BY <3>1, <3>2, Zenon
  <2> QED
    BY <2>2, Zenon DEF EntriesSound
<1>11. ToolPlaced(u)
  BY <1>4, <1>7, Zenon DEF ToolPlaced
<1>12. ItemOf(u) = ItemOf(t)
  BY <1>7, Zenon DEF ItemOf
<1>13. DeployerSound(u)
  <2>1. Len(e) = t.step /\ e[t.step].do = ItemOf(t).do /\ e[t.step].id = ItemOf(t).id
    BY <1>4, <1>6, <1>9, Zenon
  <2>2. Done(ItemOf(u), u.addr)
    BY <1>7, <1>9, <1>12, Zenon DEF Done
  <2> QED
    BY <2>1, <2>2, <1>7, <1>9, <1>12, Zenon DEF DeployerSound
<1>14. RestSound(u) /\ HandSound(u) /\ StatusSound(u.status, u.entries)
  BY <1>4, <1>7, <1>12, Zenon DEF RestSound, HandSound, StatusSound, Final
<1>15. Moves(t, u)
  BY <1>7, <1>8, <1>10, <1>11, <1>13, <1>14, Zenon DEF Moves, ToolSound
<1> QED
  BY <1>1, <1>2, <1>3, <1>15, Zenon

\* The deployer reads back what it created.
LEMMA VerifyKeeps ==
  ASSUME DeploymentInv, Verify
  PROVE  DeploymentInv'
<1>0. tool.phase = "verify"
  BY Zenon DEF Verify
<1>1. UNCHANGED <<vars, code, pool, file>> /\ receipt' = receipt
  BY Zenon DEF Verify
<1>2. tool \in Tools /\ ToolSound(tool) /\ receipt \in {"none", "mined", "reverted"} /\ Step = ItemOf(tool)
  BY RunningTool, Zenon
<1>3. tool.name = "deploy"
  BY <1>0, <1>2, Zenon DEF ToolSound, ToolPlaced
<1> SUFFICES Moves(tool, tool')
  BY <1>0, <1>1, <1>2, MoveKeeps, Zenon
<1>4. CASE tool' = Enter(tool, tool.step + 1)
  <2>1. Ready(tool)
    BY <1>0, <1>2, <1>3, DeployReady, Zenon
  <2>2. Moves(tool, Enter(tool, tool.step + 1))
    BY <2>1, <1>2, EnterMoves, Zenon
  <2> QED
    BY <2>2, <1>4, Zenon
<1>5. CASE Step.do = "create" /\ tool' = [tool EXCEPT !.phase = "address", !.entries[tool.step].addr = tool.addr]
  <2>1. ItemOf(tool).do = "create"
    BY <1>2, <1>5, Zenon
  <2> QED
    BY <2>1, <1>0, <1>2, <1>3, <1>5, AddressMoves, Zenon
<1> QED
  BY <1>4, <1>5, Zenon DEF Verify

\* A tool reports what it found in the end.
LEMMA FinishMoves ==
  ASSUME NEW t \in Tools, ToolSound(t), t.phase = "check", NEW s \in Final, StatusSound(s, t.entries)
  PROVE  Moves(t, [t EXCEPT !.phase = "finish", !.status = s])
<1>1. PICK p \in Phases : p = "finish"
  BY Zenon DEF Phases
<1>2. s \in Statuses
  BY Zenon DEF Statuses
<1>3. PICK u : u = [t EXCEPT !.phase = p, !.status = s]
  BY Zenon
<1>4. Changed(t, u, t.step, p, t.addr, s, t.entries)
  <2>1. Changed(t, [t EXCEPT !.phase = p, !.status = s], t.step, p, t.addr, s, t.entries)
    BY <1>2, StatusChange, Zenon
  <2> QED
    BY <2>1, <1>3, Zenon
<1>5. /\ u \in Tools /\ u.name = t.name /\ u.step = t.step /\ u.phase = "finish" /\ u.status = s
      /\ u.entries = t.entries
  BY <1>1, <1>4, Zenon DEF Changed
<1>6. ToolPlaced(u)
  BY <1>5, Zenon DEF ToolSound, ToolPlaced, Working
<1>7. DeployerSound(u)
  BY <1>5, Zenon DEF ToolSound, DeployerSound, Working
<1>8. RestSound(u)
  BY <1>5, Zenon DEF ToolSound, RestSound
<1>9. HandSound(u)
  BY <1>5, Zenon DEF HandSound, Working
<1>10. EntriesSound(u.entries) /\ StatusSound(u.status, u.entries)
  BY <1>5, Zenon DEF ToolSound
<1>11. Moves(t, u)
  BY <1>5, <1>6, <1>7, <1>8, <1>9, <1>10, Zenon DEF Moves, ToolSound
<1> QED
  BY <1>1, <1>3, <1>11, Zenon

\* evm-demo-deploy-rest is through with everything.
LEMMA RestComplete ==
  ASSUME DeploymentInv, tool.name = "rest", tool.phase = "check"
  PROVE  AllNamed(tool.entries)
<1>1. PICK p : p = RestSteps
  BY Zenon
<1>2. DeployShape(p) /\ Program("rest") = p
  BY <1>1, DeployPrograms, Zenon
<1>3. Len(p) \in Nat
  BY <1>2 DEF DeployShape
<1>4. tool.step = Len(p) + 1 /\ RestFrom(tool.entries, tool.step)
  BY <1>2, Zenon DEF DeploymentInv, ToolSound, ToolPlaced, RestSound
<1>5. \A k \in 1..Len(p) : k < tool.step
  BY <1>3, <1>4
<1>6. bootstrapCoordinator # None
  <2>1. PICK k \in 1..Len(p) : p[k].do = "bind"
    BY <1>1, RestOnce, Zenon
  <2> QED
    BY <2>1, <1>1, <1>4, <1>5, Zenon DEF RestFrom
<1>7. ASSUME NEW id \in ModuleIds
      PROVE  moduleAddress[id] # None /\ Named(tool.entries, id) = {moduleAddress[id]}
  <2>1. PICK k \in 1..Len(p) : p[k].do = "register" /\ p[k].id = id
    BY <1>1, RestOnce, Zenon
  <2>2. moduleAddress[p[k].id] # None /\ Named(tool.entries, p[k].id) = {moduleAddress[p[k].id]}
    BY <2>1, <1>1, <1>4, <1>5, Zenon DEF RestFrom
  <2> QED
    BY <2>1, <2>2, Zenon
<1>8. bootstrapCoordinator = BoundCoordinator
  BY <1>6, Zenon DEF DeploymentInv, DeploymentTyped
<1> QED
  BY <1>7, <1>8, Zenon DEF AllNamed, Bound

\* The last check of a run.
LEMMA CheckKeeps ==
  ASSUME DeploymentInv, Check
  PROVE  DeploymentInv'
<1>0. tool.phase = "check"
  BY Zenon DEF Check
<1>1. UNCHANGED <<vars, code, pool, file>> /\ receipt' = receipt
  BY Zenon DEF Check
<1>2. tool \in Tools /\ ToolSound(tool) /\ receipt \in {"none", "mined", "reverted"}
  BY RunningTool, Zenon
<1> SUFFICES Moves(tool, tool')
  BY <1>0, <1>1, <1>2, MoveKeeps, Zenon
<1>3. CASE VerifyBindings(tool) /\ tool' = [tool EXCEPT !.phase = "finish", !.status = "bootstrapping"]
  <2>1. AllNamed(tool.entries)
    BY <1>3, Zenon DEF VerifyBindings, VerifyDirectory, VerifyModules, AllNamed
  <2>2. PICK s \in Final : s = "bootstrapping"
    BY Zenon DEF Final
  <2>3. StatusSound(s, tool.entries)
    BY <2>1, <2>2, Zenon DEF StatusSound
  <2>4. Moves(tool, [tool EXCEPT !.phase = "finish", !.status = s])
    BY <2>3, <1>0, <1>2, FinishMoves, Zenon
  <2> QED
    BY <2>2, <2>4, <1>3, Zenon
<1>4. CASE tool.name = "rest" /\ tool' = [tool EXCEPT !.phase = "finish", !.status = "deployed_bootstrapping"]
  <2>1. AllNamed(tool.entries)
    BY <1>0, <1>4, RestComplete, Zenon
  <2>2. PICK s \in Final : s = "deployed_bootstrapping"
    BY Zenon DEF Final
  <2>3. StatusSound(s, tool.entries)
    BY <2>1, <2>2, Zenon DEF StatusSound
  <2>4. Moves(tool, [tool EXCEPT !.phase = "finish", !.status = s])
    BY <2>3, <1>0, <1>2, FinishMoves, Zenon
  <2> QED
    BY <2>2, <2>4, <1>4, Zenon
<1>5. CASE tool.name = "runner" /\ state = "Active"
           /\ tool' = [tool EXCEPT !.phase = "finish", !.status = "broadcasted_and_verified"]
  <2>1. BootstrapTool = "runner"
    BY <1>2, <1>5, Zenon DEF ToolSound, ToolPlaced
  <2>2. PICK s \in Final : s = "broadcasted_and_verified"
    BY Zenon DEF Final
  <2>3. StatusSound(s, tool.entries)
    BY <2>1, <2>2, <1>5, Zenon DEF StatusSound
  <2>4. Moves(tool, [tool EXCEPT !.phase = "finish", !.status = s])
    BY <2>3, <1>0, <1>2, FinishMoves, Zenon
  <2> QED
    BY <2>2, <2>4, <1>5, Zenon
<1>6. CASE tool' = Fail(tool)
  BY <1>2, <1>6, FailMoves, Zenon
<1> QED
  BY <1>3, <1>4, <1>5, <1>6, Zenon DEF Check

\* The first item of a tool.
LEMMA OpenReady ==
  ASSUME NEW t \in Tools, ToolSound(t), t.phase = "open"
  PROVE  Ready(t) /\ t.step = 0
<1>1. /\ t.step = 0 /\ t.entries = <<>> /\ t.name \in {"deploy", "rest", "runner"} /\ t.status \notin Final
  BY Zenon DEF ToolSound, ToolPlaced
<1>2. t.name \in Names
  BY <1>1, Zenon DEF Names
<1>3. t.step <= Len(Program(t.name)) /\ ~(t.step >= 1) /\ Len(<<>>) = 0
  BY <1>1, <1>2, ItemTyped
<1>4. t.name = "rest" => RestFrom(t.entries, t.step + 1)
  <2> SUFFICES ASSUME t.name = "rest" PROVE RestFrom(t.entries, t.step + 1)
    BY Zenon
  <2>1. RestFrom(t.entries, t.step)
    BY Zenon DEF ToolSound, RestSound
  <2>2. PICK n : n = t.step + 1
    BY Zenon
  <2>3. \A k \in 1..Len(RestSteps) : ~(k < n) /\ k >= t.step
    BY <2>2, <1>1
  <2>4. RestFrom(t.entries, n)
    BY <2>1, <2>3, Zenon DEF RestFrom
  <2> QED
    BY <2>2, <2>4, Zenon
<1>5. t.name = "deploy" => Len(t.entries) = t.step /\ \A d, i : Trace(d, i) => InEntries(t.entries, d, i)
  BY <1>1, <1>3, Zenon DEF ToolSound, DeployerSound
<1> QED
  BY <1>1, <1>2, <1>3, <1>4, <1>5, Zenon DEF Ready, ToolSound, ToolPlaced

\* What a tool does once it has written.
LEMMA AfterWriteMoves ==
  ASSUME NEW t \in Tools, ToolSound(t), t.phase \in Persisting
  PROVE  Moves(t, AfterWrite(t))
<1>1. CASE t.phase = "open"
  <2>1. Ready(t) /\ t.step = 0
    BY <1>1, OpenReady, Zenon
  <2>2. t.step + 1 = 1
    BY <2>1
  <2>3. AfterWrite(t) = Enter(t, t.step + 1)
    BY <1>1, <2>2, Zenon DEF AfterWrite
  <2> QED
    BY <2>1, <2>3, EnterMoves, Zenon
<1>2. CASE t.phase = "announce"
  <2>1. PICK u : u = AfterWrite(t)
    BY Zenon
  <2>2. PICK p \in Phases : p = "send"
    BY Zenon DEF Phases, Working
  <2>3. PICK a \in Addrs : a = t.addr
    BY ToolType, Zenon
  <2>4. Changed(t, [t EXCEPT !.phase = p], t.step, p, t.addr, t.status, t.entries)
    BY PhaseChange, Zenon
  <2>5. Changed(t, u, t.step, p, a, t.status, t.entries)
    BY <1>2, <2>1, <2>2, <2>3, <2>4, Zenon DEF AfterWrite
  <2>6. t.name = "deploy" /\ t.phase \in Working /\ p \in Working
        /\ p \notin {"announce", "verify", "address", "record", "wait", "open", "look", "confirm"}
    BY <1>2, <2>2, Zenon DEF ToolSound, ToolPlaced, Working
  <2>7. ToolSound(u)
    BY <2>3, <2>5, <2>6, PhaseSound, Zenon
  <2>8. Moves(t, u)
    BY <2>5, <2>6, <2>7, Zenon DEF Changed, Moves
  <2> QED
    BY <2>1, <2>8, Zenon
<1>3. CASE t.phase = "record" /\ t.name # "deploy"
  <2>1. t.phase \in Working
    BY <1>3, Zenon DEF Working
  <2>2. t.name \in Names
    BY <2>1, AtWork, Zenon
  <2>3. Ready(t)
    <3>1. t.name = "rest" => Done(ItemOf(t), t.addr) /\ ~(ItemOf(t).do = "create" /\ ItemOf(t).id \in ModuleIds)
      BY <1>3, Zenon DEF ToolSound, RestSound
    <3>2. CASE t.name = "rest"
      BY <3>1, <3>2, <2>1, RestReady, Zenon
    <3>3. CASE t.name \in {"runner", "empty"}
      BY <3>3, <2>1, BootReady, Zenon
    <3> QED
      BY <3>2, <3>3, <1>3, <2>2, Zenon DEF Names
  <2>4. AfterWrite(t) = Enter(t, t.step + 1)
    BY <1>3, Zenon DEF AfterWrite
  <2> QED
    BY <2>3, <2>4, EnterMoves, Zenon
<1>4. CASE t.phase = "record" /\ t.name = "deploy" /\ t.entries[t.step].tx = "mined"
  <2>1. PICK u : u = AfterWrite(t)
    BY Zenon
  <2>2. PICK p \in Phases : p = "verify"
    BY Zenon DEF Phases, Working
  <2>3. PICK a \in Addrs : a = t.addr
    BY ToolType, Zenon
  <2>4. Changed(t, [t EXCEPT !.phase = p], t.step, p, t.addr, t.status, t.entries)
    BY PhaseChange, Zenon
  <2>5. Changed(t, u, t.step, p, a, t.status, t.entries)
    BY <1>4, <2>1, <2>2, <2>3, <2>4, Zenon DEF AfterWrite
  <2>6. t.phase \in Working /\ p \in Working /\ p \notin {"record", "wait", "open", "look", "confirm"}
    BY <1>4, <2>2, Zenon DEF Working
  <2>7. Done(ItemOf(t), a) /\ (t.step = 1 => a = "directory")
    <3>1. Done(ItemOf(t), t.addr) /\ (t.step = 1 => t.addr = "directory")
      BY <1>4, Zenon DEF ToolSound, DeployerSound
    <3> QED
      BY <3>1, <2>3, Zenon
  <2>8. ToolSound(u)
    BY <1>4, <2>3, <2>5, <2>6, <2>7, PhaseSound, Zenon
  <2>9. Moves(t, u)
    BY <1>4, <2>5, <2>6, <2>8, Zenon DEF Changed, Moves
  <2> QED
    BY <2>1, <2>9, Zenon
<1>5. CASE t.phase = "record" /\ t.name = "deploy" /\ t.entries[t.step].tx # "mined"
  <2>1. AfterWrite(t) = Fail(t)
    BY <1>5, Zenon DEF AfterWrite
  <2>2. Moves(t, Fail(t))
    BY FailMoves, Zenon
  <2> QED
    BY <2>1, <2>2, Zenon
<1>6. CASE t.phase = "address"
  <2>1. t.name = "deploy"
    BY <1>6, Zenon DEF ToolSound, ToolPlaced
  <2>2. Ready(t)
    BY <1>6, <2>1, DeployReady, Zenon
  <2>3. AfterWrite(t) = Enter(t, t.step + 1)
    BY <1>6, Zenon DEF AfterWrite
  <2> QED
    BY <2>2, <2>3, EnterMoves, Zenon
<1>7. CASE t.phase \in {"failing", "finish"}
  <2>1. AfterWrite(t) = Idle
    BY <1>7, Zenon DEF AfterWrite
  <2> QED
    BY <2>1, IdleMoves, Zenon
<1> QED
  BY <1>1, <1>2, <1>3, <1>4, <1>5, <1>6, <1>7, Zenon DEF Persisting

\* The evidence is written.
LEMMA WriteKeeps ==
  ASSUME DeploymentInv, Write
  PROVE  DeploymentInv'
<1>0. UNCHANGED <<vars, code, pool>> /\ receipt' = receipt
  BY Zenon DEF Write
<1>1. tool \in Tools /\ ToolSound(tool) /\ receipt \in {"none", "mined", "reverted"}
  BY RunningTool, Zenon
<1>2. PICK u : u = tool'
  BY Zenon
<1>3. Moves(tool, u)
  <2>1. Moves(tool, AfterWrite(tool))
    BY <1>1, AfterWriteMoves, Zenon DEF Write
  <2>2. u = AfterWrite(tool)
    BY <1>2, Zenon DEF Write
  <2> QED
    BY <2>1, <2>2, Zenon
<1>4. u \in Tools /\ ToolSound(u) /\ u.phase # "wait"
  BY <1>3, Zenon DEF Moves
<1>5. PICK f : f = file'
  BY Zenon
<1>6. f.by = tool.name /\ f.torn = FALSE /\ f.status = tool.status /\ f.entries = tool.entries /\ f \in Files
  <2>1. f = [by |-> tool.name, torn |-> FALSE, status |-> tool.status, entries |-> tool.entries]
    BY <1>5, Zenon DEF Write
  <2>2. tool.name \in Names \cup {"none"} /\ tool.status \in Statuses /\ tool.entries \in Seq(Entries)
    BY <1>1, ToolType, Zenon
  <2>3. FALSE \in BOOLEAN
    BY Zenon
  <2> QED
    BY <2>1, <2>2, <2>3, Zenon DEF Files
<1>7. Grows /\ (\A d, i : Trace(d, i)' <=> Trace(d, i)) /\ DeploymentTyped' /\ ChainSound'
  BY <1>0, <1>1, <1>2, <1>4, <1>5, <1>6, ChainSame, Zenon
<1>8. ToolSound(u)'
  BY <1>4, <1>7, ToolGrows, Zenon
<1>9. ToolSound(tool)'
  BY <1>2, <1>8, ToolPrimed, Zenon
<1>10. WaitSound'
  BY <1>2, <1>4, Zenon DEF WaitSound
<1>11. FileTrue'
  <2>1. EntriesSound(f.entries) /\ StatusSound(f.status, f.entries)
    BY <1>1, <1>6, Zenon DEF ToolSound, EntriesSound, StatusSound, AllNamed
  <2>2. PICK e, s : e = f.entries /\ s = f.status
    BY Zenon
  <2>3. EntriesSound(e)' /\ StatusSound(s, e)'
    BY <2>1, <2>2, <1>7, EntriesGrow, StatusGrows, Zenon
  <2>4. e = file'.entries /\ s = file'.status
    BY <2>2, <1>5, Zenon
  <2>5. EntriesSound(file.entries)' /\ StatusSound(file.status, file.entries)'
    BY <2>3, <2>4, Zenon DEF EntriesSound, StatusSound, AllNamed
  <2> QED
    BY <2>5, Zenon DEF FileTrue
<1>12. FileComplete'
  <2> SUFFICES ASSUME f.by = "deploy"
               PROVE  /\ \A d, i : Trace(d, i)' => InEntries(f.entries, d, i)
                      /\ u.name = "deploy" /\ u.phase \notin {"open", "announce"} =>
                           \A d, i : InEntries(u.entries, d, i) => InEntries(f.entries, d, i)
    <3>1. u.name # "none" => f.by = u.name
      BY <1>3, <1>6, Zenon DEF Moves
    <3> QED
      BY <1>2, <1>5, <3>1, Zenon DEF FileComplete
  <2>1. \A d, i : Trace(d, i) => InEntries(tool.entries, d, i)
    BY <1>1, <1>6, Zenon DEF ToolSound, DeployerSound
  <2>2. \A d, i : Trace(d, i)' => InEntries(f.entries, d, i)
    BY <2>1, <1>6, <1>7, Zenon
  <2>3. u.name = "deploy" /\ u.phase \notin {"open", "announce"} =>
          \A d, i : InEntries(u.entries, d, i) => InEntries(f.entries, d, i)
    BY <1>3, <1>6, Zenon DEF Moves
  <2> QED
    BY <2>2, <2>3, Zenon
<1> QED
  BY <1>7, <1>9, <1>10, <1>11, <1>12, Zenon DEF DeploymentInv

\* A step that leaves the file truncated.
LEMMA TornKeeps ==
  ASSUME DeploymentInv, UNCHANGED <<vars, code, pool, receipt>>, NEW n \in Names \cup {"none"}, file' = Torn(n),
         NEW u \in Tools, u = tool', ToolSound(u), u.phase # "wait",
         u.name # "none" => u.name = n
  PROVE  DeploymentInv'
<1>0. UNCHANGED <<vars, code, pool>> /\ receipt' = receipt
  BY Zenon
<1>1. receipt \in {"none", "mined", "reverted"}
  BY RunningTool, Zenon
<1>2. file' \in Files /\ file'.torn = TRUE /\ file'.by = n
  <2>1. <<>> \in Seq(Entries) /\ "none" \in Statuses /\ TRUE \in BOOLEAN
    BY DEF Statuses
  <2> QED
    BY <2>1 DEF Torn, Files
<1>3. Grows /\ (\A d, i : Trace(d, i)' <=> Trace(d, i)) /\ DeploymentTyped' /\ ChainSound'
  BY <1>0, <1>1, <1>2, ChainSame, Zenon
<1>4. ToolSound(u)'
  BY <1>3, ToolGrows, Zenon
<1>5. ToolSound(tool)'
  BY <1>4, ToolPrimed, Zenon
<1>6. WaitSound' /\ FileTrue' /\ FileComplete'
  BY <1>2, Zenon DEF WaitSound, FileTrue, FileComplete
<1> QED
  BY <1>3, <1>5, <1>6, Zenon DEF DeploymentInv

\* The evidence is truncated.
LEMMA TruncateKeeps ==
  ASSUME DeploymentInv, Truncate
  PROVE  DeploymentInv'
<1>1. UNCHANGED <<vars, code, pool, receipt>> /\ tool' = tool /\ tool.phase # "wait" /\ file' = Torn(tool.name)
  BY Zenon DEF Truncate, Persisting
<1>2. PICK u : u = tool
  BY Zenon
<1>3. u \in Tools /\ ToolSound(u) /\ u = tool' /\ u.phase # "wait"
  BY <1>1, <1>2, RunningTool, Zenon
<1>4. PICK n \in Names \cup {"none"} : n = tool.name
  BY <1>2, <1>3, ToolType, Zenon
<1>5. file' = Torn(n)
  BY <1>1, <1>4, Zenon
<1>6. u.name # "none" => u.name = n
  BY <1>2, <1>4, Zenon
<1> QED
  BY <1>1, <1>3, <1>5, <1>6, TornKeeps, Zenon

\* Where there is no directory and none to come, there is nothing.
LEMMA NothingYet ==
  ASSUME DeploymentInv, "directory" \notin code, ~Pending("directory"), NEW d, NEW i
  PROVE  ~Trace(d, i)
<1> SUFFICES ASSUME Trace(d, i) PROVE FALSE
  BY Zenon
<1>1. d = "create" /\ i = "directory"
  BY RunningTool, Zenon DEF ChainSound
<1>2. ~(\E k \in 1..Len(pool) : pool[k].do = "create" /\ pool[k].id = "directory")
  BY Zenon DEF Pending
<1>3. \A c \in code : CreatedFor(c) # "directory"
  <2> TAKE c \in code
  <2>1. CASE c \in Contracts
    BY <2>1, Parts, Zenon DEF CreatedFor
  <2>2. CASE c \notin Contracts
    BY <2>2, Zenon DEF CreatedFor
  <2> QED
    BY <2>1, <2>2, Zenon
<1> QED
  BY <1>1, <1>2, <1>3, Zenon DEF Trace

\* The operator starts a tool.
LEMMA StartKeeps ==
  ASSUME DeploymentInv, Start
  PROVE  DeploymentInv'
<1>1. UNCHANGED <<vars, code, pool, receipt>> /\ file' = Torn(Chosen) /\ ~Pending("directory")
  BY Zenon DEF Start
<1>2. PICK n : n = Chosen
  BY Zenon
<1>3. /\ n \in Names
      /\ n = "deploy" => "directory" \notin code
      /\ n # "deploy" => "directory" \in code
      /\ n \in {"runner", "empty"} => n = BootstrapTool
  BY <1>2, DeploymentAssumption, Zenon DEF Chosen, Names
<1>4. PICK t : t = [Idle EXCEPT !.name = n, !.status = "broadcasting"]
  BY Zenon
<1>5. /\ t \in Tools /\ t.name = n /\ t.step = 0 /\ t.status = "broadcasting" /\ t.entries = <<>>
  <2>1. Idle \in Tools
    BY IdleMoves, Zenon DEF Moves
  <2>2. n \in Names \cup {"none"} /\ "broadcasting" \in Statuses
    BY <1>3, Zenon DEF Statuses
  <2>3. Idle.step = 0 /\ Idle.entries = <<>>
    BY DEF Idle
  <2> QED
    BY <1>4, <2>1, <2>2, <2>3, Zenon DEF Tools
<1>6. EntriesSound(t.entries)
  <2>1. \A k \in 1..Len(<<>>) : FALSE
    OBVIOUS
  <2> QED
    BY <1>5, <2>1, Zenon DEF EntriesSound
<1>7. PICK u : u = tool'
  BY Zenon
<1>8. CASE n = "empty"
  <2>1. Len(Program("empty")) \in Nat
    BY <1>8, <1>3, ItemTyped, Zenon
  <2>2. t.step <= Len(Program("empty")) /\ t.step + 1 = 1
    BY <1>5, <2>1
  <2>3. Ready(t)
    BY <1>3, <1>5, <1>6, <1>8, <2>2, Zenon DEF Ready, Final
  <2>4. u = Enter(t, t.step + 1)
    BY <1>2, <1>4, <1>7, <1>8, <2>2, Zenon DEF Start
  <2>5. Moves(t, Enter(t, t.step + 1))
    BY <1>5, <2>3, EnterMoves, Zenon
  <2>6. Moves(t, u)
    BY <2>4, <2>5, Zenon
  <2>7. u \in Tools /\ ToolSound(u) /\ u.phase # "wait" /\ (u.name # "none" => u.name = n)
    BY <1>5, <2>6, Zenon DEF Moves
  <2>8. n \in Names \cup {"none"} /\ file' = Torn(n)
    BY <1>1, <1>2, <1>3, Zenon
  <2> QED
    BY <1>1, <1>7, <2>7, <2>8, TornKeeps, Zenon
<1>9. CASE n # "empty"
  <2>1. PICK p \in Phases : p = "open"
    BY Zenon DEF Phases
  <2>2. Changed(t, [t EXCEPT !.phase = p], t.step, p, t.addr, t.status, t.entries)
    BY <1>5, PhaseChange, Zenon
  <2>3. u = [t EXCEPT !.phase = p]
    BY <1>2, <1>4, <1>7, <1>9, <2>1, Zenon DEF Start
  <2>4. /\ u \in Tools /\ u.name = n /\ u.step = 0 /\ u.phase = "open" /\ u.status = "broadcasting"
        /\ u.entries = t.entries /\ u.entries = <<>>
    BY <1>5, <2>1, <2>2, <2>3, Zenon DEF Changed
  <2>5. ToolPlaced(u)
    BY <1>3, <1>9, <2>4, Zenon DEF ToolPlaced, Names, Working, Final
  <2>6. DeployerSound(u)
    <3>1. n = "deploy" => \A d, i : ~Trace(d, i)
      BY <1>1, <1>3, NothingYet, Zenon
    <3>2. ~(u.step >= 2) /\ u.step # 1
      BY <2>4
    <3> QED
      BY <2>4, <3>1, <3>2, Zenon DEF DeployerSound, Working
  <2>7. RestSound(u)
    <3>1. \A id : Named(u.entries, id) = {}
      <4>1. \A k \in 1..Len(<<>>) : FALSE
        OBVIOUS
      <4> QED
        BY <2>4, <4>1, Zenon DEF Named
    <3>2. \A k \in 1..Len(RestSteps) : ~(k < 0)
      BY RestItems, Orders
    <3>3. RestFrom(u.entries, u.step)
      BY <3>1, <3>2, <2>4, Zenon DEF RestFrom
    <3> QED
      BY <2>4, <3>3, Zenon DEF RestSound
  <2>8. HandSound(u) /\ EntriesSound(u.entries) /\ StatusSound(u.status, u.entries)
    BY <1>6, <2>4, Zenon DEF HandSound, StatusSound, Working
  <2>9. ToolSound(u) /\ u.phase # "wait" /\ (u.name # "none" => u.name = n)
    BY <2>4, <2>5, <2>6, <2>7, <2>8, Zenon DEF ToolSound
  <2>10. n \in Names \cup {"none"} /\ file' = Torn(n)
    BY <1>1, <1>2, <1>3, Zenon
  <2> QED
    BY <1>1, <1>7, <2>4, <2>9, <2>10, TornKeeps, Zenon
<1> QED
  BY <1>8, <1>9, Zenon

=============================================================================

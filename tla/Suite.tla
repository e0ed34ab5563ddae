-------------------------------- MODULE Suite --------------------------------
(***************************************************************************)
(* The suite at work: RepositoryCore, RecoveryModule, EconomicModule and   *)
(* ModerationModule, joined by the calls they make on each other inside    *)
(* one transaction.  The modules are filled from a snapshot in the order   *)
(* of the required modules and serve their functions once the suite is     *)
(* active; module SuiteBootstrap has the machinery behind stage.           *)
(***************************************************************************)
EXTENDS RecoveryModule, EconomicModule, ModerationModule

CONSTANTS
  Creators,   \* accounts that create and fork repositories
  MaxImports  \* bound on the number of snapshot records

ASSUME SuiteAssumption == Creators \subseteq Accounts /\ MaxImports \in Nat

VARIABLES
  stage,    \* the module being imported, or ActiveStage
  imported  \* number of records imported so far

CoreStage == 1
RecoveryStage == 2
ModerationStage == 3
EconomicStage == 4
ActiveStage == 8

suiteVars == <<stage, imported>>
vars == <<coreVars, recoveryVars, economicVars, moderationVars, suiteVars>>

\* The type of the contracts' storage, with lists and nonces within the limits that
\* the contracts enforce.
TypeOK ==
  /\ CoreTypeOK
  /\ RecoveryTypeOK
  /\ EconomicTypeOK
  /\ ModerationTypeOK
  /\ stage \in 1..ActiveStage
  /\ imported \in Nat

Init ==
  /\ CoreInit
  /\ RecoveryInit
  /\ EconomicInit
  /\ ModerationInit
  /\ stage = 1
  /\ imported = 0

PackArguments == SUBSET Packs \ {{}}

-----------------------------------------------------------------------------
(* Import                                                                  *)

ImportCore ==
  /\ stage = CoreStage
  /\ \/ \E r \in RepoIds, a \in Accounts, n \in Names, source \in RepoIds \cup {NoRepo} :
          \E timestamp \in 1..now : ImportRepository(r, a, n, source, timestamp)
     \/ \E r \in RepoIds, l \in Locators : ImportAlias(r, l)
     \/ \E r \in RepoIds, f \in Refs, sha \in Shas, p \in PackArguments :
          \E timestamp \in 1..now, a \in Accounts :
            StoreImportedRef(r, f, sha, p, timestamp, a)
     \/ \E r \in RepoIds, a \in CollaboratorAccounts, role \in Roles :
          StoreImportedCollaborator(r, a, role)
  /\ UNCHANGED <<recoveryVars, economicVars, moderationVars>>

ImportRecovery ==
  /\ stage = RecoveryStage
  /\ \E r \in RepoIds, g \in SUBSET GuardianAccounts, t \in 1..Cardinality(GuardianAccounts) :
       ImportGuardianConfig(r, g, t)
  /\ UNCHANGED <<coreVars, economicVars, moderationVars>>

ImportModeration ==
  /\ stage = ModerationStage
  /\ \/ \E r \in RepoIds, s \in Statuses : ImportStatus(r, s)
     \/ \E id \in ReportIds, r \in RepoIds, a \in Accounts, n \in 1..4, s \in Statuses :
          \E decisions \in [1..n -> Statuses] : StoreImportedReport(id, r, a, n, decisions, s)
     \/ \E r \in RepoIds, n \in 1..MaxTrail :
          \E trail \in [1..n -> StatusTrailEntry] : StoreImportedStatusTrail(r, trail)
  /\ UNCHANGED <<coreVars, recoveryVars, economicVars>>

ImportEconomic ==
  /\ stage = EconomicStage
  /\ \E r \in RepoIds, list \in SplitLists : ImportSplits(r, list)
  /\ UNCHANGED <<coreVars, recoveryVars, moderationVars>>

BootstrapImport ==
  /\ imported < MaxImports
  /\ imported' = imported + 1
  /\ ImportCore \/ ImportRecovery \/ ImportModeration \/ ImportEconomic
  /\ UNCHANGED stage

\* finalizeCurrentModule, and activateSuite after the last module.
FinalizeModule ==
  /\ stage < ActiveStage
  /\ stage' = stage + 1
  /\ UNCHANGED <<coreVars, recoveryVars, economicVars, moderationVars, imported>>

-----------------------------------------------------------------------------
(* The functions of the active suite                                       *)

CoreCall(caller) ==
  /\ \/ \E n \in Names : caller \in Creators /\ CreateRepository(caller, n)
     \/ \E source \in RepoIds, n \in Names :
          caller \in Creators /\ ForkRepository(caller, source, n, RequireActiveRepository(source))
     \/ \E r \in RepoIds : UpdateMetadata(caller, r)
     \/ \E r \in RepoIds, f \in Refs, sha \in Shas, p \in PackArguments :
          \E expected \in Shas \cup {NoSha}, force \in BOOLEAN :
            UpdateRef(caller, r, f, sha, p, expected, force, NotFrozen(r))
     \/ \E r \in RepoIds, f \in Refs : DeleteRef(caller, r, f, NotFrozen(r))
     \/ \E r \in RepoIds, a \in CollaboratorAccounts, role \in Roles :
          SetCollaborator(caller, r, a, role)
     \/ \E r \in RepoIds, a \in TransferTargets :
          BeginOwnershipTransfer(caller, r, a, HasPendingRecovery(r))
     \/ \E r \in RepoIds : CancelOwnershipTransfer(caller, r)
     \/ \E r \in RepoIds : ExpireOwnershipTransfer(r)
  /\ UNCHANGED <<recoveryVars, economicVars, moderationVars>>

RecoveryCall(caller) ==
  /\ \/ \E r \in RepoIds, g \in SUBSET GuardianAccounts, t \in 1..Cardinality(GuardianAccounts) :
          SetGuardians(caller, r, g, t)
     \/ \E r \in RepoIds, a \in TransferTargets : ProposeRecovery(caller, r, a)
     \/ \E r \in RepoIds : ApproveRecovery(caller, r)
     \/ \E r \in RepoIds : CancelRecovery(caller, r)
  /\ UNCHANGED <<coreVars, economicVars, moderationVars>>

\* clearRevenueSplitsOnOwnershipTransfer: the hook every change of owner runs.
OwnershipHook(r) ==
  /\ ClearRevenueSplits(r)
  /\ ClearRecovery(r)

AcceptTransfer(caller) ==
  /\ \E r \in RepoIds : AcceptOwnershipTransfer(caller, r) /\ OwnershipHook(r)
  /\ UNCHANGED moderationVars

ExecuteRecovery(caller) ==
  /\ \E r \in RepoIds :
       /\ RecoveryExecutable(caller, r)
       /\ RecoverOwnership(r, caller)
       /\ OwnershipHook(r)
  /\ UNCHANGED moderationVars

EconomicCall(caller) ==
  /\ \E r \in RepoIds, list \in SplitLists : SetRevenueSplits(caller, r, list)
  /\ UNCHANGED <<coreVars, recoveryVars, moderationVars>>

ModerationCall(caller) ==
  /\ \/ \E a \in CommitteeAccounts : SetCommittee(caller, a) /\ UNCHANGED coreVars
     \/ \E r \in RepoIds, s \in Statuses : SetRepositoryStatus(caller, r, s)
     \/ \E r \in RepoIds : SubmitReport(caller, r)
     \/ \E id \in ReportIds, s \in Statuses : ResolveReport(caller, id, s)
     \/ \E id \in ReportIds : AppealReport(caller, id)
     \/ \E id \in ReportIds, s \in Statuses : ResolveAppeal(caller, id, s)
  /\ UNCHANGED <<recoveryVars, economicVars>>

ActiveCall ==
  /\ stage = ActiveStage
  /\ \E caller \in Accounts :
       \/ CoreCall(caller)
       \/ RecoveryCall(caller)
       \/ AcceptTransfer(caller)
       \/ ExecuteRecovery(caller)
       \/ EconomicCall(caller)
       \/ ModerationCall(caller)
  /\ UNCHANGED suiteVars

ClockTick == Tick /\ UNCHANGED <<recoveryVars, economicVars, moderationVars, suiteVars>>

Next ==
  \/ BootstrapImport
  \/ FinalizeModule
  \/ ActiveCall
  \/ ClockTick

Spec == Init /\ [][Next]_vars
-----------------------------------------------------------------------------
(* Ownership and identity                                                  *)

\* A pending ownership transfer and a pending guardian recovery never exist
\* together: beginOwnershipTransfer and proposeRecovery each ask the other
\* module, an expired proposal that nobody cancelled included.
TransferRecoveryExclusive ==
  \A r \in RepoIds : pending[r].newOwner # NoAccount => proposals[r].newOwner = NoAccount

\* No guardian, proposal or revenue split outlives the owner who set it:
\* a stored configuration is the present owner's, a proposal has one behind it,
\* the new owner is not the present one, and no split pays the present owner.
PrivilegesFollowOwner ==
  \A r \in RepoIds :
    /\ configs[r].threshold # 0 => Exists(r) /\ configs[r].configuredBy = owner[r]
    /\ HasPendingRecovery(r) => configs[r].threshold # 0 /\ proposals[r].newOwner # owner[r]
    /\ owner[r] \notin configs[r].guardians
    /\ \A i \in 1..Len(splits[r]) : splits[r][i].recipient # owner[r]

\* The approvals of a proposal are distinct guardians of the configuration the
\* threshold comes from, across cancelled, replaced and repeated proposals.
ApprovalsCounted ==
  \A r \in RepoIds :
    /\ isGuardian[r] = configs[r].guardians
    /\ \A n \in 1..MaxNonce : n > proposalNonce[r] => approved[r][n] = {}
    /\ HasPendingRecovery(r) =>
         /\ proposals[r].nonce = proposalNonce[r]
         /\ approved[r][proposals[r].nonce] \subseteq configs[r].guardians
         /\ proposals[r].approvals = Cardinality(approved[r][proposals[r].nonce])

\* The owner changes only to the account a transfer was offered to, inside the
\* transfer's window, or to the account that a threshold of the old owner's
\* guardians approved, inside the proposal's; nothing of either is left behind.
OwnershipMoves(r) ==
  /\ \/ /\ owner'[r] = pending[r].newOwner
        /\ pending[r].executeAfter <= now /\ now <= pending[r].expiresAt
     \/ /\ owner'[r] = proposals[r].newOwner
        /\ proposals[r].executeAfter <= now /\ now <= proposals[r].expiresAt
        /\ Cardinality(approved[r][proposals[r].nonce] \cap configs[r].guardians)
             >= configs[r].threshold
  /\ pending'[r] = NoTransfer
  /\ proposals'[r] = NoProposal
  /\ configs'[r] = NoConfig
  /\ isGuardian'[r] = {}
  /\ splits'[r] = <<>>

OwnershipMovesByConsent ==
  [][\A r \in RepoIds : Exists(r) /\ owner'[r] # owner[r] => OwnershipMoves(r)]_vars

\* A locator, once it names a repository, names it for ever: transfers,
\* recoveries and later creations never reassign an alias.
AliasesNeverReassigned ==
  [][\A l \in Locators : locators[l] # NoRepo => locators'[l] = locators[l]]_vars

-----------------------------------------------------------------------------
(* Refs, collaborators and moderation                                      *)

\* While a repository is frozen its refs stand still, and nobody forks it
\* unless it is active, whichever account acts and whatever role it has.
FrozenRefsImmutable ==
  [][stage = ActiveStage =>
       \A r \in RepoIds :
         /\ statuses[r] = "Frozen" => refs'[r] = refs[r] /\ refNames'[r] = refNames[r]
         /\ \A s \in RepoIds : ~Exists(s) /\ forkedFrom'[s] = r => statuses[r] = "Active"]_vars

\* A ref changes only under the hand of the owner or a maintainer, who is
\* recorded with the time, and the repository's updatedAt follows.
RefChangesRecorded ==
  [][stage = ActiveStage =>
       \A r \in RepoIds, f \in Refs :
         Exists(r) /\ refs'[r][f] # refs[r][f] =>
           /\ updatedAt'[r] = now
           /\ refs'[r][f] # NoRef =>
                /\ refs'[r][f].updatedAt = now
                /\ LET by == refs'[r][f].updatedBy IN
                   by = owner[r] \/ roles[r][by] = "Maintainer"]_vars

\* The status of a repository is the last decision of its trail, and a trail
\* entry that names a report names one about this repository.
StatusMatchesTrail ==
  \A r \in RepoIds :
    LET trail == statusTrails[r] IN
    /\ trail # <<>> => trail[Len(trail)].status = statuses[r]
    /\ trail = <<>> => statuses[r] = "Active" \/ r \in importedStatuses
    /\ \A i \in 1..Len(trail) :
         trail[i].reportId # 0 => reports[trail[i].reportId].repoId = r

\* The trail of a report is the prefix of submitted, resolved, appealed,
\* appeal resolved that its status stands for; its last entry carries the
\* resolution; an appeal leaves the resolution it is about in place; and
\* nextReportId is above every report in use, imported ones included.
ReportTrailMatchesStatus ==
  \A id \in ReportIds :
    LET n == Len(trails[id]) IN
    /\ n <= Len(ReportActions)
    /\ reports[id].status = IF n = 0 THEN "NoReport" ELSE ReportStates[n]
    /\ n # 0 => trails[id][n].status = reports[id].resolution /\ id < nextReportId
    /\ \A i \in 1..n : trails[id][i].action = ReportActions[i]
    /\ n > 2 => trails[id][3].status = trails[id][2].status

-----------------------------------------------------------------------------
\* Who owns a repository, what its URLs name and who else may move it agree with
\* each other in all of the contracts' storage.
OwnershipInvariant ==
  /\ TransferRecoveryExclusive
  /\ CanonicalLocatorResolves
  /\ ReservationMatchesTransfer
  /\ OwnerIndexExact
  /\ PrivilegesFollowOwner
  /\ ApprovalsCounted

\* The lists of refs and collaborators are exact through every removal, and the
\* two audit trails of ModerationModule tell how the statuses came about.
RecordsInvariant ==
  /\ RefNamesExact
  /\ CollaboratorIndexExact
  /\ StatusMatchesTrail
  /\ ReportTrailMatchesStatus

\* Everything above that is about states.  A snapshot that passes the checks
\* of the import functions establishes it record by record, and the functions
\* of the active suite keep it from there.
SuiteInvariant == OwnershipInvariant /\ RecordsInvariant
=============================================================================

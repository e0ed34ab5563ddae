---------------------------- MODULE RecoveryModule ----------------------------
(***************************************************************************)
(* The RecoveryModule contract: the owner names guardians and a threshold, *)
(* a guardian proposes a new owner, guardians approve, and the new owner   *)
(* executes inside a time window.  It reads the repository's owner and     *)
(* pending transfer from RepositoryCore.                                   *)
(***************************************************************************)
EXTENDS RepositoryCore

CONSTANTS
  GuardianAccounts, \* accounts offered to setGuardians
  MaxGuardians,     \* MAX_GUARDIANS
  MaxNonce          \* bound on _proposalNonces

ASSUME RecoveryAssumption ==
  /\ GuardianAccounts \subseteq Accounts \cup {NoAccount}
  /\ MaxGuardians \in Nat
  /\ MaxNonce \in Nat

VARIABLES
  configs,        \* _configs
  isGuardian,     \* _isGuardian, the set of enabled guardians
  proposals,      \* _proposals
  approved,       \* _approvals, the set of approving guardians per nonce
  proposalNonce   \* _proposalNonces

recoveryVars == <<configs, isGuardian, proposals, approved, proposalNonce>>

NoConfig == [configuredBy |-> NoAccount, threshold |-> 0, guardians |-> {}]
NoProposal == [proposedBy |-> NoAccount, newOwner |-> NoAccount, executeAfter |-> 0,
               expiresAt |-> 0, nonce |-> 0, approvals |-> 0]

GuardianConfig == [configuredBy: Accounts \cup {NoAccount}, threshold: Nat,
                   guardians: SUBSET Accounts]
Proposal == [proposedBy: Accounts \cup {NoAccount}, newOwner: Accounts \cup {NoAccount},
             executeAfter: Nat, expiresAt: Nat, nonce: Nat, approvals: Nat]

RecoveryTypeOK ==
  /\ configs \in [RepoIds -> GuardianConfig]
  /\ isGuardian \in [RepoIds -> SUBSET Accounts]
  /\ proposals \in [RepoIds -> Proposal]
  /\ approved \in [RepoIds -> [1..MaxNonce -> SUBSET Accounts]]
  /\ proposalNonce \in [RepoIds -> 0..MaxNonce]

RecoveryInit ==
  /\ configs = [r \in RepoIds |-> NoConfig]
  /\ isGuardian = [r \in RepoIds |-> {}]
  /\ proposals = [r \in RepoIds |-> NoProposal]
  /\ approved = [r \in RepoIds |-> [n \in 1..MaxNonce |-> {}]]
  /\ proposalNonce = [r \in RepoIds |-> 0]

\* Mutant: an expired proposal counts as gone.
HasPendingRecovery_Unexpired(r) ==
  proposals[r].newOwner # NoAccount /\ now <= proposals[r].expiresAt

HasPendingRecovery(r) == proposals[r].newOwner # NoAccount

\* What _activeConfig requires of the stored configuration.
ActiveConfig(r) == configs[r].threshold # 0 /\ configs[r].configuredBy = owner[r]

\* Only the guardians the stored list names are disabled.
ClearedGuardians(r) == isGuardian[r] \ configs[r].guardians

\* Mutant: the zero address may be a guardian.
GuardiansAllowed_Zero(guardians, a) == a \notin guardians

GuardiansAllowed(guardians, a) == NoAccount \notin guardians /\ a \notin guardians

\* guardians is the argument list: no zero address, no owner, no duplicate.
StoreGuardians(r, guardians, threshold) ==
  /\ guardians # {} /\ Cardinality(guardians) <= MaxGuardians
  /\ threshold \in 1..Cardinality(guardians)
  /\ GuardiansAllowed(guardians, owner[r])
  /\ ClearedGuardians(r) \cap guardians = {}
  /\ configs' = [configs EXCEPT ![r] =
       [configuredBy |-> owner[r], threshold |-> threshold, guardians |-> guardians]]
  /\ isGuardian' = [isGuardian EXCEPT ![r] = ClearedGuardians(r) \cup guardians]

SetGuardians(caller, r, guardians, threshold) ==
  /\ Exists(r)
  /\ caller = owner[r]
  /\ StoreGuardians(r, guardians, threshold)
  /\ proposals' = [proposals EXCEPT ![r] = NoProposal]
  /\ UNCHANGED <<approved, proposalNonce>>

ProposeRecovery(caller, r, newOwner) ==
  /\ Exists(r)
  /\ ActiveConfig(r)
  /\ caller \in isGuardian[r]
  /\ newOwner \notin {NoAccount, owner[r]}
  /\ ~HasPendingRecovery(r)
  /\ pending[r].newOwner = NoAccount
  /\ proposalNonce[r] < MaxNonce
  /\ proposalNonce' = [proposalNonce EXCEPT ![r] = @ + 1]
  /\ proposals' = [proposals EXCEPT ![r] =
       [proposedBy |-> caller, newOwner |-> newOwner,
        executeAfter |-> now + TransferDelay,
        expiresAt |-> now + TransferDelay + TransferWindow,
        nonce |-> proposalNonce[r] + 1, approvals |-> 1]]
  /\ approved' = [approved EXCEPT ![r][proposalNonce[r] + 1] = @ \cup {caller}]
  /\ UNCHANGED <<configs, isGuardian>>

OneMoreApproval(p) ==
  [proposedBy |-> p.proposedBy, newOwner |-> p.newOwner, executeAfter |-> p.executeAfter,
   expiresAt |-> p.expiresAt, nonce |-> p.nonce, approvals |-> p.approvals + 1]

ApproveRecovery(caller, r) ==
  /\ Exists(r)
  /\ ActiveConfig(r)
  /\ HasPendingRecovery(r)
  /\ now <= proposals[r].expiresAt
  /\ caller \in isGuardian[r]
  /\ caller \notin approved[r][proposals[r].nonce]
  /\ approved' = [approved EXCEPT ![r][proposals[r].nonce] = @ \cup {caller}]
  /\ proposals' = [proposals EXCEPT ![r] = OneMoreApproval(@)]
  /\ UNCHANGED <<configs, isGuardian, proposalNonce>>

\* cancelRecovery called by the owner or the nominated owner.
CancelRecovery(caller, r) ==
  /\ Exists(r)
  /\ HasPendingRecovery(r)
  /\ caller \in {owner[r], proposals[r].newOwner}
  /\ proposals' = [proposals EXCEPT ![r] = NoProposal]
  /\ UNCHANGED <<configs, isGuardian, approved, proposalNonce>>

\* cancelRecovery called by EconomicModule, and the clean-up executeRecovery
\* does before it calls Core: guardians and proposal go with the old owner.
ClearRecovery(r) ==
  /\ isGuardian' = [isGuardian EXCEPT ![r] = ClearedGuardians(r)]
  /\ configs' = [configs EXCEPT ![r] = NoConfig]
  /\ proposals' = [proposals EXCEPT ![r] = NoProposal]
  /\ UNCHANGED <<approved, proposalNonce>>

\* Mutant: one approval short of the threshold.
RecoveryExecutable_OneShort(caller, r) ==
  /\ ActiveConfig(r)
  /\ caller = proposals[r].newOwner
  /\ proposals[r].executeAfter <= now /\ now <= proposals[r].expiresAt
  /\ proposals[r].approvals + 1 >= configs[r].threshold

\* The conditions executeRecovery checks; Suite joins the calls it makes.
RecoveryExecutable(caller, r) ==
  /\ Exists(r)
  /\ ActiveConfig(r)
  /\ HasPendingRecovery(r)
  /\ caller = proposals[r].newOwner
  /\ proposals[r].executeAfter <= now /\ now <= proposals[r].expiresAt
  /\ proposals[r].approvals >= configs[r].threshold

ImportGuardianConfig(r, guardians, threshold) ==
  /\ Exists(r)
  /\ configs[r].threshold = 0
  /\ StoreGuardians(r, guardians, threshold)
  /\ UNCHANGED <<proposals, approved, proposalNonce>>
=============================================================================

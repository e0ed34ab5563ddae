---------------------------- MODULE SuiteProofs -------------------------------
(***************************************************************************)
(* The theorems about the suite.  The inductive invariant joins the type   *)
(* invariant, the locators and their reservations, the lists that are      *)
(* kept by swap-and-pop, the privileges of the owner, and the audit trails *)
(* of moderation: the type of a list after a removal rests on its indexes  *)
(* being exact, and the indexes of the owners' lists rest on a transfer    *)
(* never going to the owner.  The last part is about sponsorships: what is *)
(* sponsored is received or still held, to the last unit.                  *)
(***************************************************************************)
EXTENDS SuiteStepProofs, ModuleProofs

USE CoreAssumption, NoRepoAssumption

-----------------------------------------------------------------------------
(* Guardians, recovery proposals and revenue splits follow the owner       *)

\* The facts on cardinality that counting approvals rests on, for no guardian,
\* the proposer and one guardian more; SetsAreCounted discharges them.
CountedSets ==
  /\ IsFiniteSet({})
  /\ \A x : IsFiniteSet({x}) /\ Cardinality({x}) = 1
  /\ \A S, x : IsFiniteSet(S) /\ x \notin S =>
               IsFiniteSet(S \cup {x}) /\ Cardinality(S \cup {x}) = Cardinality(S) + 1

\* The guardians of a repository: set by the present owner, who is not one of
\* them, and no guardians without a threshold.
GuardiansOf(r) ==
  /\ configs[r].threshold # 0 => Exists(r) /\ configs[r].configuredBy = owner[r]
  /\ configs[r].threshold = 0 => configs[r].guardians = {}
  /\ owner[r] \notin configs[r].guardians
  /\ isGuardian[r] = configs[r].guardians

\* Its splits: none before it exists, and none to the owner.
SplitsOf(r) ==
  /\ Len(splits[r]) # 0 => Exists(r)
  /\ \A i \in 1..Len(splits[r]) : splits[r][i].recipient # owner[r]

\* Its proposal: never beside an offer, and made under a guardian configuration
\* and a nonce.
ProposalOf(r) ==
  /\ pending[r].newOwner # NoAccount => ~HasPendingRecovery(r)
  /\ HasPendingRecovery(r) => /\ configs[r].threshold # 0
                              /\ proposals[r].newOwner # owner[r]
                              /\ proposalNonce[r] # 0

\* The approvals of each nonce: finitely many, none of nonces to come, and of a
\* proposal counted from its guardians.
ApprovalsOf(r) ==
  /\ \A n \in 1..MaxNonce : IsFiniteSet(approved[r][n])
  /\ \A n \in 1..MaxNonce : n > proposalNonce[r] => approved[r][n] = {}
  /\ HasPendingRecovery(r) =>
       /\ proposals[r].nonce = proposalNonce[r]
       /\ approved[r][proposals[r].nonce] \subseteq configs[r].guardians
       /\ proposals[r].approvals = Cardinality(approved[r][proposals[r].nonce])

\* What TransferRecoveryExclusive, PrivilegesFollowOwner and ApprovalsCounted
\* say of one repository, with what makes it inductive.
PrivilegesOf(r) == GuardiansOf(r) /\ SplitsOf(r) /\ ProposalOf(r) /\ ApprovalsOf(r)

PrivilegeInv == TypeOK /\ \A r \in RepoIds : PrivilegesOf(r)

\* The invariant contains the three properties of the runs.
LEMMA PrivilegeInvImplies ==
  ASSUME PrivilegeInv
  PROVE  TransferRecoveryExclusive /\ PrivilegesFollowOwner /\ ApprovalsCounted
<1>1. TransferRecoveryExclusive
  BY Zenon DEF PrivilegeInv, PrivilegesOf, ProposalOf, HasPendingRecovery, TransferRecoveryExclusive
<1>2. PrivilegesFollowOwner
  BY Zenon DEF PrivilegeInv, PrivilegesOf, GuardiansOf, ProposalOf, SplitsOf, PrivilegesFollowOwner
<1>3. ApprovalsCounted
  BY Zenon DEF PrivilegeInv, PrivilegesOf, GuardiansOf, ApprovalsOf, ApprovalsCounted
<1> QED
  BY <1>1, <1>2, <1>3

\* A step that leaves a repository's owner, offer, guardians, proposal and
\* splits alone leaves what is said of it true.
LEMMA SamePrivileges ==
  ASSUME NEW r \in RepoIds, PrivilegesOf(r),
         owner'[r] = owner[r], pending'[r] = pending[r], configs'[r] = configs[r],
         isGuardian'[r] = isGuardian[r], proposals'[r] = proposals[r],
         approved'[r] = approved[r], proposalNonce'[r] = proposalNonce[r],
         splits'[r] = splits[r]
  PROVE  PrivilegesOf(r)'
BY Zenon DEF PrivilegesOf, GuardiansOf, SplitsOf, ProposalOf, ApprovalsOf, HasPendingRecovery, Exists

\* createRepository, forkRepository and the import of a repository: the new
\* owner finds no guardians, proposal or splits.
LEMMA CreateKeepsPrivileges ==
  ASSUME PrivilegeInv, CreateStep, NEW s \in RepoIds
  PROVE  PrivilegesOf(s)'
<1>1. PICK r \in RepoIds, a \in Accounts, n \in Names, source \in RepoIds \cup {NoRepo}, t \in Nat :
        StoreRepository(r, a, n, source, t)
  BY Zenon DEF CreateStep
<1>2. /\ ~Exists(r)
      /\ owner'[s] = IF s = r THEN a ELSE owner[s]
      /\ pending' = pending
      /\ UNCHANGED <<recoveryVars, splits>>
  BY <1>1, ZenonT(60) DEF StoreRepository, PrivilegeInv, TypeOK, CoreTypeOK, CreateStep
<1>3. PrivilegesOf(s)
  BY Zenon DEF PrivilegeInv
<1>4. CASE s # r
  BY <1>2, <1>3, <1>4, SamePrivileges, Zenon DEF recoveryVars
<1>5. CASE s = r
  <2>1. Len(splits[r]) = 0 /\ configs[r].threshold = 0 /\ ~HasPendingRecovery(r)
    BY <1>2, <1>3, <1>5, Zenon DEF PrivilegesOf, GuardiansOf, SplitsOf, ProposalOf
  <2> QED
    BY <1>2, <1>3, <1>5, <2>1
    DEF PrivilegesOf, GuardiansOf, SplitsOf, ProposalOf, ApprovalsOf, recoveryVars,
        HasPendingRecovery, Exists
<1> QED
  BY <1>4, <1>5, Zenon

\* Import of an alias, the offer and the withdrawal of a transfer.
LEMMA OfferKeepsPrivileges ==
  ASSUME PrivilegeInv, AliasStep \/ OfferStep \/ WithdrawStep, NEW s \in RepoIds
  PROVE  PrivilegesOf(s)'
<1>1. PrivilegesOf(s)
  BY Zenon DEF PrivilegeInv
<1>2. pending \in [RepoIds -> Transfer]
  BY Zenon DEF PrivilegeInv, TypeOK, CoreTypeOK
<1>3. UNCHANGED <<recoveryVars, splits, owner>>
  BY ZenonT(60) DEF AliasStep, ImportAlias, OfferStep, BeginOwnershipTransfer, WithdrawStep, ClearPending
<1>4. pending'[s].newOwner # NoAccount /\ pending'[s] # pending[s] => ~HasPendingRecovery(s)
  <2>1. CASE AliasStep
    BY <2>1, Zenon DEF AliasStep, ImportAlias
  <2>2. CASE OfferStep
    BY <1>2, <2>2, Zenon DEF OfferStep, BeginOwnershipTransfer
  <2>3. CASE WithdrawStep
    BY <1>2, <2>3 DEF WithdrawStep, ClearPending, NoTransfer
  <2> QED
    BY <2>1, <2>2, <2>3, Zenon
<1> QED
  BY <1>1, <1>3, <1>4, Zenon
  DEF PrivilegesOf, GuardiansOf, SplitsOf, ProposalOf, ApprovalsOf, recoveryVars,
      HasPendingRecovery, Exists

\* acceptOwnershipTransfer and executeRecovery: guardians, proposal and splits
\* go in the transaction that moves the owner.
LEMMA TransferKeepsPrivileges ==
  ASSUME PrivilegeInv, TransferStep, NEW s \in RepoIds
  PROVE  PrivilegesOf(s)'
<1>1. PICK r \in RepoIds, a \in Accounts : TransferOwnership(r, a) /\ OwnershipHook(r)
  BY Zenon DEF TransferStep
<1>2. PrivilegesOf(s)
  BY Zenon DEF PrivilegeInv
<1>3. /\ owner'[s] = IF s = r THEN a ELSE owner[s]
      /\ pending'[s] = IF s = r THEN NoTransfer ELSE pending[s]
      /\ splits'[s] = IF s = r THEN <<>> ELSE splits[s]
      /\ configs'[s] = IF s = r THEN NoConfig ELSE configs[s]
      /\ isGuardian'[s] = IF s = r THEN isGuardian[r] \ configs[r].guardians ELSE isGuardian[s]
      /\ proposals'[s] = IF s = r THEN NoProposal ELSE proposals[s]
      /\ approved' = approved /\ proposalNonce' = proposalNonce
  <2>1. /\ owner'[s] = IF s = r THEN a ELSE owner[s]
        /\ pending'[s] = IF s = r THEN NoTransfer ELSE pending[s]
    BY <1>1, Zenon DEF TransferOwnership, PrivilegeInv, TypeOK, CoreTypeOK
  <2>2. splits'[s] = IF s = r THEN <<>> ELSE splits[s]
    BY <1>1, Zenon DEF OwnershipHook, ClearRevenueSplits, PrivilegeInv, TypeOK, EconomicTypeOK
  <2>3. /\ configs'[s] = IF s = r THEN NoConfig ELSE configs[s]
        /\ isGuardian'[s] = IF s = r THEN isGuardian[r] \ configs[r].guardians ELSE isGuardian[s]
        /\ proposals'[s] = IF s = r THEN NoProposal ELSE proposals[s]
        /\ approved' = approved /\ proposalNonce' = proposalNonce
    BY <1>1, Zenon DEF OwnershipHook, ClearRecovery, ClearedGuardians, PrivilegeInv, TypeOK, RecoveryTypeOK
  <2> QED
    BY <2>1, <2>2, <2>3, Zenon
<1>4. CASE s # r
  <2>1. /\ owner'[s] = owner[s] /\ pending'[s] = pending[s] /\ configs'[s] = configs[s]
        /\ isGuardian'[s] = isGuardian[s] /\ proposals'[s] = proposals[s]
        /\ approved'[s] = approved[s] /\ proposalNonce'[s] = proposalNonce[s]
        /\ splits'[s] = splits[s]
    BY <1>3, <1>4, Zenon
  <2> QED
    BY <1>2, <2>1, SamePrivileges, Zenon
<1>5. CASE s = r
  <2>1. ~HasPendingRecovery(s)'
    <3>1. proposals'[s] = NoProposal
      BY <1>3, <1>5, Zenon
    <3> QED
      BY <3>1 DEF HasPendingRecovery, NoProposal
  <2>2. GuardiansOf(s)'
    BY <1>2, <1>3, <1>5 DEF PrivilegesOf, GuardiansOf, NoConfig
  <2>3. SplitsOf(s)'
    BY <1>3, <1>5 DEF SplitsOf
  <2>4. ProposalOf(s)' /\ ApprovalsOf(s)'
    BY <1>2, <1>3, <2>1, Zenon DEF PrivilegesOf, ProposalOf, ApprovalsOf
  <2> QED
    BY <2>2, <2>3, <2>4, Zenon DEF PrivilegesOf
<1> QED
  BY <1>4, <1>5, Zenon

\* setGuardians and the import of a guardian configuration: the enabled
\* guardians are the ones of the new list, and no proposal is left that
\* guardians of the old list approved.
LEMMA StoreGuardiansKeepsPrivileges ==
  ASSUME PrivilegeInv, NEW r \in RepoIds, NEW g \in SUBSET GuardianAccounts, NEW t \in Int,
         (\E caller \in Accounts : SetGuardians(caller, r, g, t)) \/ ImportGuardianConfig(r, g, t),
         UNCHANGED <<identityVars, splits>>, NEW s \in RepoIds
  PROVE  PrivilegesOf(s)'
<1>1. PrivilegesOf(s)
  BY Zenon DEF PrivilegeInv
<1>2. /\ Exists(r) /\ StoreGuardians(r, g, t)
      /\ approved' = approved /\ proposalNonce' = proposalNonce
      /\ \/ proposals' = [proposals EXCEPT ![r] = NoProposal]
         \/ proposals' = proposals /\ configs[r].threshold = 0
  BY Zenon DEF SetGuardians, ImportGuardianConfig
<1>3. /\ configs'[s] = IF s = r THEN [configuredBy |-> owner[r], threshold |-> t, guardians |-> g]
                       ELSE configs[s]
      /\ isGuardian'[s] = IF s = r THEN (isGuardian[r] \ configs[r].guardians) \cup g
                          ELSE isGuardian[s]
      /\ t # 0 /\ owner[r] \notin g
  BY <1>2 DEF StoreGuardians, ClearedGuardians, GuardiansAllowed, PrivilegeInv, TypeOK, RecoveryTypeOK
<1>4. UNCHANGED <<owner, pending, splits>>
  BY Zenon DEF identityVars
<1>5. CASE s # r
  <2>1. proposals'[s] = proposals[s]
    BY <1>2, <1>5, Zenon DEF PrivilegeInv, TypeOK, RecoveryTypeOK
  <2> QED
    BY <1>1, <1>2, <1>3, <1>4, <1>5, <2>1, SamePrivileges, Zenon
<1>6. CASE s = r
  <2>1. proposals'[r].newOwner = NoAccount
    <3>1. configs[r].threshold = 0 => proposals[r].newOwner = NoAccount
      BY <1>1, <1>6, Zenon DEF PrivilegesOf, ProposalOf, HasPendingRecovery
    <3>2. proposals \in [RepoIds -> Proposal]
      BY Zenon DEF PrivilegeInv, TypeOK, RecoveryTypeOK
    <3> QED
      <4>1. proposals' = [proposals EXCEPT ![r] = NoProposal] => proposals'[r] = NoProposal
        BY <3>2, Zenon
      <4>2. NoProposal.newOwner = NoAccount
        BY Zenon DEF NoProposal
      <4> QED
        BY <1>2, <3>1, <4>1, <4>2, Zenon
  <2> QED
    <3>1. GuardiansOf(r)'
      <4>1. /\ configs'[r] = [configuredBy |-> owner[r], threshold |-> t, guardians |-> g]
            /\ isGuardian'[r] = g
        BY <1>1, <1>3, <1>6, Zenon DEF PrivilegesOf, GuardiansOf
      <4> QED
        BY <1>2, <1>3, <1>4, <4>1, SMTT(60) DEF GuardiansOf, Exists
    <3>2. SplitsOf(r)'
      BY <1>1, <1>4, <1>6, Zenon DEF PrivilegesOf, SplitsOf, Exists
    <3>3. ProposalOf(r)' /\ ApprovalsOf(r)'
      BY <1>1, <1>2, <1>6, <2>1, ZenonT(60) DEF PrivilegesOf, ProposalOf, ApprovalsOf, HasPendingRecovery
    <3> QED
      BY <1>6, <3>1, <3>2, <3>3, Zenon DEF PrivilegesOf
<1> QED
  BY <1>5, <1>6, Zenon

\* proposeRecovery: a nonce that was never used, and the proposer's approval.
LEMMA ProposeKeepsPrivileges ==
  ASSUME CountedSets, PrivilegeInv, NEW caller \in Accounts, NEW r \in RepoIds,
         NEW a \in TransferTargets, ProposeRecovery(caller, r, a), UNCHANGED <<identityVars, splits>>, NEW s \in RepoIds
  PROVE  PrivilegesOf(s)'
<1> DEFINE next == proposalNonce[r] + 1
<1>1. PrivilegesOf(s) /\ PrivilegesOf(r)
  BY Zenon DEF PrivilegeInv
<1>2. UNCHANGED <<owner, pending, splits, configs, isGuardian>>
  BY Zenon DEF identityVars, ProposeRecovery
<1>3. /\ next \in 1..MaxNonce /\ next > proposalNonce[r] /\ proposalNonce[r] \in Nat
      /\ caller \in isGuardian[r] /\ a # NoAccount /\ a # owner[r]
      /\ pending[r].newOwner = NoAccount /\ configs[r].threshold # 0
  <2>1. /\ caller \in isGuardian[r] /\ a # NoAccount /\ a # owner[r]
        /\ pending[r].newOwner = NoAccount /\ configs[r].threshold # 0
        /\ proposalNonce[r] < MaxNonce
    BY Zenon DEF ProposeRecovery, ActiveConfig
  <2>2. proposalNonce[r] \in 0..MaxNonce
    BY Zenon DEF PrivilegeInv, TypeOK, RecoveryTypeOK
  <2> QED
    BY <2>1, <2>2, RecoveryAssumption
<1>4. /\ proposalNonce'[s] = IF s = r THEN next ELSE proposalNonce[s]
      /\ s # r => proposals'[s] = proposals[s] /\ approved'[s] = approved[s]
      /\ proposals'[r].newOwner = a /\ proposals'[r].nonce = next
      /\ proposals'[r].approvals = 1
      /\ \A n \in 1..MaxNonce : approved'[r][n] = IF n = next THEN approved[r][n] \cup {caller}
                                                  ELSE approved[r][n]
  BY <1>3, ZenonT(60) DEF ProposeRecovery, PrivilegeInv, TypeOK, RecoveryTypeOK
<1> HIDE DEF next
<1>5. CASE s # r
  BY <1>1, <1>2, <1>4, <1>5, SamePrivileges
<1>6. CASE s = r
  <2>1. approved'[r][next] = {caller}
    BY <1>1, <1>3, <1>4, ZenonT(60) DEF PrivilegesOf, ApprovalsOf
  <2>2. Cardinality({caller}) = 1 /\ IsFiniteSet({caller})
    BY ZenonT(60) DEF CountedSets
  <2>3. \A n \in 1..MaxNonce : IsFiniteSet(approved'[r][n])
    BY <1>1, <1>4, <2>1, <2>2, ZenonT(60) DEF PrivilegesOf, ApprovalsOf
  <2>4. \A n \in 1..MaxNonce : n > next => approved'[r][n] = {}
    <3>1. \A n \in 1..MaxNonce : n > proposalNonce[r] => approved[r][n] = {}
      BY <1>1, Zenon DEF PrivilegesOf, ApprovalsOf
    <3>2. \A n \in 1..MaxNonce : n > next => n > proposalNonce[r] /\ n # next
      BY <1>3, SMTT(60) DEF next
    <3> QED
      BY <1>4, <3>1, <3>2, ZenonT(60)
  <2>5. /\ approved'[r][next] \subseteq configs[r].guardians
        /\ proposals'[r].approvals = Cardinality(approved'[r][next])
        /\ next # 0
    <3>1. caller \in configs[r].guardians
      BY <1>1, <1>3 DEF PrivilegesOf, GuardiansOf
    <3> QED
      <4>1. next # 0
        BY <1>3
      <4>2. {caller} \subseteq configs[r].guardians
        BY <3>1, Zenon
      <4> QED
        BY <1>4, <2>1, <2>2, <4>1, <4>2, Zenon
  <2> QED
    <3>1. GuardiansOf(r)' /\ SplitsOf(r)'
      BY <1>1, <1>2, Zenon DEF PrivilegesOf, GuardiansOf, SplitsOf, Exists
    <3>2. ProposalOf(r)'
      BY <1>1, <1>2, <1>3, <1>4, <2>5, <1>6, ZenonT(60) DEF PrivilegesOf, ProposalOf, HasPendingRecovery
    <3>3. ApprovalsOf(r)'
      <4>1. /\ proposals'[r].nonce = proposalNonce'[r]
            /\ approved'[r][proposals'[r].nonce] \subseteq configs'[r].guardians
            /\ proposals'[r].approvals = Cardinality(approved'[r][proposals'[r].nonce])
        BY <1>2, <1>4, <1>6, <2>5, Zenon
      <4>2. \A n \in 1..MaxNonce : n > proposalNonce'[r] => approved'[r][n] = {}
        BY <1>4, <1>6, <2>4, Zenon
      <4> QED
        BY <2>3, <4>1, <4>2, Zenon DEF ApprovalsOf
    <3> QED
      BY <1>6, <3>1, <3>2, <3>3, Zenon DEF PrivilegesOf
<1> QED
  BY <1>5, <1>6, Zenon

\* approveRecovery: the counter follows the set of approving guardians.
LEMMA ApproveKeepsPrivileges ==
  ASSUME CountedSets, PrivilegeInv, NEW caller \in Accounts, NEW r \in RepoIds,
         ApproveRecovery(caller, r), UNCHANGED <<identityVars, splits>>, NEW s \in RepoIds
  PROVE  PrivilegesOf(s)'
<1> DEFINE nonce == proposals[r].nonce
<1>1. PrivilegesOf(s) /\ PrivilegesOf(r)
  BY Zenon DEF PrivilegeInv
<1>2. UNCHANGED <<owner, pending, splits, configs, isGuardian, proposalNonce>>
  BY Zenon DEF identityVars, ApproveRecovery
<1>3. /\ HasPendingRecovery(r) /\ caller \in isGuardian[r] /\ caller \notin approved[r][nonce]
      /\ nonce \in 1..MaxNonce /\ nonce = proposalNonce[r]
  <2>1. HasPendingRecovery(r) /\ caller \in isGuardian[r] /\ caller \notin approved[r][nonce]
    BY Zenon DEF ApproveRecovery
  <2>2. nonce = proposalNonce[r] /\ proposalNonce[r] # 0
    BY <1>1, <2>1 DEF PrivilegesOf, ProposalOf, ApprovalsOf
  <2>3. proposalNonce[r] \in 0..MaxNonce
    BY Zenon DEF PrivilegeInv, TypeOK, RecoveryTypeOK
  <2> HIDE DEF nonce
  <2> QED
    BY <2>1, <2>2, <2>3, RecoveryAssumption
<1>4. /\ s # r => proposals'[s] = proposals[s] /\ approved'[s] = approved[s]
      /\ proposals'[r].newOwner = proposals[r].newOwner /\ proposals'[r].nonce = nonce
      /\ proposals'[r].approvals = proposals[r].approvals + 1
      /\ \A n \in 1..MaxNonce : approved'[r][n] = IF n = nonce THEN approved[r][n] \cup {caller}
                                                  ELSE approved[r][n]
  BY <1>3, ZenonT(60) DEF ApproveRecovery, OneMoreApproval, PrivilegeInv, TypeOK, RecoveryTypeOK
<1> HIDE DEF nonce
<1>5. CASE s # r
  BY <1>1, <1>2, <1>4, <1>5, SamePrivileges
<1>6. CASE s = r
  <2>1. /\ IsFiniteSet(approved[r][nonce])
        /\ proposals[r].approvals = Cardinality(approved[r][nonce])
        /\ approved[r][nonce] \subseteq configs[r].guardians
    BY <1>1, <1>3, ZenonT(60) DEF PrivilegesOf, ApprovalsOf, nonce
  <2>2. /\ IsFiniteSet(approved[r][nonce] \cup {caller})
        /\ Cardinality(approved[r][nonce] \cup {caller}) = Cardinality(approved[r][nonce]) + 1
    BY <1>3, <2>1, ZenonT(60) DEF CountedSets
  <2>3. \A n \in 1..MaxNonce : IsFiniteSet(approved'[r][n])
    BY <1>1, <1>4, <2>2, ZenonT(60) DEF PrivilegesOf, ApprovalsOf
  <2>4. \A n \in 1..MaxNonce : n > proposalNonce[r] => approved'[r][n] = {}
    <3>1. \A n \in 1..MaxNonce : n > proposalNonce[r] => approved[r][n] = {}
      BY <1>1, ZenonT(60) DEF PrivilegesOf, ApprovalsOf
    <3>2. \A n \in 1..MaxNonce : n > proposalNonce[r] => n # nonce
      BY <1>3, SMTT(60)
    <3> QED
      BY <1>4, <3>1, <3>2, ZenonT(60)
  <2>5. /\ approved'[r][nonce] \subseteq configs[r].guardians
        /\ proposals'[r].approvals = Cardinality(approved'[r][nonce])
    <3>1. approved'[r][nonce] = approved[r][nonce] \cup {caller} /\ caller \in configs[r].guardians
      BY <1>1, <1>3, <1>4, ZenonT(60) DEF PrivilegesOf, GuardiansOf
    <3> QED
      BY <1>4, <2>1, <2>2, <3>1, Zenon
  <2> QED
    <3>1. GuardiansOf(r)' /\ SplitsOf(r)'
      BY <1>1, <1>2, <1>6 DEF PrivilegesOf, GuardiansOf, SplitsOf, Exists
    <3>2. ProposalOf(r)'
      BY <1>1, <1>2, <1>3, <1>4, Zenon DEF PrivilegesOf, ProposalOf, HasPendingRecovery
    <3>3. ApprovalsOf(r)'
      <4>1. /\ proposals'[r].nonce = proposalNonce'[r]
            /\ approved'[r][proposals'[r].nonce] \subseteq configs'[r].guardians
            /\ proposals'[r].approvals = Cardinality(approved'[r][proposals'[r].nonce])
        BY <1>2, <1>3, <1>4, <2>5, Zenon
      <4>2. \A n \in 1..MaxNonce : n > proposalNonce'[r] => approved'[r][n] = {}
        BY <1>2, <2>4, Zenon
      <4> QED
        BY <2>3, <4>1, <4>2, Zenon DEF ApprovalsOf
    <3> QED
      BY <1>6, <3>1, <3>2, <3>3, Zenon DEF PrivilegesOf
<1> QED
  BY <1>5, <1>6, Zenon

\* cancelRecovery, and the steps that change splits or none of this.
LEMMA SplitsKeepPrivileges ==
  ASSUME PrivilegeInv, NEW s \in RepoIds,
         \/ SplitStep
         \/ OtherStep
         \/ /\ \E caller \in Accounts, r \in RepoIds : CancelRecovery(caller, r)
            /\ UNCHANGED <<identityVars, splits>>
  PROVE  PrivilegesOf(s)'
<1>1. PrivilegesOf(s)
  BY Zenon DEF PrivilegeInv
<1>2. UNCHANGED <<owner, pending>>
  BY Zenon DEF SplitStep, OtherStep, identityVars
<1>3. CASE OtherStep
  BY <1>1, <1>3, SamePrivileges, Zenon DEF OtherStep, identityVars, recoveryVars
<1>4. ASSUME NEW caller \in Accounts, NEW r \in RepoIds, CancelRecovery(caller, r),
             UNCHANGED <<identityVars, splits>>
      PROVE  PrivilegesOf(s)'
  BY <1>1, <1>2, <1>4, ZenonT(60)
  DEF CancelRecovery, NoProposal, PrivilegesOf, GuardiansOf, SplitsOf, ProposalOf, ApprovalsOf,
      HasPendingRecovery, Exists,
      PrivilegeInv, TypeOK, RecoveryTypeOK
<1>5. CASE SplitStep
  <2>1. PICK r \in RepoIds, list \in SplitLists :
          \/ \E caller \in Accounts : SetRevenueSplits(caller, r, list)
          \/ ImportSplits(r, list)
    BY <1>5, Zenon DEF SplitStep
  <2>2. /\ Exists(r) /\ ValidSplits(list, owner[r])
        /\ \/ splits' = [splits EXCEPT ![r] = list]
           \/ splits' = [splits EXCEPT ![r] = @ \o list]
    BY <2>1, Zenon DEF SetRevenueSplits, ImportSplits
  <2>3. UNCHANGED <<recoveryVars, owner, pending>>
    BY <1>5, Zenon DEF SplitStep, identityVars
  <2>4. splits \in [RepoIds -> Seq(Split)]
    BY Zenon DEF PrivilegeInv, TypeOK, EconomicTypeOK
  <2>5. CASE s # r
    BY <1>1, <2>2, <2>3, <2>4, <2>5, SamePrivileges, Zenon DEF recoveryVars
  <2>6. CASE s = r
    <3>1. list \in Seq([recipient: SplitRecipients, bps: SplitShares])
      <4>1. PICK n \in 0..(MaxSplits + 1) : list \in [1..n -> [recipient: SplitRecipients, bps: SplitShares]]
        BY Zenon DEF SplitLists
      <4>2. n \in Nat
        BY EconomicAssumption
      <4> QED
        BY <4>1, <4>2, FunctionIsSequence, ZenonT(60)
    <3>2. \A i \in 1..Len(list) : list[i].recipient # owner[r]
      BY <2>2, <3>1 DEF ValidSplits
    <3>3. \A i \in 1..Len(splits[r]) : splits[r][i].recipient # owner[r]
      BY <1>1, <2>6, Zenon DEF PrivilegesOf, SplitsOf
    <3>4. ASSUME NEW i \in 1..Len(splits'[r]) PROVE splits'[r][i].recipient # owner[r]
      <4>1. CASE splits' = [splits EXCEPT ![r] = list]
        BY <2>4, <3>2, <4>1
      <4>2. CASE splits' = [splits EXCEPT ![r] = @ \o list]
        <5>1. splits'[r] = splits[r] \o list
          BY <2>4, <4>2, Zenon
        <5>2. splits[r] \in Seq(Split)
          BY <2>4, Zenon
        <5>3. Len(splits'[r]) = Len(splits[r]) + Len(list)
          BY <5>1, <5>2, <3>1
        <5>4. splits'[r][i] = IF i <= Len(splits[r]) THEN splits[r][i]
                              ELSE list[i - Len(splits[r])]
          BY <5>1, <5>2, <5>3, <3>1, <3>4
        <5>5. Len(splits[r]) \in Nat /\ Len(list) \in Nat
          BY <5>2, <3>1
        <5> QED
          BY <3>2, <3>3, <3>4, <5>3, <5>4, <5>5
      <4> QED
        BY <2>2, <4>1, <4>2
    <3> QED
      BY <1>1, <2>2, <2>3, <2>6, <3>4, ZenonT(60)
      DEF PrivilegesOf, GuardiansOf, SplitsOf, ProposalOf, ApprovalsOf,
          recoveryVars, HasPendingRecovery, Exists
  <2> QED
    BY <2>5, <2>6, Zenon
<1> QED
  BY <1>3, <1>4, <1>5

\* Together: every step of the suite keeps the privileges with the owner.
LEMMA PrivilegeStep ==
  ASSUME CountedSets, PrivilegeInv, OwnershipStep
  PROVE  \A s \in RepoIds : PrivilegesOf(s)'
<1> SUFFICES ASSUME NEW s \in RepoIds PROVE PrivilegesOf(s)'
  BY Zenon
<1>1. CASE CreateStep \/ AliasStep \/ OfferStep \/ WithdrawStep \/ TransferStep
  BY <1>1, CreateKeepsPrivileges, OfferKeepsPrivileges, TransferKeepsPrivileges
<1>2. CASE GuardianStep
  <2>1. UNCHANGED <<identityVars, splits>>
    BY <1>2, Zenon DEF GuardianStep
  <2>2. ASSUME NEW caller \in Accounts, NEW r \in RepoIds, NEW g \in SUBSET GuardianAccounts,
               NEW t \in Int, SetGuardians(caller, r, g, t) \/ ImportGuardianConfig(r, g, t)
        PROVE  PrivilegesOf(s)'
    BY <2>1, <2>2, StoreGuardiansKeepsPrivileges
  <2>3. ASSUME NEW caller \in Accounts, NEW r \in RepoIds, NEW a \in TransferTargets,
               ProposeRecovery(caller, r, a)
        PROVE  PrivilegesOf(s)'
    BY <2>1, <2>3, ProposeKeepsPrivileges
  <2>4. ASSUME NEW caller \in Accounts, NEW r \in RepoIds,
               ApproveRecovery(caller, r) \/ CancelRecovery(caller, r)
        PROVE  PrivilegesOf(s)'
    BY <2>1, <2>4, ApproveKeepsPrivileges, SplitsKeepPrivileges
  <2> QED
    BY <1>2, <2>2, <2>3, <2>4 DEF GuardianStep
<1>3. CASE SplitStep \/ OtherStep
  BY <1>3, SplitsKeepPrivileges, Zenon
<1> QED
  BY <1>1, <1>2, <1>3, Zenon DEF OwnershipStep

-----------------------------------------------------------------------------
(* The inductive invariant of the suite                                    *)

\* What these steps are to RepositoryCore.
LEMMA OwnershipIsIdentity ==
  ASSUME OwnershipStep
  PROVE  IdentityStep
<1>1. CASE OfferStep
  <2>1. \A r \in RepoIds : HasPendingRecovery(r) \in BOOLEAN
    BY Zenon DEF HasPendingRecovery
  <2> QED
    BY <1>1, <2>1, Zenon DEF OfferStep, IdentityStep, Offered
<1>2. CASE TransferStep
  BY <1>2, Zenon DEF TransferStep, IdentityStep, Moved
<1>3. CASE CreateStep \/ AliasStep \/ WithdrawStep
  BY <1>3, Zenon DEF CreateStep, AliasStep, WithdrawStep, IdentityStep, Created, Aliased, Withdrawn
<1>4. CASE GuardianStep \/ SplitStep \/ OtherStep
  BY <1>4, Zenon DEF GuardianStep, SplitStep, OtherStep, IdentityStep
<1> QED
  BY <1>1, <1>2, <1>3, <1>4 DEF OwnershipStep

\* Only setCollaborator and the import of a collaborator touch the roles.
LEMMA RoleSteps ==
  ASSUME TypeOK, [Next]_vars
  PROVE  RoleStep
<1> USE DEF RoleStep
<1>1. CASE BootstrapImport
  <2>1. CASE ImportCore
    <3>1. ASSUME NEW r \in RepoIds, NEW a \in Accounts, NEW n \in Names,
                 NEW source \in RepoIds \cup {NoRepo}, NEW t \in 1..now,
                 ImportRepository(r, a, n, source, t)
          PROVE  UNCHANGED roleVars
      BY <3>1, Zenon DEF ImportRepository, StoreRepository
    <3>2. ASSUME NEW r \in RepoIds, NEW l \in Locators, ImportAlias(r, l)
          PROVE  UNCHANGED roleVars
      BY <3>2, Zenon DEF ImportAlias
    <3>3. ASSUME NEW r \in RepoIds, NEW f \in Refs, NEW sha \in Shas, NEW p \in PackArguments,
                 NEW t \in 1..now, NEW a \in Accounts, StoreImportedRef(r, f, sha, p, t, a)
          PROVE  UNCHANGED roleVars
      BY <3>3, Zenon DEF StoreImportedRef
    <3>4. ASSUME NEW r \in RepoIds, NEW a \in CollaboratorAccounts, NEW role \in Roles,
                 StoreImportedCollaborator(r, a, role)
          PROVE  RoleStep
      <4>1. a \in Accounts
        BY <3>4, Zenon DEF StoreImportedCollaborator
      <4> QED
        BY <3>4, <4>1, ModerationAssumption, Zenon
    <3> QED
      BY <2>1, <3>1, <3>2, <3>3, <3>4, Zenon DEF ImportCore
  <2> QED
    BY <1>1, <2>1 DEF BootstrapImport, ImportRecovery, ImportModeration, ImportEconomic, coreVars
<1>2. CASE FinalizeModule \/ ClockTick \/ UNCHANGED vars
  BY <1>2, Zenon DEF FinalizeModule, ClockTick, Tick, vars, coreVars
<1>3. CASE ActiveCall
  <2>1. PICK caller \in Accounts :
          \/ CoreCall(caller) \/ RecoveryCall(caller) \/ EconomicCall(caller)
          \/ ModerationCall(caller) \/ AcceptTransfer(caller) \/ ExecuteRecovery(caller)
    BY <1>3, Zenon DEF ActiveCall
  <2>2. CASE CoreCall(caller)
    <3>1. ASSUME NEW r \in RepoIds, NEW a \in CollaboratorAccounts, NEW role \in Roles,
                 SetCollaborator(caller, r, a, role)
          PROVE  RoleStep
      <4>1. a \in Accounts
        BY <3>1, Zenon DEF SetCollaborator
      <4> QED
        BY <3>1, <4>1
    <3>2. ASSUME NEW source \in RepoIds, NEW n \in Names,
                 \/ CreateRepository(caller, n)
                 \/ ForkRepository(caller, source, n, RequireActiveRepository(source))
          PROVE  UNCHANGED roleVars
      BY <3>2, ZenonT(60) DEF CreateRepository, ForkRepository, StoreRepository
    <3>3. ASSUME NEW n \in Names, CreateRepository(caller, n)
          PROVE  UNCHANGED roleVars
      BY <3>3, Zenon DEF CreateRepository, StoreRepository
    <3>4. ASSUME NEW r \in RepoIds,
                 \/ UpdateMetadata(caller, r)
                 \/ \E f \in Refs, sha \in Shas, p \in PackArguments,
                       expected \in Shas \cup {NoSha}, force \in BOOLEAN :
                      UpdateRef(caller, r, f, sha, p, expected, force, NotFrozen(r))
                 \/ \E f \in Refs : DeleteRef(caller, r, f, NotFrozen(r))
                 \/ \E a \in TransferTargets :
                      BeginOwnershipTransfer(caller, r, a, HasPendingRecovery(r))
                 \/ CancelOwnershipTransfer(caller, r)
                 \/ ExpireOwnershipTransfer(r)
          PROVE  UNCHANGED roleVars
      BY <3>4, ZenonT(60)
      DEF UpdateMetadata, TouchMetadata, UpdateRef, DeleteRef, BeginOwnershipTransfer,
          CancelOwnershipTransfer, ExpireOwnershipTransfer, ClearPending
    <3> QED
      BY <2>2, <3>1, <3>2, <3>3, <3>4, Zenon DEF CoreCall
  <2>3. CASE ModerationCall(caller)
    BY <2>3, ZenonT(60)
    DEF ModerationCall, coreVars, SetRepositoryStatus, Decide, SubmitReport, ResolveReport,
        ResolveAppeal, DecideReport, AppealReport, TouchMetadata
  <2>4. CASE AcceptTransfer(caller) \/ ExecuteRecovery(caller)
    BY <2>4, ZenonT(60) DEF AcceptTransfer, ExecuteRecovery, AcceptOwnershipTransfer, RecoverOwnership,
                TransferOwnership
  <2> QED
    BY <2>1, <2>2, <2>3, <2>4, Zenon DEF RecoveryCall, EconomicCall, coreVars
<1> QED
  BY <1>1, <1>2, <1>3 DEF Next

SuiteInd ==
  /\ TypeOK
  /\ LocatorInv
  /\ OwnerIndexExact
  /\ CollaboratorIndexExact
  /\ PrivilegeInv
  /\ RefsInv
  /\ StatusInv /\ ReportsInv /\ UnusedActive

\* The empty contracts satisfy the invariant.
LEMMA InitInd == CountedSets /\ Init => SuiteInd
<1> SUFFICES ASSUME CountedSets, Init PROVE SuiteInd
  BY Zenon
<1>1. TypeOK
  BY InitType, Zenon
<1>2. CanonicalLocatorResolves /\ ReservationMatchesTransfer
  BY Zenon DEF Init, CoreInit, CanonicalLocatorResolves, ReservationMatchesTransfer, Exists, NoTransfer
<1>3. OwnerIndexExact
  BY DEF Init, CoreInit, OwnerIndexExact, Exists
<1>4. CollaboratorIndexExact
  BY SMTT(60) DEF Init, CoreInit, CollaboratorIndexExact
<1>5. ASSUME NEW r \in RepoIds PROVE PrivilegesOf(r)
  <2>1. IsFiniteSet({})
    BY Zenon DEF CountedSets
  <2>2. /\ owner[r] = NoAccount /\ pending[r] = NoTransfer /\ splits[r] = <<>>
        /\ configs[r] = NoConfig /\ isGuardian[r] = {} /\ proposals[r] = NoProposal
        /\ \A n \in 1..MaxNonce : approved[r][n] = {}
    BY Zenon DEF Init, CoreInit, RecoveryInit, EconomicInit
  <2>3. GuardiansOf(r) /\ SplitsOf(r)
    <3>1. NoConfig.threshold = 0 /\ NoConfig.guardians = {}
      BY Zenon DEF NoConfig
    <3>2. GuardiansOf(r)
      BY <2>2, <3>1, Zenon DEF GuardiansOf
    <3>3. Len(<<>>) = 0 /\ 1..0 = {}
      OBVIOUS
    <3>4. SplitsOf(r)
      BY <2>2, <3>3, Zenon DEF SplitsOf
    <3> QED
      BY <3>2, <3>4, Zenon
  <2>4. ~HasPendingRecovery(r)
    BY <2>2 DEF HasPendingRecovery, NoProposal
  <2>5. ProposalOf(r) /\ ApprovalsOf(r)
    BY <2>1, <2>2, <2>4, Zenon DEF ProposalOf, ApprovalsOf
  <2> QED
    BY <2>3, <2>5, Zenon DEF PrivilegesOf
<1>6. RefsInv
  BY EmptyRefList, Zenon DEF Init, CoreInit, RefsInv, UnusedEmpty, NoRefs
<1>7. StatusInv /\ ReportsInv /\ UnusedActive
  <2>1. /\ \A r \in RepoIds : statuses[r] = "Active" /\ statusTrails[r] = <<>>
        /\ \A id \in ReportIds : reports[id].status = "NoReport" /\ trails[id] = <<>>
    BY Zenon DEF Init, ModerationInit, NoReport
  <2>2. Len(<<>>) = 0 /\ 1..0 = {}
    OBVIOUS
  <2>3. StatusInv /\ UnusedActive
    <3>1. \A r \in RepoIds : 1..Len(statusTrails[r]) = {}
      BY <2>1, <2>2, Zenon
    <3>2. StatusMatchesTrail
      BY <2>1, <3>1, Zenon DEF StatusMatchesTrail
    <3> QED
      BY <2>1, <3>2, Zenon DEF StatusInv, UnusedActive
  <2>4. ReportsInv
    BY <2>1, <2>2 DEF ReportsInv, ReportExact
  <2> QED
    BY <2>3, <2>4
<1>8. LocatorInv /\ PrivilegeInv
  BY <1>1, <1>2, <1>5, Zenon DEF LocatorInv, PrivilegeInv, TypeOK
<1> QED
  BY <1>1, <1>3, <1>4, <1>6, <1>7, <1>8, Zenon DEF SuiteInd

\* The invariant is inductive.
LEMMA StepInd == CountedSets /\ SuiteInd /\ [Next]_vars => SuiteInd'
<1> SUFFICES ASSUME CountedSets, SuiteInd, [Next]_vars PROVE SuiteInd'
  BY Zenon
<1>1. OwnershipStep /\ IdentityStep /\ RoleStep /\ RefStep
  BY OwnershipSteps, OwnershipIsIdentity, RoleSteps, RefSteps, Zenon DEF SuiteInd
<1>2. TypeOK'
  <2>1. CASE Next
    BY <2>1, TypeStep DEF SuiteInd
  <2>2. CASE UNCHANGED vars
    BY <2>2, UnchangedTypes, Zenon DEF SuiteInd, TypeOK, vars, suiteVars
  <2> QED
    BY <2>1, <2>2
<1>3. CanonicalLocatorResolves' /\ ReservationMatchesTransfer'
  BY <1>1, LocatorStep DEF SuiteInd
<1>4. OwnerIndexExact' /\ CollaboratorIndexExact'
  BY <1>1, OwnerIndexStep, CollaboratorStep, Zenon DEF SuiteInd, LocatorInv
<1>5. \A r \in RepoIds : PrivilegesOf(r)'
  BY <1>1, PrivilegeStep DEF SuiteInd
<1>6. RefsInv'
  BY <1>1, RefsKept, Zenon DEF SuiteInd
<1>7. StatusInv' /\ ReportsInv'
  BY TrailsKept, Zenon DEF SuiteInd
<1>8. UnusedActive'
  <2>1. ASSUME NEW r \in RepoIds, ~Exists(r)' PROVE statuses'[r] = "Active"
    <3>1. ~Exists(r)
      BY <1>1, <2>1, OwnersStay DEF SuiteInd, TypeOK
    <3> QED
      BY <3>1, StatusOfExisting, Zenon DEF SuiteInd, UnusedActive
  <2> QED
    BY <2>1, Zenon DEF UnusedActive
<1>9. LocatorInv' /\ PrivilegeInv'
  BY <1>2, <1>3, <1>5, Zenon DEF LocatorInv, PrivilegeInv, TypeOK
<1> QED
  BY <1>2, <1>4, <1>6, <1>7, <1>8, <1>9, Zenon DEF SuiteInd

\* The library's facts on cardinality are those the approvals need.
LEMMA SetsAreCounted == CountedSets
BY FS_EmptySet, FS_Singleton, FS_AddElement, Zenon DEF CountedSets

\* Every reachable state of the suite satisfies the invariant.
LEMMA SpecInd == Spec => []SuiteInd
BY InitInd, StepInd, SetsAreCounted, PTL DEF Spec

\* Every variable of the four contracts keeps its type, list positions after
\* swap-and-pop included.
THEOREM TypeCorrect == Spec => []TypeOK
<1>1. SuiteInd => TypeOK
  BY Zenon DEF SuiteInd
<1> QED
  BY <1>1, SpecInd, PTL

\* The canonical locator of every repository resolves to it and reservations
\* are exactly the targets of pending transfers.
THEOREM LocatorsCorrect == Spec => [](CanonicalLocatorResolves /\ ReservationMatchesTransfer)
<1>1. SuiteInd => CanonicalLocatorResolves /\ ReservationMatchesTransfer
  BY Zenon DEF SuiteInd, LocatorInv
<1> QED
  BY <1>1, SpecInd, PTL

\* The owners' lists of repositories and their indexes agree.
THEOREM OwnerIndexCorrect == Spec => []OwnerIndexExact
<1>1. SuiteInd => OwnerIndexExact
  BY Zenon DEF SuiteInd
<1> QED
  BY <1>1, SpecInd, PTL

\* The collaborator lists, their indexes and the roles agree.
THEOREM CollaboratorIndexCorrect == Spec => []CollaboratorIndexExact
<1>1. SuiteInd => CollaboratorIndexExact
  BY Zenon DEF SuiteInd
<1> QED
  BY <1>1, SpecInd, PTL

\* A transfer and a recovery are never pending together.
THEOREM ExclusionCorrect == Spec => []TransferRecoveryExclusive
<1>1. SuiteInd => TransferRecoveryExclusive
  BY PrivilegeInvImplies, Zenon DEF SuiteInd
<1> QED
  BY <1>1, SpecInd, PTL

\* Guardians, proposals and splits are those of the present owner.
THEOREM PrivilegesCorrect == Spec => []PrivilegesFollowOwner
<1>1. SuiteInd => PrivilegesFollowOwner
  BY PrivilegeInvImplies, Zenon DEF SuiteInd
<1> QED
  BY <1>1, SpecInd, PTL

\* The approvals counted for a proposal are distinct present guardians.
THEOREM ApprovalsCorrect == Spec => []ApprovalsCounted
<1>1. SuiteInd => ApprovalsCounted
  BY PrivilegeInvImplies, Zenon DEF SuiteInd
<1> QED
  BY <1>1, SpecInd, PTL

\* Ownership, locators, reservations, owners' lists, guardians, proposals, approvals
\* and splits agree in every reachable state.
THEOREM OwnershipCorrect == Spec => []OwnershipInvariant
<1>1. SuiteInd => OwnershipInvariant
  BY PrivilegeInvImplies, Zenon DEF SuiteInd, LocatorInv, OwnershipInvariant
<1> QED
  BY <1>1, SpecInd, PTL

\* No step of the suite reassigns a locator that names a repository.
THEOREM AliasesCorrect == Spec => AliasesNeverReassigned
<1>1. SuiteInd /\ [Next]_vars =>
        [\A l \in Locators : locators[l] # NoRepo => locators'[l] = locators[l]]_vars
  BY OwnershipSteps, OwnershipIsIdentity, LocatorStep DEF SuiteInd
<1> QED
  BY <1>1, SpecInd, PTL DEF Spec, AliasesNeverReassigned

\* The owner of a repository changes only by an accepted transfer or by a
\* recovery that a threshold of the owner's guardians approved, each inside
\* its window, and nothing of either is left.
THEOREM ConsentCorrect == Spec => OwnershipMovesByConsent
<1>1. ASSUME SuiteInd, [Next]_vars, NEW r \in RepoIds, Exists(r), owner'[r] # owner[r]
      PROVE  OwnershipMoves(r)
  <2>1. TransferStep
    <3>1. ~CreateStep
      BY <1>1, ZenonT(60) DEF CreateStep, StoreRepository, Exists, SuiteInd, TypeOK, CoreTypeOK
    <3> QED
      BY <1>1, <3>1, OwnershipSteps, ZenonT(60)
      DEF SuiteInd, OwnershipStep, AliasStep, ImportAlias, OfferStep,
          BeginOwnershipTransfer, WithdrawStep, ClearPending, GuardianStep, SplitStep, OtherStep,
          identityVars
  <2>2. PICK s \in RepoIds, a \in Accounts :
          /\ TransferOwnership(s, a)
          /\ OwnershipHook(s)
          /\ \/ pending[s].newOwner = a
                /\ pending[s].executeAfter <= now /\ now <= pending[s].expiresAt
             \/ RecoveryExecutable(a, s)
    BY <2>1, Zenon DEF TransferStep
  <2>3. s = r /\ owner'[r] = a
    BY <1>1, <2>2, ZenonT(60) DEF TransferOwnership, SuiteInd, TypeOK, CoreTypeOK
  <2>4. PrivilegesOf(r)
    BY <1>1, Zenon DEF SuiteInd, PrivilegeInv
  <2>5. /\ pending'[r] = NoTransfer /\ proposals'[r] = NoProposal /\ configs'[r] = NoConfig
        /\ isGuardian'[r] = {} /\ splits'[r] = <<>>
    BY <1>1, <2>2, <2>3, <2>4, ZenonT(60)
    DEF TransferOwnership, OwnershipHook, ClearRevenueSplits, ClearRecovery, ClearedGuardians,
        PrivilegesOf, GuardiansOf, SuiteInd, TypeOK, CoreTypeOK, RecoveryTypeOK, EconomicTypeOK
  <2>6. RecoveryExecutable(a, r) =>
          /\ proposals[r].executeAfter <= now /\ now <= proposals[r].expiresAt
          /\ a = proposals[r].newOwner
          /\ Cardinality(approved[r][proposals[r].nonce] \cap configs[r].guardians)
               >= configs[r].threshold
    <3>1. ASSUME RecoveryExecutable(a, r)
          PROVE  /\ approved[r][proposals[r].nonce] \cap configs[r].guardians
                      = approved[r][proposals[r].nonce]
                 /\ proposals[r].approvals = Cardinality(approved[r][proposals[r].nonce])
                 /\ proposals[r].approvals >= configs[r].threshold
      <4>1. HasPendingRecovery(r) /\ proposals[r].approvals >= configs[r].threshold
        BY <3>1, Zenon DEF RecoveryExecutable
      <4>2. /\ approved[r][proposals[r].nonce] \subseteq configs[r].guardians
            /\ proposals[r].approvals = Cardinality(approved[r][proposals[r].nonce])
        BY <2>4, <4>1, Zenon DEF PrivilegesOf, ApprovalsOf
      <4>3. approved[r][proposals[r].nonce] \cap configs[r].guardians = approved[r][proposals[r].nonce]
        BY <4>2, Zenon
      <4> QED
        BY <4>1, <4>2, <4>3, Zenon
    <3> QED
      BY <3>1, ZenonT(60) DEF RecoveryExecutable
  <2>7. CASE /\ pending[r].newOwner = a
             /\ pending[r].executeAfter <= now /\ now <= pending[r].expiresAt
    BY <2>3, <2>5, <2>7, Zenon DEF OwnershipMoves
  <2>8. CASE RecoveryExecutable(a, r)
    BY <2>3, <2>5, <2>6, <2>8, Zenon DEF OwnershipMoves
  <2>9. \/ pending[r].newOwner = a
           /\ pending[r].executeAfter <= now /\ now <= pending[r].expiresAt
        \/ RecoveryExecutable(a, r)
    BY <2>2, <2>3, Zenon
  <2> QED
    BY <2>7, <2>8, <2>9, Zenon
<1>2. SuiteInd /\ [Next]_vars =>
        [\A r \in RepoIds : Exists(r) /\ owner'[r] # owner[r] => OwnershipMoves(r)]_vars
  BY <1>1, Zenon
<1> QED
  BY <1>2, SpecInd, PTL DEF Spec, OwnershipMovesByConsent

\* Refs and their names, collaborators and their positions, statuses, reports and
\* the trails of both agree in every reachable state.
THEOREM RecordsCorrect == Spec => []RecordsInvariant
<1>1. SuiteInd => RecordsInvariant
  BY RefListsExact, ReportsExact DEF SuiteInd, RefsInv, StatusInv, RecordsInvariant
<1> QED
  BY <1>1, SpecInd, PTL

\* Every fact about states that the suite promises holds in every reachable state,
\* from the first imported record on.
THEOREM SuiteCorrect == Spec => []SuiteInvariant
BY OwnershipCorrect, RecordsCorrect, PTL DEF SuiteInvariant

\* No call touches the refs of a frozen repository, and only active repositories
\* are forked (requireRefMutation, requireFork).
THEOREM FreezingCorrect == Spec => FrozenRefsImmutable
<1> DEFINE Stands ==
      stage = ActiveStage =>
        \A r \in RepoIds :
          /\ statuses[r] = "Frozen" => refs'[r] = refs[r] /\ refNames'[r] = refNames[r]
          /\ \A s \in RepoIds : ~Exists(s) /\ forkedFrom'[s] = r => statuses[r] = "Active"
<1>1. SuiteInd /\ [Next]_vars => Stands
  BY RefSteps, FrozenStep, Zenon DEF SuiteInd
<1>2. SuiteInd /\ [Next]_vars => [Stands]_vars
  BY <1>1, Zenon
<1> QED
  BY <1>2, SpecInd, PTL DEF Spec, FrozenRefsImmutable

\* A ref of a repository changes only by its owner or a maintainer, who is
\* recorded with the time (updateRef, deleteRef).
THEOREM RefChangesCorrect == Spec => RefChangesRecorded
<1> DEFINE Recorded ==
      stage = ActiveStage =>
        \A r \in RepoIds, f \in Refs :
          Exists(r) /\ refs'[r][f] # refs[r][f] =>
            /\ updatedAt'[r] = now
            /\ refs'[r][f] # NoRef =>
                 /\ refs'[r][f].updatedAt = now
                 /\ LET by == refs'[r][f].updatedBy IN
                    by = owner[r] \/ roles[r][by] = "Maintainer"
<1>1. SuiteInd /\ [Next]_vars => Recorded
  BY RefSteps, RefChangeStep, Zenon DEF SuiteInd
<1>2. SuiteInd /\ [Next]_vars => [Recorded]_vars
  BY <1>1, Zenon
<1> QED
  BY <1>2, SpecInd, PTL DEF Spec, RefChangesRecorded

-----------------------------------------------------------------------------
(* Sponsorships                                                            *)

\* The suite with sponsorships, whose payees may call any function while they are
\* paid (EconomicModule.sponsor), behaves as the suite does: every theorem on Spec
\* holds in the middle of a payout too.
THEOREM SponsorshipsImplementSuite == SettlementSpec => Spec
<1>1. SettlementInit => Init
  BY Zenon DEF SettlementInit
<1>2. [SettlementNext]_paymentVars => [Next]_vars
  BY SettlementStep, Zenon
<1> QED
  BY <1>1, <1>2, PTL DEF SettlementSpec, Spec

\* The books of sponsorships are kept through every payment and every call of a
\* payee (EconomicModule.sponsor, _pay).
THEOREM PaymentsInvariant == SettlementSpec => [](TypeOK /\ PaymentInd)
<1>1. SettlementInit => PaymentInd
  BY PaymentInit, Zenon DEF SettlementInit
<1>2. TypeOK /\ PaymentInd /\ [SettlementNext]_paymentVars => PaymentInd'
  BY PaymentStep, Zenon
<1> QED
  BY <1>1, <1>2, SponsorshipsImplementSuite, TypeCorrect, PTL DEF SettlementSpec

\* Outside a running call of sponsor the contract holds nothing, and the accounts
\* have received exactly what was sponsored, whatever the shares and however the
\* splits changed while the payees were called.
THEOREM PaymentsComplete == SettlementSpec => []SponsorshipsPaidOut
<1>1. PaymentInd => SponsorshipsPaidOut
  <2> SUFFICES ASSUME PaymentInd, ~Settling PROVE balance = 0 /\ Sum(received) = Sum(totals)
    BY Zenon DEF SponsorshipsPaidOut
  <2>1. balance = 0 /\ received \in [Accounts -> Int] /\ Sum(received) + balance = Sum(totals)
    BY Zenon DEF PaymentInd, Owing
  <2>2. Sum(received) \in Int
    BY <2>1, FinitelyMany, SumInteger, Zenon
  <2> QED
    BY <2>1, <2>2
<1> QED
  BY <1>1, PaymentsInvariant, PTL
===============================================================================

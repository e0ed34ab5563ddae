---------------------------- MODULE RepositoryCore ----------------------------
(***************************************************************************)
(* The RepositoryCore contract: repository identity, locators and aliases, *)
(* ownership transfer, refs and collaborators.                             *)
(*                                                                         *)
(* Every external function is an operator over the contract's storage; the *)
(* caller is msg.sender and a false guard is a revert.  What a function    *)
(* asks of another module is a parameter (recoveryPending, mutable,        *)
(* forkable): module Suite supplies the answer from that module's state    *)
(* and adds the calls that change that state.                              *)
(***************************************************************************)
EXTENDS Integers, Sequences, FiniteSets

CONSTANTS
  Accounts,         \* addresses that may call the suite
  NoAccount,        \* address(0)
  Names,            \* names that pass _validateRepositoryName
  NoRepo,           \* bytes32(0)
  Refs,             \* names that pass _validateRefName
  Shas,             \* strings that pass _validateCommitSha
  NoSha,            \* the empty string
  Packs,            \* strings that pass _validatePackUri; a list of them is a set
  TransferTargets,  \* accounts offered to beginOwnershipTransfer
  CollaboratorAccounts, \* accounts offered to setCollaborator
  TransferDelay,    \* OWNERSHIP_TRANSFER_DELAY and RECOVERY_DELAY
  TransferWindow,   \* OWNERSHIP_TRANSFER_WINDOW and RECOVERY_WINDOW
  MaxTime,          \* bound on the clock
  MaxRefs,          \* MAX_REFS_PER_REPO
  MaxPackUris,      \* MAX_PACK_URIS
  MaxCollaborators, \* MAX_COLLABORATORS_PER_REPO
  MaxForkRefs       \* MAX_FORK_REFS

ASSUME CoreAssumption ==
  /\ NoAccount \notin Accounts
  /\ NoSha \notin Shas
  /\ TransferTargets \subseteq Accounts \cup {NoAccount}
  /\ CollaboratorAccounts \subseteq Accounts \cup {NoAccount}
  /\ TransferDelay \in Nat \ {0}
  /\ TransferWindow \in Nat
  /\ MaxTime \in Nat
  /\ MaxRefs \in Nat /\ MaxPackUris \in Nat
  /\ MaxCollaborators \in Nat /\ MaxForkRefs \in Nat

\* keccak256(owner, name): collision-free, so the pair itself.
Locators == Accounts \X Names

\* The repository ID is keccak256 of its creator and its first name.
RepoIds == Accounts \X Names

ASSUME NoRepoAssumption == NoRepo \notin RepoIds

Roles == {"None", "Maintainer", "Reader"}

VARIABLES
  now,               \* block.timestamp
  owner,             \* _repositories[id].owner; NoAccount while it does not exist
  repoName,          \* _repositories[id].name
  forkedFrom,        \* _repositories[id].forkedFrom
  locators,          \* _locators
  reserved,          \* _reservedLocators
  ownerRepositories, \* _ownerRepositories
  ownerIndex,        \* _ownerRepositoryIndexes (index plus one)
  pending,           \* _pendingTransfers
  updatedAt,         \* _repositories[id].updatedAt
  refs,              \* _refs
  refNames,          \* _refNames
  roles,             \* _roles
  collaborators,     \* _collaborators
  collaboratorIndex  \* _collaboratorIndexes (index plus one)

identityVars == <<owner, repoName, forkedFrom, locators, reserved,
                  ownerRepositories, ownerIndex, pending>>
refVars      == <<refs, refNames>>
roleVars     == <<roles, collaborators, collaboratorIndex>>
coreVars     == <<now, identityVars, updatedAt, refVars, roleVars>>

NoTransfer == [newOwner |-> NoAccount, executeAfter |-> 0, expiresAt |-> 0]
NoRef == [sha |-> NoSha, packs |-> {}, updatedAt |-> 0, updatedBy |-> NoAccount]

Transfer == [newOwner: Accounts \cup {NoAccount}, executeAfter: Nat, expiresAt: Nat]
GitRef == [sha: Shas \cup {NoSha}, packs: SUBSET Packs,
           updatedAt: Nat, updatedBy: Accounts \cup {NoAccount}]

CoreTypeOK ==
  /\ now \in Nat \ {0}
  /\ owner \in [RepoIds -> Accounts \cup {NoAccount}]
  /\ repoName \in [RepoIds -> Names]
  /\ forkedFrom \in [RepoIds -> RepoIds \cup {NoRepo}]
  /\ locators \in [Locators -> RepoIds \cup {NoRepo}]
  /\ reserved \in [Locators -> RepoIds \cup {NoRepo}]
  /\ ownerRepositories \in [Accounts -> Seq(RepoIds)]
  /\ ownerIndex \in [RepoIds -> Nat]
  /\ pending \in [RepoIds -> Transfer]
  /\ updatedAt \in [RepoIds -> Nat]
  /\ refs \in [RepoIds -> [Refs -> GitRef]]
  /\ refNames \in [RepoIds -> Seq(Refs)]
  /\ roles \in [RepoIds -> [Accounts -> Roles]]
  /\ collaborators \in [RepoIds -> Seq(Accounts)]
  /\ collaboratorIndex \in [RepoIds -> [Accounts -> Nat]]

CoreInit ==
  /\ now = 1
  /\ owner = [r \in RepoIds |-> NoAccount]
  /\ repoName = [r \in RepoIds |-> r[2]]
  /\ forkedFrom = [r \in RepoIds |-> NoRepo]
  /\ locators = [l \in Locators |-> NoRepo]
  /\ reserved = [l \in Locators |-> NoRepo]
  /\ ownerRepositories = [a \in Accounts |-> <<>>]
  /\ ownerIndex = [r \in RepoIds |-> 0]
  /\ pending = [r \in RepoIds |-> NoTransfer]
  /\ updatedAt = [r \in RepoIds |-> 0]
  /\ refs = [r \in RepoIds |-> [f \in Refs |-> NoRef]]
  /\ refNames = [r \in RepoIds |-> <<>>]
  /\ roles = [r \in RepoIds |-> [a \in Accounts |-> "None"]]
  /\ collaborators = [r \in RepoIds |-> <<>>]
  /\ collaboratorIndex = [r \in RepoIds |-> [a \in Accounts |-> 0]]

Exists(r) == owner[r] # NoAccount

\* The array idiom of the contract: the last element fills the hole.
SwapPop(s, i) == SubSeq([s EXCEPT ![i] = s[Len(s)]], 1, Len(s) - 1)

RefExists(r, f) == refs[r][f].sha # NoSha

-----------------------------------------------------------------------------
(* Identity                                                                *)

LocatorAvailable(l) == locators[l] = NoRepo /\ reserved[l] = NoRepo

LocatorAvailableFor(r, l) ==
  /\ locators[l] \in {NoRepo, r}
  /\ reserved[l] \in {NoRepo, r}

StoreRepository(r, a, n, source, timestamp) ==
  /\ source # NoRepo => Exists(source)
  /\ ~Exists(r)
  /\ LocatorAvailable(<<a, n>>)
  /\ owner' = [owner EXCEPT ![r] = a]
  /\ repoName' = [repoName EXCEPT ![r] = n]
  /\ forkedFrom' = [forkedFrom EXCEPT ![r] = source]
  /\ updatedAt' = [updatedAt EXCEPT ![r] = timestamp]
  /\ locators' = [locators EXCEPT ![<<a, n>>] = r]
  /\ ownerIndex' = [ownerIndex EXCEPT ![r] = Len(ownerRepositories[a]) + 1]
  /\ ownerRepositories' = [ownerRepositories EXCEPT ![a] = Append(@, r)]
  /\ UNCHANGED <<now, reserved, pending, roleVars>>

CreateRepository(caller, n) ==
  /\ StoreRepository(<<caller, n>>, caller, n, NoRepo, now)
  /\ UNCHANGED refVars

\* The fork starts with the source's refs, stamped with the fork's time.
ForkRepository(caller, source, n, forkable) ==
  /\ Exists(source)
  /\ forkable
  /\ Len(refNames[source]) <= MaxForkRefs
  /\ StoreRepository(<<caller, n>>, caller, n, source, now)
  /\ refs' = [refs EXCEPT ![<<caller, n>>] =
                [f \in Refs |->
                   IF RefExists(source, f)
                   THEN [sha |-> refs[source][f].sha, packs |-> refs[source][f].packs,
                         updatedAt |-> now, updatedBy |-> caller]
                   ELSE @[f]]]
  /\ refNames' = [refNames EXCEPT ![<<caller, n>>] = @ \o refNames[source]]

\* Description and default branch are data; the write that others can see is
\* the timestamp.  ModerationModule calls it with no field set.
TouchMetadata(r) ==
  /\ Exists(r)
  /\ updatedAt' = [updatedAt EXCEPT ![r] = now]
  /\ UNCHANGED <<now, identityVars, refVars, roleVars>>

UpdateMetadata(caller, r) ==
  /\ caller = owner[r]
  /\ TouchMetadata(r)

-----------------------------------------------------------------------------
(* Refs                                                                    *)

\* Mutant: any role maintains.
CanMaintain_AnyRole(r, caller) == caller = owner[r] \/ roles[r][caller] # "None"

CanMaintain(r, caller) == caller = owner[r] \/ roles[r][caller] = "Maintainer"

\* Compare-and-set on the stored commit, skipped by force and for a ref that
\* does not exist; the packs of a kept ref accumulate, force replaces them.
UpdateRef(caller, r, f, sha, packUris, expectedSha, force, mutable) ==
  LET target == refs[r][f]
      merged == IF force \/ target.packs = {} THEN packUris
                ELSE target.packs \cup packUris
  IN
  /\ Exists(r)
  /\ CanMaintain(r, caller)
  /\ mutable
  /\ packUris # {} /\ Cardinality(packUris) <= MaxPackUris
  /\ force \/ ~RefExists(r, f) \/ target.sha = expectedSha
  /\ RefExists(r, f) \/ Len(refNames[r]) < MaxRefs
  /\ Cardinality(merged) <= MaxPackUris
  /\ refNames' = IF RefExists(r, f) THEN refNames
                 ELSE [refNames EXCEPT ![r] = Append(@, f)]
  /\ refs' = [refs EXCEPT ![r][f] =
                [sha |-> sha, packs |-> merged, updatedAt |-> now, updatedBy |-> caller]]
  /\ updatedAt' = [updatedAt EXCEPT ![r] = now]
  /\ UNCHANGED <<now, identityVars, roleVars>>

DeleteRef(caller, r, f, mutable) ==
  /\ Exists(r)
  /\ CanMaintain(r, caller)
  /\ mutable
  /\ RefExists(r, f)
  /\ refs' = [refs EXCEPT ![r][f] = NoRef]
  /\ \E i \in DOMAIN refNames[r] :
       /\ refNames[r][i] = f
       /\ \A j \in 1..(i - 1) : refNames[r][j] # f
       /\ refNames' = [refNames EXCEPT ![r] = SwapPop(@, i)]
  /\ updatedAt' = [updatedAt EXCEPT ![r] = now]
  /\ UNCHANGED <<now, identityVars, roleVars>>

-----------------------------------------------------------------------------
(* Collaborators                                                           *)

AddCollaborator(r, account) ==
  /\ Len(collaborators[r]) < MaxCollaborators
  /\ collaborators' = [collaborators EXCEPT ![r] = Append(@, account)]
  /\ collaboratorIndex' = [collaboratorIndex EXCEPT ![r][account] = Len(collaborators[r]) + 1]

\* The last collaborator takes the removed one's place in the list.
RemoveCollaborator(r, account) ==
  LET list  == collaborators[r]
      index == collaboratorIndex[r][account]
  IN
  IF index = 0
  THEN UNCHANGED <<collaborators, collaboratorIndex>>
  ELSE /\ collaborators' = [collaborators EXCEPT ![r] = SwapPop(list, index)]
       /\ collaboratorIndex' = [collaboratorIndex EXCEPT
                                  ![r] = [@ EXCEPT ![list[Len(list)]] = index, ![account] = 0]]

SetCollaborator(caller, r, account, role) ==
  /\ Exists(r)
  /\ caller = owner[r]
  /\ account \notin {NoAccount, owner[r]}
  /\ \/ role = "None" /\ roles[r][account] # "None" /\ RemoveCollaborator(r, account)
     \/ role # "None" /\ roles[r][account] = "None" /\ AddCollaborator(r, account)
     \/ /\ role = "None" <=> roles[r][account] = "None"
        /\ UNCHANGED <<collaborators, collaboratorIndex>>
  /\ roles' = [roles EXCEPT ![r][account] = role]
  /\ UNCHANGED <<now, identityVars, updatedAt, refVars>>

-----------------------------------------------------------------------------
(* Ownership transfer                                                      *)

BeginOwnershipTransfer(caller, r, newOwner, recoveryPending) ==
  LET target == <<newOwner, repoName[r]>> IN
  /\ Exists(r)
  /\ caller = owner[r]
  /\ newOwner \notin {NoAccount, owner[r]}
  /\ pending[r].newOwner = NoAccount
  /\ ~recoveryPending
  /\ LocatorAvailable(target)
  /\ pending' = [pending EXCEPT ![r] =
                   [newOwner |-> newOwner,
                    executeAfter |-> now + TransferDelay,
                    expiresAt |-> now + TransferDelay + TransferWindow]]
  /\ reserved' = [reserved EXCEPT ![target] = r]
  /\ UNCHANGED <<now, owner, repoName, forkedFrom, locators, ownerRepositories,
                 ownerIndex, updatedAt, refVars, roleVars>>

ClearPending(r) ==
  /\ pending[r].newOwner # NoAccount
  /\ reserved' = [reserved EXCEPT ![<<pending[r].newOwner, repoName[r]>>] = NoRepo]
  /\ pending' = [pending EXCEPT ![r] = NoTransfer]
  /\ UNCHANGED <<now, owner, repoName, forkedFrom, locators, ownerRepositories,
                 ownerIndex, updatedAt, refVars, roleVars>>

CancelOwnershipTransfer(caller, r) ==
  /\ Exists(r)
  /\ caller \in {owner[r], pending[r].newOwner}
  /\ ClearPending(r)

ExpireOwnershipTransfer(r) ==
  /\ Exists(r)
  /\ now > pending[r].expiresAt
  /\ ClearPending(r)

MoveOwnerIndex(r, oldOwner, newOwner) ==
  LET oldList == ownerRepositories[oldOwner]
      index   == ownerIndex[r]
  IN
  /\ index # 0
  /\ ownerRepositories' = [ownerRepositories EXCEPT
                             ![oldOwner] = SwapPop(oldList, index),
                             ![newOwner] = Append(@, r)]
  /\ ownerIndex' = [ownerIndex EXCEPT
                      ![oldList[Len(oldList)]] = index,
                      ![r] = Len(ownerRepositories[newOwner]) + 1]

\* Mutant: the old locator is freed.
MovedLocators_FreesOld(r, newOwner) ==
  [locators EXCEPT ![<<owner[r], repoName[r]>>] = NoRepo, ![<<newOwner, repoName[r]>>] = r]

\* The old locator stays as an alias and the new one becomes canonical.
MovedLocators(r, newOwner) ==
  [locators EXCEPT ![<<owner[r], repoName[r]>>] = r, ![<<newOwner, repoName[r]>>] = r]

\* Suite adds the EconomicModule hook this function ends with.
TransferOwnership(r, newOwner) ==
  LET newLocator == <<newOwner, repoName[r]>> IN
  /\ LocatorAvailableFor(r, newLocator)
  /\ MoveOwnerIndex(r, owner[r], newOwner)
  /\ locators' = MovedLocators(r, newOwner)
  /\ owner' = [owner EXCEPT ![r] = newOwner]
  /\ reserved' = [reserved EXCEPT ![newLocator] = NoRepo]
  /\ pending' = [pending EXCEPT ![r] = NoTransfer]
  /\ UNCHANGED <<now, repoName, forkedFrom, updatedAt, refVars, roleVars>>

AcceptOwnershipTransfer(caller, r) ==
  /\ Exists(r)
  /\ pending[r].newOwner # NoAccount
  /\ caller = pending[r].newOwner
  /\ pending[r].executeAfter <= now /\ now <= pending[r].expiresAt
  /\ TransferOwnership(r, caller)

\* Called only by RecoveryModule.executeRecovery.
RecoverOwnership(r, newOwner) ==
  /\ Exists(r)
  /\ newOwner \notin {NoAccount, owner[r]}
  /\ pending[r].newOwner = NoAccount
  /\ TransferOwnership(r, newOwner)

-----------------------------------------------------------------------------
(* Snapshot import, before the suite is active                             *)

ImportRepository(r, a, n, source, timestamp) ==
  /\ StoreRepository(r, a, n, source, timestamp)
  /\ UNCHANGED refVars

\* Mutant: an alias may take an occupied locator.
ImportAlias_Overwrites(r, l) ==
  /\ Exists(r)
  /\ locators' = [locators EXCEPT ![l] = r]
  /\ UNCHANGED <<now, owner, repoName, forkedFrom, reserved, ownerRepositories,
                 ownerIndex, pending, updatedAt, refVars, roleVars>>

\* An alias may carry a name the repository never had in this suite.
ImportAlias(r, l) ==
  /\ Exists(r)
  /\ LocatorAvailable(l)
  /\ locators' = [locators EXCEPT ![l] = r]
  /\ UNCHANGED <<now, owner, repoName, forkedFrom, reserved, ownerRepositories,
                 ownerIndex, pending, updatedAt, refVars, roleVars>>

StoreImportedRef(r, f, sha, packUris, timestamp, updatedBy) ==
  /\ Exists(r)
  /\ packUris # {} /\ Cardinality(packUris) <= MaxPackUris
  /\ ~RefExists(r, f)
  /\ Len(refNames[r]) < MaxRefs
  /\ refs' = [refs EXCEPT ![r][f] =
                [sha |-> sha, packs |-> packUris, updatedAt |-> timestamp,
                 updatedBy |-> updatedBy]]
  /\ refNames' = [refNames EXCEPT ![r] = Append(@, f)]
  /\ UNCHANGED <<now, identityVars, updatedAt, roleVars>>

StoreImportedCollaborator(r, account, role) ==
  /\ Exists(r)
  /\ account \notin {NoAccount, owner[r]}
  /\ role # "None"
  /\ roles[r][account] = "None"
  /\ AddCollaborator(r, account)
  /\ roles' = [roles EXCEPT ![r][account] = role]
  /\ UNCHANGED <<now, identityVars, updatedAt, refVars>>

Tick ==
  /\ now < MaxTime
  /\ now' = now + 1
  /\ UNCHANGED <<identityVars, updatedAt, refVars, roleVars>>

-----------------------------------------------------------------------------
(* What the contract keeps                                                 *)

\* The owner and name of a repository resolve to it, and no locator or
\* reservation names a repository that does not exist.
CanonicalLocatorResolves ==
  /\ \A r \in RepoIds : Exists(r) => locators[<<owner[r], repoName[r]>>] = r
  /\ \A l \in Locators : \A r \in {locators[l], reserved[l]} \ {NoRepo} : Exists(r)

\* Reservations are exactly the targets of pending transfers, and nothing has
\* taken a reserved locator: an offered transfer can be accepted in its window
\* whatever the other accounts did since beginOwnershipTransfer.
ReservationMatchesTransfer ==
  \A l \in Locators, r \in RepoIds :
    /\ reserved[l] = r <=> pending[r].newOwner # NoAccount
                           /\ l = <<pending[r].newOwner, repoName[r]>>
    /\ reserved[l] = r => locators[l] = NoRepo

\* _ownerRepositories and _ownerRepositoryIndexes agree through every swap-and-
\* pop: the index of a repository points at it in its owner's list, and lists
\* hold nothing else.
OwnerIndexExact ==
  /\ \A r \in RepoIds : Exists(r) =>
       /\ ownerIndex[r] \in 1..Len(ownerRepositories[owner[r]])
       /\ ownerRepositories[owner[r]][ownerIndex[r]] = r
  /\ \A a \in Accounts : \A i \in 1..Len(ownerRepositories[a]) :
       /\ owner[ownerRepositories[a][i]] = a
       /\ ownerIndex[ownerRepositories[a][i]] = i

\* _refNames lists exactly the refs that exist, each once, through creation,
\* fork, import and deletion by swap-and-pop, and stays within the limit.
RefNamesExact ==
  \A r \in RepoIds :
    /\ \A f \in Refs : RefExists(r, f) <=> \E i \in 1..Len(refNames[r]) : refNames[r][i] = f
    /\ \A i, j \in 1..Len(refNames[r]) : refNames[r][i] = refNames[r][j] => i = j
    /\ Len(refNames[r]) <= MaxRefs
    /\ \A f \in Refs : Cardinality(refs[r][f].packs) <= MaxPackUris
                       /\ (RefExists(r, f) => refs[r][f].packs # {})

\* _collaborators, _collaboratorIndexes and _roles agree.
CollaboratorIndexExact ==
  \A r \in RepoIds :
    /\ \A a \in Accounts :
         LET i == collaboratorIndex[r][a] IN
         /\ roles[r][a] # "None" <=> i # 0
         /\ i # 0 => i \in 1..Len(collaborators[r]) /\ collaborators[r][i] = a
    /\ \A i \in 1..Len(collaborators[r]) : collaboratorIndex[r][collaborators[r][i]] = i
    /\ Len(collaborators[r]) <= MaxCollaborators
=============================================================================

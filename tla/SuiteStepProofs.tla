-------------------------- MODULE SuiteStepProofs -----------------------------
(***************************************************************************)
(* Facts about RepositoryCore: lists kept by swap-and-pop and their        *)
(* positions, the type of the state after every function of the contract,  *)
(* and what those functions keep. Every locator names what it named,       *)
(* reservations are those of the pending transfers, the repositories of an *)
(* owner, the collaborators and the refs of a repository have exact        *)
(* positions, and every change of a ref is recorded with its author.       *)
(*                                                                         *)
(* Then the steps of the suite, reduced to the few that touch ownership,   *)
(* the privileges of the owner, roles or refs; and the types, which every  *)
(* step keeps.  One lemma per function of the contracts; the removals by   *)
(* swap-and-pop need the exactness of the list they remove from, which     *)
(* TypeStep therefore assumes and SuiteProofs discharges.                  *)
(***************************************************************************)
EXTENDS Suite, TLAPS

USE CoreAssumption, NoRepoAssumption

\* Swap-and-pop at a position of the list leaves a list of the same kind, one
\* shorter, with the last element in that position.
LEMMA SwapPopSequence ==
  ASSUME NEW S, NEW s \in Seq(S), NEW i \in 1..Len(s)
  PROVE  /\ SwapPop(s, i) \in Seq(S)
         /\ Len(SwapPop(s, i)) = Len(s) - 1
         /\ \A j \in 1..(Len(s) - 1) :
              SwapPop(s, i)[j] = IF j = i THEN s[Len(s)] ELSE s[j]
<1> DEFINE t == [s EXCEPT ![i] = s[Len(s)]]
<1>1. s[Len(s)] \in S
  OBVIOUS
<1>2. t \in Seq(S) /\ Len(t) = Len(s)
  BY <1>1
<1>3. \A j \in 1..Len(s) : t[j] = IF j = i THEN s[Len(s)] ELSE s[j]
  OBVIOUS
<1> HIDE DEF t
<1>4. SubSeq(t, 1, Len(s) - 1) \in Seq(S)
  BY <1>2
<1>5. Len(SubSeq(t, 1, Len(s) - 1)) = Len(s) - 1
  BY <1>2
<1>6. \A j \in 1..(Len(s) - 1) : SubSeq(t, 1, Len(s) - 1)[j] = t[j]
  BY <1>2
<1> QED
  BY <1>3, <1>4, <1>5, <1>6, SMTT(60) DEF SwapPop, t

\* Two updates of a function, the form of the moves between lists.
LEMMA TwoUpdates ==
  ASSUME NEW A, NEW B, NEW f \in [A -> B], NEW a \in A, NEW b \in A, NEW x \in B, NEW y \in B
  PROVE  /\ [f EXCEPT ![a] = x, ![b] = y] \in [A -> B]
         /\ \A c \in A : [f EXCEPT ![a] = x, ![b] = y][c]
                           = IF c = b THEN y ELSE IF c = a THEN x ELSE f[c]
BY Zenon

\* The positions and the elements of a list.
LEMMA SeqFacts ==
  ASSUME NEW S, NEW q \in Seq(S)
  PROVE  /\ Len(q) \in Nat /\ DOMAIN q = 1..Len(q)
         /\ \A i \in 1..Len(q) : q[i] \in S
         /\ <<>> \o q = q
  OBVIOUS

\* The positions of a list and of the list with one element more.
LEMMA Positions ==
  \A n \in Nat : /\ n + 1 \in 1..(n + 1) /\ n + 1 # 0
                /\ \A i \in 1..(n + 1) : i # n + 1 => i \in 1..n
  OBVIOUS

\* Counters and times stay in their ranges.
LEMMA NumberFacts ==
  /\ 0 \in Nat /\ 1 \in Nat
  /\ \A m \in Nat : 0 \in 0..m
  /\ \A m \in Nat : \A n \in 0..m : n < m => n + 1 \in 1..m
  /\ \A m, n \in Nat : m + n \in Nat
  /\ \A n \in Nat \ {0} : n + 1 \in Nat \ {0}
OBVIOUS

\* The suite is not active while only the core is deployed.
LEMMA StagesDiffer == ActiveStage # CoreStage
BY DEF ActiveStage, CoreStage

\* What appending to an owner's or collaborator list does to its positions.
LEMMA AppendFacts ==
  ASSUME NEW S, NEW q \in Seq(S), NEW x \in S
  PROVE  /\ Len(q) \in Nat
         /\ Len(Append(q, x)) = Len(q) + 1
         /\ Append(q, x)[Len(q) + 1] = x
         /\ \A j \in 1..Len(q) : Append(q, x)[j] = q[j]
  OBVIOUS

\* idx holds the position, counted from one, of every member of list.
Indexed(list, idx) ==
  /\ \A a \in Accounts : idx[a] # 0 => idx[a] \in 1..Len(list) /\ list[idx[a]] = a
  /\ \A i \in 1..Len(list) : idx[list[i]] = i

\* Adding a collaborator who has no index keeps the list indexed.
LEMMA AddIndexed ==
  ASSUME NEW list \in Seq(Accounts), NEW idx \in [Accounts -> Nat], Indexed(list, idx),
         NEW x \in Accounts, idx[x] = 0
  PROVE  Indexed(Append(list, x), [idx EXCEPT ![x] = Len(list) + 1])
<1> DEFINE longer == Append(list, x)
           after == [idx EXCEPT ![x] = Len(list) + 1]
<1>1. /\ Len(list) \in Nat /\ Len(longer) = Len(list) + 1 /\ longer[Len(list) + 1] = x
      /\ \A j \in 1..Len(list) : longer[j] = list[j]
  BY AppendFacts
<1>2. \A a \in Accounts : after[a] = IF a = x THEN Len(list) + 1 ELSE idx[a]
  BY Zenon
<1>3. \A i \in 1..Len(list) : list[i] \in Accounts /\ list[i] # x
  BY DEF Indexed
<1> HIDE DEF longer, after
<1>4. ASSUME NEW a \in Accounts, after[a] # 0
      PROVE  after[a] \in 1..Len(longer) /\ longer[after[a]] = a
  <2>1. CASE a = x
    BY <1>1, <1>2, <2>1
  <2>2. CASE a # x
    <3>1. idx[a] \in 1..Len(list) /\ list[idx[a]] = a
      BY <1>2, <1>4, <2>2, Zenon DEF Indexed
    <3> QED
      BY <1>1, <1>2, <2>2, <3>1
  <2> QED
    BY <2>1, <2>2, Zenon
<1>5. ASSUME NEW i \in 1..Len(longer) PROVE after[longer[i]] = i
  <2>1. CASE i = Len(list) + 1
    BY <1>1, <1>2, <2>1, Zenon
  <2>2. CASE i # Len(list) + 1
    <3>1. i \in 1..Len(list) /\ longer[i] = list[i]
      BY <1>1, <1>5, <2>2
    <3> QED
      BY <1>2, <1>3, <3>1 DEF Indexed
  <2> QED
    BY <2>1, <2>2, Zenon
<1>6. Indexed(longer, after)
  BY <1>4, <1>5, Zenon DEF Indexed
<1> QED
  BY <1>6, Zenon DEF longer, after

\* Removing a collaborator by swap-and-pop keeps the list indexed, the last
\* collaborator included.
LEMMA RemoveIndexed ==
  ASSUME NEW list \in Seq(Accounts), NEW idx \in [Accounts -> Nat], Indexed(list, idx),
         NEW x \in Accounts, idx[x] # 0
  PROVE  Indexed(SwapPop(list, idx[x]), [idx EXCEPT ![list[Len(list)]] = idx[x], ![x] = 0])
<1> DEFINE k == idx[x]
           last == list[Len(list)]
           shorter == SwapPop(list, k)
           after == [idx EXCEPT ![last] = k, ![x] = 0]
<1>1. k \in 1..Len(list) /\ list[k] = x /\ Len(list) \in Nat
  BY DEF Indexed
<1>2. \A i \in 1..Len(list) : list[i] \in Accounts /\ idx[list[i]] = i
  BY DEF Indexed
<1>3. last \in Accounts /\ idx[last] = Len(list)
  BY <1>1, <1>2
<1>4. /\ Len(shorter) = Len(list) - 1
      /\ \A j \in 1..(Len(list) - 1) : shorter[j] = IF j = k THEN last ELSE list[j]
  <2> HIDE DEF k
  <2> QED
    BY <1>1, SwapPopSequence
<1>5. \A a \in Accounts : after[a] = IF a = x THEN 0 ELSE IF a = last THEN k ELSE idx[a]
  <2> HIDE DEF k, last
  <2> QED
    BY <1>3, Zenon
<1>6. \A a \in Accounts : idx[a] # 0 => idx[a] \in 1..Len(list) /\ list[idx[a]] = a
  BY Zenon DEF Indexed
<1>7. idx[x] = k
  BY Zenon
<1> HIDE DEF k, last, shorter, after
<1>8. ASSUME NEW a \in Accounts, after[a] # 0
      PROVE  after[a] \in 1..Len(shorter) /\ shorter[after[a]] = a
  <2>1. a # x
    BY <1>5, <1>8, Zenon
  <2>2. CASE a = last
    <3>1. k # Len(list)
      BY <1>1, <2>1, <2>2, Zenon DEF last
    <3> QED
      BY <1>1, <1>3, <1>4, <1>5, <2>1, <2>2, <3>1
  <2>3. CASE a # last
    <3>1. idx[a] \in 1..Len(list) /\ list[idx[a]] = a /\ after[a] = idx[a]
      BY <1>5, <1>6, <1>8, <2>1, <2>3, Zenon
    <3>2. idx[a] # Len(list) /\ idx[a] # k
      BY <1>1, <2>1, <2>3, <3>1, Zenon DEF last
    <3> QED
      BY <1>1, <1>4, <3>1, <3>2, SMTT(60)
  <2> QED
    BY <2>2, <2>3, Zenon
<1>9. ASSUME NEW i \in 1..Len(shorter) PROVE after[shorter[i]] = i
  <2>1. i \in 1..(Len(list) - 1) /\ i \in 1..Len(list) /\ i # Len(list)
    BY <1>1, <1>4, <1>9
  <2>2. CASE i = k
    <3>1. last # x
      BY <1>1, <1>3, <1>7, <2>1, <2>2, Zenon
    <3> QED
      BY <1>3, <1>4, <1>5, <2>1, <2>2, <3>1, Zenon
  <2>3. CASE i # k
    <3>1. shorter[i] = list[i] /\ list[i] \in Accounts /\ idx[list[i]] = i
      BY <1>2, <1>4, <2>1, <2>3, Zenon
    <3>2. list[i] # x /\ list[i] # last
      BY <1>3, <1>7, <2>1, <2>3, <3>1, Zenon
    <3> QED
      BY <1>5, <3>1, <3>2, Zenon
  <2> QED
    BY <2>2, <2>3, Zenon
<1>10. Indexed(shorter, after)
  BY <1>8, <1>9, Zenon DEF Indexed
<1> QED
  BY <1>10, Zenon DEF shorter, after, k, last

-----------------------------------------------------------------------------
(* Types                                                                   *)

\* _storeRepository, used by creation, fork and import.
LEMMA StoreRepositoryType ==
  ASSUME CoreTypeOK,
         refs' \in [RepoIds -> [Refs -> GitRef]], refNames' \in [RepoIds -> Seq(Refs)],
         NEW r \in RepoIds, NEW a \in Accounts, NEW n \in Names,
         NEW source \in RepoIds \cup {NoRepo}, NEW timestamp \in Nat,
         StoreRepository(r, a, n, source, timestamp)
  PROVE  CoreTypeOK'
BY DEF CoreTypeOK, StoreRepository, roleVars, Locators

\* forkRepository, with the refs it copies.
LEMMA ForkType ==
  ASSUME CoreTypeOK, NEW caller \in Accounts, NEW source \in RepoIds, NEW n \in Names,
         NEW forkable, ForkRepository(caller, source, n, forkable)
  PROVE  CoreTypeOK'
<1> DEFINE id == <<caller, n>>
           entry(f) == IF RefExists(source, f)
                       THEN [sha |-> refs[source][f].sha, packs |-> refs[source][f].packs,
                             updatedAt |-> now, updatedBy |-> caller]
                       ELSE refs[id][f]
<1>1. id \in RepoIds
  BY Zenon DEF RepoIds
<1>2. /\ refs' = [refs EXCEPT ![id] = [f \in Refs |-> entry(f)]]
      /\ refNames' = [refNames EXCEPT ![id] = refNames[id] \o refNames[source]]
      /\ StoreRepository(id, caller, n, source, now)
  BY Zenon DEF ForkRepository
<1> HIDE DEF id
<1>3. ASSUME NEW f \in Refs PROVE entry(f) \in GitRef
  <2>1. refs[source][f] \in GitRef /\ refs[id][f] \in GitRef /\ now \in Nat
    BY <1>1 DEF CoreTypeOK
  <2> QED
    BY <2>1, Zenon DEF GitRef
<1> DEFINE copied == [f \in Refs |-> entry(f)]
<1> HIDE DEF entry
<1>a. copied \in [Refs -> GitRef]
  BY <1>3, Zenon
<1> HIDE DEF copied
<1>4. refs' \in [RepoIds -> [Refs -> GitRef]]
  BY <1>1, <1>2, <1>a, Zenon DEF CoreTypeOK, copied
<1>5. refNames' \in [RepoIds -> Seq(Refs)]
  BY <1>1, <1>2 DEF CoreTypeOK
<1>6. now \in Nat
  BY Zenon DEF CoreTypeOK
<1> QED
  BY <1>1, <1>2, <1>4, <1>5, <1>6, StoreRepositoryType, Zenon

\* updateMetadata and the updatedAt that moderation touches.
LEMMA TouchMetadataType ==
  ASSUME CoreTypeOK, NEW r \in RepoIds, TouchMetadata(r)
  PROVE  CoreTypeOK'
BY Zenon DEF CoreTypeOK, TouchMetadata, identityVars, refVars, roleVars

\* updateRef.
LEMMA UpdateRefType ==
  ASSUME CoreTypeOK, NEW caller \in Accounts, NEW r \in RepoIds, NEW f \in Refs,
         NEW sha \in Shas, NEW p \in SUBSET Packs, NEW expected, NEW force \in BOOLEAN,
         NEW mutable, UpdateRef(caller, r, f, sha, p, expected, force, mutable)
  PROVE  CoreTypeOK'
<1> DEFINE merged == IF force \/ refs[r][f].packs = {} THEN p ELSE refs[r][f].packs \cup p
           entry == [sha |-> sha, packs |-> merged, updatedAt |-> now, updatedBy |-> caller]
<1>1. refs' = [refs EXCEPT ![r][f] = entry]
  BY Zenon DEF UpdateRef
<1>2. entry \in GitRef
  BY DEF CoreTypeOK, GitRef
<1> HIDE DEF entry
<1>3. refs' \in [RepoIds -> [Refs -> GitRef]]
  BY <1>1, <1>2, Zenon DEF CoreTypeOK
<1>4. refNames' \in [RepoIds -> Seq(Refs)]
  BY DEF CoreTypeOK, UpdateRef
<1>5. updatedAt' \in [RepoIds -> Nat]
  BY Zenon DEF CoreTypeOK, UpdateRef
<1>6. UNCHANGED <<now, identityVars, roleVars>>
  BY Zenon DEF UpdateRef
<1> QED
  BY <1>3, <1>4, <1>5, <1>6, Zenon DEF CoreTypeOK, identityVars, roleVars

\* deleteRef, whose swap-and-pop needs the position of the name to be in the
\* list.
LEMMA DeleteRefType ==
  ASSUME CoreTypeOK, NEW caller \in Accounts, NEW r \in RepoIds, NEW f \in Refs,
         NEW mutable, DeleteRef(caller, r, f, mutable)
  PROVE  CoreTypeOK'
<1>1. refs' \in [RepoIds -> [Refs -> GitRef]]
  BY Zenon DEF CoreTypeOK, DeleteRef, GitRef, NoRef
<1>2. PICK i \in DOMAIN refNames[r] : refNames' = [refNames EXCEPT ![r] = SwapPop(@, i)]
  BY ZenonT(60) DEF DeleteRef
<1>3. SwapPop(refNames[r], i) \in Seq(Refs)
  BY <1>2, SwapPopSequence DEF CoreTypeOK
<1>4. refNames' \in [RepoIds -> Seq(Refs)]
  BY <1>2, <1>3, Zenon DEF CoreTypeOK
<1> QED
  BY <1>1, <1>4, ZenonT(60) DEF CoreTypeOK, DeleteRef, identityVars, roleVars

\* setCollaborator: the removal needs the index to be exact.
LEMMA CollaboratorType ==
  ASSUME CoreTypeOK, CollaboratorIndexExact, NEW caller \in Accounts, NEW r \in RepoIds,
         NEW account \in CollaboratorAccounts, NEW role \in Roles,
         SetCollaborator(caller, r, account, role)
  PROVE  CoreTypeOK'
<1>1. account \in Accounts
  BY Zenon DEF SetCollaborator
<1>2. roles' \in [RepoIds -> [Accounts -> Roles]]
  BY <1>1, Zenon DEF CoreTypeOK, SetCollaborator
<1> DEFINE listTypes == /\ collaborators' \in [RepoIds -> Seq(Accounts)]
                        /\ collaboratorIndex' \in [RepoIds -> [Accounts -> Nat]]
<1>3. ASSUME AddCollaborator(r, account) PROVE listTypes
  BY <1>1, <1>3 DEF CoreTypeOK, AddCollaborator
<1>4. ASSUME RemoveCollaborator(r, account) PROVE listTypes
  <2> DEFINE index == collaboratorIndex[r][account]
             last == collaborators[r][Len(collaborators[r])]
  <2>1. CASE index = 0
    BY <1>1, <1>4, <2>1, Zenon DEF RemoveCollaborator, CoreTypeOK
  <2>2. CASE index # 0
    <3>1. /\ index \in 1..Len(collaborators[r])
          /\ collaborators[r] \in Seq(Accounts)
      BY <1>1, <2>2 DEF CollaboratorIndexExact, CoreTypeOK
    <3>2. last \in Accounts
      BY <3>1
    <3>3. SwapPop(collaborators[r], index) \in Seq(Accounts)
      BY <3>1, SwapPopSequence, Zenon
    <3> HIDE DEF index, last
    <3>4. /\ collaborators' = [collaborators EXCEPT ![r] = SwapPop(collaborators[r], index)]
          /\ collaboratorIndex' = [collaboratorIndex EXCEPT
                 ![r] = [collaboratorIndex[r] EXCEPT ![last] = index, ![account] = 0]]
      BY <1>4, <2>2, Zenon DEF RemoveCollaborator, index, last
    <3>a. index \in Nat /\ collaboratorIndex[r] \in [Accounts -> Nat]
      BY <1>1 DEF CoreTypeOK, index
    <3>5. [collaboratorIndex[r] EXCEPT ![last] = index, ![account] = 0] \in [Accounts -> Nat]
      BY <3>a, <3>2, <1>1, TwoUpdates, ZenonT(60)
    <3> QED
      BY <3>3, <3>4, <3>5, ZenonT(60) DEF CoreTypeOK
  <2> QED
    BY <2>1, <2>2, Zenon
<1>5. listTypes
  BY <1>3, <1>4, ZenonT(60) DEF SetCollaborator, CoreTypeOK
<1> QED
  BY <1>2, <1>5, ZenonT(60) DEF CoreTypeOK, SetCollaborator, identityVars, refVars

\* beginOwnershipTransfer.
LEMMA BeginTransferType ==
  ASSUME CoreTypeOK, NEW caller \in Accounts, NEW r \in RepoIds, NEW a \in TransferTargets,
         NEW recoveryPending, BeginOwnershipTransfer(caller, r, a, recoveryPending)
  PROVE  CoreTypeOK'
<1>1. a \in Accounts
  BY Zenon DEF BeginOwnershipTransfer
<1>2. <<a, repoName[r]>> \in Locators
  BY <1>1, Zenon DEF CoreTypeOK, Locators
<1>3. [newOwner |-> a, executeAfter |-> now + TransferDelay,
       expiresAt |-> now + TransferDelay + TransferWindow] \in Transfer
  BY <1>1 DEF CoreTypeOK, Transfer
<1> QED
  BY <1>2, <1>3, ZenonT(60) DEF CoreTypeOK, BeginOwnershipTransfer, refVars, roleVars

\* _clearPending, the whole of cancelling and expiring an offer.
LEMMA ClearPendingType ==
  ASSUME CoreTypeOK, NEW r \in RepoIds, ClearPending(r)
  PROVE  CoreTypeOK'
<1>1. NoTransfer \in Transfer
  BY Zenon DEF NoTransfer, Transfer
<1> QED
  BY <1>1, ZenonT(60) DEF CoreTypeOK, ClearPending, refVars, roleVars

\* _transferOwnership: the move between lists needs the index to be exact.
LEMMA TransferOwnershipType ==
  ASSUME CoreTypeOK, OwnerIndexExact, NEW r \in RepoIds, NEW a \in Accounts, Exists(r),
         TransferOwnership(r, a)
  PROVE  CoreTypeOK'
<1> DEFINE old == owner[r]
           list == ownerRepositories[old]
           last == list[Len(list)]
<1>1. /\ old \in Accounts
      /\ list \in Seq(RepoIds)
      /\ ownerIndex[r] \in 1..Len(list)
  BY DEF CoreTypeOK, OwnerIndexExact, Exists
<1>2. last \in RepoIds
  BY <1>1
<1>3. SwapPop(list, ownerIndex[r]) \in Seq(RepoIds)
  BY <1>1, SwapPopSequence, Zenon
<1>4. ownerRepositories' \in [Accounts -> Seq(RepoIds)]
  <2>1. ownerRepositories' = [ownerRepositories EXCEPT
           ![old] = SwapPop(list, ownerIndex[r]), ![a] = Append(ownerRepositories[a], r)]
    BY Zenon DEF TransferOwnership, MoveOwnerIndex
  <2>2. Append(ownerRepositories[a], r) \in Seq(RepoIds)
    BY DEF CoreTypeOK
  <2> HIDE DEF old, list
  <2> QED
    BY <2>1, <2>2, <1>1, <1>3, TwoUpdates, ZenonT(60) DEF CoreTypeOK
<1>5. ownerIndex' \in [RepoIds -> Nat]
  <2>1. ownerIndex' = [ownerIndex EXCEPT
           ![last] = ownerIndex[r], ![r] = Len(ownerRepositories[a]) + 1]
    BY Zenon DEF TransferOwnership, MoveOwnerIndex
  <2>2. Len(ownerRepositories[a]) + 1 \in Nat /\ ownerIndex[r] \in Nat
    BY DEF CoreTypeOK
  <2> HIDE DEF last
  <2> QED
    BY <2>1, <2>2, <1>2, TwoUpdates, ZenonT(60) DEF CoreTypeOK
<1>6. <<old, repoName[r]>> \in Locators /\ <<a, repoName[r]>> \in Locators
  BY <1>1, Zenon DEF Locators, CoreTypeOK
<1>7. locators' \in [Locators -> RepoIds \cup {NoRepo}]
  BY <1>6, TwoUpdates, ZenonT(60) DEF CoreTypeOK, TransferOwnership, MovedLocators
<1>8. NoTransfer \in Transfer
  BY Zenon DEF NoTransfer, Transfer
<1> QED
  BY <1>4, <1>5, <1>6, <1>7, <1>8, ZenonT(60) DEF CoreTypeOK, TransferOwnership, refVars, roleVars

\* The import of an alias.
LEMMA ImportAliasType ==
  ASSUME CoreTypeOK, NEW r \in RepoIds, NEW l \in Locators, ImportAlias(r, l)
  PROVE  CoreTypeOK'
BY Zenon DEF CoreTypeOK, ImportAlias, refVars, roleVars

\* _storeImportedRef.
LEMMA ImportedRefType ==
  ASSUME CoreTypeOK, NEW r \in RepoIds, NEW f \in Refs, NEW sha \in Shas,
         NEW p \in SUBSET Packs, NEW timestamp \in Nat, NEW a \in Accounts,
         StoreImportedRef(r, f, sha, p, timestamp, a)
  PROVE  CoreTypeOK'
<1> DEFINE entry == [sha |-> sha, packs |-> p, updatedAt |-> timestamp, updatedBy |-> a]
<1>1. entry \in GitRef
  BY Zenon DEF GitRef
<1>2. refs' = [refs EXCEPT ![r][f] = entry]
  BY Zenon DEF StoreImportedRef
<1> HIDE DEF entry
<1>3. refs' \in [RepoIds -> [Refs -> GitRef]]
  BY <1>1, <1>2, Zenon DEF CoreTypeOK
<1>4. refNames' \in [RepoIds -> Seq(Refs)]
  BY DEF CoreTypeOK, StoreImportedRef
<1> QED
  BY <1>3, <1>4, ZenonT(60) DEF CoreTypeOK, StoreImportedRef, identityVars, roleVars

\* _storeImportedCollaborator.
LEMMA ImportedCollaboratorType ==
  ASSUME CoreTypeOK, NEW r \in RepoIds, NEW account \in CollaboratorAccounts,
         NEW role \in Roles, StoreImportedCollaborator(r, account, role)
  PROVE  CoreTypeOK'
<1>1. account \in Accounts
  BY Zenon DEF StoreImportedCollaborator
<1> QED
  BY <1>1 DEF CoreTypeOK, StoreImportedCollaborator, AddCollaborator, identityVars, refVars

\* The passing of block time.
LEMMA TickType ==
  ASSUME CoreTypeOK, Tick
  PROVE  CoreTypeOK'
BY SMTT(60) DEF CoreTypeOK, Tick, identityVars, refVars, roleVars

\* RepositoryCore as deployed.
LEMMA CoreInitType == CoreInit => CoreTypeOK
BY DEF CoreInit, CoreTypeOK, NoTransfer, Transfer, NoRef, GitRef, Roles, RepoIds

-----------------------------------------------------------------------------
(* The steps that touch the identity of repositories                       *)

Created ==
  \E r \in RepoIds, a \in Accounts, n \in Names, source \in RepoIds \cup {NoRepo}, t \in Nat :
    StoreRepository(r, a, n, source, t)

Aliased == \E r \in RepoIds, l \in Locators : ImportAlias(r, l)

Offered ==
  \E caller \in Accounts, r \in RepoIds, a \in Accounts, blocked \in BOOLEAN :
    BeginOwnershipTransfer(caller, r, a, blocked)

Withdrawn == \E r \in RepoIds : ClearPending(r)

Moved ==
  \E r \in RepoIds, a \in Accounts :
    /\ Exists(r)
    /\ TransferOwnership(r, a)
    /\ pending[r].newOwner = a \/ (pending[r].newOwner = NoAccount /\ a # owner[r])

IdentityStep ==
  Created \/ Aliased \/ Offered \/ Withdrawn \/ Moved \/ UNCHANGED identityVars

\* The steps that may touch the roles.
RoleStep ==
  \/ UNCHANGED roleVars
  \/ \E caller \in Accounts, r \in RepoIds, a \in Accounts, role \in Roles :
       SetCollaborator(caller, r, a, role) \/ StoreImportedCollaborator(r, a, role)

-----------------------------------------------------------------------------
(* Locators and reservations                                               *)

LocatorInv == CoreTypeOK /\ CanonicalLocatorResolves /\ ReservationMatchesTransfer

\* A locator l that is reserved for holder and names used, against a repository s
\* of the given name that is offered to offered.
Matches(l, s, holder, used, offered, name) ==
  /\ holder = s <=> offered # NoAccount /\ l = <<offered, name>>
  /\ holder = s => used = NoRepo

\* Reservations, one locator and one repository at a time, before and after a step.
LEMMA ReservationsUnfold ==
  /\ ReservationMatchesTransfer <=>
       \A l \in Locators, s \in RepoIds :
         Matches(l, s, reserved[l], locators[l], pending[s].newOwner, repoName[s])
  /\ ReservationMatchesTransfer' <=>
       \A l \in Locators, s \in RepoIds :
         Matches(l, s, reserved'[l], locators'[l], pending'[s].newOwner, repoName'[s])
BY Zenon DEF ReservationMatchesTransfer, Matches

\* The locator a transfer reserves for the offered owner is that owner's, is
\* free, and the offered owner is not the present one.
LEMMA LocatorFacts ==
  ASSUME LocatorInv, NEW r \in RepoIds
  PROVE  /\ <<owner[r], repoName[r]>> \in Locators <=> Exists(r)
         /\ pending[r].newOwner \in Accounts \cup {NoAccount}
         /\ pending[r].newOwner # NoAccount =>
              /\ <<pending[r].newOwner, repoName[r]>> \in Locators
              /\ reserved[<<pending[r].newOwner, repoName[r]>>] = r
              /\ locators[<<pending[r].newOwner, repoName[r]>>] = NoRepo
              /\ Exists(r)
              /\ pending[r].newOwner # owner[r]
<1>1. pending[r].newOwner \in Accounts \cup {NoAccount}
  BY Zenon DEF LocatorInv, CoreTypeOK, Transfer
<1>2. /\ owner[r] \in Accounts \cup {NoAccount}
      /\ repoName[r] \in Names
      /\ <<owner[r], repoName[r]>> \in Locators <=> owner[r] \in Accounts
      /\ <<pending[r].newOwner, repoName[r]>> \in Locators <=> pending[r].newOwner \in Accounts
  BY Zenon DEF LocatorInv, CoreTypeOK, Locators
<1>3. CASE pending[r].newOwner # NoAccount
  <2>1. reserved[<<pending[r].newOwner, repoName[r]>>] = r
    BY <1>1, <1>2, <1>3, Zenon DEF LocatorInv, ReservationMatchesTransfer
  <2>2. locators[<<pending[r].newOwner, repoName[r]>>] = NoRepo
    BY <1>1, <1>2, <1>3, <2>1, Zenon DEF LocatorInv, ReservationMatchesTransfer
  <2>3. Exists(r)
    BY <1>1, <1>2, <1>3, <2>1, Zenon DEF LocatorInv, CanonicalLocatorResolves
  <2>4. pending[r].newOwner # owner[r]
    BY <1>2, <2>2, <2>3, Zenon DEF LocatorInv, CanonicalLocatorResolves
  <2> QED
    BY <1>1, <1>2, <1>3, <2>1, <2>2, <2>3, <2>4, Zenon DEF Exists
<1> QED
  BY <1>1, <1>2, <1>3, Zenon DEF Exists

\* _storeRepository takes a locator that is neither used nor reserved.
LEMMA CreateKeepsLocators ==
  ASSUME LocatorInv, Created
  PROVE  CanonicalLocatorResolves' /\ ReservationMatchesTransfer'
<1>1. PICK r \in RepoIds, a \in Accounts, n \in Names, source \in RepoIds \cup {NoRepo}, t \in Nat :
        StoreRepository(r, a, n, source, t)
  BY Zenon DEF Created
<1> DEFINE l0 == <<a, n>>
<1>2. /\ ~Exists(r) /\ l0 \in Locators /\ locators[l0] = NoRepo /\ reserved[l0] = NoRepo
      /\ \A s \in RepoIds : owner'[s] = IF s = r THEN a ELSE owner[s]
      /\ \A s \in RepoIds : repoName'[s] = IF s = r THEN n ELSE repoName[s]
      /\ \A l \in Locators : locators'[l] = IF l = l0 THEN r ELSE locators[l]
      /\ reserved' = reserved /\ pending' = pending
  BY <1>1, Zenon DEF StoreRepository, LocatorAvailable, LocatorInv, CoreTypeOK, Locators
<1>3. pending[r].newOwner = NoAccount
  BY <1>2, LocatorFacts, ZenonT(60)
<1>4. CanonicalLocatorResolves'
  <2>1. ASSUME NEW s \in RepoIds, Exists(s)' PROVE locators'[<<owner'[s], repoName'[s]>>] = s
    <3>1. CASE s = r
      BY <1>2, <3>1, Zenon
    <3>2. CASE s # r
      <4>1. Exists(s) /\ <<owner[s], repoName[s]>> \in Locators
        BY <1>2, <2>1, <3>2, LocatorFacts, ZenonT(60) DEF Exists
      <4>2. locators[<<owner[s], repoName[s]>>] = s
        BY <4>1, Zenon DEF LocatorInv, CanonicalLocatorResolves
      <4> QED
        BY <1>2, <3>2, <4>1, <4>2, Zenon
    <3> QED
      BY <3>1, <3>2, Zenon
  <2>2. ASSUME NEW l \in Locators, NEW s \in {locators'[l], reserved'[l]} \ {NoRepo}
        PROVE  Exists(s)'
    <3>1. \A q \in RepoIds : Exists(q) => Exists(q)'
      BY <1>2, Zenon DEF Exists
    <3>2. Exists(r)'
      BY <1>2, Zenon DEF Exists
    <3>3. s # r => s \in {locators[l], reserved[l]} \ {NoRepo}
      BY <1>2, Zenon
    <3>4. locators[l] \in RepoIds \cup {NoRepo} /\ reserved[l] \in RepoIds \cup {NoRepo}
      BY Zenon DEF LocatorInv, CoreTypeOK
    <3>5. s \in RepoIds
      BY <3>3, <3>4, Zenon
    <3> QED
      BY <3>1, <3>2, <3>3, <3>5, Zenon DEF LocatorInv, CanonicalLocatorResolves
  <2> QED
    BY <2>1, <2>2, Zenon DEF CanonicalLocatorResolves
<1>5. ReservationMatchesTransfer'
  <2> SUFFICES ASSUME NEW l \in Locators, NEW s \in RepoIds
      PROVE Matches(l, s, reserved'[l], locators'[l], pending'[s].newOwner, repoName'[s])
    BY ReservationsUnfold, Zenon
  <2>1. Matches(l, s, reserved[l], locators[l], pending[s].newOwner, repoName[s])
    BY ReservationsUnfold, Zenon DEF LocatorInv
  <2>2. CASE l = l0
    <3>1. reserved[l] = NoRepo /\ s # NoRepo /\ locators[l] = NoRepo
      BY <1>2, <2>2, NoRepoAssumption, Zenon
    <3>2. reserved'[l] # s /\ reserved[l] # s
      BY <1>2, <3>1, Zenon
    <3>3. ~(pending[s].newOwner # NoAccount /\ l = <<pending[s].newOwner, repoName[s]>>)
      BY <2>1, <3>2, Zenon DEF Matches
    <3>4. CASE s = r
      BY <1>2, <1>3, <3>2, <3>4, Zenon DEF Matches
    <3>5. CASE s # r
      BY <1>2, <3>2, <3>3, <3>5, Zenon DEF Matches
    <3> QED
      BY <3>4, <3>5, Zenon
  <2>3. CASE l # l0 /\ s # r
    <3>1. /\ reserved'[l] = reserved[l] /\ locators'[l] = locators[l]
          /\ pending'[s].newOwner = pending[s].newOwner /\ repoName'[s] = repoName[s]
      BY <1>2, <2>3, Zenon
    <3> QED
      BY <2>1, <3>1, Zenon
  <2>4. CASE l # l0 /\ s = r
    BY <1>2, <1>3, <2>1, <2>4, Zenon DEF Matches
  <2> QED
    BY <2>2, <2>3, <2>4, Zenon
<1> QED
  BY <1>4, <1>5, Zenon

\* Importing an alias takes a locator that is neither used nor reserved.
LEMMA AliasKeepsLocators ==
  ASSUME LocatorInv, Aliased
  PROVE  CanonicalLocatorResolves' /\ ReservationMatchesTransfer'
<1>1. PICK r \in RepoIds, l0 \in Locators : ImportAlias(r, l0)
  BY Zenon DEF Aliased
<1>2. /\ Exists(r) /\ locators[l0] = NoRepo /\ reserved[l0] = NoRepo
      /\ \A l \in Locators : locators'[l] = IF l = l0 THEN r ELSE locators[l]
      /\ owner' = owner /\ repoName' = repoName /\ reserved' = reserved /\ pending' = pending
  BY <1>1, Zenon DEF ImportAlias, LocatorAvailable, LocatorInv, CoreTypeOK
<1>3. CanonicalLocatorResolves'
  <2>1. ASSUME NEW s \in RepoIds, Exists(s) PROVE locators'[<<owner[s], repoName[s]>>] = s
    <3>1. /\ <<owner[s], repoName[s]>> \in Locators
          /\ locators[<<owner[s], repoName[s]>>] = s
      BY <2>1, LocatorFacts, ZenonT(60) DEF LocatorInv, CanonicalLocatorResolves
    <3> QED
      BY <1>2, <3>1, Zenon
  <2> QED
    BY <1>2, <2>1, Zenon DEF LocatorInv, CanonicalLocatorResolves, Exists
<1>4. ReservationMatchesTransfer'
  <2> SUFFICES ASSUME NEW l \in Locators, NEW s \in RepoIds
      PROVE Matches(l, s, reserved'[l], locators'[l], pending'[s].newOwner, repoName'[s])
    BY ReservationsUnfold, Zenon
  <2>1. Matches(l, s, reserved[l], locators[l], pending[s].newOwner, repoName[s])
    BY ReservationsUnfold, Zenon DEF LocatorInv
  <2> QED
    BY <1>2, <2>1, Zenon DEF Matches
<1> QED
  BY <1>3, <1>4, Zenon

\* beginOwnershipTransfer reserves the locator of the offered owner, which is
\* neither used nor reserved, for a repository without another offer.
LEMMA OfferKeepsLocators ==
  ASSUME LocatorInv, Offered
  PROVE  CanonicalLocatorResolves' /\ ReservationMatchesTransfer'
<1>1. PICK caller \in Accounts, r \in RepoIds, a \in Accounts, blocked \in BOOLEAN :
        BeginOwnershipTransfer(caller, r, a, blocked)
  BY Zenon DEF Offered
<1> DEFINE target == <<a, repoName[r]>>
<1>2. /\ Exists(r) /\ target \in Locators /\ locators[target] = NoRepo /\ reserved[target] = NoRepo
      /\ pending[r].newOwner = NoAccount
      /\ \A l \in Locators : reserved'[l] = IF l = target THEN r ELSE reserved[l]
      /\ pending'[r].newOwner = a
      /\ \A s \in RepoIds : s # r => pending'[s] = pending[s]
      /\ owner' = owner /\ repoName' = repoName /\ locators' = locators
  BY <1>1, Zenon DEF BeginOwnershipTransfer, LocatorAvailable, LocatorInv, CoreTypeOK, Locators
<1>3. CanonicalLocatorResolves'
  BY <1>2, ZenonT(30) DEF LocatorInv, CanonicalLocatorResolves, Exists
<1>4. ReservationMatchesTransfer'
  <2> SUFFICES ASSUME NEW l \in Locators, NEW s \in RepoIds
      PROVE Matches(l, s, reserved'[l], locators'[l], pending'[s].newOwner, repoName'[s])
    BY ReservationsUnfold, Zenon
  <2>1. Matches(l, s, reserved[l], locators[l], pending[s].newOwner, repoName[s])
    BY ReservationsUnfold, Zenon DEF LocatorInv
  <2>2. CASE s = r
    BY <1>2, <2>1, <2>2, Zenon DEF Matches
  <2>3. CASE s # r
    <3>1. /\ locators'[l] = locators[l]
          /\ pending'[s].newOwner = pending[s].newOwner /\ repoName'[s] = repoName[s]
      BY <1>2, <2>3, Zenon
    <3>2. CASE l # target
      <4>1. reserved'[l] = reserved[l]
        BY <1>2, <3>2, Zenon
      <4> QED
        BY <2>1, <3>1, <4>1, Zenon
    <3>3. CASE l = target
      <4>1. reserved'[l] # s /\ reserved[l] # s
        <5>1. reserved'[l] = r /\ reserved[l] = NoRepo
          BY <1>2, <3>3, Zenon
        <5>2. s # NoRepo
          BY NoRepoAssumption, Zenon
        <5> QED
          BY <2>3, <5>1, <5>2, Zenon
      <4> QED
        BY <2>1, <3>1, <4>1, Zenon DEF Matches
    <3> QED
      BY <3>2, <3>3, Zenon
  <2> QED
    BY <2>2, <2>3, Zenon
<1> QED
  BY <1>3, <1>4, Zenon

\* _clearPending frees the locator that its own offer reserved and no other.
LEMMA WithdrawKeepsLocators ==
  ASSUME LocatorInv, Withdrawn
  PROVE  CanonicalLocatorResolves' /\ ReservationMatchesTransfer'
<1>1. PICK r \in RepoIds : ClearPending(r)
  BY Zenon DEF Withdrawn
<1> DEFINE target == <<pending[r].newOwner, repoName[r]>>
<1>2. /\ target \in Locators /\ reserved[target] = r
      /\ \A l \in Locators : reserved'[l] = IF l = target THEN NoRepo ELSE reserved[l]
      /\ pending'[r].newOwner = NoAccount
      /\ \A s \in RepoIds : s # r => pending'[s] = pending[s]
      /\ owner' = owner /\ repoName' = repoName /\ locators' = locators
  BY <1>1, LocatorFacts, ZenonT(60) DEF ClearPending, LocatorInv, CoreTypeOK, NoTransfer
<1>3. CanonicalLocatorResolves'
  BY <1>2, Zenon DEF LocatorInv, CanonicalLocatorResolves, Exists
<1>4. ReservationMatchesTransfer'
  <2> SUFFICES ASSUME NEW l \in Locators, NEW s \in RepoIds
      PROVE Matches(l, s, reserved'[l], locators'[l], pending'[s].newOwner, repoName'[s])
    BY ReservationsUnfold, Zenon
  <2>1. Matches(l, s, reserved[l], locators[l], pending[s].newOwner, repoName[s])
    BY ReservationsUnfold, Zenon DEF LocatorInv
  <2>2. CASE s = r
    BY <1>2, <2>1, <2>2, Zenon DEF Matches
  <2>3. CASE s # r
    BY <1>2, <2>1, <2>3, Zenon DEF Matches
  <2> QED
    BY <2>2, <2>3, Zenon
<1> QED
  BY <1>3, <1>4, Zenon

\* A change of owner: the new locator was free, or the repository's own, and
\* the repository's own reservation, if it had one, goes with the transfer.
LEMMA TransferKeepsLocators ==
  ASSUME LocatorInv, Moved
  PROVE  /\ CanonicalLocatorResolves' /\ ReservationMatchesTransfer'
         /\ \A l \in Locators : locators[l] # NoRepo => locators'[l] = locators[l]
<1>1. PICK r \in RepoIds, a \in Accounts :
        /\ Exists(r) /\ TransferOwnership(r, a)
        /\ pending[r].newOwner \in {a, NoAccount}
  BY Zenon DEF Moved
<1> DEFINE old == <<owner[r], repoName[r]>>
           new == <<a, repoName[r]>>
<1>2. /\ old \in Locators /\ new \in Locators
      /\ locators[old] = r /\ locators[new] \in {NoRepo, r} /\ reserved[new] \in {NoRepo, r}
      /\ \A l \in Locators : locators'[l] = IF l \in {old, new} THEN r ELSE locators[l]
      /\ \A l \in Locators : reserved'[l] = IF l = new THEN NoRepo ELSE reserved[l]
      /\ \A s \in RepoIds : owner'[s] = IF s = r THEN a ELSE owner[s]
      /\ repoName' = repoName
      /\ pending'[r].newOwner = NoAccount
      /\ \A s \in RepoIds : s # r => pending'[s] = pending[s]
  <2>1. old \in Locators /\ new \in Locators /\ locators[old] = r
    BY <1>1, LocatorFacts, Zenon DEF LocatorInv, CanonicalLocatorResolves, CoreTypeOK, Locators
  <2> QED
    BY <1>1, <2>1, ZenonT(60)
    DEF TransferOwnership, MovedLocators, LocatorAvailableFor, LocatorInv, CoreTypeOK, NoTransfer
<1>3. CanonicalLocatorResolves'
  <2>1. ASSUME NEW s \in RepoIds, Exists(s)' PROVE locators'[<<owner'[s], repoName'[s]>>] = s
    <3>1. CASE s = r
      BY <1>2, <3>1, Zenon
    <3>2. CASE s # r
      <4>1. Exists(s) /\ <<owner[s], repoName[s]>> \in Locators
        BY <1>2, <2>1, <3>2, LocatorFacts, ZenonT(60) DEF Exists
      <4>2. locators[<<owner[s], repoName[s]>>] = s
        BY <4>1, Zenon DEF LocatorInv, CanonicalLocatorResolves
      <4> QED
        BY <1>2, <3>2, <4>1, <4>2
    <3> QED
      BY <3>1, <3>2, Zenon
  <2>2. ASSUME NEW l \in Locators, NEW s \in {locators'[l], reserved'[l]} \ {NoRepo}
        PROVE  Exists(s)'
    <3>1. \A q \in RepoIds : Exists(q) => Exists(q)'
      BY <1>2, Zenon DEF Exists
    <3>2. s = r \/ s \in {locators[l], reserved[l]} \ {NoRepo}
      BY <1>2, Zenon
    <3>3. s \in RepoIds
      BY <3>2 DEF LocatorInv, CoreTypeOK
    <3> QED
      BY <1>1, <3>1, <3>2, <3>3, Zenon DEF LocatorInv, CanonicalLocatorResolves
  <2> QED
    BY <2>1, <2>2, Zenon DEF CanonicalLocatorResolves
<1>4. ReservationMatchesTransfer'
  <2> SUFFICES ASSUME NEW l \in Locators, NEW s \in RepoIds
      PROVE Matches(l, s, reserved'[l], locators'[l], pending'[s].newOwner, repoName'[s])
    BY ReservationsUnfold, Zenon
  <2>1. Matches(l, s, reserved[l], locators[l], pending[s].newOwner, repoName[s])
    BY ReservationsUnfold, Zenon DEF LocatorInv
  <2>2. reserved[old] # s
    <3>1. Matches(old, s, reserved[old], locators[old], pending[s].newOwner, repoName[s])
      BY <1>2, ReservationsUnfold, Zenon DEF LocatorInv
    <3>2. locators[old] # NoRepo
      BY <1>2, NoRepoAssumption, Zenon
    <3> QED
      BY <3>1, <3>2, Zenon DEF Matches
  <2>3. CASE s = r
    BY <1>1, <1>2, <2>1, <2>3, Zenon DEF Matches
  <2>4. CASE s # r
    <3>1. pending'[s].newOwner = pending[s].newOwner /\ repoName'[s] = repoName[s]
      BY <1>2, <2>4, Zenon
    <3>2. CASE l = new
      <4>1. reserved'[l] # s /\ reserved[l] # s
        BY <1>2, <2>4, <3>2, NoRepoAssumption, Zenon
      <4> QED
        BY <2>1, <3>1, <4>1, Zenon DEF Matches
    <3>3. CASE l # new /\ l = old
      <4>1. reserved'[l] = reserved[l] /\ reserved[l] # s
        BY <1>2, <2>2, <3>3, Zenon
      <4> QED
        BY <2>1, <3>1, <4>1, Zenon DEF Matches
    <3>4. CASE l # new /\ l # old
      <4>1. reserved'[l] = reserved[l] /\ locators'[l] = locators[l]
        BY <1>2, <3>4, Zenon
      <4> QED
        BY <2>1, <3>1, <4>1, Zenon
    <3> QED
      BY <3>2, <3>3, <3>4, Zenon
  <2> QED
    BY <2>3, <2>4, Zenon
<1>5. \A l \in Locators : locators[l] # NoRepo => locators'[l] = locators[l]
  BY <1>2, Zenon
<1> QED
  BY <1>3, <1>4, <1>5, Zenon

\* Every step keeps the locators and reservations, and no step reassigns a
\* locator that names a repository.
LEMMA LocatorStep ==
  ASSUME LocatorInv, IdentityStep
  PROVE  /\ CanonicalLocatorResolves' /\ ReservationMatchesTransfer'
         /\ \A l \in Locators : locators[l] # NoRepo => locators'[l] = locators[l]
<1>1. CASE Created
  <2>1. \A l \in Locators : locators[l] # NoRepo => locators'[l] = locators[l]
    BY <1>1, ZenonT(60) DEF Created, StoreRepository, LocatorAvailable, LocatorInv, CoreTypeOK
  <2> QED
    BY <1>1, <2>1, CreateKeepsLocators, Zenon
<1>2. CASE Aliased
  <2>1. \A l \in Locators : locators[l] # NoRepo => locators'[l] = locators[l]
    BY <1>2, Zenon DEF Aliased, ImportAlias, LocatorAvailable, LocatorInv, CoreTypeOK
  <2> QED
    BY <1>2, <2>1, AliasKeepsLocators, Zenon
<1>3. CASE Offered
  BY <1>3, OfferKeepsLocators, ZenonT(60) DEF Offered, BeginOwnershipTransfer
<1>4. CASE Withdrawn
  BY <1>4, WithdrawKeepsLocators, ZenonT(60) DEF Withdrawn, ClearPending
<1>5. CASE Moved
  BY <1>5, TransferKeepsLocators, Zenon
<1>6. CASE UNCHANGED identityVars
  BY <1>6 DEF identityVars, LocatorInv, CanonicalLocatorResolves, ReservationMatchesTransfer, Exists
<1> QED
  BY <1>1, <1>2, <1>3, <1>4, <1>5, <1>6, Zenon DEF IdentityStep

-----------------------------------------------------------------------------
(* The owners' lists of repositories                                       *)

\* _storeRepository appends the repository to its owner's list and records the
\* position.
LEMMA CreateKeepsOwnerIndex ==
  ASSUME CoreTypeOK, OwnerIndexExact, Created
  PROVE  OwnerIndexExact'
<1>1. PICK r \in RepoIds, a \in Accounts, n \in Names, source \in RepoIds \cup {NoRepo}, t \in Nat :
        StoreRepository(r, a, n, source, t)
  BY Zenon DEF Created
<1> DEFINE list == ownerRepositories[a]
           longer == Append(list, r)
<1>2. /\ ~Exists(r)
      /\ list \in Seq(RepoIds)
      /\ \A s \in RepoIds : owner'[s] = IF s = r THEN a ELSE owner[s]
      /\ \A s \in RepoIds : ownerIndex'[s] = IF s = r THEN Len(list) + 1 ELSE ownerIndex[s]
      /\ \A b \in Accounts : ownerRepositories'[b] = IF b = a THEN longer
                                                     ELSE ownerRepositories[b]
  BY <1>1, Zenon DEF StoreRepository, CoreTypeOK
<1>3. \A b \in Accounts : ownerRepositories[b] \in Seq(RepoIds)
  BY Zenon DEF CoreTypeOK
<1>4. \A b \in Accounts : \A i \in 1..Len(ownerRepositories[b]) :
        /\ ownerRepositories[b][i] \in RepoIds
        /\ ownerRepositories[b][i] # r
  BY <1>2, <1>3 DEF OwnerIndexExact, Exists
<1>7. /\ Len(list) \in Nat
      /\ Len(longer) = Len(list) + 1
      /\ longer[Len(list) + 1] = r
      /\ \A j \in 1..Len(list) : longer[j] = list[j]
  BY <1>2, AppendFacts, SMTT(60)
<1>8. \A s \in RepoIds : owner[s] # NoAccount =>
        /\ owner[s] \in Accounts
        /\ ownerIndex[s] \in 1..Len(ownerRepositories[owner[s]])
        /\ ownerRepositories[owner[s]][ownerIndex[s]] = s
  BY DEF OwnerIndexExact, Exists, CoreTypeOK
<1> HIDE DEF list, longer
<1>5. ASSUME NEW s \in RepoIds, Exists(s)'
      PROVE  /\ ownerIndex'[s] \in 1..Len(ownerRepositories'[owner'[s]])
             /\ ownerRepositories'[owner'[s]][ownerIndex'[s]] = s
  <2>1. CASE s = r
    BY <1>2, <1>7, <2>1
  <2>2. CASE s # r
    <3>1. owner'[s] = owner[s] /\ owner[s] # NoAccount /\ ownerIndex'[s] = ownerIndex[s]
      BY <1>2, <1>5, <2>2, Zenon DEF Exists
    <3>2. CASE owner[s] = a
      BY <1>2, <1>7, <1>8, <3>1, <3>2 DEF list
    <3>3. CASE owner[s] # a
      BY <1>2, <1>8, <3>1, <3>3
    <3> QED
      BY <3>2, <3>3, Zenon
  <2> QED
    BY <2>1, <2>2, Zenon
<1>6. ASSUME NEW b \in Accounts, NEW i \in 1..Len(ownerRepositories'[b])
      PROVE  /\ owner'[ownerRepositories'[b][i]] = b
             /\ ownerIndex'[ownerRepositories'[b][i]] = i
  <2>1. CASE b # a
    BY <1>2, <1>4, <1>6, <2>1 DEF OwnerIndexExact
  <2>2. CASE b = a /\ i = Len(list) + 1
    BY <1>2, <1>7, <2>2, Zenon
  <2>3. CASE b = a /\ i # Len(list) + 1
    <3>1. i \in 1..Len(list) /\ ownerRepositories'[b][i] = list[i]
      BY <1>2, <1>6, <1>7, <2>3
    <3> QED
      BY <1>2, <1>4, <2>3, <3>1 DEF OwnerIndexExact, list
  <2> QED
    BY <2>1, <2>2, <2>3, Zenon
<1> QED
  BY <1>5, <1>6, Zenon DEF OwnerIndexExact

\* _moveOwnerIndex removes the repository from the old owner's list by swap-
\* and-pop, corrects the position of the one that moved, and appends it to the
\* new owner's list.
LEMMA TransferKeepsOwnerIndex ==
  ASSUME LocatorInv, OwnerIndexExact, Moved
  PROVE  OwnerIndexExact'
<1>1. PICK r \in RepoIds, a \in Accounts :
        /\ Exists(r) /\ TransferOwnership(r, a)
        /\ pending[r].newOwner = a \/ a # owner[r]
  BY Zenon DEF Moved
<1> DEFINE old == owner[r]
           list == ownerRepositories[old]
           index == ownerIndex[r]
           last == list[Len(list)]
           gained == ownerRepositories[a]
           longer == Append(gained, r)
           shorter == SwapPop(list, index)
<1>2. old \in Accounts /\ a # old
  <2>1. pending[r].newOwner = a => a # owner[r]
    BY <1>1, LocatorFacts, ZenonT(60)
  <2> QED
    BY <1>1, <2>1, Zenon DEF LocatorInv, CoreTypeOK, Exists
<1>3. \A b \in Accounts : /\ ownerRepositories[b] \in Seq(RepoIds)
                          /\ Len(ownerRepositories[b]) \in Nat
                          /\ \A i \in 1..Len(ownerRepositories[b]) :
                               ownerRepositories[b][i] \in RepoIds
  BY DEF LocatorInv, CoreTypeOK
<1>4. index \in 1..Len(list) /\ list[index] = r /\ last \in RepoIds
      /\ owner[last] = old /\ ownerIndex[last] = Len(list)
  BY <1>1, <1>2, <1>3 DEF OwnerIndexExact
<1>5. /\ \A s \in RepoIds : owner'[s] = IF s = r THEN a ELSE owner[s]
      /\ \A s \in RepoIds : ownerIndex'[s] = IF s = r THEN Len(gained) + 1
                                             ELSE IF s = last THEN index ELSE ownerIndex[s]
      /\ \A b \in Accounts : ownerRepositories'[b] =
                               IF b = a THEN longer
                               ELSE IF b = old THEN shorter
                               ELSE ownerRepositories[b]
  <2>1. /\ owner' = [owner EXCEPT ![r] = a]
        /\ ownerIndex' = [ownerIndex EXCEPT ![last] = index, ![r] = Len(gained) + 1]
        /\ ownerRepositories' = [ownerRepositories EXCEPT
             ![old] = shorter, ![a] = longer]
    BY <1>1, Zenon DEF TransferOwnership, MoveOwnerIndex
  <2>2. /\ owner \in [RepoIds -> Accounts \cup {NoAccount}]
        /\ ownerIndex \in [RepoIds -> Nat]
        /\ ownerRepositories \in [Accounts -> Seq(RepoIds)]
    BY Zenon DEF LocatorInv, CoreTypeOK
  <2> HIDE DEF old, list, index, last, gained, longer, shorter
  <2> QED
    BY <2>1, <2>2, <1>2, <1>4, Zenon
<1>6. /\ Len(shorter) = Len(list) - 1
      /\ \A j \in 1..(Len(list) - 1) :
           shorter[j] = IF j = index THEN last ELSE list[j]
  <2>1. list \in Seq(RepoIds) /\ index \in 1..Len(list)
    BY <1>2, <1>3, <1>4, Zenon
  <2> HIDE DEF list, index
  <2> QED
    BY <2>1, SwapPopSequence, Zenon DEF last, shorter
<1>7. \A b \in Accounts : \A i \in 1..Len(ownerRepositories[b]) :
        /\ owner[ownerRepositories[b][i]] = b
        /\ ownerIndex[ownerRepositories[b][i]] = i
  BY Zenon DEF OwnerIndexExact
<1>8. \A s \in RepoIds : owner[s] # NoAccount =>
        /\ owner[s] \in Accounts
        /\ ownerIndex[s] \in 1..Len(ownerRepositories[owner[s]])
        /\ ownerRepositories[owner[s]][ownerIndex[s]] = s
  BY SMTT(60) DEF OwnerIndexExact, Exists, LocatorInv, CoreTypeOK
<1>9. gained \in Seq(RepoIds) /\ Len(gained) \in Nat /\ Len(longer) = Len(gained) + 1
      /\ longer[Len(gained) + 1] = r
      /\ \A j \in 1..Len(gained) : longer[j] = gained[j]
  BY <1>3, AppendFacts
<1> HIDE DEF old, list, index, last, gained, longer, shorter
<1>10. ASSUME NEW s \in RepoIds, Exists(s)'
       PROVE  /\ ownerIndex'[s] \in 1..Len(ownerRepositories'[owner'[s]])
              /\ ownerRepositories'[owner'[s]][ownerIndex'[s]] = s
  <2>1. CASE s = r
    BY <1>5, <1>9, <2>1
  <2>2. CASE s # r /\ owner[s] = old
    <3>1. owner'[s] = old /\ ownerRepositories'[old] = shorter
      BY <1>2, <1>5, <2>2, Zenon
    <3>2. ownerIndex[s] \in 1..Len(list) /\ list[ownerIndex[s]] = s
      BY <1>2, <1>8, <2>2, Zenon DEF list
    <3>3. CASE s = last
      <4>1. index # Len(list)
        BY <1>4, <2>2, <3>2, <3>3, Zenon
      <4> QED
        BY <1>3, <1>4, <1>5, <1>6, <2>2, <3>1, <3>3, <4>1 DEF list
    <3>4. CASE s # last
      <4>1. ownerIndex[s] # Len(list) /\ ownerIndex[s] # index
        BY <1>4, <2>2, <3>2, <3>4, Zenon DEF last
      <4> QED
        <5>1. Len(list) \in Nat
          BY <1>2, <1>3, Zenon DEF list
        <5>2. \A n \in Nat : \A k \in 1..n : k # n => k \in 1..(n - 1)
          OBVIOUS
        <5>3. ownerIndex[s] \in 1..(Len(list) - 1)
          BY <3>2, <4>1, <5>1, <5>2, Zenon
        <5>4. ownerIndex'[s] = ownerIndex[s]
          BY <1>5, <2>2, <3>4, Zenon
        <5> QED
          BY <1>6, <3>1, <3>2, <4>1, <5>3, <5>4, Zenon
    <3> QED
      BY <3>3, <3>4, Zenon
  <2>3. CASE s # r /\ owner[s] # old
    <3>1. /\ owner'[s] = owner[s] /\ owner[s] # NoAccount /\ s # last
          /\ ownerIndex'[s] = ownerIndex[s]
      BY <1>4, <1>5, <1>10, <2>3, Zenon DEF Exists
    <3>2. CASE owner[s] = a
      BY <1>5, <1>8, <1>9, <3>1, <3>2 DEF gained
    <3>3. CASE owner[s] # a
      BY <1>5, <1>8, <2>3, <3>1, <3>3, SMTT(60)
    <3> QED
      BY <3>2, <3>3, Zenon
  <2> QED
    BY <2>1, <2>2, <2>3, Zenon
<1>11. ASSUME NEW b \in Accounts, NEW i \in 1..Len(ownerRepositories'[b])
       PROVE  /\ owner'[ownerRepositories'[b][i]] = b
              /\ ownerIndex'[ownerRepositories'[b][i]] = i
  <2>1. CASE b = a
    <3>1. CASE i = Len(gained) + 1
      BY <1>5, <1>9, <2>1, <3>1, Zenon
    <3>2. CASE i # Len(gained) + 1
      <4>1. i \in 1..Len(gained) /\ ownerRepositories'[b][i] = gained[i]
        BY <1>5, <1>9, <1>11, <2>1, <3>2
      <4>2. owner[gained[i]] = a /\ ownerIndex[gained[i]] = i /\ gained[i] \in RepoIds
        BY <1>3, <1>7, <4>1, Zenon DEF gained
      <4>3. gained[i] # r /\ gained[i] # last
        BY <1>2, <1>4, <4>2, Zenon DEF old
      <4> QED
        BY <1>5, <2>1, <4>1, <4>2, <4>3
    <3> QED
      BY <3>1, <3>2, Zenon
  <2>2. CASE b = old
    <3>1. i \in 1..(Len(list) - 1) /\ ownerRepositories'[b] = shorter
      BY <1>2, <1>3, <1>5, <1>6, <1>11, <2>2, Zenon DEF list
    <3>2. CASE i = index
      <4>1. ownerRepositories'[b][i] = last /\ last # r
        <5>1. Len(list) \in Nat
          BY <1>2, <1>3, Zenon DEF list
        <5>2. \A n \in Nat : \A k \in 1..(n - 1) : k # n
          OBVIOUS
        <5>3. index # Len(list)
          BY <3>1, <3>2, <5>1, <5>2, Zenon
        <5> QED
          BY <1>4, <1>6, <3>1, <3>2, <5>3, Zenon DEF index
      <4> QED
        BY <1>4, <1>5, <2>2, <3>2, <4>1, Zenon
    <3>3. CASE i # index
      <4>1. ownerRepositories'[b][i] = list[i] /\ i \in 1..Len(list)
        <5>1. Len(list) \in Nat
          BY <1>2, <1>3, SeqFacts, Zenon DEF list
        <5>2. \A n \in Nat : \A k \in 1..(n - 1) : k \in 1..n
          OBVIOUS
        <5>3. shorter[i] = list[i]
          BY <1>6, <3>1, <3>3, Zenon
        <5> QED
          BY <3>1, <5>1, <5>2, <5>3, Zenon
      <4>2. owner[list[i]] = old /\ ownerIndex[list[i]] = i /\ list[i] \in RepoIds
        BY <1>2, <1>3, <1>7, <4>1, Zenon DEF list
      <4>3. list[i] # r /\ list[i] # last
        BY <1>2, <1>3, <1>4, <3>1, <3>3, <4>2 DEF index, list
      <4> QED
        BY <1>5, <2>2, <4>1, <4>2, <4>3
    <3> QED
      BY <3>2, <3>3, Zenon
  <2>3. CASE b # a /\ b # old
    <3>1. ownerRepositories'[b] = ownerRepositories[b]
      BY <1>5, <2>3, Zenon
    <3>2. /\ owner[ownerRepositories[b][i]] = b
          /\ ownerIndex[ownerRepositories[b][i]] = i
          /\ ownerRepositories[b][i] \in RepoIds
      BY <1>3, <1>7, <1>11, <3>1, Zenon
    <3>3. ownerRepositories[b][i] # r /\ ownerRepositories[b][i] # last
      BY <1>4, <2>3, <3>2, Zenon DEF old
    <3> QED
      BY <1>5, <3>1, <3>2, <3>3
  <2> QED
    BY <2>1, <2>2, <2>3, Zenon
<1> QED
  BY <1>10, <1>11, Zenon DEF OwnerIndexExact

\* Every step of the suite keeps the lists of the owners indexed.
LEMMA OwnerIndexStep ==
  ASSUME LocatorInv, OwnerIndexExact, IdentityStep
  PROVE  OwnerIndexExact'
<1>1. CASE Created
  BY <1>1, CreateKeepsOwnerIndex, Zenon DEF LocatorInv
<1>2. CASE Moved
  BY <1>2, TransferKeepsOwnerIndex, Zenon
<1>3. CASE ~Created /\ ~Moved
  <2>1. UNCHANGED <<owner, ownerIndex, ownerRepositories>>
    BY <1>3, ZenonT(60) DEF IdentityStep, Aliased, ImportAlias, Offered, BeginOwnershipTransfer,
                Withdrawn, ClearPending, identityVars
  <2> QED
    BY <2>1, Zenon DEF OwnerIndexExact, Exists
<1> QED
  BY <1>1, <1>2, <1>3, Zenon


-----------------------------------------------------------------------------
(* Collaborators                                                           *)

\* The collaborators of one repository, as CollaboratorIndexExact has them.
CollaboratorsOf(r) ==
  /\ Indexed(collaborators[r], collaboratorIndex[r])
  /\ \A a \in Accounts : roles[r][a] # "None" <=> collaboratorIndex[r][a] # 0
  /\ Len(collaborators[r]) <= MaxCollaborators

\* CollaboratorIndexExact, one repository at a time.
LEMMA CollaboratorsUnfold ==
  CollaboratorIndexExact <=> \A r \in RepoIds : CollaboratorsOf(r)
BY Zenon DEF CollaboratorIndexExact, CollaboratorsOf, Indexed

\* Every step keeps the collaborators of every repository indexed.
LEMMA CollaboratorStep ==
  ASSUME CoreTypeOK, CollaboratorIndexExact, RoleStep
  PROVE  CollaboratorIndexExact'
<1> SUFFICES ASSUME NEW s \in RepoIds PROVE CollaboratorsOf(s)'
  BY Zenon DEF CollaboratorIndexExact, CollaboratorsOf, Indexed
<1>1. CollaboratorsOf(s)
  BY CollaboratorsUnfold, Zenon
<1>2. CASE UNCHANGED roleVars
  BY <1>1, <1>2, Zenon DEF CollaboratorsOf, Indexed, roleVars
<1>3. ASSUME NEW caller \in Accounts, NEW r \in RepoIds, NEW a \in Accounts, NEW role \in Roles,
             SetCollaborator(caller, r, a, role) \/ StoreImportedCollaborator(r, a, role)
      PROVE  CollaboratorsOf(s)'
  <2> DEFINE list == collaborators[r]
             idx == collaboratorIndex[r]
  <2>1. list \in Seq(Accounts) /\ idx \in [Accounts -> Nat] /\ CollaboratorsOf(r)
    BY CollaboratorsUnfold, Zenon DEF CoreTypeOK
  <2>2. /\ collaborators \in [RepoIds -> Seq(Accounts)]
        /\ collaboratorIndex \in [RepoIds -> [Accounts -> Nat]]
        /\ roles \in [RepoIds -> [Accounts -> Roles]]
    BY Zenon DEF CoreTypeOK
  <2>3. roles' = [roles EXCEPT ![r][a] = role]
    BY <1>3, Zenon DEF SetCollaborator, StoreImportedCollaborator
  <2>4. CASE role # "None" /\ roles[r][a] = "None" /\ AddCollaborator(r, a)
    <3>1. /\ Len(list) < MaxCollaborators
          /\ collaborators' = [collaborators EXCEPT ![r] = Append(list, a)]
          /\ collaboratorIndex' = [collaboratorIndex EXCEPT ![r] = [idx EXCEPT ![a] = Len(list) + 1]]
      BY <2>4, Zenon DEF AddCollaborator
    <3>2. Indexed(Append(list, a), [idx EXCEPT ![a] = Len(list) + 1])
      <4>1. idx[a] = 0 /\ Indexed(list, idx)
        BY <2>1, <2>4, Zenon DEF CollaboratorsOf
      <4> QED
        BY <2>1, <4>1, AddIndexed, ZenonT(60)
    <3>3. Len(Append(list, a)) <= MaxCollaborators /\ Len(list) + 1 # 0
      <4>1. Len(list) \in Nat /\ Len(Append(list, a)) = Len(list) + 1
        BY <2>1, AppendFacts, Zenon
      <4> HIDE DEF list
      <4> QED
        BY <3>1, <4>1, CoreAssumption
    <3>4. CASE s = r
      <4>1. /\ collaborators'[r] = Append(list, a)
            /\ collaboratorIndex'[r] = [idx EXCEPT ![a] = Len(list) + 1]
            /\ roles'[r] = [roles[r] EXCEPT ![a] = role]
        BY <2>2, <2>3, <3>1, Zenon
      <4>2. \A b \in Accounts : roles'[r][b] # "None" <=> collaboratorIndex'[r][b] # 0
        BY <2>1, <2>2, <2>4, <3>3, <4>1, Zenon DEF CollaboratorsOf
      <4> QED
        BY <3>2, <3>3, <3>4, <4>1, <4>2, Zenon DEF CollaboratorsOf
    <3>5. CASE s # r
      BY <1>1, <2>2, <2>3, <3>1, <3>5, Zenon DEF CollaboratorsOf
    <3> QED
      BY <3>4, <3>5, Zenon
  <2>5. CASE role = "None" /\ roles[r][a] # "None" /\ RemoveCollaborator(r, a)
    <3>0. idx[a] # 0 /\ Indexed(list, idx)
      BY <2>1, <2>5, Zenon DEF CollaboratorsOf
    <3> DEFINE after == [idx EXCEPT ![list[Len(list)]] = idx[a], ![a] = 0]
    <3>1. /\ collaborators' = [collaborators EXCEPT ![r] = SwapPop(list, idx[a])]
          /\ collaboratorIndex' = [collaboratorIndex EXCEPT ![r] = after]
      BY <2>5, <3>0, Zenon DEF RemoveCollaborator
    <3>2. Indexed(SwapPop(list, idx[a]), after)
      BY <2>1, <3>0, RemoveIndexed, ZenonT(60)
    <3>3. idx[a] \in 1..Len(list) /\ list[Len(list)] \in Accounts /\ idx[list[Len(list)]] # 0
      <4>1. idx[a] \in 1..Len(list)
        BY <3>0, Zenon DEF Indexed
      <4>2. Len(list) \in 1..Len(list)
        <5> HIDE DEF list, idx
        <5> QED
          BY <2>1, <4>1
      <4>3. list[Len(list)] \in Accounts /\ idx[list[Len(list)]] = Len(list)
        BY <2>1, <3>0, <4>2, SeqFacts, Zenon DEF Indexed
      <4>4. Len(list) # 0
        BY <4>2
      <4> QED
        BY <4>1, <4>3, <4>4, Zenon
    <3>4. Len(SwapPop(list, idx[a])) <= MaxCollaborators
      <4>1. Len(list) \in Nat /\ Len(list) <= MaxCollaborators
        BY <2>1 DEF CollaboratorsOf
      <4>2. Len(SwapPop(list, idx[a])) = Len(list) - 1
        BY <2>1, <3>3, SwapPopSequence, Zenon
      <4> HIDE DEF list, idx
      <4> QED
        BY <4>1, <4>2, CoreAssumption
    <3>5. \A b \in Accounts : after[b] # 0 <=> b # a /\ idx[b] # 0
      <4> HIDE DEF idx, list
      <4> QED
        BY <2>1, <3>0, <3>3, Zenon
    <3> HIDE DEF after
    <3>6. CASE s = r
      <4>1. /\ collaborators'[r] = SwapPop(list, idx[a])
            /\ collaboratorIndex'[r] = after
            /\ roles'[r] = [roles[r] EXCEPT ![a] = role]
        BY <2>2, <2>3, <3>1, Zenon
      <4>2. \A b \in Accounts : roles'[r][b] # "None" <=> collaboratorIndex'[r][b] # 0
        BY <2>1, <2>2, <2>5, <3>5, <4>1 DEF CollaboratorsOf
      <4> QED
        BY <3>2, <3>4, <3>6, <4>1, <4>2, Zenon DEF CollaboratorsOf
    <3>7. CASE s # r
      BY <1>1, <2>2, <2>3, <3>1, <3>7, Zenon DEF CollaboratorsOf
    <3> QED
      BY <3>6, <3>7, Zenon
  <2>6. CASE /\ role = "None" <=> roles[r][a] = "None"
             /\ UNCHANGED <<collaborators, collaboratorIndex>>
    BY <1>1, <2>2, <2>3, <2>6, Zenon DEF CollaboratorsOf
  <2> QED
    BY <1>3, <2>4, <2>5, <2>6, Zenon DEF SetCollaborator, StoreImportedCollaborator
<1> QED
  BY <1>2, <1>3, Zenon DEF RoleStep

-----------------------------------------------------------------------------
(* The refs of a repository and the list of their names                    *)

\* names lists exactly the refs held, each once, within the limits.
RefList(held, names) ==
  /\ \A f \in Refs : held[f].sha # NoSha <=> \E i \in 1..Len(names) : names[i] = f
  /\ \A i, j \in 1..Len(names) : names[i] = names[j] => i = j
  /\ Len(names) <= MaxRefs
  /\ \A f \in Refs : Cardinality(held[f].packs) <= MaxPackUris
                     /\ (held[f].sha # NoSha => held[f].packs # {})

NoRefs == [f \in Refs |-> NoRef]

\* Nothing is stored for a repository that does not exist: a fork copies the refs
\* of its source over nothing.
UnusedEmpty ==
  \A r \in RepoIds : ~Exists(r) => /\ refs[r] = NoRefs /\ refNames[r] = <<>>
                                   /\ forkedFrom[r] = NoRepo

RefsInv == (\A r \in RepoIds : RefList(refs[r], refNames[r])) /\ UnusedEmpty

\* The refs of every repository have exact positions when each one's do.
LEMMA RefListsExact == RefNamesExact <=> \A r \in RepoIds : RefList(refs[r], refNames[r])
BY Zenon DEF RefNamesExact, RefList, RefExists

\* A ref without packs is within the limit.
LEMMA NoPacksCounted == Cardinality({}) <= MaxPackUris
<1> DEFINE Counts(f) ==
             f = [T \in SUBSET {} |-> IF T = {} THEN 0 ELSE 1 + f[T \ {CHOOSE x : x \in T}]]
<1>1. Counts([T \in SUBSET {} |-> 0])
  BY Zenon
<1>2. Counts(CHOOSE f : Counts(f))
  BY <1>1, Zenon
<1>3. (CHOOSE f : Counts(f))[{}] = 0
  BY <1>2, Zenon
<1>4. Cardinality({}) = 0
  BY <1>3, Zenon DEF Cardinality
<1> QED
  BY <1>4

\* The list of a repository without refs.
LEMMA EmptyRefList == RefList(NoRefs, <<>>)
<1>1. \A f \in Refs : NoRefs[f].sha = NoSha /\ NoRefs[f].packs = {}
  BY Zenon DEF NoRefs, NoRef
<1>2. \A f \in Refs : Cardinality(NoRefs[f].packs) <= MaxPackUris
  BY <1>1, NoPacksCounted, Zenon
<1>3. Len(<<>>) = 0 /\ 0 <= MaxRefs
  OBVIOUS
<1> QED
  BY <1>1, <1>2, <1>3 DEF RefList

\* A new ref, whose name goes to the end of the list.
LEMMA RefAdded ==
  ASSUME NEW held \in [Refs -> GitRef], NEW names \in Seq(Refs), RefList(held, names),
         NEW f \in Refs, NEW ref \in GitRef, held[f].sha = NoSha, ref.sha # NoSha,
         ref.packs # {}, Cardinality(ref.packs) <= MaxPackUris, Len(names) < MaxRefs
  PROVE  RefList([held EXCEPT ![f] = ref], Append(names, f))
<1> DEFINE after == [held EXCEPT ![f] = ref]
           longer == Append(names, f)
<1>1. /\ Len(names) \in Nat /\ Len(longer) = Len(names) + 1 /\ longer[Len(names) + 1] = f
      /\ \A j \in 1..Len(names) : longer[j] = names[j]
  BY AppendFacts
<1>2. \A g \in Refs : after[g] = IF g = f THEN ref ELSE held[g]
  BY Zenon
<1>3. \A i \in 1..Len(names) : names[i] # f
  BY Zenon DEF RefList
<1> HIDE DEF after, longer
<1>4. ASSUME NEW g \in Refs
      PROVE  after[g].sha # NoSha <=> \E i \in 1..Len(longer) : longer[i] = g
  <2>1. CASE g = f
    BY <1>1, <1>2, <2>1
  <2>2. CASE g # f
    <3>1. after[g].sha # NoSha <=> \E i \in 1..Len(names) : names[i] = g
      BY <1>2, <2>2, Zenon DEF RefList
    <3>2. \A i \in 1..Len(longer) : longer[i] = g => i \in 1..Len(names)
      BY <1>1, <2>2
    <3>3. \A i \in 1..Len(names) : i \in 1..Len(longer)
      BY <1>1
    <3> QED
      BY <1>1, <3>1, <3>2, <3>3, Zenon
  <2> QED
    BY <2>1, <2>2, Zenon
<1>5. ASSUME NEW i \in 1..Len(longer), NEW j \in 1..Len(longer), longer[i] = longer[j]
      PROVE  i = j
  <2>1. \A k \in 1..Len(longer) : k = Len(names) + 1 \/ k \in 1..Len(names)
    BY <1>1
  <2> QED
    BY <1>1, <1>3, <1>5, <2>1 DEF RefList
<1>6. Len(longer) <= MaxRefs
  BY <1>1
<1>7. \A g \in Refs : Cardinality(after[g].packs) <= MaxPackUris
                      /\ (after[g].sha # NoSha => after[g].packs # {})
  BY <1>2, Zenon DEF RefList
<1>8. RefList(after, longer)
  BY <1>4, <1>5, <1>6, <1>7, Zenon DEF RefList
<1> QED
  BY <1>8, Zenon DEF after, longer

\* A ref that exists and is written again; the list stays.
LEMMA RefWritten ==
  ASSUME NEW held \in [Refs -> GitRef], NEW names \in Seq(Refs), RefList(held, names),
         NEW f \in Refs, NEW ref \in GitRef, held[f].sha # NoSha, ref.sha # NoSha,
         ref.packs # {}, Cardinality(ref.packs) <= MaxPackUris
  PROVE  RefList([held EXCEPT ![f] = ref], names)
<1> DEFINE after == [held EXCEPT ![f] = ref]
<1>1. \A g \in Refs : after[g] = IF g = f THEN ref ELSE held[g]
  BY Zenon
<1> HIDE DEF after
<1>2. RefList(after, names)
  BY <1>1, Zenon DEF RefList
<1> QED
  BY <1>2, Zenon DEF after

\* A ref that is deleted, whose place in the list the last name takes.
LEMMA RefRemoved ==
  ASSUME NEW held \in [Refs -> GitRef], NEW names \in Seq(Refs), RefList(held, names),
         NEW k \in 1..Len(names)
  PROVE  RefList([held EXCEPT ![names[k]] = NoRef], SwapPop(names, k))
<1> DEFINE f == names[k]
           last == names[Len(names)]
           after == [held EXCEPT ![f] = NoRef]
           shorter == SwapPop(names, k)
<1>1. Len(names) \in Nat /\ f \in Refs /\ Len(names) \in 1..Len(names) /\ names[k] = f
  OBVIOUS
<1>2. /\ Len(shorter) = Len(names) - 1
      /\ \A j \in 1..(Len(names) - 1) : shorter[j] = IF j = k THEN last ELSE names[j]
  BY SwapPopSequence
<1>3. \A g \in Refs : after[g] = IF g = f THEN NoRef ELSE held[g]
  <2> HIDE DEF f
  <2> QED
    BY <1>1, Zenon
<1>4. NoRef.sha = NoSha /\ NoRef.packs = {}
  BY Zenon DEF NoRef
<1> HIDE DEF f, after, shorter
<1>5. ASSUME NEW g \in Refs
      PROVE  after[g].sha # NoSha <=> \E i \in 1..Len(shorter) : shorter[i] = g
  <2>1. CASE g = f
    <3>1. ASSUME NEW i \in 1..Len(shorter) PROVE shorter[i] # f
      BY <1>1, <1>2 DEF RefList
    <3> QED
      BY <1>3, <1>4, <2>1, <3>1, Zenon
  <2>2. CASE g # f
    <3>1. after[g].sha # NoSha <=> \E i \in 1..Len(names) : names[i] = g
      BY <1>3, <2>2, Zenon DEF RefList
    <3>2. ASSUME NEW i \in 1..Len(names), names[i] = g
          PROVE  \E j \in 1..Len(shorter) : shorter[j] = g
      <4>1. i # k
        BY <1>1, <2>2, <3>2, Zenon
      <4>2. CASE i = Len(names)
        BY <1>1, <1>2, <3>2, <4>1, <4>2
      <4>3. CASE i # Len(names)
        BY <1>1, <1>2, <3>2, <4>1, <4>3
      <4> QED
        BY <4>2, <4>3, Zenon
    <3>3. ASSUME NEW j \in 1..Len(shorter), shorter[j] = g
          PROVE  \E i \in 1..Len(names) : names[i] = g
      BY <1>1, <1>2, <3>3
    <3> QED
      BY <3>1, <3>2, <3>3, Zenon
  <2> QED
    BY <2>1, <2>2, Zenon
<1>6. ASSUME NEW i \in 1..Len(shorter), NEW j \in 1..Len(shorter), shorter[i] = shorter[j]
      PROVE  i = j
  BY <1>1, <1>2, <1>6 DEF RefList
<1>7. Len(shorter) <= MaxRefs
  BY <1>1, <1>2 DEF RefList
<1>8. ASSUME NEW g \in Refs
      PROVE  Cardinality(after[g].packs) <= MaxPackUris
             /\ (after[g].sha # NoSha => after[g].packs # {})
  <2>1. CASE g = f
    BY <1>3, <1>4, <2>1, NoPacksCounted, Zenon
  <2>2. CASE g # f
    BY <1>3, <2>2, Zenon DEF RefList
  <2> QED
    BY <2>1, <2>2, Zenon
<1>9. RefList(after, shorter)
  BY <1>5, <1>6, <1>7, <1>8, Zenon DEF RefList
<1> QED
  BY <1>9, Zenon DEF after, shorter, f

\* No repository loses its owner.
LEMMA OwnersStay ==
  ASSUME CoreTypeOK, IdentityStep, NEW q \in RepoIds, Exists(q)
  PROVE  Exists(q)'
<1>1. CASE Created
  BY <1>1, ZenonT(30) DEF Created, StoreRepository, Exists, CoreTypeOK
<1>2. CASE Moved
  <2>1. PICK r \in RepoIds, a \in Accounts : owner' = [owner EXCEPT ![r] = a]
    BY <1>2, Zenon DEF Moved, TransferOwnership
  <2> QED
    BY <2>1, Zenon DEF Exists, CoreTypeOK
<1>3. CASE Aliased \/ Offered \/ Withdrawn \/ UNCHANGED identityVars
  <2>1. owner' = owner
    BY <1>3, Zenon DEF Aliased, Offered, Withdrawn, ImportAlias, BeginOwnershipTransfer, ClearPending,
                identityVars
  <2> QED
    BY <2>1, Zenon DEF Exists
<1> QED
  BY <1>1, <1>2, <1>3, Zenon DEF IdentityStep

\* A step that touches the refs of one repository.
LEMMA RefsOfOne ==
  ASSUME RefsInv, NEW r \in RepoIds, Exists(r)', RefList(refs'[r], refNames'[r]),
         \A q \in RepoIds : Exists(q) => Exists(q)',
         \A q \in RepoIds \ {r} : /\ refs'[q] = refs[q] /\ refNames'[q] = refNames[q]
                                  /\ forkedFrom'[q] = forkedFrom[q]
  PROVE  RefsInv'
<1>1. \A q \in RepoIds : RefList(refs'[q], refNames'[q])
  BY Zenon DEF RefsInv
<1>2. ASSUME NEW q \in RepoIds, ~Exists(q)'
      PROVE  refs'[q] = NoRefs /\ refNames'[q] = <<>> /\ forkedFrom'[q] = NoRepo
  BY <1>2, Zenon DEF RefsInv, UnusedEmpty
<1> QED
  BY <1>1, <1>2, Zenon DEF RefsInv, UnusedEmpty

\* A step that touches no refs.
LEMMA RefsStand ==
  ASSUME RefsInv, UNCHANGED <<refs, refNames, forkedFrom>>,
         \A q \in RepoIds : Exists(q) => Exists(q)'
  PROVE  RefsInv'
BY Zenon DEF RefsInv, UnusedEmpty

\* A new repository without refs.
LEMMA CreateKeepsRefs ==
  ASSUME CoreTypeOK, RefsInv, NEW r \in RepoIds, NEW a \in Accounts, NEW n, NEW source, NEW t,
         StoreRepository(r, a, n, source, t), UNCHANGED refVars,
         \A q \in RepoIds : Exists(q) => Exists(q)'
  PROVE  RefsInv'
<1>1. refs' = refs /\ refNames' = refNames /\ Exists(r)'
  BY Zenon DEF StoreRepository, refVars, Exists, CoreTypeOK
<1>2. RefList(refs'[r], refNames'[r])
  BY <1>1, Zenon DEF RefsInv
<1>3. \A q \in RepoIds \ {r} : forkedFrom'[q] = forkedFrom[q]
  BY Zenon DEF StoreRepository, CoreTypeOK
<1> QED
  BY <1>1, <1>2, <1>3, RefsOfOne, Zenon

\* updateRef, on a new ref and on one that exists.
LEMMA UpdateKeepsRefs ==
  ASSUME CoreTypeOK, RefsInv, NEW caller \in Accounts, NEW r \in RepoIds, NEW f \in Refs,
         NEW sha \in Shas, NEW p \in SUBSET Packs, NEW expected, NEW force \in BOOLEAN, NEW mutable,
         UpdateRef(caller, r, f, sha, p, expected, force, mutable)
  PROVE  RefsInv'
<1> DEFINE merged == IF force \/ refs[r][f].packs = {} THEN p ELSE refs[r][f].packs \cup p
           ref == [sha |-> sha, packs |-> merged, updatedAt |-> now, updatedBy |-> caller]
<1>1. /\ Exists(r) /\ p # {} /\ Cardinality(merged) <= MaxPackUris
      /\ RefExists(r, f) \/ Len(refNames[r]) < MaxRefs
      /\ refNames' = IF RefExists(r, f) THEN refNames ELSE [refNames EXCEPT ![r] = Append(@, f)]
      /\ refs' = [refs EXCEPT ![r][f] = ref]
      /\ UNCHANGED identityVars
  BY Zenon DEF UpdateRef
<1>2. merged \in SUBSET Packs /\ merged # {}
  <2>1. \A g \in GitRef : g.packs \in SUBSET Packs
    BY Zenon DEF GitRef
  <2>2. refs[r][f] \in GitRef
    <3>1. refs[r] \in [Refs -> GitRef]
      BY Zenon DEF CoreTypeOK
    <3> QED
      BY <3>1, Zenon
  <2>3. PICK held : held = refs[r][f].packs
    BY Zenon
  <2>4. held \in SUBSET Packs
    BY <2>1, <2>2, <2>3, Zenon
  <2>5. CASE force \/ held = {}
    BY <1>1, <2>3, <2>5, Zenon
  <2>6. CASE ~(force \/ held = {})
    BY <2>3, <2>4, <2>6, Zenon
  <2> QED
    BY <2>5, <2>6, Zenon
<1> HIDE DEF merged
<1>3. ref \in GitRef /\ ref.sha # NoSha /\ ref.packs = merged
  BY <1>2, Zenon DEF GitRef, CoreTypeOK
<1> HIDE DEF ref
<1>4. /\ refs[r] \in [Refs -> GitRef] /\ refNames[r] \in Seq(Refs) /\ RefList(refs[r], refNames[r])
      /\ refs'[r] = [refs[r] EXCEPT ![f] = ref]
      /\ \A q \in RepoIds \ {r} : refs'[q] = refs[q] /\ refNames'[q] = refNames[q]
  BY <1>1, Zenon DEF CoreTypeOK, RefsInv
<1>5. RefList(refs'[r], refNames'[r])
  <2>1. CASE RefExists(r, f)
    BY <1>1, <1>2, <1>3, <1>4, <2>1, RefWritten DEF RefExists
  <2>2. CASE ~RefExists(r, f)
    <3>1. refNames'[r] = Append(refNames[r], f)
      BY <1>1, <2>2, Zenon DEF CoreTypeOK
    <3>2. refs[r][f].sha = NoSha /\ ref.packs # {} /\ Cardinality(ref.packs) <= MaxPackUris
          /\ Len(refNames[r]) < MaxRefs
      BY <1>1, <1>2, <1>3, <2>2, Zenon DEF RefExists
    <3>3. RefList([refs[r] EXCEPT ![f] = ref], Append(refNames[r], f))
      BY <1>3, <1>4, <3>2, RefAdded, Zenon
    <3> QED
      BY <1>4, <3>1, <3>3, Zenon
  <2> QED
    BY <2>1, <2>2, Zenon
<1>6. owner' = owner /\ forkedFrom' = forkedFrom
  BY <1>1, Zenon DEF identityVars
<1> QED
  BY <1>1, <1>4, <1>5, <1>6, RefsOfOne, Zenon DEF Exists

\* The import of a ref.
LEMMA ImportKeepsRefs ==
  ASSUME CoreTypeOK, RefsInv, NEW r \in RepoIds, NEW f \in Refs, NEW sha \in Shas,
         NEW p \in SUBSET Packs, NEW t \in Nat, NEW a \in Accounts,
         StoreImportedRef(r, f, sha, p, t, a)
  PROVE  RefsInv'
<1> DEFINE ref == [sha |-> sha, packs |-> p, updatedAt |-> t, updatedBy |-> a]
<1>1. /\ Exists(r) /\ p # {} /\ Cardinality(p) <= MaxPackUris
      /\ ~RefExists(r, f) /\ Len(refNames[r]) < MaxRefs
      /\ refNames' = [refNames EXCEPT ![r] = Append(@, f)]
      /\ refs' = [refs EXCEPT ![r][f] = ref]
      /\ UNCHANGED identityVars
  BY Zenon DEF StoreImportedRef
<1>2. ref \in GitRef /\ ref.sha # NoSha /\ ref.packs = p
  BY Zenon DEF GitRef
<1> HIDE DEF ref
<1>3. /\ refs[r] \in [Refs -> GitRef] /\ refNames[r] \in Seq(Refs) /\ RefList(refs[r], refNames[r])
      /\ refs'[r] = [refs[r] EXCEPT ![f] = ref] /\ refNames'[r] = Append(refNames[r], f)
      /\ \A q \in RepoIds \ {r} : refs'[q] = refs[q] /\ refNames'[q] = refNames[q]
  BY <1>1, Zenon DEF CoreTypeOK, RefsInv
<1>4. RefList(refs'[r], refNames'[r])
  <2>1. refs[r][f].sha = NoSha /\ ref.sha # NoSha /\ ref.packs # {}
        /\ Cardinality(ref.packs) <= MaxPackUris
    BY <1>1, <1>2, Zenon DEF RefExists
  <2>2. RefList([refs[r] EXCEPT ![f] = ref], Append(refNames[r], f))
    BY <1>1, <1>2, <1>3, <2>1, RefAdded, Zenon
  <2> QED
    BY <1>3, <2>2, Zenon
<1>5. owner' = owner /\ forkedFrom' = forkedFrom
  BY <1>1, Zenon DEF identityVars
<1> QED
  BY <1>1, <1>3, <1>4, <1>5, RefsOfOne, Zenon DEF Exists

\* deleteRef finds the name by its first position, which is its only one.
LEMMA DeleteKeepsRefs ==
  ASSUME CoreTypeOK, RefsInv, NEW caller, NEW r \in RepoIds, NEW f \in Refs, NEW mutable,
         DeleteRef(caller, r, f, mutable)
  PROVE  RefsInv'
<1>1. /\ Exists(r) /\ UNCHANGED identityVars
      /\ refs' = [refs EXCEPT ![r][f] = NoRef]
  BY Zenon DEF DeleteRef
<1>2. PICK i \in DOMAIN refNames[r] :
        refNames[r][i] = f /\ refNames' = [refNames EXCEPT ![r] = SwapPop(@, i)]
  BY Zenon DEF DeleteRef
<1>3. /\ refs[r] \in [Refs -> GitRef] /\ refNames[r] \in Seq(Refs) /\ RefList(refs[r], refNames[r])
      /\ refs'[r] = [refs[r] EXCEPT ![f] = NoRef] /\ refNames'[r] = SwapPop(refNames[r], i)
      /\ \A q \in RepoIds \ {r} : refs'[q] = refs[q] /\ refNames'[q] = refNames[q]
  BY <1>1, <1>2, Zenon DEF CoreTypeOK, RefsInv
<1>4. i \in 1..Len(refNames[r])
  <2>1. refNames[r] \in Seq(Refs)
    BY <1>3, Zenon
  <2>2. DOMAIN refNames[r] = 1..Len(refNames[r])
    BY <2>1, SeqFacts, Zenon
  <2> QED
    BY <2>2, Zenon
<1>5. RefList(refs'[r], refNames'[r])
  <2>1. RefList([refs[r] EXCEPT ![refNames[r][i]] = NoRef], SwapPop(refNames[r], i))
    BY <1>3, <1>4, RefRemoved, Zenon
  <2> QED
    BY <1>2, <1>3, <2>1, Zenon
<1>6. owner' = owner /\ forkedFrom' = forkedFrom
  BY <1>1, Zenon DEF identityVars
<1> QED
  BY <1>1, <1>3, <1>5, <1>6, RefsOfOne, Zenon DEF Exists

\* A fork starts with exactly the refs of its source.
LEMMA ForkKeepsRefs ==
  ASSUME CoreTypeOK, RefsInv, NEW caller \in Accounts, NEW source \in RepoIds, NEW n \in Names,
         NEW forkable, ForkRepository(caller, source, n, forkable),
         \A q \in RepoIds : Exists(q) => Exists(q)'
  PROVE  RefsInv'
<1> DEFINE r == <<caller, n>>
           copy(f) == [sha |-> refs[source][f].sha, packs |-> refs[source][f].packs,
                       updatedAt |-> now, updatedBy |-> caller]
           held == [f \in Refs |-> IF RefExists(source, f) THEN copy(f) ELSE refs[r][f]]
<1>1. /\ StoreRepository(r, caller, n, source, now) /\ Exists(source)
      /\ refs' = [refs EXCEPT ![r] = held]
      /\ refNames' = [refNames EXCEPT ![r] = refNames[r] \o refNames[source]]
  BY Zenon DEF ForkRepository
<1>2. r \in RepoIds
  BY Zenon DEF RepoIds
<1> HIDE DEF r
<1>3. ~Exists(r) /\ Exists(r)' /\ \A q \in RepoIds \ {r} : forkedFrom'[q] = forkedFrom[q]
  BY <1>1, <1>2, Zenon DEF StoreRepository, Exists, CoreTypeOK
<1>4. refs[r] = NoRefs /\ refNames[r] = <<>>
  BY <1>2, <1>3, Zenon DEF RefsInv, UnusedEmpty
<1>5. \A f \in Refs : /\ held[f].sha = refs[source][f].sha
                      /\ held[f].packs = IF RefExists(source, f) THEN refs[source][f].packs ELSE {}
  <2> SUFFICES ASSUME NEW f \in Refs
               PROVE  /\ held[f].sha = refs[source][f].sha
                      /\ held[f].packs = IF RefExists(source, f) THEN refs[source][f].packs ELSE {}
    BY Zenon
  <2>1. NoRef.sha = NoSha /\ NoRef.packs = {} /\ refs[r][f] = NoRef
    BY <1>4, Zenon DEF NoRefs, NoRef
  <2>2. CASE RefExists(source, f)
    <3>1. held[f] = copy(f)
      BY <2>2, Zenon
    <3>2. copy(f).sha = refs[source][f].sha /\ copy(f).packs = refs[source][f].packs
      BY Zenon
    <3> HIDE DEF held, copy
    <3> QED
      BY <2>2, <3>1, <3>2, Zenon
  <2>3. CASE ~RefExists(source, f)
    <3>1. held[f] = refs[r][f]
      BY <2>3, Zenon
    <3> HIDE DEF held
    <3> QED
      BY <2>1, <2>3, <3>1, Zenon DEF RefExists
  <2> QED
    BY <2>2, <2>3, Zenon
<1> HIDE DEF held
<1>6. /\ refs'[r] = held /\ refNames'[r] = refNames[source]
      /\ \A q \in RepoIds \ {r} : refs'[q] = refs[q] /\ refNames'[q] = refNames[q]
  <2>1. <<>> \o refNames[source] = refNames[source]
    BY SeqFacts, Zenon DEF CoreTypeOK
  <2> QED
    BY <1>1, <1>2, <1>4, <2>1, Zenon DEF CoreTypeOK
<1>7. RefList(refs[source], refNames[source])
  BY Zenon DEF RefsInv
<1>8. \A f \in Refs : Cardinality(held[f].packs) <= MaxPackUris
  BY <1>5, <1>7, NoPacksCounted, Zenon DEF RefList
<1>9. RefList(held, refNames[source])
  BY <1>5, <1>7, <1>8, Zenon DEF RefList, RefExists
<1> QED
  BY <1>2, <1>3, <1>6, <1>9, RefsOfOne, Zenon

\* Forking adds the refs of the new repository and touches no other.
LEMMA ForkTouchesNew ==
  ASSUME CoreTypeOK, NEW caller \in Accounts, NEW source \in RepoIds, NEW n \in Names,
         NEW forkable, ForkRepository(caller, source, n, forkable)
  PROVE  /\ forkable /\ ~Exists(<<caller, n>>) /\ forkedFrom'[<<caller, n>>] = source
         /\ \A q \in RepoIds \ {<<caller, n>>} :
              /\ refs'[q] = refs[q] /\ refNames'[q] = refNames[q]
              /\ forkedFrom'[q] = forkedFrom[q]
<1> DEFINE id == <<caller, n>>
<1>1. id \in RepoIds
  BY Zenon DEF RepoIds
<1>2. /\ forkable /\ ~Exists(id)
      /\ forkedFrom' = [forkedFrom EXCEPT ![id] = source]
      /\ \E held : refs' = [refs EXCEPT ![id] = held]
      /\ \E names : refNames' = [refNames EXCEPT ![id] = names]
  BY Zenon DEF ForkRepository, StoreRepository
<1> HIDE DEF id
<1>3. /\ forkable /\ ~Exists(id) /\ forkedFrom'[id] = source
      /\ \A q \in RepoIds \ {id} :
           /\ refs'[q] = refs[q] /\ refNames'[q] = refNames[q]
           /\ forkedFrom'[q] = forkedFrom[q]
  BY <1>1, <1>2, Zenon DEF CoreTypeOK
<1> QED
  BY <1>3, Zenon DEF id

\* What an update of ref f of repository r by caller may change.
TouchesOne(caller, r, f) ==
  /\ CanMaintain(r, caller) /\ forkedFrom' = forkedFrom
  /\ \A q \in RepoIds \ {r} : refs'[q] = refs[q] /\ refNames'[q] = refNames[q]
  /\ \A g \in Refs \ {f} : refs'[r][g] = refs[r][g]
  /\ refs'[r][f].updatedAt = now /\ refs'[r][f].updatedBy = caller
  /\ updatedAt'[r] = now

\* Updating a ref touches no other, and records who did it and when.
LEMMA UpdateTouchesOne ==
  ASSUME CoreTypeOK, NEW caller \in Accounts, NEW r \in RepoIds, NEW f \in Refs, NEW sha, NEW p,
         NEW expected, NEW force, NEW mutable,
         UpdateRef(caller, r, f, sha, p, expected, force, mutable)
  PROVE  mutable /\ TouchesOne(caller, r, f)
<1> DEFINE merged == IF force \/ refs[r][f].packs = {} THEN p ELSE refs[r][f].packs \cup p
           ref == [sha |-> sha, packs |-> merged, updatedAt |-> now, updatedBy |-> caller]
<1>1. /\ mutable /\ CanMaintain(r, caller) /\ forkedFrom' = forkedFrom
      /\ refs' = [refs EXCEPT ![r][f] = ref]
      /\ refNames' = IF RefExists(r, f) THEN refNames ELSE [refNames EXCEPT ![r] = Append(@, f)]
      /\ updatedAt' = [updatedAt EXCEPT ![r] = now]
  BY Zenon DEF UpdateRef, identityVars
<1>2. ref.updatedAt = now /\ ref.updatedBy = caller
  BY Zenon
<1> HIDE DEF ref
<1>3. \A q \in RepoIds \ {r} : refNames'[q] = refNames[q]
  BY <1>1, Zenon DEF CoreTypeOK
<1>4. refs \in [RepoIds -> [Refs -> GitRef]] /\ updatedAt \in [RepoIds -> Nat]
  BY Zenon DEF CoreTypeOK
<1>5. /\ refs'[r] = [refs[r] EXCEPT ![f] = ref] /\ updatedAt'[r] = now
      /\ \A q \in RepoIds \ {r} : refs'[q] = refs[q]
  BY <1>1, <1>4, Zenon
<1>6. refs'[r][f] = ref /\ \A g \in Refs \ {f} : refs'[r][g] = refs[r][g]
  BY <1>4, <1>5, Zenon
<1> QED
  BY <1>1, <1>2, <1>3, <1>5, <1>6, Zenon DEF TouchesOne


-----------------------------------------------------------------------------
(* Argument lists                                                          *)

\* Sequences are the functions on the intervals from one.
LEMMA SequencesAreFunctions == \A S : Seq(S) = UNION {[1..n -> S] : n \in Nat}
OBVIOUS

\* A function on 1..n is a sequence of length n: argument lists of imports.
LEMMA FunctionIsSequence ==
  ASSUME NEW S, NEW n \in Nat, NEW f \in [1..n -> S]
  PROVE  f \in Seq(S) /\ Len(f) = n
<1>1. f \in Seq(S)
  BY SequencesAreFunctions, ZenonT(60)
<1> QED
  BY <1>1

-----------------------------------------------------------------------------
(* The steps that touch ownership, as the proofs below distinguish them    *)

CreateStep ==
  /\ \E r \in RepoIds, a \in Accounts, n \in Names, source \in RepoIds \cup {NoRepo}, t \in Nat :
       StoreRepository(r, a, n, source, t)
  /\ UNCHANGED <<recoveryVars, splits>>

AliasStep ==
  /\ \E r \in RepoIds, l \in Locators : ImportAlias(r, l)
  /\ UNCHANGED <<recoveryVars, splits>>

OfferStep ==
  /\ \E caller \in Accounts, r \in RepoIds, a \in Accounts :
       BeginOwnershipTransfer(caller, r, a, HasPendingRecovery(r))
  /\ UNCHANGED <<recoveryVars, splits>>

WithdrawStep ==
  /\ \E r \in RepoIds : ClearPending(r)
  /\ UNCHANGED <<recoveryVars, splits>>

TransferStep ==
  \E r \in RepoIds, a \in Accounts :
    /\ Exists(r)
    /\ TransferOwnership(r, a)
    /\ OwnershipHook(r)
    /\ \/ pending[r].newOwner = a
          /\ pending[r].executeAfter <= now /\ now <= pending[r].expiresAt
       \/ pending[r].newOwner = NoAccount /\ RecoveryExecutable(a, r) /\ a # owner[r]

GuardianStep ==
  /\ \/ \E caller \in Accounts, r \in RepoIds, g \in SUBSET GuardianAccounts, t \in Int :
          SetGuardians(caller, r, g, t) \/ ImportGuardianConfig(r, g, t)
     \/ \E caller \in Accounts, r \in RepoIds, a \in TransferTargets :
          ProposeRecovery(caller, r, a)
     \/ \E caller \in Accounts, r \in RepoIds :
          ApproveRecovery(caller, r) \/ CancelRecovery(caller, r)
  /\ UNCHANGED <<identityVars, splits>>

SplitStep ==
  /\ \E r \in RepoIds, list \in SplitLists, caller \in Accounts :
       SetRevenueSplits(caller, r, list) \/ ImportSplits(r, list)
  /\ UNCHANGED <<identityVars, recoveryVars>>

OtherStep == UNCHANGED <<identityVars, recoveryVars, splits>>

OwnershipStep ==
  \/ CreateStep \/ AliasStep \/ OfferStep \/ WithdrawStep
  \/ TransferStep \/ GuardianStep \/ SplitStep \/ OtherStep

\* What acceptOwnershipTransfer and executeRecovery have in common.
LEMMA OwnerChange ==
  ASSUME TypeOK, NEW caller \in Accounts, AcceptTransfer(caller) \/ ExecuteRecovery(caller)
  PROVE  \E r \in RepoIds :
           /\ Exists(r)
           /\ TransferOwnership(r, caller)
           /\ OwnershipHook(r)
           /\ UNCHANGED moderationVars
           /\ \/ pending[r].newOwner = caller
                 /\ pending[r].executeAfter <= now /\ now <= pending[r].expiresAt
              \/ pending[r].newOwner = NoAccount /\ RecoveryExecutable(caller, r)
                 /\ caller # owner[r]
BY Zenon DEF AcceptTransfer, ExecuteRecovery, AcceptOwnershipTransfer, RecoverOwnership

\* Every step of the suite is one of these.
LEMMA OwnershipSteps ==
  ASSUME TypeOK, [Next]_vars
  PROVE  OwnershipStep
<1> USE DEF OwnershipStep
<1>1. CASE BootstrapImport
  <2>0. \A t \in 1..now : t \in Nat
    BY DEF TypeOK, CoreTypeOK
  <2>1. CASE ImportCore
    <3>1. UNCHANGED <<recoveryVars, splits>>
      BY <2>1, Zenon DEF ImportCore, economicVars
    <3>2. ASSUME NEW r \in RepoIds, NEW a \in Accounts, NEW n \in Names,
                 NEW source \in RepoIds \cup {NoRepo}, NEW t \in 1..now,
                 ImportRepository(r, a, n, source, t)
          PROVE  CreateStep
      BY <2>0, <3>1, <3>2, Zenon DEF CreateStep, ImportRepository
    <3>3. ASSUME NEW r \in RepoIds, NEW l \in Locators, ImportAlias(r, l)
          PROVE  AliasStep
      BY <3>1, <3>3, Zenon DEF AliasStep
    <3>4. ASSUME NEW r \in RepoIds, NEW f \in Refs, NEW sha \in Shas, NEW p \in PackArguments,
                 NEW t \in 1..now, NEW a \in Accounts, StoreImportedRef(r, f, sha, p, t, a)
          PROVE  OtherStep
      BY <3>1, <3>4, Zenon DEF OtherStep, StoreImportedRef
    <3>5. ASSUME NEW r \in RepoIds, NEW a \in CollaboratorAccounts, NEW role \in Roles,
                 StoreImportedCollaborator(r, a, role)
          PROVE  OtherStep
      BY <3>1, <3>5, Zenon DEF OtherStep, StoreImportedCollaborator
    <3> QED
      BY <2>1, <3>2, <3>3, <3>4, <3>5, Zenon DEF ImportCore
  <2>2. CASE ImportRecovery
    BY <2>2, ModerationAssumption
    DEF ImportRecovery, GuardianStep, coreVars, economicVars
  <2>3. CASE ImportModeration
    BY <2>3, Zenon DEF ImportModeration, OtherStep, coreVars, economicVars
  <2>4. CASE ImportEconomic
    BY <2>4, ModerationAssumption, Zenon DEF ImportEconomic, SplitStep, coreVars
  <2> QED
    BY <1>1, <2>1, <2>2, <2>3, <2>4, Zenon DEF BootstrapImport
<1>2. CASE FinalizeModule \/ ClockTick \/ UNCHANGED vars
  BY <1>2, Zenon DEF FinalizeModule, ClockTick, Tick, vars, OtherStep, coreVars, economicVars
<1>3. CASE ActiveCall
  <2>1. PICK caller \in Accounts :
          \/ CoreCall(caller) \/ RecoveryCall(caller) \/ EconomicCall(caller)
          \/ ModerationCall(caller) \/ AcceptTransfer(caller) \/ ExecuteRecovery(caller)
    BY <1>3, Zenon DEF ActiveCall
  <2>2. CASE CoreCall(caller)
    <3>1. UNCHANGED <<recoveryVars, splits>>
      BY <2>2, Zenon DEF CoreCall, economicVars
    <3>2. ASSUME NEW n \in Names, CreateRepository(caller, n) PROVE CreateStep
      <4>1. <<caller, n>> \in RepoIds /\ now \in Nat
        BY Zenon DEF RepoIds, TypeOK, CoreTypeOK
      <4> QED
        BY <3>1, <3>2, <4>1, Zenon DEF CreateStep, CreateRepository
    <3>3. ASSUME NEW source \in RepoIds, NEW n \in Names,
                 ForkRepository(caller, source, n, RequireActiveRepository(source))
          PROVE  CreateStep
      <4>1. <<caller, n>> \in RepoIds /\ now \in Nat
        BY Zenon DEF RepoIds, TypeOK, CoreTypeOK
      <4> QED
        BY <3>1, <3>3, <4>1, Zenon DEF CreateStep, ForkRepository
    <3>4. ASSUME NEW r \in RepoIds,
                 \/ UpdateMetadata(caller, r)
                 \/ \E f \in Refs, sha \in Shas, p \in PackArguments,
                       expected \in Shas \cup {NoSha}, force \in BOOLEAN :
                      UpdateRef(caller, r, f, sha, p, expected, force, NotFrozen(r))
                 \/ \E f \in Refs : DeleteRef(caller, r, f, NotFrozen(r))
                 \/ \E a \in CollaboratorAccounts, role \in Roles :
                      SetCollaborator(caller, r, a, role)
          PROVE  OtherStep
      BY <3>1, <3>4, ZenonT(60)
      DEF OtherStep, UpdateMetadata, TouchMetadata, UpdateRef, DeleteRef, SetCollaborator
    <3>5. ASSUME NEW r \in RepoIds, NEW a \in TransferTargets,
                 BeginOwnershipTransfer(caller, r, a, HasPendingRecovery(r))
          PROVE  OfferStep
      <4>1. a \in Accounts
        BY <3>5, Zenon DEF BeginOwnershipTransfer
      <4> QED
        BY <3>1, <3>5, <4>1, Zenon DEF OfferStep
    <3>6. ASSUME NEW r \in RepoIds,
                 CancelOwnershipTransfer(caller, r) \/ ExpireOwnershipTransfer(r)
          PROVE  WithdrawStep
      BY <3>1, <3>6, Zenon DEF WithdrawStep, CancelOwnershipTransfer, ExpireOwnershipTransfer
    <3> QED
      BY <2>2, <3>2, <3>3, <3>4, <3>5, <3>6, Zenon DEF CoreCall
  <2>3. CASE RecoveryCall(caller)
    BY <2>3 DEF RecoveryCall, GuardianStep, coreVars, economicVars
  <2>4. CASE EconomicCall(caller)
    BY <2>4, Zenon DEF EconomicCall, SplitStep, coreVars
  <2>5. CASE ModerationCall(caller)
    BY <2>5, ZenonT(60)
    DEF ModerationCall, OtherStep, economicVars, coreVars, SetRepositoryStatus, Decide,
        SubmitReport, ResolveReport, ResolveAppeal, DecideReport, AppealReport, TouchMetadata
  <2>6. CASE AcceptTransfer(caller) \/ ExecuteRecovery(caller)
    BY <2>6, OwnerChange, Zenon DEF TransferStep
  <2> QED
    BY <2>1, <2>2, <2>3, <2>4, <2>5, <2>6, Zenon
<1> QED
  BY <1>1, <1>2, <1>3, Zenon DEF Next

-----------------------------------------------------------------------------
(* RecoveryModule                                                          *)

\* _setGuardians.
LEMMA StoreGuardiansType ==
  ASSUME CoreTypeOK, RecoveryTypeOK, NEW r \in RepoIds, NEW g \in SUBSET GuardianAccounts,
         NEW t \in Int, Exists(r), StoreGuardians(r, g, t)
  PROVE  /\ configs' \in [RepoIds -> GuardianConfig]
         /\ isGuardian' \in [RepoIds -> SUBSET Accounts]
<1>1. g \subseteq Accounts
  BY RecoveryAssumption, Zenon DEF StoreGuardians, GuardiansAllowed
<1>2. t \in Nat
  BY DEF StoreGuardians
<1>3. [configuredBy |-> owner[r], threshold |-> t, guardians |-> g] \in GuardianConfig
  BY <1>1, <1>2, Zenon DEF GuardianConfig, CoreTypeOK
<1>4. configs' \in [RepoIds -> GuardianConfig]
  BY <1>3, Zenon DEF RecoveryTypeOK, StoreGuardians
<1>5. ClearedGuardians(r) \subseteq Accounts
  BY Zenon DEF ClearedGuardians, RecoveryTypeOK
<1> QED
  BY <1>1, <1>4, <1>5, Zenon DEF RecoveryTypeOK, StoreGuardians

\* setGuardians.
LEMMA SetGuardiansType ==
  ASSUME CoreTypeOK, RecoveryTypeOK, NEW caller \in Accounts, NEW r \in RepoIds,
         NEW g \in SUBSET GuardianAccounts, NEW t \in Int, SetGuardians(caller, r, g, t)
  PROVE  RecoveryTypeOK'
<1>1. NoProposal \in Proposal
  BY Zenon DEF NoProposal, Proposal
<1> QED
  BY <1>1, StoreGuardiansType, ZenonT(60) DEF SetGuardians, RecoveryTypeOK

\* The import of a guardian configuration.
LEMMA ImportGuardianConfigType ==
  ASSUME CoreTypeOK, RecoveryTypeOK, NEW r \in RepoIds,
         NEW g \in SUBSET GuardianAccounts, NEW t \in Int, ImportGuardianConfig(r, g, t)
  PROVE  RecoveryTypeOK'
BY StoreGuardiansType, ZenonT(60) DEF ImportGuardianConfig, RecoveryTypeOK

\* proposeRecovery.
LEMMA ProposeRecoveryType ==
  ASSUME CoreTypeOK, RecoveryTypeOK, NEW caller \in Accounts, NEW r \in RepoIds,
         NEW a \in TransferTargets, ProposeRecovery(caller, r, a)
  PROVE  RecoveryTypeOK'
<1>1. a \in Accounts
  BY ZenonT(30) DEF ProposeRecovery
<1>2. proposalNonce[r] + 1 \in 1..MaxNonce
  <2>1. /\ MaxNonce \in Nat /\ proposalNonce[r] \in 0..MaxNonce
        /\ proposalNonce[r] < MaxNonce
    BY RecoveryAssumption, Zenon DEF ProposeRecovery, RecoveryTypeOK
  <2> QED
    BY <2>1, NumberFacts, Zenon
<1>3. [proposedBy |-> caller, newOwner |-> a, executeAfter |-> now + TransferDelay,
       expiresAt |-> now + TransferDelay + TransferWindow,
       nonce |-> proposalNonce[r] + 1, approvals |-> 1] \in Proposal
  <2>1. PICK d, e, n : /\ d = now + TransferDelay /\ e = now + TransferDelay + TransferWindow
                       /\ n = proposalNonce[r] + 1
    BY Zenon
  <2>2. d \in Nat /\ e \in Nat
    <3>1. now \in Nat /\ TransferDelay \in Nat /\ TransferWindow \in Nat
      BY Zenon DEF CoreTypeOK
    <3> QED
      BY <2>1, <3>1, NumberFacts, Zenon
  <2>3. n \in Nat /\ 1 \in Nat
    BY <1>2, <2>1
  <2>4. [proposedBy |-> caller, newOwner |-> a, executeAfter |-> d, expiresAt |-> e,
         nonce |-> n, approvals |-> 1] \in Proposal
    BY <1>1, <2>2, <2>3, Zenon DEF Proposal
  <2> QED
    BY <2>1, <2>4, Zenon
<1>4. proposals' \in [RepoIds -> Proposal]
  BY <1>3, Zenon DEF ProposeRecovery, RecoveryTypeOK
<1>5. proposalNonce' \in [RepoIds -> 0..MaxNonce]
  <2>1. PICK n : n = proposalNonce[r] + 1
    BY Zenon
  <2>2. n \in 0..MaxNonce
    BY <1>2, <2>1
  <2>3. proposalNonce' = [proposalNonce EXCEPT ![r] = n]
    BY <2>1, Zenon DEF ProposeRecovery
  <2> QED
    BY <2>2, <2>3, Zenon DEF RecoveryTypeOK
<1>6. approved' \in [RepoIds -> [1..MaxNonce -> SUBSET Accounts]]
  BY <1>2, ZenonT(60) DEF ProposeRecovery, RecoveryTypeOK
<1> QED
  BY <1>4, <1>5, <1>6, Zenon DEF ProposeRecovery, RecoveryTypeOK

\* approveRecovery.
LEMMA ApproveRecoveryType ==
  ASSUME RecoveryTypeOK, NEW caller \in Accounts, NEW r \in RepoIds, ApproveRecovery(caller, r)
  PROVE  RecoveryTypeOK'
<1>1. proposals' \in [RepoIds -> Proposal]
  BY DEF ApproveRecovery, OneMoreApproval, RecoveryTypeOK, Proposal
<1> DEFINE nonce == proposals[r].nonce
           voted == [approved[r] EXCEPT ![nonce] = approved[r][nonce] \cup {caller}]
<1>2. voted \in [1..MaxNonce -> SUBSET Accounts]
  <2>1. approved[r] \in [1..MaxNonce -> SUBSET Accounts]
    BY Zenon DEF RecoveryTypeOK
  <2> HIDE DEF nonce
  <2>2. CASE nonce \in 1..MaxNonce
    BY <2>1, <2>2, ZenonT(60)
  <2>3. CASE nonce \notin 1..MaxNonce
    BY <2>1, <2>3, ZenonT(60)
  <2> QED
    BY <2>2, <2>3, Zenon
<1>3. approved' = [approved EXCEPT ![r] = voted]
  BY Zenon DEF ApproveRecovery
<1> HIDE DEF voted
<1>4. approved' \in [RepoIds -> [1..MaxNonce -> SUBSET Accounts]]
  BY <1>2, <1>3, Zenon DEF RecoveryTypeOK
<1> QED
  BY <1>1, <1>4, Zenon DEF ApproveRecovery, RecoveryTypeOK

\* cancelRecovery by the owner or the nominated owner.
LEMMA CancelRecoveryType ==
  ASSUME RecoveryTypeOK, NEW caller \in Accounts, NEW r \in RepoIds, CancelRecovery(caller, r)
  PROVE  RecoveryTypeOK'
<1>1. NoProposal \in Proposal
  BY Zenon DEF NoProposal, Proposal
<1> QED
  BY <1>1, Zenon DEF CancelRecovery, RecoveryTypeOK

\* The clean-up of guardians and proposal when the owner changes.
LEMMA ClearRecoveryType ==
  ASSUME RecoveryTypeOK, NEW r \in RepoIds, ClearRecovery(r)
  PROVE  RecoveryTypeOK'
<1>1. NoProposal \in Proposal /\ NoConfig \in GuardianConfig
  BY Zenon DEF NoProposal, Proposal, NoConfig, GuardianConfig
<1>2. ClearedGuardians(r) \subseteq Accounts
  BY Zenon DEF ClearedGuardians, RecoveryTypeOK
<1> QED
  BY <1>1, <1>2, Zenon DEF ClearRecovery, RecoveryTypeOK

-----------------------------------------------------------------------------
(* EconomicModule                                                          *)

\* A list of splits that passes the checks is one of splits to accounts.
LEMMA SplitListsType ==
  ASSUME NEW list \in SplitLists, NEW a, ValidSplits(list, a)
  PROVE  list \in Seq(Split)
<1>1. PICK n \in 0..(MaxSplits + 1) : list \in [1..n -> [recipient: SplitRecipients, bps: SplitShares]]
  BY Zenon DEF SplitLists
<1>2. n \in Nat
  BY <1>1, EconomicAssumption
<1>3. ASSUME NEW i \in 1..n PROVE list[i] \in Split
  <2>1. list[i] \in [recipient: SplitRecipients, bps: SplitShares] /\ i \in DOMAIN list
    BY <1>1, Zenon
  <2>2. list[i].recipient # NoAccount
    BY <2>1, Zenon DEF ValidSplits
  <2> QED
    BY <2>1, <2>2, EconomicAssumption, ZenonT(60) DEF Split
<1>4. list \in [1..n -> Split]
  BY <1>1, <1>3, Zenon
<1> QED
  BY <1>2, <1>4, FunctionIsSequence, Zenon

\* The steps of EconomicModule.
LEMMA EconomicType ==
  ASSUME EconomicTypeOK, NEW r \in RepoIds, NEW list \in SplitLists, NEW caller
  PROVE  /\ SetRevenueSplits(caller, r, list) => EconomicTypeOK'
         /\ ClearRevenueSplits(r) => EconomicTypeOK'
         /\ ImportSplits(r, list) => EconomicTypeOK'
<1>1. SetRevenueSplits(caller, r, list) => EconomicTypeOK'
  BY SplitListsType, Zenon DEF SetRevenueSplits, EconomicTypeOK
<1>2. ClearRevenueSplits(r) => EconomicTypeOK'
  BY DEF ClearRevenueSplits, EconomicTypeOK
<1>3. ImportSplits(r, list) => EconomicTypeOK'
  BY SplitListsType DEF ImportSplits, EconomicTypeOK
<1> QED
  BY <1>1, <1>2, <1>3, Zenon

-----------------------------------------------------------------------------
(* ModerationModule                                                        *)

\* A status decision with its trail entry.
LEMMA DecideType ==
  ASSUME CoreTypeOK, ModerationTypeOK, NEW r \in RepoIds, NEW status \in Statuses,
         NEW id \in ReportIds \cup {0}, Decide(r, status, id)
  PROVE  /\ CoreTypeOK'
         /\ statuses' \in [RepoIds -> Statuses]
         /\ statusTrails' \in [RepoIds -> Seq(StatusTrailEntry)]
<1>1. [status |-> status, reportId |-> id] \in StatusTrailEntry
  BY Zenon DEF StatusTrailEntry
<1>2. statusTrails' \in [RepoIds -> Seq(StatusTrailEntry)]
  BY <1>1 DEF Decide, ModerationTypeOK
<1> QED
  BY <1>2, TouchMetadataType, Zenon DEF Decide, ModerationTypeOK

\* setRepositoryStatus.
LEMMA SetStatusType ==
  ASSUME CoreTypeOK, ModerationTypeOK, NEW caller, NEW r \in RepoIds, NEW status \in Statuses,
         SetRepositoryStatus(caller, r, status)
  PROVE  CoreTypeOK' /\ ModerationTypeOK'
BY DecideType, Zenon DEF SetRepositoryStatus, ModerationTypeOK

\* setCommittee.
LEMMA SetCommitteeType ==
  ASSUME ModerationTypeOK, NEW caller, NEW a \in CommitteeAccounts, SetCommittee(caller, a)
  PROVE  ModerationTypeOK'
BY ModerationAssumption, Zenon DEF SetCommittee, ModerationTypeOK

\* submitReport.
LEMMA SubmitReportType ==
  ASSUME CoreTypeOK, ModerationTypeOK, NEW caller \in Accounts, NEW r \in RepoIds,
         SubmitReport(caller, r)
  PROVE  CoreTypeOK' /\ ModerationTypeOK'
<1>1. CoreTypeOK'
  BY Zenon DEF SubmitReport, CoreTypeOK, coreVars, identityVars, refVars, roleVars
<1>2. [repoId |-> r, reporter |-> caller, status |-> "Open", resolution |-> "Active"] \in Report
  BY Zenon DEF Report, ReportStatuses, Statuses
<1>3. [action |-> "Submitted", status |-> "Active"] \in TrailEntry
  BY Zenon DEF TrailEntry, TrailActions, Statuses
<1>4. reports' \in [ReportIds -> Report]
  BY <1>2, Zenon DEF SubmitReport, ModerationTypeOK
<1>5. trails' \in [ReportIds -> Seq(TrailEntry)]
  BY <1>3 DEF SubmitReport, ModerationTypeOK
<1> QED
  <2>1. nextReportId' \in Nat \ {0}
    BY NumberFacts, Zenon DEF SubmitReport, ModerationTypeOK
  <2> QED
    BY <1>1, <1>4, <1>5, <2>1, Zenon DEF SubmitReport, ModerationTypeOK

\* A report with a new status and resolution.
LEMMA WithStatusType ==
  ASSUME NEW report \in Report, report.status # "NoReport",
         NEW status \in ReportStatuses, NEW resolution \in Statuses
  PROVE  /\ report.repoId \in RepoIds
         /\ report.resolution \in Statuses
         /\ WithStatus(report, status, resolution) \in Report
BY DEF WithStatus, Report, NoReport

\* resolveReport and resolveAppeal.
LEMMA DecideReportType ==
  ASSUME CoreTypeOK, ModerationTypeOK, NEW caller, NEW id \in ReportIds,
         NEW from \in {"Open", "Appealed"}, NEW to \in {"Resolved", "AppealResolved"},
         NEW status \in Statuses, DecideReport(caller, id, from, to, status)
  PROVE  CoreTypeOK' /\ ModerationTypeOK'
<1>1. reports[id].repoId \in RepoIds /\ WithStatus(reports[id], to, status) \in Report
  <2>1. reports[id] \in Report /\ reports[id].status # "NoReport" /\ to \in ReportStatuses
    BY Zenon DEF DecideReport, ModerationTypeOK, ReportStatuses
  <2> QED
    BY <2>1, WithStatusType, Zenon
<1>2. reports' \in [ReportIds -> Report]
  BY <1>1, Zenon DEF DecideReport, ModerationTypeOK
<1>3. [action |-> to, status |-> status] \in TrailEntry
  BY Zenon DEF TrailEntry, TrailActions
<1>4. trails' \in [ReportIds -> Seq(TrailEntry)]
  BY <1>3 DEF DecideReport, ModerationTypeOK
<1> QED
  BY <1>1, <1>2, <1>4, DecideType, Zenon DEF DecideReport, ModerationTypeOK

\* appealReport.
LEMMA AppealReportType ==
  ASSUME CoreTypeOK, ModerationTypeOK, NEW caller, NEW id \in ReportIds,
         AppealReport(caller, id)
  PROVE  CoreTypeOK' /\ ModerationTypeOK'
<1> DEFINE appealed == WithStatus(reports[id], "Appealed", reports[id].resolution)
           entry == [action |-> "Appealed", status |-> reports[id].resolution]
<1>1. /\ reports[id].repoId \in RepoIds
      /\ reports[id].resolution \in Statuses
      /\ appealed \in Report
  <2>1. /\ reports[id] \in Report /\ reports[id].status = "Resolved"
        /\ "Appealed" \in ReportStatuses
    BY Zenon DEF AppealReport, Appealable, ModerationTypeOK, ReportStatuses
  <2>2. reports[id].resolution \in Statuses
    <3>1. NoReport.status # "Resolved"
      BY Zenon DEF NoReport
    <3>2. \A report \in Report : report # NoReport => report.resolution \in Statuses
      BY Zenon DEF Report
    <3> QED
      BY <2>1, <3>1, <3>2, Zenon
  <2> QED
    BY <2>1, <2>2, WithStatusType, Zenon
<1>2. entry \in TrailEntry
  BY <1>1, Zenon DEF TrailEntry, TrailActions
<1>3. /\ reports' = [reports EXCEPT ![id] = appealed]
      /\ trails' = [trails EXCEPT ![id] = Append(trails[id], entry)]
      /\ TouchMetadata(reports[id].repoId)
      /\ UNCHANGED <<committee, statuses, statusTrails, importedStatuses, nextReportId>>
  BY Zenon DEF AppealReport
<1> HIDE DEF appealed, entry
<1>4. trails' \in [ReportIds -> Seq(TrailEntry)]
  BY <1>2, <1>3 DEF ModerationTypeOK
<1>5. CoreTypeOK'
  BY <1>1, <1>3, TouchMetadataType, Zenon
<1> QED
  BY <1>1, <1>3, <1>4, <1>5, Zenon DEF ModerationTypeOK

\* The import of a status.
LEMMA ImportStatusType ==
  ASSUME ModerationTypeOK, NEW r \in RepoIds, NEW status \in Statuses, ImportStatus(r, status)
  PROVE  ModerationTypeOK'
BY Zenon DEF ImportStatus, ModerationTypeOK

\* _storeImportedReport.
LEMMA ImportReportType ==
  ASSUME ModerationTypeOK, NEW id \in ReportIds, NEW r \in RepoIds, NEW a \in Accounts,
         NEW n \in 1..4, NEW decisions \in [1..n -> Statuses], NEW status \in Statuses,
         StoreImportedReport(id, r, a, n, decisions, status)
  PROVE  ModerationTypeOK'
<1> DEFINE report == [repoId |-> r, reporter |-> a, status |-> ReportStates[n],
                      resolution |-> status]
           trail == [i \in 1..n |-> [action |-> ReportActions[i], status |-> decisions[i]]]
<1>1. ReportStates[n] \in ReportStatuses
  BY DEF ReportStates, ReportStatuses
<1>2. report \in Report
  BY <1>1, Zenon DEF Report
<1>3. \A i \in 1..n : [action |-> ReportActions[i], status |-> decisions[i]] \in TrailEntry
  BY DEF ReportActions, TrailActions, TrailEntry
<1>4. trail \in Seq(TrailEntry)
  BY <1>3, FunctionIsSequence
<1>5. nextReportId' \in Nat \ {0}
  <2>1. /\ nextReportId' = IF id >= nextReportId THEN id + 1 ELSE nextReportId
        /\ nextReportId \in Nat \ {0}
    BY Zenon DEF StoreImportedReport, NextIdAfter, ModerationTypeOK
  <2>2. id \in Nat \ {0}
    BY ModerationAssumption DEF ReportIds
  <2> QED
    BY <2>1, <2>2, NumberFacts, Zenon
<1>6. /\ reports' = [reports EXCEPT ![id] = report]
      /\ trails' = [trails EXCEPT ![id] = trail]
  BY Zenon DEF StoreImportedReport
<1> HIDE DEF report, trail
<1> QED
  BY <1>2, <1>4, <1>5, <1>6 DEF StoreImportedReport, ModerationTypeOK

\* _storeImportedStatusTrail.
LEMMA ImportStatusTrailType ==
  ASSUME ModerationTypeOK, NEW r \in RepoIds, NEW n \in 1..MaxTrail,
         NEW trail \in [1..n -> StatusTrailEntry], StoreImportedStatusTrail(r, trail)
  PROVE  ModerationTypeOK'
<1>1. trail \in Seq(StatusTrailEntry)
  BY FunctionIsSequence, ModerationAssumption
<1> QED
  BY <1>1, Zenon DEF StoreImportedStatusTrail, ModerationTypeOK

\* The four contracts as deployed.
LEMMA InitType == Init => TypeOK
<1> SUFFICES ASSUME Init PROVE TypeOK
  BY Zenon
<1>1. RecoveryTypeOK
  <2>1. NoConfig \in GuardianConfig /\ NoProposal \in Proposal
    BY NumberFacts, Zenon DEF NoConfig, GuardianConfig, NoProposal, Proposal
  <2>2. 0 \in 0..MaxNonce
    BY NumberFacts, RecoveryAssumption, Zenon
  <2> QED
    BY <2>1, <2>2, Zenon DEF Init, RecoveryInit, RecoveryTypeOK
<1>2. EconomicTypeOK
  BY DEF Init, EconomicInit, EconomicTypeOK
<1>3. ModerationTypeOK
  BY ModerationAssumption DEF Init, ModerationInit, ModerationTypeOK, Report, Statuses
<1> QED
  BY <1>1, <1>2, <1>3, CoreInitType DEF Init, TypeOK, ActiveStage

\* A module that a step does not touch keeps its types.
LEMMA UnchangedTypes ==
  /\ CoreTypeOK /\ UNCHANGED coreVars => CoreTypeOK'
  /\ RecoveryTypeOK /\ UNCHANGED recoveryVars => RecoveryTypeOK'
  /\ EconomicTypeOK /\ UNCHANGED economicVars => EconomicTypeOK'
  /\ ModerationTypeOK /\ UNCHANGED moderationVars => ModerationTypeOK'
<1>1. CoreTypeOK /\ UNCHANGED coreVars => CoreTypeOK'
  BY Zenon DEF CoreTypeOK, coreVars, identityVars, refVars, roleVars
<1>2. RecoveryTypeOK /\ UNCHANGED recoveryVars => RecoveryTypeOK'
  BY Zenon DEF RecoveryTypeOK, recoveryVars
<1>3. EconomicTypeOK /\ UNCHANGED economicVars => EconomicTypeOK'
  BY Zenon DEF EconomicTypeOK, economicVars
<1>4. ModerationTypeOK /\ UNCHANGED moderationVars => ModerationTypeOK'
  BY Zenon DEF ModerationTypeOK, moderationVars
<1> QED
  BY <1>1, <1>2, <1>3, <1>4, Zenon

\* bootstrapImport of any module.
LEMMA ImportTypes ==
  ASSUME TypeOK
  PROVE  /\ ImportCore => CoreTypeOK'
         /\ ImportRecovery => RecoveryTypeOK'
         /\ ImportModeration => ModerationTypeOK'
         /\ ImportEconomic => EconomicTypeOK'
<1> USE DEF TypeOK
<1>1. ImportCore => CoreTypeOK'
  <2> SUFFICES ASSUME ImportCore PROVE CoreTypeOK'
    BY Zenon
  <2>0. \A t \in 1..now : t \in Nat
    BY DEF CoreTypeOK
  <2>1. ASSUME NEW r \in RepoIds, NEW a \in Accounts, NEW n \in Names,
               NEW source \in RepoIds \cup {NoRepo}, NEW t \in 1..now,
               ImportRepository(r, a, n, source, t)
        PROVE  CoreTypeOK'
    <3>1. refs' \in [RepoIds -> [Refs -> GitRef]] /\ refNames' \in [RepoIds -> Seq(Refs)]
      BY <2>1, Zenon DEF ImportRepository, CoreTypeOK, refVars
    <3> QED
      BY <2>0, <2>1, <3>1, StoreRepositoryType, Zenon DEF ImportRepository
  <2>2. ASSUME NEW r \in RepoIds, NEW l \in Locators, ImportAlias(r, l)
        PROVE  CoreTypeOK'
    BY <2>2, ImportAliasType, Zenon
  <2>3. ASSUME NEW r \in RepoIds, NEW f \in Refs, NEW sha \in Shas, NEW p \in PackArguments,
               NEW t \in 1..now, NEW a \in Accounts, StoreImportedRef(r, f, sha, p, t, a)
        PROVE  CoreTypeOK'
    BY <2>0, <2>3, ImportedRefType, Zenon DEF PackArguments
  <2>4. ASSUME NEW r \in RepoIds, NEW a \in CollaboratorAccounts, NEW role \in Roles,
               StoreImportedCollaborator(r, a, role)
        PROVE  CoreTypeOK'
    BY <2>4, ImportedCollaboratorType, Zenon
  <2> QED
    BY <2>1, <2>2, <2>3, <2>4, Zenon DEF ImportCore
<1>2. ImportRecovery => RecoveryTypeOK'
  BY ImportGuardianConfigType DEF ImportRecovery
<1>3. ImportModeration => ModerationTypeOK'
  BY ImportStatusType, ImportReportType, ImportStatusTrailType, Zenon DEF ImportModeration
<1>4. ImportEconomic => EconomicTypeOK'
  BY EconomicType, Zenon DEF ImportEconomic
<1> QED
  BY <1>1, <1>2, <1>3, <1>4, Zenon

\* Every function of RepositoryCore that does not move ownership.
LEMMA CoreCallType ==
  ASSUME TypeOK, CollaboratorIndexExact, NEW caller \in Accounts, CoreCall(caller)
  PROVE  CoreTypeOK'
<1> USE DEF TypeOK
<1>1. ASSUME NEW n \in Names, CreateRepository(caller, n) PROVE CoreTypeOK'
  <2>1. refs' \in [RepoIds -> [Refs -> GitRef]] /\ refNames' \in [RepoIds -> Seq(Refs)]
    BY <1>1, Zenon DEF CreateRepository, CoreTypeOK, refVars
  <2>2. <<caller, n>> \in RepoIds /\ now \in Nat
    BY Zenon DEF RepoIds, CoreTypeOK
  <2> QED
    BY <1>1, <2>1, <2>2, StoreRepositoryType, Zenon DEF CreateRepository
<1>2. ASSUME NEW source \in RepoIds, NEW n \in Names,
             ForkRepository(caller, source, n, RequireActiveRepository(source))
      PROVE  CoreTypeOK'
  BY <1>2, ForkType, Zenon
<1>3. ASSUME NEW r \in RepoIds, UpdateMetadata(caller, r) PROVE CoreTypeOK'
  BY <1>3, TouchMetadataType, Zenon DEF UpdateMetadata
<1>4. ASSUME NEW r \in RepoIds, NEW f \in Refs, NEW sha \in Shas, NEW p \in PackArguments,
             NEW expected \in Shas \cup {NoSha}, NEW force \in BOOLEAN,
             UpdateRef(caller, r, f, sha, p, expected, force, NotFrozen(r))
      PROVE  CoreTypeOK'
  BY <1>4, UpdateRefType DEF PackArguments
<1>5. ASSUME NEW r \in RepoIds, NEW f \in Refs, DeleteRef(caller, r, f, NotFrozen(r))
      PROVE  CoreTypeOK'
  BY <1>5, DeleteRefType, Zenon
<1>6. ASSUME NEW r \in RepoIds, NEW a \in CollaboratorAccounts, NEW role \in Roles,
             SetCollaborator(caller, r, a, role)
      PROVE  CoreTypeOK'
  BY <1>6, CollaboratorType, Zenon
<1>7. ASSUME NEW r \in RepoIds, NEW a \in TransferTargets,
             BeginOwnershipTransfer(caller, r, a, HasPendingRecovery(r))
      PROVE  CoreTypeOK'
  BY <1>7, BeginTransferType, Zenon
<1>8. ASSUME NEW r \in RepoIds,
             CancelOwnershipTransfer(caller, r) \/ ExpireOwnershipTransfer(r)
      PROVE  CoreTypeOK'
  BY <1>8, ClearPendingType, Zenon DEF CancelOwnershipTransfer, ExpireOwnershipTransfer
<1> QED
  BY <1>1, <1>2, <1>3, <1>4, <1>5, <1>6, <1>7, <1>8 DEF CoreCall

\* Every function of RecoveryModule that does not move ownership.
LEMMA RecoveryCallType ==
  ASSUME TypeOK, NEW caller \in Accounts, RecoveryCall(caller)
  PROVE  RecoveryTypeOK'
BY SetGuardiansType, ProposeRecoveryType, ApproveRecoveryType, CancelRecoveryType, SMTT(60)
DEF TypeOK, RecoveryCall

\* Every function of ModerationModule.
LEMMA ModerationCallType ==
  ASSUME TypeOK, NEW caller \in Accounts, ModerationCall(caller)
  PROVE  CoreTypeOK' /\ ModerationTypeOK'
<1> USE DEF TypeOK
<1>1. ASSUME NEW a \in CommitteeAccounts, SetCommittee(caller, a), UNCHANGED coreVars
      PROVE  CoreTypeOK' /\ ModerationTypeOK'
  BY <1>1, SetCommitteeType, UnchangedTypes, Zenon
<1>2. ASSUME NEW r \in RepoIds, NEW s \in Statuses, SetRepositoryStatus(caller, r, s)
      PROVE  CoreTypeOK' /\ ModerationTypeOK'
  BY <1>2, SetStatusType, Zenon
<1>3. ASSUME NEW r \in RepoIds, SubmitReport(caller, r)
      PROVE  CoreTypeOK' /\ ModerationTypeOK'
  BY <1>3, SubmitReportType, Zenon
<1>4. ASSUME NEW id \in ReportIds, NEW s \in Statuses,
             ResolveReport(caller, id, s) \/ ResolveAppeal(caller, id, s)
      PROVE  CoreTypeOK' /\ ModerationTypeOK'
  BY <1>4, DecideReportType, Zenon DEF ResolveReport, ResolveAppeal
<1>5. ASSUME NEW id \in ReportIds, AppealReport(caller, id)
      PROVE  CoreTypeOK' /\ ModerationTypeOK'
  BY <1>5, AppealReportType, Zenon
<1> QED
  BY <1>1, <1>2, <1>3, <1>4, <1>5, Zenon DEF ModerationCall

\* Every step keeps the types; the two list indexes are what keeps the
\* swap-and-pop of a list inside it.
LEMMA TypeStep ==
  ASSUME TypeOK, OwnerIndexExact, CollaboratorIndexExact, Next
  PROVE  TypeOK'
<1>1. CASE BootstrapImport
  <2>1. stage' \in 1..ActiveStage /\ imported' \in Nat
    BY <1>1 DEF BootstrapImport, TypeOK
  <2>2. ImportCore \/ ImportRecovery \/ ImportModeration \/ ImportEconomic
    BY <1>1, Zenon DEF BootstrapImport
  <2> QED
    BY <2>1, <2>2, ImportTypes, UnchangedTypes, Zenon
    DEF TypeOK, ImportCore, ImportRecovery, ImportModeration, ImportEconomic
<1>2. CASE FinalizeModule
  <2>1. stage' \in 1..ActiveStage /\ imported' \in Nat
    BY <1>2 DEF FinalizeModule, TypeOK, ActiveStage
  <2> QED
    BY <1>2, <2>1, UnchangedTypes, Zenon DEF FinalizeModule, TypeOK
<1>3. CASE ActiveCall
  <2>1. stage' \in 1..ActiveStage /\ imported' \in Nat
    BY <1>3, Zenon DEF ActiveCall, suiteVars, TypeOK
  <2>2. PICK caller \in Accounts :
          \/ CoreCall(caller) \/ RecoveryCall(caller) \/ EconomicCall(caller)
          \/ ModerationCall(caller) \/ AcceptTransfer(caller) \/ ExecuteRecovery(caller)
    BY <1>3, Zenon DEF ActiveCall
  <2>3. CASE CoreCall(caller)
    <3>1. CoreTypeOK'
      BY <2>3, CoreCallType, Zenon
    <3>2. UNCHANGED <<recoveryVars, economicVars, moderationVars>>
      BY <2>3, Zenon DEF CoreCall
    <3> QED
      BY <2>1, <3>1, <3>2, UnchangedTypes, Zenon DEF TypeOK
  <2>4. CASE RecoveryCall(caller)
    <3>1. RecoveryTypeOK'
      BY <2>4, RecoveryCallType, Zenon
    <3>2. UNCHANGED <<coreVars, economicVars, moderationVars>>
      BY <2>4, Zenon DEF RecoveryCall
    <3> QED
      BY <2>1, <3>1, <3>2, UnchangedTypes, Zenon DEF TypeOK
  <2>5. CASE EconomicCall(caller)
    <3>1. EconomicTypeOK'
      BY <2>5, EconomicType, Zenon DEF TypeOK, EconomicCall
    <3>2. UNCHANGED <<coreVars, recoveryVars, moderationVars>>
      BY <2>5, Zenon DEF EconomicCall
    <3> QED
      BY <2>1, <3>1, <3>2, UnchangedTypes, Zenon DEF TypeOK
  <2>6. CASE ModerationCall(caller)
    <3>1. CoreTypeOK' /\ ModerationTypeOK'
      BY <2>6, ModerationCallType, Zenon
    <3>2. UNCHANGED <<recoveryVars, economicVars>>
      BY <2>6, Zenon DEF ModerationCall
    <3> QED
      BY <2>1, <3>1, <3>2, UnchangedTypes, Zenon DEF TypeOK
  <2>7. CASE AcceptTransfer(caller) \/ ExecuteRecovery(caller)
    <3>1. PICK r \in RepoIds : /\ Exists(r)
                               /\ TransferOwnership(r, caller)
                               /\ OwnershipHook(r)
                               /\ UNCHANGED moderationVars
      BY <2>7, OwnerChange, ZenonT(60)
    <3>2. CoreTypeOK'
      BY <3>1, TransferOwnershipType, Zenon DEF TypeOK
    <3>3. RecoveryTypeOK' /\ EconomicTypeOK'
      <4>1. EconomicTypeOK'
        BY <3>1, SMTT(60) DEF OwnershipHook, ClearRevenueSplits, EconomicTypeOK, TypeOK
      <4> QED
        BY <3>1, <4>1, ClearRecoveryType, Zenon DEF OwnershipHook, TypeOK
    <3> QED
      BY <2>1, <3>1, <3>2, <3>3, UnchangedTypes, Zenon DEF TypeOK
  <2> QED
    BY <2>2, <2>3, <2>4, <2>5, <2>6, <2>7, Zenon
<1>4. CASE ClockTick
  <2>1. stage' \in 1..ActiveStage /\ imported' \in Nat
    BY <1>4, Zenon DEF ClockTick, suiteVars, TypeOK
  <2> QED
    BY <1>4, <2>1, TickType, UnchangedTypes, Zenon DEF ClockTick, TypeOK
<1> QED
  BY <1>1, <1>2, <1>3, <1>4, Zenon DEF Next

-----------------------------------------------------------------------------
(* The steps that touch refs                                               *)

NewStep ==
  /\ \E r \in RepoIds, a \in Accounts, n \in Names, source \in RepoIds \cup {NoRepo}, t \in Nat :
       /\ StoreRepository(r, a, n, source, t)
       /\ source = NoRepo \/ stage = CoreStage
  /\ UNCHANGED refVars

ForkStep ==
  \E caller \in Accounts, source \in RepoIds, n \in Names :
    ForkRepository(caller, source, n, RequireActiveRepository(source))

WriteStep ==
  \E caller \in Accounts, r \in RepoIds, f \in Refs, sha \in Shas, p \in SUBSET Packs,
     expected \in Shas \cup {NoSha}, force \in BOOLEAN :
    UpdateRef(caller, r, f, sha, p, expected, force, NotFrozen(r))

RemoveStep ==
  \E caller \in Accounts, r \in RepoIds, f \in Refs : DeleteRef(caller, r, f, NotFrozen(r))

ImportRefStep ==
  /\ stage = CoreStage
  /\ \E r \in RepoIds, f \in Refs, sha \in Shas, p \in SUBSET Packs, t \in Nat, a \in Accounts :
       StoreImportedRef(r, f, sha, p, t, a)

StillStep == UNCHANGED <<refs, refNames, forkedFrom>>

RefStep == NewStep \/ ForkStep \/ WriteStep \/ RemoveStep \/ ImportRefStep \/ StillStep

\* The functions of RepositoryCore that touch refs or add a repository; every
\* other one leaves them alone.
LEMMA RefSteps ==
  ASSUME TypeOK, [Next]_vars
  PROVE  RefStep
<1> USE DEF RefStep
<1>1. CASE BootstrapImport
  <2>1. CASE ImportCore
    <3>0. \A t \in 1..now : t \in Nat
      BY DEF TypeOK, CoreTypeOK
    <3>1. ASSUME NEW r \in RepoIds, NEW a \in Accounts, NEW n \in Names,
                 NEW source \in RepoIds \cup {NoRepo}, NEW t \in 1..now,
                 ImportRepository(r, a, n, source, t)
          PROVE  NewStep
      BY <2>1, <3>0, <3>1, ZenonT(30) DEF NewStep, ImportCore, ImportRepository
    <3>2. ASSUME NEW r \in RepoIds, NEW l \in Locators, ImportAlias(r, l)
          PROVE  StillStep
      BY <3>2, Zenon DEF StillStep, ImportAlias, refVars
    <3>3. ASSUME NEW r \in RepoIds, NEW f \in Refs, NEW sha \in Shas, NEW p \in PackArguments,
                 NEW t \in 1..now, NEW a \in Accounts, StoreImportedRef(r, f, sha, p, t, a)
          PROVE  ImportRefStep
      BY <2>1, <3>0, <3>3, ZenonT(30) DEF ImportRefStep, ImportCore, PackArguments
    <3>4. ASSUME NEW r \in RepoIds, NEW a \in CollaboratorAccounts, NEW role \in Roles,
                 StoreImportedCollaborator(r, a, role)
          PROVE  StillStep
      BY <3>4, Zenon DEF StillStep, StoreImportedCollaborator, identityVars, refVars
    <3> QED
      BY <2>1, <3>1, <3>2, <3>3, <3>4, Zenon DEF ImportCore
  <2> QED
    BY <1>1, <2>1, Zenon
    DEF BootstrapImport, ImportRecovery, ImportModeration, ImportEconomic, coreVars, StillStep,
        identityVars, refVars
<1>2. CASE FinalizeModule \/ ClockTick \/ UNCHANGED vars
  BY <1>2, Zenon DEF FinalizeModule, ClockTick, Tick, vars, coreVars, identityVars, refVars, StillStep
<1>3. CASE ActiveCall
  <2>1. PICK caller \in Accounts :
          \/ CoreCall(caller) \/ RecoveryCall(caller) \/ EconomicCall(caller)
          \/ ModerationCall(caller) \/ AcceptTransfer(caller) \/ ExecuteRecovery(caller)
    BY <1>3, Zenon DEF ActiveCall
  <2>2. CASE CoreCall(caller)
    <3>1. ASSUME NEW n \in Names, CreateRepository(caller, n) PROVE NewStep
      <4>1. <<caller, n>> \in RepoIds /\ now \in Nat
        BY Zenon DEF RepoIds, TypeOK, CoreTypeOK
      <4> QED
        BY <3>1, <4>1, Zenon DEF NewStep, CreateRepository
    <3>2. ASSUME NEW source \in RepoIds, NEW n \in Names,
                 ForkRepository(caller, source, n, RequireActiveRepository(source))
          PROVE  ForkStep
      BY <3>2, Zenon DEF ForkStep
    <3>3. ASSUME NEW r \in RepoIds, NEW f \in Refs, NEW sha \in Shas, NEW p \in PackArguments,
                 NEW expected \in Shas \cup {NoSha}, NEW force \in BOOLEAN,
                 UpdateRef(caller, r, f, sha, p, expected, force, NotFrozen(r))
          PROVE  WriteStep
      <4>1. p \in SUBSET Packs
        BY Zenon DEF PackArguments
      <4> QED
        BY <3>3, <4>1 DEF WriteStep
    <3>4. ASSUME NEW r \in RepoIds, NEW f \in Refs, DeleteRef(caller, r, f, NotFrozen(r))
          PROVE  RemoveStep
      BY <3>4, Zenon DEF RemoveStep
    <3>5. ASSUME NEW r \in RepoIds,
                 \/ UpdateMetadata(caller, r)
                 \/ \E a \in CollaboratorAccounts, role \in Roles :
                      SetCollaborator(caller, r, a, role)
                 \/ \E a \in TransferTargets :
                      BeginOwnershipTransfer(caller, r, a, HasPendingRecovery(r))
                 \/ CancelOwnershipTransfer(caller, r)
                 \/ ExpireOwnershipTransfer(r)
          PROVE  StillStep
      BY <3>5, ZenonT(60)
      DEF StillStep, UpdateMetadata, TouchMetadata, SetCollaborator, BeginOwnershipTransfer,
          CancelOwnershipTransfer, ExpireOwnershipTransfer, ClearPending, identityVars, refVars
    <3> QED
      BY <2>2, <3>1, <3>2, <3>3, <3>4, <3>5 DEF CoreCall
  <2>3. CASE ModerationCall(caller)
    BY <2>3, ZenonT(60)
    DEF ModerationCall, coreVars, SetRepositoryStatus, Decide, SubmitReport, ResolveReport,
        ResolveAppeal, DecideReport, AppealReport, TouchMetadata, StillStep, identityVars, refVars
  <2>4. CASE AcceptTransfer(caller) \/ ExecuteRecovery(caller)
    BY <2>4, OwnerChange, ZenonT(60) DEF TransferOwnership, StillStep, refVars
  <2>5. CASE RecoveryCall(caller) \/ EconomicCall(caller)
    BY <2>5, Zenon DEF RecoveryCall, EconomicCall, coreVars, StillStep, identityVars, refVars
  <2> QED
    BY <2>1, <2>2, <2>3, <2>4, <2>5, Zenon
<1> QED
  BY <1>1, <1>2, <1>3, Zenon DEF Next

\* Every step keeps the lists of refs exact.
LEMMA RefsKept ==
  ASSUME TypeOK, RefsInv, RefStep, IdentityStep
  PROVE  RefsInv'
<1> USE DEF TypeOK
<1>1. \A q \in RepoIds : Exists(q) => Exists(q)'
  BY OwnersStay, Zenon
<1>2. CASE NewStep
  BY <1>1, <1>2, CreateKeepsRefs, Zenon DEF NewStep
<1>3. CASE ForkStep
  BY <1>1, <1>3, ForkKeepsRefs, Zenon DEF ForkStep
<1>4. CASE WriteStep
  BY <1>4, UpdateKeepsRefs DEF WriteStep
<1>5. CASE RemoveStep
  BY <1>5, DeleteKeepsRefs, Zenon DEF RemoveStep
<1>6. CASE ImportRefStep
  BY <1>6, ImportKeepsRefs, Zenon DEF ImportRefStep
<1>7. CASE StillStep
  BY <1>1, <1>7, RefsStand, Zenon DEF StillStep
<1> QED
  BY <1>2, <1>3, <1>4, <1>5, <1>6, <1>7, Zenon DEF RefStep

-----------------------------------------------------------------------------
(* Statuses, and what a change of a ref records                           *)

\* Only a repository that exists has a status of its own.
UnusedActive == \A r \in RepoIds : ~Exists(r) => statuses[r] = "Active"

\* No step gives a status to a repository that is not there.
LEMMA StatusOfExisting ==
  ASSUME TypeOK, [Next]_vars, NEW r \in RepoIds, ~Exists(r)
  PROVE  statuses'[r] = statuses[r]
<1>0. statuses \in [RepoIds -> Statuses]
  BY Zenon DEF TypeOK, ModerationTypeOK
<1>1. CASE BootstrapImport
  <2>1. CASE ImportModeration
    BY <1>0, <2>1, Zenon
    DEF ImportModeration, ImportStatus, StoreImportedReport, StoreImportedStatusTrail
  <2> QED
    BY <1>1, <2>1, ZenonT(30)
    DEF BootstrapImport, ImportCore, ImportRecovery, ImportEconomic, moderationVars
<1>2. CASE FinalizeModule \/ ClockTick \/ UNCHANGED vars
  BY <1>2, Zenon DEF FinalizeModule, ClockTick, vars, moderationVars
<1>3. CASE ActiveCall
  <2>1. PICK caller \in Accounts :
          \/ CoreCall(caller) \/ RecoveryCall(caller) \/ EconomicCall(caller)
          \/ ModerationCall(caller) \/ AcceptTransfer(caller) \/ ExecuteRecovery(caller)
    BY <1>3, Zenon DEF ActiveCall
  <2>2. CASE ModerationCall(caller)
    <3>1. ASSUME NEW q, NEW s, NEW id, Decide(q, s, id) PROVE statuses'[r] = statuses[r]
      <4>1. statuses' = [statuses EXCEPT ![q] = s] /\ q # r
        BY <3>1, Zenon DEF Decide, TouchMetadata
      <4> QED
        BY <1>0, <4>1, Zenon
    <3>2. CASE \E q \in RepoIds, s \in Statuses : SetRepositoryStatus(caller, q, s)
      BY <3>1, <3>2, Zenon DEF SetRepositoryStatus
    <3>3. CASE \E id \in ReportIds, s \in Statuses :
                 ResolveReport(caller, id, s) \/ ResolveAppeal(caller, id, s)
      BY <3>1, <3>3, Zenon DEF ResolveReport, ResolveAppeal, DecideReport
    <3>4. CASE \/ \E a \in CommitteeAccounts : SetCommittee(caller, a)
               \/ \E q \in RepoIds : SubmitReport(caller, q)
               \/ \E id \in ReportIds : AppealReport(caller, id)
      BY <3>4, Zenon DEF SetCommittee, SubmitReport, AppealReport
    <3> QED
      BY <2>2, <3>2, <3>3, <3>4, Zenon DEF ModerationCall
  <2>3. CASE ~ModerationCall(caller)
    BY <2>1, <2>3, Zenon
    DEF CoreCall, RecoveryCall, EconomicCall, AcceptTransfer, ExecuteRecovery, moderationVars
  <2> QED
    BY <2>2, <2>3, Zenon
<1> QED
  BY <1>1, <1>2, <1>3, Zenon DEF Next

\* What a frozen repository holds, and who may be forked, in a step of the suite.
LEMMA FrozenStep ==
  ASSUME TypeOK, RefsInv, UnusedActive, RefStep, stage = ActiveStage, NEW r \in RepoIds
  PROVE  /\ statuses[r] = "Frozen" => refs'[r] = refs[r] /\ refNames'[r] = refNames[r]
         /\ \A s \in RepoIds : ~Exists(s) /\ forkedFrom'[s] = r => statuses[r] = "Active"
<1>0. CoreTypeOK /\ stage # CoreStage /\ r # NoRepo
  <2>1. ActiveStage # CoreStage
    BY StagesDiffer, Zenon
  <2> QED
    BY <2>1, NoRepoAssumption, Zenon DEF TypeOK
<1>1. \A s \in RepoIds : ~Exists(s) => forkedFrom[s] # r
  BY <1>0, Zenon DEF RefsInv, UnusedEmpty
<1>2. CASE NewStep
  <2>0. PICK q \in RepoIds, a \in Accounts, n \in Names, source \in RepoIds \cup {NoRepo}, t \in Nat :
          StoreRepository(q, a, n, source, t) /\ source = NoRepo
    BY <1>0, <1>2, Zenon DEF NewStep
  <2>1. forkedFrom' = [forkedFrom EXCEPT ![q] = NoRepo]
    BY <2>0, Zenon DEF StoreRepository
  <2>2. \A s \in RepoIds : forkedFrom'[s] = forkedFrom[s] \/ forkedFrom'[s] = NoRepo
    BY <1>0, <2>1, Zenon DEF CoreTypeOK
  <2> QED
    BY <1>0, <1>1, <1>2, <2>2, Zenon DEF NewStep, refVars
<1>3. CASE ForkStep
  <2>1. PICK caller \in Accounts, source \in RepoIds, n \in Names :
          ForkRepository(caller, source, n, RequireActiveRepository(source))
    BY <1>3, Zenon DEF ForkStep
  <2> DEFINE id == <<caller, n>>
  <2>2. id \in RepoIds
    BY Zenon DEF RepoIds
  <2>3. /\ RequireActiveRepository(source) /\ ~Exists(id) /\ forkedFrom'[id] = source
        /\ \A q \in RepoIds \ {id} :
             /\ refs'[q] = refs[q] /\ refNames'[q] = refNames[q]
             /\ forkedFrom'[q] = forkedFrom[q]
    BY <1>0, <2>1, ForkTouchesNew, ZenonT(30)
  <2> HIDE DEF id
  <2>4. statuses[id] = "Active"
    BY <2>2, <2>3, Zenon DEF UnusedActive
  <2> QED
    BY <1>1, <2>2, <2>3, <2>4, Zenon DEF RequireActiveRepository
<1>4. CASE WriteStep
  <2>1. PICK caller \in Accounts, q \in RepoIds, f \in Refs, sha \in Shas, p \in SUBSET Packs,
             expected \in Shas \cup {NoSha}, force \in BOOLEAN :
          UpdateRef(caller, q, f, sha, p, expected, force, NotFrozen(q))
    BY <1>4, Zenon DEF WriteStep
  <2>2. NotFrozen(q) /\ TouchesOne(caller, q, f)
    BY <1>0, <2>1, UpdateTouchesOne, Zenon
  <2> QED
    BY <1>1, <2>2, Zenon DEF NotFrozen, TouchesOne
<1>5. CASE RemoveStep
  <2>1. PICK q \in RepoIds : /\ NotFrozen(q) /\ forkedFrom' = forkedFrom
                             /\ \E f : refs' = [refs EXCEPT ![q][f] = NoRef]
                             /\ \E names : refNames' = [refNames EXCEPT ![q] = names]
    BY <1>5, ZenonT(30) DEF RemoveStep, DeleteRef, identityVars
  <2> QED
    BY <1>0, <1>1, <2>1, Zenon DEF NotFrozen, CoreTypeOK
<1>6. CASE ImportRefStep
  BY <1>0, <1>6, Zenon DEF ImportRefStep
<1>7. CASE StillStep
  BY <1>1, <1>7, Zenon DEF StillStep
<1> QED
  BY <1>2, <1>3, <1>4, <1>5, <1>6, <1>7, Zenon DEF RefStep

\* Who writes a ref of a repository, and what is recorded of it.
LEMMA RefChangeStep ==
  ASSUME TypeOK, RefStep, stage = ActiveStage, NEW r \in RepoIds, NEW f \in Refs,
         Exists(r), refs'[r][f] # refs[r][f]
  PROVE  /\ updatedAt'[r] = now
         /\ refs'[r][f] # NoRef =>
              /\ refs'[r][f].updatedAt = now
              /\ refs'[r][f].updatedBy = owner[r]
                 \/ roles[r][refs'[r][f].updatedBy] = "Maintainer"
<1>0. CoreTypeOK /\ stage # CoreStage
  <2>1. ActiveStage # CoreStage
    BY StagesDiffer, Zenon
  <2> QED
    BY <2>1, Zenon DEF TypeOK
<1>1. CASE NewStep \/ StillStep \/ ImportRefStep
  BY <1>0, <1>1, Zenon DEF NewStep, StillStep, ImportRefStep, refVars
<1>2. CASE ForkStep
  <2>1. PICK caller \in Accounts, source \in RepoIds, n \in Names :
          ForkRepository(caller, source, n, RequireActiveRepository(source))
    BY <1>2, Zenon DEF ForkStep
  <2>2. ~Exists(<<caller, n>>) /\ \A q \in RepoIds \ {<<caller, n>>} : refs'[q] = refs[q]
    BY <1>0, <2>1, ForkTouchesNew, ZenonT(30)
  <2> QED
    BY <2>2, Zenon
<1>3. CASE WriteStep
  <2>1. PICK caller \in Accounts, q \in RepoIds, g \in Refs, sha \in Shas, p \in SUBSET Packs,
             expected \in Shas \cup {NoSha}, force \in BOOLEAN :
          UpdateRef(caller, q, g, sha, p, expected, force, NotFrozen(q))
    BY <1>3, Zenon DEF WriteStep
  <2>2. /\ CanMaintain(q, caller)
        /\ \A s \in RepoIds \ {q} : refs'[s] = refs[s]
        /\ \A h \in Refs \ {g} : refs'[q][h] = refs[q][h]
        /\ refs'[q][g].updatedAt = now /\ refs'[q][g].updatedBy = caller /\ updatedAt'[q] = now
    <3>1. NotFrozen(q) /\ TouchesOne(caller, q, g)
      BY <1>0, <2>1, UpdateTouchesOne, Zenon
    <3> QED
      BY <3>1, Zenon DEF TouchesOne
  <2>3. q = r /\ g = f
    BY <2>2, Zenon
  <2> QED
    BY <2>2, <2>3, Zenon DEF CanMaintain
<1>4. CASE RemoveStep
  <2>1. PICK q \in RepoIds, g \in Refs : /\ refs' = [refs EXCEPT ![q][g] = NoRef]
                                         /\ updatedAt' = [updatedAt EXCEPT ![q] = now]
    BY <1>4, ZenonT(30) DEF RemoveStep, DeleteRef
  <2>2. q = r /\ g = f /\ refs'[r][f] = NoRef
    <3>1. q = r
      BY <1>0, <2>1, Zenon DEF CoreTypeOK
    <3>2. refs'[r] = [refs[r] EXCEPT ![g] = NoRef] /\ refs[r] \in [Refs -> GitRef]
      BY <1>0, <2>1, <3>1, Zenon DEF CoreTypeOK
    <3> QED
      BY <3>1, <3>2, Zenon
  <2> QED
    BY <1>0, <2>1, <2>2, Zenon DEF CoreTypeOK
<1> QED
  BY <1>1, <1>2, <1>3, <1>4, Zenon DEF RefStep
===============================================================================

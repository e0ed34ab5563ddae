-------------------------- MODULE UserMachineProofs --------------------------
(***************************************************************************)
(* Proofs about what runs on a user's machine.                             *)
(*                                                                         *)
(* RemoteHelper, for any history, any refs and any number of helpers: the  *)
(* packs the registry lists stay complete until something is rewritten, a  *)
(* clone gets every commit that it lists, refs only move forward, and a    *)
(* replaced list stands alone.                                             *)
(*                                                                         *)
(* Workstation, for every number of processes, names, commands and faults: *)
(* configurations never mix networks, settings are kept, the selected key  *)
(* resolves, and an installation stays in place.                           *)
(***************************************************************************)
EXTENDS RemoteHelper, Workstation, TLAPS

-----------------------------------------------------------------------------
(* What git reaches.                                                       *)

\* A commit reaches itself, and the parents of what it reaches.
LEMMA HistoryClosed ==
  ASSUME HelperAssumption, NEW c \in Commits
  PROVE  /\ c \in History[c]
         /\ History[c] \subseteq Commits
         /\ \A x \in History[c] : Parents[x] \subseteq History[c]
<1>1. History[c] = Reach(c, Commits)
  BY Zenon DEF History
<1>2. c \in Reach(c, Commits) /\ Reach(c, Commits) \subseteq Commits
  BY Zenon DEF Reach
<1>3. ASSUME NEW x \in Reach(c, Commits), NEW p \in Parents[x]
      PROVE  p \in Reach(c, Commits)
  <2>1. x \in Commits /\ p \in Commits
    BY <1>2, Zenon DEF HelperAssumption
  <2>2. ASSUME NEW S \in SUBSET Commits, c \in S, \A y \in S : Parents[y] \cap Commits \subseteq S
        PROVE  p \in S
    <3>1. x \in S
      BY <2>2, <1>3, Zenon DEF Reach
    <3> QED
      BY <3>1, <2>1, <2>2, Zenon
  <2> QED
    BY <2>1, <2>2, Zenon DEF Reach
<1> QED
  BY <1>1, <1>2, <1>3, Zenon

\* A clone with missing objects reaches no more than the whole history.
LEMMA ReachInHistory ==
  ASSUME HelperAssumption, NEW objs \in SUBSET Commits, NEW c \in Commits
  PROVE  Reach(c, objs) \subseteq History[c]
<1> SUFFICES ASSUME NEW a \in Reach(c, objs), NEW S \in SUBSET Commits,
                    c \in S, \A x \in S : Parents[x] \cap Commits \subseteq S
             PROVE  a \in S
  BY Zenon DEF History, Reach
<1>1. c \in S \cap objs
  BY Zenon DEF Reach
<1>2. \A x \in S \cap objs : Parents[x] \cap objs \subseteq S \cap objs
  BY Zenon
<1> QED
  BY <1>1, <1>2, ZenonT(60) DEF Reach

\* A clone that has the whole history of a commit reaches all of it.
LEMMA ReachComplete ==
  ASSUME HelperAssumption, NEW objs \in SUBSET Commits, NEW c \in Commits,
         History[c] \subseteq objs
  PROVE  Reach(c, objs) = History[c]
<1> SUFFICES ASSUME NEW a \in History[c], NEW S \in SUBSET objs,
                    c \in S, \A x \in S : Parents[x] \cap objs \subseteq S
             PROVE  a \in S
  BY HistoryClosed, ReachInHistory, Zenon DEF Reach
<1> DEFINE T == S \cap History[c]
<1>1. c \in T /\ T \in SUBSET Commits
  BY HistoryClosed, Zenon
<1>2. \A x \in T : Parents[x] \cap Commits \subseteq T
  BY HistoryClosed, Zenon
<1>3. a \in Reach(c, Commits)
  BY Zenon DEF History
<1>4. a \in T
  BY <1>1, <1>2, <1>3, ZenonT(60) DEF Reach
<1> QED
  BY <1>4, Zenon

-----------------------------------------------------------------------------
(* RemoteHelper: the inductive invariant.                                  *)

\* The types of the registry, the caches and the queues, which the proof needs.
HelperTyped ==
    /\ refs \in [Refs -> RefInfos \cup {NoRef}]
    /\ cache \in [Helpers -> [Refs -> RefInfos \cup {NoRef}]]
    /\ objects \in [Helpers -> SUBSET Commits]
    /\ pool \in [Helpers -> Seq(Txs)]
    /\ rewritten \in BOOLEAN

\* The objects in the packs some live ref lists.
Listed == UNION {Packed(refs[g].packs) : g \in Live}

\* What a pusher's transaction still guarantees when it is mined.
TxOK(tx) ==
    tx.sha # NoCommit =>
       /\ ~rewritten => History[tx.sha] \subseteq Listed \cup Packed(tx.packUris)
       /\ tx.force => History[tx.sha] \subseteq Packed(tx.packUris)
       /\ ~tx.force => tx.expectedSha = NoCommit \/ tx.expectedSha \in History[tx.sha]

\* Every queued transaction keeps its guarantee until it is mined.
PoolOK == \A h \in Helpers : \A i \in DOMAIN pool[h] : TxOK(pool[h][i])

\* Until something is rewritten, the packs in the registry hold what any helper
\* listed, also after others pushed.
CacheOK ==
    ~rewritten => \A h \in Helpers, f \in Refs :
        cache[h][f] # NoRef => History[cache[h][f].sha] \subseteq Listed

\* The inductive invariant.
HelperInv == HelperTyped /\ RepositoryComplete /\ CacheOK /\ PoolOK

\* An empty registry with nothing queued satisfies the invariant.
LEMMA HelperInitInv ==
  ASSUME HelperAssumption, HelperInit PROVE HelperInv
<1>1. HelperTyped
  <2>1. Work \in [Helpers -> SUBSET Commits]
    BY Zenon DEF HelperAssumption
  <2>2. refs \in [Refs -> RefInfos \cup {NoRef}]
    BY Zenon DEF HelperInit
  <2>3. cache \in [Helpers -> [Refs -> RefInfos \cup {NoRef}]]
    BY <2>2, Zenon DEF HelperInit
  <2>4. pool \in [Helpers -> Seq(Txs)]
    BY DEF HelperInit
  <2> QED
    BY <2>1, <2>2, <2>3, <2>4, ZenonT(60) DEF HelperInit, HelperTyped
<1>2. RepositoryComplete
  BY Zenon DEF HelperInit, RepositoryComplete, Live
<1>3. CacheOK
  BY Zenon DEF HelperInit, CacheOK
<1>4. PoolOK
  <2>1. \A h \in Helpers : DOMAIN pool[h] = {}
    BY DEF HelperInit
  <2> QED
    BY <2>1, Zenon DEF PoolOK
<1> QED
  BY <1>1, <1>2, <1>3, <1>4, Zenon DEF HelperInv

-----------------------------------------------------------------------------
(* Sending a transaction.                                                  *)

\* While the registry is untouched, so is what it lists.
LEMMA ListedUnchanged ==
  ASSUME UNCHANGED registry
  PROVE  Listed' = Listed /\ Live' = Live /\ refs' = refs /\ rewritten' = rewritten
BY DEF registry, Listed, Live, Packed, Elements

\* A pack of a commit and what it leaves out hold the commit's whole history.
LEMMA PackCovers ==
  ASSUME HelperAssumption, NEW objs \in SUBSET Commits, NEW c \in Commits,
         History[c] \subseteq objs, NEW exclude \in SUBSET objs,
         NEW pack \in PackObjects(objs, c, exclude)
  PROVE  /\ pack \in Packs
         /\ History[c] \subseteq pack.objs \cup UNION {History[x] : x \in exclude}
<1>1. Reach(c, objs) = History[c]
  BY ReachComplete, Zenon
<1>2. \A x \in exclude : Reach(x, objs) \subseteq History[x]
  BY ReachInHistory, Zenon
<1> DEFINE new == Reach(c, objs) \ UNION {Reach(x, objs) : x \in exclude}
           edge == UNION {Parents[x] : x \in new} \ new
<1>3. PICK b \in SUBSET edge : pack = [objs |-> new, bases |-> b]
  BY Zenon DEF PackObjects
<1>4. new \subseteq Commits
  BY <1>1, HistoryClosed, Zenon
<1>5. edge \subseteq Commits
  BY <1>4 DEF HelperAssumption
<1>6. pack \in Packs
  BY <1>3, <1>4, <1>5, Zenon DEF Packs
<1>7. pack.objs = new
  BY <1>3, Zenon
<1> QED
  BY <1>1, <1>2, <1>6, <1>7

\* A list of one pack holds the objects of that pack.
LEMMA PackedOne ==
  ASSUME NEW p PROVE Packed(<<p>>) = p.objs
<1>1. Elements(<<p>>) = {p}
  BY DEF Elements
<1> QED
  BY <1>1, Zenon DEF Packed

\* What pushOne sends guarantees what TxOK asks of it.
LEMMA PushedTxOK ==
  ASSUME HelperAssumption, HelperInv,
         NEW h \in Helpers, NEW c \in Commits, NEW f \in Refs, NEW force \in BOOLEAN,
         GitSends(h, c, f, force),
         NEW pack \in PackObjects(objects[h], c, Exclude(h, force) \cap objects[h]),
         NEW uris \in PushUris(h, c, f, pack),
         NEW tx, tx = [ref |-> f, sha |-> c, packUris |-> uris, force |-> force,
                       expectedSha |-> IF cache[h][f] = NoRef THEN NoCommit ELSE cache[h][f].sha]
  PROVE  tx \in Txs /\ TxOK(tx)
<1> DEFINE out == Exclude(h, force) \cap objects[h]
<1>1. objects[h] \in SUBSET Commits /\ History[c] \subseteq objects[h] /\ out \in SUBSET objects[h]
  BY Zenon DEF HelperInv, HelperTyped, GitSends
<1>2. \A g \in Refs : cache[h][g] # NoRef => cache[h][g] \in RefInfos
  BY DEF HelperInv, HelperTyped
<1>3. /\ pack \in Packs
      /\ History[c] \subseteq pack.objs \cup UNION {History[x] : x \in out}
  BY <1>1, PackCovers, ZenonT(60)
<1>4. ~rewritten => UNION {History[x] : x \in out} \subseteq Listed
  BY DEF Exclude, HelperInv, CacheOK
<1>5. force => out = {}
  BY Zenon DEF Exclude
<1>6. CASE pack.objs # {}
  <2>1. uris = <<pack>>
    BY <1>6, Zenon DEF PushUris
  <2>2. Packed(uris) = pack.objs /\ uris \in Seq(Packs)
    BY <2>1, <1>3, PackedOne
  <2>3. (~rewritten => History[c] \subseteq Listed \cup Packed(uris))
        /\ (force => History[c] \subseteq Packed(uris))
    BY <2>2, <1>3, <1>4, <1>5
  <2> QED
    BY <2>2, <2>3, <1>2, Zenon DEF TxOK, Txs, GitSends, RefInfos
<1>7. CASE pack.objs = {} /\ cache[h][f] # NoRef
  <2>1. uris = cache[h][f].packs
    BY <1>7, Zenon DEF PushUris
  <2>2. uris \in Seq(Packs)
    BY <2>1, <1>2, <1>7, Zenon DEF RefInfos
  <2>3. ~force
    BY <1>3, <1>5, <1>7, HistoryClosed, Zenon
  <2>4. ~rewritten => History[c] \subseteq Listed
    BY <1>3, <1>4, <1>7, Zenon
  <2> QED
    BY <2>2, <2>3, <2>4, <1>2, Zenon DEF TxOK, Txs, GitSends, RefInfos
<1>8. CASE pack.objs = {} /\ cache[h][f] = NoRef
  <2>1. PICK p \in PackObjects(objects[h], c, {}) : uris = <<p>>
    BY <1>8, Zenon DEF PushUris
  <2>2. p \in Packs /\ History[c] \subseteq p.objs
    BY <1>1, PackCovers
  <2>3. Packed(uris) = p.objs /\ uris \in Seq(Packs)
    BY <2>1, <2>2, PackedOne
  <2> QED
    BY <2>2, <2>3, <1>8 DEF TxOK, Txs
<1> QED
  BY <1>6, <1>7, <1>8, Zenon

\* Queueing a transaction that satisfies TxOK keeps the invariant.
LEMMA SendIInv ==
  ASSUME HelperAssumption, HelperInv, NEW h \in Helpers, NEW tx \in Txs, TxOK(tx), Send(h, tx)
  PROVE  HelperInv'
<1>1. Listed' = Listed /\ Live' = Live /\ refs' = refs /\ rewritten' = rewritten
  BY ListedUnchanged, Zenon DEF Send
<1>2. cache' = cache /\ objects' = objects /\ pool' = [pool EXCEPT ![h] = Append(@, tx)]
  BY Zenon DEF Send, clones
<1>3. HelperTyped'
  BY <1>1, <1>2 DEF HelperInv, HelperTyped
<1>4. RepositoryComplete' /\ CacheOK'
  BY <1>1, <1>2, ZenonT(60) DEF HelperInv, RepositoryComplete, CacheOK, Listed
<1>5. ASSUME NEW g \in Helpers, NEW i \in DOMAIN pool'[g]
      PROVE  TxOK(pool[g][i])'
  <2>1. pool'[g][i] = tx \/ (i \in DOMAIN pool[g] /\ pool'[g][i] = pool[g][i])
    BY <1>2, <1>5 DEF HelperInv, HelperTyped
  <2>2. PICK u : u = pool'[g][i]
    BY Zenon
  <2>3. TxOK(u)
    BY <2>1, <2>2, Zenon DEF HelperInv, PoolOK
  <2> QED
    BY <2>2, <2>3, <1>1, Zenon DEF TxOK
<1> QED
  BY <1>3, <1>4, <1>5, Zenon DEF HelperInv, PoolOK

-----------------------------------------------------------------------------
(* Mining a transaction.                                                   *)

\* Appending lists unites their elements, as updateRef's loop over the URIs does.
LEMMA ElementsConcat ==
  ASSUME NEW S, NEW s \in Seq(S), NEW t \in Seq(S)
  PROVE  s \o t \in Seq(S) /\ Elements(s) \cup Elements(t) \subseteq Elements(s \o t)
<1>1. /\ s \o t \in Seq(S)
      /\ Len(s \o t) = Len(s) + Len(t)
      /\ \A i \in 1..(Len(s) + Len(t)) : (s \o t)[i] = IF i <= Len(s) THEN s[i] ELSE t[i - Len(s)]
  OBVIOUS
<1>2. DOMAIN s = 1..Len(s) /\ DOMAIN t = 1..Len(t) /\ DOMAIN (s \o t) = 1..(Len(s) + Len(t))
  BY <1>1
<1>3. ASSUME NEW i \in 1..Len(s) PROVE s[i] \in Elements(s \o t)
  <2>1. i \in DOMAIN (s \o t) /\ (s \o t)[i] = s[i]
    BY <1>1, <1>2
  <2> QED
    BY <2>1, Zenon DEF Elements
<1>4. ASSUME NEW i \in 1..Len(t) PROVE t[i] \in Elements(s \o t)
  <2>1. Len(s) + i \in DOMAIN (s \o t) /\ (s \o t)[Len(s) + i] = t[i]
    BY <1>1, <1>2
  <2> QED
    BY <2>1, Zenon DEF Elements
<1> QED
  BY <1>1, <1>2, <1>3, <1>4, ZenonT(60) DEF Elements

\* The list updateRef leaves has the new packs, and the old ones unless forced.
LEMMA NewPacksHold ==
  ASSUME HelperAssumption, HelperTyped, NEW tx \in Txs, NEW packs \in NewPacks(tx)
  PROVE  /\ packs \in Seq(Packs)
         /\ Elements(tx.packUris) \subseteq Elements(packs)
         /\ ~tx.force /\ refs[tx.ref] # NoRef => Elements(refs[tx.ref].packs) \subseteq Elements(packs)
<1>1. tx.packUris \in Seq(Packs) /\ tx.ref \in Refs
  BY Zenon DEF Txs
<1>2. CASE tx.force \/ refs[tx.ref] = NoRef
  BY <1>1, <1>2, Zenon DEF NewPacks
<1>3. CASE ~tx.force /\ refs[tx.ref] # NoRef
  <2> DEFINE old == refs[tx.ref].packs
             fresh == Elements(tx.packUris) \ Elements(old)
  <2>1. old \in Seq(Packs)
    BY <1>1, <1>3, Zenon DEF HelperTyped, RefInfos
  <2>2. fresh \subseteq Packs
    BY <1>1 DEF Elements
  <2>8. PICK t \in UNION {[1..n -> fresh] : n \in 0..Len(tx.packUris)} :
           packs = old \o t /\ Elements(t) = fresh
    BY <1>3, ZenonT(60) DEF NewPacks
  <2>3. PICK n \in 0..Len(tx.packUris) : t \in [1..n -> fresh]
    BY Zenon
  <2> HIDE DEF old, fresh
  <2>4. n \in Nat /\ t \in Seq(Packs) /\ Len(t) = n /\ DOMAIN t = 1..n
    BY <2>2, <2>3, <1>1
  <2>9. packs = old \o t
    BY <2>8, Zenon
  <2>5. packs \in Seq(Packs) /\ Elements(old) \cup Elements(t) \subseteq Elements(packs)
    BY <2>1, <2>4, <2>9, ElementsConcat, Zenon
  <2> QED
    BY <2>8, <2>5, <1>3, Zenon DEF fresh, old
<1> QED
  BY <1>2, <1>3, Zenon

\* More packs hold more objects.
LEMMA PackedMonotone ==
  ASSUME NEW s, NEW t, Elements(s) \subseteq Elements(t)
  PROVE  Packed(s) \subseteq Packed(t)
BY Zenon DEF Packed

\* A transaction that replaces nothing only adds to what the registry lists.
LEMMA UpdateExtends ==
  ASSUME HelperAssumption, HelperTyped, NEW tx \in Txs, ~tx.force, NEW packs \in NewPacks(tx),
         refs' = [refs EXCEPT ![tx.ref] = [sha |-> tx.sha, packs |-> packs]],
         tx.sha # NoCommit
  PROVE  Listed \cup Packed(tx.packUris) \subseteq Listed'
<1> DEFINE info == [sha |-> tx.sha, packs |-> packs]
<1>1. tx.ref \in Refs /\ tx.sha \in Commits
  BY Zenon DEF Txs
<1>2. info \in RefInfos
  BY <1>1, NewPacksHold, Zenon DEF RefInfos
<1>3. info # NoRef
  BY <1>2, Zenon DEF HelperAssumption, RefInfos, Packs
<1>4. refs'[tx.ref] = info /\ \A g \in Refs : g # tx.ref => refs'[g] = refs[g]
  BY <1>1, Zenon DEF HelperTyped
<1> HIDE DEF info
<1>5. tx.ref \in Live' /\ refs'[tx.ref].packs = packs
  BY <1>1, <1>3, <1>4 DEF Live, info
<1>6. Packed(packs) \subseteq Listed'
  BY <1>5, SMTT(60) DEF Listed, Packed, Elements
<1>7. Packed(tx.packUris) \subseteq Packed(packs)
  BY NewPacksHold, PackedMonotone, ZenonT(60)
<1>8. ASSUME NEW g \in Live PROVE Packed(refs[g].packs) \subseteq Listed'
  <2>1. CASE g = tx.ref
    <3>1. Packed(refs[g].packs) \subseteq Packed(packs)
      BY <2>1, <1>8, NewPacksHold, PackedMonotone, ZenonT(60) DEF Live
    <3> QED
      BY <3>1, <1>6, Zenon
  <2>2. CASE g # tx.ref
    <3>1. g \in Live' /\ refs'[g] = refs[g]
      BY <2>2, <1>4, <1>8, Zenon DEF Live
    <3> QED
      BY <3>1 DEF Listed, Packed, Elements
  <2> QED
    BY <2>1, <2>2, Zenon
<1> QED
  BY <1>6, <1>7, <1>8, Zenon DEF Listed

\* The head of an account's queue keeps TxOK, and its tail holds no new one.
LEMMA QueueFacts ==
  ASSUME HelperInv, NEW h \in Helpers, pool[h] # <<>>,
         pool' = [pool EXCEPT ![h] = Tail(@)]
  PROVE  /\ Head(pool[h]) \in Txs /\ TxOK(Head(pool[h]))
         /\ pool' \in [Helpers -> Seq(Txs)]
         /\ \A g \in Helpers : \A i \in DOMAIN pool'[g] : TxOK(pool'[g][i])
<1>1. pool[h] \in Seq(Txs) /\ pool \in [Helpers -> Seq(Txs)]
  BY Zenon DEF HelperInv, HelperTyped
<1>2. 1 \in DOMAIN pool[h] /\ Head(pool[h]) = pool[h][1]
  BY <1>1
<1>3. Tail(pool[h]) \in Seq(Txs) /\ pool'[h] = Tail(pool[h])
      /\ \A g \in Helpers : g # h => pool'[g] = pool[g]
  BY <1>1
<1>4. \A i \in DOMAIN Tail(pool[h]) : i + 1 \in DOMAIN pool[h] /\ Tail(pool[h])[i] = pool[h][i + 1]
  BY <1>1
<1>5. \A g \in Helpers : \A i \in DOMAIN pool[g] : TxOK(pool[g][i])
  BY Zenon DEF HelperInv, PoolOK
<1>6. ASSUME NEW g \in Helpers, NEW i \in DOMAIN pool'[g] PROVE TxOK(pool'[g][i])
  <2>1. CASE g = h
    <3>1. i \in DOMAIN Tail(pool[h]) /\ pool'[g][i] = Tail(pool[h])[i]
      BY <2>1, <1>3, <1>6, ZenonT(60)
    <3>2. i + 1 \in DOMAIN pool[h] /\ pool'[g][i] = pool[h][i + 1]
      BY <3>1, <1>4, Zenon
    <3> QED
      BY <3>2, <1>5, Zenon
  <2>2. CASE g # h
    BY <2>2, <1>3, <1>5, <1>6, Zenon
  <2> QED
    BY <2>1, <2>2, Zenon
<1> QED
  BY <1>1, <1>2, <1>3, <1>5, <1>6

\* When the registry lists no less than before, the caches and the queued
\* transactions keep their guarantees.
LEMMA GrowthKeeps ==
  ASSUME HelperInv, ~rewritten' => ~rewritten /\ Listed \subseteq Listed', cache' = cache,
         \A g \in Helpers : \A i \in DOMAIN pool'[g] : TxOK(pool'[g][i])
  PROVE  CacheOK' /\ PoolOK'
<1>1. CacheOK'
  BY Zenon DEF HelperInv, CacheOK
<1>2. ASSUME NEW g \in Helpers, NEW i \in DOMAIN pool'[g] PROVE TxOK(pool[g][i])'
  <2>1. PICK u : u = pool'[g][i]
    BY Zenon
  <2>2. TxOK(u)
    BY <2>1, <1>2, Zenon
  <2>3. TxOK(u)'
    BY <2>2, Zenon DEF TxOK
  <2> QED
    BY <2>1, <2>3, ZenonT(60) DEF TxOK
<1> QED
  BY <1>1, <1>2, Zenon DEF PoolOK

\* A mined updateRef or deleteRef, or one that reverts, keeps the invariant.
LEMMA MineIInv ==
  ASSUME HelperAssumption, HelperInv, NEW h \in Helpers, Mine(h)
  PROVE  HelperInv'
<1> DEFINE tx == Head(pool[h])
<1>1. /\ tx \in Txs /\ TxOK(tx)
      /\ pool' \in [Helpers -> Seq(Txs)]
      /\ \A g \in Helpers : \A i \in DOMAIN pool'[g] : TxOK(pool'[g][i])
  BY QueueFacts, ZenonT(60) DEF Mine
<1>2. cache' = cache /\ objects' = objects /\ (MinedUpdate(tx) \/ MinedDelete(tx) \/ MinedRevert(tx))
  BY Zenon DEF Mine, clones
<1>3. HelperTyped
  BY Zenon DEF HelperInv
<1> HIDE DEF tx
<1>4. CASE MinedUpdate(tx)
  <2>1. PICK packs \in NewPacks(tx) :
           refs' = [refs EXCEPT ![tx.ref] = [sha |-> tx.sha, packs |-> packs]]
    BY <1>4, ZenonT(60) DEF MinedUpdate
  <2>2. tx.sha # NoCommit /\ rewritten' = (rewritten \/ tx.force)
    BY <1>4, Zenon DEF MinedUpdate
  <2>3. tx.ref \in Refs /\ tx.sha \in Commits /\ packs \in Seq(Packs) /\ tx.force \in BOOLEAN
    BY <1>1, <1>3, <2>2, NewPacksHold, Zenon DEF Txs
  <2>4. [sha |-> tx.sha, packs |-> packs] \in RefInfos
    BY <2>3, Zenon DEF RefInfos
  <2>5. HelperTyped'
    BY <1>1, <1>2, <1>3, <2>1, <2>2, <2>3, <2>4, Zenon DEF HelperTyped
  <2>6. ~rewritten' => ~rewritten /\ ~tx.force
    BY <2>2, ZenonT(60)
  <2>7. ~rewritten' => Listed \cup Packed(tx.packUris) \subseteq Listed'
    BY <1>1, <1>3, <2>1, <2>2, <2>6, UpdateExtends, ZenonT(60)
  <2>8. ASSUME ~rewritten', NEW f \in Live' PROVE History[refs'[f].sha] \subseteq Listed'
    <3>1. CASE f = tx.ref
      <4>1. refs'[f].sha = tx.sha
        BY <3>1, <2>1, <2>3, <1>3, Zenon DEF HelperTyped
      <4>2. History[tx.sha] \subseteq Listed \cup Packed(tx.packUris)
        BY <1>1, <2>2, <2>6, <2>8, Zenon DEF TxOK
      <4> QED
        BY <4>1, <4>2, <2>7, <2>8, Zenon
    <3>2. CASE f # tx.ref
      <4>1. f \in Live /\ refs'[f] = refs[f]
        BY <3>2, <2>1, <2>8, <1>3, Zenon DEF Live, HelperTyped
      <4>2. History[refs[f].sha] \subseteq Listed
        BY <4>1, <2>6, <2>8, Zenon DEF HelperInv, RepositoryComplete, Listed
      <4> QED
        BY <4>1, <4>2, <2>7, <2>8, Zenon
    <3> QED
      BY <3>1, <3>2, Zenon
  <2>9. RepositoryComplete'
    BY <2>8, Zenon DEF RepositoryComplete, Listed
  <2>10. CacheOK' /\ PoolOK'
    BY <1>1, <1>2, <2>6, <2>7, GrowthKeeps, Zenon
  <2> QED
    BY <2>5, <2>9, <2>10, Zenon DEF HelperInv
<1>5. CASE MinedDelete(tx)
  <2>1. rewritten' = TRUE /\ refs' = [refs EXCEPT ![tx.ref] = NoRef]
    BY <1>5, Zenon DEF MinedDelete
  <2>2. HelperTyped'
    BY <1>1, <1>2, <1>3, <2>1, ZenonT(60) DEF HelperTyped
  <2>3. RepositoryComplete'
    BY <2>1, Zenon DEF RepositoryComplete
  <2>4. CacheOK' /\ PoolOK'
    BY <1>1, <1>2, <2>1, GrowthKeeps, Zenon
  <2> QED
    BY <2>2, <2>3, <2>4, Zenon DEF HelperInv
<1>6. CASE MinedRevert(tx)
  <2>1. Listed' = Listed /\ Live' = Live /\ refs' = refs /\ rewritten' = rewritten
    BY <1>6, ListedUnchanged, Zenon DEF MinedRevert
  <2>2. HelperTyped'
    BY <1>1, <1>2, <1>3, <2>1, Zenon DEF HelperTyped
  <2>3. RepositoryComplete'
    BY <2>1 DEF HelperInv, RepositoryComplete
  <2>4. CacheOK' /\ PoolOK'
    BY <1>1, <1>2, <2>1, GrowthKeeps, Zenon
  <2> QED
    BY <2>2, <2>3, <2>4, Zenon DEF HelperInv
<1> QED
  BY <1>2, <1>4, <1>5, <1>6, Zenon

-----------------------------------------------------------------------------
(* Listing and fetching leave the registry and the queues alone.           *)

\* cmdList keeps the invariant: it copies the registry of the moment.
LEMMA ListIInv ==
  ASSUME HelperInv, NEW h \in Helpers, List(h)
  PROVE  HelperInv'
<1>1. Listed' = Listed /\ Live' = Live /\ refs' = refs /\ rewritten' = rewritten
  BY ListedUnchanged, Zenon DEF List
<1>2. cache' = [cache EXCEPT ![h] = refs] /\ objects' = objects /\ pool' = pool
  BY Zenon DEF List
<1>3. HelperTyped'
  BY <1>1, <1>2, Zenon DEF HelperInv, HelperTyped
<1>4. RepositoryComplete'
  BY <1>1, Zenon DEF HelperInv, RepositoryComplete
<1>5. ~rewritten => \A f \in Refs : refs[f] # NoRef => History[refs[f].sha] \subseteq Listed
  BY Zenon DEF HelperInv, RepositoryComplete, Listed, Live
<1>6. \A g \in Helpers, f \in Refs : cache'[g][f] = refs[f] \/ cache'[g][f] = cache[g][f]
  BY <1>2, Zenon DEF HelperInv, HelperTyped
<1>7. CacheOK'
  BY <1>1, <1>5, <1>6, Zenon DEF HelperInv, CacheOK
<1>8. PoolOK'
  BY <1>1, <1>2, Zenon DEF HelperInv, PoolOK, TxOK
<1> QED
  BY <1>3, <1>4, <1>7, <1>8, Zenon DEF HelperInv

\* cmdFetchBatch keeps the invariant: it changes no shared state.
LEMMA FetchIInv ==
  ASSUME HelperInv, NEW h \in Helpers,
         NEW wanted \in SUBSET {f \in Refs : cache[h][f] # NoRef}, FetchBatch(h, wanted)
  PROVE  HelperInv'
<1> DEFINE uris == FetchUris(h, wanted)
<1>1. Listed' = Listed /\ Live' = Live /\ refs' = refs /\ rewritten' = rewritten
  BY ListedUnchanged, ZenonT(60) DEF FetchBatch
<1>9. PICK packs \in Downloads(Indexed(h, uris)) :
         objects' = [objects EXCEPT ![h] = @ \cup UNION {PackAt(h, p).objs : p \in packs}]
  BY ZenonT(60) DEF FetchBatch
<1> DEFINE got == UNION {PackAt(h, p).objs : p \in packs}
<1>2. cache' = cache /\ pool' = pool /\ objects' = [objects EXCEPT ![h] = @ \cup got]
  BY <1>9, Zenon DEF FetchBatch
<1>3. ASSUME NEW p \in uris PROVE PackAt(h, p).objs \subseteq Commits
  <2>1. PICK i \in {k \in DOMAIN cacheNames[h] : cacheNames[h][k] \in wanted} :
           p \in {i} \X DOMAIN cache[h][cacheNames[h][i]].packs
    BY Zenon DEF FetchUris
  <2>2. p[1] = i /\ p[2] \in DOMAIN cache[h][cacheNames[h][i]].packs
    BY <2>1, Zenon
  <2>3. cache[h][cacheNames[h][i]] \in RefInfos
    BY <2>1, SMTT(60) DEF HelperInv, HelperTyped
  <2>4. cache[h][cacheNames[h][i]].packs \in Seq(Packs)
    BY <2>3, Zenon DEF RefInfos
  <2>5. PackAt(h, p) \in Packs
    BY <2>2, <2>4 DEF PackAt
  <2> QED
    BY <2>5, Zenon DEF Packs
<1>10. packs \subseteq uris
  BY <1>9, Zenon DEF Downloads, Indexed
<1>4. got \subseteq Commits
  BY <1>3, <1>10, Zenon
<1> HIDE DEF got
<1>5. HelperTyped'
  BY <1>1, <1>2, <1>4, Zenon DEF HelperInv, HelperTyped
<1>6. RepositoryComplete'
  BY <1>1, Zenon DEF HelperInv, RepositoryComplete
<1>7. CacheOK'
  BY <1>1, <1>2, Zenon DEF HelperInv, CacheOK
<1>8. PoolOK'
  BY <1>1, <1>2, ZenonT(60) DEF HelperInv, PoolOK, TxOK
<1> QED
  BY <1>5, <1>6, <1>7, <1>8, Zenon DEF HelperInv

\* Every step of the helpers and the registry keeps the invariant.
LEMMA HelperNextInv ==
  ASSUME HelperAssumption, HelperInv, [HelperNext]_helperVars
  PROVE  HelperInv'
<1>1. ASSUME NEW h \in Helpers, List(h) PROVE HelperInv'
  BY <1>1, ListIInv, Zenon
<1>2. ASSUME NEW h \in Helpers, NEW c \in Commits, NEW f \in Refs, NEW force \in BOOLEAN,
             PushOne(h, c, f, force)
      PROVE  HelperInv'
  <2>1. PICK pack \in PackObjects(objects[h], c, Exclude(h, force) \cap objects[h]) :
        \E uris \in PushUris(h, c, f, pack) :
          Send(h, [ref |-> f, sha |-> c, packUris |-> uris, force |-> force,
                   expectedSha |-> IF cache[h][f] = NoRef THEN NoCommit ELSE cache[h][f].sha])
    BY <1>2, ZenonT(60) DEF PushOne
  <2>2. PICK uris \in PushUris(h, c, f, pack) :
          Send(h, [ref |-> f, sha |-> c, packUris |-> uris, force |-> force,
                   expectedSha |-> IF cache[h][f] = NoRef THEN NoCommit ELSE cache[h][f].sha])
    BY <2>1, ZenonT(60)
  <2>3. PICK tx : tx = [ref |-> f, sha |-> c, packUris |-> uris, force |-> force,
                        expectedSha |-> IF cache[h][f] = NoRef THEN NoCommit ELSE cache[h][f].sha]
    BY Zenon
  <2>4. tx \in Txs /\ TxOK(tx)
    BY <1>2, <2>3, PushedTxOK, ZenonT(60) DEF PushOne
  <2>5. Send(h, tx)
    BY <2>2, <2>3, ZenonT(60)
  <2> QED
    BY <2>4, <2>5, SendIInv, Zenon
<1>3. ASSUME NEW h \in Helpers, NEW f \in Refs, DeleteRef(h, f) PROVE HelperInv'
  <2>1. PICK tx : tx = [ref |-> f, sha |-> NoCommit, packUris |-> <<>>, force |-> FALSE,
                        expectedSha |-> NoCommit]
    BY Zenon
  <2>4. <<>> \in Seq(Packs)
    OBVIOUS
  <2>5. tx \in Txs
    BY <2>1, <2>4, Zenon DEF Txs
  <2>6. tx.sha = NoCommit
    BY <2>1, Zenon
  <2>2. tx \in Txs /\ TxOK(tx)
    BY <2>5, <2>6, Zenon DEF TxOK
  <2>3. Send(h, tx)
    BY <1>3, <2>1, Zenon DEF DeleteRef
  <2> QED
    BY <2>2, <2>3, SendIInv, Zenon
<1>4. ASSUME NEW h \in Helpers, Mine(h) PROVE HelperInv'
  BY <1>4, MineIInv, Zenon
<1>5. ASSUME NEW h \in Helpers, NEW wanted \in SUBSET {f \in Refs : cache[h][f] # NoRef},
             FetchBatch(h, wanted)
      PROVE  HelperInv'
  BY <1>5, FetchIInv, Zenon
<1>6. CASE UNCHANGED helperVars
  <2>1. UNCHANGED registry /\ UNCHANGED <<cache, objects, pool>>
    BY <1>6, Zenon DEF helperVars, registry
  <2>2. Listed' = Listed /\ Live' = Live /\ refs' = refs /\ rewritten' = rewritten
    BY <2>1, ListedUnchanged, Zenon
  <2>3. HelperTyped'
    BY <2>1, <2>2, Zenon DEF HelperInv, HelperTyped
  <2>4. RepositoryComplete'
    BY <2>2, Zenon DEF HelperInv, RepositoryComplete
  <2>5. CacheOK'
    BY <2>1, <2>2, Zenon DEF HelperInv, CacheOK
  <2>6. PoolOK'
    BY <2>1, <2>2, ZenonT(60) DEF HelperInv, PoolOK, TxOK
  <2> QED
    BY <2>3, <2>4, <2>5, <2>6, Zenon DEF HelperInv
<1> QED
  BY <1>1, <1>2, <1>3, <1>4, <1>5, <1>6 DEF HelperNext

-----------------------------------------------------------------------------
(* What a clone can rebuild.                                               *)

\* A listing, refs r printed in the order names, is complete when every ref it
\* has is printed, and its packs hold the history of all of them.
ListingComplete(r, names) ==
    \A f \in Refs : r[f] # NoRef =>
        /\ \E i \in DOMAIN names : names[i] = f
        /\ History[r[f].sha] \subseteq UNION {Packed(r[g].packs) : g \in {k \in Refs : r[k] # NoRef}}

\* Until something is rewritten, the registry's own listing is complete.
RegistryListing == ~rewritten => refNames \in Seq(Refs) /\ ListingComplete(refs, refNames)

\* So is the listing that each helper took, however old it is.
CachedListings ==
    ~rewritten => \A h \in Helpers : ListingComplete(cache[h], cacheNames[h])

\* What the clones add to the inductive invariant.
CloneInv ==
    /\ DOMAIN cacheNames = Helpers /\ DOMAIN fetched = Helpers
    /\ RegistryListing /\ CachedListings /\ CloneComplete

\* Nothing is listed and nothing was fetched at first.
LEMMA InitCloneInv ==
  ASSUME HelperAssumption, HelperInit PROVE CloneInv
<1>1. refs = [f \in Refs |-> NoRef] /\ refNames = <<>>
  BY Zenon DEF HelperInit
<1>2. \A f \in Refs : refs[f] = NoRef
  BY <1>1, Zenon
<1>3. \A h \in Helpers : cache[h] = refs
  BY Zenon DEF HelperInit
<1>4. RegistryListing
  <2>1. refNames \in Seq(Refs)
    BY <1>1
  <2> QED
    BY <1>2, <2>1, Zenon DEF RegistryListing, ListingComplete
<1>5. CachedListings
  BY <1>2, <1>3, Zenon DEF CachedListings, ListingComplete
<1>6. \A h \in Helpers : fetched[h] = NoFetch
  BY Zenon DEF HelperInit
<1>7. NoFetch.wanted = {}
  BY Zenon DEF NoFetch
<1>8. CloneComplete
  BY <1>6, <1>7, Zenon DEF CloneComplete
<1> QED
  BY <1>4, <1>5, <1>8, Zenon DEF CloneInv, HelperInit

\* cmdList copies a complete listing.
LEMMA ListCloneInv ==
  ASSUME HelperInv, CloneInv, NEW h \in Helpers, List(h)
  PROVE  CloneInv'
<1>1. cache' = [cache EXCEPT ![h] = refs] /\ cacheNames' = [cacheNames EXCEPT ![h] = refNames]
  BY Zenon DEF List
<1>2. refs' = refs /\ refNames' = refNames /\ rewritten' = rewritten /\ objects' = objects
      /\ fetched' = fetched
  BY Zenon DEF List, registry
<1>3. DOMAIN cache = Helpers /\ DOMAIN cacheNames = Helpers
  BY Zenon DEF HelperInv, HelperTyped, CloneInv
<1>4. \A g \in Helpers : \/ cache'[g] = refs /\ cacheNames'[g] = refNames
                         \/ cache'[g] = cache[g] /\ cacheNames'[g] = cacheNames[g]
  BY <1>1, <1>3, Zenon
<1>5. RegistryListing'
  BY <1>2, Zenon DEF CloneInv, RegistryListing
<1>6. CachedListings'
  <2>1. SUFFICES ASSUME ~rewritten', NEW g \in Helpers
                 PROVE  ListingComplete(cache'[g], cacheNames'[g])
    BY Zenon DEF CachedListings
  <2>2. ListingComplete(refs, refNames) /\ ListingComplete(cache[g], cacheNames[g])
    BY <1>2, <2>1, Zenon DEF CloneInv, RegistryListing, CachedListings
  <2> QED
    BY <1>4, <2>2, Zenon
<1>7. CloneComplete'
  BY <1>2, Zenon DEF CloneInv, CloneComplete
<1>8. DOMAIN cacheNames' = Helpers /\ DOMAIN fetched' = Helpers
  BY <1>1, <1>2, Zenon DEF CloneInv
<1> QED
  BY <1>5, <1>6, <1>7, <1>8, Zenon DEF CloneInv

\* A step that leaves the clones and the registry alone keeps what they have.
LEMMA StillCloneInv ==
  ASSUME CloneInv, UNCHANGED registry, UNCHANGED clones
  PROVE  CloneInv'
<1>1. refs' = refs /\ refNames' = refNames /\ rewritten' = rewritten
  BY Zenon DEF registry
<1>2. cache' = cache /\ cacheNames' = cacheNames /\ objects' = objects /\ fetched' = fetched
  BY Zenon DEF clones
<1>3. RegistryListing'
  BY <1>1, Zenon DEF CloneInv, RegistryListing
<1>4. CachedListings'
  BY <1>1, <1>2, Zenon DEF CloneInv, CachedListings
<1>5. CloneComplete'
  BY <1>1, <1>2, Zenon DEF CloneInv, CloneComplete
<1> QED
  BY <1>2, <1>3, <1>4, <1>5, Zenon DEF CloneInv

\* A mined transaction that rewrites nothing lists the ref it creates.
LEMMA MineCloneInv ==
  ASSUME HelperAssumption, HelperInv, CloneInv, NEW h \in Helpers, Mine(h)
  PROVE  CloneInv'
<1> DEFINE tx == Head(pool[h])
<1>1. UNCHANGED clones /\ tx \in Txs /\ (MinedUpdate(tx) \/ MinedDelete(tx) \/ MinedRevert(tx))
  BY QueueFacts, ZenonT(60) DEF Mine
<1>2. RepositoryComplete'
  BY MineIInv, Zenon DEF HelperInv
<1> HIDE DEF tx
<1>3. cache' = cache /\ cacheNames' = cacheNames /\ objects' = objects /\ fetched' = fetched
  BY <1>1, Zenon DEF clones
<1>4. CASE MinedUpdate(tx)
  <2>1. PICK packs \in NewPacks(tx) :
           refs' = [refs EXCEPT ![tx.ref] = [sha |-> tx.sha, packs |-> packs]]
    BY <1>4, Zenon DEF MinedUpdate
  <2>2. /\ refNames' = IF refs[tx.ref] = NoRef THEN Append(refNames, tx.ref) ELSE refNames
        /\ ~rewritten' => ~rewritten
    BY <1>4, Zenon DEF MinedUpdate
  <2>3. tx.ref \in Refs /\ refs \in [Refs -> RefInfos \cup {NoRef}]
    BY <1>1, Zenon DEF Txs, HelperInv, HelperTyped
  <2>4. ASSUME ~rewritten' PROVE refNames' \in Seq(Refs) /\ ListingComplete(refs', refNames')
    <3>1. refNames \in Seq(Refs) /\ \A f \in Refs : refs[f] # NoRef => \E i \in DOMAIN refNames : refNames[i] = f
      BY <2>2, <2>4, Zenon DEF CloneInv, RegistryListing, ListingComplete
    <3>2. Append(refNames, tx.ref) \in Seq(Refs)
      BY <3>1, <2>3
    <3>3. /\ \A i \in DOMAIN refNames : i \in DOMAIN Append(refNames, tx.ref)
                                        /\ Append(refNames, tx.ref)[i] = refNames[i]
          /\ \E i \in DOMAIN Append(refNames, tx.ref) : Append(refNames, tx.ref)[i] = tx.ref
      <4>1. /\ DOMAIN Append(refNames, tx.ref) = 1..(Len(refNames) + 1) /\ DOMAIN refNames = 1..Len(refNames)
            /\ Len(refNames) \in Nat
        BY <3>1, <2>3
      <4>2. /\ Append(refNames, tx.ref)[Len(refNames) + 1] = tx.ref
            /\ \A i \in 1..Len(refNames) : Append(refNames, tx.ref)[i] = refNames[i]
        BY <3>1, <2>3
      <4> QED
        BY <4>1, <4>2
    <3>4. refNames' \in Seq(Refs)
      BY <3>1, <3>2, <2>2, Zenon
    <3>5. ASSUME NEW f \in Refs, refs'[f] # NoRef PROVE \E i \in DOMAIN refNames' : refNames'[i] = f
      <4>1. f # tx.ref => refs'[f] = refs[f]
        BY <2>1, <2>3, Zenon
      <4>2. CASE refs[f] # NoRef
        <5>1. PICK i \in DOMAIN refNames : refNames[i] = f
          BY <4>2, <3>1, Zenon
        <5> QED
          BY <5>1, <3>3, <2>2, Zenon
      <4>3. CASE refs[f] = NoRef
        <5>1. f = tx.ref
          BY <4>1, <4>3, <3>5, Zenon
        <5> QED
          BY <5>1, <4>3, <3>3, <2>2, Zenon
      <4> QED
        BY <4>2, <4>3, Zenon
    <3>6. Live' = {k \in Refs : refs'[k] # NoRef}
      BY Zenon DEF Live
    <3>7. \A f \in Refs : refs'[f] # NoRef =>
             History[refs'[f].sha] \subseteq UNION {Packed(refs'[g].packs) : g \in {k \in Refs : refs'[k] # NoRef}}
      BY <1>2, <2>4, <3>6, Zenon DEF RepositoryComplete
    <3> QED
      BY <3>4, <3>5, <3>7, Zenon DEF ListingComplete
  <2>5. RegistryListing'
    BY <2>4, Zenon DEF RegistryListing
  <2>6. CachedListings'
    BY <1>3, <2>2, Zenon DEF CloneInv, CachedListings
  <2>7. CloneComplete'
    BY <1>3, <2>2, Zenon DEF CloneInv, CloneComplete
  <2> QED
    BY <1>3, <2>5, <2>6, <2>7, Zenon DEF CloneInv
<1>5. CASE MinedDelete(tx)
  <2>1. rewritten'
    BY <1>5, Zenon DEF MinedDelete
  <2> QED
    BY <1>3, <2>1, Zenon DEF CloneInv, RegistryListing, CachedListings, CloneComplete
<1>6. CASE MinedRevert(tx)
  BY <1>1, <1>6, StillCloneInv, Zenon DEF MinedRevert
<1> QED
  BY <1>1, <1>4, <1>5, <1>6, Zenon

\* A batch that asked for every listed ref and refused no pack has all the objects
\* of a complete listing; any other batch reports nothing of the kind.
LEMMA FetchCloneInv ==
  ASSUME HelperAssumption, HelperInv, CloneInv, NEW h \in Helpers,
         NEW wanted \in SUBSET {f \in Refs : cache[h][f] # NoRef}, FetchBatch(h, wanted)
  PROVE  CloneInv'
<1> DEFINE uris == FetchUris(h, wanted)
           indexed == Indexed(h, uris)
           listed == {f \in Refs : cache[h][f] # NoRef}
           report == [wanted |-> {cache[h][f].sha : f \in wanted},
                      all |-> wanted = {f \in Refs : cache[h][f] # NoRef},
                      ok |-> indexed = uris]
<1>1. PICK got \in Downloads(indexed) :
         /\ objects' = [objects EXCEPT ![h] = @ \cup UNION {PackAt(h, p).objs : p \in got}]
         /\ fetched' = [fetched EXCEPT ![h] = IF got # indexed THEN NoFetch ELSE report]
  BY Zenon DEF FetchBatch
<1>2. /\ refs' = refs /\ refNames' = refNames /\ rewritten' = rewritten
      /\ cache' = cache /\ cacheNames' = cacheNames
  BY Zenon DEF FetchBatch, registry
<1>3. DOMAIN fetched = Helpers /\ objects \in [Helpers -> SUBSET Commits]
  BY Zenon DEF CloneInv, HelperInv, HelperTyped
<1>4. /\ objects'[h] = objects[h] \cup UNION {PackAt(h, p).objs : p \in got}
      /\ \A g \in Helpers : g # h => objects'[g] = objects[g] /\ fetched'[g] = fetched[g]
      /\ fetched'[h] = IF got # indexed THEN NoFetch ELSE report
      /\ DOMAIN fetched' = Helpers
  BY <1>1, <1>3, Zenon
<1>5. ASSUME ~rewritten, got = uris, wanted = listed, NEW f \in listed, NEW a \in History[cache[h][f].sha]
      PROVE  a \in objects'[h]
  <2>1. ListingComplete(cache[h], cacheNames[h])
    BY <1>5, Zenon DEF CloneInv, CachedListings
  <2>2. PICK g \in listed : a \in Packed(cache[h][g].packs)
    BY <1>5, <2>1 DEF ListingComplete
  <2>3. PICK j \in DOMAIN cache[h][g].packs : a \in cache[h][g].packs[j].objs
    BY <2>2 DEF Packed, Elements
  <2>4. PICK i \in DOMAIN cacheNames[h] : cacheNames[h][i] = g
    BY <2>1, <2>2, Zenon DEF ListingComplete
  <2>5. PICK p : p = <<i, j>>
    BY Zenon
  <2>6. p \in {i} \X DOMAIN cache[h][cacheNames[h][i]].packs
    BY <2>3, <2>4, <2>5, Zenon
  <2>7. p \in uris
    BY <1>5, <2>2, <2>4, <2>6, Zenon DEF FetchUris
  <2>8. p[1] = i /\ p[2] = j
    BY <2>5, Zenon
  <2>9. PackAt(h, p) = cache[h][g].packs[j]
    BY <2>4, <2>8, Zenon DEF PackAt
  <2>10. p \in got /\ a \in PackAt(h, p).objs
    BY <1>5, <2>3, <2>7, <2>9, Zenon
  <2>11. a \in UNION {PackAt(h, q).objs : q \in got}
    BY <2>10, Zenon
  <2> QED
    BY <1>4, <2>11, Zenon
<1> HIDE DEF uris, indexed
<1>6. /\ report.wanted = {cache[h][f].sha : f \in wanted}
      /\ report.all => wanted = listed
      /\ report.ok => indexed = uris
  BY Zenon
<1>7. NoFetch.wanted = {}
  BY Zenon DEF NoFetch
<1> HIDE DEF report
<1>8. CloneComplete'
  <2>1. SUFFICES ASSUME NEW g \in Helpers, fetched'[g].all, fetched'[g].ok, ~rewritten',
                        NEW s \in fetched'[g].wanted
                 PROVE  History[s] \subseteq objects'[g]
    BY Zenon DEF CloneComplete
  <2>2. CASE g # h
    BY <1>2, <1>4, <2>1, <2>2, Zenon DEF CloneInv, CloneComplete
  <2>3. CASE g = h
    <3>1. fetched'[h] = report /\ got = indexed
      BY <1>4, <1>7, <2>1, <2>3, Zenon
    <3>2. got = uris /\ wanted = listed
      BY <1>6, <2>1, <2>3, <3>1, Zenon
    <3>3. PICK f \in listed : s = cache[h][f].sha
      BY <1>6, <2>1, <2>3, <3>1, <3>2
    <3> QED
      BY <1>2, <1>5, <2>1, <2>3, <3>2, <3>3, Zenon
  <2> QED
    BY <2>2, <2>3, Zenon
<1>9. RegistryListing' /\ CachedListings'
  BY <1>2, Zenon DEF CloneInv, RegistryListing, CachedListings
<1> QED
  BY <1>2, <1>4, <1>8, <1>9, Zenon DEF CloneInv

\* Every step of the helpers and the registry keeps what the clones have.
LEMMA NextCloneInv ==
  ASSUME HelperAssumption, HelperInv, CloneInv, [HelperNext]_helperVars
  PROVE  CloneInv'
<1>1. ASSUME NEW h \in Helpers, List(h) PROVE CloneInv'
  BY <1>1, ListCloneInv, Zenon
<1>2. ASSUME NEW h \in Helpers, NEW tx, Send(h, tx) PROVE CloneInv'
  BY <1>2, StillCloneInv, Zenon DEF Send
<1>3. ASSUME NEW h \in Helpers, NEW c, NEW f, NEW force, PushOne(h, c, f, force) PROVE CloneInv'
  BY <1>2, <1>3, Zenon DEF PushOne
<1>4. ASSUME NEW h \in Helpers, NEW f, DeleteRef(h, f) PROVE CloneInv'
  BY <1>2, <1>4, Zenon DEF DeleteRef
<1>5. ASSUME NEW h \in Helpers, Mine(h) PROVE CloneInv'
  BY <1>5, MineCloneInv, Zenon
<1>6. ASSUME NEW h \in Helpers, NEW wanted \in SUBSET {f \in Refs : cache[h][f] # NoRef},
             FetchBatch(h, wanted)
      PROVE  CloneInv'
  BY <1>6, FetchCloneInv, Zenon
<1>7. CASE UNCHANGED helperVars
  BY <1>7, StillCloneInv, Zenon DEF helperVars, registry, clones
<1> QED
  BY <1>1, <1>3, <1>4, <1>5, <1>6, <1>7, Zenon DEF HelperNext

-----------------------------------------------------------------------------
(* The theorems.                                                           *)

\* A step of an account's queue that rewrites nothing moves a ref forward.
LEMMA MineForward ==
  ASSUME HelperAssumption, HelperInv, NEW h \in Helpers, Mine(h), ~rewritten', NEW f \in Live
  PROVE  refs[f].sha \in History[refs'[f].sha]
<1> DEFINE tx == Head(pool[h])
<1>1. tx \in Txs /\ TxOK(tx)
  BY QueueFacts, ZenonT(60) DEF Mine
<1>2. MinedUpdate(tx) \/ MinedDelete(tx) \/ MinedRevert(tx)
  BY Zenon DEF Mine
<1>3. f \in Refs /\ refs[f] # NoRef /\ refs[f].sha \in Commits /\ refs \in [Refs -> RefInfos \cup {NoRef}]
  BY Zenon DEF Live, HelperInv, HelperTyped, RefInfos
<1> HIDE DEF tx
<1>4. CASE MinedUpdate(tx) /\ f = tx.ref
  <2>1. ~tx.force /\ tx.sha # NoCommit /\ refs[f].sha = tx.expectedSha
    BY <1>1, <1>3, <1>4, Zenon DEF MinedUpdate, ExpectedShaHolds, Txs
  <2>2. refs[f].sha \in History[tx.sha]
    BY <2>1, <1>1, <1>3, Zenon DEF TxOK, HelperAssumption
  <2>3. refs'[f].sha = tx.sha
    BY <1>3, <1>4, SMTT(60) DEF MinedUpdate
  <2> QED
    BY <2>2, <2>3, Zenon
<1>5. CASE MinedUpdate(tx) /\ f # tx.ref
  <2>1. refs'[f] = refs[f]
    <3>1. PICK packs \in NewPacks(tx) :
             refs' = [refs EXCEPT ![tx.ref] = [sha |-> tx.sha, packs |-> packs]]
      BY <1>5, Zenon DEF MinedUpdate
    <3> QED
      BY <3>1, <1>3, <1>5, Zenon
  <2> QED
    BY <2>1, <1>3, HistoryClosed, Zenon
<1>6. CASE MinedDelete(tx)
  BY <1>6, Zenon DEF MinedDelete
<1>7. CASE MinedRevert(tx)
  <2>1. refs' = refs
    BY <1>7, Zenon DEF MinedRevert, registry
  <2> QED
    BY <2>1, <1>3, HistoryClosed, Zenon
<1> QED
  BY <1>2, <1>4, <1>5, <1>6, <1>7, ZenonT(60)

\* A step that drops a pack of a ref leaves a list with its whole history.
LEMMA MineReplaces ==
  ASSUME HelperAssumption, HelperInv, NEW h \in Helpers, Mine(h), NEW f \in Live, refs'[f] # NoRef,
         ~(Elements(refs[f].packs) \subseteq Elements(refs'[f].packs))
  PROVE  History[refs'[f].sha] \subseteq Packed(refs'[f].packs)
<1> DEFINE tx == Head(pool[h])
<1>1. tx \in Txs /\ TxOK(tx)
  BY QueueFacts, ZenonT(60) DEF Mine
<1>2. MinedUpdate(tx) \/ MinedDelete(tx) \/ MinedRevert(tx)
  BY Zenon DEF Mine
<1>3. f \in Refs /\ refs[f] # NoRef /\ refs \in [Refs -> RefInfos \cup {NoRef}] /\ HelperTyped
  BY Zenon DEF Live, HelperInv, HelperTyped
<1> HIDE DEF tx
<1>4. CASE MinedUpdate(tx)
  <2>1. PICK packs \in NewPacks(tx) :
           refs' = [refs EXCEPT ![tx.ref] = [sha |-> tx.sha, packs |-> packs]]
    BY <1>4, ZenonT(60) DEF MinedUpdate
  <2>2. f = tx.ref
    BY <2>1, <1>3, Zenon
  <2>3. refs'[f].sha = tx.sha /\ refs'[f].packs = packs
    BY <2>1, <2>2, <1>3, Zenon
  <2>4. tx.force
    <3>1. ~tx.force => Elements(refs[tx.ref].packs) \subseteq Elements(packs)
      BY <2>2, <1>1, <1>3, NewPacksHold, Zenon
    <3> QED
      BY <2>2, <2>3, <3>1, Zenon
  <2>5. History[tx.sha] \subseteq Packed(tx.packUris)
    BY <2>4, <1>1, <1>4, ZenonT(60) DEF TxOK, MinedUpdate
  <2>6. Packed(tx.packUris) \subseteq Packed(packs)
    BY <1>1, <1>3, NewPacksHold, PackedMonotone, ZenonT(60)
  <2> QED
    BY <2>3, <2>5, <2>6, Zenon
<1>5. CASE MinedDelete(tx)
  BY <1>5, <1>3, Zenon DEF MinedDelete
<1>6. CASE MinedRevert(tx)
  BY <1>6, Zenon DEF MinedRevert, registry
<1> QED
  BY <1>2, <1>4, <1>5, <1>6, Zenon

\* Every other step leaves the refs alone.
LEMMA OnlyMineWrites ==
  ASSUME [HelperNext]_helperVars
  PROVE  refs' = refs \/ \E h \in Helpers : Mine(h)
<1>1. ASSUME NEW h \in Helpers, List(h) PROVE refs' = refs
  BY <1>1, Zenon DEF List, registry
<1>2. ASSUME NEW h \in Helpers, NEW c, NEW f, NEW force, PushOne(h, c, f, force) PROVE refs' = refs
  BY <1>2, Zenon DEF PushOne, Send, registry
<1>3. ASSUME NEW h \in Helpers, NEW f, DeleteRef(h, f) PROVE refs' = refs
  BY <1>3, Zenon DEF DeleteRef, Send, registry
<1>4. ASSUME NEW h \in Helpers, NEW wanted, FetchBatch(h, wanted) PROVE refs' = refs
  BY <1>4, Zenon DEF FetchBatch, registry
<1>5. CASE UNCHANGED helperVars
  BY <1>5, Zenon DEF helperVars
<1> QED
  BY <1>1, <1>2, <1>3, <1>4, <1>5, Zenon DEF HelperNext

\* The invariant holds of every behaviour of helpers and registry.
LEMMA Invariance ==
  HelperSpec => []HelperInv
<1>1. HelperInit => HelperInv
  BY HelperInitInv, HelperAssumption, Zenon
<1>2. HelperInv /\ [HelperNext]_helperVars => HelperInv'
  BY HelperNextInv, HelperAssumption, Zenon
<1> QED
  BY <1>1, <1>2, PTL DEF HelperSpec

\* updateRef and pushOne together keep a repository that was never rewritten
\* complete, for any history, refs and helpers.
THEOREM CompleteRepository ==
  HelperSpec => []RepositoryComplete
<1>1. HelperInv => RepositoryComplete
  BY Zenon DEF HelperInv
<1> QED
  BY <1>1, Invariance, PTL

\* The listed commit and the expected commit together let a ref only move to a
\* descendant, however late a transaction is mined.
THEOREM ForwardOnly ==
  HelperSpec => FastForwardOnly
<1>1. ASSUME HelperInv, [HelperNext]_helperVars, ~rewritten', NEW f \in Live
      PROVE  refs[f].sha \in History[refs'[f].sha]
  <2>1. refs[f].sha \in Commits
    BY <1>1, Zenon DEF HelperInv, HelperTyped, Live, RefInfos
  <2>2. CASE refs' = refs
    BY <2>1, <2>2, HistoryClosed, HelperAssumption, Zenon
  <2>3. ASSUME NEW h \in Helpers, Mine(h) PROVE refs[f].sha \in History[refs'[f].sha]
    BY <1>1, <2>3, MineForward, HelperAssumption, Zenon
  <2> QED
    BY <1>1, <2>2, <2>3, OnlyMineWrites, Zenon
<1>2. HelperInv /\ [HelperNext]_helperVars => [~rewritten' => \A f \in Live : refs[f].sha \in History[refs'[f].sha]]_helperVars
  BY <1>1, Zenon
<1> QED
  BY <1>2, Invariance, PTL DEF HelperSpec, FastForwardOnly

\* A push that replaces a ref's pack list leaves it self-contained.
THEOREM ReplacementsSelfContained ==
  HelperSpec => ReplacedListSelfContained
<1>1. ASSUME HelperInv, [HelperNext]_helperVars, NEW f \in Live, refs'[f] # NoRef,
             ~(Elements(refs[f].packs) \subseteq Elements(refs'[f].packs))
      PROVE  History[refs'[f].sha] \subseteq Packed(refs'[f].packs)
  <2>1. refs' # refs
    BY <1>1, Zenon
  <2>2. PICK h \in Helpers : Mine(h)
    BY <1>1, <2>1, OnlyMineWrites, Zenon
  <2> QED
    BY <1>1, <2>2, MineReplaces, HelperAssumption, Zenon
<1>2. HelperInv /\ [HelperNext]_helperVars =>
        [\A f \in Live : refs'[f] # NoRef /\ ~(Elements(refs[f].packs) \subseteq Elements(refs'[f].packs))
          => History[refs'[f].sha] \subseteq Packed(refs'[f].packs)]_helperVars
  BY <1>1, Zenon
<1> QED
  BY <1>2, Invariance, PTL DEF HelperSpec, ReplacedListSelfContained

\* cmdFetchBatch reports a batch of every listed ref as fetched only when the clone
\* has the whole history of each, however stale the listing was.
THEOREM ClonesComplete ==
  HelperSpec => []CloneComplete
<1>1. HelperInit => CloneInv
  BY InitCloneInv, HelperAssumption, Zenon
<1>2. HelperInv /\ CloneInv /\ [HelperNext]_helperVars => CloneInv'
  BY NextCloneInv, HelperAssumption, Zenon
<1>3. CloneInv => CloneComplete
  BY Zenon DEF CloneInv
<1> QED
  BY <1>1, <1>2, <1>3, Invariance, PTL DEF HelperSpec

-----------------------------------------------------------------------------
(* Workstation: the inductive invariant.                                   *)

Bins == {"ipfs", "managed"}
Keys == Names \cup {""}
Values == Networks \cup {Override(network) : network \in Networks} \cup {""}

\* A configuration in memory.
Configs == [network : Networks, evm_rpc : Values, evm_suite_directory_address : Values,
            dir : Keystores, key : Keys, bin : Bins]

\* Each field that a profile owns has the value of the selected network or one
\* that was set for it.
Unmixed(c) == \A f \in ProfileFields : c[f] \in {Profile(c.network, f), Override(c.network), ""}

\* The network that the file stands for.
FileNetwork == IF file.network = "" THEN Testnet ELSE file.network

\* The network, directory, key and binary that the file stands for are in their
\* sets, and the fields in it are of that network.
FileOK ==
  /\ file.network \in Networks \cup {""} /\ file.dir \in Keystores
  /\ file.key \in Keys /\ file.bin \in Bins \cup {""}
  /\ \A f \in DOMAIN file.set :
       file.set[f] \in {Profile(FileNetwork, f), Override(FileNetwork), ""}

KeyCommands == [op : {"key"}, how : {"new", "import"}, name : Names]
AllCommands == ConfigCommands \cup KeyCommands \cup [op : {"read"}] \cup SetupCommands(Keys)

KeySteps == {"key.index", "key.account", "key.write", "key.save"}
KuboSteps == {"kubo.start", "kubo.init", "kubo.daemon", "kubo.wait"}
InstallSteps == {"download", "activate", "aside", "place", "wrap", "check"}
SetupSteps == {"setup", "setup.reload", "setup.kubo", "setup.save", "doctor"} \cup KuboSteps \cup InstallSteps
Steps == {"upgrade", "set"} \cup KeySteps \cup SetupSteps

IndexMaps == UNION {[S -> Nat] : S \in SUBSET Names}
Memories == [cfg : Configs, index : IndexMaps, account : Nat,
             archive : {"", "good"}, backup : {"absent", "good"}]
Running == [at : Steps, cmd : AllCommands, mem : Memories]

Kubos == [onPath : BOOLEAN, target : {"absent", "good"}, wrapper : BOOLEAN,
          repo : BOOLEAN, daemon : BOOLEAN]
Settings == {"network", "dir", "key", "bin"}
Wants == Networks \cup Keystores \cup Keys \cup Bins
Histories == [outdated : SUBSET Procs, stale : BOOLEAN,
              lost : SUBSET (Keystores \X Keys), typed : SUBSET (Keystores \X Keys),
              cut : BOOLEAN, installed : BOOLEAN, wanted : [Settings -> Wants]]

\* The types of what the processes share, and of what each has in memory.
SharedTyped ==
  /\ index \in [Keystores -> IndexMaps]
  /\ keyFiles \in [Keystores -> SUBSET Nat] /\ \A d \in Keystores : IsFiniteSet(keyFiles[d])
  /\ kubo \in Kubos
  /\ history \in Histories

Typed == SharedTyped /\ procs \in [Procs -> Running \cup {Idle}]

\* A name that is in the index of a keystore, that an overlapping key command took
\* out of it, or that the user typed without such a key.
Known(d, name) ==
  name \in DOMAIN index[d] \/ <<d, name>> \in history.lost \/ <<d, name>> \in history.typed

\* A configuration, or the file, selects such a name or none.
Selected(c) == c.key # "" => Known(c.dir, c.key)

\* Every name in an index of a keystore, also in one held in memory, is of an
\* account that has its file there.
Backed(d, i) == \A name \in DOMAIN i : i[name] \in keyFiles[d]
IndexBacked == \A d \in Keystores : Backed(d, index[d])

\* The command of a process is one that has the step it is at.
Placed(r) ==
  /\ r.at = "set" => r.cmd.op = "set"
  /\ r.at \in KeySteps => r.cmd.op = "key" \/ (r.cmd.op = "setup" /\ r.cmd.create \in Names)
  /\ r.at \in SetupSteps => r.cmd.op = "setup"
  /\ r.at \in KuboSteps \cup InstallSteps => r.cmd.kubo = TRUE

\* The names that a process works with are known in its keystore, and the index
\* that it is about to write is of keys that are there.
NamesOK(r) ==
  /\ Selected(r.mem.cfg)
  /\ r.at = "key.save" => Known(r.mem.cfg.dir, IF r.cmd.op = "setup" THEN r.cmd.create ELSE r.cmd.name)
  /\ r.at \in {"key.account", "key.write"} => Backed(r.mem.cfg.dir, r.mem.index)
  /\ r.at = "key.write" => r.mem.account \in keyFiles[r.mem.cfg.dir]

\* What it will install was verified, and it holds a backup only between the renames.
InstallOK(r) ==
  /\ r.at \in {"activate", "aside", "place"} => r.mem.archive = "good"
  /\ r.mem.backup # "absent" => r.at = "place"

\* The steps at which the binary in memory is not saved yet.
BinPending(r) == r.at \in KuboSteps \cup {"setup.save"} /\ r.cmd.kubo = TRUE

\* A process that loaded the configuration after the last save has the wanted
\* settings in memory, but for the ones that it is about to save or to load.
SettingsOK(q, r) ==
  history.stale = FALSE /\ q \notin history.outdated =>
    /\ r.mem.cfg.network = history.wanted["network"]
    /\ r.mem.cfg.dir = history.wanted["dir"]
    /\ r.at # "setup.reload" => r.mem.cfg.key = history.wanted["key"]
    /\ ~BinPending(r) => r.mem.cfg.bin = history.wanted["bin"]

\* What holds of a process q in the middle of a command.
Local(q, r) ==
  /\ Unmixed(r.mem.cfg) /\ Placed(r) /\ NamesOK(r) /\ InstallOK(r) /\ SettingsOK(q, r)

\* What holds of the shared files.
SharedOK == FileOK /\ IndexBacked /\ Selected(file) /\ SettingsKept

\* The inductive invariant.
IInv ==
  /\ Typed /\ SharedOK /\ InstallKept
  /\ \A q \in Procs : procs[q] # Idle => Local(q, procs[q])

-----------------------------------------------------------------------------
(* Loading and saving.                                                     *)

\* config.Load gives a configuration of the network that the file selects.
LEMMA LoadOK ==
  ASSUME FileOK
  PROVE  Load \in Configs /\ Unmixed(Load) /\ Load.key = file.key /\ Load.dir = file.dir
<1> DEFINE network == FileNetwork
<1>1. network \in Networks
  BY Zenon DEF FileOK, FileNetwork, Networks, Testnet
<1>2. ASSUME NEW f \in ProfileFields
      PROVE  LoadField(network, file.set, f) \in {Profile(network, f), Override(network), ""} \cap Values
  <2>1. f \in DOMAIN file.set => file.set[f] \in {Profile(network, f), Override(network), ""}
    BY Zenon DEF FileOK
  <2>2. Profile(network, f) \in Values /\ Profile(Testnet, f) \in Values /\ Override(network) \in Values
    BY <1>1, Zenon DEF Profile, Values, Networks, Testnet
  <2> HIDE DEF network
  <2>3. CASE f \in DOMAIN file.set
    BY <2>1, <2>2, <2>3, Zenon DEF LoadField, Values
  <2>4. CASE f \notin DOMAIN file.set
    BY <1>1, <2>2, <2>4, Zenon DEF LoadField, Values
  <2> QED
    BY <2>3, <2>4, Zenon
<1>3. /\ LoadField(network, file.set, "evm_rpc")
           \in {Profile(network, "evm_rpc"), Override(network), ""} \cap Values
      /\ LoadField(network, file.set, "evm_suite_directory_address")
           \in {Profile(network, "evm_suite_directory_address"), Override(network), ""} \cap Values
  BY <1>2, Zenon DEF ProfileFields
<1>4. /\ Load.network = network /\ Load.key = file.key /\ Load.dir = file.dir
      /\ Load.evm_rpc = LoadField(network, file.set, "evm_rpc")
      /\ Load.evm_suite_directory_address = LoadField(network, file.set, "evm_suite_directory_address")
  BY Zenon DEF Load, FileNetwork
<1>5. /\ (IF file.bin = "" THEN "ipfs" ELSE file.bin) \in Bins
      /\ file.key \in Keys /\ file.dir \in Keystores
  BY Zenon DEF FileOK, Bins
<1>6. Load \in Configs
  BY <1>1, <1>3, <1>5, Zenon DEF Load, Configs, FileNetwork
<1>7. Unmixed(Load)
  BY <1>3, <1>4, Zenon DEF Unmixed, ProfileFields
<1> QED
  BY <1>4, <1>6, <1>7, Zenon

\* config.Save and config.Load give back the network, the directory, the key and the
\* binary.
LEMMA SavedFile ==
  ASSUME NEW c \in Configs, Unmixed(c), file' = FileOf(c)
  PROVE  /\ FileOK' /\ file'.key = c.key /\ file'.dir = c.dir
         /\ Load'["network"] = c.network /\ Load'["dir"] = c.dir
         /\ Load'["key"] = c.key /\ Load'["bin"] = c.bin
<1>1. /\ c.network \in Networks /\ c.dir \in Keystores /\ c.key \in Keys /\ c.bin \in Bins
      /\ c.network # "" /\ c.bin # ""
  BY Zenon DEF Configs, Networks, Testnet, Bins
<1>2. /\ file'.network = c.network /\ file'.dir = c.dir /\ file'.key = c.key /\ file'.bin = c.bin
      /\ file'.set = [f \in {g \in ProfileFields : c[g] # ""} |-> c[f]]
  BY Zenon DEF FileOf
<1>3. FileNetwork' = c.network
  BY <1>1, <1>2, Zenon DEF FileNetwork
<1>4. ASSUME NEW f \in DOMAIN file'.set
      PROVE  file'.set[f] \in {Profile(c.network, f), Override(c.network), ""}
  BY <1>2, <1>4, Zenon DEF Unmixed
<1>5. FileOK'
  BY <1>1, <1>2, <1>3, <1>4, Zenon DEF FileOK
<1>6. /\ Load'["network"] = c.network /\ Load'["dir"] = c.dir
      /\ Load'["key"] = c.key /\ Load'["bin"] = c.bin
  BY <1>1, <1>2, Zenon DEF Load
<1> QED
  BY <1>2, <1>5, <1>6, Zenon

\* What Save leaves in the history.
SaveRecorded(p, c, touched, typed) ==
  /\ history' \in Histories
  /\ history'.stale = FALSE => history.stale = FALSE /\ p \notin history.outdated
  /\ history'.outdated = history.outdated \cup (Procs \ {p})
  /\ history'.lost = history.lost /\ history'.typed = history.typed \cup typed
  /\ history'.cut = history.cut /\ history'.installed = history.installed
  /\ \A f \in Settings : history'.wanted[f] = IF f \in touched THEN c[f] ELSE history.wanted[f]

\* Saving records the settings that it touches.
LEMMA SaveFacts ==
  ASSUME SharedTyped, NEW p \in Procs, NEW c \in Configs, NEW touched,
         NEW typed \in SUBSET (Keystores \X Keys), Save(p, c, touched, typed)
  PROVE  SaveRecorded(p, c, touched, typed)
<1> DEFINE stale == history.stale \/ p \in history.outdated
           outdated == history.outdated \cup (Procs \ {p})
           excused == history.typed \cup typed
           wanted == [f \in DOMAIN history.wanted |-> IF f \in touched THEN c[f] ELSE history.wanted[f]]
<1>1. history \in Histories
  BY Zenon DEF SharedTyped
<1>2. history' = [history EXCEPT !.stale = stale, !.outdated = outdated, !.typed = excused,
                                  !.wanted = wanted]
  BY Zenon DEF Save
<1>3. stale \in BOOLEAN
  BY Zenon
<1>4. outdated \in SUBSET Procs /\ excused \in SUBSET (Keystores \X Keys)
  BY <1>1, Zenon DEF Histories
<1>5. DOMAIN history.wanted = Settings /\ \A f \in Settings : history.wanted[f] \in Wants
  BY <1>1, Zenon DEF Histories
<1>6. \A f \in Settings : c[f] \in Wants
  BY Zenon DEF Settings, Configs, Wants
<1>7. wanted \in [Settings -> Wants]
  BY <1>5, <1>6, Zenon
<1>8. stale = FALSE => history.stale = FALSE /\ p \notin history.outdated
  BY <1>1, Zenon DEF Histories
<1>9. \A f \in Settings : wanted[f] = IF f \in touched THEN c[f] ELSE history.wanted[f]
  BY <1>5, Zenon
<1> HIDE DEF stale, outdated, excused, wanted
<1>10. /\ history' \in Histories
       /\ history'.stale = stale /\ history'.outdated = outdated /\ history'.wanted = wanted
       /\ history'.lost = history.lost /\ history'.typed = excused
       /\ history'.cut = history.cut /\ history'.installed = history.installed
  BY <1>1, <1>2, <1>3, <1>4, <1>7, Zenon DEF Histories
<1> QED
  BY <1>8, <1>9, <1>10, Zenon DEF outdated, excused, SaveRecorded

\* The settings that the file and the history agree on, one by one.
LEMMA SettingsSplit ==
  ASSUME history \in Histories
  PROVE  SettingsKept <=> (history.stale = FALSE =>
           /\ Load["network"] = history.wanted["network"]
           /\ Load["dir"] = history.wanted["dir"]
           /\ Load["key"] = history.wanted["key"]
           /\ Load["bin"] = history.wanted["bin"])
<1>1. DOMAIN history.wanted = Settings /\ history.stale \in BOOLEAN
  BY Zenon DEF Histories
<1>2. (\A f \in Settings : Load[f] = history.wanted[f]) <=>
           /\ Load["network"] = history.wanted["network"]
           /\ Load["dir"] = history.wanted["dir"]
           /\ Load["key"] = history.wanted["key"]
           /\ Load["bin"] = history.wanted["bin"]
  BY Zenon DEF Settings
<1>3. ~history.stale <=> history.stale = FALSE
  BY <1>1, Zenon
<1> QED
  BY <1>1, <1>2, <1>3, Zenon DEF SettingsKept

-----------------------------------------------------------------------------
(* Steps of one process.                                                   *)

\* What the step of a process must leave to the others: key files and names that
\* they know of, and settings that they still have.
Frame(p) ==
  /\ \A d \in Keystores : keyFiles[d] \subseteq keyFiles'[d]
  /\ \A d \in Keystores : \A name : Known(d, name) => Known(d, name)'
  /\ \A q \in Procs \ {p} :
       history'.stale = FALSE /\ q \notin history'.outdated =>
          history.stale = FALSE /\ q \notin history.outdated /\ history'.wanted = history.wanted

\* What one process leaves in order is in order for every other one.
LEMMA FrameLocal ==
  ASSUME NEW p \in Procs, Frame(p), NEW q \in Procs \ {p}, NEW r, r.mem.cfg.dir \in Keystores,
         Local(q, r)
  PROVE  Local(q, r)'
<1>1. Unmixed(r.mem.cfg)' /\ Placed(r)' /\ InstallOK(r)'
  BY Zenon DEF Local, Unmixed, Placed, InstallOK
<1>2. NamesOK(r)'
  <2>1. r.at \in {"key.account", "key.write"} => Backed(r.mem.cfg.dir, r.mem.index)'
    BY Zenon DEF Local, NamesOK, Backed, Frame
  <2>2. r.at = "key.write" => r.mem.account \in keyFiles'[r.mem.cfg.dir]
    BY Zenon DEF Local, NamesOK, Frame
  <2>3. Selected(r.mem.cfg)'
    BY Zenon DEF Local, NamesOK, Selected, Frame
  <2> QED
    BY <2>1, <2>2, <2>3, Zenon DEF Local, NamesOK, Frame
<1>3. SettingsOK(q, r)'
  BY Zenon DEF Local, SettingsOK, Frame, BinPending
<1> QED
  BY <1>1, <1>2, <1>3, Zenon DEF Local

\* The same of what a process has in the next state.
LEMMA LocalPrimed ==
  ASSUME NEW q, NEW s, s = procs'[q], Local(q, s)'
  PROVE  Local(q, procs[q])'
<1>1. Unmixed(procs[q].mem.cfg)' /\ Placed(procs[q])' /\ InstallOK(procs[q])'
  BY Zenon DEF Local
<1>2. NamesOK(procs[q])'
  <2>1. NamesOK(s)'
    BY Zenon DEF Local
  <2> QED
    BY <2>1, Zenon DEF NamesOK, Selected, Known, Backed
<1>3. SettingsOK(q, procs[q])'
  <2>1. SettingsOK(q, s)'
    BY Zenon DEF Local
  <2> QED
    BY <2>1, Zenon DEF SettingsOK
<1> QED
  BY <1>1, <1>2, <1>3, Zenon DEF Local

\* A step of p keeps the invariant when the shared files stay in order, the
\* others lose nothing, and p is in order afterwards.
LEMMA Compose ==
  ASSUME IInv, NEW p \in Procs, NEW r \in Running \cup {Idle}, procs' = [procs EXCEPT ![p] = r],
         SharedTyped', SharedOK', InstallKept', Frame(p), r # Idle => Local(p, r)'
  PROVE  IInv'
<1>1. procs \in [Procs -> Running \cup {Idle}]
  BY Zenon DEF IInv, Typed
<1>2. procs' \in [Procs -> Running \cup {Idle}] /\ procs'[p] = r
      /\ \A q \in Procs \ {p} : procs'[q] = procs[q]
  BY <1>1, Zenon
<1>3. ASSUME NEW q \in Procs, procs'[q] # Idle PROVE Local(q, procs[q])'
  <2>1. PICK s : s = procs'[q]
    BY Zenon
  <2>2. CASE q = p
    <3>1. Local(q, s)'
      BY <1>2, <1>3, <2>1, <2>2, Zenon
    <3> QED
      BY <2>1, <3>1, LocalPrimed, Zenon
  <2>3. CASE q # p
    <3>1. Local(q, s) /\ s \in Running
      BY <1>1, <1>2, <1>3, <2>1, <2>3, Zenon DEF IInv
    <3>2. s.mem.cfg.dir \in Keystores
      BY <3>1, Zenon DEF Running, Memories, Configs
    <3>3. Local(q, s)'
      BY <2>3, <3>1, <3>2, FrameLocal, Zenon
    <3> QED
      BY <2>1, <3>3, LocalPrimed, Zenon
  <2> QED
    BY <2>2, <2>3, Zenon
<1> QED
  BY <1>2, <1>3, Zenon DEF IInv, Typed

\* The next state of a process that goes on.
LEMMA GotoFacts ==
  ASSUME Typed, NEW p \in Procs, procs[p] # Idle, NEW step, NEW mem, Goto(p, step, mem)
  PROVE  /\ procs[p] \in Running
         /\ procs' = [procs EXCEPT ![p] = [at |-> step, cmd |-> procs[p].cmd, mem |-> mem]]
<1>1. procs[p] \in Running /\ procs \in [Procs -> Running \cup {Idle}]
  BY Zenon DEF Typed
<1>2. procs' = [procs EXCEPT ![p] = [[procs[p] EXCEPT !.at = step] EXCEPT !.mem = mem]]
  BY <1>1, Zenon DEF Goto
<1>3. PICK a, c, m : procs[p] = [at |-> a, cmd |-> c, mem |-> m]
  <2>1. \A r \in Running : r = [at |-> r.at, cmd |-> r.cmd, mem |-> r.mem]
    BY DEF Running
  <2> QED
    BY <1>1, <2>1, Zenon
<1>4. [procs[p] EXCEPT !.at = step] = [at |-> step, cmd |-> c, mem |-> m]
  BY <1>3
<1>5. [[at |-> step, cmd |-> c, mem |-> m] EXCEPT !.mem = mem] = [at |-> step, cmd |-> c, mem |-> mem]
  OBVIOUS
<1>6. procs[p].cmd = c
  BY <1>3
<1> QED
  BY <1>1, <1>2, <1>4, <1>5, <1>6, Zenon

\* Only a process that is about to place its archive holds a backup.
LEMMA BackupAt ==
  ASSUME IInv, NEW p \in Procs, procs[p] = Idle \/ procs[p].at # "place"
  PROVE  Mem(p).backup = "absent"
<1>1. CASE procs[p] = Idle
  <2>1. Idle.mem.backup = "absent"
    BY Zenon DEF Idle, NoMemory
  <2> QED
    BY <1>1, <2>1, Zenon DEF Mem
<1>2. CASE procs[p] # Idle
  BY <1>2, Zenon DEF IInv, Local, InstallOK, Mem
<1> QED
  BY <1>1, <1>2, Zenon

\* When p had no backup and nothing is renamed, the installation stays.
LEMMA InstallStays ==
  ASSUME IInv, NEW p \in Procs, procs[p] = Idle \/ procs[p].at # "place",
         NEW r, procs' = [procs EXCEPT ![p] = r],
         kubo'.target = kubo.target, history'.installed = history.installed, history'.cut = history.cut
  PROVE  InstallKept'
<1>1. Mem(p).backup = "absent"
  BY BackupAt, Zenon
<1>2. \A q \in Procs \ {p} : procs'[q] = procs[q]
  BY Zenon DEF IInv, Typed
<1>3. (\A q \in Procs : procs'[q].mem.backup = "absent") => \A q \in Procs : procs[q].mem.backup = "absent"
  BY <1>1, <1>2, Zenon DEF Mem
<1> QED
  BY <1>3, Zenon DEF IInv, InstallKept, Mem

-----------------------------------------------------------------------------
(* Steps that read the shared files, or start Kubo.                        *)

\* A step that writes none of the files that the invariant is about.
Quiet == UNCHANGED <<file, index, keyFiles, history>> /\ kubo' \in Kubos /\ kubo'.target = kubo.target

\* Such a step leaves the shared files and the other processes in order.
LEMMA QuietShared ==
  ASSUME IInv, NEW p \in Procs, Quiet
  PROVE  SharedTyped' /\ SharedOK' /\ Frame(p)
<1>1. file' = file /\ index' = index /\ keyFiles' = keyFiles /\ history' = history /\ kubo' \in Kubos
  BY Zenon DEF Quiet
<1>2. SharedTyped'
  BY <1>1, Zenon DEF IInv, Typed, SharedTyped
<1>3. FileOK' /\ IndexBacked' /\ Selected(file)'
  BY <1>1, Zenon DEF IInv, SharedOK, FileOK, FileNetwork, IndexBacked, Backed, Selected, Known
<1>4. SettingsKept'
  BY <1>1, Zenon DEF IInv, SharedOK, SettingsKept, Load
<1>5. Frame(p)
  BY <1>1, Zenon DEF Frame, Known
<1> QED
  BY <1>2, <1>3, <1>4, <1>5, Zenon DEF SharedOK

\* A process that ends.
LEMMA QuietExit ==
  ASSUME IInv, NEW p \in Procs, procs[p] = Idle \/ procs[p].at # "place", Exit(p), Quiet
  PROVE  IInv'
<1>1. procs' = [procs EXCEPT ![p] = Idle]
  BY Zenon DEF Exit
<1>2. InstallKept'
  BY <1>1, InstallStays, Zenon DEF Quiet
<1> QED
  BY <1>1, <1>2, QuietShared, Compose, Zenon

\* A process that goes on to another step, with what it has in memory but for the
\* index that it read, the archive, and the binary that it will save.
LEMMA QuietGoto ==
  ASSUME IInv, NEW p \in Procs, procs[p] # Idle, procs[p].at \notin {"place", "setup.reload"},
         NEW step \in Steps, NEW mem \in Memories, Goto(p, step, mem), Quiet,
         step \notin {"set", "key.write", "key.save"},
         step \in KeySteps => procs[p].at \in KeySteps
                              \/ (procs[p].cmd.op = "setup" /\ procs[p].cmd.create \in Names),
         step \in SetupSteps => procs[p].at \in SetupSteps,
         step \in KuboSteps \cup InstallSteps => procs[p].cmd.kubo = TRUE,
         step \in {"activate", "aside", "place"} => mem.archive = "good",
         mem.backup = "absent",
         step = "key.account" => mem.index = index[procs[p].mem.cfg.dir],
         \/ mem.cfg = procs[p].mem.cfg /\ (procs[p].at \in KuboSteps => step \in KuboSteps \cup {"setup.save"})
         \/ mem.cfg = [procs[p].mem.cfg EXCEPT !.bin = "managed"] /\ step = "kubo.start",
         procs[p].at # "setup.save"
  PROVE  IInv'
<1>0. PICK r : r = [at |-> step, cmd |-> procs[p].cmd, mem |-> mem]
  BY Zenon
<1>1. procs[p] \in Running /\ procs' = [procs EXCEPT ![p] = r]
  <2>1. Typed
    BY Zenon DEF IInv
  <2>2. /\ procs[p] \in Running
        /\ procs' = [procs EXCEPT ![p] = [at |-> step, cmd |-> procs[p].cmd, mem |-> mem]]
    BY <2>1, GotoFacts
  <2> QED
    BY <1>0, <2>2, Zenon
<1>2. /\ procs[p].cmd \in AllCommands /\ procs[p].mem.cfg \in Configs
      /\ procs[p].mem.cfg.dir \in Keystores
  BY <1>1, Zenon DEF Running, Memories, Configs
<1>3. r \in Running
  BY <1>0, <1>2, Zenon DEF Running
<1>4. r.at = step /\ r.cmd = procs[p].cmd /\ r.mem = mem
  BY <1>0, Zenon
<1>5. Local(p, procs[p])
  BY Zenon DEF IInv
<1>6. /\ mem.cfg.network = procs[p].mem.cfg.network /\ mem.cfg.key = procs[p].mem.cfg.key
      /\ mem.cfg.dir = procs[p].mem.cfg.dir
      /\ mem.cfg.evm_rpc = procs[p].mem.cfg.evm_rpc
      /\ mem.cfg.evm_suite_directory_address = procs[p].mem.cfg.evm_suite_directory_address
  BY <1>2, Zenon DEF Configs
<1>7. Unmixed(r.mem.cfg)
  <2>1. Unmixed(procs[p].mem.cfg)
    BY <1>5, Zenon DEF Local
  <2>2. \A f \in ProfileFields : mem.cfg[f] = procs[p].mem.cfg[f]
    BY <1>6, Zenon DEF ProfileFields
  <2> QED
    BY <1>4, <1>6, <2>1, <2>2, Zenon DEF Unmixed
<1>8. Placed(r)
  BY <1>4, <1>5, Zenon DEF Local, Placed
<1>9. NamesOK(r)
  <2>1. step = "key.account" => Backed(mem.cfg.dir, mem.index)
    BY <1>2, <1>6, Zenon DEF IInv, SharedOK, IndexBacked
  <2>2. Selected(mem.cfg)
    BY <1>5, <1>6, Zenon DEF Local, NamesOK, Selected
  <2>3. r.at # "key.write" /\ r.at # "key.save"
    BY <1>4, Zenon
  <2> QED
    BY <1>4, <2>1, <2>2, <2>3, Zenon DEF NamesOK
<1>10. InstallOK(r)
  BY <1>4, Zenon DEF InstallOK
<1>11. SettingsOK(p, r)
  <2>1. ~BinPending(r) => mem.cfg.bin = procs[p].mem.cfg.bin /\ ~BinPending(procs[p])
    BY <1>4, <1>5, Zenon DEF Local, Placed, BinPending, KuboSteps
  <2> QED
    BY <1>4, <1>5, <1>6, <2>1, Zenon DEF Local, SettingsOK
<1>12. Local(p, r)
  BY <1>7, <1>8, <1>9, <1>10, <1>11, Zenon DEF Local
<1>13. Local(p, r)'
  <2>1. Unmixed(r.mem.cfg)' /\ Placed(r)' /\ InstallOK(r)'
    BY <1>12, Zenon DEF Local
  <2>2. NamesOK(r)'
    BY <1>9, Zenon DEF Quiet, NamesOK, Selected, Known, Backed
  <2>3. SettingsOK(p, r)'
    BY <1>11, Zenon DEF Quiet, SettingsOK
  <2> QED
    BY <2>1, <2>2, <2>3, Zenon DEF Local
<1>14. InstallKept'
  BY <1>1, InstallStays, Zenon DEF Quiet
<1> QED
  BY <1>1, <1>3, <1>13, <1>14, QuietShared, Compose, Zenon

\* A process at a step is in the middle of a command.
LEMMA AtFacts ==
  ASSUME IInv, NEW p \in Procs, NEW step, At(p, step), step # "idle"
  PROVE  /\ procs[p] # Idle /\ procs[p].at = step /\ Local(p, procs[p])
         /\ procs[p] \in Running /\ procs[p].mem \in Memories /\ procs[p].cmd \in AllCommands
<1>1. procs[p] # Idle /\ procs[p].at = step
  BY DEF At, Idle
<1>2. procs[p] \in Running
  BY <1>1, Zenon DEF IInv, Typed
<1>3. procs[p].mem \in Memories /\ procs[p].cmd \in AllCommands
  BY <1>2, Zenon DEF Running
<1> QED
  BY <1>1, <1>2, <1>3, Zenon DEF IInv

\* A step inside setup that keeps the configuration and the index in memory.
LEMMA SetupGoto ==
  ASSUME IInv, NEW p \in Procs, NEW at, At(p, at), NEW step, NEW mem \in Memories,
         Goto(p, step, mem), Quiet,
         at \in SetupSteps \ {"place", "setup.reload", "setup.save"}, step \in SetupSteps,
         step \in KuboSteps \cup InstallSteps => procs[p].cmd.kubo = TRUE,
         step \in {"activate", "aside", "place"} => mem.archive = "good",
         at \in KuboSteps => step \in KuboSteps \cup {"setup.save"},
         mem.backup = "absent", mem.index = procs[p].mem.index, mem.cfg = procs[p].mem.cfg
  PROVE  IInv'
<1>1. at # "idle" /\ step \in Steps /\ step \notin KeySteps /\ step # "set"
  BY Zenon DEF SetupSteps, KuboSteps, InstallSteps, KeySteps, Steps
<1>2. step \notin {"set", "key.account", "key.write", "key.save"}
  BY <1>1, Zenon DEF KeySteps
<1>3. procs[p] # Idle /\ procs[p].at = at
  BY <1>1, AtFacts, Zenon
<1> QED
  BY <1>1, <1>2, <1>3, QuietGoto, Zenon

\* The same with the memory as it is.
LEMMA SetupMove ==
  ASSUME IInv, NEW p \in Procs, NEW at, At(p, at), NEW step, Goto(p, step, Mem(p)), Quiet,
         at \in SetupSteps \ {"place", "setup.reload", "setup.save"}, step \in SetupSteps,
         step \in KuboSteps \cup InstallSteps => procs[p].cmd.kubo = TRUE,
         step \in {"activate", "aside", "place"} => at \in {"activate", "aside"},
         at \in KuboSteps => step \in KuboSteps \cup {"setup.save"}
  PROVE  IInv'
<1>1. at # "idle"
  BY Zenon DEF SetupSteps, KuboSteps, InstallSteps
<1>2. procs[p].mem \in Memories /\ procs[p].at = at /\ procs[p] # Idle
  BY <1>1, AtFacts, Zenon
<1>3. Mem(p) = procs[p].mem /\ Mem(p).backup = "absent"
  BY <1>2, BackupAt, Zenon DEF Mem
<1>4. step \in {"activate", "aside", "place"} => Mem(p).archive = "good"
  BY <1>2, <1>3, AtFacts, Zenon DEF IInv, Local, InstallOK
<1> QED
  BY <1>2, <1>3, <1>4, SetupGoto, Zenon

\* A quiet step that leaves Kubo alone too.
LEMMA QuietUnchanged ==
  ASSUME IInv, UNCHANGED <<file, index, keyFiles, kubo, history>>
  PROVE  Quiet
BY Zenon DEF IInv, Typed, SharedTyped, Quiet

\* CreateKey and importKey look the name up in the index first.
LEMMA ReadIndexStep ==
  ASSUME IInv, NEW p \in Procs, ReadIndex(p) PROVE IInv'
<1>1. Quiet /\ At(p, "key.index")
  BY QuietUnchanged, Zenon DEF ReadIndex
<1>2. procs[p] # Idle /\ procs[p].at = "key.index" /\ procs[p].mem \in Memories /\ Local(p, procs[p])
  BY <1>1, AtFacts, Zenon
<1>3. CASE Exit(p)
  BY <1>1, <1>2, <1>3, QuietExit, Zenon
<1>4. CASE Goto(p, "key.account", [Mem(p) EXCEPT !.index = index[KeyDir(p)]])
  <2>1. PICK i, mem : i = index[procs[p].mem.cfg.dir] /\ mem = [procs[p].mem EXCEPT !.index = i]
    BY Zenon
  <2>2. procs[p].mem.cfg.dir \in Keystores
    BY <1>2, Zenon DEF Memories, Configs
  <2>3. i \in IndexMaps
    BY <2>1, <2>2, Zenon DEF IInv, Typed, SharedTyped
  <2>4. /\ mem \in Memories /\ mem.index = i /\ mem.cfg = procs[p].mem.cfg
        /\ mem.backup = procs[p].mem.backup
    BY <1>2, <2>1, <2>3, Zenon DEF Memories
  <2>5. mem.backup = "absent" /\ Goto(p, "key.account", mem)
    BY <1>2, <1>4, <2>1, <2>4, Zenon DEF Local, InstallOK, Mem, KeyDir
  <2>6. /\ "key.account" \in Steps /\ "key.account" \notin {"set", "key.write", "key.save"}
        /\ "key.account" \notin SetupSteps /\ "key.account" \notin KuboSteps \cup InstallSteps
        /\ "key.account" \notin {"activate", "aside", "place"} /\ "key.index" \in KeySteps
        /\ "key.index" \notin KuboSteps
    BY Zenon DEF Steps, SetupSteps, KuboSteps, InstallSteps, KeySteps
  <2> QED
    BY <1>1, <1>2, <2>1, <2>4, <2>5, <2>6, QuietGoto, Zenon
<1> QED
  BY <1>3, <1>4, Zenon DEF ReadIndex

\* The steps of setup, and which of them are Kubo's.
LEMMA StepSets ==
  /\ {"setup", "setup.kubo", "setup.save", "doctor", "download", "activate", "aside", "place", "wrap",
      "check", "kubo.start", "kubo.init", "kubo.daemon", "kubo.wait", "setup.reload"} \subseteq SetupSteps
  /\ {"kubo.start", "kubo.init", "kubo.daemon", "kubo.wait"} = KuboSteps
  /\ {"download", "activate", "aside", "place", "wrap", "check"} = InstallSteps
BY Zenon DEF SetupSteps, KuboSteps, InstallSteps

\* The start of PrepareKubo keeps the invariant: a working binary is taken over
\* into the configuration in memory.
LEMMA EnsureDependencyStep ==
  ASSUME IInv, NEW p \in Procs, EnsureDependency(p) PROVE IInv'
<1>1. Quiet /\ At(p, "setup.kubo")
  BY QuietUnchanged, Zenon DEF EnsureDependency
<1>2. /\ procs[p] # Idle /\ procs[p].at = "setup.kubo" /\ procs[p].mem \in Memories
      /\ procs[p].cmd \in AllCommands /\ Local(p, procs[p])
  BY <1>1, AtFacts, Zenon
<1>3. procs[p].cmd.op = "setup"
  BY <1>2, StepSets, Zenon DEF Local, Placed
<1>4. procs[p].cmd.kubo \in BOOLEAN
  BY <1>2, <1>3, Zenon DEF AllCommands, ConfigCommands, KeyCommands, SetupCommands
<1>5. ~Cmd(p).kubo \/ procs[p].cmd.kubo = TRUE
  BY <1>4, Zenon DEF Cmd
<1>6. CASE ~Cmd(p).kubo
  <2>1. Goto(p, "setup.save", Mem(p))
    BY <1>6, Zenon DEF EnsureDependency
  <2>2. /\ "setup.save" \in SetupSteps /\ "setup.save" \notin KuboSteps \cup InstallSteps
        /\ "setup.save" \notin {"activate", "aside", "place"} /\ "setup.kubo" \notin KuboSteps
        /\ "setup.kubo" \in SetupSteps \ {"place", "setup.reload", "setup.save"}
    BY Zenon DEF SetupSteps, KuboSteps, InstallSteps
  <2> QED
    BY <1>1, <2>1, <2>2, SetupMove, Zenon
<1>7. CASE procs[p].cmd.kubo = TRUE /\ (Goto(p, "kubo.start", Mem(p)) \/ Goto(p, "download", Mem(p)))
  <2>1. /\ "kubo.start" \in SetupSteps /\ "download" \in SetupSteps /\ "setup.kubo" \notin KuboSteps
        /\ "kubo.start" \notin {"activate", "aside", "place"}
        /\ "download" \notin {"activate", "aside", "place"}
        /\ "setup.kubo" \in SetupSteps \ {"place", "setup.reload", "setup.save"}
    BY Zenon DEF SetupSteps, KuboSteps, InstallSteps
  <2> QED
    BY <1>1, <1>7, <2>1, SetupMove, Zenon
<1>8. CASE procs[p].cmd.kubo = TRUE /\ Goto(p, "kubo.start", WithBin(p, "managed"))
  <2>1. PICK mem : mem = [procs[p].mem EXCEPT !.cfg = [procs[p].mem.cfg EXCEPT !.bin = "managed"]]
    BY Zenon
  <2>2. procs[p].mem.cfg \in Configs
    BY <1>2, Zenon DEF Memories
  <2>3. [procs[p].mem.cfg EXCEPT !.bin = "managed"] \in Configs
    BY <2>2, Zenon DEF Configs, Bins
  <2>4. /\ mem \in Memories /\ mem.cfg = [procs[p].mem.cfg EXCEPT !.bin = "managed"]
        /\ mem.index = procs[p].mem.index /\ mem.backup = procs[p].mem.backup
    BY <1>2, <2>1, <2>3, Zenon DEF Memories
  <2>5. WithBin(p, "managed") = mem
    BY <2>1, Zenon DEF WithBin, Mem
  <2>6. mem.backup = "absent" /\ Goto(p, "kubo.start", mem)
    BY <1>2, <1>8, <2>4, <2>5, Zenon DEF Local, InstallOK
  <2>7. /\ "kubo.start" \in Steps /\ "kubo.start" \notin {"set", "key.write", "key.save"}
        /\ "kubo.start" \notin KeySteps /\ "setup.kubo" \in SetupSteps
        /\ "kubo.start" \notin {"activate", "aside", "place"} /\ "kubo.start" # "key.account"
    BY Zenon DEF Steps, SetupSteps, KuboSteps, InstallSteps, KeySteps
  <2> QED
    BY <1>1, <1>2, <1>8, <2>4, <2>6, <2>7, QuietGoto, Zenon
<1> QED
  BY <1>5, <1>6, <1>7, <1>8, Zenon DEF EnsureDependency

\* An archive that was verified is the one that a process goes on with.
LEMMA DownloadStep ==
  ASSUME IInv, NEW p \in Procs, DownloadArtifact(p) PROVE IInv'
<1>1. Quiet /\ At(p, "download")
  BY QuietUnchanged, Zenon DEF DownloadArtifact
<1>2. /\ procs[p] # Idle /\ procs[p].at = "download" /\ procs[p].mem \in Memories /\ Local(p, procs[p])
  BY <1>1, AtFacts, Zenon
<1>3. CASE Exit(p)
  BY <1>1, <1>2, <1>3, QuietExit, Zenon
<1>4. ASSUME NEW served \in [1..2 -> {"good", "bad"}], {i \in 1..2 : Verified(served[i])} # {},
             Goto(p, "activate", [Mem(p) EXCEPT !.archive =
                served[CHOOSE i \in {i \in 1..2 : Verified(served[i])} :
                         \A j \in {i_1 \in 1..2 : Verified(served[i_1])} : i <= j]])
      PROVE  IInv'
  <2> DEFINE verified == {i \in 1..2 : Verified(served[i])}
             first == CHOOSE i \in verified : \A j \in verified : i <= j
  <2>1. first \in verified
    <3>1. \E i \in verified : \A j \in verified : i <= j
      <4>1. verified \subseteq 1..2 /\ verified # {}
        BY <1>4, Zenon
      <4>2. CASE 1 \in verified
        BY <4>1, <4>2
      <4>3. CASE 1 \notin verified
        BY <4>1, <4>3
      <4> QED
        BY <4>2, <4>3, Zenon
    <3> QED
      BY <3>1, Zenon
  <2>2. served[first] = "good"
    BY <2>1, Zenon DEF Verified
  <2>3. PICK mem : mem = [procs[p].mem EXCEPT !.archive = "good"]
    BY Zenon
  <2>4. /\ mem \in Memories /\ mem.archive = "good" /\ mem.cfg = procs[p].mem.cfg
        /\ mem.index = procs[p].mem.index /\ mem.backup = procs[p].mem.backup
    BY <1>2, <2>3, Zenon DEF Memories
  <2>5. mem.backup = "absent" /\ Goto(p, "activate", mem)
    BY <1>2, <1>4, <2>2, <2>3, <2>4, Zenon DEF Local, InstallOK, Mem
  <2>6. /\ "activate" \in SetupSteps /\ "download" \notin KuboSteps
        /\ "download" \in InstallSteps
        /\ "download" \in SetupSteps \ {"place", "setup.reload", "setup.save"}
    BY Zenon DEF SetupSteps, KuboSteps, InstallSteps
  <2>7. procs[p].cmd.kubo = TRUE
    BY <1>2, <2>6, Zenon DEF Local, Placed
  <2> QED
    BY <1>1, <2>4, <2>5, <2>6, <2>7, SetupGoto, Zenon
<1> QED
  BY <1>3, <1>4, Zenon DEF DownloadArtifact

\* A process that installs or starts Kubo was asked to.
LEMMA KuboAsked ==
  ASSUME IInv, NEW p \in Procs, NEW at \in KuboSteps \cup InstallSteps, At(p, at)
  PROVE  procs[p].cmd.kubo = TRUE /\ procs[p] # Idle /\ procs[p].at = at /\ procs[p].mem.cfg \in Configs
<1>1. at # "idle"
  BY Zenon DEF KuboSteps, InstallSteps
<1>2. procs[p] # Idle /\ procs[p].at = at /\ Local(p, procs[p]) /\ procs[p].mem \in Memories
  BY <1>1, AtFacts, Zenon
<1>3. procs[p].mem.cfg \in Configs
  BY <1>2, Zenon DEF Memories
<1> QED
  BY <1>2, <1>3, Zenon DEF Local, Placed

\* Moves from one step of an installation to the next.
LEMMA InstallMoves ==
  ASSUME IInv, NEW p \in Procs,
         ActivateManagedInstall(p) \/ CheckInstalled(p) \/ WriteWrapper(p)
  PROVE  IInv'
<1>1. /\ {"activate", "wrap", "check"} \subseteq (KuboSteps \cup InstallSteps)
                                        \cap (SetupSteps \ {"place", "setup.reload", "setup.save"})
      /\ {"place", "aside", "check", "kubo.start"} \subseteq SetupSteps
      /\ {"activate", "wrap", "check"} \cap KuboSteps = {}
  BY Zenon DEF SetupSteps, KuboSteps, InstallSteps
<1>2. CASE ActivateManagedInstall(p)
  <2>1. Quiet /\ At(p, "activate")
    BY <1>2, QuietUnchanged, Zenon DEF ActivateManagedInstall
  <2>2. procs[p].cmd.kubo = TRUE
    BY <1>1, <2>1, KuboAsked, Zenon
  <2>3. PICK step \in {"place", "aside"} : Goto(p, step, Mem(p))
    BY <1>2, Zenon DEF ActivateManagedInstall
  <2> QED
    BY <1>1, <2>1, <2>2, <2>3, SetupMove, Zenon
<1>3. CASE WriteWrapper(p)
  <2>1. UNCHANGED <<file, index, keyFiles, history>> /\ At(p, "wrap") /\ Goto(p, "check", Mem(p))
        /\ kubo' = [kubo EXCEPT !.wrapper = TRUE]
    BY <1>3, Zenon DEF WriteWrapper
  <2>2. kubo \in Kubos
    BY Zenon DEF IInv, Typed, SharedTyped
  <2>3. kubo' \in Kubos /\ kubo'.target = kubo.target
    BY <2>1, <2>2, Zenon DEF Kubos
  <2>4. Quiet
    BY <2>1, <2>3, Zenon DEF Quiet
  <2>5. procs[p].cmd.kubo = TRUE
    BY <1>1, <2>1, KuboAsked, Zenon
  <2> QED
    BY <1>1, <2>1, <2>4, <2>5, SetupMove, Zenon
<1>4. CASE CheckInstalled(p)
  <2>1. Quiet /\ At(p, "check")
    BY <1>4, QuietUnchanged, Zenon DEF CheckInstalled
  <2>2. procs[p].cmd.kubo = TRUE /\ procs[p] # Idle /\ procs[p].at = "check" /\ procs[p].mem.cfg \in Configs
    BY <1>1, <2>1, KuboAsked, Zenon
  <2>3. CASE Exit(p)
    BY <2>1, <2>2, <2>3, QuietExit, Zenon
  <2>4. CASE Goto(p, "kubo.start", WithBin(p, "managed"))
    <3>1. PICK mem : mem = [procs[p].mem EXCEPT !.cfg = [procs[p].mem.cfg EXCEPT !.bin = "managed"]]
      BY Zenon
    <3>2. procs[p].mem \in Memories /\ Local(p, procs[p])
      BY <2>1, AtFacts, Zenon
    <3>3. [procs[p].mem.cfg EXCEPT !.bin = "managed"] \in Configs
      BY <2>2, Zenon DEF Configs, Bins
    <3>4. /\ mem \in Memories /\ mem.cfg = [procs[p].mem.cfg EXCEPT !.bin = "managed"]
          /\ mem.index = procs[p].mem.index /\ mem.backup = procs[p].mem.backup
      BY <3>1, <3>2, <3>3, Zenon DEF Memories
    <3>5. WithBin(p, "managed") = mem
      BY <3>1, Zenon DEF WithBin, Mem
    <3>6. mem.backup = "absent" /\ Goto(p, "kubo.start", mem)
      BY <2>2, <2>4, <3>2, <3>4, <3>5, Zenon DEF Local, InstallOK
    <3>7. /\ "kubo.start" \in Steps /\ "kubo.start" \notin {"set", "key.write", "key.save"}
          /\ "kubo.start" \notin KeySteps /\ "check" \in SetupSteps
          /\ "kubo.start" \notin {"activate", "aside", "place"} /\ "kubo.start" # "key.account"
      BY Zenon DEF Steps, SetupSteps, KuboSteps, InstallSteps, KeySteps
    <3> QED
      BY <2>1, <2>2, <3>4, <3>6, <3>7, QuietGoto, Zenon
  <2> QED
    BY <1>4, <2>3, <2>4, Zenon DEF CheckInstalled
<1> QED
  BY <1>2, <1>3, <1>4, Zenon

\* Moves from one step of starting Kubo to the next.
LEMMA KuboMoves ==
  ASSUME IInv, NEW p \in Procs, StartKubo(p) \/ InitKubo(p) \/ RunDaemon(p) \/ WaitForKubo(p)
  PROVE  IInv'
<1>1. /\ KuboSteps \subseteq SetupSteps \ {"place", "setup.reload", "setup.save"}
      /\ "setup.save" \in SetupSteps
      /\ \A step \in KuboSteps \cup {"setup.save"} : step \notin {"activate", "aside", "place"}
      /\ "place" \notin KuboSteps
      /\ {"kubo.start", "kubo.init", "kubo.daemon", "kubo.wait"} \subseteq KuboSteps
  BY Zenon DEF SetupSteps, KuboSteps, InstallSteps
<1>2. kubo \in Kubos
  BY Zenon DEF IInv, Typed, SharedTyped
<1>3. PICK at \in KuboSteps : At(p, at)
  BY <1>1, Zenon DEF StartKubo, InitKubo, RunDaemon, WaitForKubo
<1>4. procs[p].cmd.kubo = TRUE /\ procs[p] # Idle /\ procs[p].at # "place"
  BY <1>1, <1>3, KuboAsked, Zenon
<1>5. Quiet
  <2>1. UNCHANGED <<file, index, keyFiles, history>>
    BY Zenon DEF StartKubo, InitKubo, RunDaemon, WaitForKubo
  <2>2. PICK on \in BOOLEAN : kubo' \in {kubo, [kubo EXCEPT !.repo = TRUE], [kubo EXCEPT !.daemon = on]}
    <3>1. CASE RunDaemon(p)
      <4>1. (kubo.daemon \/ Runs(Mem(p).cfg.bin)) \in BOOLEAN
        BY Zenon
      <4>2. kubo' = [kubo EXCEPT !.daemon = kubo.daemon \/ Runs(Mem(p).cfg.bin)]
        BY <3>1, Zenon DEF RunDaemon
      <4> QED
        BY <4>1, <4>2, Zenon
    <3>2. CASE StartKubo(p) \/ WaitForKubo(p)
      BY <3>2, Zenon DEF StartKubo, WaitForKubo
    <3>3. CASE InitKubo(p)
      BY <3>3, Zenon DEF InitKubo
    <3> QED
      BY <3>1, <3>2, <3>3, Zenon
  <2>3. kubo' \in Kubos /\ kubo'.target = kubo.target
    <3>1. CASE kubo' = kubo
      BY <1>2, <3>1, Zenon
    <3>2. CASE kubo' = [kubo EXCEPT !.repo = TRUE]
      BY <1>2, <3>2, Zenon DEF Kubos
    <3>3. CASE kubo' = [kubo EXCEPT !.daemon = on]
      BY <1>2, <2>2, <3>3, Zenon DEF Kubos
    <3> QED
      BY <2>2, <3>1, <3>2, <3>3, Zenon
  <2> QED
    BY <2>1, <2>3, Zenon DEF Quiet
<1>6. Exit(p) \/ \E step \in KuboSteps \cup {"setup.save"} : Goto(p, step, Mem(p))
  <2>1. StartKubo(p) => \E step \in KuboSteps \cup {"setup.save"} : Goto(p, step, Mem(p))
    BY <1>1, Zenon DEF StartKubo
  <2> QED
    BY <1>1, <2>1, Zenon DEF InitKubo, RunDaemon, WaitForKubo
<1>7. CASE Exit(p)
  BY <1>4, <1>5, <1>7, QuietExit, Zenon
<1>8. ASSUME NEW step \in KuboSteps \cup {"setup.save"}, Goto(p, step, Mem(p)) PROVE IInv'
  BY <1>1, <1>3, <1>4, <1>5, <1>8, SetupMove, Zenon
<1> QED
  BY <1>6, <1>7, <1>8, Zenon

-----------------------------------------------------------------------------
(* Steps that save the configuration.                                      *)

\* A save keeps the invariant when what it does not touch is what the process
\* loaded: the others are outdated by it, and the process itself is not.
LEMMA SaveStep ==
  ASSUME IInv, NEW p \in Procs, procs[p] = Idle \/ procs[p].at # "place",
         NEW c \in Configs, Unmixed(c), NEW touched, NEW typed \in SUBSET (Keystores \X Keys),
         Selected(c) \/ <<c.dir, c.key>> \in typed,
         Save(p, c, touched, typed), UNCHANGED <<index, keyFiles, kubo>>,
         history.stale = FALSE /\ p \notin history.outdated =>
            \A f \in Settings \ touched : c[f] = history.wanted[f],
         NEW r \in Running \cup {Idle}, procs' = [procs EXCEPT ![p] = r],
         r # Idle => /\ Unmixed(r.mem.cfg) /\ Placed(r) /\ NamesOK(r) /\ InstallOK(r)
                     /\ r.mem.cfg.network = c.network /\ r.mem.cfg.dir = c.dir
                     /\ r.at # "setup.reload" => r.mem.cfg.key = c.key
                     /\ ~BinPending(r) => r.mem.cfg.bin = c.bin
  PROVE  IInv'
<1>1. index' = index /\ keyFiles' = keyFiles /\ kubo' = kubo /\ file' = FileOf(c)
  BY Zenon DEF Save
<1>2. SharedTyped
  BY Zenon DEF IInv, Typed
<1>3. /\ history' \in Histories
      /\ history'.stale = FALSE => history.stale = FALSE /\ p \notin history.outdated
      /\ history'.outdated = history.outdated \cup (Procs \ {p})
      /\ history'.lost = history.lost /\ history'.typed = history.typed \cup typed
      /\ history'.cut = history.cut /\ history'.installed = history.installed
      /\ \A f \in Settings : history'.wanted[f] = IF f \in touched THEN c[f] ELSE history.wanted[f]
  <2>1. SaveRecorded(p, c, touched, typed)
    BY <1>2, SaveFacts, Zenon
  <2> QED
    BY <2>1, Zenon DEF SaveRecorded
<1>4. history'.stale = FALSE => \A f \in Settings : history'.wanted[f] = c[f]
  BY <1>3, Zenon
<1>5. /\ FileOK' /\ file'.key = c.key /\ file'.dir = c.dir
      /\ Load'["network"] = c.network /\ Load'["dir"] = c.dir
      /\ Load'["key"] = c.key /\ Load'["bin"] = c.bin
  BY <1>1, SavedFile, Zenon
<1>6. DOMAIN history'.wanted = Settings /\ history'.stale \in BOOLEAN
  BY <1>3, Zenon DEF Histories
<1>7. \A d, name : Known(d, name) => Known(d, name)'
  BY <1>1, <1>3, Zenon DEF Known
<1>8. SettingsKept'
  <2>1. SUFFICES ASSUME ~history'.stale, NEW f \in Settings PROVE Load'[f] = history'.wanted[f]
    BY <1>6, Zenon DEF SettingsKept
  <2>2. history'.wanted[f] = c[f]
    BY <1>4, <1>6, <2>1, Zenon
  <2>3. f = "network" \/ f = "dir" \/ f = "key" \/ f = "bin"
    BY Zenon DEF Settings
  <2> QED
    BY <1>5, <2>2, <2>3, Zenon
<1>9. SharedTyped'
  BY <1>1, <1>2, <1>3, Zenon DEF SharedTyped
<1>10. SharedOK'
  <2>1. IndexBacked'
    BY <1>1, Zenon DEF IInv, SharedOK, IndexBacked, Backed
  <2>2. c.key # "" => Known(c.dir, c.key)'
    <3>1. CASE Selected(c)
      BY <1>7, <3>1, Zenon DEF Selected
    <3>2. CASE <<c.dir, c.key>> \in typed
      BY <1>3, <3>2, Zenon DEF Known
    <3> QED
      BY <3>1, <3>2, Zenon
  <2>3. Selected(file)'
    BY <1>5, <2>2, Zenon DEF Selected, Known
  <2> QED
    BY <1>5, <1>8, <2>1, <2>3, Zenon DEF SharedOK
<1>11. Frame(p)
  <2>1. \A q \in Procs \ {p} : q \in history'.outdated
    BY <1>3, Zenon
  <2> QED
    BY <1>1, <1>7, <2>1, Zenon DEF Frame
<1>12. InstallKept'
  BY <1>1, <1>3, InstallStays, Zenon
<1>13. ASSUME r # Idle PROVE Local(p, r)'
  <2>1. Unmixed(r.mem.cfg)' /\ Placed(r)' /\ InstallOK(r)'
    BY <1>13, Zenon
  <2>2. NamesOK(r)'
    <3>1. NamesOK(r)
      BY <1>13, Zenon
    <3> QED
      BY <1>1, <1>7, <3>1, Zenon DEF NamesOK, Selected, Backed
  <2>3. SettingsOK(p, r)'
    <3>1. history'.stale = FALSE => /\ history'.wanted["network"] = c.network
                                    /\ history'.wanted["dir"] = c.dir
                                    /\ history'.wanted["key"] = c.key /\ history'.wanted["bin"] = c.bin
      BY <1>4, Zenon DEF Settings
    <3> QED
      BY <1>13, <3>1, Zenon DEF SettingsOK
  <2> QED
    BY <2>1, <2>2, <2>3, Zenon DEF Local
<1> QED
  BY <1>9, <1>10, <1>11, <1>12, <1>13, Compose, Zenon

\* A process that saves after loading has the wanted settings.
LEMMA LoadedSettings ==
  ASSUME NEW p, NEW r, SettingsOK(p, r), r.at # "setup.reload", ~BinPending(r)
  PROVE  history.stale = FALSE /\ p \notin history.outdated =>
            \A f \in Settings : r.mem.cfg[f] = history.wanted[f]
BY Zenon DEF SettingsOK, Settings

\* The second step of "run": a legacy file is saved in the current form.
LEMMA UpgradeStep ==
  ASSUME IInv, NEW p \in Procs, Upgrade(p) PROVE IInv'
<1>1. /\ At(p, "upgrade") /\ Save(p, Mem(p).cfg, {}, {}) /\ UNCHANGED <<index, keyFiles, kubo>>
      /\ Then(p, FirstStep(Cmd(p)), Mem(p))
  BY Zenon DEF Upgrade
<1>2. /\ procs[p] # Idle /\ procs[p].at = "upgrade" /\ Local(p, procs[p])
      /\ procs[p] \in Running /\ procs[p].mem \in Memories /\ procs[p].cmd \in AllCommands
  BY <1>1, AtFacts, Zenon
<1>3. PICK c : c = procs[p].mem.cfg
  BY Zenon
<1>4. c \in Configs
  BY <1>2, <1>3, Zenon DEF Memories
<1>5. Unmixed(c) /\ Selected(c) /\ {} \in SUBSET (Keystores \X Keys)
  BY <1>2, <1>3, Zenon DEF Local, NamesOK
<1>6. history.stale = FALSE /\ p \notin history.outdated => \A f \in Settings : c[f] = history.wanted[f]
  <2>1. "upgrade" # "setup.reload" /\ "upgrade" \notin KuboSteps \cup {"setup.save"}
    BY Zenon DEF KuboSteps
  <2>2. ~BinPending(procs[p])
    BY <1>2, <2>1, Zenon DEF BinPending
  <2> QED
    BY <1>2, <1>3, <2>1, <2>2, LoadedSettings, Zenon DEF Local
<1>7. Save(p, c, {}, {})
  BY <1>1, <1>3, Zenon DEF Mem
<1>8. CASE FirstStep(Cmd(p)) = "exit"
  <2>1. procs' = [procs EXCEPT ![p] = Idle]
    BY <1>1, <1>8, Zenon DEF Then, Exit
  <2> QED
    BY <1>1, <1>2, <1>4, <1>5, <1>6, <1>7, <2>1, SaveStep, Zenon
<1>9. CASE FirstStep(Cmd(p)) # "exit"
  <2>1. PICK step : step = FirstStep(Cmd(p))
    BY Zenon
  <2>2. Goto(p, step, procs[p].mem)
    BY <1>1, <1>9, <2>1, Zenon DEF Then, Mem
  <2>3. PICK r : r = [at |-> step, cmd |-> procs[p].cmd, mem |-> procs[p].mem]
    BY Zenon
  <2>4. procs' = [procs EXCEPT ![p] = r]
    <3>1. Typed
      BY Zenon DEF IInv
    <3> QED
      BY <1>2, <2>2, <2>3, <3>1, GotoFacts, Zenon
  <2>5. r.at = step /\ r.cmd = procs[p].cmd /\ r.mem = procs[p].mem
    BY <2>3, Zenon
  <2>6. \/ step = "set" /\ procs[p].cmd.op = "set"
        \/ step = "key.index" /\ procs[p].cmd.op = "key"
        \/ step = "setup" /\ procs[p].cmd.op = "setup"
    BY <1>9, <2>1, Zenon DEF FirstStep, Cmd
  <2>7. /\ {"set", "key.index", "setup"} \subseteq Steps
        /\ \A s \in {"set", "key.index", "setup"} :
             /\ s \notin {"key.save", "key.write"} /\ s \notin {"activate", "aside", "place"}
             /\ s \notin KuboSteps \cup InstallSteps
        /\ "set" \notin KeySteps /\ "set" \notin SetupSteps /\ "setup" \notin KeySteps
        /\ "key.index" \notin SetupSteps
    BY Zenon DEF Steps, SetupSteps, KuboSteps, InstallSteps, KeySteps
  <2>8. step \in {"set", "key.index", "setup"}
    BY <2>6, Zenon
  <2>9. r \in Running
    BY <1>2, <2>3, <2>7, <2>8, Zenon DEF Running
  <2>10. Placed(r)
    BY <2>5, <2>6, <2>7, <2>8, Zenon DEF Placed
  <2>11. NamesOK(r) /\ InstallOK(r)
    <3>1. procs[p].mem.backup = "absent"
      BY <1>2, Zenon DEF Local, InstallOK
    <3>2. step # "key.save" /\ step # "key.write"
      BY <2>7, <2>8, Zenon
    <3> QED
      BY <1>2, <2>5, <2>7, <2>8, <3>1, <3>2, Zenon DEF Local, NamesOK, InstallOK
  <2> QED
    BY <1>1, <1>2, <1>3, <1>4, <1>5, <1>6, <1>7, <2>4, <2>5, <2>9, <2>10, <2>11, SaveStep, Zenon
<1> QED
  BY <1>8, <1>9, Zenon

\* What "igit config set" saves is a configuration of one network.
LEMMA SetConfigOK ==
  ASSUME NEW c \in Configs, Unmixed(c), NEW cmd \in ConfigCommands
  PROVE  LET d == SetConfigField(c, cmd.field, cmd.value)
         IN  /\ d \in Configs /\ Unmixed(d)
             /\ \A f \in Settings \ {cmd.field} : d[f] = c[f]
<1> DEFINE d == SetConfigField(c, cmd.field, cmd.value)
<1>1. CASE cmd.field = "network"
  <2>1. cmd.value \in Networks
    BY <1>1, Zenon DEF ConfigCommands, ProfileFields
  <2>2. PICK v : v = cmd.value
    BY Zenon
  <2>3. Profile(v, "evm_rpc") = v /\ Profile(v, "evm_suite_directory_address") = ""
    BY Zenon DEF Profile
  <2>4. PICK e : e = [c EXCEPT !.network = v, !.evm_rpc = v, !.evm_suite_directory_address = ""]
    BY Zenon
  <2>5. d = e
    BY <1>1, <2>2, <2>3, <2>4, Zenon DEF SetConfigField, SelectNetworkProfile, ProfileFields
  <2>6. /\ e.network = v /\ e.evm_rpc = v /\ e.evm_suite_directory_address = ""
        /\ e.dir = c.dir /\ e.key = c.key /\ e.bin = c.bin /\ e \in Configs
    BY <2>1, <2>2, <2>4, Zenon DEF Configs, Values
  <2>7. Unmixed(e)
    BY <2>3, <2>6, Zenon DEF Unmixed, ProfileFields
  <2>8. \A f \in Settings \ {"network"} : e[f] = c[f]
    BY <2>6, Zenon DEF Settings
  <2> HIDE DEF d
  <2> QED
    BY <1>1, <2>5, <2>6, <2>7, <2>8, Zenon DEF d
<1>2. CASE cmd.field \in ProfileFields
  <2>1. cmd.field \in {"evm_rpc", "evm_suite_directory_address"} /\ cmd.field # "network"
    BY <1>2, Zenon DEF ProfileFields
  <2>2. PICK v, g : v = (IF cmd.value = "" THEN "" ELSE Override(c.network)) /\ g = cmd.field
    BY Zenon
  <2>3. v \in {"", Override(c.network)} /\ v \in Values
    BY <2>2, Zenon DEF Configs, Values
  <2>4. PICK e : e = [c EXCEPT ![g] = v]
    BY Zenon
  <2>5. d = e
    <3>1. CASE cmd.value = ""
      BY <1>2, <2>1, <2>2, <2>4, <3>1, Zenon DEF SetConfigField
    <3>2. CASE cmd.value # ""
      BY <1>2, <2>1, <2>2, <2>4, <3>2, Zenon DEF SetConfigField
    <3> QED
      BY <3>1, <3>2, Zenon
  <2>6. /\ e.network = c.network /\ e.dir = c.dir /\ e.key = c.key /\ e.bin = c.bin
        /\ e.evm_rpc \in {c.evm_rpc, v}
        /\ e.evm_suite_directory_address \in {c.evm_suite_directory_address, v} /\ e \in Configs
    <3>1. CASE g = "evm_rpc"
      BY <2>3, <2>4, <3>1, Zenon DEF Configs
    <3>2. CASE g = "evm_suite_directory_address"
      BY <2>3, <2>4, <3>2, Zenon DEF Configs
    <3> QED
      BY <2>1, <2>2, <3>1, <3>2, Zenon
  <2>7. Unmixed(e)
    BY <2>3, <2>6, Zenon DEF Unmixed, ProfileFields
  <2>8. \A f \in Settings : e[f] = c[f]
    BY <2>6, Zenon DEF Settings
  <2> HIDE DEF d
  <2> QED
    BY <2>5, <2>6, <2>7, <2>8, Zenon DEF d
<1>3. CASE cmd.field \in {"dir", "key", "bin"}
  <2>1. PICK v, g : v = cmd.value /\ g = cmd.field
    BY Zenon
  <2>2. /\ g = "dir" => v \in Keystores
        /\ g = "key" => v \in Keys
        /\ g = "bin" => v \in Bins
    BY <1>3, <2>1, Zenon DEF ConfigCommands, ProfileFields, Keys, Bins
  <2>3. PICK e : e = [c EXCEPT ![g] = v]
    BY Zenon
  <2>4. d = e
    <3>1. cmd.field # "network" /\ cmd.field \notin ProfileFields
      BY <1>3, Zenon DEF ProfileFields
    <3> QED
      BY <2>1, <2>3, <3>1, Zenon DEF SetConfigField
  <2>5. /\ e.network = c.network /\ e.evm_rpc = c.evm_rpc
        /\ e.evm_suite_directory_address = c.evm_suite_directory_address /\ e \in Configs
        /\ \A f \in {"dir", "key", "bin"} \ {g} : e[f] = c[f]
    <3>1. CASE g = "dir"
      BY <2>2, <2>3, <3>1, Zenon DEF Configs
    <3>2. CASE g = "key"
      BY <2>2, <2>3, <3>2, Zenon DEF Configs
    <3>3. CASE g = "bin"
      BY <2>2, <2>3, <3>3, Zenon DEF Configs
    <3> QED
      BY <1>3, <2>1, <3>1, <3>2, <3>3, Zenon
  <2>6. Unmixed(e)
    BY <2>5, Zenon DEF Unmixed, ProfileFields
  <2>7. \A f \in Settings \ {g} : e[f] = c[f]
    BY <2>5, Zenon DEF Settings
  <2> HIDE DEF d
  <2> QED
    BY <2>1, <2>4, <2>5, <2>6, <2>7, Zenon DEF d
<1> QED
  BY <1>1, <1>2, <1>3, Zenon DEF ConfigCommands

\* "igit config set" saves what it loaded, with one field changed.
LEMMA CmdConfigSetStep ==
  ASSUME IInv, NEW p \in Procs, CmdConfigSet(p) PROVE IInv'
<1>1. /\ At(p, "set") /\ UNCHANGED <<index, keyFiles, kubo>> /\ Exit(p)
      /\ Save(p, SetConfigField(Mem(p).cfg, Cmd(p).field, Cmd(p).value), {Cmd(p).field},
              TypedSelection(Cmd(p).field, SetConfigField(Mem(p).cfg, Cmd(p).field, Cmd(p).value)))
  BY Zenon DEF CmdConfigSet
<1>2. /\ procs[p] # Idle /\ procs[p].at = "set" /\ Local(p, procs[p])
      /\ procs[p].mem \in Memories /\ procs[p].cmd \in AllCommands
  BY <1>1, AtFacts, Zenon
<1>3. PICK c, cmd, d, typed : /\ c = procs[p].mem.cfg /\ cmd = procs[p].cmd
                              /\ d = SetConfigField(c, cmd.field, cmd.value)
                              /\ typed = TypedSelection(cmd.field, d)
  BY Zenon
<1>4. c \in Configs
  BY <1>2, <1>3, Zenon DEF Memories
<1>5. cmd \in ConfigCommands
  <2>1. cmd.op = "set"
    BY <1>2, <1>3, Zenon DEF Local, Placed
  <2> QED
    BY <1>2, <1>3, <2>1, Zenon DEF AllCommands, KeyCommands, SetupCommands
<1>6. d \in Configs /\ Unmixed(d) /\ \A f \in Settings \ {cmd.field} : d[f] = c[f]
  BY <1>2, <1>3, <1>4, <1>5, SetConfigOK, Zenon DEF Local
<1>7. typed \in SUBSET (Keystores \X Keys)
  <2>1. <<d.dir, d.key>> \in Keystores \X Keys
    BY <1>6 DEF Configs
  <2> QED
    BY <1>3, <2>1, Zenon DEF TypedSelection
<1>8. Selected(d) \/ <<d.dir, d.key>> \in typed
  <2>1. CASE cmd.field \in {"dir", "key"}
    BY <1>3, <2>1, Zenon DEF TypedSelection, Selected, Resolves, Known
  <2>2. CASE cmd.field \notin {"dir", "key"}
    <3>1. d.dir = c.dir /\ d.key = c.key
      BY <1>6, <2>2, Zenon DEF Settings
    <3> QED
      BY <1>2, <1>3, <3>1, Zenon DEF Local, NamesOK, Selected
  <2> QED
    BY <2>1, <2>2, Zenon
<1>9. history.stale = FALSE /\ p \notin history.outdated =>
         \A f \in Settings \ {cmd.field} : d[f] = history.wanted[f]
  <2>1. "set" # "setup.reload" /\ "set" \notin KuboSteps \cup {"setup.save"}
    BY Zenon DEF KuboSteps
  <2>2. ~BinPending(procs[p])
    BY <1>2, <2>1, Zenon DEF BinPending
  <2>3. history.stale = FALSE /\ p \notin history.outdated => \A f \in Settings : c[f] = history.wanted[f]
    BY <1>2, <1>3, <2>1, <2>2, LoadedSettings, Zenon DEF Local
  <2> QED
    BY <1>6, <2>3, Zenon
<1>10. Save(p, d, {cmd.field}, typed) /\ procs' = [procs EXCEPT ![p] = Idle]
  BY <1>1, <1>3, Zenon DEF Mem, Cmd, Exit
<1> QED
  BY <1>1, <1>2, <1>6, <1>7, <1>8, <1>9, <1>10, SaveStep, Zenon

\* Saving the name of the key that was made.
LEMMA KeySaveStep ==
  ASSUME IInv, NEW p \in Procs, KeySave(p) PROVE IInv'
<1>1. /\ At(p, "key.save") /\ UNCHANGED <<index, keyFiles, kubo>>
      /\ Save(p, [Mem(p).cfg EXCEPT !.key = KeyName(p)], {"key"}, {})
      /\ Then(p, IF Cmd(p).op = "setup" THEN "setup.reload" ELSE "exit", Mem(p))
  BY Zenon DEF KeySave
<1>2. /\ procs[p] # Idle /\ procs[p].at = "key.save" /\ Local(p, procs[p])
      /\ procs[p] \in Running /\ procs[p].mem \in Memories /\ procs[p].cmd \in AllCommands
  BY <1>1, AtFacts, Zenon
<1>3. PICK c, name, d : c = procs[p].mem.cfg /\ name = KeyName(p) /\ d = [c EXCEPT !.key = name]
  BY Zenon
<1>4. c \in Configs
  BY <1>2, <1>3, Zenon DEF Memories
<1>5. name \in Names
  <2>1. procs[p].cmd.op = "key" \/ (procs[p].cmd.op = "setup" /\ procs[p].cmd.create \in Names)
    BY <1>2, Zenon DEF Local, Placed, KeySteps
  <2>2. procs[p].cmd.op = "key" => procs[p].cmd.name \in Names
    BY <1>2, Zenon DEF AllCommands, ConfigCommands, KeyCommands, SetupCommands
  <2> QED
    BY <1>3, <2>1, <2>2, Zenon DEF KeyName, Cmd
<1>6. /\ d \in Configs /\ d.dir = c.dir /\ d.key = name /\ d.network = c.network /\ d.bin = c.bin
      /\ d.evm_rpc = c.evm_rpc /\ d.evm_suite_directory_address = c.evm_suite_directory_address
  BY <1>3, <1>4, <1>5, Zenon DEF Configs, Keys
<1>7. Unmixed(c)
  BY <1>2, <1>3, Zenon DEF Local
<1>8. Unmixed(d)
  BY <1>6, <1>7, Zenon DEF Unmixed, ProfileFields
<1>9. Selected(d) /\ {} \in SUBSET (Keystores \X Keys)
  <2>1. Known(c.dir, name)
    BY <1>2, <1>3, Zenon DEF Local, NamesOK, KeyName, Cmd
  <2> QED
    BY <1>6, <2>1, Zenon DEF Selected
<1>10. history.stale = FALSE /\ p \notin history.outdated =>
         \A f \in Settings \ {"key"} : d[f] = history.wanted[f]
  <2>1. "key.save" # "setup.reload" /\ "key.save" \notin KuboSteps \cup {"setup.save"}
    BY Zenon DEF KuboSteps
  <2>2. ~BinPending(procs[p])
    BY <1>2, <2>1, Zenon DEF BinPending
  <2>3. history.stale = FALSE /\ p \notin history.outdated => \A f \in Settings : c[f] = history.wanted[f]
    BY <1>2, <1>3, <2>1, <2>2, LoadedSettings, Zenon DEF Local
  <2>4. \A f \in Settings \ {"key"} : d[f] = c[f]
    BY <1>6, Zenon DEF Settings
  <2> QED
    BY <2>3, <2>4, Zenon
<1>11. Save(p, d, {"key"}, {})
  BY <1>1, <1>3, Zenon DEF Mem
<1>12. CASE procs[p].cmd.op # "setup"
  <2>1. procs' = [procs EXCEPT ![p] = Idle]
    BY <1>1, <1>12, Zenon DEF Then, Exit, Cmd
  <2> QED
    BY <1>1, <1>2, <1>6, <1>8, <1>9, <1>10, <1>11, <2>1, SaveStep, Zenon
<1>13. CASE procs[p].cmd.op = "setup"
  <2>1. Goto(p, "setup.reload", procs[p].mem)
    BY <1>1, <1>13, Zenon DEF Then, Mem, Cmd
  <2>2. PICK r : r = [at |-> "setup.reload", cmd |-> procs[p].cmd, mem |-> procs[p].mem]
    BY Zenon
  <2>3. procs' = [procs EXCEPT ![p] = r]
    <3>1. Typed
      BY Zenon DEF IInv
    <3> QED
      BY <1>2, <2>1, <2>2, <3>1, GotoFacts, Zenon
  <2>4. r.at = "setup.reload" /\ r.cmd = procs[p].cmd /\ r.mem = procs[p].mem
    BY <2>2, Zenon
  <2>5. /\ "setup.reload" \in Steps /\ "setup.reload" \notin KeySteps
        /\ "setup.reload" \notin KuboSteps \cup InstallSteps
        /\ "setup.reload" \notin {"activate", "aside", "place"}
    BY Zenon DEF Steps, SetupSteps, KuboSteps, InstallSteps, KeySteps
  <2>6. r \in Running
    BY <1>2, <2>2, <2>5, Zenon DEF Running
  <2>7. Placed(r)
    BY <1>13, <2>4, <2>5, Zenon DEF Placed
  <2>8. NamesOK(r) /\ InstallOK(r)
    <3>1. procs[p].mem.backup = "absent"
      BY <1>2, Zenon DEF Local, InstallOK
    <3> QED
      BY <1>2, <2>4, <3>1, Zenon DEF Local, NamesOK, InstallOK
  <2>9. /\ Unmixed(r.mem.cfg) /\ r.mem.cfg.network = d.network
        /\ r.mem.cfg.dir = d.dir /\ r.mem.cfg.bin = d.bin
    BY <1>3, <1>6, <1>7, <2>4, Zenon
  <2> QED
    BY <1>1, <1>2, <1>6, <1>8, <1>9, <1>10, <1>11, <2>3, <2>4, <2>6, <2>7, <2>8, <2>9, SaveStep, Zenon
<1> QED
  BY <1>12, <1>13, Zenon

\* The last save of setup, with the Kubo binary that was found or installed.
LEMMA SetupSaveStep ==
  ASSUME IInv, NEW p \in Procs, SetupSave(p) PROVE IInv'
<1>1. /\ At(p, "setup.save") /\ UNCHANGED <<index, keyFiles, kubo>> /\ Goto(p, "doctor", Mem(p))
      /\ Save(p, Mem(p).cfg, IF Cmd(p).kubo THEN {"bin"} ELSE {}, {})
  BY Zenon DEF SetupSave
<1>2. /\ procs[p] # Idle /\ procs[p].at = "setup.save" /\ Local(p, procs[p])
      /\ procs[p] \in Running /\ procs[p].mem \in Memories /\ procs[p].cmd \in AllCommands
  BY <1>1, AtFacts, Zenon
<1>3. PICK c, touched : c = procs[p].mem.cfg /\ touched = IF Cmd(p).kubo THEN {"bin"} ELSE {}
  BY Zenon
<1>4. c \in Configs
  BY <1>2, <1>3, Zenon DEF Memories
<1>5. Unmixed(c) /\ Selected(c) /\ {} \in SUBSET (Keystores \X Keys)
  BY <1>2, <1>3, Zenon DEF Local, NamesOK
<1>6. procs[p].cmd.op = "setup"
  BY <1>2, StepSets, Zenon DEF Local, Placed
<1>7. procs[p].cmd.kubo \in BOOLEAN
  BY <1>2, <1>6, Zenon DEF AllCommands, ConfigCommands, KeyCommands, SetupCommands
<1>8. history.stale = FALSE /\ p \notin history.outdated =>
         \A f \in Settings \ touched : c[f] = history.wanted[f]
  <2>1. SUFFICES ASSUME history.stale = FALSE, p \notin history.outdated, NEW f \in Settings \ touched
                 PROVE  c[f] = history.wanted[f]
    BY Zenon
  <2>2. /\ c.network = history.wanted["network"] /\ c.dir = history.wanted["dir"]
        /\ c.key = history.wanted["key"]
        /\ ~BinPending(procs[p]) => c.bin = history.wanted["bin"]
    <3>1. "setup.save" # "setup.reload"
      BY Zenon
    <3> QED
      BY <1>2, <1>3, <2>1, <3>1, Zenon DEF Local, SettingsOK
  <2>3. BinPending(procs[p]) => f # "bin"
    BY <1>3, <1>7, <2>1, Zenon DEF BinPending, Cmd
  <2>4. f = "network" \/ f = "dir" \/ f = "key" \/ f = "bin"
    BY Zenon DEF Settings
  <2> QED
    BY <2>2, <2>3, <2>4, Zenon
<1>9. Save(p, c, touched, {}) /\ Goto(p, "doctor", procs[p].mem)
  BY <1>1, <1>3, Zenon DEF Mem
<1>10. PICK r : r = [at |-> "doctor", cmd |-> procs[p].cmd, mem |-> procs[p].mem]
  BY Zenon
<1>11. procs' = [procs EXCEPT ![p] = r]
  <2>1. Typed
    BY Zenon DEF IInv
  <2> QED
    BY <1>2, <1>9, <1>10, <2>1, GotoFacts, Zenon
<1>12. r.at = "doctor" /\ r.cmd = procs[p].cmd /\ r.mem = procs[p].mem
  BY <1>10, Zenon
<1>13. /\ "doctor" \in Steps /\ "doctor" \notin KeySteps /\ "doctor" \notin KuboSteps \cup InstallSteps
       /\ "doctor" \notin {"activate", "aside", "place"}
  BY Zenon DEF Steps, SetupSteps, KuboSteps, InstallSteps, KeySteps
<1>14. r \in Running
  BY <1>2, <1>10, <1>13, Zenon DEF Running
<1>15. Placed(r)
  BY <1>6, <1>12, <1>13, Zenon DEF Placed
<1>16. NamesOK(r) /\ InstallOK(r)
  <2>1. procs[p].mem.backup = "absent"
    BY <1>2, Zenon DEF Local, InstallOK
  <2> QED
    BY <1>2, <1>12, <2>1, Zenon DEF Local, NamesOK, InstallOK
<1> QED
  BY <1>1, <1>2, <1>3, <1>4, <1>5, <1>8, <1>9, <1>11, <1>12, <1>14, <1>15, <1>16, SaveStep, Zenon

-----------------------------------------------------------------------------
(* Steps that load the configuration.                                      *)

\* A process that loads the configuration has the settings that the file has.
LEMMA LoadStep ==
  ASSUME IInv, NEW p \in Procs, procs[p] = Idle \/ procs[p].at # "place",
         history' = [history EXCEPT !.outdated = @ \ {p}], UNCHANGED <<file, index, keyFiles, kubo>>,
         NEW r \in Running \cup {Idle}, procs' = [procs EXCEPT ![p] = r],
         r # Idle => /\ r.mem.cfg = Load /\ Placed(r) /\ InstallOK(r) /\ ~BinPending(r)
                     /\ r.at \notin {"key.account", "key.write", "key.save"}
  PROVE  IInv'
<1>1. file' = file /\ index' = index /\ keyFiles' = keyFiles /\ kubo' = kubo
  BY Zenon
<1>2. history \in Histories /\ SharedTyped /\ SharedOK
  BY Zenon DEF IInv, Typed, SharedTyped
<1>3. history.outdated \ {p} \in SUBSET Procs
  BY <1>2, Zenon DEF Histories
<1>4. /\ history' \in Histories /\ history'.outdated = history.outdated \ {p}
      /\ history'.stale = history.stale /\ history'.wanted = history.wanted
      /\ history'.lost = history.lost /\ history'.typed = history.typed /\ history'.cut = history.cut
      /\ history'.installed = history.installed
  BY <1>2, <1>3, Zenon DEF Histories
<1>5. SharedTyped'
  BY <1>1, <1>2, <1>4, Zenon DEF SharedTyped
<1>6. Load' = Load
  BY <1>1, Zenon DEF Load
<1>7. SharedOK'
  <2>1. FileOK' /\ IndexBacked'
    BY <1>1, <1>2, Zenon DEF SharedOK, FileOK, FileNetwork, IndexBacked, Backed
  <2>2. Selected(file)'
    BY <1>1, <1>2, <1>4, Zenon DEF SharedOK, Selected, Known
  <2>3. SettingsKept'
    BY <1>2, <1>4, <1>6, Zenon DEF SharedOK, SettingsKept
  <2> QED
    BY <2>1, <2>2, <2>3, Zenon DEF SharedOK
<1>8. \A d, name : Known(d, name) <=> Known(d, name)'
  BY <1>1, <1>4, Zenon DEF Known
<1>9. Frame(p)
  BY <1>1, <1>4, <1>8, Zenon DEF Frame
<1>10. InstallKept'
  BY <1>1, <1>4, InstallStays, Zenon
<1>11. ASSUME r # Idle PROVE Local(p, r)'
  <2>1. Unmixed(r.mem.cfg)' /\ Placed(r)' /\ InstallOK(r)'
    <3>1. Unmixed(Load)
      BY <1>2, LoadOK, Zenon DEF SharedOK
    <3>2. Unmixed(r.mem.cfg)
      BY <1>11, <3>1, Zenon
    <3> QED
      BY <1>11, <3>2, Zenon
  <2>2. NamesOK(r)'
    <3>1. r.mem.cfg.key = file.key /\ r.mem.cfg.dir = file.dir
      BY <1>2, <1>11, LoadOK, Zenon DEF SharedOK
    <3>2. Selected(r.mem.cfg)
      BY <1>2, <3>1, Zenon DEF SharedOK, Selected
    <3>3. Selected(r.mem.cfg)'
      BY <1>8, <3>2, Zenon DEF Selected
    <3> QED
      BY <1>11, <3>3, Zenon DEF NamesOK
  <2>3. SettingsOK(p, r)'
    <3>1. history.stale = FALSE => /\ Load["network"] = history.wanted["network"]
                                   /\ Load["dir"] = history.wanted["dir"]
                                   /\ Load["key"] = history.wanted["key"]
                                   /\ Load["bin"] = history.wanted["bin"]
      BY <1>2, SettingsSplit, Zenon DEF SharedOK
    <3> QED
      BY <1>4, <1>11, <3>1, Zenon DEF SettingsOK
  <2> QED
    BY <2>1, <2>2, <2>3, Zenon DEF Local
<1> QED
  BY <1>5, <1>7, <1>9, <1>10, <1>11, Compose, Zenon

\* Setup loads what its key command saved.
LEMMA ReloadStep ==
  ASSUME IInv, NEW p \in Procs, Reload(p) PROVE IInv'
<1>1. /\ At(p, "setup.reload") /\ UNCHANGED <<file, index, keyFiles, kubo>>
      /\ Goto(p, "setup.kubo", [Mem(p) EXCEPT !.cfg = Load])
      /\ history' = [history EXCEPT !.outdated = @ \ {p}]
  BY Zenon DEF Reload
<1>2. /\ procs[p] # Idle /\ procs[p].at = "setup.reload" /\ Local(p, procs[p])
      /\ procs[p] \in Running /\ procs[p].mem \in Memories /\ procs[p].cmd \in AllCommands
  BY <1>1, AtFacts, Zenon
<1>3. PICK mem : mem = [procs[p].mem EXCEPT !.cfg = Load]
  BY Zenon
<1>4. Load \in Configs
  BY LoadOK, Zenon DEF IInv, SharedOK
<1>5. /\ mem \in Memories /\ mem.cfg = Load /\ mem.index = procs[p].mem.index
      /\ mem.backup = procs[p].mem.backup
  BY <1>2, <1>3, <1>4, Zenon DEF Memories
<1>6. PICK r : r = [at |-> "setup.kubo", cmd |-> procs[p].cmd, mem |-> mem]
  BY Zenon
<1>7. procs' = [procs EXCEPT ![p] = r]
  <2>1. Typed /\ Goto(p, "setup.kubo", mem)
    BY <1>1, <1>3, Zenon DEF IInv, Mem
  <2> QED
    BY <1>2, <1>6, <2>1, GotoFacts, Zenon
<1>8. r.at = "setup.kubo" /\ r.cmd = procs[p].cmd /\ r.mem = mem
  BY <1>6, Zenon
<1>9. /\ "setup.kubo" \in Steps /\ "setup.kubo" \notin KeySteps
      /\ "setup.kubo" \notin KuboSteps \cup InstallSteps /\ "setup.kubo" \notin KuboSteps \cup {"setup.save"}
      /\ "setup.kubo" \notin {"activate", "aside", "place"} /\ "setup.reload" \in SetupSteps
  BY Zenon DEF Steps, SetupSteps, KuboSteps, InstallSteps, KeySteps
<1>10. r \in Running
  BY <1>2, <1>5, <1>6, <1>9, Zenon DEF Running
<1>11. Placed(r) /\ ~BinPending(r)
  BY <1>2, <1>8, <1>9, Zenon DEF Local, Placed, BinPending
<1>12. InstallOK(r)
  BY <1>2, <1>5, <1>8, <1>9, Zenon DEF Local, InstallOK
<1>13. r.at \notin {"key.account", "key.write", "key.save"}
  BY <1>8, Zenon
<1> QED
  BY <1>1, <1>2, <1>5, <1>7, <1>8, <1>10, <1>11, <1>12, <1>13, LoadStep, Zenon

\* The first step of a command has the kind of the command.
LEMMA FirstSteps ==
  ASSUME NEW c, FirstStep(c) # "exit"
  PROVE  \/ FirstStep(c) = "set" /\ c.op = "set"
         \/ FirstStep(c) = "key.index" /\ c.op = "key"
         \/ FirstStep(c) = "setup" /\ c.op = "setup"
BY Zenon DEF FirstStep

\* What a process has in memory when it starts.
Fresh(c, i) == [cfg |-> c, index |-> i, account |-> 0, archive |-> "", backup |-> "absent"]

\* The memory of a process that starts with a configuration.
LEMMA MemoryOf ==
  ASSUME NEW c \in Configs, NEW i \in IndexMaps
  PROVE  /\ Fresh(c, i) \in Memories /\ Fresh(c, i).cfg = c /\ Fresh(c, i).index = i
         /\ Fresh(c, i).backup = "absent"
BY Zenon DEF Memories, Fresh

\* A new process has nothing in memory but the configuration.
LEMMA NewMemory ==
  ASSUME IInv
  PROVE  \E mem \in Memories : /\ mem = [NoMemory EXCEPT !.cfg = Load]
                               /\ mem.cfg = Load /\ mem.backup = "absent"
<1>1. Load \in Configs
  BY LoadOK, Zenon DEF IInv, SharedOK
<1>2. PICK none : none = <<>>
  BY Zenon
<1>3. none \in IndexMaps /\ DOMAIN none = {}
  <2>1. <<>> \in [{} -> Nat] /\ {} \in SUBSET Names /\ DOMAIN <<>> = {}
    OBVIOUS
  <2> QED
    BY <1>2, <2>1, Zenon DEF IndexMaps
<1>5. PICK c : c = Load
  BY Zenon
<1>6. [NoMemory EXCEPT !.cfg = Load] = Fresh(c, none)
  <2>1. PICK a, r, b : a = 0 /\ r = "" /\ b = "absent"
    BY Zenon
  <2>2. NoMemory = [cfg |-> NoFile, index |-> none, account |-> a, archive |-> r, backup |-> b]
    BY <1>2, <2>1, Zenon DEF NoMemory
  <2>3. Fresh(c, none) = [cfg |-> c, index |-> none, account |-> a, archive |-> r, backup |-> b]
    BY <2>1, Zenon DEF Fresh
  <2>4. [NoMemory EXCEPT !.cfg = c] = [cfg |-> c, index |-> none, account |-> a, archive |-> r, backup |-> b]
    BY <2>2
  <2> QED
    BY <1>5, <2>3, <2>4, Zenon
<1>7. c \in Configs
  BY <1>1, <1>5, Zenon
<1>8. /\ Fresh(c, none) \in Memories /\ Fresh(c, none).cfg = c /\ Fresh(c, none).index = none
      /\ Fresh(c, none).backup = "absent"
  BY <1>3, <1>7, MemoryOf, Zenon
<1> QED
  BY <1>5, <1>6, <1>8, Zenon

\* A process starts a command.
LEMMA RunStep ==
  ASSUME IInv, NEW p \in Procs, NEW c \in AllCommands, Run(p, c)
  PROVE  IInv'
<1>1. PICK step : step = IF file.legacy THEN "upgrade" ELSE FirstStep(c)
  BY Zenon
<1>2. /\ At(p, "idle") /\ history' = [history EXCEPT !.outdated = @ \ {p}]
      /\ UNCHANGED <<file, index, keyFiles, kubo>>
      /\ procs' = [procs EXCEPT ![p] =
                     IF step = "exit" THEN Idle
                     ELSE [at |-> step, cmd |-> c, mem |-> [NoMemory EXCEPT !.cfg = Load]]]
  BY <1>1, Zenon DEF Run
<1>3. procs[p] = Idle
  <2>1. "idle" \notin Steps
    BY Zenon DEF Steps, SetupSteps, KuboSteps, InstallSteps, KeySteps
  <2>2. procs[p] \in Running => procs[p].at \in Steps
    BY Zenon DEF Running
  <2> QED
    BY <1>2, <2>1, <2>2, Zenon DEF IInv, Typed, At
<1>4. CASE step = "exit"
  <2>1. procs' = [procs EXCEPT ![p] = Idle]
    BY <1>2, <1>4, Zenon
  <2> QED
    BY <1>2, <1>3, <2>1, LoadStep, Zenon
<1>5. CASE step # "exit"
  <2>1. PICK mem \in Memories : /\ mem = [NoMemory EXCEPT !.cfg = Load]
                                /\ mem.cfg = Load /\ mem.backup = "absent"
    BY NewMemory, Zenon
  <2>2. mem \in Memories /\ mem.cfg = Load /\ mem.backup = "absent"
    BY <2>1, Zenon
  <2>3. PICK r : r = [at |-> step, cmd |-> c, mem |-> mem]
    BY Zenon
  <2>4. procs' = [procs EXCEPT ![p] = r]
    BY <1>2, <1>5, <2>1, <2>3, Zenon
  <2>5. r.at = step /\ r.cmd = c /\ r.mem = mem
    BY <2>3, Zenon
  <2>6. \/ step = "upgrade"
        \/ step = "set" /\ c.op = "set"
        \/ step = "key.index" /\ c.op = "key"
        \/ step = "setup" /\ c.op = "setup"
    BY <1>1, <1>5, FirstSteps, Zenon
  <2>7. /\ {"upgrade", "set", "key.index", "setup"} \subseteq Steps
        /\ \A s \in {"upgrade", "set", "key.index", "setup"} :
             /\ s \notin {"key.account", "key.write", "key.save"} /\ s \notin {"activate", "aside", "place"}
             /\ s \notin KuboSteps \cup InstallSteps /\ s \notin KuboSteps \cup {"setup.save"}
        /\ "set" \notin KeySteps /\ "set" \notin SetupSteps /\ "setup" \notin KeySteps
        /\ "upgrade" \notin KeySteps /\ "upgrade" \notin SetupSteps /\ "key.index" \notin SetupSteps
    BY Zenon DEF Steps, SetupSteps, KuboSteps, InstallSteps, KeySteps
  <2>8. step \in {"upgrade", "set", "key.index", "setup"}
    BY <2>6, Zenon
  <2>9. r \in Running
    BY <2>2, <2>3, <2>7, <2>8, Zenon DEF Running
  <2>10. Placed(r)
    BY <2>5, <2>6, <2>7, <2>8, Zenon DEF Placed
  <2>11. InstallOK(r) /\ ~BinPending(r) /\ r.at \notin {"key.account", "key.write", "key.save"}
    BY <2>2, <2>5, <2>7, <2>8, Zenon DEF InstallOK, BinPending
  <2> QED
    BY <1>2, <1>3, <2>2, <2>4, <2>5, <2>9, <2>10, <2>11, LoadStep, Zenon
<1> QED
  BY <1>4, <1>5, Zenon

\* A process other than the user's runs any command.
LEMMA OtherRunsStep ==
  ASSUME IInv, NEW p \in Procs, NEW c \in Commands, Run(p, c) PROVE IInv'
<1>1. SetupCommands(Names \cup {""}) = SetupCommands(Keys)
  BY Zenon DEF Keys
<1>2. c \in AllCommands
  BY <1>1, Zenon DEF Commands, AllCommands, KeyCommands
<1> QED
  BY <1>2, RunStep, Zenon

\* The user runs setup again.
LEMMA UserRunsStep ==
  ASSUME IInv, UserRuns PROVE IInv'
<1>1. PICK c \in SetupCommands({SetupKey}) : Run(User, c)
  BY Zenon DEF UserRuns
<1>2. SetupKey \in Names
  BY NamesAssumption, Zenon DEF SetupKey
<1>3. c \in SetupCommands(Keys) /\ c.op = "setup"
  BY <1>2, Zenon DEF SetupCommands, Keys
<1>4. c \in AllCommands /\ User \in Procs
  BY <1>3, Zenon DEF AllCommands, Procs
<1> QED
  BY <1>1, <1>3, <1>4, RunStep, Zenon

\* setup selects a key that is there, and goes on to make one that is not.
LEMMA SetupPushStep ==
  ASSUME IInv, NEW p \in Procs, SetupPush(p) PROVE IInv'
<1>1. At(p, "setup") /\ UNCHANGED <<index, keyFiles, kubo>>
  BY Zenon DEF SetupPush
<1>2. /\ procs[p] # Idle /\ procs[p].at = "setup" /\ Local(p, procs[p])
      /\ procs[p] \in Running /\ procs[p].mem \in Memories /\ procs[p].cmd \in AllCommands
  BY <1>1, AtFacts, Zenon
<1>3. procs[p].cmd.op = "setup"
  BY <1>2, StepSets, Zenon DEF Local, Placed
<1>4. procs[p].cmd.create \in Keys
  BY <1>2, <1>3, Zenon DEF AllCommands, ConfigCommands, KeyCommands, SetupCommands
<1>5. UNCHANGED <<file, history>> => Quiet
  BY <1>1, QuietUnchanged, Zenon
<1>6. CASE Exit(p) /\ UNCHANGED <<file, history>>
  BY <1>2, <1>5, <1>6, QuietExit, Zenon
<1>7. CASE Goto(p, "setup.kubo", Mem(p)) /\ UNCHANGED <<file, history>>
  <2>1. /\ "setup.kubo" \in SetupSteps /\ "setup.kubo" \notin KuboSteps \cup InstallSteps
        /\ "setup.kubo" \notin {"activate", "aside", "place"} /\ "setup" \notin KuboSteps
        /\ "setup" \in SetupSteps \ {"place", "setup.reload", "setup.save"}
    BY Zenon DEF SetupSteps, KuboSteps, InstallSteps
  <2> QED
    BY <1>1, <1>5, <1>7, <2>1, SetupMove, Zenon
<1>8. CASE Goto(p, "key.index", Mem(p)) /\ UNCHANGED <<file, history>> /\ procs[p].cmd.create # ""
  <2>1. procs[p].cmd.create \in Names
    BY <1>4, <1>8, Zenon DEF Keys
  <2>2. procs[p].mem.backup = "absent" /\ Goto(p, "key.index", procs[p].mem)
    BY <1>2, <1>8, Zenon DEF Local, InstallOK, Mem
  <2>3. /\ "key.index" \in Steps /\ "key.index" \notin {"set", "key.write", "key.save"}
        /\ "key.index" \notin SetupSteps /\ "key.index" \notin KuboSteps \cup InstallSteps
        /\ "key.index" \notin {"activate", "aside", "place"} /\ "setup" \notin KuboSteps
    BY Zenon DEF Steps, SetupSteps, KuboSteps, InstallSteps, KeySteps
  <2> QED
    BY <1>2, <1>3, <1>5, <1>8, <2>1, <2>2, <2>3, QuietGoto, Zenon
<1>9. CASE /\ Resolves([Mem(p).cfg EXCEPT !.key = procs[p].cmd.create]) /\ procs[p].cmd.create # ""
           /\ Save(p, [Mem(p).cfg EXCEPT !.key = procs[p].cmd.create], {"key"}, {})
           /\ Goto(p, "setup.kubo", [Mem(p) EXCEPT !.cfg = [Mem(p).cfg EXCEPT !.key = procs[p].cmd.create]])
  <2>1. PICK c, name, d : c = procs[p].mem.cfg /\ name = procs[p].cmd.create /\ d = [c EXCEPT !.key = name]
    BY Zenon
  <2>2. c \in Configs /\ name \in Names
    BY <1>2, <1>4, <1>9, <2>1, Zenon DEF Memories, Keys
  <2>3. /\ d \in Configs /\ d.key = name /\ d.network = c.network /\ d.dir = c.dir /\ d.bin = c.bin
        /\ d.evm_rpc = c.evm_rpc /\ d.evm_suite_directory_address = c.evm_suite_directory_address
    BY <2>1, <2>2, Zenon DEF Configs, Keys
  <2>4. Unmixed(c)
    BY <1>2, <2>1, Zenon DEF Local
  <2>5. Unmixed(d)
    BY <2>3, <2>4, Zenon DEF Unmixed, ProfileFields
  <2>6. Selected(d) /\ {} \in SUBSET (Keystores \X Keys)
    BY <1>9, <2>1, Zenon DEF Selected, Known, Resolves, Mem
  <2>7. history.stale = FALSE /\ p \notin history.outdated =>
           \A f \in Settings \ {"key"} : d[f] = history.wanted[f]
    <3>1. "setup" # "setup.reload" /\ "setup" \notin KuboSteps \cup {"setup.save"}
      BY Zenon DEF KuboSteps
    <3>2. ~BinPending(procs[p])
      BY <1>2, <3>1, Zenon DEF BinPending
    <3>3. history.stale = FALSE /\ p \notin history.outdated => \A f \in Settings : c[f] = history.wanted[f]
      BY <1>2, <2>1, <3>1, <3>2, LoadedSettings, Zenon DEF Local
    <3>4. \A f \in Settings \ {"key"} : d[f] = c[f]
      BY <2>3, Zenon DEF Settings
    <3> QED
      BY <3>3, <3>4, Zenon
  <2>8. PICK mem : mem = [procs[p].mem EXCEPT !.cfg = d]
    BY Zenon
  <2>9. /\ mem \in Memories /\ mem.cfg = d /\ mem.index = procs[p].mem.index
        /\ mem.backup = procs[p].mem.backup
    BY <1>2, <2>3, <2>8, Zenon DEF Memories
  <2>10. Save(p, d, {"key"}, {}) /\ Goto(p, "setup.kubo", mem)
    BY <1>9, <2>1, <2>8, Zenon DEF Mem
  <2>11. PICK r : r = [at |-> "setup.kubo", cmd |-> procs[p].cmd, mem |-> mem]
    BY Zenon
  <2>12. procs' = [procs EXCEPT ![p] = r]
    <3>1. Typed
      BY Zenon DEF IInv
    <3> QED
      BY <1>2, <2>10, <2>11, <3>1, GotoFacts, Zenon
  <2>13. r.at = "setup.kubo" /\ r.cmd = procs[p].cmd /\ r.mem = mem
    BY <2>11, Zenon
  <2>14. /\ "setup.kubo" \in Steps /\ "setup.kubo" \notin KeySteps
         /\ "setup.kubo" \notin KuboSteps \cup InstallSteps
         /\ "setup.kubo" \notin {"activate", "aside", "place"}
    BY Zenon DEF Steps, SetupSteps, KuboSteps, InstallSteps, KeySteps
  <2>15. r \in Running
    BY <1>2, <2>9, <2>11, <2>14, Zenon DEF Running
  <2>16. Placed(r)
    BY <1>3, <2>13, <2>14, Zenon DEF Placed
  <2>17. NamesOK(r) /\ InstallOK(r)
    <3>1. procs[p].mem.backup = "absent"
      BY <1>2, Zenon DEF Local, InstallOK
    <3> QED
      BY <1>2, <2>3, <2>6, <2>9, <2>13, <3>1, Zenon DEF Local, NamesOK, InstallOK
  <2> QED
    BY <1>1, <1>2, <2>3, <2>5, <2>6, <2>7, <2>9, <2>10, <2>12, <2>13, <2>15, <2>16, <2>17, SaveStep, Zenon
<1> QED
  BY <1>6, <1>7, <1>8, <1>9, Zenon DEF SetupPush, Cmd

-----------------------------------------------------------------------------
(* Keys.  The account of a new key is the number of key files.             *)

INSTANCE FiniteSetTheorems

\* Writing a key file adds an account.
LEMMA MakeAccountStep ==
  ASSUME IInv, NEW p \in Procs, MakeAccount(p) PROVE IInv'
<1>1. At(p, "key.account") /\ UNCHANGED <<file, index, kubo, history>>
  BY Zenon DEF MakeAccount
<1>2. /\ procs[p] # Idle /\ procs[p].at = "key.account" /\ Local(p, procs[p])
      /\ procs[p] \in Running /\ procs[p].mem \in Memories /\ procs[p].cmd \in AllCommands
  BY <1>1, AtFacts, Zenon
<1>3. CASE Exit(p) /\ UNCHANGED keyFiles
  <2>1. Quiet
    BY <1>1, <1>3, QuietUnchanged, Zenon
  <2> QED
    BY <1>2, <1>3, <2>1, QuietExit, Zenon
<1>4. CASE /\ keyFiles' = [keyFiles EXCEPT ![KeyDir(p)] = @ \cup {NewAccount(p)}]
           /\ Goto(p, "key.write", [Mem(p) EXCEPT !.account = NewAccount(p)])
  <2>1. PICK a, k, there : a = NewAccount(p) /\ k = procs[p].mem.cfg.dir /\ there = keyFiles[k]
    BY Zenon
  <2>2. /\ keyFiles \in [Keystores -> SUBSET Nat] /\ \A d \in Keystores : IsFiniteSet(keyFiles[d])
        /\ k \in Keystores /\ there \in SUBSET Nat /\ IsFiniteSet(there)
    <3>1. k \in Keystores
      BY <1>2, <2>1, Zenon DEF Memories, Configs
    <3> QED
      BY <2>1, <3>1, Zenon DEF IInv, Typed, SharedTyped
  <2>3. a \in Nat
    <3>1. Cardinality(there) \in Nat
      BY <2>2, FS_CardinalityType, Zenon
    <3>2. a = 0 \/ a = 1 + Cardinality(there)
      BY <2>1, Zenon DEF NewAccount, KeyDir, Mem
    <3> QED
      BY <3>1, <3>2
  <2>4. /\ keyFiles' \in [Keystores -> SUBSET Nat] /\ \A d \in Keystores : IsFiniteSet(keyFiles'[d])
        /\ \A d \in Keystores : keyFiles[d] \subseteq keyFiles'[d]
        /\ a \in keyFiles'[k]
    <3>1. keyFiles' = [keyFiles EXCEPT ![k] = there \cup {a}]
      BY <1>4, <2>1, Zenon DEF KeyDir, Mem
    <3>2. IsFiniteSet(there \cup {a}) /\ there \cup {a} \in SUBSET Nat
      BY <2>2, <2>3, FS_AddElement, Zenon
    <3>3. keyFiles'[k] = there \cup {a} /\ \A d \in Keystores \ {k} : keyFiles'[d] = keyFiles[d]
      BY <2>2, <3>1, Zenon
    <3>4. keyFiles' \in [Keystores -> SUBSET Nat]
      BY <2>2, <3>1, <3>2, Zenon
    <3>5. ASSUME NEW d \in Keystores PROVE IsFiniteSet(keyFiles'[d]) /\ keyFiles[d] \subseteq keyFiles'[d]
      <4>1. CASE d = k
        BY <2>1, <3>2, <3>3, <4>1, Zenon
      <4>2. CASE d # k
        BY <2>2, <3>3, <4>2, Zenon
      <4> QED
        BY <4>1, <4>2, Zenon
    <3> QED
      BY <3>3, <3>4, <3>5, Zenon
  <2>5. PICK mem : mem = [procs[p].mem EXCEPT !.account = a]
    BY Zenon
  <2>6. /\ mem \in Memories /\ mem.account = a /\ mem.cfg = procs[p].mem.cfg
        /\ mem.index = procs[p].mem.index /\ mem.backup = procs[p].mem.backup
    BY <1>2, <2>3, <2>5, Zenon DEF Memories
  <2>7. PICK r : r = [at |-> "key.write", cmd |-> procs[p].cmd, mem |-> mem]
    BY Zenon
  <2>8. procs' = [procs EXCEPT ![p] = r]
    <3>1. Typed /\ Goto(p, "key.write", mem)
      BY <1>4, <2>1, <2>5, Zenon DEF IInv, Mem
    <3> QED
      BY <1>2, <2>7, <3>1, GotoFacts, Zenon
  <2>9. r.at = "key.write" /\ r.cmd = procs[p].cmd /\ r.mem = mem
    BY <2>7, Zenon
  <2>10. /\ "key.write" \in Steps /\ "key.write" \in KeySteps /\ "key.account" \in KeySteps
         /\ "key.write" \notin SetupSteps /\ "key.write" \notin KuboSteps \cup InstallSteps
         /\ "key.write" \notin {"activate", "aside", "place"} /\ "key.account" \notin KuboSteps \cup {"setup.save"}
    BY Zenon DEF Steps, SetupSteps, KuboSteps, InstallSteps, KeySteps
  <2>11. r \in Running
    BY <1>2, <2>6, <2>7, <2>10, Zenon DEF Running
  <2>12. /\ SharedTyped' /\ SharedOK' /\ Frame(p)
    <3>1. file' = file /\ index' = index /\ history' = history /\ kubo' = kubo
      BY <1>1, Zenon
    <3>2. SharedTyped'
      BY <2>4, <3>1, Zenon DEF IInv, Typed, SharedTyped
    <3>3. FileOK' /\ Selected(file)' /\ SettingsKept'
      BY <3>1, Zenon DEF IInv, SharedOK, FileOK, FileNetwork, Selected, Known, SettingsKept, Load
    <3>4. IndexBacked'
      BY <2>4, <3>1, Zenon DEF IInv, SharedOK, IndexBacked, Backed
    <3>5. Frame(p)
      BY <2>4, <3>1, Zenon DEF Frame, Known
    <3> QED
      BY <3>2, <3>3, <3>4, <3>5, Zenon DEF SharedOK
  <2>13. InstallKept'
    BY <1>1, <1>2, <2>8, InstallStays, Zenon
  <2>14. Local(p, r)'
    <3>1. Unmixed(r.mem.cfg)' /\ Placed(r)'
      <4>1. Unmixed(r.mem.cfg) /\ Placed(r)
        BY <1>2, <2>6, <2>9, <2>10, Zenon DEF Local, Placed
      <4> QED
        BY <4>1, Zenon
    <3>2. InstallOK(r)'
      <4>1. InstallOK(r)
        BY <1>2, <2>6, <2>9, <2>10, Zenon DEF Local, InstallOK
      <4> QED
        BY <4>1, Zenon
    <3>3. NamesOK(r)'
      <4>1. r.mem.cfg.dir = k /\ r.mem.index = procs[p].mem.index /\ r.mem.account = a
        BY <2>1, <2>6, <2>9, Zenon
      <4>2. Backed(k, r.mem.index)
        BY <1>2, <2>1, <4>1, Zenon DEF Local, NamesOK
      <4>3. Backed(k, r.mem.index)'
        BY <2>2, <2>4, <4>2, Zenon DEF Backed
      <4>4. Selected(r.mem.cfg)'
        <5>1. index' = index /\ history' = history
          BY <1>1, Zenon
        <5> QED
          BY <1>2, <2>6, <2>9, <5>1, Zenon DEF Local, NamesOK, Selected, Known
      <4> QED
        BY <2>4, <2>9, <4>1, <4>3, <4>4, Zenon DEF NamesOK
    <3>4. SettingsOK(p, r)'
      <4>1. history' = history
        BY <1>1, Zenon
      <4>2. ~BinPending(procs[p])
        BY <1>2, <2>10, Zenon DEF BinPending
      <4> QED
        BY <1>2, <2>6, <2>9, <4>1, <4>2, Zenon DEF Local, SettingsOK
    <3> QED
      BY <3>1, <3>2, <3>3, <3>4, Zenon DEF Local
  <2> QED
    BY <2>8, <2>11, <2>12, <2>13, <2>14, Compose, Zenon
<1> QED
  BY <1>3, <1>4, Zenon DEF MakeAccount

\* Writing the index names the new account, and the names that it drops count as
\* lost.
LEMMA WriteIndexStep ==
  ASSUME IInv, NEW p \in Procs, WriteIndex(p) PROVE IInv'
<1>1. At(p, "key.write") /\ UNCHANGED <<file, keyFiles, kubo>>
  BY Zenon DEF WriteIndex
<1>2. /\ procs[p] # Idle /\ procs[p].at = "key.write" /\ Local(p, procs[p])
      /\ procs[p] \in Running /\ procs[p].mem \in Memories /\ procs[p].cmd \in AllCommands
  BY <1>1, AtFacts, Zenon
<1>3. PICK name, a, i, k : /\ name = KeyName(p) /\ a = procs[p].mem.account
                           /\ i = procs[p].mem.index /\ k = procs[p].mem.cfg.dir
  BY Zenon
<1>4. name \in Names /\ k \in Keystores
  <2>1. "key.write" \in KeySteps
    BY Zenon DEF KeySteps
  <2>2. procs[p].cmd.op = "key" \/ (procs[p].cmd.op = "setup" /\ procs[p].cmd.create \in Names)
    BY <1>2, <2>1, Zenon DEF Local, Placed
  <2>3. procs[p].cmd.op = "key" => procs[p].cmd.name \in Names
    BY <1>2, Zenon DEF AllCommands, ConfigCommands, KeyCommands, SetupCommands
  <2>4. k \in Keystores
    BY <1>2, <1>3, Zenon DEF Memories, Configs
  <2> QED
    BY <1>3, <2>2, <2>3, <2>4, Zenon DEF KeyName, Cmd
<1>5. a \in Nat /\ a \in keyFiles[k] /\ i \in IndexMaps /\ Backed(k, i)
  BY <1>2, <1>3, Zenon DEF Local, NamesOK, Memories
<1>6. /\ index' \in [Keystores -> IndexMaps] /\ DOMAIN index'[k] = {name} \cup DOMAIN i
      /\ \A n \in DOMAIN index'[k] : index'[k][n] \in keyFiles[k]
      /\ \A d \in Keystores \ {k} : index'[d] = index[d]
  <2>1. PICK new : new = [x \in {name} \cup DOMAIN i |-> IF x = name THEN a ELSE i[x]]
    BY Zenon
  <2>2. index' = [index EXCEPT ![k] = new]
    BY <1>3, <2>1, Zenon DEF WriteIndex, Mem, KeyDir
  <2>3. i \in [DOMAIN i -> Nat] /\ DOMAIN i \subseteq Names
    BY <1>5, Zenon DEF IndexMaps
  <2>4. new \in [{name} \cup DOMAIN i -> Nat]
    BY <1>5, <2>1, <2>3, Zenon
  <2>5. new \in IndexMaps
    BY <1>4, <2>3, <2>4, Zenon DEF IndexMaps
  <2>6. \A n \in DOMAIN new : new[n] \in keyFiles[k]
    BY <1>5, <2>1, Zenon DEF Backed
  <2>7. index \in [Keystores -> IndexMaps]
    BY Zenon DEF IInv, Typed, SharedTyped
  <2>8. /\ index' \in [Keystores -> IndexMaps] /\ index'[k] = new
        /\ \A d \in Keystores \ {k} : index'[d] = index[d]
    BY <1>4, <2>2, <2>5, <2>7, Zenon
  <2> QED
    BY <2>4, <2>6, <2>8, Zenon
<1>7. PICK made, lost, typed :
         /\ made = {<<k, name>>}
         /\ lost = (history.lost \cup ({k} \X (DOMAIN index[k] \ DOMAIN i))) \ made
         /\ typed = history.typed \ made
  BY Zenon
<1>8. /\ history' \in Histories /\ history'.lost = lost /\ history'.typed = typed
      /\ history'.stale = history.stale /\ history'.outdated = history.outdated
      /\ history'.wanted = history.wanted
      /\ history'.cut = history.cut /\ history'.installed = history.installed
  <2>1. history \in Histories /\ DOMAIN index[k] \subseteq Keys
    <3>1. history \in Histories /\ index[k] \in IndexMaps
      BY <1>4, Zenon DEF IInv, Typed, SharedTyped
    <3>2. DOMAIN index[k] \subseteq Names
      BY <3>1, Zenon DEF IndexMaps
    <3> QED
      BY <3>1, <3>2, Zenon DEF Keys
  <2>2. {k} \X (DOMAIN index[k] \ DOMAIN i) \subseteq Keystores \X Keys
    BY <1>4, <2>1
  <2>3. lost \in SUBSET (Keystores \X Keys) /\ typed \in SUBSET (Keystores \X Keys)
    BY <1>7, <2>1, <2>2, Zenon DEF Histories
  <2>4. history' = [history EXCEPT !.lost = lost, !.typed = typed]
    BY <1>3, <1>7, Zenon DEF WriteIndex, Mem, KeyDir
  <2> QED
    BY <2>1, <2>3, <2>4, Zenon DEF Histories
<1>9. \A d \in Keystores : \A n : Known(d, n) => Known(d, n)'
  <2>1. ASSUME NEW d \in Keystores, NEW n, Known(d, n) PROVE Known(d, n)'
    <3>1. CASE d = k /\ n = name
      BY <1>6, <3>1, Zenon DEF Known
    <3>2. CASE ~(d = k /\ n = name)
      <4>1. <<d, n>> \notin made
        BY <1>7, <3>2
      <4>2. CASE <<d, n>> \in history.lost \/ <<d, n>> \in history.typed
        BY <1>7, <1>8, <4>1, <4>2, Zenon DEF Known
      <4>3. CASE n \in DOMAIN index[d] /\ d # k
        BY <1>6, <4>3, Zenon DEF Known
      <4>4. CASE n \in DOMAIN index[d] /\ d = k
        <5>1. CASE n \in DOMAIN i
          BY <1>6, <4>4, <5>1, Zenon DEF Known
        <5>2. CASE n \notin DOMAIN i
          <6>1. <<d, n>> \in {k} \X (DOMAIN index[k] \ DOMAIN i)
            BY <4>4, <5>2
          <6> QED
            BY <1>7, <1>8, <4>1, <6>1, Zenon DEF Known
        <5> QED
          BY <5>1, <5>2, Zenon
      <4> QED
        BY <2>1, <4>2, <4>3, <4>4, Zenon DEF Known
    <3> QED
      BY <3>1, <3>2, Zenon
  <2> QED
    BY <2>1, Zenon
<1>10. Known(k, name)'
  BY <1>6, Zenon DEF Known
<1>11. PICK none, zero : none = <<>> /\ zero = 0
  BY Zenon
<1>12. none \in IndexMaps /\ DOMAIN none = {} /\ zero \in Nat
  BY <1>11 DEF IndexMaps
<1>13. PICK m1 : m1 = [procs[p].mem EXCEPT !.index = none]
  BY Zenon
<1>14. PICK mem : mem = [m1 EXCEPT !.account = zero]
  BY Zenon
<1>15. m1 \in Memories /\ m1.cfg = procs[p].mem.cfg /\ m1.index = none /\ m1.backup = procs[p].mem.backup
  BY <1>2, <1>12, <1>13, Zenon DEF Memories
<1>16. mem \in Memories /\ mem.cfg = procs[p].mem.cfg /\ mem.index = none /\ mem.backup = procs[p].mem.backup
  BY <1>12, <1>14, <1>15, Zenon DEF Memories
<1>17. PICK r : r = [at |-> "key.save", cmd |-> procs[p].cmd, mem |-> mem]
  BY Zenon
<1>18. procs' = [procs EXCEPT ![p] = r]
  <2>1. Typed /\ Goto(p, "key.save", mem)
    BY <1>11, <1>13, <1>14, Zenon DEF IInv, WriteIndex, Mem
  <2> QED
    BY <1>2, <1>17, <2>1, GotoFacts, Zenon
<1>19. r.at = "key.save" /\ r.cmd = procs[p].cmd /\ r.mem = mem
  BY <1>17, Zenon
<1>20. /\ "key.save" \in Steps /\ "key.save" \in KeySteps /\ "key.write" \in KeySteps
       /\ "key.save" \notin SetupSteps /\ "key.save" \notin KuboSteps \cup InstallSteps
       /\ "key.save" \notin {"activate", "aside", "place"} /\ "key.write" \notin KuboSteps \cup {"setup.save"}
  BY Zenon DEF Steps, SetupSteps, KuboSteps, InstallSteps, KeySteps
<1>21. r \in Running
  BY <1>2, <1>16, <1>17, <1>20, Zenon DEF Running
<1>22. SharedTyped' /\ SharedOK' /\ Frame(p)
  <2>1. file' = file /\ keyFiles' = keyFiles /\ kubo' = kubo
    BY <1>1, Zenon
  <2>2. SharedTyped'
    BY <1>6, <1>8, <2>1, Zenon DEF IInv, Typed, SharedTyped
  <2>3. FileOK' /\ SettingsKept'
    BY <1>8, <2>1 DEF IInv, SharedOK, FileOK, FileNetwork, SettingsKept, Load
  <2>4. Selected(file)'
    <3>1. PICK key, dir : key = file.key /\ dir = file.dir
      BY Zenon
    <3>2. dir \in Keystores
      BY <3>1, Zenon DEF IInv, SharedOK, FileOK
    <3>3. key # "" => Known(dir, key)'
      BY <1>9, <3>1, <3>2, Zenon DEF IInv, SharedOK, Selected
    <3> QED
      BY <2>1, <3>1, <3>3, Zenon DEF Selected, Known
  <2>5. IndexBacked'
    <3>1. ASSUME NEW d \in Keystores PROVE Backed(d, index[d])'
      <4>1. CASE d = k
        BY <1>6, <2>1, <4>1, Zenon DEF Backed
      <4>2. CASE d # k
        BY <1>6, <2>1, <4>2, Zenon DEF Backed, IInv, SharedOK, IndexBacked
      <4> QED
        BY <4>1, <4>2, Zenon
    <3> QED
      BY <3>1, Zenon DEF IndexBacked
  <2>6. Frame(p)
    BY <1>8, <1>9, <2>1, Zenon DEF Frame
  <2> QED
    BY <2>2, <2>3, <2>4, <2>5, <2>6, Zenon DEF SharedOK
<1>23. InstallKept'
  BY <1>1, <1>2, <1>8, <1>18, InstallStays, Zenon
<1>24. Local(p, r)'
  <2>1. Unmixed(r.mem.cfg)' /\ Placed(r)'
    <3>1. Unmixed(r.mem.cfg) /\ Placed(r)
      BY <1>2, <1>16, <1>19, <1>20, Zenon DEF Local, Placed
    <3> QED
      BY <3>1, Zenon
  <2>2. InstallOK(r)'
    <3>1. InstallOK(r)
      BY <1>2, <1>16, <1>19, <1>20, Zenon DEF Local, InstallOK
    <3> QED
      BY <3>1, Zenon
  <2>3. NamesOK(r)'
    <3>1. Selected(r.mem.cfg)'
      BY <1>2, <1>3, <1>4, <1>9, <1>16, <1>19, Zenon DEF Local, NamesOK, Selected
    <3>2. name = IF r.cmd.op = "setup" THEN r.cmd.create ELSE r.cmd.name
      BY <1>3, <1>19, Zenon DEF KeyName, Cmd
    <3> QED
      BY <1>3, <1>10, <1>16, <1>19, <3>1, <3>2, Zenon DEF NamesOK
  <2>4. SettingsOK(p, r)'
    <3>1. ~BinPending(procs[p])
      BY <1>2, <1>20, Zenon DEF BinPending
    <3> QED
      BY <1>2, <1>8, <1>16, <1>19, <3>1, Zenon DEF Local, SettingsOK
  <2> QED
    BY <2>1, <2>2, <2>3, <2>4, Zenon DEF Local
<1> QED
  BY <1>18, <1>21, <1>22, <1>23, <1>24, Compose, Zenon

\* The end of a setup.
LEMMA FinishSetupStep ==
  ASSUME IInv, NEW p \in Procs, FinishSetup(p) PROVE IInv'
<1>1. At(p, "doctor") /\ Exit(p) /\ UNCHANGED <<file, index, keyFiles, kubo, history>>
  BY Zenon DEF FinishSetup
<1>2. procs[p].at = "doctor"
  BY <1>1, Zenon DEF At
<1>3. Quiet
  BY <1>1, QuietUnchanged, Zenon
<1> QED
  BY <1>1, <1>2, <1>3, QuietExit, Zenon

-----------------------------------------------------------------------------
(* Replacing the managed installation.                                     *)

\* A step that writes neither the configuration nor the keystore, and forgets
\* nothing about them.
Still ==
  /\ UNCHANGED <<file, index, keyFiles>> /\ kubo' \in Kubos /\ history' \in Histories
  /\ history'.stale = history.stale /\ history'.outdated = history.outdated
  /\ history'.wanted = history.wanted /\ history'.lost = history.lost /\ history'.typed = history.typed

\* Such a step leaves the shared files and the other processes in order.
LEMMA StillShared ==
  ASSUME IInv, NEW p \in Procs, Still
  PROVE  SharedTyped' /\ SharedOK' /\ Frame(p)
<1>1. /\ file' = file /\ index' = index /\ keyFiles' = keyFiles /\ kubo' \in Kubos /\ history' \in Histories
      /\ history'.stale = history.stale /\ history'.outdated = history.outdated
      /\ history'.wanted = history.wanted /\ history'.lost = history.lost /\ history'.typed = history.typed
  BY Zenon DEF Still
<1>2. SharedTyped'
  BY <1>1, Zenon DEF IInv, Typed, SharedTyped
<1>3. FileOK' /\ IndexBacked' /\ Selected(file)'
  BY <1>1, Zenon DEF IInv, SharedOK, FileOK, FileNetwork, IndexBacked, Backed, Selected, Known
<1>4. SettingsKept'
  BY <1>1, Zenon DEF IInv, SharedOK, SettingsKept, Load
<1>5. Frame(p)
  BY <1>1, Zenon DEF Frame, Known
<1> QED
  BY <1>2, <1>3, <1>4, <1>5, Zenon DEF SharedOK

\* A process that goes on to another step of an installation keeps what holds of it.
LEMMA InstallLocal ==
  ASSUME IInv, NEW p \in Procs, procs[p] # Idle, procs[p].at \in {"aside", "place"}, Still,
         NEW step \in {"place", "wrap"}, NEW mem \in Memories, Goto(p, step, mem),
         mem.cfg = procs[p].mem.cfg, mem.index = procs[p].mem.index,
         step = "place" => mem.archive = "good", mem.backup # "absent" => step = "place",
         InstallKept'
  PROVE  IInv'
<1>0. PICK r : r = [at |-> step, cmd |-> procs[p].cmd, mem |-> mem]
  BY Zenon
<1>1. r.at = step /\ r.cmd = procs[p].cmd /\ r.mem = mem
  BY <1>0, Zenon
<1>2. procs[p] \in Running /\ procs' = [procs EXCEPT ![p] = r]
  <2>1. Typed
    BY Zenon DEF IInv
  <2> QED
    BY <1>0, <2>1, GotoFacts, Zenon
<1>3. /\ step \in Steps /\ step \notin KeySteps /\ step # "set"
      /\ step \in SetupSteps /\ step \in InstallSteps /\ step \notin KuboSteps \cup {"setup.save"}
      /\ procs[p].at \in SetupSteps /\ procs[p].at \in InstallSteps
      /\ procs[p].at \notin KuboSteps \cup {"setup.save"} /\ procs[p].at # "setup.reload"
  BY Zenon DEF Steps, SetupSteps, KuboSteps, InstallSteps, KeySteps
<1>4. r \in Running
  BY <1>0, <1>2, <1>3, Zenon DEF Running
<1>5. Local(p, procs[p])
  BY Zenon DEF IInv
<1>6. Local(p, r)'
  <2>1. Unmixed(r.mem.cfg)' /\ Placed(r)'
    <3>1. Unmixed(r.mem.cfg) /\ Placed(r)
      BY <1>1, <1>3, <1>5, Zenon DEF Local, Placed
    <3> QED
      BY <3>1, Zenon
  <2>2. InstallOK(r)'
    <3>1. InstallOK(r)
      BY <1>1, Zenon DEF InstallOK
    <3> QED
      BY <3>1, Zenon
  <2>3. NamesOK(r)'
    <3>1. index' = index /\ history'.lost = history.lost /\ history'.typed = history.typed
      BY Zenon DEF Still
    <3>2. Selected(r.mem.cfg)'
      BY <1>1, <1>5, <3>1, Zenon DEF Local, NamesOK, Selected, Known
    <3>3. step \notin {"key.account", "key.write", "key.save"}
      BY Zenon
    <3> QED
      BY <1>1, <3>2, <3>3, Zenon DEF NamesOK
  <2>4. SettingsOK(p, r)'
    <3>1. /\ history'.stale = history.stale /\ history'.outdated = history.outdated
          /\ history'.wanted = history.wanted
      BY Zenon DEF Still
    <3>2. ~BinPending(procs[p])
      BY <1>3, Zenon DEF BinPending
    <3> QED
      BY <1>1, <1>3, <1>5, <3>1, <3>2, Zenon DEF Local, SettingsOK
  <2> QED
    BY <2>1, <2>2, <2>3, <2>4, Zenon DEF Local
<1> QED
  BY <1>2, <1>4, <1>6, StillShared, Compose, Zenon

\* Moving an installation aside leaves its backup with the process.
LEMMA MoveAsideStep ==
  ASSUME IInv, NEW p \in Procs, MoveAside(p) PROVE IInv'
<1>1. At(p, "aside") /\ UNCHANGED <<file, index, keyFiles, history>>
  BY Zenon DEF MoveAside
<1>2. /\ procs[p] # Idle /\ procs[p].at = "aside" /\ Local(p, procs[p])
      /\ procs[p] \in Running /\ procs[p].mem \in Memories
  BY <1>1, AtFacts, Zenon
<1>3. kubo \in Kubos /\ history \in Histories
  BY Zenon DEF IInv, Typed, SharedTyped
<1>4. CASE Exit(p) /\ UNCHANGED kubo
  <2>1. Quiet
    BY <1>1, <1>4, QuietUnchanged, Zenon
  <2> QED
    BY <1>2, <1>4, <2>1, QuietExit, Zenon
<1>5. CASE /\ kubo.target # "absent"
           /\ Goto(p, "place", [Mem(p) EXCEPT !.backup = kubo.target])
           /\ kubo' = [kubo EXCEPT !.target = "absent"]
  <2>1. PICK t, none : t = kubo.target /\ none = "absent"
    BY Zenon
  <2>2. t \in {"absent", "good"} /\ none \in {"absent", "good"} /\ t # "absent"
    BY <1>3, <1>5, <2>1, Zenon DEF Kubos
  <2>3. kubo' = [kubo EXCEPT !.target = none]
    BY <1>5, <2>1, Zenon
  <2>4. kubo' \in Kubos /\ kubo'.target = none
    BY <1>3, <2>2, <2>3, Zenon DEF Kubos
  <2>5. PICK mem : mem = [procs[p].mem EXCEPT !.backup = t]
    BY Zenon
  <2>6. /\ mem \in Memories /\ mem.cfg = procs[p].mem.cfg /\ mem.index = procs[p].mem.index
        /\ mem.archive = procs[p].mem.archive /\ mem.backup = t
    BY <1>2, <2>2, <2>5, Zenon DEF Memories
  <2>7. Goto(p, "place", mem)
    BY <1>5, <2>1, <2>5, Zenon DEF Mem
  <2>8. Still
    BY <1>1, <1>3, <2>4, Zenon DEF Still
  <2>9. InstallKept'
    <3>1. procs'[p].mem = mem
      <4>1. PICK r : r = [at |-> "place", cmd |-> procs[p].cmd, mem |-> mem]
        BY Zenon
      <4>2. Typed
        BY Zenon DEF IInv
      <4>3. procs' = [procs EXCEPT ![p] = r]
        BY <1>2, <2>7, <4>1, <4>2, GotoFacts, Zenon
      <4>4. r.mem = mem
        BY <4>1, Zenon
      <4> QED
        BY <4>2, <4>3, <4>4, Zenon DEF Typed
    <3>2. ~ \A q \in Procs : procs'[q].mem.backup = "absent"
      BY <2>2, <2>6, <3>1, Zenon
    <3> QED
      BY <2>2, <2>4, <3>2, Zenon DEF InstallKept, Mem
  <2>10. mem.archive = "good"
    BY <1>2, <2>6, Zenon DEF Local, InstallOK
  <2> QED
    BY <1>2, <2>6, <2>7, <2>8, <2>9, <2>10, InstallLocal, Zenon
<1> QED
  BY <1>4, <1>5, Zenon DEF MoveAside

\* A process that ends while the installation is kept.
LEMMA StillExit ==
  ASSUME IInv, NEW p \in Procs, Exit(p), Still, InstallKept'
  PROVE  IInv'
  BY StillShared, Compose, Zenon DEF Exit

\* Placing the verified archive makes it the installation.
LEMMA PlaceStep ==
  ASSUME IInv, NEW p \in Procs, Place(p) PROVE IInv'
<1>1. At(p, "place") /\ UNCHANGED <<file, index, keyFiles>>
  BY Zenon DEF Place
<1>2. /\ procs[p] # Idle /\ procs[p].at = "place" /\ Local(p, procs[p])
      /\ procs[p] \in Running /\ procs[p].mem \in Memories
  BY <1>1, AtFacts, Zenon
<1>3. kubo \in Kubos /\ history \in Histories
  BY Zenon DEF IInv, Typed, SharedTyped
<1>4. CASE kubo.target # "absent" /\ Exit(p) /\ UNCHANGED <<kubo, history>>
  <2>1. Still
    BY <1>1, <1>3, <1>4, Zenon DEF Still
  <2>2. InstallKept'
    BY <1>4, Zenon DEF IInv, InstallKept
  <2> QED
    BY <1>4, <2>1, <2>2, StillExit, Zenon
<1>5. CASE /\ Goto(p, "wrap", [Mem(p) EXCEPT !.archive = "", !.backup = "absent"])
           /\ kubo' = [kubo EXCEPT !.target = Mem(p).archive]
           /\ history' = [history EXCEPT !.installed = TRUE]
  <2>1. PICK a, e, none, yes : a = procs[p].mem.archive /\ e = "" /\ none = "absent" /\ yes = TRUE
    BY Zenon
  <2>2. a = "good" /\ a # "absent" /\ e \in {"", "good"} /\ none \in {"absent", "good"} /\ yes \in BOOLEAN
    BY <1>2, <2>1, Zenon DEF Local, InstallOK
  <2>3. kubo' = [kubo EXCEPT !.target = a] /\ history' = [history EXCEPT !.installed = yes]
    BY <1>5, <2>1, Zenon DEF Mem
  <2>4. kubo' \in Kubos /\ kubo'.target = a
    BY <1>3, <2>2, <2>3, Zenon DEF Kubos
  <2>5. /\ history' \in Histories /\ history'.lost = history.lost /\ history'.typed = history.typed
        /\ history'.stale = history.stale /\ history'.outdated = history.outdated
        /\ history'.wanted = history.wanted
    BY <1>3, <2>2, <2>3, Zenon DEF Histories
  <2>6. PICK m1 : m1 = [procs[p].mem EXCEPT !.archive = e]
    BY Zenon
  <2>7. PICK mem : mem = [m1 EXCEPT !.backup = none]
    BY Zenon
  <2>8. m1 \in Memories /\ m1.cfg = procs[p].mem.cfg /\ m1.index = procs[p].mem.index
    BY <1>2, <2>2, <2>6, Zenon DEF Memories
  <2>9. /\ mem \in Memories /\ mem.cfg = procs[p].mem.cfg /\ mem.index = procs[p].mem.index
        /\ mem.backup = none
    BY <2>2, <2>7, <2>8, Zenon DEF Memories
  <2>10. Goto(p, "wrap", mem)
    BY <1>5, <2>1, <2>6, <2>7, Zenon DEF Mem
  <2>11. Still
    BY <1>1, <2>4, <2>5, Zenon DEF Still
  <2>12. InstallKept'
    BY <2>2, <2>4, Zenon DEF InstallKept
  <2> QED
    BY <1>2, <2>1, <2>9, <2>10, <2>11, <2>12, InstallLocal, Zenon
<1> QED
  BY <1>4, <1>5, Zenon DEF Place

\* When placing it fails, the backup is put back.
LEMMA PlaceFailsStep ==
  ASSUME IInv, NEW p \in Procs, PlaceFails(p) PROVE IInv'
<1>1. At(p, "place") /\ Exit(p) /\ UNCHANGED <<file, index, keyFiles, history>>
  BY Zenon DEF PlaceFails
<1>2. procs[p] \in Running /\ procs[p].mem \in Memories
  BY <1>1, AtFacts, Zenon
<1>3. kubo \in Kubos /\ history \in Histories
  BY Zenon DEF IInv, Typed, SharedTyped
<1>4. PICK b : b = procs[p].mem.backup
  BY Zenon
<1>5. b \in {"absent", "good"}
  BY <1>2, <1>4, Zenon DEF Memories
<1>6. kubo' = IF kubo.target = "absent" THEN [kubo EXCEPT !.target = b] ELSE kubo
  BY <1>4, Zenon DEF PlaceFails, Mem
<1>7. kubo' \in Kubos /\ kubo'.target = (IF kubo.target = "absent" THEN b ELSE kubo.target)
  BY <1>3, <1>5, <1>6, Zenon DEF Kubos
<1>8. Still
  BY <1>1, <1>3, <1>7, Zenon DEF Still
<1>9. InstallKept'
  <2>1. \A q \in Procs \ {p} : procs'[q] = procs[q]
    BY <1>1, Zenon DEF Exit, IInv, Typed
  <2>2. CASE b = "absent"
    <3>1. (\A q \in Procs : procs'[q].mem.backup = "absent") => \A q \in Procs : procs[q].mem.backup = "absent"
      BY <1>4, <2>1, <2>2, Zenon
    <3>2. kubo'.target = kubo.target
      BY <1>7, <2>2, Zenon
    <3> QED
      BY <1>1, <3>1, <3>2, Zenon DEF IInv, InstallKept, Mem
  <2>3. CASE b = "good"
    <3>1. kubo'.target # "absent" /\ kubo'.target \in {"absent", "good"}
      BY <1>3, <1>7, <2>3, Zenon DEF Kubos
    <3> QED
      BY <3>1, Zenon DEF InstallKept
  <2> QED
    BY <1>5, <2>2, <2>3, Zenon
<1> QED
  BY <1>1, <1>8, <1>9, StillExit, Zenon

\* A process that is stopped between the two renames takes its backup with it.
LEMMA StopsStep ==
  ASSUME IInv, NEW p \in Procs, Stops(p) PROVE IInv'
<1>1. Exit(p) /\ UNCHANGED <<file, index, keyFiles, kubo>>
  BY Zenon DEF Stops
<1>2. kubo \in Kubos /\ history \in Histories
  BY Zenon DEF IInv, Typed, SharedTyped
<1>3. PICK cut : cut = (history.cut \/ procs[p].mem.backup # "absent")
  BY Zenon
<1>4. cut \in BOOLEAN
  BY <1>3, Zenon
<1>5. history' = [history EXCEPT !.cut = cut]
  BY <1>3, Zenon DEF Stops, Mem
<1>6. /\ history' \in Histories /\ history'.lost = history.lost /\ history'.typed = history.typed
      /\ history'.stale = history.stale /\ history'.outdated = history.outdated
      /\ history'.wanted = history.wanted /\ history'.cut = cut /\ history'.installed = history.installed
  BY <1>2, <1>4, <1>5, Zenon DEF Histories
<1>7. Still
  BY <1>1, <1>2, <1>6, Zenon DEF Still
<1>8. InstallKept'
  <2>1. \A q \in Procs \ {p} : procs'[q] = procs[q]
    BY <1>1, Zenon DEF Exit, IInv, Typed
  <2>2. CASE procs[p].mem.backup = "absent"
    <3>1. (\A q \in Procs : procs'[q].mem.backup = "absent") => \A q \in Procs : procs[q].mem.backup = "absent"
      BY <2>1, <2>2, Zenon
    <3>2. ~history'.cut => ~history.cut
      BY <1>3, <1>6, Zenon
    <3> QED
      BY <1>1, <1>6, <3>1, <3>2, Zenon DEF IInv, InstallKept, Mem
  <2>3. CASE procs[p].mem.backup # "absent"
    <3>1. history'.cut
      BY <1>3, <1>6, <2>3, Zenon
    <3> QED
      BY <1>1, <3>1, Zenon DEF IInv, InstallKept
  <2> QED
    BY <2>2, <2>3, Zenon
<1> QED
  BY <1>1, <1>7, <1>8, StillExit, Zenon

\* When no process moves, and the files are those that were there, all stays.
LEMMA NobodyMoves ==
  ASSUME IInv, UNCHANGED <<file, index, keyFiles, procs, history>>,
         kubo' \in Kubos, kubo'.target = kubo.target
  PROVE  IInv'
<1>1. procs' = procs /\ history' = history /\ index' = index /\ keyFiles' = keyFiles
  BY Zenon
<1>2. User \in Procs /\ Quiet
  BY Zenon DEF Procs, Quiet
<1>3. SharedTyped' /\ SharedOK'
  BY <1>2, QuietShared, Zenon
<1>4. InstallKept'
  BY <1>1, Zenon DEF IInv, InstallKept, Mem
<1>5. ASSUME NEW q \in Procs, procs'[q] # Idle PROVE Local(q, procs[q])'
  <2>1. PICK s : s = procs[q]
    BY Zenon
  <2>2. Local(q, s)
    BY <1>1, <1>5, <2>1, Zenon DEF IInv
  <2>3. Local(q, s)'
    BY <1>1, <2>2, Zenon DEF Local, NamesOK, Selected, Known, Backed, SettingsOK
  <2> QED
    BY <1>1, <2>1, <2>3, LocalPrimed, Zenon
<1> QED
  BY <1>1, <1>3, <1>4, <1>5, Zenon DEF IInv, Typed

\* The daemon stops.
LEMMA DaemonStopsStep ==
  ASSUME IInv, DaemonStops PROVE IInv'
<1>1. kubo \in Kubos
  BY Zenon DEF IInv, Typed, SharedTyped
<1>2. UNCHANGED <<file, index, keyFiles, procs, history>> /\ kubo' = [kubo EXCEPT !.daemon = FALSE]
  BY Zenon DEF DaemonStops
<1>3. kubo' \in Kubos /\ kubo'.target = kubo.target
  BY <1>1, <1>2, Zenon DEF Kubos
<1> QED
  BY <1>2, <1>3, NobodyMoves, Zenon

-----------------------------------------------------------------------------
(* The initial states.                                                     *)

Accounts(i) == {i[name] : name \in DOMAIN i}

\* A keystore with one key or none is in order.
LEMMA InitKeystore ==
  ASSUME Init
  PROVE  /\ index \in [Keystores -> IndexMaps] /\ keyFiles \in [Keystores -> SUBSET Nat]
         /\ (\A d \in Keystores : IsFiniteSet(keyFiles[d])) /\ IndexBacked
         /\ DOMAIN index[""] \subseteq Names
<1>1. PICK first \in {<<>>} \cup {[n \in {name} |-> 1] : name \in Names \ {SetupKey}} :
        index = [d \in Keystores |-> IF d = "" THEN first ELSE <<>>]
  BY Zenon DEF Init
<1>2. keyFiles = [d \in Keystores |-> {index[d][name] : name \in DOMAIN index[d]}]
  BY Zenon DEF Init
<1>3. <<>> \in IndexMaps /\ Accounts(<<>>) \in SUBSET Nat /\ IsFiniteSet(Accounts(<<>>))
  <2>1. DOMAIN <<>> = {} /\ <<>> \in [{} -> Nat]
    OBVIOUS
  <2>2. Accounts(<<>>) = {}
    BY <2>1, Zenon DEF Accounts
  <2> QED
    BY <2>1, <2>2, FS_EmptySet, Zenon DEF IndexMaps
<1>4. first \in IndexMaps /\ Accounts(first) \in SUBSET Nat /\ IsFiniteSet(Accounts(first))
  <2>1. CASE first = <<>>
    BY <1>3, <2>1, Zenon
  <2>2. CASE first # <<>>
    <3>1. PICK name \in Names : first = [n \in {name} |-> 1]
      BY <2>2, Zenon
    <3>2. DOMAIN first = {name} /\ first[name] = 1 /\ first \in [{name} -> Nat]
      BY <3>1, Zenon
    <3>3. Accounts(first) = {1}
      BY <3>2, Zenon DEF Accounts
    <3>4. IsFiniteSet({1})
      BY FS_Singleton, Zenon
    <3>5. {1} \in SUBSET Nat
      OBVIOUS
    <3>6. first \in IndexMaps
      BY <3>2, Zenon DEF IndexMaps
    <3> QED
      BY <3>3, <3>4, <3>5, <3>6, Zenon
  <2> QED
    BY <2>1, <2>2, Zenon
<1>5. \A d \in Keystores : index[d] = first \/ index[d] = <<>>
  BY <1>1, Zenon
<1>6. index \in [Keystores -> IndexMaps]
  BY <1>1, <1>3, <1>4, Zenon
<1>7. ASSUME NEW d \in Keystores PROVE keyFiles[d] \in SUBSET Nat /\ IsFiniteSet(keyFiles[d])
  <2>1. PICK i : i = index[d]
    BY Zenon
  <2>2. keyFiles[d] = Accounts(i)
    BY <1>2, <2>1, Zenon DEF Accounts
  <2>3. CASE i = first
    BY <1>4, <2>2, <2>3, Zenon
  <2>4. CASE i = <<>>
    BY <1>3, <2>2, <2>4, Zenon
  <2> QED
    BY <1>5, <2>1, <2>3, <2>4, Zenon
<1>8. keyFiles \in [Keystores -> SUBSET Nat]
  BY <1>2, <1>7, Zenon
<1>9. IndexBacked
  BY <1>2, Zenon DEF IndexBacked, Backed
<1>10. index[""] \in IndexMaps
  BY <1>6, Zenon DEF Keystores
<1> QED
  BY <1>6, <1>7, <1>8, <1>9, <1>10, Zenon DEF IndexMaps

\* A file that is not there sets no field.
LEMMA NothingSet == DOMAIN <<>> = {}
OBVIOUS

\* A file that the user or an earlier igit wrote.
Written(n, fields, old) ==
  [network |-> n, dir |-> "", key |-> "", bin |-> "ipfs", legacy |-> old,
   set |-> [g \in fields |-> Override(IF n = "" THEN Testnet ELSE n)]]

\* The configurations that the user or an earlier igit wrote are of one network.
LEMMA InitFile ==
  ASSUME Init
  PROVE  FileOK /\ Selected(file)
<1>1. PICK f \in InitialFiles, name \in {""} \cup DOMAIN index[""] : file = [f EXCEPT !.key = name]
  BY Zenon DEF Init
<1>2. PICK network, set, key, bin, legacy :
        /\ f = [network |-> network, dir |-> "", key |-> key, bin |-> bin, legacy |-> legacy, set |-> set]
        /\ network \in {"", "injective-mainnet"} /\ bin \in {"", "ipfs"}
        /\ \A g \in DOMAIN set : set[g] = Override(IF network = "" THEN Testnet ELSE network)
  <2>1. CASE f = NoFile
    <3>1. PICK none : none = <<>>
      BY Zenon
    <3>2. DOMAIN none = {}
      BY <3>1, NothingSet, Zenon
    <3>3. f = [network |-> "", dir |-> "", key |-> "", bin |-> "", legacy |-> FALSE, set |-> none]
      BY <2>1, <3>1, Zenon DEF NoFile
    <3> QED
      BY <3>2, <3>3, Zenon
  <2>2. CASE f # NoFile
    <3>1. \E n \in {"", "injective-mainnet"} : \E fields, old : f = Written(n, fields, old)
      <4>1. \/ f = Written("", {"evm_suite_directory_address"}, TRUE)
            \/ f = Written("injective-mainnet", {"evm_suite_directory_address"}, FALSE)
            \/ f = Written("injective-mainnet", ProfileFields, FALSE)
        BY <2>2, Zenon DEF InitialFiles, Written
      <4> QED
        BY <4>1, Zenon
    <3>2. PICK n \in {"", "injective-mainnet"} : \E fields, old : f = Written(n, fields, old)
      BY <3>1, Zenon
    <3>3. PICK fields, old : f = Written(n, fields, old)
      BY <3>2, Zenon
    <3>4. PICK set : set = [g \in fields |-> Override(IF n = "" THEN Testnet ELSE n)]
      BY Zenon
    <3>5. \A g \in DOMAIN set : set[g] = Override(IF n = "" THEN Testnet ELSE n)
      BY <3>4, Zenon
    <3>6. f = [network |-> n, dir |-> "", key |-> "", bin |-> "ipfs", legacy |-> old, set |-> set]
      BY <3>3, <3>4, Zenon DEF Written
    <3> QED
      BY <3>2, <3>5, <3>6, Zenon
  <2> QED
    BY <2>1, <2>2, Zenon
<1>3. file = [network |-> network, dir |-> "", key |-> name, bin |-> bin, legacy |-> legacy, set |-> set]
  BY <1>1, <1>2, Zenon
<1>4. file.network = network /\ file.set = set /\ file.dir = "" /\ file.key = name /\ file.bin = bin
  BY <1>3, Zenon
<1>5. DOMAIN index[""] \subseteq Names /\ "" \in Keystores
  BY InitKeystore, Zenon DEF Keystores
<1>6. \A g \in DOMAIN file.set : file.set[g] = Override(FileNetwork)
  BY <1>2, <1>4, Zenon DEF FileNetwork
<1>7. FileOK
  BY <1>1, <1>2, <1>4, <1>5, <1>6, Zenon DEF FileOK, Keys, Bins, Networks
<1> QED
  BY <1>1, <1>4, <1>7, Zenon DEF Selected, Known

\* The initial states are in order.
LEMMA InitIInv ==
  ASSUME Init PROVE IInv
<1>1. /\ index \in [Keystores -> IndexMaps] /\ keyFiles \in [Keystores -> SUBSET Nat]
      /\ (\A d \in Keystores : IsFiniteSet(keyFiles[d])) /\ IndexBacked
      /\ FileOK /\ Selected(file)
  BY InitKeystore, InitFile, Zenon
<1>2. kubo \in Kubos /\ kubo.wrapper = (kubo.target = "good")
  <2>1. [onPath : BOOLEAN, target : {"absent", "good"}, wrapper : BOOLEAN, repo : {FALSE}, daemon : {FALSE}]
          \subseteq Kubos
    BY Zenon DEF Kubos
  <2> QED
    BY <2>1, Zenon DEF Init
<1>3. PICK wanted : wanted = [f \in {"network", "dir", "key", "bin"} |-> Load[f]]
  BY Zenon
<1>4. DOMAIN wanted = Settings /\ \A f \in Settings : wanted[f] = Load[f]
  BY <1>3, Zenon DEF Settings
<1>5. wanted \in [Settings -> Wants]
  <2>1. Load \in Configs
    BY <1>1, LoadOK, Zenon
  <2>2. \A f \in Settings : Load[f] \in Wants
    BY <2>1, Zenon DEF Settings, Configs, Wants
  <2> QED
    BY <1>3, <2>2, Zenon DEF Settings
<1>6. PICK empty, no, w : empty = {} /\ no = FALSE /\ w = kubo.wrapper
  BY Zenon
<1>7. history = [outdated |-> empty, stale |-> no, lost |-> empty, typed |-> empty, cut |-> no,
                 installed |-> w, wanted |-> wanted]
  BY <1>3, <1>6, Zenon DEF Init
<1>8. empty \in SUBSET Procs /\ empty \in SUBSET (Keystores \X Keys) /\ no \in BOOLEAN /\ w \in BOOLEAN
  BY <1>2, <1>6, Zenon DEF Kubos
<1>9. history \in Histories /\ history.wanted = wanted /\ history.installed = w
  BY <1>5, <1>7, <1>8, Zenon DEF Histories
<1>10. procs = [p \in Procs |-> Idle]
  BY Zenon DEF Init
<1>11. Typed
  BY <1>1, <1>2, <1>9, <1>10, Zenon DEF Typed, SharedTyped
<1>12. SettingsKept
  BY <1>4, <1>9, Zenon DEF SettingsKept
<1>13. InstallKept
  <2>1. kubo.target \in {"absent", "good"} /\ (w => kubo.target = "good")
    BY <1>2, <1>6, Zenon DEF Kubos
  <2> QED
    BY <1>9, <2>1, Zenon DEF InstallKept
<1>14. \A q \in Procs : procs[q] = Idle
  BY <1>10, Zenon
<1> QED
  BY <1>1, <1>11, <1>12, <1>13, <1>14, Zenon DEF IInv, SharedOK

-----------------------------------------------------------------------------
(* The theorems.                                                           *)

\* Every step of the commands keeps the invariant.
LEMMA StepIInv ==
  ASSUME IInv, NEW p \in Procs, Step(p) PROVE IInv'
<1>1. CASE Upgrade(p)
  BY <1>1, UpgradeStep, Zenon
<1>2. CASE CmdConfigSet(p)
  BY <1>2, CmdConfigSetStep, Zenon
<1>3. CASE ReadIndex(p)
  BY <1>3, ReadIndexStep, Zenon
<1>4. CASE MakeAccount(p)
  BY <1>4, MakeAccountStep, Zenon
<1>5. CASE WriteIndex(p)
  BY <1>5, WriteIndexStep, Zenon
<1>6. CASE KeySave(p)
  BY <1>6, KeySaveStep, Zenon
<1>7. CASE SetupPush(p)
  BY <1>7, SetupPushStep, Zenon
<1>8. CASE Reload(p)
  BY <1>8, ReloadStep, Zenon
<1>9. CASE EnsureDependency(p)
  BY <1>9, EnsureDependencyStep, Zenon
<1>10. CASE DownloadArtifact(p)
  BY <1>10, DownloadStep, Zenon
<1>11. CASE ActivateManagedInstall(p) \/ CheckInstalled(p) \/ WriteWrapper(p)
  BY <1>11, InstallMoves, Zenon
<1>12. CASE MoveAside(p)
  BY <1>12, MoveAsideStep, Zenon
<1>13. CASE Place(p)
  BY <1>13, PlaceStep, Zenon
<1>14. CASE StartKubo(p) \/ InitKubo(p) \/ RunDaemon(p) \/ WaitForKubo(p)
  BY <1>14, KuboMoves, Zenon
<1>15. CASE SetupSave(p)
  BY <1>15, SetupSaveStep, Zenon
<1>16. CASE FinishSetup(p)
  BY <1>16, FinishSetupStep, Zenon
<1> QED
  BY <1>1, <1>2, <1>3, <1>4, <1>5, <1>6, <1>7, <1>8, <1>9, <1>10, <1>11, <1>12, <1>13, <1>14, <1>15, <1>16,
     Zenon DEF Step

\* Every step of the workstation keeps the invariant.
LEMMA NextIInv ==
  ASSUME IInv, [Next]_wsVars PROVE IInv'
<1>1. CASE UserRuns
  BY <1>1, UserRunsStep, Zenon
<1>2. CASE \E p \in Others : OtherRuns(p)
  <2>1. PICK p \in Procs, c \in Commands : Run(p, c)
    BY <1>2, Zenon DEF OtherRuns, Procs
  <2> QED
    BY <2>1, OtherRunsStep, Zenon
<1>3. ASSUME NEW p \in Procs, Step(p) \/ PlaceFails(p) \/ Stops(p) PROVE IInv'
  BY <1>3, StepIInv, PlaceFailsStep, StopsStep, Zenon
<1>4. CASE DaemonStops
  BY <1>4, DaemonStopsStep, Zenon
<1>5. CASE UNCHANGED wsVars
  <2>1. UNCHANGED <<file, index, keyFiles, procs, history>> /\ kubo' = kubo
    BY <1>5, Zenon DEF wsVars
  <2>2. kubo' \in Kubos /\ kubo'.target = kubo.target
    BY <2>1, Zenon DEF IInv, Typed, SharedTyped
  <2> QED
    BY <2>1, <2>2, NobodyMoves, Zenon
<1> QED
  BY <1>1, <1>2, <1>3, <1>4, <1>5, Zenon DEF Next

\* Every reachable state satisfies the invariant.
LEMMA SpecIInv == Spec => []IInv
  BY InitIInv, NextIInv, PTL DEF Spec

\* No configuration that a process loads or works with mixes the values of two
\* networks, those that the user set included, however commands overlap and wherever
\* they stop (config.Load, SelectNetworkProfile, setConfigField).
THEOREM NetworksNeverMixed == Spec => []NetworksUnmixed
<1>1. IInv => NetworksUnmixed
  <2> SUFFICES ASSUME IInv PROVE NetworksUnmixed
    BY Zenon
  <2>1. Unmixed(Load)
    BY LoadOK, Zenon DEF IInv, SharedOK
  <2>2. ASSUME NEW q \in Procs, ~At(q, "idle") PROVE Unmixed(Mem(q).cfg)
    <3>1. Idle.at = "idle"
      BY Zenon DEF Idle
    <3>2. procs[q] # Idle
      BY <2>2, <3>1, Zenon DEF At
    <3> QED
      BY <3>2, Zenon DEF IInv, Local, Mem
  <2>3. ASSUME NEW c \in {Load} \cup {Mem(q).cfg : q \in {s \in Procs : ~At(s, "idle")}} PROVE Unmixed(c)
    <3>1. CASE c = Load
      BY <2>1, <3>1, Zenon
    <3>2. CASE \E q \in {s \in Procs : ~At(s, "idle")} : c = Mem(q).cfg
      BY <2>2, <3>2, Zenon
    <3> QED
      BY <3>1, <3>2, Zenon
  <2> QED
    BY <2>3, Zenon DEF NetworksUnmixed, Unmixed
<1> QED
  BY <1>1, SpecIInv, PTL

\* When no process saved a configuration that it had loaded before another's save,
\* the file has the network, keystore, key and binary that were last asked for
\* (config.Save, cmdConfig, setupPushWithServices).
THEOREM SettingsStay == Spec => []SettingsKept
<1>1. IInv => SettingsKept
  BY Zenon DEF IInv, SharedOK
<1> QED
  BY <1>1, SpecIInv, PTL

\* The selected key has its name in the index of the selected keystore and its file
\* there, unless an overlapping key command replaced that index, or the user typed a
\* selection for which there is no key (CreateKey, importKey, cmdKey, setConfigField).
THEOREM SelectedKeysResolve == Spec => []SelectedKeyResolves
<1>1. IInv => SelectedKeyResolves
  BY Zenon DEF IInv, SharedOK, FileOK, SelectedKeyResolves, Selected, Known, IndexBacked, Backed, Resolves
<1> QED
  BY <1>1, SpecIInv, PTL

\* Failing and concurrent replacements leave an installation in place, and only a
\* verified one (downloadURL, activateManagedInstall).
THEOREM InstallationsKept == Spec => []InstallKept
<1>1. IInv => InstallKept
  BY Zenon DEF IInv
<1> QED
  BY <1>1, SpecIInv, PTL
=============================================================================

---------------------------- MODULE RemoteHelper ----------------------------
(***************************************************************************)
(* The Git remote helper (cli/internal/remote/helper.go) seen from the     *)
(* objects it moves: what `list` caches, which objects `push` packs, which *)
(* pack list the registry keeps for a ref, and what `fetch` can rebuild    *)
(* from it.  Several helpers, each with its own clone and its own account, *)
(* work on one repository.                                                 *)
(*                                                                         *)
(* A commit stands for itself and for the trees and blobs it introduces.   *)
(* A pack is the set of commits in it and the set of commits outside it    *)
(* that its deltas need, since packs are built with --thin.  Packs are     *)
(* content addressed, so equal packs have equal URIs.  That a confirmed    *)
(* pack can be downloaded is the subject of module Replication.            *)
(***************************************************************************)
EXTENDS Integers, Sequences

CONSTANTS Commits, Parents,   \* the history being written, and its edges
          Refs, Helpers,      \* ref names; helper processes with their clones
          Work,               \* the commits made in each clone
          NoRef, NoCommit,    \* no such ref; the empty expectedSha
          MaxTx               \* bound: transactions ever sent

ASSUME HelperAssumption ==
    /\ Parents \in [Commits -> SUBSET Commits]
    /\ Work \in [Helpers -> SUBSET Commits]
    /\ NoCommit \notin Commits
    /\ MaxTx \in Nat
    /\ NoRef \notin [sha : Commits, packs : Seq([objs : SUBSET Commits, bases : SUBSET Commits])]

VARIABLES refs,        \* the registry's refs: commit and pack list
          refNames,    \* their names in the order listRefs returns them
          cache,       \* h.remoteRefs of each helper
          cacheNames,  \* the order in which that helper printed them
          objects,     \* the object database of each helper's clone
          pool,        \* each account's transactions not yet mined, by nonce
          sent,        \* how many transactions were sent (bounded by MaxTx)
          fetched,     \* the outcome of each helper's last fetch batch
          rewritten    \* whether a force push or a deletion was ever mined

registry == <<refs, refNames, rewritten>>
clones == <<cache, cacheNames, objects, fetched>>
helperVars == <<refs, refNames, cache, cacheNames, objects, pool, sent, fetched, rewritten>>

Packs == [objs : SUBSET Commits, bases : SUBSET Commits]
RefInfos == [sha : Commits, packs : Seq(Packs)]
Txs == [ref : Refs, sha : Commits \cup {NoCommit}, packUris : Seq(Packs),
        force : BOOLEAN, expectedSha : Commits \cup {NoCommit}]
NoFetch == [wanted |-> {}, all |-> FALSE, ok |-> FALSE]

Elements(s) == {s[i] : i \in DOMAIN s}

\* The commits git reaches from c through the objects it has: the least set
\* that holds c and the parents, where present, of its members.
Reach(c, objs) ==
    {a \in objs : /\ c \in objs
                  /\ \A S \in SUBSET objs :
                        (c \in S /\ \A x \in S : Parents[x] \cap objs \subseteq S) => a \in S}

History == [c \in Commits |-> Reach(c, Commits)]

HelperInit ==
    /\ refs = [f \in Refs |-> NoRef]
    /\ refNames = <<>>
    /\ cache = [h \in Helpers |-> refs]
    /\ cacheNames = [h \in Helpers |-> <<>>]
    /\ objects = Work
    /\ pool = [h \in Helpers |-> <<>>]
    /\ sent = 0
    /\ fetched = [h \in Helpers |-> NoFetch]
    /\ rewritten = FALSE

-----------------------------------------------------------------------------
\* cmdList: replace the cache by the registry's refs at one block.
List(h) ==
    /\ cache' = [cache EXCEPT ![h] = refs]
    /\ cacheNames' = [cacheNames EXCEPT ![h] = refNames]
    /\ UNCHANGED <<registry, objects, fetched, pool, sent>>

\* PackObjects: the commits of want that no excluded commit known to the clone
\* reaches.  A delta may be taken against any parent left out of the pack.
PackObjects(objs, want, exclude) ==
    LET new == Reach(want, objs) \ UNION {Reach(x, objs) : x \in exclude}
        edge == UNION {Parents[x] : x \in new} \ new
    IN  {[objs |-> new, bases |-> b] : b \in SUBSET edge}

Exclude_AlsoForced(h, force) == {cache[h][f].sha : f \in {g \in Refs : cache[h][g] # NoRef}}

\* The tips a push leaves out: every cached one, none when it is forced,
\* because updateRef then replaces the whole pack list.
Exclude(h, force) ==
    IF force THEN {} ELSE {cache[h][f].sha : f \in {g \in Refs : cache[h][g] # NoRef}}

\* The URIs pushOne sends for a pack: an existing ref keeps its list when there
\* is nothing new, and a new ref then gets a pack of the whole history.
PushUris(h, c, f, pack) ==
    IF pack.objs # {} THEN {<<pack>>}
    ELSE IF cache[h][f] # NoRef THEN {cache[h][f].packs}
    ELSE {<<p>> : p \in PackObjects(objects[h], c, {})}

\* Git itself refuses an update that changes nothing, and one that is not a
\* fast-forward of the listed commit unless it is forced.
GitSends(h, c, f, force) ==
    /\ History[c] \subseteq objects[h]
    /\ cache[h][f] # NoRef =>
          /\ cache[h][f].sha # c
          /\ force \/ cache[h][f].sha \in History[c]

Send(h, tx) ==
    /\ sent < MaxTx
    /\ sent' = sent + 1
    /\ pool' = [pool EXCEPT ![h] = Append(@, tx)]
    /\ UNCHANGED <<registry, clones>>

\* pushOne with a source: the transaction is built from the cache and may be
\* mined long after, even when the helper gave up waiting for its receipt.
PushOne(h, c, f, force) ==
    /\ GitSends(h, c, f, force)
    /\ \E pack \in PackObjects(objects[h], c, Exclude(h, force) \cap objects[h]) :
       \E uris \in PushUris(h, c, f, pack) :
          Send(h, [ref |-> f, sha |-> c, packUris |-> uris, force |-> force,
                   expectedSha |-> IF cache[h][f] = NoRef THEN NoCommit ELSE cache[h][f].sha])

\* pushOne without a source.
DeleteRef(h, f) ==
    /\ cache[h][f] # NoRef
    /\ Send(h, [ref |-> f, sha |-> NoCommit, packUris |-> <<>>, force |-> FALSE,
                expectedSha |-> NoCommit])

-----------------------------------------------------------------------------
ExpectedShaHolds_Unchecked(tx) == TRUE

\* updateRef's check of the commit the pusher last saw.
ExpectedShaHolds(tx) ==
    ~tx.force /\ refs[tx.ref] # NoRef => refs[tx.ref].sha = tx.expectedSha

NewPacks_Replaced(tx) == {tx.packUris}

\* The pack list updateRef leaves, as the set of its only value: replaced by
\* force, otherwise extended by the URIs it does not hold, in their order.
NewPacks(tx) ==
    IF tx.force \/ refs[tx.ref] = NoRef THEN {tx.packUris}
    ELSE LET old == refs[tx.ref].packs
             fresh == Elements(tx.packUris) \ Elements(old)
             InOrder(t) == \A i, j \in DOMAIN t : i < j =>
                              \E k \in DOMAIN tx.packUris :
                                 /\ tx.packUris[k] = t[i]
                                 /\ \A l \in DOMAIN tx.packUris : tx.packUris[l] = t[j] => k < l
         IN  {old \o t : t \in {u \in UNION {[1..n -> fresh] : n \in 0..Len(tx.packUris)} :
                                Elements(u) = fresh /\ InOrder(u)}}

MinedUpdate(tx) ==
    /\ tx.sha # NoCommit
    /\ ExpectedShaHolds(tx)
    /\ \E packs \in NewPacks(tx) :
          refs' = [refs EXCEPT ![tx.ref] = [sha |-> tx.sha, packs |-> packs]]
    /\ refNames' = IF refs[tx.ref] = NoRef THEN Append(refNames, tx.ref) ELSE refNames
    /\ rewritten' = (rewritten \/ tx.force)

\* deleteRef: the last name takes the place of the removed one.
MinedDelete(tx) ==
    /\ tx.sha = NoCommit
    /\ refs[tx.ref] # NoRef
    /\ refs' = [refs EXCEPT ![tx.ref] = NoRef]
    /\ refNames' = LET last == refNames[Len(refNames)]
                   IN  [i \in 1..Len(refNames) - 1 |->
                            IF refNames[i] = tx.ref THEN last ELSE refNames[i]]
    /\ rewritten' = TRUE

MinedRevert(tx) ==
    /\ IF tx.sha = NoCommit THEN refs[tx.ref] = NoRef ELSE ~ExpectedShaHolds(tx)
    /\ UNCHANGED registry

\* The account's next transaction is mined.
Mine(h) ==
    /\ pool[h] # <<>>
    /\ LET tx == Head(pool[h]) IN MinedUpdate(tx) \/ MinedDelete(tx) \/ MinedRevert(tx)
    /\ pool' = [pool EXCEPT ![h] = Tail(@)]
    /\ UNCHANGED <<clones, sent>>

-----------------------------------------------------------------------------
FetchUris_FirstRef(h, wanted) ==
    {1} \X DOMAIN cache[h][cacheNames[h][1]].packs

\* The packs of a batch: pack j of the i-th listed ref, for the wanted refs.
\* The code drops repeated URIs; to index a pack again would change nothing.
FetchUris(h, wanted) ==
    UNION {{i} \X DOMAIN cache[h][cacheNames[h][i]].packs :
        i \in {k \in DOMAIN cacheNames[h] : cacheNames[h][k] \in wanted}}

PackAt(h, p) == cache[h][cacheNames[h][p[1]]].packs[p[2]]

Precedes(q, p) == q[1] < p[1] \/ (q[1] = p[1] /\ q[2] < p[2])

\* IndexPack completes a thin pack from the objects already there and from the
\* packs before it, and refuses it when a base is missing.
Completes(h, uris, p) ==
    PackAt(h, p).bases \subseteq
        objects[h] \cup UNION {PackAt(h, q).objs : q \in {r \in uris : Precedes(r, p)}}

\* The packs in front of the first one that is refused.
Indexed(h, uris) ==
    {p \in uris : Completes(h, uris, p) /\ \A q \in uris : Precedes(q, p) => Completes(h, uris, q)}

\* The packs a batch brings: all until one is refused, or those before one that
\* no gateway has.
Downloads(indexed) ==
    {indexed} \cup {{q \in indexed : Precedes(q, p)} : p \in indexed}

\* cmdFetchBatch: Git asks for some of the listed refs, in the order of the
\* list.  The first pack refused or not found ends the batch with an error.
FetchBatch(h, wanted) ==
    LET uris == FetchUris(h, wanted)
        indexed == Indexed(h, uris)
    IN  /\ wanted # {}
        /\ \E got \in Downloads(indexed) :
              /\ objects' = [objects EXCEPT ![h] = @ \cup UNION {PackAt(h, p).objs : p \in got}]
              /\ fetched' = [fetched EXCEPT ![h] =
                    IF got # indexed THEN NoFetch
                    ELSE [wanted |-> {cache[h][f].sha : f \in wanted},
                          all |-> wanted = {f \in Refs : cache[h][f] # NoRef},
                          ok |-> indexed = uris]]
        /\ UNCHANGED <<registry, cache, cacheNames, pool, sent>>

HelperNext ==
    \E h \in Helpers :
        \/ List(h)
        \/ \E c \in Commits, f \in Refs, force \in BOOLEAN : PushOne(h, c, f, force)
        \/ \E f \in Refs : DeleteRef(h, f)
        \/ Mine(h)
        \/ \E wanted \in SUBSET {f \in Refs : cache[h][f] # NoRef} : FetchBatch(h, wanted)

HelperSpec == HelperInit /\ [][HelperNext]_helperVars
-----------------------------------------------------------------------------
Packed(packs) == UNION {p.objs : p \in Elements(packs)}
Live == {f \in Refs : refs[f] # NoRef}

\* Until a force push or a deletion is mined, the packs the registry lists hold
\* the whole history of every ref, although each push leaves out what a cache,
\* stale by the time it is mined, says the registry already has.
RepositoryComplete ==
    ~rewritten => \A f \in Live : History[refs[f].sha] \subseteq UNION {Packed(refs[g].packs) : g \in Live}

\* Git's fast-forward check is against the list, updateRef's against the commit
\* expected: together a ref only moves to a descendant unless it is rewritten.
FastForwardOnly ==
    [][~rewritten' => \A f \in Live : refs[f].sha \in History[refs'[f].sha]]_helperVars

\* A push that drops packs of a ref (force, "the contract replaces the whole
\* CID list") leaves a list that holds its whole history by itself.
ReplacedListSelfContained ==
    [][\A f \in Live : refs'[f] # NoRef /\ ~(Elements(refs[f].packs) \subseteq Elements(refs'[f].packs))
          => History[refs'[f].sha] \subseteq Packed(refs'[f].packs)]_helperVars

\* A batch that asked for every listed ref and was reported as fetched has
\* brought the whole history of each, as long as nothing was rewritten.
CloneComplete ==
    \A h \in Helpers : fetched[h].all /\ fetched[h].ok /\ ~rewritten =>
        \A s \in fetched[h].wanted : History[s] \subseteq objects[h]
=============================================================================

--------------------------- MODULE ArchiveInventory ---------------------------
(***************************************************************************)
(* The archive of the CosmWasm contract (V1).  The contract emits an event *)
(* for every change of a key; "igit archive inventory" replays the         *)
(* transactions a node returned, checked against saved blocks, into an     *)
(* inventory of keys, and "igit archive verify" replays them again and     *)
(* compares the inventory with a snapshot queried at the cutover height.   *)
(*                                                                         *)
(* At most one document is wrong: the export, the snapshot, or an export   *)
(* fetched again between the two commands.                                 *)
(***************************************************************************)
EXTENDS Integers, Sequences, FiniteSets, SequencesExt, TLC

CONSTANTS
  V1Accounts,  \* addresses
  V1Names,     \* repository names
  UserNames,   \* usernames
  Versions,    \* release versions
  NoLocator,   \* forked_from of a repository that is no fork
  MaxTx,       \* bound on the transactions of the history
  Cutover      \* the cutover height, after all of them

V1Locators == V1Accounts \X V1Names

VARIABLES
  v1,        \* the contract's keys
  log,       \* its transactions, in order of height and index
  evidence,  \* the export: tx_search pages and block responses
  inventory, \* the inventory file
  snapshot,  \* the keys in the snapshot file
  step,      \* how far the archive has come
  fault      \* the document that is wrong

archiveVars == <<v1, log, evidence, inventory, snapshot, step, fault>>

-----------------------------------------------------------------------------
(* The contract                                                            *)

EmptyV1 == [repos |-> <<>>, reports |-> <<>>, users |-> {}, recipients |-> {},
            artifacts |-> {}]

\* past: the locators the repository has had, its present one included.
NewRepo(l, source) == [fork |-> source, active |-> TRUE, past |-> {l}]

\* A transaction joins the last block or starts a new one; its hash is its place
\* in the history, its index its place in the block.
Place ==
  LET h == IF log = <<>> THEN 1 ELSE Last(log).height
  IN  {[height |-> h, index |-> IF log = <<>> THEN 0 ELSE Last(log).index + 1]}
        \cup (IF log # <<>> /\ h < Cutover THEN {[height |-> h + 1, index |-> 0]} ELSE {})

Emit(ok, event, next) ==
  /\ step = "live" /\ Len(log) < MaxTx
  /\ v1' = next
  /\ \E p \in Place :
       log' = Append(log, [height |-> p.height, index |-> p.index, hash |-> Len(log) + 1,
                           ok |-> ok, event |-> event])
  /\ UNCHANGED <<evidence, inventory, snapshot, step, fault>>

ExecCreateRepo(a, n) ==
  /\ <<a, n>> \notin DOMAIN v1.repos
  /\ Emit(TRUE, [action |-> "create_repo", locator |-> <<a, n>>],
          [v1 EXCEPT !.repos = (<<a, n>> :> NewRepo(<<a, n>>, NoLocator)) @@ @])

ExecForkRepo(a, source, n) ==
  /\ source \in DOMAIN v1.repos /\ v1.repos[source].active
  /\ <<a, n>> \notin DOMAIN v1.repos
  /\ Emit(TRUE, [action |-> "fork_repo", locator |-> <<a, n>>, source |-> source],
          [v1 EXCEPT !.repos = (<<a, n>> :> NewRepo(<<a, n>>, source)) @@ @])

\* The end of a transfer or a recovery: the repository leaves its key, which its
\* former owner may use again.
MoveRepoOwnership(old, a) ==
  LET new == <<a, old[2]>>
  IN  /\ old \in DOMAIN v1.repos /\ new \notin DOMAIN v1.repos
      /\ Emit(TRUE, [action |-> "transfer_ownership", old |-> old, new |-> new],
              [v1 EXCEPT !.repos =
                 [l \in (DOMAIN @ \ {old}) \cup {new} |->
                    IF l = new THEN [@[old] EXCEPT !.past = @ \cup {new}] ELSE @[l]]])

ExecSubmitReport(l) ==
  /\ l \in DOMAIN v1.repos
  /\ Emit(TRUE, [action |-> "submit_moderation_report", id |-> Len(v1.reports) + 1],
          [v1 EXCEPT !.reports = Append(@, [about |-> l, state |-> "open"])])

\* resolve_moderation_report and resolve_moderation_appeal: the repository that
\* is judged is the one under the locator the report was made about.
ExecResolve(id, from, to, active) ==
  /\ id \in DOMAIN v1.reports
  /\ v1.reports[id].state = from
  /\ v1.reports[id].about \in DOMAIN v1.repos
  /\ Emit(TRUE, [action |-> "resolve_moderation", id |-> id],
          [v1 EXCEPT !.reports[id].state = to,
                     !.repos[v1.reports[id].about].active = active])

ExecAppeal(id) ==
  /\ id \in DOMAIN v1.reports
  /\ v1.reports[id].state = "resolved"
  /\ Emit(TRUE, [action |-> "appeal_moderation_report", id |-> id],
          [v1 EXCEPT !.reports[id].state = "appealed"])

ExecSetModerationStatus(l, active) ==
  Emit(TRUE, [action |-> "set_moderation_status"], [v1 EXCEPT !.repos[l].active = active])

ExecRegisterUsername(a, u) ==
  /\ \A r \in v1.users : r.name # u /\ r.owner # a
  /\ Emit(TRUE, [action |-> "register_username", name |-> u, owner |-> a],
          [v1 EXCEPT !.users = @ \cup {[name |-> u, owner |-> a]}])

ExecReleaseUsername(r) ==
  /\ r \in v1.users
  /\ Emit(TRUE, [action |-> "release_username", name |-> r.name, owner |-> r.owner],
          [v1 EXCEPT !.users = @ \ {r}])

ExecAwardBadge(l, a) ==
  /\ l \in DOMAIN v1.repos /\ v1.repos[l].active
  /\ a # l[1]
  /\ Emit(TRUE, [action |-> "award_badge", recipient |-> a],
          [v1 EXCEPT !.recipients = @ \cup {a}])

ExecRegisterRelease(v) ==
  /\ v \notin v1.artifacts
  /\ Emit(TRUE, [action |-> "register_release", version |-> v],
          [v1 EXCEPT !.artifacts = @ \cup {v}])

V1Next ==
  \/ \E a \in V1Accounts, n \in V1Names :
       ExecCreateRepo(a, n) \/ \E source \in DOMAIN v1.repos : ExecForkRepo(a, source, n)
  \/ \E l \in DOMAIN v1.repos :
       \/ ExecSubmitReport(l)
       \/ \E active \in BOOLEAN : ExecSetModerationStatus(l, active)
       \/ \E a \in V1Accounts : MoveRepoOwnership(l, a) \/ ExecAwardBadge(l, a)
  \/ \E id \in DOMAIN v1.reports :
       \/ ExecAppeal(id)
       \/ \E active \in BOOLEAN :
            \/ ExecResolve(id, "open", "resolved", active)
            \/ ExecResolve(id, "appealed", "appeal_resolved", active)
  \/ \E a \in V1Accounts, u \in UserNames : ExecRegisterUsername(a, u)
  \/ \E r \in v1.users : ExecReleaseUsername(r)
  \/ \E v \in Versions : ExecRegisterRelease(v)
  \/ Emit(TRUE, [action |-> "update_ref"], v1)  \* and the other keyless events
  \/ Emit(FALSE, [action |-> "none"], v1)

-----------------------------------------------------------------------------
(* The export                                                              *)

Heights(txs) == {txs[i].height : i \in DOMAIN txs}

BlocksFor(txs) ==
  [h \in Heights(txs) \cup {Cutover} |->
     LET block == SelectSeq(log, LAMBDA t : t.height = h) IN [i \in DOMAIN block |-> block[i].hash]]

\* What a node answers: a page lost on the way, a node that indexed one
\* transaction less, one served twice, one after the cutover, and two of a
\* block exchanged.  A right export has any order of pages.
Exports ==
  LET All == {log, Reverse(log)}
      Answer(txs, total) == [txs |-> txs, total |-> total, blocks |-> BlocksFor(txs)]
  IN  [none |-> {Answer(txs, Len(log)) : txs \in All},
       lost |-> {Answer(RemoveAt(log, i), Len(log)) : i \in DOMAIN log},
       unindexed |-> {Answer(RemoveAt(log, i), Len(log) - 1) : i \in DOMAIN log},
       twice |-> {Answer(Append(log, log[i]), Len(log) + 1) : i \in DOMAIN log},
       late |-> {Answer(Append(log, [height |-> Cutover + 1, index |-> 0, hash |-> 0,
                                     ok |-> TRUE, event |-> [action |-> "update_ref"]]),
                        Len(log) + 1)},
       exchanged |-> {Answer([log EXCEPT ![i].index = log[i + 1].index,
                                         ![i + 1].index = log[i].index], Len(log)) :
                        i \in {j \in 1..(Len(log) - 1) : log[j].height = log[j + 1].height}}]

Export ==
  /\ step = "live" /\ log # <<>>
  /\ \E kind \in DOMAIN Exports :
       /\ evidence' \in Exports[kind]
       /\ fault' = IF kind = "none" THEN "none" ELSE "export"
  /\ step' = "exported"
  /\ UNCHANGED <<v1, log, inventory, snapshot>>

-----------------------------------------------------------------------------
(* igit archive inventory                                                  *)

EmptyBuilder == [ok |-> TRUE, repos |-> <<>>, locators |-> <<>>, reports |-> {},
                 users |-> {}, recipients |-> {}, versions |-> {}]

\* Mutant: the former locator of a repository is free again.
ApplyTransfer_FreesOld(b, old, new) ==
  LET id == b.locators[old]
  IN  IF old \notin DOMAIN b.locators \/ new \in DOMAIN b.locators
      THEN [b EXCEPT !.ok = FALSE]
      ELSE [b EXCEPT !.repos[id] = [@ EXCEPT !.locator = new, !.aliases = {new}],
                     !.locators = [l \in (DOMAIN @ \ {old}) \cup {new} |->
                                     IF l = new THEN id ELSE @[l]]]

ApplyTransfer(b, old, new) ==
  LET id == b.locators[old]
  IN  IF \/ old \notin DOMAIN b.locators
         \/ new \in DOMAIN b.locators /\ b.locators[new] # id
      THEN [b EXCEPT !.ok = FALSE]
      ELSE [b EXCEPT !.repos[id] = [@ EXCEPT !.locator = new, !.aliases = @ \cup {new}],
                     !.locators = (new :> id) @@ @]

ApplyCreate(b, hash, l, source) ==
  IF l \in DOMAIN b.locators
  THEN [b EXCEPT !.ok = FALSE]
  ELSE [b EXCEPT !.repos = (hash :> [locator |-> l, fork |-> source, aliases |-> {l}]) @@ @,
                 !.locators = (l :> hash) @@ @]

ApplyUsername(b, e) ==
  LET r == [name |-> e.name, owner |-> e.owner]
  IN  IF e.action = "register_username"
      THEN [b EXCEPT !.ok = \A x \in b.users : x.name # e.name /\ x.owner # e.owner,
                     !.users = @ \cup {r}]
      ELSE [b EXCEPT !.ok = r \in b.users, !.users = @ \ {r}]

\* The events that change no key of the inventory leave it as it is.
ApplyEvent(b, t) ==
  LET e == t.event
  IN  CASE e.action = "create_repo" -> ApplyCreate(b, t.hash, e.locator, NoLocator)
        [] e.action = "fork_repo" -> ApplyCreate(b, t.hash, e.locator, e.source)
        [] e.action = "transfer_ownership" -> ApplyTransfer(b, e.old, e.new)
        [] e.action = "submit_moderation_report" ->
             [b EXCEPT !.ok = e.id \notin b.reports, !.reports = @ \cup {e.id}]
        [] e.action \in {"resolve_moderation", "appeal_moderation_report"} ->
             [b EXCEPT !.ok = e.id \in b.reports]
        [] e.action \in {"register_username", "release_username"} -> ApplyUsername(b, e)
        [] e.action = "award_badge" -> [b EXCEPT !.recipients = @ \cup {e.recipient}]
        [] e.action = "register_release" -> [b EXCEPT !.versions = @ \cup {e.version}]
        [] OTHER -> b

\* Failed transactions have no effect, and nothing follows a refusal.
Apply(b, t) == IF b.ok /\ t.ok THEN ApplyEvent(b, t) ELSE b

InOrder(txs) ==
  SortSeq(txs, LAMBDA s, t : \/ s.height < t.height
                             \/ s.height = t.height /\ s.index < t.index)

\* The pages agree on a total, and hold that many transactions.
DecodeTxSearch(e) == Len(e.txs) = e.total

\* Every transaction is the one at its place in a saved block, none comes twice
\* or after the cutover, and no block is saved for nothing.
Proven(e) ==
  /\ DecodeTxSearch(e)
  /\ \A i, j \in DOMAIN e.txs : e.txs[i].hash = e.txs[j].hash => i = j
  /\ \A i, j \in DOMAIN e.txs :
       e.txs[i].height = e.txs[j].height /\ e.txs[i].index = e.txs[j].index => i = j
  /\ \A i \in DOMAIN e.txs :
       LET t == e.txs[i]
       IN  /\ t.height <= Cutover
           /\ t.height \in DOMAIN e.blocks
           /\ t.index < Len(e.blocks[t.height]) /\ e.blocks[t.height][t.index + 1] = t.hash
  /\ DOMAIN e.blocks = Heights(e.txs) \cup {Cutover}

\* No two repositories or users share a key.
ValidateInventory(b) ==
  /\ \A id, other \in DOMAIN b.repos :
       id # other => b.repos[id].aliases \cap b.repos[other].aliases = {}
  /\ \A r, s \in b.users : r.name = s.name \/ r.owner = s.owner => r = s

\* digest: the evidence the inventory is bound to.
BuildInventory(e) ==
  LET b == FoldLeft(Apply, EmptyBuilder, InOrder(e.txs))
  IN  [ok |-> Proven(e) /\ b.ok /\ ValidateInventory(b), digest |-> e,
       repos |-> {b.repos[id] : id \in DOMAIN b.repos}, reports |-> b.reports,
       users |-> b.users, recipients |-> b.recipients, versions |-> b.versions]

Inventory ==
  /\ step = "exported"
  /\ LET built == BuildInventory(evidence)
     IN  /\ inventory' = built
         /\ step' = IF built.ok THEN "inventoried" ELSE "refused"
  /\ UNCHANGED <<v1, log, evidence, snapshot, fault>>

-----------------------------------------------------------------------------
(* The snapshot, and igit archive verify                                   *)

\* The keys of the contract, as queries at the cutover height return them.
V1Keys ==
  [repos |-> {[locator |-> l, fork |-> v1.repos[l].fork] : l \in DOMAIN v1.repos},
   reports |-> DOMAIN v1.reports, users |-> v1.users,
   recipients |-> v1.recipients, versions |-> v1.artifacts]

KeyUniverse ==
  [repos |-> [locator: V1Locators, fork: V1Locators \cup {NoLocator}], reports |-> 1..MaxTx,
   users |-> [name: UserNames, owner: V1Accounts], recipients |-> V1Accounts,
   versions |-> Versions]

\* One key more or one less.
WrongKeys ==
  UNION {{[V1Keys EXCEPT ![k] = IF x \in @ THEN @ \ {x} ELSE @ \cup {x}] : x \in KeyUniverse[k]} :
           k \in DOMAIN KeyUniverse}

QuerySnapshot ==
  /\ step = "inventoried"
  /\ \/ snapshot' = V1Keys /\ UNCHANGED fault
     \/ fault = "none" /\ snapshot' \in WrongKeys /\ fault' = "snapshot"
  /\ step' = "snapshot"
  /\ UNCHANGED <<v1, log, evidence, inventory>>

\* The evidence files are fetched again before they are verified.
ExportAgain ==
  /\ step = "snapshot" /\ fault = "none"
  /\ evidence' \in UNION {Exports[kind] : kind \in DOMAIN Exports}
  /\ fault' = IF evidence' = evidence THEN "none" ELSE "replaced"
  /\ step' = "fetched"
  /\ UNCHANGED <<v1, log, inventory, snapshot>>

VerifyInventoryEvidence == inventory.digest = evidence /\ BuildInventory(evidence) = inventory

\* Mutant: only the locators of the repositories are compared.
SameRepositories_Locators ==
  {r.locator : r \in snapshot.repos} = {r.locator : r \in inventory.repos}

SameRepositories ==
  /\ Cardinality(snapshot.repos) = Cardinality(inventory.repos)
  /\ \A r \in inventory.repos : [locator |-> r.locator, fork |-> r.fork] \in snapshot.repos

VerifySnapshotInventory ==
  /\ SameRepositories
  /\ {r.locator[1] : r \in snapshot.repos} = {r.locator[1] : r \in inventory.repos}
  /\ snapshot.reports = inventory.reports
  /\ snapshot.users = inventory.users
  /\ snapshot.recipients = inventory.recipients
  /\ snapshot.versions = inventory.versions

ArchiveVerify ==
  /\ step \in {"snapshot", "fetched"}
  /\ step' = IF VerifyInventoryEvidence /\ VerifySnapshotInventory THEN "verified" ELSE "refused"
  /\ UNCHANGED <<v1, log, evidence, inventory, snapshot, fault>>

NoDocument == [none |-> TRUE]

ArchiveInit ==
  /\ v1 = EmptyV1 /\ log = <<>>
  /\ evidence = NoDocument /\ inventory = NoDocument /\ snapshot = NoDocument
  /\ step = "live" /\ fault = "none"

ArchiveNext == V1Next \/ Export \/ Inventory \/ QuerySnapshot \/ ExportAgain \/ ArchiveVerify

-----------------------------------------------------------------------------
(* What the archive shows                                                  *)

\* Once igit archive verify accepts, inventory and snapshot both hold exactly
\* the keys the contract had, whichever one document was wrong: no lost,
\* unindexed, repeated or exchanged transaction and no wrong key gets through.
VerifiedKeysExact ==
  step = "verified" =>
    /\ snapshot = V1Keys
    /\ [repos |-> {[locator |-> r.locator, fork |-> r.fork] : r \in inventory.repos},
        reports |-> inventory.reports, users |-> inventory.users,
        recipients |-> inventory.recipients, versions |-> inventory.versions] = V1Keys

\* A locator that a second repository has taken after the first one moved away.
LocatorReused ==
  \E l, m \in DOMAIN v1.repos : l # m /\ v1.repos[l].past \cap v1.repos[m].past # {}

\* Right documents are refused only for a history in which two repositories
\* had the same locator one after the other, which the contract allows; and an
\* inventory built from them has, for every repository, its fork parent and every
\* locator it has had, across transfers there and back.
RightDocumentsAccepted ==
  /\ step = "refused" /\ fault = "none" => LocatorReused
  /\ step \in {"inventoried", "snapshot", "fetched", "verified"} /\ fault # "export" =>
       inventory.repos = {[locator |-> l, fork |-> v1.repos[l].fork, aliases |-> v1.repos[l].past] :
                            l \in DOMAIN v1.repos}
=============================================================================

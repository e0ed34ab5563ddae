---------------------------- MODULE MigrationPlan ----------------------------
(***************************************************************************)
(* igit-suite-migrate: a snapshot document becomes a plan of import        *)
(* batches and a manifest of transactions, both published once, and the    *)
(* transactions fill the suite's modules in the coordinator's order.       *)
(*                                                                         *)
(* A document is any sequence of records, valid or not.  The checks of the *)
(* tool and the checks of the contracts are separate definitions: what one *)
(* lets through, the other must take.  Numbers stand for IDs, accounts and *)
(* names, so that the tool's sorting is an order on pairs; hashes are      *)
(* collision-free, so a root is the list of what went into it.             *)
(***************************************************************************)
EXTENDS Integers, Sequences, FiniteSets, SequencesExt, FiniteSetsExt

CONSTANTS
  Documents,           \* the documents an operator may bring
  BatchSizes,          \* values of --batch-size, 0 when it is left out
  DefaultBatchSize,
  Builders,            \* processes that run "igit-suite-migrate build"
  MaximumBatchItems,   \* MaximumBatchItems and MAX_IMPORT_BATCH_ITEMS
  MaximumPayloadBytes, \* the same for payloads, in units of one record
  MaxRefsPerRepo, MaxPacks, MaxCollabs, MaxConfigGuardians, MaxRecipients, MaxReserved,
  WholeShare           \* 10000 basis points

VARIABLES
  document, \* the snapshot file
  builders, \* per process: what it has left to publish
  files,    \* the published plan and manifest
  verified, \* "igit-suite-migrate verify" has passed
  submitted, \* number of transactions of the manifest that have been sent
  suite     \* the coordinator and the modules

planVars == <<document, builders, files, verified, submitted, suite>>

\* The record kinds of each required module, in import order.
RequiredModules ==
  << <<"repository", "alias", "ref", "collaborator">>, <<"guardians">>,
     <<"status", "report", "trail">>, <<"splits", "total">>, <<"username", "reserved">>,
     <<"badge">>, <<"release">> >>

UsernameModule == 5
Kinds == UNION {ToSet(RequiredModules[m]) : m \in DOMAIN RequiredModules}

-----------------------------------------------------------------------------
(* validateSnapshot                                                        *)

Positions(d, k) == {i \in DOMAIN d.records : d.records[i].kind = k}
Of(d, k) == {d.records[i] : i \in Positions(d, k)}
Ids(d) == {r.id : r \in Of(d, "repository")}
Repo(d, id) == CHOOSE r \in Of(d, "repository") : r.id = id
Locator(r) == <<r.owner, r.name>>

\* No two entries of a section have the same key, made of these fields.
Unique(d, k, key) ==
  \A i, j \in Positions(d, k) : (\A f \in key : d.records[i][f] = d.records[j][f]) => i = j

Known(d, k) == \A r \in Of(d, k) : r.repo \in Ids(d)
PerRepo(d, k, id) == Cardinality({r \in Of(d, k) : r.repo = id})
Distinct(list) == \A i, j \in DOMAIN list : list[i] = list[j] => i = j

ValidRepositories(d) ==
  Unique(d, "repository", {"id"}) /\ Unique(d, "repository", {"owner", "name"})

\* Parents are in the snapshot and no lineage returns to where it began.
ValidForks(d) ==
  /\ \A r \in Of(d, "repository") : r.fork # r.id /\ r.fork \in Ids(d) \cup {0}
  /\ \A lineage \in SUBSET Ids(d) \ {{}} : \E id \in lineage : Repo(d, id).fork \notin lineage

ValidAliases(d) ==
  /\ Known(d, "alias")
  /\ Unique(d, "alias", {"owner", "name"})
  /\ \A a \in Of(d, "alias"), r \in Of(d, "repository") : Locator(a) # Locator(r)

ValidRefs(d) ==
  /\ Known(d, "ref")
  /\ \A r \in Of(d, "ref") : r.packs \in 1..MaxPacks
  /\ Unique(d, "ref", {"repo", "name"})
  /\ \A id \in Ids(d) : PerRepo(d, "ref", id) <= MaxRefsPerRepo

ValidCollaborators(d) ==
  /\ Known(d, "collaborator")
  /\ \A c \in Of(d, "collaborator") : c.account # Repo(d, c.repo).owner
  /\ Unique(d, "collaborator", {"repo", "account"})
  /\ \A id \in Ids(d) : PerRepo(d, "collaborator", id) <= MaxCollabs

ValidGuardians(d) ==
  /\ Known(d, "guardians")
  /\ Unique(d, "guardians", {"repo"})
  /\ \A g \in Of(d, "guardians") :
       /\ g.by = Repo(d, g.repo).owner
       /\ Len(g.list) \in 1..MaxConfigGuardians /\ g.threshold \in 1..Len(g.list)
       /\ Repo(d, g.repo).owner \notin ToSet(g.list) /\ Distinct(g.list)

ValidStatuses(d) ==
  /\ Known(d, "status")
  /\ Unique(d, "status", {"repo"})
  /\ Cardinality(Of(d, "status")) = Cardinality(Ids(d))

\* state: 1 open, 2 resolved, 3 appealed, 4 appeal resolved; trail: the status
\* after each of the actions that lead there.
ValidReports(d) ==
  /\ Known(d, "report")
  /\ Unique(d, "report", {"id"})
  /\ \A r \in Of(d, "report") :
       /\ r.id # 0
       /\ r.state = 1 => r.resolution = "active"
       /\ Len(r.trail) = r.state
       /\ r.trail[1] = "active" /\ Last(r.trail) = r.resolution
       /\ r.state = 4 => r.trail[3] = r.trail[2]
       /\ r.state \in {2, 3} => r.trail[2] = r.resolution

ValidTrails(d) ==
  /\ Known(d, "trail")
  /\ Unique(d, "trail", {"repo"})
  /\ \A t \in Of(d, "trail") :
       /\ t.trail # <<>>
       /\ \A i \in DOMAIN t.trail :
            t.trail[i].report # 0 =>
              \E r \in Of(d, "report") : r.id = t.trail[i].report /\ r.repo = t.repo
       /\ \E s \in Of(d, "status") : s.repo = t.repo /\ s.status = Last(t.trail).status

ShareTotal(list) == FoldLeft(LAMBDA sum, s : sum + s.bps, 0, list)
Recipients(list) == [i \in DOMAIN list |-> list[i].recipient]

ValidSplits(d) ==
  /\ Known(d, "splits")
  /\ Unique(d, "splits", {"repo"})
  /\ \A s \in Of(d, "splits") :
       /\ Len(s.list) <= MaxRecipients
       /\ Repo(d, s.repo).owner \notin ToSet(Recipients(s.list)) /\ Distinct(Recipients(s.list))
       /\ \A i \in DOMAIN s.list : s.list[i].bps # 0
       /\ ShareTotal(s.list) <= WholeShare

ValidTotals(d) ==
  /\ Known(d, "total")
  /\ \A t \in Of(d, "total") : t.amount # 0
  /\ Unique(d, "total", {"repo", "denom"})

ValidUsernames(d) ==
  /\ Unique(d, "username", {"name"}) /\ Unique(d, "username", {"owner"})
  /\ Unique(d, "reserved", {"name"})
  /\ Cardinality(Positions(d, "reserved")) <= MaxReserved
  /\ \A u \in Of(d, "username"), r \in Of(d, "reserved") : u.name # r.name

\* The indexes by recipient and by repository list every badge once.
ValidBadgeIndexes(d) ==
  /\ d.byRecipient = {<<b.recipient, b.id>> : b \in Of(d, "badge")}
  /\ d.byRepository = {<<b.repo, b.id>> : b \in Of(d, "badge")}

ValidBadges(d) ==
  /\ Known(d, "badge")
  /\ Unique(d, "badge", {"id"})
  /\ \A b \in Of(d, "badge") : b.id # 0 /\ b.recipient # b.by
  /\ ValidBadgeIndexes(d)

ValidReleaseIndexes(d) == d.platforms = {<<r.version, r.platform>> : r \in Of(d, "release")}

ValidReleases(d) ==
  /\ Unique(d, "release", {"version", "platform"})
  /\ ValidReleaseIndexes(d)

\* The escrow of the old contract has been paid back.
ValidEscrow(d) == d.escrowReleased

ValidateSnapshot(d) ==
  /\ ValidRepositories(d) /\ ValidForks(d) /\ ValidAliases(d) /\ ValidRefs(d)
  /\ ValidCollaborators(d) /\ ValidGuardians(d)
  /\ ValidStatuses(d) /\ ValidReports(d) /\ ValidTrails(d)
  /\ ValidSplits(d) /\ ValidTotals(d) /\ ValidUsernames(d) /\ ValidEscrow(d)
  /\ ValidBadges(d) /\ ValidReleases(d)

-----------------------------------------------------------------------------
(* BuildPlan                                                               *)

ForkDepth(d, id) ==
  LET depth[i \in Ids(d)] == IF Repo(d, i).fork = 0 THEN 0 ELSE depth[Repo(d, i).fork] + 1
  IN  depth[id]

\* Mutant: repositories are ordered by ID alone.
SortKey_ById(d, r) == IF r.kind = "repository" THEN <<r.id, 0>> ELSE <<0, 0>>

SortKey(d, r) ==
  CASE r.kind = "repository" -> <<ForkDepth(d, r.id), r.id>>
    [] r.kind = "alias" -> Locator(r)
    [] r.kind = "ref" -> <<r.repo, r.name>>
    [] r.kind = "collaborator" -> <<r.repo, r.account>>
    [] r.kind = "total" -> <<r.repo, r.denom>>
    [] r.kind \in {"report", "badge"} -> <<r.id, 0>>
    [] r.kind \in {"username", "reserved"} -> <<r.name, 0>>
    [] r.kind = "release" -> <<r.version, r.platform>>
    [] OTHER -> <<r.repo, 0>>

\* Mutant: of the packs of a ref only the first is copied.
Group_FirstPack(d, k) ==
  SetToSeq({IF k = "ref" THEN [r EXCEPT !.packs = 1] ELSE r : r \in Of(d, k)})

Group(d, k) ==
  SetToSortSeq(Of(d, k), LAMBDA x, y :
    LET p == SortKey(d, x) q == SortKey(d, y) IN p[1] < q[1] \/ (p[1] = q[1] /\ p[2] < q[2]))

\* A record encodes to one unit, a ref to one for each of its packs.
Payload(batch) ==
  FoldLeft(LAMBDA sum, r : sum + IF r.kind = "ref" THEN r.packs ELSE 1, 0, batch)

\* From each start as many records as the size allows, halved until they fit.
BatchesOf(group, size) ==
  LET from[start \in 1..(Len(group) + 1)] ==
        LET fit[n \in 1..size] ==
              IF n = 1 \/ Payload(SubSeq(group, start, start + n - 1)) <= MaximumPayloadBytes
              THEN n ELSE fit[n \div 2]
            count == fit[Min({size, Len(group) - start + 1})]
        IN  IF start > Len(group) THEN <<>>
            ELSE <<SubSeq(group, start, start + count - 1)>> \o from[start + count]
  IN  from[1]

RollingSeed(m, d) == <<m, d>>
RollingStep(root, m, sequence, batch) == Append(root, <<m, sequence, Len(batch), batch>>)
RollingRoot(m, d, batches) ==
  LET root[n \in 0..Len(batches)] ==
        IF n = 0 THEN RollingSeed(m, d) ELSE RollingStep(root[n - 1], m, n - 1, batches[n])
  IN  root[Len(batches)]

Items(batches) == FoldLeft(LAMBDA sum, b : sum + Len(b), 0, batches)

\* The batches of a module, its kinds one after the other.
ModulePlan(d, m, size) ==
  LET batches == FlattenSeq([c \in DOMAIN RequiredModules[m] |->
                               BatchesOf(Group(d, RequiredModules[m][c]), size)])
  IN  [batches |-> batches, count |-> Items(batches), root |-> RollingRoot(m, d, batches)]

BuildPlan(d, size) ==
  [size |-> size, snapshot |-> d,
   summary |-> [k \in Kinds |-> Cardinality(Positions(d, k))],
   modules |-> [m \in DOMAIN RequiredModules |-> ModulePlan(d, m, size)]]

\* What BuildPlan asks of its input: a valid document, a batch size within the
\* limits and, from appendRecordBatches, no record too large for a payload.
Buildable(d, size) ==
  /\ ValidateSnapshot(d)
  /\ size \in 1..MaximumBatchItems
  /\ \A i \in DOMAIN d.records : Payload(<<d.records[i]>>) <= MaximumPayloadBytes

KindCode(m, k) == CHOOSE c \in DOMAIN RequiredModules[m] : RequiredModules[m][c] = k

\* Every batch is within the limits and of one kind, the kinds keep their order,
\* and counts and roots are those of the batches.
ValidatePlan(p) ==
  /\ \A m \in DOMAIN RequiredModules :
       LET batches == p.modules[m].batches
       IN  /\ \A n \in DOMAIN batches :
                LET kind == batches[n][1].kind
                IN  /\ Len(batches[n]) \in 1..p.size
                    /\ Payload(batches[n]) <= MaximumPayloadBytes
                    /\ \A i \in DOMAIN batches[n] : batches[n][i].kind = kind
                    /\ n > 1 => KindCode(m, batches[n - 1][1].kind) <= KindCode(m, kind)
           /\ p.modules[m].count = Items(batches)
           /\ p.modules[m].root = RollingRoot(m, p.snapshot, batches)
  /\ \A k \in Kinds :
       p.summary[k] = Items(SelectSeq(FlattenSeq([m \in DOMAIN RequiredModules |-> p.modules[m].batches]),
                                      LAMBDA batch : batch[1].kind = k))

\* The transactions, in the coordinator's order.
BuildCalldataManifest(p) ==
  LET Begin(m) == [call |-> "begin", module |-> m, count |-> p.modules[m].count,
                   batches |-> Len(p.modules[m].batches), root |-> p.modules[m].root]
      Batch(m, n) == [call |-> "import", module |-> m, sequence |-> n - 1,
                      batch |-> p.modules[m].batches[n]]
      Module(m) ==
        <<Begin(m)>> \o [n \in DOMAIN p.modules[m].batches |-> Batch(m, n)]
          \o (IF m = UsernameModule THEN <<[call |-> "attest", module |-> m]>> ELSE <<>>)
          \o <<[call |-> "finalize", module |-> m]>>
  IN  FlattenSeq([m \in DOMAIN RequiredModules |-> Module(m)])
        \o <<[call |-> "activate", module |-> 0]>>

-----------------------------------------------------------------------------
(* Publication                                                             *)

NoFile == [none |-> TRUE]

\* The output paths are free and the document is accepted.
StartBuild(b) ==
  /\ builders[b].at = "idle"
  /\ files.plan = NoFile /\ files.manifest = NoFile
  /\ \E size \in BatchSizes :
       LET effective == IF size = 0 THEN DefaultBatchSize ELSE size
       IN  /\ Buildable(document, effective)
           /\ builders' = [builders EXCEPT ![b] =
                [at |-> "generated", plan |-> BuildPlan(document, effective)]]
  /\ UNCHANGED <<document, files, verified, submitted, suite>>

\* The plan is validated before anything is written.
Generated(b) ==
  /\ builders[b].at = "generated"
  /\ builders' = [builders EXCEPT ![b].at = IF ValidatePlan(builders[b].plan) THEN "plan" ELSE "invalid"]
  /\ UNCHANGED <<document, files, verified, submitted, suite>>

Exited == [at |-> "stopped", plan |-> NoFile]

\* Mutant: the file is renamed into place.
WriteExclusive_Renames(b, f, content, next) ==
  /\ files' = [files EXCEPT ![f] = content]
  /\ builders' = [builders EXCEPT ![b] = next]

\* A link that fails when the name is taken: the process stops there.
WriteExclusive(b, f, content, next) ==
  IF files[f] = NoFile
  THEN files' = [files EXCEPT ![f] = content] /\ builders' = [builders EXCEPT ![b] = next]
  ELSE builders' = [builders EXCEPT ![b] = Exited] /\ UNCHANGED files

\* publishArtifacts: first the plan, then the manifest.
Publish(b) ==
  LET plan == builders[b].plan
  IN  /\ \/ /\ builders[b].at = "plan"
            /\ WriteExclusive(b, "plan", plan, [at |-> "manifest", plan |-> plan])
         \/ /\ builders[b].at = "manifest"
            /\ WriteExclusive(b, "manifest", BuildCalldataManifest(plan), Exited)
      /\ UNCHANGED <<document, verified, submitted, suite>>

\* The process is killed, or a write fails.
BuildStops(b) ==
  /\ builders[b].at \in {"generated", "plan", "manifest"}
  /\ builders' = [builders EXCEPT ![b] = Exited]
  /\ UNCHANGED <<document, files, verified, submitted, suite>>

VerifyPlan ==
  /\ ~verified /\ files.plan # NoFile /\ files.manifest # NoFile
  /\ ValidatePlan(files.plan)
  /\ files.manifest = BuildCalldataManifest(files.plan)
  /\ verified' = TRUE
  /\ UNCHANGED <<document, builders, files, submitted, suite>>

-----------------------------------------------------------------------------
(* The suite: what the modules accept, record by record                    *)

Stored(have, k) == {r \in ToSet(have) : r.kind = k}
Exists(have, id) == \E r \in Stored(have, "repository") : r.id = id
OwnerOf(have, id) == (CHOOSE r \in Stored(have, "repository") : r.id = id).owner
LocatorFree(have, l) ==
  \A r \in Stored(have, "repository") \cup Stored(have, "alias") : Locator(r) # l
CountFor(have, k, id) == Cardinality({r \in Stored(have, k) : r.repo = id})

AcceptsCore(have, r) ==
  CASE r.kind = "repository" ->
         /\ ~Exists(have, r.id) /\ LocatorFree(have, Locator(r))
         /\ r.fork = 0 \/ Exists(have, r.fork)
    [] r.kind = "alias" -> Exists(have, r.repo) /\ LocatorFree(have, Locator(r))
    [] r.kind = "ref" ->
         /\ Exists(have, r.repo) /\ r.packs \in 1..MaxPacks
         /\ \A x \in Stored(have, "ref") : x.repo # r.repo \/ x.name # r.name
         /\ CountFor(have, "ref", r.repo) < MaxRefsPerRepo
    [] r.kind = "collaborator" ->
         /\ Exists(have, r.repo) /\ r.account # OwnerOf(have, r.repo)
         /\ \A x \in Stored(have, "collaborator") : x.repo # r.repo \/ x.account # r.account
         /\ CountFor(have, "collaborator", r.repo) < MaxCollabs
    [] OTHER -> TRUE

AcceptsGuardians(have, r) ==
  /\ Exists(have, r.repo) /\ r.by = OwnerOf(have, r.repo)
  /\ CountFor(have, "guardians", r.repo) = 0
  /\ Len(r.list) \in 1..MaxConfigGuardians /\ r.threshold \in 1..Len(r.list)
  /\ r.by \notin ToSet(r.list) /\ Distinct(r.list)

AcceptsModeration(have, r) ==
  /\ Exists(have, r.repo)
  /\ CASE r.kind = "status" -> CountFor(have, "status", r.repo) = 0
       [] r.kind = "report" ->
            /\ r.id # 0 /\ \A x \in Stored(have, "report") : x.id # r.id
            /\ r.state = 1 => r.resolution = "active"
            /\ Len(r.trail) = r.state /\ r.trail[1] = "active"
            /\ Last(r.trail) = r.resolution
            /\ r.state \in {2, 3} => r.trail[2] = r.resolution
            /\ r.state = 4 => r.trail[3] = r.trail[2]
       [] r.kind = "trail" ->
            /\ CountFor(have, "trail", r.repo) = 0 /\ r.trail # <<>>
            /\ \A i \in DOMAIN r.trail :
                 r.trail[i].report # 0 =>
                   \E x \in Stored(have, "report") : x.id = r.trail[i].report /\ x.repo = r.repo
            /\ \E x \in Stored(have, "status") : x.repo = r.repo /\ x.status = Last(r.trail).status

AcceptsEconomic(have, r) ==
  /\ Exists(have, r.repo)
  /\ CASE r.kind = "splits" ->
            /\ CountFor(have, "splits", r.repo) = 0 /\ Len(r.list) <= MaxRecipients
            /\ \A i \in DOMAIN r.list : r.list[i].recipient # OwnerOf(have, r.repo) /\ r.list[i].bps # 0
            /\ Distinct(Recipients(r.list)) /\ ShareTotal(r.list) <= WholeShare
       [] r.kind = "total" ->
            /\ r.amount # 0
            /\ \A x \in Stored(have, "total") : x.repo # r.repo \/ x.denom # r.denom

AcceptsUsername(have, r) ==
  /\ \A x \in Stored(have, r.kind) : x.name # r.name
  /\ r.kind = "reserved" => Cardinality(Stored(have, "reserved")) < MaxReserved

AcceptsBadge(have, r) ==
  /\ r.id # 0 /\ \A x \in Stored(have, "badge") : x.id # r.id
  /\ r.recipient # r.by /\ Exists(have, r.repo)

AcceptsRelease(have, r) ==
  \A x \in Stored(have, "release") : x.version # r.version \/ x.platform # r.platform

Accepts(have, r) ==
  CASE r.kind \in ToSet(RequiredModules[1]) -> AcceptsCore(have, r)
    [] r.kind = "guardians" -> AcceptsGuardians(have, r)
    [] r.kind \in ToSet(RequiredModules[3]) -> AcceptsModeration(have, r)
    [] r.kind \in ToSet(RequiredModules[4]) -> AcceptsEconomic(have, r)
    [] r.kind \in ToSet(RequiredModules[5]) -> AcceptsUsername(have, r)
    [] r.kind = "badge" -> AcceptsBadge(have, r)
    [] r.kind = "release" -> AcceptsRelease(have, r)

-----------------------------------------------------------------------------
(* The coordinator                                                         *)

NotStarted == [started |-> FALSE, count |-> 0, batches |-> 0, root |-> <<>>,
               imported |-> 0, sequence |-> 0, rolling |-> <<>>]

EmptySuite == [next |-> 1, progress |-> NotStarted, attested |-> FALSE, active |-> FALSE,
               reverted |-> FALSE, have |-> <<>>]

Begin(s, t) ==
  IF s.next # t.module \/ s.progress.started
  THEN [s EXCEPT !.reverted = TRUE]
  ELSE [s EXCEPT !.progress = [started |-> TRUE, count |-> t.count, batches |-> t.batches,
                               root |-> t.root, imported |-> 0, sequence |-> 0,
                               rolling |-> RollingSeed(t.module, document)]]

\* Each record is checked against those before it in the same payload too.
ImportBatch(s, t) ==
  LET p == s.progress
      count == Len(t.batch)
      ok == /\ s.next = t.module /\ p.started
            /\ t.sequence = p.sequence
            /\ p.imported + count <= p.count /\ t.sequence + 1 <= p.batches
            /\ count \in 1..MaximumBatchItems /\ Payload(t.batch) <= MaximumPayloadBytes
            /\ \A i \in 1..count : Accepts(s.have \o SubSeq(t.batch, 1, i - 1), t.batch[i])
  IN  IF ok
      THEN [s EXCEPT !.have = @ \o t.batch,
                     !.progress = [p EXCEPT !.imported = @ + count, !.sequence = @ + 1,
                        !.rolling = RollingStep(@, t.module, t.sequence, t.batch)]]
      ELSE [s EXCEPT !.reverted = TRUE]

Attest(s) == IF s.attested THEN [s EXCEPT !.reverted = TRUE] ELSE [s EXCEPT !.attested = TRUE]

Finalize(s, t) ==
  LET p == s.progress
  IN  IF /\ s.next = t.module /\ p.started
         /\ p.imported = p.count /\ p.sequence = p.batches /\ p.rolling = p.root
         /\ t.module = UsernameModule => s.attested
      THEN [s EXCEPT !.next = @ + 1, !.progress = NotStarted]
      ELSE [s EXCEPT !.reverted = TRUE]

Activate(s) ==
  IF s.next = Len(RequiredModules) + 1 /\ s.attested
  THEN [s EXCEPT !.active = TRUE]
  ELSE [s EXCEPT !.reverted = TRUE]

\* The operator sends the transactions of a verified manifest in order.
SendNext ==
  /\ verified /\ submitted < Len(files.manifest) /\ ~suite.reverted
  /\ LET t == files.manifest[submitted + 1]
     IN  suite' = CASE t.call = "begin" -> Begin(suite, t)
                    [] t.call = "import" -> ImportBatch(suite, t)
                    [] t.call = "attest" -> Attest(suite)
                    [] t.call = "finalize" -> Finalize(suite, t)
                    [] t.call = "activate" -> Activate(suite)
  /\ submitted' = submitted + 1
  /\ UNCHANGED <<document, builders, files, verified>>

PlanInit ==
  /\ document \in Documents
  /\ builders = [b \in Builders |-> [at |-> "idle", plan |-> NoFile]]
  /\ files = [plan |-> NoFile, manifest |-> NoFile]
  /\ verified = FALSE /\ submitted = 0
  /\ suite = EmptySuite

PlanNext == (\E b \in Builders : StartBuild(b) \/ Generated(b) \/ Publish(b) \/ BuildStops(b)) \/ VerifyPlan \/ SendNext

PlanSpec == PlanInit /\ [][PlanNext]_planVars

-----------------------------------------------------------------------------
(* What the tool promises                                                  *)

\* No transaction of a verified manifest reverts: what validateSnapshot accepts,
\* sorted and cut into batches, passes every check of the seven modules and the
\* coordinator, so an import never stops half-way.
ImportsAccepted == ~suite.reverted

\* The suite that goes active holds each record of the snapshot once and
\* nothing else.
ActiveSuiteExact ==
  suite.active =>
    /\ ToSet(suite.have) = ToSet(document.records)
    /\ Len(suite.have) = Len(document.records)

\* A published manifest is the manifest of the published plan, whichever of two
\* builds with different batch sizes was first or was killed between the files.
PublishedPairAgrees ==
  files.manifest # NoFile =>
    files.plan # NoFile /\ files.manifest = BuildCalldataManifest(files.plan)

=============================================================================

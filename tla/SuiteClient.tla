----------------------------- MODULE SuiteClient -----------------------------
(* The Go client of the active suite: EVMSuiteRegistry                        *)
(* (src/cli/internal/chain/evm_suite_registry.go) over a JSON-RPC node, and   *)
(* the commands of cmd/igit that are built from its methods, while other      *)
(* accounts keep changing the chain between any two of its requests.          *)
(*                                                                            *)
(* A registry method is written as the sequence of the requests it makes, a   *)
(* command as the set of the sequences it can run, and the actions below      *)
(* carry a sequence out one request at a time.  What a view function of the   *)
(* contracts returns is the version of a cell of the chain; the cells in      *)
(* Lists are arrays read page by page.                                        *)
EXTENDS Naturals, Sequences, FiniteSetsExt

CONSTANTS PageSize,     \* suiteQueryPageSize
          MaxAttempts,  \* maxRPCAttempts
          MaxBlocks,    \* bound on the height of the chain
          Contents,     \* the array that each version of a list stands for
          Genuine,      \* the suite a profile names
          Directories,  \* what the address in the profile may hold
          ProfileChain, \* the chain of the profile
          NoContract    \* an address without code

VARIABLES blocks,     \* per height, the version of every cell
          directory,  \* what the address in the profile holds
          program,    \* the command that runs
          todo,       \* the requests it has still to make
          info,       \* the height its registry verified the suite at, or 0
          tag,        \* the height a query is pinned to
          answer,     \* the cells read since then, with the versions read
          listing,    \* the list that is read page by page, or ""
          listed,     \* what its pages held
          resolved,   \* the version of the repository resolved last
          attempts,   \* failed attempts of the request
          sent,       \* the transactions mined
          outcome     \* "ok", or why the command stopped

clientVars == <<blocks, directory, program, todo, info, tag, answer, listing, listed,
          resolved, attempts, sent, outcome>>

Lists == {"repositories", "refs", "collaborators", "badges", "artifacts",
          "trail", "guardians", "denoms"}

Cells == Lists \cup {"suite", "repository", "status", "ref", "usernames", "transfer",
                     "proposal", "approvals", "report", "splits", "totals"}

RequiredSuiteModules == {"core", "recovery", "moderation", "economic", "username",
                         "badge", "release"}

SupportedSuiteVersion == 3

-----------------------------------------------------------------------------
(* Requests                                                                 *)

Request(do, of, each) == <<[do |-> do, of |-> of, each |-> each]>>

\* A new registry object, which has not verified the suite yet.
NewBackend == Request("backend", "", "")

SnapshotBlockTag == Request("pin", "", "")

\* A view at the pinned height, and one at "latest".
Read(c) == Request("read", c, "")

Latest(c) == Request("latest", c, "")

\* A loop over the pages of a list, with a view for each element of a page.
Pages(c, each) == Request("pages", c, each)

\* A view for each element of a list that was read in one piece.
ForEach(c, each) == Request("foreach", c, each)

\* Stop unless the locator is the repository's current one.
Canonical == Request("canonical", "", "")

Send(f) == Request("send", f, "")

-----------------------------------------------------------------------------
(* EVMSuiteRegistry                                                         *)

ResolveRepo == SnapshotBlockTag \o Read("repository") \o Read("status")

RepoForWrite_Alias == Latest("repository") \o Latest("status")

RepoForWrite == Latest("repository") \o Latest("status") \o Canonical

CreateRepo == Send("createRepository")

ForkRepo == RepoForWrite \o Send("forkRepository")

UpdateRepoInfo == RepoForWrite \o Send("updateMetadata")

UpdateRef == RepoForWrite \o Send("updateRef")

DeleteRef == RepoForWrite \o Send("deleteRef")

SetCollaborator == RepoForWrite \o Send("setCollaborator")

ListRepos == SnapshotBlockTag \o Pages("repositories", "status")

ListRefs == ResolveRepo \o Pages("refs", "")

ResolveRef == ResolveRepo \o Read("ref")

ListCollaborators == ResolveRepo \o Pages("collaborators", "")

ResolveUsername == SnapshotBlockTag \o Read("usernames")

AddressUsername == SnapshotBlockTag \o Read("usernames")

UsernameCalls ==
  {Send(f) : f \in {"registerUsername", "claimOriginalUsername", "releaseUsername"}}

BeginOwnershipTransfer == Canonical \o Send("beginOwnershipTransfer")

CancelOwnershipTransfer == Canonical \o Send("cancelOwnershipTransfer")

RejectOwnershipTransfer == CancelOwnershipTransfer

ExpireOwnershipTransfer == Send("expireOwnershipTransfer")

AcceptOwnership == Send("acceptOwnershipTransfer")

PendingOwnershipTransfer == SnapshotBlockTag \o Read("transfer")

SetGuardians == RepoForWrite \o Send("setGuardians")

ProposeRecovery == RepoForWrite \o Send("proposeRecovery")

ApproveRecovery == RepoForWrite \o Send("approveRecovery")

CancelRecovery == RepoForWrite \o Send("cancelRecovery")

AcceptRecovery == RepoForWrite \o Send("executeRecovery")

\* The approvals are asked for when there is a proposal.
OwnershipSecurity(proposed) ==
  ResolveRepo \o Read("transfer") \o Read("guardians") \o Read("proposal")
    \o (IF proposed THEN ForEach("guardians", "approvals") ELSE <<>>)

SetModerationStatus == RepoForWrite \o Send("setRepositoryStatus")

SubmitModerationReport == RepoForWrite \o Send("submitReport")

ReportCalls == {Send(f) : f \in {"resolveReport", "resolveAppeal", "appealReport"}}

ModerationReport ==
  SnapshotBlockTag \o Read("report") \o Read("repository") \o Pages("trail", "")

Sponsor == RepoForWrite \o Send("sponsor")

SetRevenueSplits == RepoForWrite \o Send("setRevenueSplits")

RevenueSplits == ResolveRepo \o Read("splits")

SponsorTotals == ResolveRepo \o Read("denoms") \o ForEach("denoms", "totals")

AwardBadge == RepoForWrite \o Send("awardBadge")

BadgesByRecipient == SnapshotBlockTag \o Pages("badges", "repository")

BadgesByRepo == ResolveRepo \o Pages("badges", "repository")

\* One transaction per artifact; this release has two.
RegisterRelease == Send("registerArtifact") \o Send("registerArtifact")

ReleaseArtifacts == SnapshotBlockTag \o Pages("artifacts", "")

-----------------------------------------------------------------------------
(* The commands of igit                                                     *)

Each(prefixes, methods) == {p \o m : p \in prefixes, m \in methods}

\* An address is taken as it is, a username is resolved.
ResolveRegistryOwner == {NewBackend, NewBackend \o ResolveUsername}

CmdInit == {NewBackend \o CreateRepo}

CmdRepos == {NewBackend \o ListRepos}

CmdRefs == {NewBackend \o ListRefs}

CmdCollab == {NewBackend \o SetCollaborator, NewBackend \o ListCollaborators}

CmdTransfer ==
  Each(Each(ResolveRegistryOwner, {ResolveRepo}),
       {AcceptOwnership, RejectOwnershipTransfer, ExpireOwnershipTransfer,
        PendingOwnershipTransfer})
  \cup Each({NewBackend \o ResolveRepo}, {CancelOwnershipTransfer, BeginOwnershipTransfer})

CmdGuardians ==
  Each({NewBackend},
       {SetGuardians, ProposeRecovery, ApproveRecovery, CancelRecovery, AcceptRecovery}
         \cup {OwnershipSecurity(b) : b \in BOOLEAN})

CmdRepo == {NewBackend \o UpdateRepoInfo}

CmdMod ==
  Each({NewBackend},
       {SubmitModerationReport, ModerationReport, SetModerationStatus} \cup ReportCalls)

CmdSponsor == Each(ResolveRegistryOwner, {NewBackend \o Sponsor})

CmdFork == Each(ResolveRegistryOwner, {NewBackend \o ForkRepo})

CmdBadge == Each(ResolveRegistryOwner, {NewBackend \o AwardBadge, NewBackend \o BadgesByRecipient})

CmdSplits ==
  Each(ResolveRegistryOwner, {NewBackend \o SetRevenueSplits, NewBackend \o RevenueSplits})

CmdUsername ==
  Each({NewBackend}, UsernameCalls \cup {AddressUsername, ResolveUsername})

CmdRelease == {NewBackend \o RegisterRelease, NewBackend \o ReleaseArtifacts}

\* The remote helper: a push lists the refs of a repository that has not moved
\* and updates or deletes one of them, a fetch reads them through an alias too.
HelperRun ==
  Each(ResolveRegistryOwner,
       Each({ResolveRepo \o Canonical \o ListRefs}, {UpdateRef, DeleteRef})
         \cup {ResolveRepo \o ListRefs, ResolveRef})

\* The pushes after the creation are git's, with a helper of their own.
CmdImport ==
  {NewBackend \o CreateRepo \o NewBackend \o ResolveRepo \o Canonical \o ListRefs \o UpdateRef}

\* Methods that no command of this repository calls.
Uncalled == Each({NewBackend}, {SponsorTotals, BadgesByRepo})

Programs ==
  UNION {CmdInit, CmdImport, CmdRepos, CmdRefs, CmdCollab, CmdTransfer, CmdGuardians,
         CmdRepo, CmdMod, CmdSponsor, CmdFork, CmdBadge, CmdSplits, CmdUsername,
         CmdRelease, HelperRun, Uncalled}

-----------------------------------------------------------------------------
(* The chain                                                                *)

\* The parts of the chain a program looks at.
Touched(p) == {r.of : r \in Range(p)} \cup {r.each : r \in Range(p)}

Height == Len(blocks)

Newest == blocks[Height]

Active(b) == b["suite"] = 1

\* Repositories change hands: the locator of the program is the current one in
\* every other version.
IsCanonical(version) == version % 2 = 0

FirstBlock(active, version) ==
  [c \in Cells |-> IF c = "suite" THEN active ELSE IF c = "repository" THEN version ELSE 0]

ClientInit ==
  /\ program \in Programs
  /\ directory \in Directories
  /\ \E active \in 0..1, version \in 0..1 : blocks = <<FirstBlock(active, version)>>
  /\ todo = program
  /\ info = 0 /\ tag = 0 /\ answer = {} /\ listing = "" /\ listed = <<>>
  /\ resolved = 0 /\ attempts = 0 /\ sent = <<>> /\ outcome = "ok"

\* What a transaction of somebody else changes of it: a single cell, or several
\* at once, as a change of ownership does.
Changes(p) ==
  LET cells == (Touched(p) \cap Cells) \ {"suite"}
  IN {{c} : c \in cells} \cup {cells, {"suite"}}

\* A block with such a transaction; the suite is activated once and for all.
NewBlock ==
  /\ Height < MaxBlocks /\ todo # <<>>
  /\ \E S \in Changes(program) \ {{}} :
       /\ "suite" \in S => ~Active(Newest)
       /\ "suite" \notin S => Active(Newest)
       /\ blocks' = Append(blocks, [c \in Cells |-> Newest[c] + (IF c \in S THEN 1 ELSE 0)])
  /\ UNCHANGED <<directory, program, todo, info, tag, answer, listing, listed, resolved,
                 attempts, sent, outcome>>

-----------------------------------------------------------------------------
(* The requests of a program                                                *)

Next1 == Head(todo)

Asks(do) == todo # <<>> /\ Next1.do = do

Verified == info # 0

\* The command ends without the rest of its requests.
Stop(why) == todo' = <<>> /\ outcome' = why

\* NewEVMSuiteRegistry: nothing is verified.
Construct ==
  /\ Asks("backend")
  /\ todo' = Tail(todo) /\ info' = 0
  /\ UNCHANGED <<blocks, directory, program, tag, answer, listing, listed, resolved,
                 attempts, sent, outcome>>

\* The coordinator and the modules that the directory names exist, are the code
\* it committed to, and name it in turn.
TrustChain(d) ==
  /\ d.snapshotRoot # 0
  /\ d.coordinator.address # NoContract
  /\ d.coordinator.code = d.coordinatorCodeHash
  /\ d.coordinator.suiteDirectory = d.address
  /\ d.coordinator.snapshotRoot = d.snapshotRoot
  /\ \A m \in RequiredSuiteModules :
       /\ d.modules[m].address # NoContract
       /\ d.modules[m].code = d.moduleCodeHash[m]
       /\ d.modules[m].suiteDirectory = d.address
       /\ d.modules[m].bootstrapCoordinator = d.coordinator.address
       /\ d.modules[m].moduleId = m

SupportedDirectory(d) ==
  /\ d.code # NoContract
  /\ d.chain = ProfileChain
  /\ d.version = SupportedSuiteVersion

VerifySuite_AnyState(d, b) == SupportedDirectory(d) /\ TrustChain(d)

\* Everything is read at one height.
VerifySuite(d, b) == SupportedDirectory(d) /\ Active(b) /\ TrustChain(d)

\* The elements of the lists are numbered.  An address that does not hold the
\* suite of the profile differs from it in something the trust chain covers.
ASSUME ClientAssumption ==
  /\ PageSize \in Nat \ {0} /\ MaxBlocks \in Nat \ {0}
  /\ Contents \in [Lists -> [0..(MaxBlocks - 1) -> Seq(Nat)]]
  /\ \A d \in Directories : SupportedDirectory(d) /\ TrustChain(d) => d = Genuine

\* The first request of a registry verifies the suite and keeps the result.
EnsureVerified ==
  /\ todo # <<>> /\ Next1.do \notin {"backend", "canonical"} /\ ~Verified
  /\ IF VerifySuite(directory, Newest)
     THEN info' = Height /\ UNCHANGED <<todo, outcome>>
     ELSE Stop("unverified") /\ UNCHANGED info
  /\ attempts' = 0
  /\ UNCHANGED <<blocks, directory, program, tag, answer, listing, listed, resolved, sent>>

PinBlock ==
  /\ Asks("pin") /\ Verified
  /\ todo' = Tail(todo)
  /\ tag' = Height /\ answer' = {} /\ listing' = "" /\ listed' = <<>>
  /\ attempts' = 0
  /\ UNCHANGED <<blocks, directory, program, info, resolved, sent, outcome>>

\* The height a view of the running query is evaluated at.
ViewHeight_Latest == Height

ViewHeight == tag

Resolve(c, version) == IF c = "repository" THEN version ELSE resolved

ReadView ==
  /\ Asks("read") /\ Verified
  /\ LET version == blocks[ViewHeight][Next1.of]
     IN /\ answer' = answer \cup {<<Next1.of, version>>}
        /\ resolved' = Resolve(Next1.of, version)
  /\ todo' = Tail(todo) /\ attempts' = 0
  /\ UNCHANGED <<blocks, directory, program, info, tag, listing, listed, sent, outcome>>

\* repoForWrite reads the newest block, and only to find the repository.
ReadLatest ==
  /\ Asks("latest") /\ Verified
  /\ resolved' = Resolve(Next1.of, Newest[Next1.of])
  /\ todo' = Tail(todo) /\ attempts' = 0
  /\ UNCHANGED <<blocks, directory, program, info, tag, answer, listing, listed, sent, outcome>>

\* A page from the cursor: at most PageSize elements.
Page(list, cursor) == SubSeq(list, cursor + 1, Min({cursor + PageSize, Len(list)}))

LastPage(page) == page = <<>> \/ Len(page) < PageSize

ItemViews(page, each) ==
  IF each = "" THEN <<>> ELSE [i \in 1..Len(page) |-> Read(each)[1]]

\* One page; then the views of its elements, and the next page after a full one.
\* A cursor past the end, which only a list that shrank could lead to, reverts.
ReadPage ==
  /\ Asks("pages") /\ Verified
  /\ LET version == blocks[ViewHeight][Next1.of]
         list    == Contents[Next1.of][version]
         cursor  == Len(listed)
         page    == Page(list, cursor)
     IN IF cursor > Len(list)
        THEN Stop("failed") /\ UNCHANGED <<answer, listing, listed>>
        ELSE /\ answer' = answer \cup {<<Next1.of, version>>}
             /\ listing' = Next1.of
             /\ listed' = listed \o page
             /\ todo' = ItemViews(page, Next1.each) \o (IF LastPage(page) THEN Tail(todo) ELSE todo)
             /\ UNCHANGED outcome
  /\ attempts' = 0
  /\ UNCHANGED <<blocks, directory, program, info, tag, resolved, sent>>

\* A loop over a list that was read already.
Unroll ==
  /\ Asks("foreach")
  /\ todo' = ItemViews(Contents[Next1.of][blocks[tag][Next1.of]], Next1.each) \o Tail(todo)
  /\ UNCHANGED <<blocks, directory, program, info, tag, answer, listing, listed, resolved,
                 attempts, sent, outcome>>

RequireCanonical ==
  /\ Asks("canonical")
  /\ IF IsCanonical(resolved) THEN todo' = Tail(todo) /\ UNCHANGED outcome ELSE Stop("moved")
  /\ UNCHANGED <<blocks, directory, program, info, tag, answer, listing, listed, resolved,
                 attempts, sent>>

\* The transaction is mined with a successful receipt (EVMTransactor models the rest).
SendTransaction ==
  /\ Asks("send") /\ Verified
  /\ sent' = Append(sent, Next1.of)
  /\ todo' = Tail(todo) /\ attempts' = 0
  /\ UNCHANGED <<blocks, directory, program, info, tag, answer, listing, listed, resolved, outcome>>

Requests == {"pin", "read", "latest", "pages", "send"}

NextAttempt(n) == n + 1

\* A timeout, a busy node or a broken connection: up to MaxAttempts attempts.
RetryCall ==
  /\ todo # <<>> /\ (Next1.do \in Requests \/ ~Verified)
  /\ Next1.do \notin {"backend", "canonical"}
  /\ attempts' = NextAttempt(attempts)
  /\ IF attempts' < MaxAttempts THEN UNCHANGED <<todo, outcome>> ELSE Stop("failed")
  /\ UNCHANGED <<blocks, directory, program, info, tag, answer, listing, listed, resolved, sent>>

\* An answer that is not retried: a revert, a missing record, a malformed reply.
CallFails ==
  /\ todo # <<>> /\ Next1.do \in Requests /\ Verified
  /\ Stop("failed")
  /\ UNCHANGED <<blocks, directory, program, info, tag, answer, listing, listed, resolved,
                 attempts, sent>>

Client ==
  \/ Construct \/ EnsureVerified \/ PinBlock \/ ReadView \/ ReadLatest \/ ReadPage \/ Unroll
  \/ RequireCanonical \/ SendTransaction \/ RetryCall \/ CallFails

ClientNext == NewBlock \/ Client

\* The command runs on while its process is alive; nobody has to use the chain.
ClientSpec == ClientInit /\ [][ClientNext]_clientVars

-----------------------------------------------------------------------------
(* Properties                                                               *)

\* What a query of the registry has read so far is the state of one block: the
\* versions of all cells, and the elements of a list, each once and in order,
\* whatever is removed or added while the pages are read.  When the command ends
\* well, the list is complete.
QueriesExact ==
  /\ answer # {} =>
       \E h \in 1..Height :
         /\ \A a \in answer : blocks[h][a[1]] = a[2]
         /\ listing # "" =>
              LET list == Contents[listing][blocks[h][listing]]
              IN  \E n \in 0..Len(list) : listed = SubSeq(list, 1, n)
  /\ listing # "" /\ todo = <<>> /\ outcome = "ok" =>
       listed = Contents[listing][blocks[tag][listing]]

\* Calls of the new owner, or of anyone after the deadline, that work through
\* the old locator.
ThroughAlias == {"acceptOwnershipTransfer", "expireOwnershipTransfer"}

\* Functions that do not name a repository by its locator.
Unlocated ==
  {"createRepository", "registerArtifact"} \cup {u[1].of : u \in UsernameCalls \cup ReportCalls}

\* A transaction on a repository that was named by a locator is sent only if
\* that locator was the repository's current one while the command ran: an
\* old link never redirects a write (RepoMovedError).
WritesThroughCurrentLocator ==
  \A f \in Range(sent) \ (ThroughAlias \cup Unlocated) :
    \E h \in 1..Height : IsCanonical(blocks[h]["repository"])

\* Nothing is read from, and no transaction is sent to, anything but the
\* active suite of the profile, although the suite is verified only once per
\* registry and may have been looked at while it was bootstrapped.
OnlyTheActiveSuite ==
  answer # {} \/ sent # <<>> => directory = Genuine /\ Active(Newest)

=============================================================================

# igit in TLA+

igit is decentralised Git: repositories, refs, collaborators and their history
of owners live in an immutable suite of EVM contracts; packs live in IPFS; a Git
remote helper, a replication daemon and operator tools connect the two. This
directory models the parts whose correctness depends on the order of calls,
checks them with TLC on small instances and proves the most important results
with TLAPS for every instance.

## The system

| Part | State | Module | What makes it hard |
|---|---|---|---|
| `RepositoryCore` | repositories, locators, reservations, refs, collaborators, owners' lists, pending transfers | `RepositoryCore`, `Suite` | aliases kept for ever while locators are contended; lists kept by swap-and-pop; windows in time |
| `RecoveryModule` | guardians, one proposal per repository, approvals per nonce | `RecoveryModule`, `Suite` | races with transfers; approvals are never deleted |
| `EconomicModule` | splits, fees, totals, a settlement lock | `EconomicModule`, `Suite`, `Settlement` | payouts call out in the middle of a loop; rounding |
| `ModerationModule` | committee, statuses, reports, two trails | `ModerationModule`, `Suite` | decisions of several paths on one status |
| `SuiteDirectory`, `BootstrapCoordinator`, `SuiteModule` | bindings, progress of imports in two copies, activation | `SuiteBootstrap`, `SuiteLifecycle` | one-way steps, checked twice in two contracts |
| `UsernameModule`, `BadgeModule`, `ReleaseModule` | records and lists | `MigrationPlan`, their imports only | ids and names that continue behind imported ones |
| Git remote helper | refs and packs read from the chain | `RemoteHelper` | a pack is uploaded before the compare-and-set |
| IPFS client, replication client, `igit-replicationd`, reaper | tickets, pins | `Replication` | a ticket's failure or expiry against other users of the content; a reaper that knows only the archived contract |
| Nonce manager and transactor | the next nonce | `EVMTransactor` | a broadcast whose outcome is unknown |
| EVM suite client, the commands of `igit` | the verified suite, a block tag | `SuiteClient` | pages and look-ups while the chain moves |
| Deployment and bootstrap tools | evidence files, the contracts | `SuiteDeployment` | a stop between a transaction and its evidence |
| V1 archive | exported events, an inventory, a snapshot | `ArchiveInventory` | incomplete or reordered evidence |
| Migration planning | snapshot, plan and manifest files | `MigrationPlan` | what one program accepts, seven contracts must take |
| Configuration, keys, setup | files of one user | `Workstation` | processes without a lock, stopped at any step |

Calls between contracts happen inside one transaction: a change of owner in
`RepositoryCore` runs `EconomicModule.clearRevenueSplitsOnOwnershipTransfer`,
which runs `RecoveryModule.cancelRecovery`; refs and forks ask
`ModerationModule`; transfers ask `RecoveryModule` and recoveries ask
`RepositoryCore`. A revert anywhere undoes the transaction, so one TLA+ action is
one transaction and its guard joins the checks of every contract on the way.

## The modules

* `RepositoryCore`, `RecoveryModule`, `EconomicModule`, `ModerationModule`: one
  module for each contract, with its storage as variables and each function as an
  operator that constrains that contract's variables only. Functions keep their
  names (`beginOwnershipTransfer` is `BeginOwnershipTransfer`).
* `Suite` joins them: an action for each external function, with the hooks it
  runs in the other contracts, the import functions before activation and the
  clock.
* `Settlement` extends `Suite` with `sponsor` and `setFeeConfig`. One payment is
  one step, and after a payment that was not zero the payee may call any function
  of the suite (`CalledBack`). The splits are read again for each payment and the
  owner only once, as in the code. A payment that cannot be made reverts the
  transaction, as if it had never been sent: such a state has no successor.
* `SuiteBootstrap`: the three contracts that bring a suite to life, every call by
  every caller. `SuiteLifecycle` is what they promise, three actions long;
  `SuiteBootstrap!ImplementsLifecycle` states that they keep it.
* `RemoteHelper`: several helpers with their own clones and one registry. `list`
  fills a cache, `push` decides from it which objects go into a pack and queues a
  transaction, the transaction is mined later against the registry of that
  moment, `fetch` indexes the packs of the cached lists.
* `Replication`: what lies between the upload of a pack and its `update_ref`: the
  local node, the ticket, the confirmation and its retries, the daemon with its
  mutex, its Kubo node and its state file, and the reaper. The reaper asks the
  archived V1 contract (`replication-reaper.sh:17`, `:61`) about the owners and
  repositories in its state file; it never sees the refs that a push writes to the
  EVM suite. `V1Refs` is what that contract names, and no action changes it. Whether
  the reaper's timer is on is an operator's choice, the variable `timer`; the
  operations guide keeps it disabled until the script is bound to the EVM suite
  (`docs/operations/infrastructure.md:41-43`, `:95-97`). Both settings are checked and
  proved.
* `EVMTransactor`: operations of two processes that share an account. One step
  for each request of `transact`: the nonce, the preparation, the broadcast, the
  polls; `EVMRPC.Call`'s attempts and `WaitReceipt`'s tolerance are counted.
  `AdjustEVMGasLimit` is an operator, compared with exact arithmetic.
* `SuiteClient`: a method of `EVMSuiteRegistry` is the sequence of its requests and
  a command of `igit` the set of sequences it can run; the actions carry a
  sequence out one request at a time while other accounts change the chain.
* `SuiteDeployment` extends `SuiteBootstrap` with the tools that operate it,
  `igit-deploy-suite`, `evm-demo-deploy-rest`, `evm-demo-bootstrap` and
  `evm-activate-suite`. Each is a list of items of work. An item looks at the
  chain, writes evidence, sends and waits, and can be cut off at each of these.
* `ArchiveInventory`: the V1 contract as a source of events, the exported
  documents, `igit archive inventory` and `igit archive verify`.
* `MigrationPlan`: `igit-suite-migrate` from a document to the published plan and
  manifest, and the import functions of all seven modules at the other end. The
  tool's checks and the contracts' checks are separate definitions.
* `Workstation`: the files under `~/.igit` and the processes that share them.
* `SuiteStepProofs`, `ModuleProofs`, `SuiteProofs`: the theorems about the suite and
  its sponsorships. `SuiteBootstrapProofs`, `SuiteDeploymentProofs`: about the
  bootstrap and the tools. `ChainClientProofs`: about `SuiteClient` and
  `EVMTransactor`. `UserMachineProofs`: about `RemoteHelper` and `Workstation`.
  `PublishingProofs`: about `Replication` and the publication of a plan.
* `MC...`: the instances. `MCMigration` joins the two ends of the migration, which
  share no file: the converter from a V1 archive to a suite snapshot is not in
  the repository.

### What is abstracted

* Names, commits, content identifiers, reasons and messages are model values; the
  syntax checks on them are left out. A repository is identified by its creator
  and first name, as the hash in `createRepository` does.
* A ref's list of pack URIs is a set: the properties do not depend on its order,
  and its bound is kept.
* `now` is the block timestamp. The delay and window of transfers and proposals
  are constants; `MaxTime` bounds the clock.
* In `SuiteBootstrap` a hash is what it commits to, so distinct contents have
  distinct hashes. A payload stands for its records there; `Suite` has what the
  records do. Direct calls to `configureModule` and `activate`, which are
  rejected for every caller but the coordinator, are not separate actions.
* In `Suite`, `stage` stands for the bootstrap: the stages of the modules it
  does not contain are empty.
* In `RemoteHelper` a commit stands for the trees and blobs it introduces, and a
  pack for the commits in it and the bases outside it that its deltas need. Packs
  are built with `--thin`, so any parent left out may be such a base. Git's own
  fast-forward check is the guard `GitSends`. Who may push, and the limits on
  refs and packs, are `RepositoryCore`'s. The refusal of a moved repository, the
  preflight and the fetch of a ref that was not listed are left out.
* In `Replication` the pushes share a machine and a repository, as the ones that
  can disturb each other do. A step of the daemon ends at each call to Kubo or to
  the state file. Requests are lost by a client that gives up or a daemon that
  restarts; a row of the state file is written whole or not at all. The pages of
  one listing of the reaper are one step: the archived contract does not change.
* In `Settlement` there is one denomination, the one that `sponsor` receives.
* In `EVMTransactor` the node keeps one transaction for each nonce and mines nonces
  in order; gas prices, calldata and signatures are left out. The word of
  `GasLimitExact` has 5 bits: its three checks all meet their boundary there.
* In `SuiteClient` what a view returns is the version of a cell; lists are arrays.
  Decoding and printing are left out. What a transaction does is in `Suite`.
* In `SuiteDeployment` runtime code, constructor arguments and receipts are
  compared as the tools compare them, and are otherwise model values.
* In `ArchiveInventory` and `MigrationPlan` hashes are what they commit to, payloads
  are measured in records, and strings are numbers, so that sorting is an order.
* In `Workstation` a file is what its readers take from it. A file is replaced by a
  rename, as `fileprotection.WriteFile` does, so it is never half written. Of the
  fields that a network profile owns, `evm_rpc` stands for those the published
  profiles fill (`evm_chain_id` and `evm_explorer` among them) and
  `evm_suite_directory_address` for those they leave empty. A value that the user
  sets in one carries the network that was selected then (`Override`). `config set`
  takes any key name and any keystore directory; each directory has an index and key
  files of its own. `ipfs_api`, `ipfs_gateway` and `upload.*` are left out: no step
  modelled here reads them. `ipfs init` makes a whole repository or none, and the
  doctor's checks of the network are taken to pass, so `SetupConverges` is about the
  files and the daemon of the user.
* Events and the views that no client of this list uses are left out.

## The runs

| Run | Question | Bounds |
|---|---|---|
| `ownership` | Do transfers, recoveries, guardians, splits and locators stay consistent, and does ownership move by consent only? | three accounts; one repository with two guardians, two proposals and five ticks, enough for an offer to expire and a proposal to be cancelled and repeated; or up to four repositories of two accounts with two names, exchanged in both directions |
| `moderation` | Do statuses, reports and trails tell the same story, are the lists of refs and collaborators exact, and is every sponsorship paid out? | two reports, two entries a trail, a changing committee, a change of owner; two refs, two commits, two collaborators; one sponsorship of 5 with shares and fee of a third, so that every division has a rest |
| `import` | Does any snapshot that the import functions accept give a consistent suite, and do frozen repositories stand still? | three records, then the active suite with one ref, one report, forks |
| `bootstrap` | Is an active suite complete, whatever anyone sends? | three modules, five contracts, imports of none, one and two batches, wrong commitments included |
| `push` | Do stale caches and late transactions ever lose part of a history? | two helpers, two refs, a fork of three commits, three transactions: a base, a push on it and a competitor, or a force or a deletion |
| `replication` | Is a confirmed push recorded, and does its content stay pinned? | two pushes of the same content, one of them named by the archived contract; two requests each; the clock past the end of a ticket; the reaper's timer on and off |
| `transactor` | Are nonces, caches and reported outcomes right over a faulty node, and does every operation return? | two operations of one process and one of another, three nonces, two attempts, two poll errors |
| `client` | Does a query see one block and a complete list, and a write the current locator of the active suite? | every command, lists of two to five elements in pages of two, three blocks, suites that are wrong in three ways |
| `deployment` | Is the evidence complete and true, and do reruns end with an active suite? | two modules, three faults of any kind at any place |
| `activation` | Does `evm-activate-suite` activate an empty suite? | the same without faults; see the finding |
| `migration` | Does verification accept only right archives, and does every accepted document become exactly its suite? | histories of five transactions with one wrong document; documents with each kind of record right and wrong, alone and in pairs; two builders |
| `workstation` | Do configuration, keys and installation survive processes that overlap, fail and are killed? | two processes, one other command, one fault, two key names, the default keystore and another directory |

Numbers are one above the interesting boundary: a limit of two is reached and
exceeded, a list of two has a first and a last element. Several runs ask more than
one question of one instance. Their constraints (`OneConcern`, `PricedApart`,
`ReportsApart`, `MCOneTopic`) keep the states of two questions from multiplying:
they name the combinations whose successors are left out. In `moderation`, a
repository that is sponsored has no refs, collaborators, reports or decisions. In
`migration`, the constraint begins after three transactions. In `workstation` it
separates setups that install Kubo from the other commands.

Deadlock is not checked where a bound on the clock or on commands, an active suite,
or a call that reverts ends the behaviour.

### Fairness

* `transactor`: a process that can go on does, and the timer of `WaitReceipt` runs
  out (weak fairness of each operation's steps and of its timeout). Mining is not
  fair: a receipt may never come.
* `deployment`, `activation`: the tools go on, the operator starts the next one or
  the same one again, and the chain mines what it took. Faults are bounded, which is
  what "eventually" is relative to.
* `workstation`: the user runs setup again after it failed, and processes go on.
  Kills and failures are bounded.

### The properties

* `TypeOK` of the four contracts, guardian thresholds within their lists included.
* `OwnershipInvariant` joins six statements. `TransferRecoveryExclusive`: never a
  pending transfer and a pending recovery. `CanonicalLocatorResolves` and
  `ReservationMatchesTransfer`: what a URL names and what is kept for an offer.
  `OwnerIndexExact`: the owners' lists and positions. `PrivilegesFollowOwner`: no
  guardian, proposal or split outlives its owner. `ApprovalsCounted`: approvals are
  distinct guardians of the configuration in force, though they are stored per
  nonce and never deleted.
* `RecordsInvariant` joins four: `CollaboratorIndexExact` and `RefNamesExact`, the
  lists through every removal; `StatusMatchesTrail` and `ReportTrailMatchesStatus`,
  the audit trails.
* `SuiteInvariant`: both together, from a snapshot on.
* `OwnershipMovesByConsent`: the owner changes by an accepted transfer or an
  approved recovery, inside its window, and nothing of either is left.
* `AliasesNeverReassigned`: a locator that names a repository always names it.
* `RefChangesRecorded`, `FrozenRefsImmutable`: who may change a ref, and when
  nobody may.
* `SponsorshipsPaidOut`: nothing of a sponsorship stays in the contract, however
  shares are rounded and whatever the payees change while they are paid.
* `CopiesAgree`, `ActivationComplete`, `BootstrapSealed`, `ImplementsLifecycle`: the
  bootstrap contracts.
* `RepositoryComplete`, `CloneComplete`, `FastForwardOnly`: until a force push or
  a deletion, nothing of a ref's history is missing from the listed packs or from
  a clone of all refs, and refs only move forward.
* `ReplacedListSelfContained`: a list that lost packs holds its ref's history.
* `TicketsRecorded`: a ticket is recorded before its
  push goes on and never replicated twice, also across restarts.
* `RecordedContentPinned`: what the daemon recorded stays pinned. With the reaper's
  timer off that holds for ever; with it on, as long as every ticket for the content
  is valid or its push was mined in time and the archived contract names the content.
  It also holds for content that several pushes share, except while one of them has
  asked for it and is not recorded.
* `GasLimitExact`, `ReservationsDistinct`, `FailedCacheDiscarded`, `OutcomesTrue`,
  `OperationsReturn`: the transaction sender. Two processes may well be given one
  nonce; then one of them is refused and says so. `OutcomesTrue` takes a confirmation,
  a revert and an unconfirmed transaction at their word; "failed" promises nothing,
  see below.
* `QueriesExact`, `WritesThroughCurrentLocator`, `OnlyTheActiveSuite`: the client.
* `EvidenceComplete`, `EvidenceTrue`, `EventuallyActive`: the tools.
* `VerifiedKeysExact`, `RightDocumentsAccepted`: the archive.
* `ImportsAccepted`, `ActiveSuiteExact`, `PublishedPairAgrees`: the migration.
* `NetworksUnmixed`, `SettingsKept`, `SelectedKeyResolves`, `InstallKept`,
  `SetupConverges`: the workstation. `NetworksUnmixed` excludes an endpoint or a
  SuiteDirectory of another network, whether published or set by the user while that
  network was selected (`config.go:187`).

### The finding

`cli/tools/evm-activate-suite/main.go:1` says that the command "finalizes all
modules and activates an empty EVM suite without importing a snapshot". Its
`computeExpectedRoot` chains the expected roots: each module's root is computed
from the one before. `BootstrapCoordinator.beginNextModule` starts every module
from the snapshot root. The second module is therefore begun with a root that
nothing can produce, its finalization reverts, and it cannot be begun again. The
run `activation` ends in this state without any fault.

### Where the guarantees end

The properties are stated as strongly as they hold. These are the cases outside.

* Packs are shared between refs. A new ref relies on packs that other refs list
  (`helper.go:335`); when those are forced or deleted its history is gone, although
  `helper.go:350` wants it to stay fetchable. A fetch of one ref downloads that
  ref's packs only (`helper.go:210`). A thin pack may need a base from a ref that is
  listed later, and `index-pack` then refuses it (`gitio.go:66`). Hence the
  conditions in `RepositoryComplete` and `CloneComplete`.
* Two tickets for the same content: a failed verification of one removes the pin of
  the other (`igit-replicationd/main.go:209`), so `RecordedContentPinned` waits until
  all of them are recorded. A pin whose removal fails, or that was made right before
  a stop, has no row.
* With its timer on, the reaper unpins content that only a ref of the EVM suite names
  as soon as the ticket has expired, and it judges each row of shared content by
  itself (`replication-reaper.sh:85-87`). Nothing is promised for such content; this
  is why the timer has to stay off.
* An operation of the transactor may fail although its transaction is in the pool,
  when the answers to all attempts of the broadcast are lost (`evm_transactor.go:183`).
  The comment at `:24` sets the unconfirmed outcome apart from failures "which happened
  before the transaction reached the RPC node"; such a failure is not one of those.
  What is shown is that the next operation does not build on the failed one's nonce
  (`FailedCacheDiscarded`).
* The garbage collection after a successful push also removes the blocks another
  failed push kept for its retry (`helper.go:419`).
* `SettingsKept` excepts a save of a configuration loaded before another process
  saved, which the code does not detect; `SelectedKeyResolves` excepts an entry of
  the key index that an overlapping key command overwrote (`history.lost`), and a
  selection of a key that is not there, made by `config set` of `key_name` or
  `evm_keystore_dir`, which check neither (`main.go:1738-1741`; `history.typed`). Both
  end when a key of that name is made in that directory. A key import that is
  killed before the index is written cannot be repeated with the same key.
* `InstallKept` excepts a kill between the two renames of a replacement;
  `SetupConverges` covers it. That only a verified archive is installed is a matter
  of one guard, `Verified`; what the run adds is that no failed replacement undoes it.
* V1 lets a new repository take a locator that another one left. `apply` refuses
  such a history (`inventory.go:571`), so it has no inventory.
  `VerifySnapshotInventory` compares neither aliases nor moderation trails, so
  `VerifiedKeysExact` is about keys.

## The proofs

The theorems hold for every number of accounts, names, refs, modules, batches,
helpers, processes, pushes, blocks, pages, builds and faults and for every limit.
They assume what the named ASSUMEs state, which TLC evaluates in the runs: the values
that stand for zero are not accounts, names or contracts, limits are natural numbers,
the order of modules lists each once, there is a key name. Three say more.
`SettlementAssumption` has finitely many accounts and names, as addresses and bounded
strings are, so that sums exist. `ClientAssumption` says that a directory that passes
the checks of format and of the trust chain is the genuine one. `DeploymentAssumption`
keeps the directory and the coordinator apart from the modules.

All safety properties of the runs have their theorem, but for four of `migration`.

`SuiteProofs` proves its fourteen theorems from one inductive invariant, `SuiteInd`:

    TypeOK /\ LocatorInv /\ OwnerIndexExact /\ CollaboratorIndexExact /\ PrivilegeInv
           /\ RefsInv /\ StatusInv /\ ReportsInv /\ UnusedActive

The parts need each other. The type of a list after a removal rests on its
positions being exact. The positions of the owners' lists rest on a transfer
never going to the owner, which comes from the reservation. A proposal can never
meet an offer because both are tied to the present owner. `PrivilegeInv` adds to
the checked properties that no nonce to come has approvals and that sets of
approvals are finite, without which counting one more is not inductive. `RefsInv`
adds that a repository that does not exist has no refs, so that creating or
forking one starts from nothing; `StatusInv` that before activation a trail of
statuses belongs to a repository whose status was imported, so that importing one
cannot contradict it; `ReportsInv` says of each report which of the four trails its
status allows. `SuiteStepProofs` sorts the actions by what they do to ownership and
refs, so that each invariant is shown once for each kind of step, and has the types
action by action; its first part has the lemmas about swap-and-pop and about the
functions of `RepositoryCore`. `ModuleProofs` begins with the trails of moderation,
function by function. `OwnershipCorrect` and `RecordsCorrect`
collect the statements of the two invariants that the runs check, `SuiteCorrect`
joins them. `FreezingCorrect` and `RefChangesCorrect` are about steps: each action
of the active suite that writes a ref is shown to have asked for the role and the
status first.

Three more theorems are about sponsorships. `SponsorshipsImplementSuite`: with the
settlement hidden, a step of `Settlement` is a step of `Suite` or none, so all of the
above holds in the middle of a payout, when a payee calls. `PaymentsComplete` follows
from `PaymentInd`: what the accounts received and the balance add up to what was
sponsored, and while a call of `sponsor` runs the balance is what its settlement still
owes, which the owner then gets; shares that are rounded or changed on the way do not
matter. `ModuleProofs` shows that the recursive sum over a finite set exists and
that raising one term raises it by as much, by an induction over finite sets that is
built from the least number of elements of a counterexample.

`SuiteBootstrapProofs` proves five theorems from `BootInd`, which adds to the
checked properties that an import that began has a contract and a commitment,
that a sealed one is complete (`Bindings`), and that the directory and the
coordinator leave the bootstrap in the same step (`Activation`). The
implementation of `SuiteLifecycle` follows because the sealed contents are
exactly the commitments up to `nextModuleIndex`.

`SuiteDeploymentProofs` proves four theorems from `DeploymentInv`. An item of work
leaves a trace, a transaction that may still be mined or what it did to the chain.
The deployer names in its entries whatever has a trace (`DeployerSound`), its file
names whatever its entries do before anything is sent, and mining turns one kind of
trace into the other (`FileComplete`); hence `EvidenceComplete`, wherever a tool is
killed. For `EvidenceTrue` a transaction that registers a module carries a contract
that exists (`TxSound`), whoever registers one has it in hand (`HandSound`), the tool
that waits waits for the last transaction of the pool (`WaitSound`), and
`evm-demo-deploy-rest` has one entry for every module it has passed, the one that is
bound (`RestFrom`). `DeploymentRefinesBootstrap`: with the runner, whose commitments
are the plan's, everything the tools do is a behaviour of `SuiteBootstrap`, so the five
theorems above hold of it. Nothing of the kind is claimed of `evm-activate-suite`,
whose roots are not the plan's; see the finding.

`PublishingProofs` proves two theorems about `Replication` from `ReplicationInv`.
`RecordedStaysPinned` needs that what the daemon works on is pinned, too
(`HeldPinned`), and that a reaper that started after a push was mined has listed what
the archived contract names for it (`Listed`): its ticket was recorded by then. A reaper
that started earlier finds every ticket that was valid then still valid, because it
compares with the time of its start. The grounds on which a row may be reclaimed only
grow (`GroundsGrow`), so a promise that holds after a step also held before it. One
theorem about `MigrationPlan`, `PublicationAgrees`, follows from `PublishInd`: a build
that still has its manifest to publish has published its own plan, and a plan is only
published where there is none, hence before any manifest.

`ChainClientProofs` proves four theorems about `EVMTransactor` from its `IInv`. Two
reservations of one generation differ because the cache is always ahead of the
reservations that were made from it (`CacheAhead`), and a dropped cache starts a new
generation.
What an operation reports is true because the node holds an operation only at its
own nonce and after it was sent (`HeldAtNonce`), and an operation waits only for
what the node took. `GasLimitsExact` is arithmetic: the three checks of
`AdjustEVMGasLimit` refuse exactly the sums that do not fit.

Its other theorems are about `SuiteClient`. What a request rests on must have been
established: a view needs a pinned height, the check of a locator a resolved
repository, a write a checked locator (`Needs`, `Gives`). Every program of every
command keeps to that order (`Ordered`) and pins a height of its own for every list
(`PagesApart`). `ClientInv` says that what is left of a program keeps to the order given
what the command has `Seen`, that the answers are those of the pinned block, and that
the pages read so far are a prefix of the list at that block (`ListExact`), and all of
it once no page is left to ask for. The locator is current at some block during the
command, not at the block that mines the write: the code cannot promise more.

`UserMachineProofs` proves four theorems about `RemoteHelper` from `HelperInv` and
`CloneInv`. `RepositoryComplete` is not inductive: a transaction is mined in a registry
its pusher never saw. `HelperInv` adds that what any cache lists is still covered by the
registry's packs (`CacheOK`), and that every queued transaction will be complete in
whatever registry it meets (`PoolOK`): its own packs and those listed by then hold
its history; if forced, its own do. Both survive because, until something is
rewritten, mining only adds packs. `CloneInv` adds that every listing, also an old
one, prints all of its refs and has their history in its own packs; a fetch that
indexes all of them has then indexed every commit.

Its four theorems about `Workstation` follow from `IInv`, which says of the shared
files and of each process in the middle of a command what the others may rely on:
every name in an index, also one held in memory, has its key file (`Backed`); a name
that anything refers to is in the index of its keystore, or counts as lost or as typed
by the user (`Known`); a process that
loaded after the last save has the wanted settings but for those it is about to
save (`SettingsOK`); only a process between the two renames holds a backup
(`InstallOK`). `Compose` reduces each step to the files, the process that moves, and
a frame that the other processes need: key files stay, known names stay known.

Only model-checked: `VerifiedKeysExact`, `RightDocumentsAccepted`, `ImportsAccepted`
and `ActiveSuiteExact`. They say what folds over a history and what sorting, grouping
and cutting a document compute, each an induction over data with its own recursive
definition; the library's induction theorems take an operator that the provers cannot
instantiate. Building an induction from the least counterexample was done where one
was short: for sums and for the first free nonce. Liveness under fairness
(`OperationsReturn`, `EventuallyActive`, `SetupConverges`) is out of the prover's reach.

## Not modelled

* `UsernameModule`, `BadgeModule` and `ReleaseModule` in the active suite. Their
  functions write the storage of their own contract in one transaction and take
  part in no protocol with the others; their imports are in `MigrationPlan`.
* The web application: it reads the chain and asks wallets to sign.
* The choice between gateways (`ipfs/gateway.go`), the tunnel, forwarding into WSL,
  secret scanning and translations: plumbing around one request or one process.
* Artifact checks and the preparation of a deployment, which are comparisons of
  hashes before anything is sent; `igit-suite-operator`, a dry run;
  `evm-demo-inspect`, which only reads; the key tools for development.
* The pin indexers and the synchronisation of durable content: scripts
  that keep the pins of other nodes in line with lists of content.
* The program that turns a V1 archive into a suite snapshot, which is not in the
  repository.
* Of the V1 contract, everything that leaves no trace in an inventory.

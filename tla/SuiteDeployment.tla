---------------------------- MODULE SuiteDeployment ----------------------------
(***************************************************************************)
(* The operator's tools, run against the contracts of SuiteBootstrap:      *)
(*   deploy  igit-deploy-suite: creates and binds every contract, with an  *)
(*           evidence file it rewrites before and after each transaction;  *)
(*   rest    evm-demo-deploy-rest: goes on behind a directory, with what   *)
(*           it finds deployed and bound;                                  *)
(*   runner  evm-demo-bootstrap: sends the calldata manifest of an empty   *)
(*           plan, leaving out what the coordinator shows as applied;      *)
(*   empty   evm-activate-suite: begins, finalizes and activates.          *)
(* A tool reads the chain, sends one transaction at a time and waits for   *)
(* its receipt.  A send can be refused, can fail though the transaction    *)
(* is pending, or can outlast the wait; a tool can be killed at any point, *)
(* also while it rewrites its file, which is truncated and then written.   *)
(* The operator starts the next tool once the last has ended.              *)
(***************************************************************************)
EXTENDS SuiteBootstrap

CONSTANTS
  BootstrapTool,   \* the tool the suite is bootstrapped with: "runner" or "empty"
  MaxFaults        \* refused, lost or unconfirmed sends, failed reads and kills

\* The parts of the suite have names and addresses of their own.
ASSUME DeploymentAssumption ==
  /\ BootstrapTool \in {"runner", "empty"}
  /\ {Authority, Operator} \subseteq Callers
  /\ UsernameId \in ModuleIds
  /\ BoundCoordinator \in Coordinators \ (Contracts \cup ModuleIds)
  /\ "directory" \notin Contracts \cup Coordinators \cup ModuleIds \cup {None}

VARIABLES
  code,     \* what has code: "directory", the coordinator, module contracts
  pool,     \* transactions sent and not mined, in the order of their nonces
  receipt,  \* of the transaction the tool waits for
  tool,     \* the running tool
  file,     \* its evidence on disk
  faults

toolVars == <<code, pool, receipt, tool, file, faults>>
allVars == <<vars, toolVars>>

Idle == [name |-> "none", step |-> 0, phase |-> "none", addr |-> None,
         status |-> "none", entries |-> <<>>]

\* What is on disk while it is truncated.
Torn(name) == [by |-> name, torn |-> TRUE, status |-> "none", entries |-> <<>>]

DeploymentInit ==
  /\ Init
  /\ code = {} /\ pool = <<>> /\ receipt = "none" /\ faults = 0
  /\ tool = Idle
  /\ file = Torn("none")

-----------------------------------------------------------------------------
(* What each tool sends, in order.                                         *)

Do(what, id) == [do |-> what, id |-> id]

Order(id) == CHOOSE i \in 1..Size : ModuleOrder[i] = id

\* Two items for every module, module by module.
ForModules(k, first, second) ==
  Do(IF k % 2 = 1 THEN first ELSE second, ModuleOrder[(k + 1) \div 2])

RestSteps ==
  <<Do("create", BoundCoordinator), Do("bind", BoundCoordinator)>>
    \o [k \in 1..(2 * Size) |-> ForModules(k, "create", "register")]

\* The escrow is attested before the usernames are finalized.
RunnerSteps ==
  LET attest == 2 * Order(UsernameId) IN
  [k \in 1..(2 * Size + 1) |->
     IF k = attest THEN Do("attest", UsernameId)
     ELSE ForModules(IF k < attest THEN k ELSE k - 1, "begin", "finalize")]

EmptySteps == [k \in 1..(2 * Size) |-> ForModules(k, "begin", "finalize")]

Program(name) ==
  CASE name = "deploy" -> <<Do("create", "directory")>> \o RestSteps
    [] name = "rest" -> RestSteps
    [] name = "runner" -> RunnerSteps \o <<Do("activate", None)>>
    [] name = "empty" -> EmptySteps \o <<Do("activate", None)>>

Step == Program(tool.name)[tool.step]

\* The root of evm-activate-suite: each module's hashed over the one before it,
\* where the coordinator starts every module from the snapshot root.
ComputeExpectedRoot(i) ==
  [id |-> ModuleOrder[i],
   batches |-> [k \in 1..(i - 1) |-> [sequence |-> k - 1, count |-> 0, payload |-> ModuleOrder[k]]]]

PlanFor(id) ==
  IF BootstrapTool = "empty"
  THEN [count |-> 0, batches |-> 0, root |-> ComputeExpectedRoot(Order(id))]
  ELSE Snapshot[id]

-----------------------------------------------------------------------------
(* The chain                                                               *)

Effect(tx) ==
  \/ tx.do = "create" /\ code' = code \cup {tx.addr} /\ UNCHANGED vars
  \/ tx.do = "bind" /\ SetBootstrapCoordinator(Authority, tx.id) /\ UNCHANGED code
  \/ tx.do = "register" /\ RegisterModule(Operator, tx.id, tx.addr) /\ UNCHANGED code
  \/ tx.do = "begin" /\ BeginNextModule(Operator, tx.id, PlanFor(tx.id)) /\ UNCHANGED code
  \/ tx.do = "attest" /\ AttestUsernameEscrowReleased(Operator) /\ UNCHANGED code
  \/ tx.do = "finalize" /\ FinalizeCurrentModule(Operator, tx.id) /\ UNCHANGED code
  \/ tx.do = "activate" /\ ActivateSuite(Operator) /\ UNCHANGED code

Succeeds(tx) == ENABLED Effect(tx)

\* The tool waits for the transaction it sent last.
Receipted(outcome) ==
  receipt' = IF tool.phase = "wait" /\ Len(pool) = 1 THEN outcome ELSE receipt

Mine ==
  /\ pool # <<>>
  /\ pool' = Tail(pool)
  /\ IF Succeeds(Head(pool))
     THEN Effect(Head(pool)) /\ Receipted("mined")
     ELSE UNCHANGED <<vars, code>> /\ Receipted("reverted")
  /\ UNCHANGED <<tool, file, faults>>

-----------------------------------------------------------------------------
(* What moves a tool on                                                    *)

Entry(what, addr, tx) == [do |-> what.do, id |-> what.id, addr |-> addr, tx |-> tx]

\* Mutant: the deployer announces nothing.
Enter_Unannounced(t, k) ==
  IF k > Len(Program(t.name)) THEN [t EXCEPT !.step = k, !.phase = "check"]
  ELSE IF t.name = "deploy"
  THEN [t EXCEPT !.step = k, !.phase = "send",
                 !.entries = Append(@, Entry(Program(t.name)[k], None, "unsent"))]
  ELSE [t EXCEPT !.step = k, !.phase = "look"]

\* At the k-th item.  The deployer announces a transaction before it sends it.
Enter(t, k) ==
  IF k > Len(Program(t.name)) THEN [t EXCEPT !.step = k, !.phase = "check"]
  ELSE IF t.name = "deploy"
  THEN [t EXCEPT !.step = k, !.phase = "announce",
                 !.entries = Append(@, Entry(Program(t.name)[k], None, "unsent"))]
  ELSE [t EXCEPT !.step = k, !.phase = "look"]

\* fail, or fatal: only the deployer writes down that it failed.
Fail(t) ==
  IF t.name = "deploy" THEN [t EXCEPT !.phase = "failing", !.status = "failed"] ELSE Idle

\* The item is done: with what became of its transaction, in the evidence.
\* evm-demo-deploy-rest writes a module down with its registration.
Noted(t, tx) ==
  CASE t.name = "deploy" ->
         [t EXCEPT !.phase = "record", !.entries[t.step].tx = tx]
    [] t.name = "rest" /\ Step.do = "create" /\ Step.id # BoundCoordinator ->
         Enter([t EXCEPT !.entries = Append(@, Entry(Step, t.addr, tx))], t.step + 1)
    [] t.name = "empty" -> Enter(t, t.step + 1)
    [] OTHER -> [t EXCEPT !.phase = "record", !.entries = Append(@, Entry(Step, t.addr, tx))]

Persisting == {"open", "announce", "record", "address", "failing", "finish"}

Truncate ==
  /\ tool.phase \in Persisting
  /\ ~file.torn
  /\ file' = Torn(tool.name)
  /\ UNCHANGED <<vars, code, pool, receipt, tool, faults>>

AfterWrite(t) ==
  CASE t.phase = "open" -> Enter(t, 1)
    [] t.phase = "announce" -> [t EXCEPT !.phase = "send"]
    [] t.phase = "record" ->
         IF t.name # "deploy" THEN Enter(t, t.step + 1)
         ELSE IF t.entries[t.step].tx = "mined" THEN [t EXCEPT !.phase = "verify"]
         ELSE Fail(t)
    [] t.phase = "address" -> Enter(t, t.step + 1)
    [] OTHER -> Idle

Write ==
  /\ tool.phase \in Persisting
  /\ file.torn
  /\ file' = [by |-> tool.name, torn |-> FALSE, status |-> tool.status, entries |-> tool.entries]
  /\ tool' = AfterWrite(tool)
  /\ UNCHANGED <<vars, code, pool, receipt, faults>>

-----------------------------------------------------------------------------
(* One item: look, send, wait                                              *)

\* The contracts the operator can name for a module: the one bound if there is
\* one, else any that was deployed for it.
Existing(id) ==
  IF moduleAddress[id] # None THEN {moduleAddress[id]} ELSE {c \in code \cap Contracts : BoundId[c] = id}

\* Mutant: the runner takes nothing for applied.
Applied_Never(what) == FALSE

\* What the directory and the coordinator show of an item: transactionApplied.
Applied(what) ==
  CASE what.do = "bind" -> bootstrapCoordinator # None
    [] what.do = "begin" -> nextModuleIndex >= Order(what.id) \/ moduleProgress[what.id].started
    [] what.do = "finalize" -> nextModuleIndex >= Order(what.id)
    [] what.do = "attest" -> usernameEscrowEvidence
    [] what.do = "activate" -> activated
    [] OTHER -> FALSE

\* The item needs no transaction.
LookDone ==
  /\ tool.phase = "look"
  /\ \/ /\ tool.name \in {"rest", "runner"}
        /\ Applied(Step)
        /\ tool' = IF tool.name = "rest" THEN Enter(tool, tool.step + 1)
                   ELSE Noted(tool, "applied")
     \/ /\ Step.do = "create" /\ Step.id \in code
        /\ tool' = Noted([tool EXCEPT !.addr = Step.id], "existing")
     \/ /\ Step.do = "create" /\ Step.id \in ModuleIds
        /\ \E c \in Existing(Step.id) : tool' = Noted([tool EXCEPT !.addr = c], "existing")
     \/ /\ Step.do = "register" /\ moduleAddress[Step.id] # None
        /\ tool' = IF moduleAddress[Step.id] = tool.addr THEN Noted(tool, "existing") ELSE Fail(tool)
  /\ UNCHANGED <<vars, code, pool, receipt, file, faults>>

\* Nothing on the chain stands for the item; the tool will send.
LookSends ==
  /\ tool.phase = "look"
  /\ tool.name = "empty" \/ ~Applied(Step)
  /\ Step.do = "create" => Step.id \notin code
  /\ Step.do = "create" /\ Step.id \in ModuleIds => Existing(Step.id) = {}
  /\ Step.do = "register" => moduleAddress[Step.id] = None
  /\ tool' = [tool EXCEPT !.phase = "send"]
  /\ UNCHANGED <<vars, code, pool, receipt, file, faults>>

\* The addresses that contracts of a module can still be created at.
Fresh(id) ==
  {c \in Contracts : BoundId[c] = id /\ c \notin code /\ \A k \in 1..Len(pool) : pool[k].addr # c}

\* The address a creation will have; other calls name the module in hand.
Address(what) ==
  IF what.do # "create" THEN {tool.addr}
  ELSE IF what.id \notin ModuleIds THEN {what.id}
  ELSE {c \in Fresh(what.id) : c = CHOOSE d \in Fresh(what.id) : TRUE}

Tx(what, addr) == [do |-> what.do, id |-> what.id, addr |-> addr]

\* A transaction that would revert on the latest state fails its gas estimate.
Send ==
  /\ tool.phase = "send"
  /\ \E addr \in Address(Step) :
       LET tx == Tx(Step, addr) IN
       /\ IF Succeeds(tx)
          THEN /\ pool' = Append(pool, tx)
               /\ tool' = [tool EXCEPT !.phase = "wait", !.addr = addr]
          ELSE /\ tool' = Fail(tool)
               /\ UNCHANGED pool
  /\ receipt' = "none"
  /\ UNCHANGED <<vars, code, file, faults>>

Fault == faults < MaxFaults /\ faults' = faults + 1

SendRefused ==
  /\ tool.phase = "send"
  /\ Fault
  /\ tool' = Fail(tool)
  /\ UNCHANGED <<vars, code, pool, receipt, file>>

SendLost ==
  /\ tool.phase = "send"
  /\ Fault
  /\ \E addr \in Address(Step) :
       Succeeds(Tx(Step, addr)) /\ pool' = Append(pool, Tx(Step, addr))
  /\ tool' = Fail(tool)
  /\ UNCHANGED <<vars, code, receipt, file>>

\* The receipt is there.  The runner still waits until the state shows it, and
\* evm-demo-deploy-rest reads the binding back.
Receipt ==
  /\ tool.phase = "wait"
  /\ receipt # "none"
  /\ tool' = IF receipt = "mined"
             THEN IF tool.name = "runner" THEN [tool EXCEPT !.phase = "confirm"]
                  ELSE Noted(tool, "mined")
             ELSE IF tool.name = "deploy" THEN Noted(tool, "reverted") ELSE Fail(tool)
  /\ UNCHANGED <<vars, code, pool, receipt, file, faults>>

\* The wait ends without a receipt, whatever became of the transaction.
Unconfirmed ==
  /\ tool.phase = "wait"
  /\ Fault
  /\ tool' = CASE tool.name = "deploy" -> Noted(tool, "unconfirmed")
               [] tool.name = "runner" -> [tool EXCEPT !.phase = "confirm"]
               [] tool.name = "rest" /\ Step.id \in ModuleIds -> [tool EXCEPT !.phase = "confirm"]
               [] OTHER -> Fail(tool)
  /\ UNCHANGED <<vars, code, pool, receipt, file>>

\* Mutant: an unconfirmed transaction is taken for mined.
Shown_Assumed(what) == TRUE

\* What shows, without a receipt, that the transaction was mined.
Shown(what) ==
  CASE what.do = "create" -> tool.addr \in code
    [] what.do = "register" -> moduleAddress[what.id] = tool.addr
    [] OTHER -> Applied(what)

Confirm ==
  /\ tool.phase = "confirm"
  /\ Shown(Step)
  /\ tool' = Noted(tool, "confirmed_by_state")
  /\ UNCHANGED <<vars, code, pool, receipt, file, faults>>

GiveUp ==
  /\ tool.phase = "confirm"
  /\ ~Shown(Step)
  /\ tool' = Fail(tool)
  /\ UNCHANGED <<vars, code, pool, receipt, file, faults>>

\* The deployer reads back the block, and the code of a contract, whose address
\* it then writes down.
Verify ==
  /\ tool.phase = "verify"
  /\ tool' = IF Step.do # "create" THEN Enter(tool, tool.step + 1)
             ELSE [tool EXCEPT !.phase = "address", !.entries[tool.step].addr = tool.addr]
  /\ UNCHANGED <<vars, code, pool, receipt, file, faults>>

\* A read fails, or the block is not the one the receipt named.
VerifyFails ==
  /\ tool.phase \in {"verify", "check"} /\ tool.name = "deploy"
  /\ Fault
  /\ tool' = Fail(tool)
  /\ UNCHANGED <<vars, code, pool, receipt, file>>

-----------------------------------------------------------------------------
(* The whole run                                                           *)

\* Every contract is bound, and to the address in the tool's hands.
Bound == bootstrapCoordinator = BoundCoordinator /\ \A id \in ModuleIds : moduleAddress[id] # None

Named(entries, id) ==
  {entries[k].addr : k \in {k \in 1..Len(entries) : entries[k].do = "create" /\ entries[k].id = id}}

\* The directory and the coordinator, as constructed and bound, before any import.
VerifyDirectory ==
  /\ state = "Bootstrapping" /\ ~activated /\ nextModuleIndex = 0
  /\ bootstrapAuthority = None /\ Bound

\* The modules the directory names are those deployed in this run, still empty.
VerifyModules(t) ==
  \A id \in ModuleIds :
    Named(t.entries, id) = {moduleAddress[id]} /\ ~modules[moduleAddress[id]].started

VerifyBindings(t) == VerifyDirectory /\ VerifyModules(t)

Check ==
  /\ tool.phase = "check"
  /\ tool' = CASE tool.name = "deploy" /\ VerifyBindings(tool) ->
                    [tool EXCEPT !.phase = "finish", !.status = "bootstrapping"]
               [] tool.name = "rest" ->
                    [tool EXCEPT !.phase = "finish", !.status = "deployed_bootstrapping"]
               [] tool.name = "runner" /\ activated /\ nextModuleIndex = Size /\ state = "Active" ->
                    [tool EXCEPT !.phase = "finish", !.status = "broadcasted_and_verified"]
               [] OTHER -> Fail(tool)
  /\ UNCHANGED <<vars, code, pool, receipt, file, faults>>

Killed ==
  /\ tool.name # "none"
  /\ Fault
  /\ tool' = Idle
  /\ UNCHANGED <<vars, code, pool, receipt, file>>

Pending(id) == \E k \in 1..Len(pool) : pool[k].do = "create" /\ pool[k].id = id

\* The operator runs the deployer until a directory is there, then the tool
\* that goes on behind it, and bootstraps with the other.  A directory or a
\* coordinator that may still be mined is waited for, since a second one would
\* be of another suite.
Chosen ==
  IF "directory" \notin code THEN "deploy"
  ELSE IF ~Bound THEN "rest"
  ELSE BootstrapTool

Start ==
  /\ tool.name = "none"
  /\ ~Pending("directory") /\ ~Pending(BoundCoordinator)
  /\ file.status # "broadcasted_and_verified"
  /\ Chosen = "empty" => ~activated
  /\ tool' = LET t == [Idle EXCEPT !.name = Chosen, !.status = "broadcasting"] IN
             IF Chosen = "empty" THEN Enter(t, 1) ELSE [t EXCEPT !.phase = "open"]
  /\ file' = Torn(Chosen)
  /\ UNCHANGED <<vars, code, pool, receipt, faults>>

Works ==
  \/ Truncate \/ Write \/ LookDone \/ LookSends \/ Send \/ Receipt \/ Confirm
  \/ GiveUp \/ Verify \/ Check \/ Start

Fails == SendRefused \/ SendLost \/ Unconfirmed \/ VerifyFails \/ Killed

DeploymentNext == Works \/ Fails \/ Mine

\* A running tool goes on, the chain mines, and the operator starts the next tool.
DeploymentSpec ==
  DeploymentInit /\ [][DeploymentNext]_allVars /\ WF_allVars(Works) /\ WF_allVars(Mine)

-----------------------------------------------------------------------------
(* Properties                                                              *)

Recorded(what, id) ==
  \E k \in 1..Len(file.entries) : file.entries[k].do = what /\ file.entries[k].id = id

\* Whenever the deployer is stopped, its evidence, unless it was being rewritten,
\* names every transaction that may still be mined and everything on the chain:
\* deployContract and configure persist an entry before they send.
EvidenceComplete ==
  file.by = "deploy" /\ ~file.torn =>
    /\ \A k \in 1..Len(pool) : Recorded(pool[k].do, pool[k].id)
    /\ \A c \in code : Recorded("create", IF c \in Contracts THEN BoundId[c] ELSE c)
    /\ bootstrapCoordinator # None => Recorded("bind", BoundCoordinator)
    /\ \A id \in ModuleIds : moduleAddress[id] # None => Recorded("register", id)

\* What a tool's evidence says is so on the chain, also after lost receipts: a
\* recorded address has code, a deployment reported complete binds the contracts
\* it names, and a bootstrap reported verified left an active suite whose modules
\* hold what the plan commits to.
EvidenceTrue ==
  ~file.torn =>
    /\ \A k \in 1..Len(file.entries) :
         file.entries[k].do = "create" => file.entries[k].addr \in code \cup {None}
    /\ file.status \in {"bootstrapping", "deployed_bootstrapping"} =>
         Bound /\ \A id \in ModuleIds : Named(file.entries, id) = {moduleAddress[id]}
    /\ file.status = "broadcasted_and_verified" =>
         /\ state = "Active"
         /\ \A id \in ModuleIds : modules[moduleAddress[id]].rollingRoot = Snapshot[id].root

\* Wherever the tools are killed or lose sight of a transaction, running them
\* again ends with an active suite.
EventuallyActive == <>[](state = "Active" /\ tool.name = "none")
===============================================================================

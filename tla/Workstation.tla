----------------------------- MODULE Workstation -----------------------------
(***************************************************************************)
(* The files under ~/.igit and the igit processes that share them without  *)
(* a lock: the configuration, the keystore index and its key files, the    *)
(* managed Kubo installation and its daemon.  One process runs "igit setup *)
(* push" until it succeeds; the others run any commands.  Processes are    *)
(* killed and file operations fail a bounded number of times.              *)
(***************************************************************************)
EXTENDS Integers, FiniteSets

CONSTANTS
  User,        \* the process that reruns setup
  Others,      \* the other processes
  Names,       \* key names
  Directories, \* directories that evm_keystore_dir may name
  MaxCommands, \* bound on the commands of the other processes
  MaxFaults    \* bound on kills, failed operations and daemon stops

ASSUME NamesAssumption == Names # {}

Procs == {User} \cup Others

\* The keystore directory: "" is the one in ~/.igit.
Keystores == {""} \cup Directories

VARIABLES
  file,       \* config.json
  index,      \* per keystore, its index.json: key name -> account
  keyFiles,   \* per keystore, the accounts with an encrypted key file
  kubo,       \* the managed installation, the Kubo repository and the daemon
  procs,      \* per process: command, next step and what it holds in memory
  done,       \* a setup of the user has succeeded
  commands, faults,
  history     \* what the properties remember

wsVars == <<file, index, keyFiles, kubo, procs, done, commands, faults, history>>

-----------------------------------------------------------------------------
(* Configuration                                                           *)

Testnet == "injective-testnet"
Networks == {Testnet, "injective-mainnet"}

\* The fields a network profile owns: of those with a value in the published
\* profiles one stands for all; the SuiteDirectory has none there.
ProfileFields == {"evm_rpc", "evm_suite_directory_address"}
Profile(network, f) == IF f = "evm_rpc" THEN network ELSE ""

\* What the user sets in such a field is an endpoint or a contract of the network
\* that is selected then.
Override(network) == IF network = Testnet THEN "set for testnet" ELSE "set for mainnet"

\* set: the profile fields present in the file; dir: evm_keystore_dir; key: key_name;
\* bin: ipfs_bin; legacy: it has keys of the V1 profile.
NoFile == [network |-> "", set |-> <<>>, dir |-> "", key |-> "", bin |-> "", legacy |-> FALSE]

\* Empty profile fields are omitted (omitempty).
FileOf(c) ==
  [network |-> c.network, dir |-> c.dir, key |-> c.key, bin |-> c.bin, legacy |-> FALSE,
   set |-> [f \in {g \in ProfileFields : c[g] # ""} |-> c[f]]]

\* The testnet default or the file's value, empty ones filled by the profile;
\* on another network what the file does not set is the profile's.
LoadField(network, set, f) ==
  LET value == IF f \in DOMAIN set THEN set[f] ELSE Profile(Testnet, f)
  IN  IF value = "" \/ (network # Testnet /\ f \notin DOMAIN set)
      THEN Profile(network, f)
      ELSE value

Load ==
  LET network == IF file.network = "" THEN Testnet ELSE file.network
  IN  [network |-> network,
       evm_rpc |-> LoadField(network, file.set, "evm_rpc"),
       evm_suite_directory_address |-> LoadField(network, file.set, "evm_suite_directory_address"),
       dir |-> file.dir,
       key |-> file.key,
       bin |-> IF file.bin = "" THEN "ipfs" ELSE file.bin]

\* Mutant: the SuiteDirectory of the network that was selected before stays.
SelectNetworkProfile_KeepsDirectory(c, network) ==
  [c EXCEPT !.network = network, !.evm_rpc = Profile(network, "evm_rpc")]

SelectNetworkProfile(c, network) ==
  [c EXCEPT !.network = network, !.evm_rpc = Profile(network, "evm_rpc"),
            !.evm_suite_directory_address = Profile(network, "evm_suite_directory_address")]

SetConfigField(c, field, value) ==
  CASE field = "network" -> SelectNetworkProfile(c, value)
    [] field \in ProfileFields /\ value # "" -> [c EXCEPT ![field] = Override(c.network)]
    [] OTHER -> [c EXCEPT ![field] = value]

ValidateContract(c) == c.evm_suite_directory_address # ""

-----------------------------------------------------------------------------
(* Processes                                                               *)

NoMemory == [cfg |-> NoFile, index |-> <<>>, account |-> 0, archive |-> "", backup |-> "absent"]
Idle == [at |-> "idle", cmd |-> [op |-> "none"], mem |-> NoMemory]

At(p, step) == procs[p].at = step
Cmd(p) == procs[p].cmd
Mem(p) == procs[p].mem
Goto(p, step, mem) == procs' = [procs EXCEPT ![p].at = step, ![p].mem = mem]
Exit(p) == procs' = [procs EXCEPT ![p] = Idle]
Then(p, step, mem) == IF step = "exit" THEN Exit(p) ELSE Goto(p, step, mem)

\* config.Save replaces the whole file by what the process has in memory.
Save(p, c, touched, typed) ==
  /\ file' = FileOf(c)
  /\ history' = [history EXCEPT
       !.stale = @ \/ p \in history.outdated,
       !.outdated = @ \cup (Procs \ {p}),
       !.typed = @ \cup typed,
       !.wanted = [f \in DOMAIN @ |-> IF f \in touched THEN c[f] ELSE @[f]]]

FirstStep(c) ==
  CASE c.op = "set" -> "set"
    [] c.op = "key" -> "key.index"
    [] c.op = "setup" -> "setup"
    [] OTHER -> "exit"

\* run: every command loads the configuration first.  A file with legacy keys is
\* saved again before the command goes on.
Run(p, c) ==
  LET step == IF file.legacy THEN "upgrade" ELSE FirstStep(c)
  IN  /\ At(p, "idle")
      /\ procs' = [procs EXCEPT ![p] =
           IF step = "exit" THEN Idle
           ELSE [at |-> step, cmd |-> c, mem |-> [NoMemory EXCEPT !.cfg = Load]]]
      /\ history' = [history EXCEPT !.outdated = @ \ {p}]
      /\ UNCHANGED <<file, index, keyFiles, kubo, done, faults>>

Upgrade(p) ==
  /\ At(p, "upgrade")
  /\ Save(p, Mem(p).cfg, {}, {})
  /\ Then(p, FirstStep(Cmd(p)), Mem(p))
  /\ UNCHANGED <<index, keyFiles, kubo, done, commands, faults>>

\* A configuration selects a key that is in its keystore.
Resolves(c) == c.key \in DOMAIN index[c.dir] /\ index[c.dir][c.key] \in keyFiles[c.dir]

\* Nothing checks that the key or the directory that a user types is there.
TypedSelection(field, c) ==
  IF field \in {"dir", "key"} /\ c.key # "" /\ ~Resolves(c) THEN {<<c.dir, c.key>>} ELSE {}

CmdConfigSet(p) ==
  LET c == SetConfigField(Mem(p).cfg, Cmd(p).field, Cmd(p).value)
  IN  /\ At(p, "set")
      /\ Save(p, c, {Cmd(p).field}, TypedSelection(Cmd(p).field, c))
      /\ Exit(p)
      /\ UNCHANGED <<index, keyFiles, kubo, done, commands, faults>>

-----------------------------------------------------------------------------
(* Keys                                                                    *)

KeyName(p) == IF Cmd(p).op = "setup" THEN Cmd(p).create ELSE Cmd(p).name
KeyDir(p) == Mem(p).cfg.dir

ReadIndex(p) ==
  /\ At(p, "key.index")
  /\ IF KeyName(p) \in DOMAIN index[KeyDir(p)]
     THEN Exit(p)
     ELSE Goto(p, "key.account", [Mem(p) EXCEPT !.index = index[KeyDir(p)]])
  /\ UNCHANGED <<file, index, keyFiles, kubo, done, commands, faults, history>>

Imports(p) == Cmd(p).op = "key" /\ Cmd(p).how = "import"
NewAccount(p) == IF Imports(p) THEN 0 ELSE 1 + Cardinality(keyFiles[KeyDir(p)])

\* Mutant: a key file that cannot be protected is removed, and the index still
\* gets its name.
MakeAccount_GoesOn(p) ==
  /\ At(p, "key.account")
  /\ keyFiles' \in {keyFiles, [keyFiles EXCEPT ![KeyDir(p)] = @ \cup {NewAccount(p)}]}
  /\ Goto(p, "key.write", [Mem(p) EXCEPT !.account = NewAccount(p)])
  /\ UNCHANGED <<file, index, kubo, done, commands, faults, history>>

\* The key file is written and protected; importing a key that has a file fails.
MakeAccount(p) ==
  /\ At(p, "key.account")
  /\ IF Imports(p) /\ NewAccount(p) \in keyFiles[KeyDir(p)]
     THEN Exit(p) /\ UNCHANGED keyFiles
     ELSE /\ keyFiles' = [keyFiles EXCEPT ![KeyDir(p)] = @ \cup {NewAccount(p)}]
          /\ Goto(p, "key.write", [Mem(p) EXCEPT !.account = NewAccount(p)])
  /\ UNCHANGED <<file, index, kubo, done, commands, faults, history>>

\* The index that was read, with the new name, replaces the one that is there.
WriteIndex(p) ==
  /\ At(p, "key.write")
  /\ index' = [index EXCEPT ![KeyDir(p)] =
                 [name \in {KeyName(p)} \cup DOMAIN Mem(p).index |->
                    IF name = KeyName(p) THEN Mem(p).account ELSE Mem(p).index[name]]]
  /\ Goto(p, "key.save", [Mem(p) EXCEPT !.index = <<>>, !.account = 0])
  /\ LET made == {<<KeyDir(p), KeyName(p)>>}
         dropped == {KeyDir(p)} \X (DOMAIN index[KeyDir(p)] \ DOMAIN Mem(p).index)
     IN  history' = [history EXCEPT !.lost = (@ \cup dropped) \ made, !.typed = @ \ made]
  /\ UNCHANGED <<file, keyFiles, kubo, done, commands, faults>>

KeySave(p) ==
  /\ At(p, "key.save")
  /\ Save(p, [Mem(p).cfg EXCEPT !.key = KeyName(p)], {"key"}, {})
  /\ Then(p, IF Cmd(p).op = "setup" THEN "setup.reload" ELSE "exit", Mem(p))
  /\ UNCHANGED <<index, keyFiles, kubo, done, commands, faults>>

-----------------------------------------------------------------------------
(* Setup                                                                   *)

\* Mutant: setup goes on with the configuration that it loaded first.
Reload_Skipped(p) ==
  /\ At(p, "setup.reload")
  /\ Goto(p, "setup.kubo", Mem(p))
  /\ UNCHANGED <<file, index, keyFiles, kubo, done, commands, faults, history>>

\* The key command worked on a copy: setup loads what it saved.
Reload(p) ==
  /\ At(p, "setup.reload")
  /\ Goto(p, "setup.kubo", [Mem(p) EXCEPT !.cfg = Load])
  /\ history' = [history EXCEPT !.outdated = @ \ {p}]
  /\ UNCHANGED <<file, index, keyFiles, kubo, done, commands, faults>>

\* A SuiteDirectory is required; a key that is there is selected, one that is
\* not is made.
SetupPush(p) ==
  LET c == Mem(p).cfg
      name == Cmd(p).create
      selected == [c EXCEPT !.key = name]
  IN  /\ At(p, "setup")
      /\ IF ~ValidateContract(c) THEN Exit(p) /\ UNCHANGED <<file, history>>
         ELSE IF name = "" THEN Goto(p, "setup.kubo", Mem(p)) /\ UNCHANGED <<file, history>>
         ELSE IF Resolves(selected) THEN /\ Save(p, selected, {"key"}, {})
                                        /\ Goto(p, "setup.kubo", [Mem(p) EXCEPT !.cfg = selected])
         ELSE Goto(p, "key.index", Mem(p)) /\ UNCHANGED <<file, history>>
      /\ UNCHANGED <<index, keyFiles, kubo, done, commands, faults>>

\* A binary runs: the one on the path, or the wrapper of an installed one.
Runs(bin) == IF bin = "ipfs" THEN kubo.onPath ELSE kubo.wrapper /\ kubo.target # "absent"

\* Mutant: the file is there.
WorkingBinary_Exists(bin) == IF bin = "ipfs" THEN kubo.onPath ELSE kubo.wrapper

\* The binary is asked for its version.
WorkingBinary(bin) == Runs(bin)

WithBin(p, bin) == [Mem(p) EXCEPT !.cfg.bin = bin]

\* The start of PrepareKubo: what works is used again.
EnsureDependency(p) ==
  /\ At(p, "setup.kubo")
  /\ IF ~Cmd(p).kubo THEN Goto(p, "setup.save", Mem(p))
     ELSE IF ~Cmd(p).force /\ WorkingBinary(Mem(p).cfg.bin) THEN Goto(p, "kubo.start", Mem(p))
     ELSE IF ~Cmd(p).force /\ WorkingBinary("managed") THEN Goto(p, "kubo.start", WithBin(p, "managed"))
     ELSE Goto(p, "download", Mem(p))
  /\ UNCHANGED <<file, index, keyFiles, kubo, done, commands, faults, history>>

Verified(archive) == archive = "good"

\* The pinned sources in order, until one serves the archive that was pinned.
DownloadArtifact(p) ==
  /\ At(p, "download")
  /\ \E served \in [1..2 -> {"good", "bad"}] :
       LET verified == {i \in 1..2 : Verified(served[i])}
       IN  IF verified # {}
           THEN /\ Goto(p, "activate", [Mem(p) EXCEPT !.archive =
                          served[CHOOSE i \in verified : \A j \in verified : i <= j]])
                /\ UNCHANGED faults
           ELSE faults < MaxFaults /\ faults' = faults + 1 /\ Exit(p)
  /\ UNCHANGED <<file, index, keyFiles, kubo, done, commands, history>>

\* activateManagedInstall: is there an installation to move aside?
ActivateManagedInstall(p) ==
  /\ At(p, "activate")
  /\ Goto(p, IF kubo.target = "absent" THEN "place" ELSE "aside", Mem(p))
  /\ UNCHANGED <<file, index, keyFiles, kubo, done, commands, faults, history>>

MoveAside(p) ==
  /\ At(p, "aside")
  /\ IF kubo.target = "absent"
     THEN Exit(p) /\ UNCHANGED kubo
     ELSE /\ Goto(p, "place", [Mem(p) EXCEPT !.backup = kubo.target])
          /\ kubo' = [kubo EXCEPT !.target = "absent"]
  /\ UNCHANGED <<file, index, keyFiles, done, commands, faults, history>>

\* The staged directory takes the name, unless another one has it: then moving
\* the backup back fails as well.
Place(p) ==
  /\ At(p, "place")
  /\ IF kubo.target # "absent"
     THEN Exit(p) /\ UNCHANGED <<kubo, history>>
     ELSE /\ Goto(p, "wrap", [Mem(p) EXCEPT !.archive = "", !.backup = "absent"])
          /\ kubo' = [kubo EXCEPT !.target = Mem(p).archive]
          /\ history' = [history EXCEPT !.installed = TRUE]
  /\ UNCHANGED <<file, index, keyFiles, done, commands, faults>>

\* Mutant: the backup stays where it is.
PlaceFails_NoRollback(p) ==
  /\ At(p, "place") /\ faults < MaxFaults
  /\ Exit(p) /\ faults' = faults + 1
  /\ UNCHANGED <<file, index, keyFiles, kubo, done, commands, history>>

PlaceFails(p) ==
  /\ At(p, "place") /\ faults < MaxFaults
  /\ kubo' = IF kubo.target = "absent" THEN [kubo EXCEPT !.target = Mem(p).backup] ELSE kubo
  /\ Exit(p) /\ faults' = faults + 1
  /\ UNCHANGED <<file, index, keyFiles, done, commands, history>>

WriteWrapper(p) ==
  /\ At(p, "wrap")
  /\ kubo' = [kubo EXCEPT !.wrapper = TRUE]
  /\ Goto(p, "check", Mem(p))
  /\ UNCHANGED <<file, index, keyFiles, done, commands, faults, history>>

CheckInstalled(p) ==
  /\ At(p, "check")
  /\ IF WorkingBinary("managed") THEN Goto(p, "kubo.start", WithBin(p, "managed")) ELSE Exit(p)
  /\ UNCHANGED <<file, index, keyFiles, kubo, done, commands, faults, history>>

\* A daemon that answers is used; a repository is initialised once.
StartKubo(p) ==
  /\ At(p, "kubo.start")
  /\ Goto(p, CASE kubo.daemon -> "setup.save"
               [] ~kubo.daemon /\ kubo.repo -> "kubo.daemon"
               [] OTHER -> "kubo.init", Mem(p))
  /\ UNCHANGED <<file, index, keyFiles, kubo, done, commands, faults, history>>

\* "ipfs init" fails on a repository that another process has initialised.
InitKubo(p) ==
  /\ At(p, "kubo.init")
  /\ IF kubo.repo \/ ~Runs(Mem(p).cfg.bin)
     THEN Exit(p) /\ UNCHANGED kubo
     ELSE Goto(p, "kubo.daemon", Mem(p)) /\ kubo' = [kubo EXCEPT !.repo = TRUE]
  /\ UNCHANGED <<file, index, keyFiles, done, commands, faults, history>>

\* Through the user service or detached; then waitForKubo.
RunDaemon(p) ==
  /\ At(p, "kubo.daemon")
  /\ kubo' = [kubo EXCEPT !.daemon = @ \/ Runs(Mem(p).cfg.bin)]
  /\ Goto(p, "kubo.wait", Mem(p))
  /\ UNCHANGED <<file, index, keyFiles, done, commands, faults, history>>

WaitForKubo(p) ==
  /\ At(p, "kubo.wait")
  /\ IF kubo.daemon THEN Goto(p, "setup.save", Mem(p)) ELSE Exit(p)
  /\ UNCHANGED <<file, index, keyFiles, kubo, done, commands, faults, history>>

SetupSave(p) ==
  /\ At(p, "setup.save")
  /\ Save(p, Mem(p).cfg, IF Cmd(p).kubo THEN {"bin"} ELSE {}, {})
  /\ Goto(p, "doctor", Mem(p))
  /\ UNCHANGED <<index, keyFiles, kubo, done, commands, faults>>

\* The checks of the doctor that can fail here: the key's when one is selected,
\* and Kubo's when it was asked for.
DoctorPasses(p) ==
  /\ Mem(p).cfg.key # "" => Resolves(Mem(p).cfg)
  /\ Cmd(p).kubo => WorkingBinary(Mem(p).cfg.bin) /\ kubo.daemon

FinishSetup(p) ==
  /\ At(p, "doctor")
  /\ done' = (done \/ (p = User /\ DoctorPasses(p)))
  /\ Exit(p)
  /\ UNCHANGED <<file, index, keyFiles, kubo, commands, faults, history>>

-----------------------------------------------------------------------------
(* Faults and the specification                                            *)

Fault == faults < MaxFaults /\ faults' = faults + 1

\* A process is killed, or an operation fails where nothing is rolled back: the
\* steps before it stay.
Stops(p) ==
  /\ procs[p].at # "idle" /\ Fault
  /\ Exit(p)
  /\ history' = [history EXCEPT !.cut = @ \/ Mem(p).backup # "absent"]
  /\ UNCHANGED <<file, index, keyFiles, kubo, done, commands>>

DaemonStops ==
  /\ kubo.daemon /\ Fault
  /\ kubo' = [kubo EXCEPT !.daemon = FALSE]
  /\ UNCHANGED <<file, index, keyFiles, procs, done, commands, history>>

SetupCommands(names) ==
  [op : {"setup"}, create : names, kubo : BOOLEAN, force : BOOLEAN]

\* "config set" and "config unset" of the fields that a configuration has here; an
\* ipfs_bin that is unset is loaded as "ipfs".
ConfigCommands ==
  [op : {"set"}, field : {"network"}, value : Networks]
  \cup [op : {"set"}, field : ProfileFields, value : {"", "override"}]
  \cup [op : {"set"}, field : {"dir"}, value : Keystores]
  \cup [op : {"set"}, field : {"key"}, value : Names \cup {""}]
  \cup [op : {"set"}, field : {"bin"}, value : {"ipfs", "managed"}]

Commands ==
  ConfigCommands
  \cup [op : {"key"}, how : {"new", "import"}, name : Names]
  \cup [op : {"read"}]
  \cup {c \in SetupCommands(Names \cup {""}) : c.force => c.kubo}

\* The user's setups make one key and prepare Kubo.
SetupKey == CHOOSE name \in Names : TRUE

UserRuns ==
  /\ ~done
  /\ \E c \in SetupCommands({SetupKey}) : c.kubo /\ Run(User, c)
  /\ UNCHANGED commands

OtherRuns(p) ==
  /\ commands < MaxCommands /\ commands' = commands + 1
  /\ \E c \in Commands : Run(p, c)

Step(p) ==
  \/ Upgrade(p) \/ CmdConfigSet(p)
  \/ ReadIndex(p) \/ MakeAccount(p) \/ WriteIndex(p) \/ KeySave(p)
  \/ SetupPush(p) \/ Reload(p) \/ EnsureDependency(p) \/ DownloadArtifact(p)
  \/ ActivateManagedInstall(p) \/ MoveAside(p) \/ Place(p)
  \/ WriteWrapper(p) \/ CheckInstalled(p)
  \/ StartKubo(p) \/ InitKubo(p) \/ RunDaemon(p) \/ WaitForKubo(p)
  \/ SetupSave(p) \/ FinishSetup(p)

Next ==
  \/ UserRuns
  \/ \E p \in Others : OtherRuns(p)
  \/ \E p \in Procs : Step(p) \/ PlaceFails(p) \/ Stops(p)
  \/ DaemonStops

\* No file, or one that the user or an earlier igit wrote.
InitialFiles ==
  LET Written(network, fields, legacy) ==
        [network |-> network, dir |-> "", key |-> "", bin |-> "ipfs", legacy |-> legacy,
         set |-> [f \in fields |-> Override(IF network = "" THEN Testnet ELSE network)]]
  IN  {NoFile, Written("", {"evm_suite_directory_address"}, TRUE),
       Written("injective-mainnet", {"evm_suite_directory_address"}, FALSE),
       Written("injective-mainnet", ProfileFields, FALSE)}

\* Another key, selected or not, or none; Kubo on the path, installed by igit, or neither.
Init ==
  /\ \E first \in {<<>>} \cup {[n \in {name} |-> 1] : name \in Names \ {SetupKey}} :
       index = [d \in Keystores |-> IF d = "" THEN first ELSE <<>>]
  /\ keyFiles = [d \in Keystores |-> {index[d][name] : name \in DOMAIN index[d]}]
  /\ \E f \in InitialFiles, name \in {""} \cup DOMAIN index[""] : file = [f EXCEPT !.key = name]
  /\ kubo \in [onPath : BOOLEAN, target : {"absent", "good"}, wrapper : BOOLEAN,
               repo : {FALSE}, daemon : {FALSE}]
  /\ kubo.wrapper = (kubo.target = "good")
  /\ kubo.onPath => ~kubo.wrapper
  /\ procs = [p \in Procs |-> Idle]
  /\ done = FALSE /\ commands = 0 /\ faults = 0
  /\ history = [outdated |-> {}, stale |-> FALSE, lost |-> {}, typed |-> {}, cut |-> FALSE,
                installed |-> kubo.wrapper,
                wanted |-> [f \in {"network", "dir", "key", "bin"} |-> Load[f]]]

\* The scheduler runs a started process, and the user starts setup again.
Spec == Init /\ [][Next]_wsVars /\ WF_wsVars(UserRuns) /\ \A p \in Procs : WF_wsVars(Step(p))

-----------------------------------------------------------------------------
(* Properties                                                              *)

\* Every configuration that a process loads or works with has, in each field that
\* a network profile owns, the profile's value for the selected network, or one that
\* the user set while that network was selected, or none: never a value of another
\* network, not even one that the user had set for it (config.Load,
\* SelectNetworkProfile).
NetworksUnmixed ==
  \A c \in {Load} \cup {Mem(p).cfg : p \in {q \in Procs : ~At(q, "idle")}} :
    \A f \in ProfileFields : c[f] \in {Profile(c.network, f), Override(c.network), ""}

\* When no process saved a configuration that it had loaded before another
\* process's save, the file has what the last command that set the network, the
\* keystore directory, the key or the Kubo binary asked for: no later step of a
\* command, setup's second save included, puts an older value back.
SettingsKept ==
  ~history.stale => \A f \in DOMAIN history.wanted : Load[f] = history.wanted[f]

\* The key that the configuration selects has its name in the index of the keystore
\* that the configuration selects and its file there, whatever was killed or failed
\* on the way and whichever directory was configured meanwhile (CreateKey, importKey,
\* cmdKey).  Two exceptions, each until a key of that name is made there: an
\* overlapping key command replaced the index without it, or "config set" of key_name
\* or evm_keystore_dir, which checks neither, selected a key that is not there.
SelectedKeyResolves ==
  file.key # "" => Resolves(file) \/ <<file.dir, file.key>> \in history.lost \cup history.typed

\* Only an archive with the pinned checksum is ever installed, and an installation
\* is lost only while it is being replaced, or when a process is stopped between the
\* two renames: failing and concurrent replacements leave one in place
\* (downloadURL, activateManagedInstall).
InstallKept ==
  /\ kubo.target \in {"absent", "good"}
  /\ history.installed /\ ~history.cut /\ (\A p \in Procs : Mem(p).backup = "absent")
       => kubo.target # "absent"

\* A user who runs "igit setup push" again after each failure gets a setup that
\* passes its checks, whatever was stopped half-way, unless the SuiteDirectory
\* is not configured (setupPushWithServices, ensureDependency, startKubo).
SetupConverges == <>(done \/ Load.evm_suite_directory_address = "")
=============================================================================

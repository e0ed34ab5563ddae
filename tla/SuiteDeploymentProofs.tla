------------------------ MODULE SuiteDeploymentProofs ------------------------
(***************************************************************************)
(* The evidence the deployment tools write is complete and true, whatever  *)
(* crashes, lost answers and late transactions they meet, for any modules, *)
(* contracts and archive; and what a bootstrap run by the runner does to   *)
(* the contracts is a behaviour of SuiteBootstrap.  Of every item before   *)
(* its place a tool has left a trace, in the pool or on the chain; the     *)
(* file on disk holds what its tool entered; mining a transaction turns    *)
(* its trace in the pool into one on the chain.                            *)
(***************************************************************************)
EXTENDS SuiteBootstrapProofs

-----------------------------------------------------------------------------
(* Transactions                                                            *)

\* The address a tool sends with.
LEMMA SentAddress ==
  ASSUME DeploymentInv, tool.phase = "send", NEW a \in Address(Step)
  PROVE  /\ a \in Addrs /\ Tx(Step, a) \in Txs
         /\ Tx(Step, a).do = Step.do /\ Tx(Step, a).id = Step.id /\ Tx(Step, a).addr = a
         /\ TxSound(Tx(Step, a))
         /\ Step.do # "create" => a = tool.addr
         /\ tool.name = "deploy" /\ tool.step = 1 => a = "directory"
         /\ "directory" \notin code => Step.do = "create" /\ Step.id = "directory"
         /\ tool.name = "deploy" => InEntries(tool.entries, Step.do, Step.id)
<1>0. tool.phase \in Working
  BY Zenon DEF Working
<1>1. tool \in Tools /\ ToolSound(tool) /\ Step = ItemOf(tool)
  BY RunningTool, Zenon
<1>2. PICK what \in Items : what = Step
  BY <1>0, <1>1, AtWork, Zenon
<1>3. /\ tool.name \in Names /\ tool.step \in 1..Len(Program(tool.name)) /\ tool.step \in Nat
      /\ tool.name = "deploy" => tool.step \in 1..Len(tool.entries)
  BY <1>0, <1>1, AtWork, Zenon
<1>4. what.do # "create" => a = tool.addr
  BY <1>2, Zenon DEF Address
<1>5. what.do = "create" /\ what.id \notin ModuleIds => a = what.id
  BY <1>2, Zenon DEF Address
<1>6. what.do = "create" /\ what.id \in ModuleIds => a \in Contracts /\ BoundId[a] = what.id
  BY <1>2, Zenon DEF Address, Fresh
<1>7. what.do \in {"create", "bind", "register"} =>
        /\ what.do = "create" => what.id \in ModuleIds \cup {"directory", BoundCoordinator}
        /\ tool.name \in {"deploy", "rest"}
  <2>1. tool.name \in {"runner", "empty"} => what.do \notin {"create", "bind", "register"}
    BY <1>1, <1>2, <1>3, BootPrograms, Zenon DEF ItemOf
  <2>2. tool.name \in {"deploy", "rest"} =>
          (what.do = "create" => what.id \in ModuleIds \cup {"directory", BoundCoordinator})
    BY <1>1, <1>2, <1>3, DeployPrograms, Zenon DEF ItemOf, DeployShape
  <2> QED
    BY <2>1, <2>2, <1>3, Zenon DEF Names
<1>8. a \in Addrs
  <2>1. tool.addr \in Addrs
    BY <1>1, ToolType, Zenon
  <2>2. what.do = "create" => a \in Addrs
    BY <1>5, <1>6, <1>7, Zenon DEF Addrs
  <2> QED
    BY <2>1, <2>2, <1>4, Zenon
<1>9. PICK x : x = Tx(what, a)
  BY Zenon
<1>10. x \in Txs /\ x.do = what.do /\ x.id = what.id /\ x.addr = a
  <2>1. what.do \in Kinds /\ what.id \in Ids
    BY Zenon DEF Items
  <2> QED
    BY <2>1, <1>8, <1>9 DEF Tx, Txs
<1>11. TxSound(x)
  <2>1. what.do = "create" => a # None /\ CreatedFor(a) = what.id
    <3>1. what.do = "create" /\ what.id \in ModuleIds => a # None /\ CreatedFor(a) = what.id
      BY <1>6, Parts, Zenon DEF CreatedFor
    <3>2. what.do = "create" /\ what.id \notin ModuleIds => a # None /\ CreatedFor(a) = what.id
      BY <1>5, <1>7, Parts, Zenon DEF CreatedFor
    <3> QED
      BY <3>1, <3>2, Zenon
  <2>2. what.do = "register" => a \in code
    BY <1>0, <1>1, <1>2, <1>4, <1>7, Zenon DEF ToolSound, HandSound
  <2> QED
    BY <2>1, <2>2, <1>10, Zenon DEF TxSound
<1>12. tool.name = "deploy" /\ tool.step = 1 => what.do = "create" /\ what.id = "directory"
  BY <1>1, <1>2, DeployPrograms, Zenon DEF ItemOf, DeployShape
<1>13. tool.name = "deploy" /\ tool.step = 1 => a = "directory"
  BY <1>5, <1>12, Parts, Zenon
<1>14. "directory" \notin code => what.do = "create" /\ what.id = "directory"
  <2> SUFFICES ASSUME "directory" \notin code PROVE what.do = "create" /\ what.id = "directory"
    BY Zenon
  <2>1. tool.name = "deploy"
    BY <1>1, <1>3, Zenon DEF ToolSound, ToolPlaced, Names
  <2>2. ~(tool.step >= 2)
    BY <2>1, <1>1, Zenon DEF ToolSound, DeployerSound
  <2>3. tool.step = 1
    BY <2>2, <1>3
  <2> QED
    BY <2>1, <2>3, <1>12, Zenon
<1>15. tool.name = "deploy" => InEntries(tool.entries, what.do, what.id)
  BY <1>0, <1>1, <1>2, <1>3, Zenon DEF ToolSound, DeployerSound, InEntries
<1> QED
  BY <1>2, <1>4, <1>8, <1>9, <1>10, <1>11, <1>13, <1>14, <1>15, Zenon

\* A transaction more in the pool.
LEMMA AppendPool ==
  ASSUME NEW q \in Seq(Txs), NEW x \in Txs
  PROVE  /\ Append(q, x) \in Seq(Txs) /\ Append(q, x) # <<>>
         /\ Append(q, x)[Len(Append(q, x))] = x
         /\ \A k \in 1..Len(Append(q, x)) : Append(q, x)[k] = x \/ \E j \in 1..Len(q) : Append(q, x)[k] = q[j]
OBVIOUS

\* A tool's transaction reaches the pool, whether the tool sees it or not.
LEMMA PoolTakes ==
  ASSUME DeploymentInv, tool.phase = "send", UNCHANGED <<vars, code>>, file' = file,
         NEW a \in Address(Step), pool' = Append(pool, Tx(Step, a)),
         receipt' \in {"none", "mined", "reverted"},
         NEW u \in Tools, u = tool', ToolSound(u),
         u.name # "none" => u.name = tool.name /\ u.step = tool.step /\ u.entries = tool.entries,
         u.phase = "wait" => receipt' = "none" /\ u.addr = a
  PROVE  DeploymentInv'
<1>1. PICK x : x = Tx(Step, a)
  BY Zenon
<1>2. /\ x \in Txs /\ x.do = Step.do /\ x.id = Step.id /\ TxSound(x)
      /\ "directory" \notin code => x.do = "create" /\ x.id = "directory"
      /\ tool.name = "deploy" => InEntries(tool.entries, x.do, x.id)
  BY <1>1, SentAddress, Zenon
<1>3. PICK q \in Seq(Txs) : q = pool
  BY Zenon DEF DeploymentInv, DeploymentTyped
<1>4. PICK r \in Seq(Txs) :
        /\ r = pool' /\ r # <<>> /\ r[Len(r)] = x
        /\ \A k \in 1..Len(r) : r[k] = x \/ \E j \in 1..Len(q) : r[k] = q[j]
  BY <1>1, <1>2, <1>3, AppendPool, Zenon
<1>5. Grows
  BY SameGrows, Zenon
<1>6. code' = code /\ moduleAddress' = moduleAddress /\ bootstrapCoordinator' = bootstrapCoordinator
  BY Zenon DEF vars, directoryVars
<1>7. \A d, i : Trace(d, i)' => Trace(d, i) \/ (d = x.do /\ i = x.id)
  <2> SUFFICES ASSUME NEW d, NEW i, Trace(d, i)', ~(d = x.do /\ i = x.id) PROVE Trace(d, i)
    BY Zenon
  <2>1. CASE \E k \in 1..Len(r) : r[k].do = d /\ r[k].id = i
    <3>1. PICK k \in 1..Len(r) : r[k].do = d /\ r[k].id = i
      BY <2>1, Zenon
    <3>2. PICK j \in 1..Len(q) : r[k] = q[j]
      BY <3>1, <1>4, Zenon
    <3>3. j \in 1..Len(pool) /\ pool[j].do = d /\ pool[j].id = i
      BY <3>1, <3>2, <1>3, Zenon
    <3> QED
      BY <3>3, Zenon DEF Trace
  <2>2. CASE ~\E k \in 1..Len(r) : r[k].do = d /\ r[k].id = i
    BY <2>2, <1>4, <1>6, Zenon DEF Trace
  <2> QED
    BY <2>1, <2>2, Zenon
<1>8. DeploymentTyped'
  BY <1>4, <1>6, Zenon DEF DeploymentInv, DeploymentTyped
<1>9. ChainSound'
  <2>1. \A k \in 1..Len(q) : TxSound(q[k])
    BY <1>3, Zenon DEF DeploymentInv, ChainSound
  <2>2. \A k \in 1..Len(r) : TxSound(r[k])
    BY <2>1, <1>2, <1>4, Zenon
  <2>3. \A k \in 1..Len(pool') : TxSound(pool[k])'
    BY <2>2, <1>4, <1>6, Zenon DEF TxSound
  <2>4. "directory" \notin code' => \A d, i : Trace(d, i)' => d = "create" /\ i = "directory"
    BY <1>2, <1>6, <1>7, ZenonT(30) DEF DeploymentInv, ChainSound
  <2> QED
    BY <2>3, <2>4, <1>6, Zenon DEF DeploymentInv, ChainSound
<1>10. ToolSound(u)'
  <2>1. u.name = "deploy" => \A d, i : Trace(d, i)' => Trace(d, i) \/ InEntries(u.entries, d, i)
    BY <1>2, <1>7, Zenon
  <2> QED
    BY <2>1, <1>5, ToolGrows, Zenon
<1>11. ToolSound(tool)'
  BY <1>10, ToolPrimed, Zenon
<1>12. WaitSound'
  <2> SUFFICES ASSUME u.phase = "wait" PROVE WaitSound'
    BY Zenon DEF WaitSound
  <2>1. u.name # "none"
    BY Zenon DEF ToolSound, ToolPlaced
  <2>2. Step' = Step
    BY <2>1, Zenon DEF Step
  <2>3. Tx(Step, tool.addr)' = x
    BY <2>2, <1>1, Zenon DEF Tx
  <2> QED
    BY <2>3, <1>4, Zenon DEF WaitSound
<1>13. FileTrue'
  BY <1>5, FileGrows, Zenon DEF DeploymentInv
<1>14. FileComplete'
  <2>0. tool.name # "none" /\ tool.phase \notin {"open", "announce"} /\ file.by = tool.name
    BY Zenon DEF DeploymentInv, ToolSound, ToolPlaced, FileComplete
  <2> SUFFICES ASSUME file.by = "deploy", ~file.torn
               PROVE  /\ \A d, i : Trace(d, i)' => InEntries(file.entries, d, i)
                      /\ u.name = "deploy" /\ u.phase \notin {"open", "announce"} =>
                           \A d, i : InEntries(u.entries, d, i) => InEntries(file.entries, d, i)
    BY <2>0, Zenon DEF FileComplete
  <2>1. /\ \A d, i : Trace(d, i) => InEntries(file.entries, d, i)
        /\ \A d, i : InEntries(tool.entries, d, i) => InEntries(file.entries, d, i)
    BY <2>0, Zenon DEF DeploymentInv, FileComplete
  <2>2. InEntries(file.entries, x.do, x.id)
    BY <2>0, <2>1, <1>2, Zenon
  <2>3. \A d, i : Trace(d, i)' => InEntries(file.entries, d, i)
    BY <2>1, <2>2, <1>7, Zenon
  <2>4. u.name = "deploy" => \A d, i : InEntries(u.entries, d, i) => InEntries(file.entries, d, i)
    BY <2>1, Zenon
  <2> QED
    BY <2>3, <2>4, Zenon
<1> QED
  BY <1>8, <1>9, <1>11, <1>12, <1>13, <1>14, Zenon DEF DeploymentInv

\* What a tool that fails keeps.
LEMMA FailFields ==
  ASSUME NEW t \in Tools
  PROVE  Fail(t).name # "none" =>
           Fail(t).name = t.name /\ Fail(t).step = t.step /\ Fail(t).entries = t.entries
<1>1. CASE t.name # "deploy"
  <2>1. Fail(t).name = "none"
    BY <1>1 DEF Fail, Idle
  <2> QED
    BY <2>1, Zenon
<1>2. CASE t.name = "deploy"
  <2>1. PICK p \in Phases, s \in Statuses : p = "failing" /\ s = "failed"
    BY Zenon DEF Phases, Statuses
  <2>2. Changed(t, [t EXCEPT !.phase = p, !.status = s], t.step, p, t.addr, s, t.entries)
    BY StatusChange, Zenon
  <2>3. Fail(t) = [t EXCEPT !.phase = p, !.status = s]
    BY <2>1, <1>2, Zenon DEF Fail
  <2> QED
    BY <2>2, <2>3, Zenon DEF Changed
<1> QED
  BY <1>1, <1>2, Zenon

\* A tool sends a transaction, or its gas estimate fails.
LEMMA SendKeeps ==
  ASSUME DeploymentInv, Send
  PROVE  DeploymentInv'
<1>0. /\ tool.phase = "send" /\ receipt' = "none" /\ file' = file /\ UNCHANGED <<vars, code>>
      /\ tool.phase \in Working
  BY Zenon DEF Send, Working
<1>1. tool \in Tools /\ ToolSound(tool) /\ Step = ItemOf(tool)
  BY RunningTool, Zenon
<1>2. PICK a \in Address(Step) :
        \/ pool' = Append(pool, Tx(Step, a)) /\ tool' = [tool EXCEPT !.phase = "wait", !.addr = a]
        \/ tool' = Fail(tool) /\ pool' = pool
  BY Zenon DEF Send
<1>3. CASE pool' = Append(pool, Tx(Step, a)) /\ tool' = [tool EXCEPT !.phase = "wait", !.addr = a]
  <2>1. /\ a \in Addrs /\ (Step.do # "create" => a = tool.addr)
        /\ tool.name = "deploy" /\ tool.step = 1 => a = "directory"
    BY <1>0, SentAddress, Zenon
  <2>2. PICK p \in Working : p = "wait"
    BY Zenon DEF Working
  <2>3. p \in Phases
    BY Zenon DEF Phases
  <2>4. PICK u : u = tool'
    BY Zenon
  <2>5. Changed(tool, [tool EXCEPT !.phase = p, !.addr = a], tool.step, p, a, tool.status, tool.entries)
    BY <1>1, <2>1, <2>3, SendChange, Zenon
  <2>6. Changed(tool, u, tool.step, p, a, tool.status, tool.entries)
    BY <2>2, <2>4, <2>5, <1>3, Zenon
  <2>7. /\ p \notin {"announce", "verify", "address", "look", "confirm", "record"}
        /\ ItemOf(tool).do = "register" => a = tool.addr
    BY <2>1, <2>2, <1>1, Zenon
  <2>8. ToolSound(u)
    BY <2>1, <2>6, <2>7, <1>0, <1>1, PhaseSound, Zenon
  <2>9. /\ u \in Tools /\ u.name = tool.name /\ u.step = tool.step /\ u.entries = tool.entries /\ u.addr = a
        /\ receipt' \in {"none", "mined", "reverted"}
    BY <2>6, <1>0, Zenon DEF Changed
  <2> QED
    BY <1>0, <1>3, <2>4, <2>8, <2>9, PoolTakes, Zenon
<1>4. CASE tool' = Fail(tool) /\ pool' = pool
  <2>1. Moves(tool, tool')
    BY <1>1, <1>4, FailMoves, Zenon
  <2>2. UNCHANGED <<vars, code, pool, file>> /\ receipt' \in {"none", "mined", "reverted"}
    BY <1>0, <1>4, Zenon
  <2>3. tool.phase \notin {"open", "announce"}
    BY <1>0, Zenon
  <2> QED
    BY <2>1, <2>2, <2>3, MoveKeeps, Zenon
<1> QED
  BY <1>2, <1>3, <1>4, Zenon

\* The send fails though the transaction is pending.
LEMMA SendLostKeeps ==
  ASSUME DeploymentInv, SendLost
  PROVE  DeploymentInv'
<1>0. tool.phase = "send" /\ receipt' = receipt /\ file' = file /\ UNCHANGED <<vars, code>> /\ tool' = Fail(tool)
  BY Zenon DEF SendLost
<1>1. tool \in Tools /\ ToolSound(tool) /\ receipt \in {"none", "mined", "reverted"}
  BY RunningTool, Zenon
<1>2. PICK a \in Address(Step) : pool' = Append(pool, Tx(Step, a))
  BY Zenon DEF SendLost
<1>3. PICK u : u = Fail(tool)
  BY Zenon
<1>4. Moves(tool, u)
  BY <1>1, <1>3, FailMoves, Zenon
<1>5. u \in Tools /\ ToolSound(u) /\ u.phase # "wait"
  BY <1>4, Zenon DEF Moves
<1>6. u.name # "none" => u.name = tool.name /\ u.step = tool.step /\ u.entries = tool.entries
  BY <1>1, <1>3, FailFields, Zenon
<1> QED
  BY <1>0, <1>1, <1>2, <1>3, <1>5, <1>6, PoolTakes, Zenon

-----------------------------------------------------------------------------
(* Mining                                                                  *)

\* The chain grows by what left a trace before.
Kept ==
  /\ Grows
  /\ code' \subseteq Addrs \ {None}
  /\ moduleAddress' \in [ModuleIds -> Contracts \cup {None}]
  /\ bootstrapCoordinator' \in {None, BoundCoordinator}
  /\ \A id \in ModuleIds :
       moduleAddress'[id] # None => moduleAddress'[id] \in code' /\ BoundId[moduleAddress'[id]] = id
  /\ \A c \in code' : Trace("create", CreatedFor(c))
  /\ bootstrapCoordinator' # None => Trace("bind", BoundCoordinator)
  /\ \A id \in ModuleIds : moduleAddress'[id] # None => Trace("register", id)

\* Behind a transaction x that was mined.
Mined(x) ==
  /\ Kept
  /\ x.do = "create" => x.addr \in code'
  /\ x.do = "bind" => bootstrapCoordinator' # None
  /\ x.do = "register" => x.addr # None /\ moduleAddress'[x.id] = x.addr

\* What is there left a trace.
LEMMA Traces ==
  /\ \A c \in code : Trace("create", CreatedFor(c))
  /\ bootstrapCoordinator # None => Trace("bind", BoundCoordinator)
  /\ \A id \in ModuleIds : moduleAddress[id] # None => Trace("register", id)
<1>1. \A c \in code : Trace("create", CreatedFor(c))
  BY Zenon DEF Trace
<1>2. bootstrapCoordinator # None => Trace("bind", BoundCoordinator)
  BY Zenon DEF Trace
<1>3. \A id \in ModuleIds : moduleAddress[id] # None => Trace("register", id)
  BY Zenon DEF Trace
<1> QED
  BY <1>1, <1>2, <1>3, Zenon

\* What was pending left a trace too.
LEMMA PendingTraces ==
  ASSUME NEW k \in 1..Len(pool)
  PROVE  Trace(pool[k].do, pool[k].id)
BY Zenon DEF Trace

\* A contract is created.
LEMMA CreateMined ==
  ASSUME DeploymentInv, NEW x \in Txs, TxSound(x), Trace(x.do, x.id), x.do = "create",
         code' = code \cup {x.addr}, UNCHANGED vars
  PROVE  Mined(x)
<1>1. /\ moduleAddress' = moduleAddress /\ bootstrapCoordinator' = bootstrapCoordinator /\ state' = state
  BY Zenon DEF vars, directoryVars
<1>2. x.addr \in Addrs /\ x.addr # None /\ CreatedFor(x.addr) = x.id
  BY Zenon DEF Txs, TxSound
<1>3. Grows
  BY <1>1, Zenon DEF Grows
<1>4. /\ code' \subseteq Addrs \ {None} /\ moduleAddress' \in [ModuleIds -> Contracts \cup {None}]
      /\ bootstrapCoordinator' \in {None, BoundCoordinator}
  BY <1>1, <1>2, Zenon DEF DeploymentInv, DeploymentTyped
<1>5. \A id \in ModuleIds :
        moduleAddress'[id] # None => moduleAddress'[id] \in code' /\ BoundId[moduleAddress'[id]] = id
  BY <1>1, Zenon DEF DeploymentInv, ChainSound
<1>6. \A c \in code' : Trace("create", CreatedFor(c))
  BY <1>2, Traces, Zenon
<1>7. /\ bootstrapCoordinator' # None => Trace("bind", BoundCoordinator)
      /\ \A id \in ModuleIds : moduleAddress'[id] # None => Trace("register", id)
  BY <1>1, Traces, Zenon
<1> QED
  BY <1>3, <1>4, <1>5, <1>6, <1>7, Zenon DEF Mined, Kept

\* The coordinator is bound.
LEMMA BindMined ==
  ASSUME DeploymentInv, NEW x \in Txs, Trace(x.do, x.id), x.do = "bind",
         SetBootstrapCoordinator(Authority, x.id), code' = code
  PROVE  Mined(x)
<1>1. /\ moduleAddress' = moduleAddress /\ state' = state /\ bootstrapCoordinator = None
      /\ bootstrapCoordinator' = BoundCoordinator /\ x.id = BoundCoordinator
  BY Zenon DEF SetBootstrapCoordinator
<1>2. Grows
  BY <1>1, Zenon DEF Grows
<1>3. /\ code' \subseteq Addrs \ {None} /\ moduleAddress' \in [ModuleIds -> Contracts \cup {None}]
      /\ bootstrapCoordinator' \in {None, BoundCoordinator}
  BY <1>1, Zenon DEF DeploymentInv, DeploymentTyped
<1>4. \A id \in ModuleIds :
        moduleAddress'[id] # None => moduleAddress'[id] \in code' /\ BoundId[moduleAddress'[id]] = id
  BY <1>1, Zenon DEF DeploymentInv, ChainSound
<1>5. /\ \A c \in code' : Trace("create", CreatedFor(c))
      /\ \A id \in ModuleIds : moduleAddress'[id] # None => Trace("register", id)
      /\ Trace("bind", BoundCoordinator)
  BY <1>1, Traces, Zenon
<1>6. bootstrapCoordinator' # None
  BY <1>1, Parts, Zenon
<1> QED
  BY <1>2, <1>3, <1>4, <1>5, <1>6, Zenon DEF Mined, Kept

\* A module is registered.
LEMMA RegisterMined ==
  ASSUME DeploymentInv, NEW x \in Txs, TxSound(x), Trace(x.do, x.id), x.do = "register",
         RegisterModule(Operator, x.id, x.addr), code' = code
  PROVE  Mined(x)
<1>1. PICK id0, c : id0 = x.id /\ c = x.addr
  BY Zenon
<1>2. /\ moduleAddress' = [moduleAddress EXCEPT ![id0] = c] /\ moduleAddress[id0] = None
      /\ bootstrapCoordinator' = bootstrapCoordinator /\ state' = state
      /\ c \in BoundContracts /\ BoundId[c] = id0
  BY <1>1, Zenon DEF RegisterModule, ConfigureModule
<1>3. c \in Contracts /\ id0 \in ModuleIds /\ c \in code /\ c # None
  <2>1. c \in Contracts
    BY <1>2, BootstrapAssumption, Zenon
  <2>2. id0 \in ModuleIds /\ c # None
    BY <2>1, <1>2, Parts, Zenon
  <2> QED
    BY <2>1, <2>2, <1>1, Zenon DEF TxSound
<1>4. moduleAddress \in [ModuleIds -> Contracts \cup {None}]
  BY Zenon DEF DeploymentInv, DeploymentTyped
<1>5. /\ moduleAddress' \in [ModuleIds -> Contracts \cup {None}] /\ moduleAddress'[id0] = c
      /\ \A id \in ModuleIds : id # id0 => moduleAddress'[id] = moduleAddress[id]
  BY <1>2, <1>3, <1>4, Zenon
<1>6. Grows
  BY <1>2, <1>5, Zenon DEF Grows
<1>7. code' \subseteq Addrs \ {None} /\ bootstrapCoordinator' \in {None, BoundCoordinator}
  BY <1>2, Zenon DEF DeploymentInv, DeploymentTyped
<1>8. \A id \in ModuleIds :
        moduleAddress'[id] # None => moduleAddress'[id] \in code' /\ BoundId[moduleAddress'[id]] = id
  BY <1>2, <1>3, <1>5, Zenon DEF DeploymentInv, ChainSound
<1>9. /\ \A c2 \in code' : Trace("create", CreatedFor(c2))
      /\ bootstrapCoordinator' # None => Trace("bind", BoundCoordinator)
      /\ \A id \in ModuleIds : moduleAddress'[id] # None => Trace("register", id)
  BY <1>1, <1>2, <1>5, Traces, Zenon
<1>10. x.addr # None /\ moduleAddress'[x.id] = x.addr
  BY <1>1, <1>3, <1>5, Zenon
<1> QED
  BY <1>5, <1>6, <1>7, <1>8, <1>9, <1>10, Zenon DEF Mined, Kept

\* The other calls leave contracts and bindings alone.
LEMMA OtherKept ==
  ASSUME DeploymentInv, code' = code,
         moduleAddress' = moduleAddress, bootstrapCoordinator' = bootstrapCoordinator,
         state = "Active" => state' = "Active"
  PROVE  Kept
<1>1. Grows
  BY Zenon DEF Grows
<1>2. /\ code' \subseteq Addrs \ {None} /\ moduleAddress' \in [ModuleIds -> Contracts \cup {None}]
      /\ bootstrapCoordinator' \in {None, BoundCoordinator}
  BY Zenon DEF DeploymentInv, DeploymentTyped
<1>3. \A id \in ModuleIds :
        moduleAddress'[id] # None => moduleAddress'[id] \in code' /\ BoundId[moduleAddress'[id]] = id
  BY Zenon DEF DeploymentInv, ChainSound
<1>4. /\ \A c \in code' : Trace("create", CreatedFor(c))
      /\ bootstrapCoordinator' # None => Trace("bind", BoundCoordinator)
      /\ \A id \in ModuleIds : moduleAddress'[id] # None => Trace("register", id)
  BY Traces, Zenon
<1> QED
  BY <1>1, <1>2, <1>3, <1>4, Zenon DEF Kept

\* Whatever a transaction does.
LEMMA EffectMined ==
  ASSUME DeploymentInv, NEW x \in Txs, TxSound(x), Trace(x.do, x.id), Effect(x)
  PROVE  Mined(x)
<1>1. CASE x.do = "create" /\ code' = code \cup {x.addr} /\ UNCHANGED vars
  BY <1>1, CreateMined, Zenon
<1>2. CASE x.do = "bind" /\ SetBootstrapCoordinator(Authority, x.id) /\ UNCHANGED code
  BY <1>2, BindMined, Zenon
<1>3. CASE x.do = "register" /\ RegisterModule(Operator, x.id, x.addr) /\ UNCHANGED code
  BY <1>3, RegisterMined, Zenon
<1>4. CASE x.do = "begin" /\ BeginNextModule(Operator, x.id, PlanFor(x.id)) /\ UNCHANGED code
  <2>1. moduleAddress' = moduleAddress /\ bootstrapCoordinator' = bootstrapCoordinator /\ state' = state
    BY <1>4, Zenon DEF BeginNextModule, directoryVars
  <2> QED
    BY <1>4, <2>1, OtherKept, Zenon DEF Mined
<1>5. CASE x.do = "attest" /\ AttestUsernameEscrowReleased(Operator) /\ UNCHANGED code
  <2>1. moduleAddress' = moduleAddress /\ bootstrapCoordinator' = bootstrapCoordinator /\ state' = state
    BY <1>5, Zenon DEF AttestUsernameEscrowReleased, directoryVars
  <2> QED
    BY <1>5, <2>1, OtherKept, Zenon DEF Mined
<1>6. CASE x.do = "finalize" /\ FinalizeCurrentModule(Operator, x.id) /\ UNCHANGED code
  <2>1. moduleAddress' = moduleAddress /\ bootstrapCoordinator' = bootstrapCoordinator /\ state' = state
    BY <1>6, Zenon DEF FinalizeCurrentModule, directoryVars
  <2> QED
    BY <1>6, <2>1, OtherKept, Zenon DEF Mined
<1>7. CASE x.do = "activate" /\ ActivateSuite(Operator) /\ UNCHANGED code
  <2>1. moduleAddress' = moduleAddress /\ bootstrapCoordinator' = bootstrapCoordinator /\ state' = "Active"
    BY <1>7, Zenon DEF ActivateSuite
  <2> QED
    BY <1>7, <2>1, OtherKept, Zenon DEF Mined
<1> QED
  BY <1>1, <1>2, <1>3, <1>4, <1>5, <1>6, <1>7, Zenon DEF Effect

\* The pool behind its first transaction.
LEMMA TailPool ==
  ASSUME NEW q \in Seq(Txs), q # <<>>
  PROVE  /\ Head(q) \in Txs /\ Head(q) = q[1] /\ 1 \in 1..Len(q) /\ Tail(q) \in Seq(Txs)
         /\ \A k \in 1..Len(Tail(q)) : \E j \in 1..Len(q) : Tail(q)[k] = q[j]
         /\ Len(q) = 1 => Tail(q) = <<>> /\ q[Len(q)] = Head(q)
         /\ Len(q) # 1 => Tail(q) # <<>> /\ Tail(q)[Len(Tail(q))] = q[Len(q)]
<1>1. Len(q) \in Nat /\ Len(q) > 0 /\ Tail(q) \in Seq(Txs) /\ Len(Tail(q)) = Len(q) - 1
  OBVIOUS
<1>2. Head(q) \in Txs /\ Head(q) = q[1] /\ 1 \in 1..Len(q)
  BY <1>1
<1>3. \A k \in 1..Len(Tail(q)) : k + 1 \in 1..Len(q) /\ Tail(q)[k] = q[k + 1]
  BY <1>1
<1>4. Len(q) = 1 => Tail(q) = <<>> /\ q[Len(q)] = Head(q)
  <2> SUFFICES ASSUME Len(q) = 1 PROVE Tail(q) = <<>> /\ q[Len(q)] = Head(q)
    BY Zenon
  <2>1. PICK r \in Seq(Txs) : r = Tail(q)
    BY <1>1, Zenon
  <2>2. Len(r) = 0
    BY <1>1, <2>1
  <2>3. r = <<>>
    BY <2>2
  <2> QED
    BY <2>1, <2>3, <1>2, Zenon
<1>5. Len(q) # 1 => Tail(q) # <<>> /\ Tail(q)[Len(Tail(q))] = q[Len(q)]
  <2> SUFFICES ASSUME Len(q) # 1 PROVE Tail(q) # <<>> /\ Tail(q)[Len(Tail(q))] = q[Len(q)]
    BY Zenon
  <2>1. PICK r \in Seq(Txs) : r = Tail(q)
    BY <1>1, Zenon
  <2>2. PICK n : n = Len(q) - 1
    BY Zenon
  <2>3. n \in 1..Len(r) /\ Len(r) = n /\ n + 1 = Len(q)
    BY <1>1, <2>1, <2>2
  <2>4. r[n] = q[n + 1]
    BY <1>3, <2>1, <2>3, Zenon
  <2>5. r # <<>>
    BY <2>3
  <2> QED
    BY <2>1, <2>3, <2>4, <2>5, Zenon
<1> QED
  BY <1>1, <1>2, <1>3, <1>4, <1>5, Zenon

\* A transaction is mined, or reverts.
LEMMA MineKeeps ==
  ASSUME DeploymentInv, Mine
  PROVE  DeploymentInv'
<1>1. PICK q \in Seq(Txs) : q = pool
  BY Zenon DEF DeploymentInv, DeploymentTyped
<1>2. PICK x : x = Head(q)
  BY Zenon
<1>3. PICK r : r = Tail(q)
  BY Zenon
<1>4. q # <<>> /\ pool' = r /\ tool' = tool /\ file' = file
  BY <1>1, <1>3, Zenon DEF Mine
<1>5. /\ x \in Txs /\ x = q[1] /\ 1 \in 1..Len(q) /\ r \in Seq(Txs)
      /\ \A k \in 1..Len(r) : \E j \in 1..Len(q) : r[k] = q[j]
      /\ Len(q) = 1 => r = <<>> /\ q[Len(q)] = x
      /\ Len(q) # 1 => r # <<>> /\ r[Len(r)] = q[Len(q)]
  BY <1>2, <1>3, <1>4, TailPool, Zenon
<1>6. \A k \in 1..Len(q) : TxSound(q[k])
  BY <1>1, Zenon DEF DeploymentInv, ChainSound
<1>7. TxSound(x) /\ Trace(x.do, x.id)
  BY <1>1, <1>5, <1>6, PendingTraces, Zenon
<1>8. \/ Mined(x) /\ receipt' = IF tool.phase = "wait" /\ Len(q) = 1 THEN "mined" ELSE receipt
      \/ Kept /\ receipt' = IF tool.phase = "wait" /\ Len(q) = 1 THEN "reverted" ELSE receipt
  <2>1. \/ Effect(x) /\ Receipted("mined")
        \/ UNCHANGED <<vars, code>> /\ Receipted("reverted")
    BY <1>1, <1>2, Zenon DEF Mine
  <2>2. CASE Effect(x) /\ Receipted("mined")
    <3>1. Mined(x)
      BY <2>2, <1>5, <1>7, EffectMined, Zenon
    <3> QED
      BY <2>2, <3>1, <1>1, Zenon DEF Receipted
  <2>3. CASE UNCHANGED <<vars, code>> /\ Receipted("reverted")
    <3>1. code' = code /\ moduleAddress' = moduleAddress /\ bootstrapCoordinator' = bootstrapCoordinator
          /\ state' = state
      BY <2>3, Zenon DEF vars, directoryVars
    <3>2. Kept
      BY <3>1, OtherKept, Zenon
    <3> QED
      BY <2>3, <3>2, <1>1, Zenon DEF Receipted
  <2> QED
    BY <2>1, <2>2, <2>3, Zenon
<1>9. Kept
  BY <1>8, Zenon DEF Mined
<1>10. Grows
  BY <1>9, Zenon DEF Kept
<1>11. \A d, i : Trace(d, i)' => Trace(d, i)
  <2> SUFFICES ASSUME NEW d, NEW i, Trace(d, i)' PROVE Trace(d, i)
    BY Zenon
  <2>1. CASE \E k \in 1..Len(r) : r[k].do = d /\ r[k].id = i
    <3>1. PICK k \in 1..Len(r) : r[k].do = d /\ r[k].id = i
      BY <2>1, Zenon
    <3>2. PICK j \in 1..Len(q) : r[k] = q[j]
      BY <1>5, Zenon
    <3>3. j \in 1..Len(pool) /\ pool[j].do = d /\ pool[j].id = i
      BY <3>1, <3>2, <1>1, Zenon
    <3> QED
      BY <3>3, Zenon DEF Trace
  <2>2. CASE ~\E k \in 1..Len(r) : r[k].do = d /\ r[k].id = i
    <3>1. \/ d = "create" /\ \E c \in code' : CreatedFor(c) = i
          \/ d = "bind" /\ i = BoundCoordinator /\ bootstrapCoordinator' # None
          \/ d = "register" /\ i \in ModuleIds /\ moduleAddress'[i] # None
      BY <2>2, <1>4, Zenon DEF Trace
    <3>2. /\ \A c \in code' : Trace("create", CreatedFor(c))
          /\ bootstrapCoordinator' # None => Trace("bind", BoundCoordinator)
          /\ \A id \in ModuleIds : moduleAddress'[id] # None => Trace("register", id)
      BY <1>9, Zenon DEF Kept
    <3> QED
      BY <3>1, <3>2, Zenon
  <2> QED
    BY <2>1, <2>2, Zenon
<1>12. DeploymentTyped'
  <2>1. receipt' \in {"none", "mined", "reverted"}
    BY <1>8, RunningTool, Zenon
  <2>2. /\ code' \subseteq Addrs \ {None} /\ moduleAddress' \in [ModuleIds -> Contracts \cup {None}]
        /\ bootstrapCoordinator' \in {None, BoundCoordinator}
    BY <1>9, Zenon DEF Kept
  <2>3. pool' \in Seq(Txs)
    BY <1>4, <1>5, Zenon
  <2> QED
    BY <2>1, <2>2, <2>3, <1>4, Zenon DEF DeploymentInv, DeploymentTyped
<1>13. ChainSound'
  <2>1. \A k \in 1..Len(r) : TxSound(r[k])
    BY <1>5, <1>6, Zenon
  <2>2. \A k \in 1..Len(pool') : TxSound(pool[k])'
    BY <2>1, <1>4, <1>10, Zenon DEF TxSound, Grows
  <2>3. \A id \in ModuleIds :
          moduleAddress'[id] # None => moduleAddress'[id] \in code' /\ BoundId[moduleAddress'[id]] = id
    BY <1>9, Zenon DEF Kept
  <2>4. "directory" \notin code' => \A d, i : Trace(d, i)' => d = "create" /\ i = "directory"
    BY <1>10, <1>11, Zenon DEF Grows, DeploymentInv, ChainSound
  <2> QED
    BY <2>2, <2>3, <2>4, Zenon DEF ChainSound
<1>14. ToolSound(tool)'
  <2>1. PICK t \in Tools : t = tool /\ ToolSound(t) /\ t = tool'
    BY <1>4, RunningTool, Zenon
  <2>2. ToolSound(t)'
    BY <2>1, <1>10, <1>11, ToolGrows, Zenon
  <2> QED
    BY <2>1, <2>2, ToolPrimed, Zenon
<1>15. WaitSound'
  <2> SUFFICES ASSUME tool.phase = "wait" PROVE WaitSound'
    BY <1>4, Zenon DEF WaitSound
  <2>1. Step' = Step /\ tool'.addr = tool.addr
    BY <1>4, Zenon DEF Step
  <2>2. PICK what, a : what = Step /\ a = tool.addr
    BY Zenon
  <2>3. Tx(Step, tool.addr)' = Tx(what, a)
    BY <2>1, <2>2, Zenon DEF Tx
  <2>4. receipt = "none" /\ q[Len(q)] = Tx(what, a)
    BY <1>1, <1>4, <2>2, Zenon DEF DeploymentInv, WaitSound
  <2>5. CASE Len(q) # 1
    BY <2>3, <2>4, <2>5, <1>4, <1>5, <1>8, Zenon DEF WaitSound
  <2>6. CASE Len(q) = 1
    <3>1. receipt' # "none" /\ pool' = <<>>
      BY <2>6, <1>4, <1>5, <1>8, Zenon
    <3>2. receipt' = "mined" => Done(what, a)'
      <4> SUFFICES ASSUME receipt' = "mined" PROVE Done(what, a)'
        BY Zenon
      <4>1. Mined(x) /\ x = Tx(what, a)
        BY <2>4, <2>6, <1>5, <1>8, Zenon
      <4>2. x.do = what.do /\ x.id = what.id /\ x.addr = a
        BY <4>1 DEF Tx
      <4> QED
        BY <4>1, <4>2, Zenon DEF Mined, Done
    <3>3. receipt' = "mined" => Done(Step, tool.addr)'
      BY <3>2, <2>1, <2>2, Zenon DEF Done
    <3> QED
      BY <3>1, <3>3, Zenon DEF WaitSound
  <2> QED
    BY <2>5, <2>6, Zenon
<1>16. FileTrue'
  BY <1>4, <1>10, FileGrows, Zenon DEF DeploymentInv
<1>17. FileComplete'
  BY <1>4, <1>11, Zenon DEF DeploymentInv, FileComplete
<1> QED
  BY <1>12, <1>13, <1>14, <1>15, <1>16, <1>17, Zenon DEF DeploymentInv

-----------------------------------------------------------------------------
(* The whole deployment                                                    *)

\* Nothing is there before the first tool.
LEMMA DeploymentInitInv ==
  ASSUME DeploymentInit
  PROVE  DeploymentInv
<1>1. /\ code = {} /\ pool = <<>> /\ receipt = "none" /\ tool = Idle /\ file = Torn("none")
      /\ moduleAddress = [id \in ModuleIds |-> None] /\ bootstrapCoordinator = None
  BY Zenon DEF DeploymentInit, Init
<1>2. \A k \in 1..Len(pool) : FALSE
  BY <1>1
<1>3. \A id \in ModuleIds : moduleAddress[id] = None
  BY <1>1, Zenon
<1>4. \A d, i : ~Trace(d, i)
  BY <1>1, <1>2, <1>3, Zenon DEF Trace
<1>5. Idle \in Tools /\ ToolSound(Idle) /\ Idle.name = "none" /\ Idle.phase = "none"
  <2>1. Idle.name = "none" /\ Idle.phase = "none"
    BY DEF Idle
  <2> QED
    BY <2>1, IdleMoves, Zenon DEF Moves
<1>6. file \in Files /\ file.torn = TRUE
  <2>1. <<>> \in Seq(Entries) /\ "none" \in Statuses /\ TRUE \in BOOLEAN /\ "none" \in Names \cup {"none"}
    BY DEF Statuses
  <2> QED
    BY <2>1, <1>1 DEF Torn, Files
<1>7. DeploymentTyped
  <2>1. pool \in Seq(Txs)
    BY <1>1
  <2>2. moduleAddress \in [ModuleIds -> Contracts \cup {None}]
    BY <1>1, Zenon
  <2>3. code \subseteq Addrs \ {None}
    BY <1>1, Zenon
  <2> QED
    BY <1>1, <1>5, <1>6, <2>1, <2>2, <2>3, Zenon DEF DeploymentTyped
<1>8. ChainSound
  BY <1>2, <1>3, <1>4, Zenon DEF ChainSound
<1>9. ToolSound(tool) /\ WaitSound
  BY <1>1, <1>5, Zenon DEF WaitSound
<1>10. FileComplete /\ FileTrue
  BY <1>1, <1>5, <1>6, Zenon DEF FileComplete, FileTrue
<1> QED
  BY <1>7, <1>8, <1>9, <1>10, Zenon DEF DeploymentInv

\* Nothing happens.
LEMMA DeploymentStutters ==
  ASSUME DeploymentInv, UNCHANGED allVars
  PROVE  DeploymentInv'
<1>0. UNCHANGED <<vars, code, pool>> /\ receipt' = receipt /\ tool' = tool /\ file' = file
  BY Zenon DEF allVars, toolVars
<1>1. PICK u : u = tool
  BY Zenon
<1>2. u \in Tools /\ ToolSound(u) /\ receipt \in {"none", "mined", "reverted"} /\ u = tool'
  BY <1>0, <1>1, RunningTool, Zenon
<1>3. file' \in Files
  BY <1>0, Zenon DEF DeploymentInv, DeploymentTyped
<1>4. Grows /\ (\A d, i : Trace(d, i)' <=> Trace(d, i)) /\ DeploymentTyped' /\ ChainSound'
  BY <1>0, <1>2, <1>3, ChainSame, Zenon
<1>5. ToolSound(u)'
  BY <1>2, <1>4, ToolGrows, Zenon
<1>6. ToolSound(tool)'
  BY <1>2, <1>5, ToolPrimed, Zenon
<1>7. WaitSound'
  <2>1. /\ Step' = Step /\ pool' = pool /\ tool' = tool /\ receipt' = receipt /\ code' = code
        /\ moduleAddress' = moduleAddress /\ bootstrapCoordinator' = bootstrapCoordinator
    BY <1>0, Zenon DEF Step, vars, directoryVars
  <2> QED
    BY <2>1, Zenon DEF DeploymentInv, WaitSound, Done, Tx
<1>8. FileTrue'
  BY <1>0, <1>4, FileGrows, Zenon DEF DeploymentInv
<1>9. FileComplete'
  BY <1>0, <1>4, Zenon DEF DeploymentInv, FileComplete
<1> QED
  BY <1>4, <1>6, <1>7, <1>8, <1>9, Zenon DEF DeploymentInv

\* Every step of a tool, of the operator or of the chain.
LEMMA DeploymentStep ==
  ASSUME DeploymentInv, [DeploymentNext]_allVars
  PROVE  DeploymentInv'
<1>1. CASE Truncate \/ Write \/ Start
  BY <1>1, TruncateKeeps, WriteKeeps, StartKeeps, Zenon
<1>2. CASE LookDone \/ LookSends \/ Send \/ Receipt \/ Confirm
  BY <1>2, LookDoneKeeps, LookSendsKeeps, SendKeeps, ReceiptKeeps, ConfirmKeeps, Zenon
<1>3. CASE GiveUp \/ SendRefused \/ VerifyFails \/ Killed
  BY <1>3, FailureKeeps, Zenon
<1>4. CASE Verify \/ Check
  BY <1>4, VerifyKeeps, CheckKeeps, Zenon
<1>5. CASE SendLost \/ Unconfirmed
  BY <1>5, SendLostKeeps, UnconfirmedKeeps, Zenon
<1>6. CASE Mine
  BY <1>6, MineKeeps, Zenon
<1>7. CASE UNCHANGED allVars
  BY <1>7, DeploymentStutters, Zenon
<1> QED
  BY <1>1, <1>2, <1>3, <1>4, <1>5, <1>6, <1>7, Zenon DEF DeploymentNext, Works, Fails

-----------------------------------------------------------------------------
(* What a bootstrap reported verified left                                 *)

\* The import of a module begins with the commitment computed from the archive.
Committing ==
  \A id \in ModuleIds :
    moduleProgress[id].started => moduleProgress[id].expectedRoot = Snapshot[id].root

\* The calldata manifest carries the plan, where evm-activate-suite has roots of its own.
PlannedInd == BootstrapTool = "runner" => BootInd /\ Committing

\* A transaction of a tool is a call of the contracts, by the operator or the authority.
LEMMA EffectNext ==
  ASSUME BootInd, BootstrapTool = "runner", NEW x, Effect(x)
  PROVE  [Next]_vars
<1>0. Operator \in Callers /\ Authority \in Callers /\ BoundCoordinator \in Coordinators
  BY DeploymentAssumption, Zenon
<1>1. PICK id : id = x.id
  BY Zenon
<1>2. IsCurrent(id) => id \in ModuleIds
  <2> SUFFICES ASSUME IsCurrent(id) PROVE id \in ModuleIds
    BY Zenon
  <2>1. PICK i : i = nextModuleIndex + 1
    BY Zenon
  <2>2. i \in 1..Size /\ id = ModuleOrder[i]
    <3>1. nextModuleIndex \in 0..Size /\ nextModuleIndex < Size /\ id = ModuleOrder[i]
      BY <2>1, Zenon DEF IsCurrent, BootInd, TypeOK
    <3> QED
      BY <2>1, <3>1, OrderFacts
  <2> QED
    BY <2>2, OrderFacts, Zenon
<1>3. CASE x.do = "create" /\ code' = code \cup {x.addr} /\ UNCHANGED vars
  BY <1>3, Zenon
<1>4. CASE SetBootstrapCoordinator(Authority, id)
  <2>1. id \in Coordinators
    BY <1>0, <1>4, Zenon DEF SetBootstrapCoordinator
  <2> QED
    BY <1>0, <1>4, <2>1, Zenon DEF Next
<1>5. CASE RegisterModule(Operator, id, x.addr)
  <2>1. x.addr \in BoundContracts /\ BoundId[x.addr] = id
    BY <1>5, Zenon DEF RegisterModule, ConfigureModule
  <2>2. x.addr \in Contracts /\ id \in ModuleIds
    BY <2>1, BoundIds, Zenon
  <2> QED
    BY <1>0, <1>5, <2>2, Zenon DEF Next
<1>6. CASE BeginNextModule(Operator, id, PlanFor(id))
  <2>1. id \in ModuleIds
    BY <1>2, <1>6, Zenon DEF BeginNextModule
  <2>2. PlanFor(id) \in Plans
    BY <2>1, BootstrapAssumption, Zenon DEF PlanFor
  <2> QED
    BY <1>0, <1>6, <2>1, <2>2, Zenon DEF Next
<1>7. CASE AttestUsernameEscrowReleased(Operator)
  BY <1>0, <1>7, Zenon DEF Next
<1>8. CASE FinalizeCurrentModule(Operator, id)
  <2>1. id \in ModuleIds
    BY <1>2, <1>8, Zenon DEF FinalizeCurrentModule
  <2> QED
    BY <1>0, <1>8, <2>1, Zenon DEF Next
<1>9. CASE ActivateSuite(Operator)
  BY <1>0, <1>9, Zenon DEF Next
<1> QED
  BY <1>1, <1>3, <1>4, <1>5, <1>6, <1>7, <1>8, <1>9, Zenon DEF Effect

\* Only a begun import changes what a module commits to.
LEMMA EffectCommitting ==
  ASSUME BootInd, Committing, BootstrapTool = "runner", NEW x, Effect(x)
  PROVE  Committing'
<1>1. PICK id : id = x.id
  BY Zenon
<1>2. moduleProgress \in [ModuleIds -> Progress]
  BY Zenon DEF BootInd, TypeOK
<1>3. CASE moduleProgress' = moduleProgress
  BY <1>3, Zenon DEF Committing
<1>4. CASE BeginNextModule(Operator, id, PlanFor(id))
  <2>1. PICK p : p = Begun(id, Snapshot[id])
    BY Zenon
  <2>2. p.expectedRoot = Snapshot[id].root
    BY <2>1 DEF Begun
  <2>3. moduleProgress' = [moduleProgress EXCEPT ![id] = p]
    BY <1>4, <2>1, Zenon DEF BeginNextModule, PlanFor
  <2>4. \A m \in ModuleIds : moduleProgress'[m] = IF m = id THEN p ELSE moduleProgress[m]
    BY <1>2, <2>3, Zenon
  <2> QED
    BY <2>2, <2>4, Zenon DEF Committing
<1>5. CASE FinalizeCurrentModule(Operator, id)
  <2>1. PICK p : p = moduleProgress[id]
    BY Zenon
  <2>2. moduleProgress' = [moduleProgress EXCEPT ![id] = Sealed(p)] /\ p.started
    BY <1>5, <2>1, Zenon DEF FinalizeCurrentModule, ImportComplete
  <2>3. \A m \in ModuleIds : moduleProgress'[m] = IF m = id THEN Sealed(p) ELSE moduleProgress[m]
    BY <1>2, <2>2, Zenon
  <2>4. id \in ModuleIds => Sealed(p).expectedRoot = p.expectedRoot
    BY <1>2, <2>1, Zenon DEF Sealed, Progress
  <2> QED
    BY <2>1, <2>2, <2>3, <2>4, ZenonT(30) DEF Committing
<1> QED
  <2>1. UNCHANGED vars => moduleProgress' = moduleProgress
    BY Zenon DEF vars, coordinatorVars
  <2>2. SetBootstrapCoordinator(Authority, id) => moduleProgress' = moduleProgress
    BY Zenon DEF SetBootstrapCoordinator, coordinatorVars
  <2>3. RegisterModule(Operator, id, x.addr) => moduleProgress' = moduleProgress
    BY Zenon DEF RegisterModule, coordinatorVars
  <2>4. AttestUsernameEscrowReleased(Operator) \/ ActivateSuite(Operator) => moduleProgress' = moduleProgress
    BY Zenon DEF AttestUsernameEscrowReleased, ActivateSuite
  <2> QED
    BY <1>1, <1>3, <1>4, <1>5, <2>1, <2>2, <2>3, <2>4, Zenon DEF Effect

\* A step of the deployment is one transaction, or leaves the contracts alone.
LEMMA DeploymentSteps ==
  ASSUME [DeploymentNext]_allVars
  PROVE  UNCHANGED vars \/ \E x : Effect(x)
<1>1. CASE Mine
  BY <1>1, Zenon DEF Mine
<1>2. CASE UNCHANGED allVars
  BY <1>2, Zenon DEF allVars
<1>3. CASE Works
  BY <1>3, Zenon DEF Works, Truncate, Write, LookDone, LookSends, Send, Receipt, Confirm, GiveUp, Verify, Check, Start
<1>4. CASE Fails
  BY <1>4, Zenon DEF Fails, SendRefused, SendLost, Unconfirmed, VerifyFails, Killed
<1> QED
  BY <1>1, <1>2, <1>3, <1>4, Zenon DEF DeploymentNext

\* The contracts and their commitments stay as the plan has them.
LEMMA PlannedStep ==
  ASSUME PlannedInd, [DeploymentNext]_allVars
  PROVE  PlannedInd' /\ (BootstrapTool = "runner" => [Next]_vars)
<1> SUFFICES ASSUME BootstrapTool = "runner"
             PROVE  BootInd' /\ Committing' /\ [Next]_vars
  BY Zenon DEF PlannedInd
<1>0. BootInd /\ Committing
  BY Zenon DEF PlannedInd
<1>1. CASE UNCHANGED vars
  <2>1. Committing'
    BY <1>0, <1>1, Zenon DEF Committing, vars, coordinatorVars
  <2>2. [Next]_vars
    BY <1>1, Zenon
  <2>3. BootInd'
    BY <1>0, <2>2, StepInd, Zenon
  <2> QED
    BY <2>1, <2>2, <2>3, Zenon
<1>2. ASSUME NEW x, Effect(x) PROVE BootInd' /\ Committing' /\ [Next]_vars
  <2>1. [Next]_vars /\ Committing'
    BY <1>0, <1>2, EffectNext, EffectCommitting, Zenon
  <2>2. BootInd'
    BY <1>0, <2>1, StepInd, Zenon
  <2> QED
    BY <2>1, <2>2, Zenon
<1> QED
  BY <1>1, <1>2, DeploymentSteps, Zenon

\* Nothing is committed to at first.
LEMMA PlannedInit ==
  ASSUME DeploymentInit
  PROVE  PlannedInd
<1>1. Init
  BY Zenon DEF DeploymentInit
<1>2. BootInd
  BY <1>1, InitInd, Zenon
<1>3. \A id \in ModuleIds : moduleProgress[id] = NoProgress
  BY <1>1, Zenon DEF Init
<1>4. NoProgress.started = FALSE
  BY Zenon DEF NoProgress
<1>5. Committing
  BY <1>3, <1>4, Zenon DEF Committing
<1> QED
  BY <1>2, <1>5, Zenon DEF PlannedInd

-----------------------------------------------------------------------------
(* The evidence                                                            *)

\* The inductive invariant of the tools, and of the contracts under a plan.
THEOREM DeploymentInvariant == DeploymentSpec => [](DeploymentInv /\ PlannedInd)
<1>1. DeploymentInit => DeploymentInv /\ PlannedInd
  BY DeploymentInitInv, PlannedInit, Zenon
<1>2. DeploymentInv /\ PlannedInd /\ [DeploymentNext]_allVars => DeploymentInv' /\ PlannedInd'
  BY DeploymentStep, PlannedStep, Zenon
<1> QED
  BY <1>1, <1>2, PTL DEF DeploymentSpec

\* However igit-deploy-suite is stopped, and whatever became of what it sent, its
\* evidence names every transaction that may be mined and all that is on the chain.
THEOREM DeploymentEvidenceComplete == DeploymentSpec => []EvidenceComplete
<1>1. DeploymentInv => EvidenceComplete
  <2> SUFFICES ASSUME DeploymentInv, file.by = "deploy", ~file.torn
               PROVE  EvidenceComplete
    BY Zenon DEF EvidenceComplete
  <2>1. \A d, i : Trace(d, i) => InEntries(file.entries, d, i)
    BY Zenon DEF DeploymentInv, FileComplete
  <2>2. \A d, i : Trace(d, i) => Recorded(d, i)
    BY <2>1, Zenon DEF InEntries, Recorded
  <2>3. \A k \in 1..Len(pool) : Recorded(pool[k].do, pool[k].id)
    BY <2>2, PendingTraces, Zenon
  <2>4. \A c \in code : Recorded("create", CreatedFor(c))
    BY <2>2, Traces, Zenon
  <2>5. /\ bootstrapCoordinator # None => Recorded("bind", BoundCoordinator)
        /\ \A id \in ModuleIds : moduleAddress[id] # None => Recorded("register", id)
    BY <2>2, Traces, Zenon
  <2> QED
    BY <2>3, <2>4, <2>5, Zenon DEF EvidenceComplete, CreatedFor
<1> QED
  BY <1>1, DeploymentInvariant, PTL

\* A recorded address has code, a deployment reported complete binds what it names,
\* and behind a bootstrap reported verified every module holds what the plan commits to.
THEOREM DeploymentEvidenceTrue == DeploymentSpec => []EvidenceTrue
<1>1. DeploymentInv /\ PlannedInd => EvidenceTrue
  <2> SUFFICES ASSUME DeploymentInv, PlannedInd, ~file.torn
               PROVE  EvidenceTrue
    BY Zenon DEF EvidenceTrue
  <2>1. EntriesSound(file.entries) /\ StatusSound(file.status, file.entries)
    BY Zenon DEF DeploymentInv, FileTrue
  <2>2. ASSUME file.status = "broadcasted_and_verified", NEW id \in ModuleIds
        PROVE  modules[moduleAddress[id]].rollingRoot = Snapshot[id].root
    <3>1. state = "Active" /\ BootInd /\ Committing
      BY <2>1, <2>2, Zenon DEF StatusSound, PlannedInd
    <3>2. PICK c : c = moduleAddress[id]
      BY Zenon
    <3>3. c \in BoundContracts /\ modules[c].finalized /\ modules[c].rollingRoot = modules[c].expectedRoot
      BY <3>1, <3>2, ActiveComplete, Zenon DEF ActivationComplete
    <3>4. modules[c] = moduleProgress[id]
      BY <3>1, <3>2, <3>3, ProgressTypes, BoundIds, Distinct, Zenon
    <3>5. moduleProgress[id].started
      BY <3>1, <3>3, <3>4, Zenon DEF BootInd, Bindings
    <3> QED
      BY <3>1, <3>2, <3>3, <3>4, <3>5, Zenon DEF Committing
  <2>3. file.status = "broadcasted_and_verified" => state = "Active"
    BY <2>1, Zenon DEF StatusSound
  <2>4. file.status \in {"bootstrapping", "deployed_bootstrapping"} =>
          Bound /\ \A id \in ModuleIds : Named(file.entries, id) = {moduleAddress[id]}
    BY <2>1, Zenon DEF StatusSound, AllNamed
  <2>5. \A k \in 1..Len(file.entries) :
          file.entries[k].do = "create" => file.entries[k].addr \in code \cup {None}
    BY <2>1, Zenon DEF EntriesSound
  <2> QED
    BY <2>2, <2>3, <2>4, <2>5, Zenon DEF EvidenceTrue
<1> QED
  BY <1>1, DeploymentInvariant, PTL

\* Under a plan, what the tools do to the contracts, faults and all, is a run of
\* the contracts: what is proved of the bootstrap holds of every deployment.
THEOREM DeploymentRefinesBootstrap ==
  ASSUME BootstrapTool = "runner"
  PROVE  DeploymentSpec => Spec
<1>1. DeploymentInit => Init
  BY Zenon DEF DeploymentInit
<1>2. PlannedInd /\ [DeploymentNext]_allVars => [Next]_vars
  BY PlannedStep, Zenon
<1> QED
  BY <1>1, <1>2, DeploymentInvariant, PTL DEF DeploymentSpec, Spec
=============================================================================

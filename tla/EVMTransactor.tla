---------------------------- MODULE EVMTransactor ----------------------------
(***************************************************************************)
(* The write pipeline of the Go client: EVMTransactor.transact, the nonce  *)
(* manager it shares with the other operations of its process, and the     *)
(* retries of EVMRPC below both.  Two processes may use one account.  The  *)
(* node keeps one transaction per nonce and mines nonces in order.         *)
(***************************************************************************)
EXTENDS Integers, FiniteSets

CONSTANTS
  Ops,           \* operations: one call of Send or Deploy each
  Processes,     \* processes with a nonce manager of their own
  ProcessOf,     \* the process of each operation
  NoOp,          \* no transaction
  MaxRPCAttempts,    \* maxRPCAttempts
  MaxReceiptErrors,  \* maxReceiptRPCErrors
  MaxNonce,      \* bound on the nonces of the account
  MaxRPCFailures, \* bound on failed requests outside broadcast and receipt
  MaxUint,       \* math.MaxUint64
  Headroom       \* the headroom that transact adds to an estimate

ASSUME GasAssumption == MaxUint \in Nat /\ Headroom \in 0..MaxUint

ASSUME OpsAssumption ==
  /\ ProcessOf \in [Ops -> Processes]
  /\ NoOp \notin Ops
  /\ MaxRPCAttempts \in Nat \ {0} /\ MaxReceiptErrors \in Nat \ {0}
  /\ MaxNonce \in Nat /\ MaxRPCFailures \in Nat

VARIABLES
  manager,   \* evmNonceManager of each process: valid, next, generation
  op,        \* each operation: where it is, its reservation and its counters
  pool,      \* the transaction the node holds at each nonce
  mined,     \* number of nonces mined
  status,    \* what mining made of each operation's transaction
  failures   \* requests failed so far, up to MaxRPCFailures

vars == <<manager, op, pool, mined, status, failures>>

Nonces == 0..MaxNonce

Init ==
  /\ manager = [p \in Processes |-> [valid |-> FALSE, next |-> 0, generation |-> 0]]
  /\ op = [o \in Ops |-> [step |-> "start", nonce |-> 0, generation |-> 0,
                          attempts |-> 0, errors |-> 0, outcome |-> "none"]]
  /\ pool = [n \in Nonces |-> NoOp]
  /\ mined = 0
  /\ status = [o \in Ops |-> "none"]
  /\ failures = 0

-----------------------------------------------------------------------------
(* The gas limit and the gas price                                         *)

Overflow == -1

AdjustEVMGasLimit_LastCheckMissing(estimated, headroom) ==
  LET scaled == (estimated \div 10) * 14 + ((estimated % 10) * 14) \div 10 IN
  IF scaled > MaxUint THEN Overflow ELSE (scaled + headroom) % (MaxUint + 1)

\* floor(estimated * 1.4) + headroom in uint64 steps that cannot wrap.
AdjustEVMGasLimit(estimated, headroom) ==
  LET quotient == estimated \div 10
      extra == ((estimated % 10) * 14) \div 10
      scaled == quotient * 14
  IN
  IF \/ quotient > MaxUint \div 14
     \/ scaled > MaxUint - extra
     \/ scaled + extra > MaxUint - headroom
  THEN Overflow
  ELSE scaled + extra + headroom

-----------------------------------------------------------------------------
(* The node                                                                *)

\* eth_getTransactionCount at "pending": mined nonces and those queued behind
\* them without a gap.
Pending == CHOOSE n \in mined..(MaxNonce + 1) :
  /\ \A k \in mined..(n - 1) : pool[k] # NoOp
  /\ n <= MaxNonce => pool[n] = NoOp

\* What eth_sendRawTransaction does with a transaction it can take.
Accepts(o) == op[o].nonce >= mined /\ pool[op[o].nonce] = NoOp

Mine ==
  /\ mined <= MaxNonce /\ pool[mined] # NoOp
  /\ mined' = mined + 1
  /\ \E s \in {"0x0", "0x1"} : status' = [status EXCEPT ![pool[mined]] = s]
  /\ UNCHANGED <<manager, op, pool, failures>>

-----------------------------------------------------------------------------
(* One operation                                                           *)

\* What Invalidate leaves of the manager: nothing of the reservation's own
\* generation, everything of a later one.
Invalidated(o) ==
  LET m == manager[ProcessOf[o]] IN
  IF m.valid /\ m.generation = op[o].generation
  THEN [m EXCEPT !.valid = FALSE, !.generation = @ + 1]
  ELSE m

Invalidate(o) == manager' = [manager EXCEPT ![ProcessOf[o]] = Invalidated(o)]

Return(o, outcome) == op' = [op EXCEPT ![o].step = "done", ![o].outcome = outcome]

\* A request that fails in all its attempts.
RequestFails == failures < MaxRPCFailures /\ failures' = failures + 1

\* The signer, the chain ID and then, under the manager's lock, the nonce: from
\* the cache, or from the node when there is none.
FreshManager(m) == [valid |-> TRUE, next |-> Pending, generation |-> m.generation + 1]

Reserve_KeepsNext(o) ==
  LET m == manager[ProcessOf[o]]
      current == IF m.valid THEN m ELSE FreshManager(m)
  IN
  /\ op[o].step = "start"
  /\ current.next <= MaxNonce
  /\ manager' = [manager EXCEPT ![ProcessOf[o]] = current]
  /\ op' = [op EXCEPT ![o].step = "prepare", ![o].nonce = current.next,
                      ![o].generation = current.generation]
  /\ UNCHANGED <<pool, mined, status, failures>>

Reserve(o) ==
  LET m == manager[ProcessOf[o]]
      current == IF m.valid THEN m ELSE FreshManager(m)
  IN
  /\ op[o].step = "start"
  /\ current.next <= MaxNonce
  /\ manager' = [manager EXCEPT ![ProcessOf[o]] = [current EXCEPT !.next = @ + 1]]
  /\ op' = [op EXCEPT ![o].step = "prepare", ![o].nonce = current.next,
                      ![o].generation = current.generation]
  /\ UNCHANGED <<pool, mined, status, failures>>

ReserveFails(o) ==
  /\ op[o].step = "start"
  /\ RequestFails
  /\ Return(o, "failed")
  /\ UNCHANGED <<manager, pool, mined, status>>

\* What AdjustEVMGasLimit makes of the estimates a node may answer with.
GasLimits == {AdjustEVMGasLimit(estimated, Headroom) : estimated \in 0..MaxUint}

\* The gas estimate, the gas price and the signature.
Prepare(o) ==
  /\ op[o].step = "prepare"
  /\ GasLimits # {Overflow}
  /\ op' = [op EXCEPT ![o].step = "broadcast"]
  /\ UNCHANGED <<manager, pool, mined, status, failures>>

PrepareFails(o) ==
  /\ op[o].step = "prepare"
  /\ RequestFails \/ (Overflow \in GasLimits /\ UNCHANGED failures)
  /\ Invalidate(o)
  /\ Return(o, "failed")
  /\ UNCHANGED <<pool, mined, status>>

\* Another attempt after a transport error, or the error itself after the last.
Retry(o) ==
  IF op[o].attempts < MaxRPCAttempts - 1
  THEN op' = [op EXCEPT ![o].attempts = @ + 1] /\ UNCHANGED manager
  ELSE Return(o, "failed") /\ Invalidate(o)

TakenBy(o) == IF Accepts(o) THEN [pool EXCEPT ![op[o].nonce] = o] ELSE pool

\* The request reaches the node and its answer the client: the hash, or an
\* error for a nonce in use, a nonce behind the account's or a known hash.
Broadcast(o) ==
  /\ op[o].step = "broadcast"
  /\ pool' = TakenBy(o)
  /\ IF Accepts(o)
     THEN op' = [op EXCEPT ![o].step = "wait"] /\ UNCHANGED manager
     ELSE Return(o, "failed") /\ Invalidate(o)
  /\ UNCHANGED <<mined, status, failures>>

\* The request is lost, or the answer to a request that took effect.
BroadcastLost(o) ==
  /\ op[o].step = "broadcast"
  /\ pool' \in {pool, TakenBy(o)}
  /\ Retry(o)
  /\ UNCHANGED <<mined, status, failures>>

Receipt_AnyStatus(o) ==
  /\ op[o].step = "wait"
  /\ status[o] # "none"
  /\ Return(o, "confirmed")
  /\ UNCHANGED <<manager, pool, mined, status, failures>>

\* WaitReceipt: the receipt of the operation's own hash.
Receipt(o) ==
  /\ op[o].step = "wait"
  /\ status[o] # "none"
  /\ IF status[o] = "0x1"
     THEN Return(o, "confirmed") /\ UNCHANGED manager
     ELSE Return(o, "reverted") /\ Invalidate(o)
  /\ UNCHANGED <<pool, mined, status, failures>>

\* A poll that fails: the third in a row ends the wait, and a poll that is
\* answered without a receipt starts the count again.
PollFails(o) ==
  /\ op[o].step = "wait"
  /\ IF op[o].errors < MaxReceiptErrors - 1
     THEN op' = [op EXCEPT ![o].errors = @ + 1] /\ UNCHANGED manager
     ELSE Return(o, "unconfirmed") /\ Invalidate(o)
  /\ UNCHANGED <<pool, mined, status, failures>>

PollPending(o) ==
  /\ op[o].step = "wait" /\ op[o].errors > 0
  /\ op' = [op EXCEPT ![o].errors = 0]
  /\ UNCHANGED <<manager, pool, mined, status, failures>>

Timeout_KeepsCache(o) ==
  /\ op[o].step = "wait"
  /\ Return(o, "unconfirmed")
  /\ UNCHANGED <<manager, pool, mined, status, failures>>

Timeout_BetweenErrors(o) ==
  /\ op[o].step = "wait" /\ op[o].errors = 0
  /\ Return(o, "unconfirmed")
  /\ Invalidate(o)
  /\ UNCHANGED <<pool, mined, status, failures>>

\* The receipt timeout, or an error that no further poll would cure; the
\* transaction may be mined or not.
Timeout(o) ==
  /\ op[o].step = "wait"
  /\ Return(o, "unconfirmed")
  /\ Invalidate(o)
  /\ UNCHANGED <<pool, mined, status, failures>>

Transact(o) ==
  \/ Reserve(o) \/ ReserveFails(o)
  \/ Prepare(o) \/ PrepareFails(o)
  \/ Broadcast(o) \/ BroadcastLost(o)
  \/ Receipt(o) \/ PollFails(o) \/ PollPending(o) \/ Timeout(o)

Next == Mine \/ \E o \in Ops : Transact(o)

Spec == Init /\ [][Next]_vars

\* The process goes on, and the timer of WaitReceipt runs out.
FairSpec == Spec /\ \A o \in Ops : WF_vars(Transact(o)) /\ WF_vars(Timeout(o))

-----------------------------------------------------------------------------
(* Properties                                                              *)

\* Whatever the node estimates for an operation, its gas limit is
\* floor(estimated * 1.4) + headroom when that fits the word and an error when it
\* does not: AdjustEVMGasLimit never wraps and never refuses what it could serve.
GasLimitExact ==
  (\E o \in Ops : op[o].step = "prepare") =>
    \A estimated \in 0..MaxUint :
      LET exact == (estimated * 14) \div 10 + Headroom IN
      AdjustEVMGasLimit(estimated, Headroom) = IF exact <= MaxUint THEN exact ELSE Overflow

Reserved(o) == op[o].generation > 0

\* Operations that share a process and a generation of its cache hold different
\* nonces, whatever the order in which they reserve, fail and invalidate.
ReservationsDistinct ==
  \A o, q \in Ops :
    /\ o # q /\ ProcessOf[o] = ProcessOf[q]
    /\ Reserved(o) /\ op[o].generation = op[q].generation
    => op[o].nonce # op[q].nonce

\* After an operation that failed, reverted or stayed unconfirmed no later one
\* is served from the cache its nonce came from: it asks the node again, so a
\* nonce that never entered the pool is used again.
FailedCacheDiscarded ==
  \A o \in Ops :
    Reserved(o) /\ op[o].step = "done" /\ op[o].outcome # "confirmed" =>
      LET m == manager[ProcessOf[o]] IN ~(m.valid /\ m.generation = op[o].generation)

\* What an operation reports is what the chain holds: confirmed and reverted
\* are its own transaction's receipts, unconfirmed is a transaction the node
\* took, even when two operations of two processes were given one nonce.  A failure
\* is no report about the chain: when every answer to a broadcast is lost the
\* operation fails although the node may hold its transaction.
OutcomesTrue ==
  \A o \in Ops :
    /\ op[o].outcome = "confirmed" => status[o] = "0x1"
    /\ op[o].outcome = "reverted" => status[o] = "0x0"
    /\ op[o].outcome \in {"confirmed", "reverted", "unconfirmed"} => pool[op[o].nonce] = o
    /\ status[o] # "none" => pool[op[o].nonce] = o /\ op[o].nonce < mined

\* Every operation returns: the attempts of a request are bounded, and so is
\* the wait for a receipt that never comes.
OperationsReturn == \A o \in Ops : <>(op[o].step = "done")
=============================================================================

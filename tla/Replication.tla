----------------------------- MODULE Replication -----------------------------
(***************************************************************************)
(* How a push makes its pack durable before it updates a ref: the helper's *)
(* calls (cli/internal/remote, cli/internal/replication), the replication  *)
(* daemon (cli/cmd/igit-replicationd) with its Kubo node and state file,   *)
(* and the reaper (scripts/ops/replication-reaper.sh).                     *)
(*                                                                         *)
(* A push is one run of pushOne that uploads a pack.  It holds one ticket, *)
(* named after it here, because every authorization has a fresh JTI.       *)
(* Requests may be lost, answered too late or served after the client gave *)
(* up; the daemon may stop at any point and start again.                   *)
(*                                                                         *)
(* The reaper does not look at the refs that a push writes: it asks the    *)
(* archived CosmWasm contract, which nothing here changes.  Its timer is   *)
(* an operator's choice; docs/operations/infrastructure.md keeps it off.   *)
(***************************************************************************)
EXTENDS Integers

CONSTANTS Pushes, Cids,
          Cid,                \* the content each push uploads
          MaxConfirmAttempts, \* requests the client makes for one ticket
          Ttl,                \* life time of a ticket
          MaxTime,            \* bound: the clock
          V1Refs,             \* what the archived contract's refs name, for the
                              \* owner and repository of each push
          None

ASSUME ReplicationAssumption ==
    /\ Cid \in [Pushes -> Cids]
    /\ MaxConfirmAttempts \in Nat \ {0} /\ Ttl \in Nat \ {0} /\ MaxTime \in Nat
    /\ V1Refs \in [Pushes -> SUBSET Cids]
    /\ None \notin Pushes \cup Nat

VARIABLES pc,         \* where each push is
          attempt,    \* requests it has made to confirm its ticket
          expires,    \* the expiry claim of its ticket
          requests,   \* requests on their way to the daemon
          queued,     \* authorized requests waiting for the daemon's mutex
          job,        \* the request that holds the mutex, and its phase
          issued,     \* tickets in the daemon's map, as in its state file
          pins,       \* content pinned by the US Kubo node
          local,      \* temporary blocks in the pushing machine's Kubo node
          minedAt,    \* when a push's update_ref was mined
          timer,      \* whether the reaper's timer is on
          reaper,     \* the reaper's phase, its NOW and the content it listed
          reaped,     \* the reaper's own list of reclaimed content
          now

client == <<pc, attempt, expires, minedAt, local>>
server == <<requests, queued, job, issued>>
ops == <<timer, reaper, reaped>>
replicationVars ==
    <<pc, attempt, expires, requests, queued, job, issued, pins,
      local, minedAt, timer, reaper, reaped, now>>

Attempts == 1..MaxConfirmAttempts
Requests == [push : Pushes, attempt : Attempts]
NoJob == [push |-> None, attempt |-> 0, phase |-> "free"]
IdleReaper == [phase |-> "idle", now |-> 0, seen |-> {}]

ReplicationInit ==
    /\ pc = [p \in Pushes |-> "start"]
    /\ attempt = [p \in Pushes |-> 0]
    /\ expires = [p \in Pushes |-> 0]
    /\ requests = {} /\ queued = {} /\ job = NoJob /\ issued = {}
    /\ pins = {} /\ local = {}
    /\ minedAt = [p \in Pushes |-> None]
    /\ timer \in BOOLEAN /\ reaper = IdleReaper /\ reaped = {}
    /\ now = 0

-----------------------------------------------------------------------------
(* The helper.                                                             *)

\* issueAuthorization: the expiry of a ticket signed now, or a refusal (identity,
\* binding, rate window).
IssueAuthorization == {now + Ttl, None}

\* AddTemporary and SwarmConnect, then Authorize.
Upload(p) ==
    /\ pc[p] = "start"
    /\ local' = local \cup {Cid[p]}
    /\ \E t \in IssueAuthorization :
          IF t = None THEN pc' = [pc EXCEPT ![p] = "failed"] /\ expires' = expires
          ELSE pc' = [pc EXCEPT ![p] = "ask"] /\ expires' = [expires EXCEPT ![p] = t]
    /\ UNCHANGED <<attempt, minedAt, server, pins, ops, now>>

\* Confirm: one attempt of its loop.
Ask(p) ==
    /\ pc[p] = "ask"
    /\ attempt' = [attempt EXCEPT ![p] = @ + 1]
    /\ requests' = requests \cup {[push |-> p, attempt |-> attempt[p] + 1]}
    /\ pc' = [pc EXCEPT ![p] = "wait"]
    /\ UNCHANGED <<expires, minedAt, local, queued, job, issued, pins, ops, now>>

AskAgain(p) == IF attempt[p] < MaxConfirmAttempts THEN "ask" ELSE "failed"

\* The connection breaks or the client's timeout passes; the daemon goes on.
GiveUpWaiting(p) ==
    /\ pc[p] = "wait"
    /\ pc' = [pc EXCEPT ![p] = AskAgain(p)]
    /\ UNCHANGED <<attempt, expires, minedAt, local, server, pins, ops, now>>

\* The answer to request r reaches a client that still waits for it, and is
\* lost otherwise.  5xx, 408 and 429 are asked again, other errors are final.
Answer(r, status) ==
    pc' = IF pc[r.push] = "wait" /\ attempt[r.push] = r.attempt
          THEN [pc EXCEPT ![r.push] =
                   CASE status = "pinned" -> "confirmed"
                     [] status = "unavailable" -> AskAgain(r.push)
                     [] status = "denied" -> "failed"]
          ELSE pc

\* The local node after ipfs.GC: without its unpinned blocks, which is all of
\* them, or as before when the call fails.
AfterGC == {{}, local}

\* The update_ref of a confirmed push is mined, however much later, and the
\* temporary blocks are collected.  When the sender sees an error they are kept,
\* and the transaction may have been mined nevertheless.
UpdateRef(p) ==
    /\ pc[p] = "confirmed"
    /\ \/ /\ minedAt' = [minedAt EXCEPT ![p] = now]
          /\ \/ pc' = [pc EXCEPT ![p] = "done"] /\ local' \in AfterGC
             \/ pc' = [pc EXCEPT ![p] = "rejected"] /\ local' = local
       \/ pc' = [pc EXCEPT ![p] = "rejected"] /\ UNCHANGED <<minedAt, local>>
    /\ UNCHANGED <<attempt, expires, server, pins, ops, now>>

-----------------------------------------------------------------------------
(* The daemon.                                                             *)

\* authorize: an expired ticket is refused before the mutex is asked for.
Accept(r) ==
    /\ r \in requests
    /\ requests' = requests \ {r}
    /\ IF expires[r.push] <= now
       THEN Answer(r, "denied") /\ queued' = queued
       ELSE queued' = queued \cup {r} /\ pc' = pc
    /\ UNCHANGED <<attempt, expires, minedAt, local, job, issued, pins, ops, now>>

\* The mutex is free again when a request is answered.
Replied(r) == NoJob

\* The check of the map, repeated once the mutex is held.
AlreadyUsed(r) == r.push \in issued

\* replicate, with the mutex: a ticket in the map is answered at once,
\* otherwise the content is pinned.
Lock(r) ==
    /\ job.phase = "free" /\ r \in queued
    /\ queued' = queued \ {r}
    /\ \/ /\ AlreadyUsed(r)
          /\ Answer(r, "pinned") /\ job' = Replied(r) /\ pins' = pins
       \/ /\ ~AlreadyUsed(r)
          /\ Cid[r.push] \in local \cup pins
          /\ pins' = pins \cup {Cid[r.push]}
          /\ job' = [push |-> r.push, attempt |-> r.attempt, phase |-> "pinned"]
          /\ pc' = pc
       \/ /\ ~AlreadyUsed(r)
          /\ Answer(r, "unavailable") /\ job' = NoJob /\ pins' = pins
    /\ UNCHANGED <<attempt, expires, minedAt, local, requests, issued, ops, now>>

\* kuboVerify: the content is read back.  When that fails the pin is removed,
\* and an error of the removal is ignored.
Verify ==
    /\ job.phase = "pinned"
    /\ \/ job' = [job EXCEPT !.phase = "verified"] /\ UNCHANGED <<pins, pc>>
       \/ /\ Answer(job, "unavailable") /\ job' = NoJob
          /\ pins' \in {pins, pins \ {Cid[job.push]}}
    /\ UNCHANGED <<attempt, expires, minedAt, local, requests, queued, issued, ops, now>>

\* record, and the answer: the map and the state file gain the ticket together,
\* and writing the file may fail.
Record ==
    /\ job.phase = "verified"
    /\ job' = NoJob
    /\ \/ Answer(job, "pinned") /\ issued' = issued \cup {job.push}
       \/ Answer(job, "unavailable") /\ issued' = issued
    /\ UNCHANGED <<attempt, expires, minedAt, local, requests, queued, pins, ops, now>>

Reloaded_Nothing == {}

\* loadState: the map is what the state file holds.
Reloaded == issued

\* The daemon stops and starts: connections are lost, the state file is read.
Restart ==
    /\ queued \cup requests # {} \/ job # NoJob
    /\ requests' = {} /\ queued' = {} /\ job' = NoJob /\ issued' = Reloaded
    /\ UNCHANGED <<client, pins, ops, now>>

-----------------------------------------------------------------------------
(* The reaper.                                                             *)

\* NOW is read first, then the state file for its owners and repositories.
ReaperStart ==
    /\ timer /\ reaper.phase = "idle" /\ issued # {}
    /\ reaper' = [phase |-> "listing", now |-> now, seen |-> {}]
    /\ UNCHANGED <<client, server, pins, timer, reaped, now>>

\* list_refs of the archived contract, page by page, for the pairs that the
\* state file holds by then.
ReaperList ==
    /\ reaper.phase = "listing"
    /\ reaper' = [reaper EXCEPT !.phase = "reaping", !.seen = UNION {V1Refs[p] : p \in issued}]
    /\ UNCHANGED <<client, server, pins, timer, reaped, now>>

Reclaimable_LiveClock(p) ==
    expires[p] < now /\ Cid[p] \notin reaped /\ Cid[p] \notin reaper.seen

\* A row of the state file whose ticket expired before the run and whose
\* content the archived contract was not found to name.
Reclaimable(p) ==
    expires[p] < reaper.now /\ Cid[p] \notin reaped /\ Cid[p] \notin reaper.seen

\* One row of the loop; pin rm fails for content that is not pinned.
ReaperUnpin(p) ==
    /\ reaper.phase = "reaping" /\ p \in issued
    /\ Reclaimable(p)
    /\ Cid[p] \in pins
    /\ pins' = pins \ {Cid[p]}
    /\ reaped' = reaped \cup {Cid[p]}
    /\ UNCHANGED <<client, server, timer, reaper, now>>

\* The end of the loop, or a failed query, which ends the run early.
ReaperStop ==
    /\ reaper.phase # "idle"
    /\ reaper' = IdleReaper
    /\ UNCHANGED <<client, server, pins, timer, reaped, now>>

Tick ==
    /\ now < MaxTime
    /\ now' = now + 1
    /\ UNCHANGED <<client, server, pins, ops>>

Helper(p) == Upload(p) \/ Ask(p) \/ GiveUpWaiting(p) \/ UpdateRef(p)
Daemon == (\E r \in Requests : Accept(r) \/ Lock(r)) \/ Verify \/ Record
Reaper == ReaperStart \/ ReaperList \/ (\E p \in Pushes : ReaperUnpin(p)) \/ ReaperStop

ReplicationNext ==
    \/ \E p \in Pushes : Helper(p)
    \/ Daemon \/ Restart \/ Reaper \/ Tick

ReplicationSpec == ReplicationInit /\ [][ReplicationNext]_replicationVars

-----------------------------------------------------------------------------
\* The client's comment, "Confirm is safe to retry because the server binds the
\* ticket JTI": a push goes on to the registry only after its ticket was recorded,
\* and a recorded ticket is never replicated again, so a late retry, also one after
\* a restart, cannot fail and remove the pin.
TicketsRecorded ==
    /\ \A p \in Pushes : pc[p] \in {"confirmed", "done", "rejected"} => p \in issued
    /\ job.phase # "free" => job.push \notin issued

\* The pushes that asked the daemon to store the content of p, p included.
Askers(p) == {q \in Pushes : Cid[q] = Cid[p] /\ attempt[q] > 0}

\* The reaper has no ground to reclaim the row of q: its ticket is valid, or it was
\* recorded in time (as it is when the ref was) and the archived contract names it.
Retained(q) ==
    \/ now <= expires[q]
    \/ minedAt[q] # None /\ minedAt[q] <= expires[q] /\ Cid[q] \in V1Refs[q]

\* What makes it safe to write a ref after Confirm: recorded content stays pinned,
\* for ever while the reaper's timer is off, and with the timer on as long as each of
\* its tickets is valid or backed by the archived contract.  Several pushes may share
\* the content; the promise is suspended only while one that asked for it is not
\* recorded, since a failed verification removes the pin for all of them.
RecordedContentPinned ==
    \A p \in issued :
        /\ Askers(p) \subseteq issued
        /\ timer => \A q \in Askers(p) : Retained(q)
        => Cid[p] \in pins
==============================================================================

-------------------------- MODULE PublishingProofs ---------------------------
(***************************************************************************)
(* Proofs about what is published in two steps: the content of a push and  *)
(* then its ref, a migration plan and then its manifest.                   *)
(*                                                                         *)
(* Replication, for any pushes, contents, retry limit, life time of        *)
(* tickets and clock: a push reaches the registry only with its ticket     *)
(* recorded, and what was recorded stays pinned.                           *)
(*                                                                         *)
(* MigrationPlan, for any documents, batch sizes and number of builds at   *)
(* the same output paths: a published manifest is the manifest of the      *)
(* published plan.                                                         *)
(***************************************************************************)
EXTENDS Replication, MigrationPlan, TLAPS

-----------------------------------------------------------------------------
(* Replication: the inductive invariant.                                   *)

PushPositions == {"start", "ask", "wait", "confirmed", "done", "rejected", "failed"}

ReplicationTyped ==
    /\ pc \in [Pushes -> PushPositions]
    /\ attempt \in [Pushes -> Nat]
    /\ expires \in [Pushes -> Nat]
    /\ minedAt \in [Pushes -> Nat \cup {None}]
    /\ reaper \in [phase : {"idle", "listing", "reaping"}, now : Nat, seen : SUBSET Cids]
    /\ now \in Nat
    /\ issued \subseteq Pushes
    /\ job.phase # "free" => job.push \in Pushes

\* The daemon knows only tickets that it was asked about, so their expiry is fixed.
Asked ==
    /\ \A r \in Requests : r \in requests \cup queued => attempt[r.push] > 0
    /\ job.phase # "free" => attempt[job.push] > 0
    /\ \A p \in issued : attempt[p] > 0
    /\ \A p \in Pushes : attempt[p] > 0 => pc[p] # "start"

\* The reaper has no ground to reclaim any row with the content of p.
Spared(p) == timer => \A q \in Askers(p) : Retained(q)

\* What the daemon works on is pinned.
HeldPinned ==
    \A p \in Pushes : job.phase # "free" /\ job.push = p /\ Spared(p) => Cid[p] \in pins

\* A mined push is finished.  A reaper that started after it was mined has listed
\* what the archived contract names for it.
Listed(p) ==
    /\ minedAt[p] # None => pc[p] \in {"done", "rejected"}
    /\ reaper.phase = "reaping" /\ minedAt[p] # None /\ minedAt[p] < reaper.now
       => V1Refs[p] \subseteq reaper.seen

ReaperSound == reaper.now <= now /\ (reaper.phase # "idle" => timer)

ReplicationInv ==
    /\ ReplicationTyped /\ Asked /\ TicketsRecorded /\ ReaperSound
    /\ \A p \in Pushes : Listed(p)
    /\ HeldPinned /\ RecordedContentPinned

\* Nothing is stored or promised at the start.
LEMMA ReplicationInitInv == ReplicationInit => ReplicationInv
<1> SUFFICES ASSUME ReplicationInit PROVE ReplicationInv
  BY Zenon
<1> USE DEF ReplicationInit, NoJob, IdleReaper
<1>1. ReplicationTyped /\ Asked /\ ReaperSound
  BY DEF ReplicationTyped, Asked, ReaperSound, PushPositions
<1>2. TicketsRecorded /\ HeldPinned /\ RecordedContentPinned
  BY Zenon DEF TicketsRecorded, HeldPinned, RecordedContentPinned
<1>3. ASSUME NEW p \in Pushes PROVE Listed(p)
  BY Zenon DEF Listed
<1> QED
  BY <1>1, <1>2, <1>3, Zenon DEF ReplicationInv

-----------------------------------------------------------------------------
(* The grounds of the reaper only grow.                                    *)

\* No push that asked stops having asked, and none that the reaper could reclaim
\* becomes safe again.
GroundsGrow ==
    /\ timer' = timer
    /\ \A q \in Pushes : attempt[q] > 0 => attempt'[q] > 0 /\ (Retained(q)' => Retained(q))

\* What is spared after such a step was spared before it.
LEMMA SparedBefore ==
  ASSUME GroundsGrow, NEW p, Spared(p)'
  PROVE  Spared(p) /\ Askers(p) \subseteq Askers(p)'
  BY Zenon DEF GroundsGrow, Spared, Askers

\* Without a new ground, a new record or a pin removed, the promises are kept.
LEMMA PromisesKept ==
  ASSUME RecordedContentPinned, GroundsGrow, issued' = issued, pins \subseteq pins'
  PROVE  RecordedContentPinned'
<1> SUFFICES ASSUME NEW p \in issued, Askers(p)' \subseteq issued, Spared(p)'
             PROVE  Cid[p] \in pins'
  BY Zenon DEF RecordedContentPinned, Spared
<1>1. Spared(p) /\ Askers(p) \subseteq Askers(p)'
  BY SparedBefore, Zenon
<1> QED
  BY <1>1, Zenon DEF RecordedContentPinned, Spared

\* The same for the content the daemon works on.
LEMMA HeldKept ==
  ASSUME HeldPinned, GroundsGrow, pins \subseteq pins', job' = job \/ job'.phase = "free"
  PROVE  HeldPinned'
<1>1. \A p \in Pushes : Spared(p)' => Spared(p)
  BY SparedBefore, Zenon
<1> QED
  BY <1>1, Zenon DEF HeldPinned

\* Nothing that the grounds depend on has changed.
LEMMA SameGrounds ==
  ASSUME UNCHANGED <<timer, attempt, expires, minedAt, now>>
  PROVE  GroundsGrow
  BY Zenon DEF GroundsGrow, Retained

-----------------------------------------------------------------------------
(* What an answer does to the push that waits for it.                      *)

Answered(q) ==
    /\ pc[q] = "wait"
    /\ pc'[q] \in {"ask", "failed", "confirmed"}
    /\ pc'[q] = "confirmed" => q \in issued'

\* Where the pushes are after an answer: only one that waits may move, and to
\* "confirmed" only with its ticket recorded.
PcAnswered == pc' \in [Pushes -> PushPositions] /\ \A q \in Pushes : pc'[q] = pc[q] \/ Answered(q)

\* An answer moves only the push that waits for it.
LEMMA AnswerMoves ==
  ASSUME ReplicationTyped, NEW r, r.push \in Pushes, NEW status \in {"pinned", "unavailable", "denied"},
         Answer(r, status), status = "pinned" => r.push \in issued'
  PROVE  PcAnswered
<1> DEFINE a == CASE status = "pinned" -> "confirmed"
                  [] status = "unavailable" -> AskAgain(r.push)
                  [] status = "denied" -> "failed"
<1>1. a \in {"ask", "failed", "confirmed"} /\ (a = "confirmed" => status = "pinned")
  <2>1. AskAgain(r.push) \in {"ask", "failed"}
    BY Zenon DEF AskAgain
  <2>2. CASE status = "pinned"
    BY <2>2, Zenon
  <2>3. CASE status = "unavailable"
    <3>1. a = AskAgain(r.push)
      BY <2>3, Zenon
    <3> HIDE DEF a
    <3> QED
      BY <2>1, <3>1, Zenon
  <2>4. CASE status = "denied"
    BY <2>4, Zenon
  <2> QED
    BY <2>2, <2>3, <2>4, Zenon
<1>2. pc' = IF pc[r.push] = "wait" /\ attempt[r.push] = r.attempt
            THEN [pc EXCEPT ![r.push] = a] ELSE pc
  BY Zenon DEF Answer
<1> HIDE DEF a
<1> QED
  BY <1>1, <1>2, Zenon DEF ReplicationTyped, PushPositions, PcAnswered, Answered

-----------------------------------------------------------------------------
(* The helper's steps.                                                     *)

\* Uploading the content keeps the invariant: the push has not asked yet.
LEMMA UploadIInv ==
  ASSUME ReplicationInv, NEW p \in Pushes, Upload(p)
  PROVE  ReplicationInv'
<1> USE ReplicationAssumption
<1>1. pc[p] = "start" /\ ~(attempt[p] > 0) /\ minedAt[p] = None
  BY Zenon DEF ReplicationInv, Upload, Asked, Listed
<1>2. /\ UNCHANGED <<attempt, requests, queued, job, issued, pins, minedAt, timer, reaper, now>>
      /\ pc' \in [Pushes -> PushPositions] /\ pc'[p] \in {"ask", "failed"}
      /\ \A q \in Pushes \ {p} : pc'[q] = pc[q] /\ expires'[q] = expires[q]
      /\ expires' \in [Pushes -> Nat]
  BY DEF ReplicationInv, ReplicationTyped, PushPositions, Upload, IssueAuthorization, server, ops
<1>3. ReplicationTyped' /\ ReaperSound'
  BY <1>2, Zenon DEF ReplicationInv, ReplicationTyped, ReaperSound
<1>4. Asked'
  <2>1. \A q \in Pushes : attempt'[q] > 0 => pc'[q] # "start"
    BY <1>1, <1>2, Zenon DEF ReplicationInv, Asked
  <2> QED
    BY <1>2, <2>1, Zenon DEF ReplicationInv, Asked
<1>5. TicketsRecorded'
  <2>1. p \notin issued
    BY <1>1, Zenon DEF ReplicationInv, Asked
  <2> QED
    BY <1>2, <2>1, Zenon DEF ReplicationInv, TicketsRecorded
<1>6. ASSUME NEW q \in Pushes PROVE Listed(q)'
  BY <1>1, <1>2, Zenon DEF ReplicationInv, Listed
<1>7. GroundsGrow
  BY <1>1, <1>2, Zenon DEF GroundsGrow, Retained
<1>8. HeldPinned' /\ RecordedContentPinned'
  BY <1>2, <1>7, HeldKept, PromisesKept, Zenon DEF ReplicationInv
<1> QED
  BY <1>3, <1>4, <1>5, <1>6, <1>8, Zenon DEF ReplicationInv

\* So does asking for a ticket: it can only suspend a promise.
LEMMA AskIInv ==
  ASSUME ReplicationInv, NEW p \in Pushes, Ask(p)
  PROVE  ReplicationInv'
<1>1. /\ UNCHANGED <<expires, minedAt, queued, job, issued, pins, timer, reaper, now>>
      /\ pc' \in [Pushes -> PushPositions] /\ pc[p] = "ask" /\ pc'[p] = "wait"
      /\ \A q \in Pushes \ {p} : pc'[q] = pc[q]
      /\ requests' = requests \cup {[push |-> p, attempt |-> attempt[p] + 1]}
  BY Zenon DEF ReplicationInv, ReplicationTyped, PushPositions, Ask, ops
<1>2. /\ attempt' \in [Pushes -> Nat] /\ attempt'[p] > 0
      /\ \A q \in Pushes : attempt[q] > 0 => attempt'[q] > 0
      /\ \A q \in Pushes : attempt'[q] > 0 => q = p \/ attempt[q] > 0
  <2>1. attempt' = [attempt EXCEPT ![p] = @ + 1] /\ attempt \in [Pushes -> Nat]
    BY Zenon DEF ReplicationInv, ReplicationTyped, Ask
  <2> QED
    BY <2>1
<1>3. ReplicationTyped' /\ ReaperSound'
  BY <1>1, <1>2, Zenon DEF ReplicationInv, ReplicationTyped, ReaperSound
<1>4. Asked'
  <2>1. \A r \in Requests : r.push \in Pushes
    BY Zenon DEF Requests
  <2>2. ASSUME NEW r \in Requests, r \in requests' \cup queued' PROVE attempt'[r.push] > 0
    <3>1. CASE r \in requests \cup queued
      BY <1>2, <2>1, <3>1, Zenon DEF ReplicationInv, Asked
    <3>2. CASE r = [push |-> p, attempt |-> attempt[p] + 1]
      BY <1>2, <3>2, Zenon
    <3> QED
      BY <1>1, <2>2, <3>1, <3>2, Zenon
  <2>3. job'.phase # "free" => attempt'[job'.push] > 0
    BY <1>1, <1>2, Zenon DEF ReplicationInv, ReplicationTyped, Asked
  <2>4. \A q \in issued' : attempt'[q] > 0
    BY <1>1, <1>2, Zenon DEF ReplicationInv, ReplicationTyped, Asked
  <2>5. \A q \in Pushes : attempt'[q] > 0 => pc'[q] # "start"
    BY <1>1, <1>2, Zenon DEF ReplicationInv, Asked
  <2> QED
    BY <2>2, <2>3, <2>4, <2>5, Zenon DEF Asked
<1>5. TicketsRecorded'
  BY <1>1, Zenon DEF ReplicationInv, TicketsRecorded
<1>6. ASSUME NEW q \in Pushes PROVE Listed(q)'
  BY <1>1, Zenon DEF ReplicationInv, Listed
<1>7. GroundsGrow
  BY <1>1, <1>2, Zenon DEF GroundsGrow, Retained
<1>8. HeldPinned' /\ RecordedContentPinned'
  BY <1>1, <1>7, HeldKept, PromisesKept, Zenon DEF ReplicationInv
<1> QED
  BY <1>3, <1>4, <1>5, <1>6, <1>8, Zenon DEF ReplicationInv

\* An answer, or the end of the wait for one, and nothing else that the invariant
\* is about, except possibly the pins.
LEMMA AnswerBase ==
  ASSUME ReplicationInv, PcAnswered, requests' \subseteq requests, queued' \subseteq queued \cup requests,
         UNCHANGED <<attempt, expires, minedAt, timer, reaper, now>>,
         issued' = issued \/ (job.phase # "free" /\ issued' = issued \cup {job.push}),
         (job' = job /\ issued' = issued) \/ job'.phase = "free"
  PROVE  /\ ReplicationTyped' /\ Asked' /\ TicketsRecorded' /\ ReaperSound'
         /\ \A q \in Pushes : Listed(q)'
<1>1. \A q \in Pushes : pc[q] # "start" => pc'[q] # "start"
  BY Zenon DEF PcAnswered, Answered
<1>2. \A q \in Pushes : pc[q] \in {"done", "rejected"} => pc'[q] = pc[q]
  BY Zenon DEF PcAnswered, Answered
<1>3. ReplicationTyped' /\ ReaperSound'
  BY Zenon DEF ReplicationInv, ReplicationTyped, ReaperSound, PcAnswered
<1>4. Asked'
  BY <1>1, Zenon DEF ReplicationInv, ReplicationTyped, Asked
<1>5. TicketsRecorded'
  BY Zenon DEF ReplicationInv, TicketsRecorded, PcAnswered, Answered
<1>6. ASSUME NEW q \in Pushes PROVE Listed(q)'
  BY <1>2, Zenon DEF ReplicationInv, Listed
<1> QED
  BY <1>3, <1>4, <1>5, <1>6, Zenon

\* An answer that changes neither records nor pins.
LEMMA AnswerIInv ==
  ASSUME ReplicationInv, PcAnswered, requests' \subseteq requests, queued' \subseteq queued \cup requests,
         UNCHANGED <<attempt, expires, minedAt, issued, pins, timer, reaper, now>>,
         job' = job \/ job'.phase = "free"
  PROVE  ReplicationInv'
<1>1. /\ ReplicationTyped' /\ Asked' /\ TicketsRecorded' /\ ReaperSound'
      /\ \A q \in Pushes : Listed(q)'
  <2>1. UNCHANGED <<attempt, expires, minedAt, timer, reaper, now>>
    BY Zenon
  <2>2. (job' = job /\ issued' = issued) \/ job'.phase = "free"
    BY Zenon
  <2>3. issued' = issued \/ (job.phase # "free" /\ issued' = issued \cup {job.push})
    BY Zenon
  <2> QED
    BY <2>1, <2>2, <2>3, AnswerBase, Zenon
<1>2. HeldPinned' /\ RecordedContentPinned'
  BY SameGrounds, HeldKept, PromisesKept, Zenon DEF ReplicationInv
<1> QED
  BY <1>1, <1>2, Zenon DEF ReplicationInv

\* So does a caller that gives up.
LEMMA GiveUpIInv ==
  ASSUME ReplicationInv, NEW p \in Pushes, GiveUpWaiting(p)
  PROVE  ReplicationInv'
<1>1. AskAgain(p) \in {"ask", "failed"}
  BY Zenon DEF AskAgain
<1>2. PcAnswered
  BY <1>1, Zenon DEF ReplicationInv, ReplicationTyped, PushPositions, GiveUpWaiting, PcAnswered, Answered
<1> QED
  BY <1>2, AnswerIInv, Zenon DEF GiveUpWaiting, server, ops

\* So does an update of a ref: what is mined in time was spared by its ticket.
LEMMA UpdateRefIInv ==
  ASSUME ReplicationInv, NEW p \in Pushes, UpdateRef(p)
  PROVE  ReplicationInv'
<1> USE ReplicationAssumption
<1>1. /\ UNCHANGED <<attempt, expires, requests, queued, job, issued, pins, timer, reaper, now>>
      /\ pc' \in [Pushes -> PushPositions] /\ pc[p] = "confirmed" /\ pc'[p] \in {"done", "rejected"}
      /\ \A q \in Pushes \ {p} : pc'[q] = pc[q]
  BY Zenon DEF ReplicationInv, ReplicationTyped, PushPositions, UpdateRef, server, ops
<1>2. minedAt' = minedAt \/ minedAt' = [minedAt EXCEPT ![p] = now]
  BY Zenon DEF UpdateRef
<1>3. p \in issued /\ minedAt[p] = None
  BY <1>1, Zenon DEF ReplicationInv, TicketsRecorded, Listed
<1>4. /\ now \in Nat /\ reaper.now \in Nat /\ reaper.now <= now
      /\ minedAt \in [Pushes -> Nat \cup {None}]
  BY Zenon DEF ReplicationInv, ReplicationTyped, ReaperSound
<1>5. /\ \A q \in Pushes \ {p} : minedAt'[q] = minedAt[q]
      /\ minedAt'[p] = None \/ minedAt'[p] = now
      /\ minedAt' \in [Pushes -> Nat \cup {None}]
  BY <1>2, <1>3, <1>4
<1>6. ReplicationTyped' /\ ReaperSound'
  BY <1>1, <1>5, Zenon DEF ReplicationInv, ReplicationTyped, ReaperSound
<1>7. Asked'
  <2>1. \A q \in Pushes : attempt'[q] > 0 => pc'[q] # "start"
    BY <1>1, Zenon DEF ReplicationInv, Asked
  <2> QED
    BY <1>1, <2>1, Zenon DEF ReplicationInv, Asked
<1>8. TicketsRecorded'
  BY <1>1, <1>3, Zenon DEF ReplicationInv, TicketsRecorded
<1>9. ASSUME NEW q \in Pushes PROVE Listed(q)'
  <2>1. CASE q = p
    <3>1. minedAt'[p] = None \/ ~(minedAt'[p] < reaper.now)
      BY <1>4, <1>5
    <3> QED
      BY <1>1, <2>1, <3>1, Zenon DEF Listed
  <2>2. CASE q # p
    BY <2>2, <1>1, <1>5, Zenon DEF ReplicationInv, Listed
  <2> QED
    BY <2>1, <2>2, Zenon
<1>10. GroundsGrow
  BY <1>1, <1>5, Zenon DEF GroundsGrow, Retained
<1>11. HeldPinned' /\ RecordedContentPinned'
  BY <1>1, <1>10, HeldKept, PromisesKept, Zenon DEF ReplicationInv
<1> QED
  BY <1>6, <1>7, <1>8, <1>9, <1>11, Zenon DEF ReplicationInv

-----------------------------------------------------------------------------
(* The daemon's steps.                                                     *)

\* So does taking a request in.
LEMMA AcceptIInv ==
  ASSUME ReplicationInv, NEW r \in Requests, Accept(r)
  PROVE  ReplicationInv'
<1>1. r.push \in Pushes
  BY Zenon DEF Requests
<1>2. PcAnswered
  <2>1. CASE Answer(r, "denied")
    BY <1>1, <2>1, AnswerMoves, Zenon DEF ReplicationInv
  <2>2. CASE pc' = pc
    BY <2>2, Zenon DEF ReplicationInv, ReplicationTyped, PcAnswered
  <2> QED
    BY <2>1, <2>2, Zenon DEF Accept
<1> QED
  BY <1>2, AnswerIInv, Zenon DEF Accept, ops

\* Content that is pinned more does no harm: the request that holds the mutex
\* is for a ticket that is not recorded.
LEMMA LockIInv ==
  ASSUME ReplicationInv, NEW r \in Requests, Lock(r)
  PROVE  ReplicationInv'
<1>1. /\ r.push \in Pushes /\ r \in queued
      /\ UNCHANGED <<attempt, expires, minedAt, requests, issued, timer, reaper, now>>
      /\ queued' \subseteq queued \cup requests
  BY Zenon DEF Requests, Lock, ops
<1>2. CASE AlreadyUsed(r) /\ Answer(r, "pinned") /\ job' = Replied(r) /\ pins' = pins
  <2>1. PcAnswered
    BY <1>1, <1>2, AnswerMoves, Zenon DEF ReplicationInv, AlreadyUsed
  <2> QED
    BY <1>1, <1>2, <2>1, AnswerIInv, Zenon DEF Replied, NoJob
<1>3. CASE ~AlreadyUsed(r) /\ Answer(r, "unavailable") /\ job' = NoJob /\ pins' = pins
  <2>1. PcAnswered
    BY <1>1, <1>3, AnswerMoves, Zenon DEF ReplicationInv
  <2> QED
    BY <1>1, <1>3, <2>1, AnswerIInv, Zenon DEF NoJob
<1>4. CASE /\ ~AlreadyUsed(r)
           /\ pins' = pins \cup {Cid[r.push]}
           /\ job' = [push |-> r.push, attempt |-> r.attempt, phase |-> "pinned"]
           /\ pc' = pc
  <2>1. job'.push = r.push /\ job'.phase # "free" /\ r.push \notin issued
    BY <1>4, Zenon DEF AlreadyUsed
  <2>2. attempt[r.push] > 0
    BY <1>1, Zenon DEF ReplicationInv, Asked
  <2>3. ReplicationTyped' /\ ReaperSound'
    BY <1>1, <1>4, <2>1, Zenon DEF ReplicationInv, ReplicationTyped, ReaperSound
  <2>4. Asked'
    BY <1>1, <1>4, <2>1, <2>2, Zenon DEF ReplicationInv, Asked
  <2>5. TicketsRecorded'
    BY <1>1, <1>4, <2>1, Zenon DEF ReplicationInv, TicketsRecorded
  <2>6. ASSUME NEW q \in Pushes PROVE Listed(q)'
    BY <1>1, <1>4, Zenon DEF ReplicationInv, Listed
  <2>7. HeldPinned'
    BY <1>4, <2>1, Zenon DEF HeldPinned
  <2>8. RecordedContentPinned'
    BY <1>1, <1>4, SameGrounds, PromisesKept, Zenon DEF ReplicationInv
  <2> QED
    BY <2>3, <2>4, <2>5, <2>6, <2>7, <2>8, Zenon DEF ReplicationInv
<1> QED
  BY <1>2, <1>3, <1>4, Zenon DEF Lock

\* A failed verification removes a pin that recorded tickets may stand for; their
\* promise is suspended, because the push that failed asked and is not recorded.
LEMMA VerifyIInv ==
  ASSUME ReplicationInv, Verify
  PROVE  ReplicationInv'
<1>1. /\ job.phase # "free" /\ job.push \in Pushes /\ job.push \notin issued
      /\ attempt[job.push] > 0
      /\ UNCHANGED <<attempt, expires, minedAt, requests, queued, issued, timer, reaper, now>>
  BY Zenon DEF ReplicationInv, ReplicationTyped, Asked, TicketsRecorded, Verify, ops
<1>2. CASE job' = [job EXCEPT !.phase = "verified"] /\ UNCHANGED <<pins, pc>>
  <2>1. job'.push = job.push /\ job'.phase # "free"
    BY <1>1, <1>2
  <2>2. ReplicationTyped' /\ Asked' /\ TicketsRecorded' /\ ReaperSound'
    <3>1. ReplicationTyped' /\ ReaperSound'
      BY <1>1, <1>2, <2>1, Zenon DEF ReplicationInv, ReplicationTyped, ReaperSound
    <3>2. Asked'
      <4>1. \A r \in Requests : r \in requests' \cup queued' => attempt'[r.push] > 0
        BY <1>1, Zenon DEF ReplicationInv, Asked
      <4>2. attempt'[job'.push] > 0
        BY <1>1, <2>1, Zenon
      <4>3. /\ \A q \in issued' : attempt'[q] > 0
            /\ \A q \in Pushes : attempt'[q] > 0 => pc'[q] # "start"
        BY <1>1, <1>2, Zenon DEF ReplicationInv, Asked
      <4> QED
        BY <4>1, <4>2, <4>3, Zenon DEF Asked
    <3>3. TicketsRecorded'
      <4>1. pc' = pc /\ issued' = issued
        BY <1>1, <1>2, Zenon
      <4>2. \A q \in Pushes : pc'[q] \in {"confirmed", "done", "rejected"} => q \in issued'
        BY <4>1, Zenon DEF ReplicationInv, TicketsRecorded
      <4>3. job'.push \notin issued'
        BY <1>1, <2>1, <4>1, Zenon
      <4> QED
        BY <4>2, <4>3, Zenon DEF TicketsRecorded
    <3> QED
      BY <3>1, <3>2, <3>3, Zenon
  <2>3. ASSUME NEW q \in Pushes PROVE Listed(q)'
    BY <1>1, <1>2, Zenon DEF ReplicationInv, Listed
  <2>4. HeldPinned'
    <3>1. GroundsGrow
      BY <1>1, SameGrounds, Zenon
    <3>2. \A q \in Pushes : Spared(q)' => Spared(q)
      BY <3>1, SparedBefore, Zenon
    <3> QED
      BY <1>1, <1>2, <2>1, <3>2, Zenon DEF ReplicationInv, HeldPinned
  <2>5. RecordedContentPinned'
    BY <1>1, <1>2, SameGrounds, PromisesKept, Zenon DEF ReplicationInv
  <2> QED
    BY <2>2, <2>3, <2>4, <2>5, Zenon DEF ReplicationInv
<1>3. CASE /\ Answer(job, "unavailable") /\ job' = NoJob
           /\ pins' \in {pins, pins \ {Cid[job.push]}}
  <2>1. PcAnswered
    BY <1>1, <1>3, AnswerMoves, Zenon DEF ReplicationInv
  <2>2. job'.phase = "free"
    BY <1>3, Zenon DEF NoJob
  <2>3. /\ ReplicationTyped' /\ Asked' /\ TicketsRecorded' /\ ReaperSound'
        /\ \A q \in Pushes : Listed(q)'
    <3>1. UNCHANGED <<attempt, expires, minedAt, timer, reaper, now>>
      BY <1>1, Zenon
    <3>2. (job' = job /\ issued' = issued) \/ job'.phase = "free"
      BY <2>2, Zenon
    <3>3. issued' = issued \/ (job.phase # "free" /\ issued' = issued \cup {job.push})
      BY <1>1, Zenon
    <3> QED
      BY <1>1, <2>1, <3>1, <3>2, <3>3, AnswerBase, Zenon
  <2>4. ASSUME NEW q \in issued, Askers(q)' \subseteq issued, Spared(q)' PROVE Cid[q] \in pins'
    <3>1. Spared(q) /\ Askers(q) \subseteq Askers(q)'
      BY <1>1, <2>4, SameGrounds, SparedBefore, Zenon
    <3>2. Cid[q] \in pins
      BY <2>4, <3>1, Zenon DEF ReplicationInv, RecordedContentPinned, Spared
    <3>3. Cid[q] # Cid[job.push]
      BY <1>1, <2>4, Zenon DEF Askers
    <3> QED
      BY <1>3, <3>2, <3>3, Zenon
  <2>5. RecordedContentPinned'
    BY <1>1, <2>4, Zenon DEF RecordedContentPinned, Spared
  <2>6. HeldPinned'
    BY <2>2, Zenon DEF HeldPinned
  <2> QED
    BY <2>3, <2>5, <2>6, Zenon DEF ReplicationInv
<1> QED
  BY <1>2, <1>3, Zenon DEF Verify

\* The record may end a suspension: then the content is the one the daemon held.
LEMMA RecordIInv ==
  ASSUME ReplicationInv, Record
  PROVE  ReplicationInv'
<1>1. /\ job.phase # "free" /\ job.push \in Pushes /\ job'.phase = "free"
      /\ UNCHANGED <<attempt, expires, minedAt, requests, queued, pins, timer, reaper, now>>
  BY Zenon DEF ReplicationInv, ReplicationTyped, Record, ops, NoJob
<1>2. CASE Answer(job, "unavailable") /\ issued' = issued
  <2>1. PcAnswered
    BY <1>1, <1>2, AnswerMoves, Zenon DEF ReplicationInv
  <2> QED
    BY <1>1, <1>2, <2>1, AnswerIInv, Zenon
<1>3. CASE Answer(job, "pinned") /\ issued' = issued \cup {job.push}
  <2>1. PcAnswered
    BY <1>1, <1>3, AnswerMoves, Zenon DEF ReplicationInv
  <2>2. /\ ReplicationTyped' /\ Asked' /\ TicketsRecorded' /\ ReaperSound'
        /\ \A q \in Pushes : Listed(q)'
    BY <1>1, <1>3, <2>1, AnswerBase, Zenon
  <2>3. ASSUME NEW q \in issued', Askers(q)' \subseteq issued', Spared(q)' PROVE Cid[q] \in pins
    <3>1. Spared(q) /\ Askers(q) \subseteq Askers(q)'
      BY <1>1, <2>3, SameGrounds, SparedBefore, Zenon
    <3>2. CASE Cid[q] = Cid[job.push]
      <4>1. Askers(job.push) = Askers(q)
        BY <3>2, Zenon DEF Askers
      <4> QED
        BY <1>1, <3>1, <3>2, <4>1, Zenon DEF ReplicationInv, HeldPinned, Spared
    <3>3. CASE Cid[q] # Cid[job.push]
      <4>1. q \in issued /\ Askers(q) \subseteq issued
        BY <1>3, <2>3, <3>1, <3>3, Zenon DEF Askers
      <4> QED
        BY <3>1, <4>1, Zenon DEF ReplicationInv, RecordedContentPinned, Spared
    <3> QED
      BY <3>2, <3>3, Zenon
  <2>4. RecordedContentPinned'
    BY <1>1, <2>3, Zenon DEF RecordedContentPinned, Spared
  <2>5. HeldPinned'
    BY <1>1, Zenon DEF HeldPinned
  <2> QED
    BY <2>2, <2>4, <2>5, Zenon DEF ReplicationInv
<1> QED
  BY <1>2, <1>3, Zenon DEF Record

\* The tickets are those of the state file, whatever the daemon was doing.
LEMMA RestartIInv ==
  ASSUME ReplicationInv, Restart
  PROVE  ReplicationInv'
<1>1. /\ UNCHANGED <<pc, attempt, expires, minedAt, issued, pins, timer, reaper, now>>
      /\ requests' = {} /\ queued' = {} /\ job'.phase = "free"
  BY Zenon DEF Restart, Reloaded, client, ops, NoJob
<1>2. PcAnswered
  BY <1>1, Zenon DEF ReplicationInv, ReplicationTyped, PcAnswered
<1> QED
  BY <1>1, <1>2, AnswerIInv, Zenon

-----------------------------------------------------------------------------
(* The reaper's steps and the clock.                                       *)

\* A run that starts, lists or stops: a push mined before the run has its row in
\* the state file, so that the list holds what the archived contract names for it.
LEMMA ReaperRunIInv ==
  ASSUME ReplicationInv, ReaperStart \/ ReaperList \/ ReaperStop
  PROVE  ReplicationInv'
<1>1. /\ UNCHANGED <<pc, attempt, expires, minedAt, requests, queued, job, issued, pins, timer, now>>
      /\ reaper' \in [phase : {"idle", "listing", "reaping"}, now : Nat, seen : SUBSET Cids]
      /\ reaper'.now \in {0, now, reaper.now}
      /\ reaper'.phase = "reaping" => reaper'.seen = UNION {V1Refs[q] : q \in issued}
      /\ reaper'.phase # "idle" => timer
  <2>1. now \in Nat /\ issued \subseteq Pushes /\ (reaper.phase # "idle" => timer)
        /\ reaper \in [phase : {"idle", "listing", "reaping"}, now : Nat, seen : SUBSET Cids]
    BY Zenon DEF ReplicationInv, ReplicationTyped, ReaperSound
  <2>2. CASE ReaperStart
    BY <2>1, <2>2, Zenon DEF ReaperStart, client, server
  <2>3. CASE ReaperList
    <3>1. UNION {V1Refs[q] : q \in issued} \in SUBSET Cids
      BY <2>1, ReplicationAssumption
    <3> QED
      BY <2>1, <2>3, <3>1, Zenon DEF ReaperList, client, server
  <2>4. CASE ReaperStop
    BY <2>4, Zenon DEF ReaperStop, IdleReaper, client, server
  <2> QED
    BY <2>2, <2>3, <2>4, Zenon
<1>2. ReplicationTyped'
  BY <1>1, Zenon DEF ReplicationInv, ReplicationTyped
<1>3. ReaperSound'
  <2>1. now \in Nat /\ reaper.now <= now
    BY Zenon DEF ReplicationInv, ReplicationTyped, ReaperSound
  <2>2. reaper'.now <= now
    BY <1>1, <2>1
  <2> QED
    BY <1>1, <2>2, Zenon DEF ReaperSound
<1>4. Asked' /\ TicketsRecorded'
  BY <1>1, Zenon DEF ReplicationInv, Asked, TicketsRecorded
<1>5. ASSUME NEW q \in Pushes PROVE Listed(q)'
  <2>1. minedAt[q] # None => pc[q] \in {"done", "rejected"} /\ q \in issued
    BY Zenon DEF ReplicationInv, Listed, TicketsRecorded
  <2> QED
    BY <1>1, <2>1, Zenon DEF Listed
<1>6. HeldPinned' /\ RecordedContentPinned'
  BY <1>1, SameGrounds, HeldKept, PromisesKept, Zenon DEF ReplicationInv
<1> QED
  BY <1>2, <1>3, <1>4, <1>5, <1>6, Zenon DEF ReplicationInv

\* The row that is reclaimed had asked and is not retained: its ticket has expired,
\* and had it been mined in time the list would hold its content.
LEMMA ReaperUnpinIInv ==
  ASSUME ReplicationInv, NEW p \in Pushes, ReaperUnpin(p)
  PROVE  ReplicationInv'
<1>1. /\ UNCHANGED <<pc, attempt, expires, minedAt, requests, queued, job, issued, timer, reaper, now>>
      /\ reaper.phase = "reaping" /\ p \in issued /\ pins' = pins \ {Cid[p]}
      /\ expires[p] < reaper.now /\ Cid[p] \notin reaper.seen
  BY Zenon DEF ReaperUnpin, Reclaimable, client, server
<1>2. timer /\ attempt[p] > 0
  BY <1>1, Zenon DEF ReplicationInv, ReaperSound, Asked
<1>3. ~Retained(p)
  <2>1. /\ expires[p] \in Nat /\ now \in Nat /\ reaper.now \in Nat /\ reaper.now <= now
        /\ minedAt[p] \in Nat \cup {None}
    BY Zenon DEF ReplicationInv, ReplicationTyped, ReaperSound
  <2>2. ~(now <= expires[p])
    BY <1>1, <2>1
  <2>3. minedAt[p] # None /\ minedAt[p] <= expires[p] => minedAt[p] < reaper.now
    BY <1>1, <2>1
  <2>4. minedAt[p] # None /\ minedAt[p] <= expires[p] => Cid[p] \notin V1Refs[p]
    BY <1>1, <2>3, Zenon DEF ReplicationInv, Listed
  <2> QED
    BY <2>2, <2>4, Zenon DEF Retained
<1>4. \A q : Spared(q) => Cid[q] # Cid[p]
  BY <1>2, <1>3, Zenon DEF Spared, Askers
<1>5. ReplicationTyped' /\ Asked' /\ TicketsRecorded' /\ ReaperSound'
  BY <1>1, Zenon DEF ReplicationInv, ReplicationTyped, Asked, TicketsRecorded, ReaperSound
<1>6. ASSUME NEW q \in Pushes PROVE Listed(q)'
  BY <1>1, Zenon DEF ReplicationInv, Listed
<1>7. ASSUME NEW q, Spared(q)' PROVE /\ Spared(q) /\ Askers(q) \subseteq Askers(q)'
                                     /\ Cid[q] \in pins => Cid[q] \in pins'
  <2>1. Spared(q) /\ Askers(q) \subseteq Askers(q)'
    BY <1>1, <1>7, SameGrounds, SparedBefore, Zenon
  <2> QED
    BY <1>1, <1>4, <2>1, Zenon
<1>8. HeldPinned'
  BY <1>1, <1>7, Zenon DEF ReplicationInv, HeldPinned
<1>9. RecordedContentPinned'
  BY <1>1, <1>7, Zenon DEF ReplicationInv, RecordedContentPinned, Spared
<1> QED
  BY <1>5, <1>6, <1>8, <1>9, Zenon DEF ReplicationInv

\* So does the passing of time.
LEMMA TickIInv ==
  ASSUME ReplicationInv, Tick
  PROVE  ReplicationInv'
<1>1. /\ UNCHANGED <<pc, attempt, expires, minedAt, requests, queued, job, issued, pins, timer, reaper>>
      /\ now' = now + 1
  BY Zenon DEF Tick, client, server, ops
<1>2. now \in Nat /\ expires \in [Pushes -> Nat] /\ reaper.now \in Nat /\ reaper.now <= now
  BY Zenon DEF ReplicationInv, ReplicationTyped, ReaperSound
<1>3. now' \in Nat /\ reaper.now <= now' /\ \A q \in Pushes : now' <= expires[q] => now <= expires[q]
  BY <1>1, <1>2
<1>4. ReplicationTyped' /\ Asked' /\ TicketsRecorded' /\ ReaperSound'
  BY <1>1, <1>3, Zenon DEF ReplicationInv, ReplicationTyped, Asked, TicketsRecorded, ReaperSound
<1>5. ASSUME NEW q \in Pushes PROVE Listed(q)'
  BY <1>1, Zenon DEF ReplicationInv, Listed
<1>6. GroundsGrow
  BY <1>1, <1>3, Zenon DEF GroundsGrow, Retained
<1>7. HeldPinned' /\ RecordedContentPinned'
  BY <1>1, <1>6, HeldKept, PromisesKept, Zenon DEF ReplicationInv
<1> QED
  BY <1>4, <1>5, <1>7, Zenon DEF ReplicationInv

\* So does a step that changes nothing.
LEMMA StutterIInv ==
  ASSUME ReplicationInv, UNCHANGED replicationVars
  PROVE  ReplicationInv'
<1>1. PcAnswered
  BY Zenon DEF ReplicationInv, ReplicationTyped, PcAnswered, replicationVars
<1> QED
  BY <1>1, AnswerIInv, Zenon DEF replicationVars

-----------------------------------------------------------------------------
(* Every step, and what follows for every behaviour.                       *)

\* Every step keeps the invariant.
LEMMA ReplicationNextInv == ReplicationInv /\ [ReplicationNext]_replicationVars => ReplicationInv'
<1> SUFFICES ASSUME ReplicationInv, [ReplicationNext]_replicationVars PROVE ReplicationInv'
  BY Zenon
<1>1. CASE \E p \in Pushes : Helper(p)
  BY <1>1, UploadIInv, AskIInv, GiveUpIInv, UpdateRefIInv, Zenon DEF Helper
<1>3. CASE Daemon
  BY <1>3, AcceptIInv, LockIInv, VerifyIInv, RecordIInv, Zenon DEF Daemon
<1>4. CASE Restart
  BY <1>4, RestartIInv, Zenon
<1>5. CASE Reaper
  BY <1>5, ReaperRunIInv, ReaperUnpinIInv, Zenon DEF Reaper
<1>6. CASE Tick
  BY <1>6, TickIInv, Zenon
<1>7. CASE UNCHANGED replicationVars
  BY <1>7, StutterIInv, Zenon
<1> QED
  BY <1>1, <1>3, <1>4, <1>5, <1>6, <1>7, Zenon DEF ReplicationNext

\* Every reachable state satisfies the invariant.
LEMMA ReplicationInvariance == ReplicationSpec => []ReplicationInv
  BY ReplicationInitInv, ReplicationNextInv, PTL DEF ReplicationSpec

\* A push reaches the registry only with its ticket in the daemon's state file,
\* and the daemon never replicates a recorded ticket again, for any number of
\* pushes, requests lost or late, and restarts (handleReplicate, record).
THEOREM ConfirmedOnlyRecorded == ReplicationSpec => []TicketsRecorded
<1>1. ReplicationInv => TicketsRecorded
  BY Zenon DEF ReplicationInv
<1> QED
  BY ReplicationInvariance, <1>1, PTL

\* Recorded content stays pinned, whatever the daemon's retries and restarts, the
\* reaper and the clock do and however many pushes share it: for ever with the reaper's
\* timer off, and with the timer on while its tickets are valid or the archived contract
\* names it; except while a push that asked for the same content is not recorded
\* (replicate, record, replication-reaper.sh).
THEOREM RecordedStaysPinned == ReplicationSpec => []RecordedContentPinned
<1>1. ReplicationInv => RecordedContentPinned
  BY Zenon DEF ReplicationInv
<1> QED
  BY ReplicationInvariance, <1>1, PTL

-----------------------------------------------------------------------------
(* MigrationPlan: publication of a plan and its manifest.                  *)

Builder(a, p) == [at |-> a, plan |-> p]
Output(p, m) == [plan |-> p, manifest |-> m]

\* A builder with something to publish has a plan, and one that has only the
\* manifest left has published its plan.
BuilderSound(x, published) ==
  /\ x.at \in {"generated", "plan", "manifest"} => x.plan # NoFile
  /\ x.at = "manifest" => published = x.plan

PublishInd ==
  /\ builders = [b \in Builders |-> Builder(builders[b].at, builders[b].plan)]
  /\ files = Output(files.plan, files.manifest)
  /\ \A b \in Builders : BuilderSound(builders[b], files.plan)
  /\ files.manifest # NoFile =>
       files.plan # NoFile /\ files.manifest = BuildCalldataManifest(files.plan)

\* The parts of a builder.
LEMMA BuilderParts ==
  ASSUME NEW x, NEW a, NEW p, x = Builder(a, p)
  PROVE  x.at = a /\ x.plan = p
<1>1. [at |-> a, plan |-> p].at = a
  BY Zenon
<1>2. [at |-> a, plan |-> p].plan = p
  BY Zenon
<1> QED
  BY <1>1, <1>2, Zenon DEF Builder

\* The parts of a builder and of the files, for any values.
LEMMA PublishFields ==
  /\ \A a, p : Builder(a, p).at = a /\ Builder(a, p).plan = p
  /\ \A p, m : Output(p, m).plan = p /\ Output(p, m).manifest = m
BY Zenon DEF Builder, Output

\* Another builder in the place of one.
LEMMA BuilderReplaced ==
  ASSUME PublishInd, NEW b \in Builders, NEW a, NEW p, builders' = [builders EXCEPT ![b] = Builder(a, p)]
  PROVE  /\ builders' = [c \in Builders |-> Builder(builders'[c].at, builders'[c].plan)]
         /\ builders'[b] = Builder(a, p)
         /\ \A c \in Builders \ {b} : builders'[c] = builders[c]
<1>1. DOMAIN builders = Builders
  BY Zenon DEF PublishInd
<1>2. \A c \in Builders : builders[c] = Builder(builders[c].at, builders[c].plan)
  BY Zenon DEF PublishInd
<1>3. builders'[b] = Builder(a, p) /\ \A c \in Builders \ {b} : builders'[c] = builders[c]
  BY <1>1, Zenon
<1>4. \A c \in Builders : builders'[c] = Builder(builders'[c].at, builders'[c].plan)
  <2>1. ASSUME NEW c \in Builders PROVE builders'[c] = Builder(builders'[c].at, builders'[c].plan)
    <3>1. CASE c = b
      <4>1. builders'[c].at = a /\ builders'[c].plan = p
        <5>1. PICK x : x = builders'[c]
          BY Zenon
        <5>2. x = Builder(a, p)
          BY <1>3, <3>1, <5>1, Zenon
        <5>3. x.at = a /\ x.plan = p
          BY <5>2, BuilderParts, Zenon
        <5> QED
          BY <5>1, <5>3, Zenon
      <4> QED
        BY <1>3, <3>1, <4>1, Zenon
    <3>2. CASE c # b
      BY <1>2, <1>3, <3>2, Zenon
    <3> QED
      BY <3>1, <3>2, Zenon
  <2> QED
    BY <2>1, Zenon
<1>5. builders' = [c \in Builders |-> builders'[c]]
  BY <1>1, Zenon
<1>6. [c \in Builders |-> builders'[c]] = [c \in Builders |-> Builder(builders'[c].at, builders'[c].plan)]
  BY <1>4
<1> QED
  BY <1>3, <1>5, <1>6, Zenon

\* A plan is no missing file.
LEMMA PlanIsFile ==
  ASSUME NEW d, NEW size
  PROVE  BuildPlan(d, size) # NoFile
<1>1. "none" \in DOMAIN NoFile
  BY DEF NoFile
<1>2. DOMAIN BuildPlan(d, size) = {"size", "snapshot", "summary", "modules"}
  BY Zenon DEF BuildPlan
<1>3. "none" \notin {"size", "snapshot", "summary", "modules"}
  OBVIOUS
<1> QED
  BY <1>1, <1>2, <1>3, Zenon

\* A builder that has a plan and has published nothing is sound.
LEMMA SoundWithPlan ==
  ASSUME NEW a \in {"generated", "plan", "invalid"}, NEW p, p # NoFile, NEW q
  PROVE  BuilderSound(Builder(a, p), q)
<1>1. Builder(a, p).at = a /\ Builder(a, p).plan = p
  BY Zenon DEF Builder
<1>2. a # "manifest"
  OBVIOUS
<1> QED
  BY <1>1, <1>2, Zenon DEF BuilderSound

\* A builder that has stopped has nothing to answer for.
LEMMA StoppedSound ==
  ASSUME NEW q
  PROVE  BuilderSound(Builder("stopped", NoFile), q)
<1>1. Builder("stopped", NoFile).at = "stopped"
  BY Zenon DEF Builder
<1> QED
  BY <1>1, Zenon DEF BuilderSound

\* A builder moves on without publishing.
LEMMA BuilderMoves ==
  ASSUME PublishInd, NEW b \in Builders, NEW a, NEW p, builders' = [builders EXCEPT ![b] = Builder(a, p)],
         files' = files, BuilderSound(Builder(a, p), files.plan)
  PROVE  PublishInd'
<1>1. /\ builders' = [c \in Builders |-> Builder(builders'[c].at, builders'[c].plan)]
      /\ builders'[b] = Builder(a, p)
      /\ \A c \in Builders \ {b} : builders'[c] = builders[c]
  BY BuilderReplaced, Zenon
<1>2. \A c \in Builders : BuilderSound(builders'[c], files'.plan)
  BY <1>1, Zenon DEF PublishInd
<1> QED
  BY <1>1, <1>2, Zenon DEF PublishInd

\* A build that starts has a plan.
LEMMA StartBuildPublishes ==
  ASSUME PublishInd, NEW b \in Builders, StartBuild(b)
  PROVE  PublishInd'
<1>1. PICK s : builders' = [builders EXCEPT ![b] = [at |-> "generated", plan |-> BuildPlan(document, s)]]
  BY Zenon DEF StartBuild
<1>2. PICK p : p = BuildPlan(document, s)
  BY Zenon
<1>3. p # NoFile
  BY <1>2, PlanIsFile, Zenon
<1>4. builders' = [builders EXCEPT ![b] = Builder("generated", p)] /\ files' = files
  BY <1>1, <1>2, Zenon DEF StartBuild, Builder
<1>5. BuilderSound(Builder("generated", p), files.plan)
  BY <1>3, SoundWithPlan, Zenon
<1> QED
  BY <1>4, <1>5, BuilderMoves, Zenon

\* Validation keeps the plan.
LEMMA GeneratedPublishes ==
  ASSUME PublishInd, NEW b \in Builders, Generated(b)
  PROVE  PublishInd'
<1>1. PICK p : p = builders[b].plan
  BY Zenon
<1>2. builders[b] = Builder("generated", p)
  BY <1>1, Zenon DEF PublishInd, Generated
<1>3. p # NoFile
  BY <1>1, Zenon DEF PublishInd, BuilderSound, Generated
<1>4. PICK a \in {"plan", "invalid"} : builders' = [builders EXCEPT ![b].at = a] /\ files' = files
  BY Zenon DEF Generated
<1>5. builders' = [builders EXCEPT ![b] = Builder(a, p)]
  <2>1. [builders[b] EXCEPT !.at = a] = Builder(a, p)
    BY <1>2 DEF Builder
  <2> QED
    BY <1>4, <2>1, Zenon
<1>6. BuilderSound(Builder(a, p), files.plan)
  BY <1>3, SoundWithPlan, Zenon
<1> QED
  BY <1>4, <1>5, <1>6, BuilderMoves, Zenon

\* A build may stop anywhere.
LEMMA StopPublishes ==
  ASSUME PublishInd, NEW b \in Builders, builders' = [builders EXCEPT ![b] = Exited], files' = files
  PROVE  PublishInd'
<1>1. builders' = [builders EXCEPT ![b] = Builder("stopped", NoFile)]
  BY Zenon DEF Exited, Builder
<1>2. BuilderSound(Builder("stopped", NoFile), files.plan)
  BY StoppedSound, Zenon
<1> QED
  BY <1>1, <1>2, BuilderMoves, Zenon

\* publishArtifacts: the plan replaces no file, so no manifest is published when
\* it appears; the manifest follows only the builder's own plan.
LEMMA PublishPublishes ==
  ASSUME PublishInd, NEW b \in Builders, Publish(b)
  PROVE  PublishInd'
<1>1. PICK p : p = builders[b].plan
  BY Zenon
<1>2. PICK fp, fm : fp = files.plan /\ fm = files.manifest
  BY Zenon
<1>3. files = Output(fp, fm) /\ files.plan = fp /\ files.manifest = fm
  BY <1>2, Zenon DEF PublishInd
<1>4. BuilderSound(builders[b], fp)
  BY <1>2, Zenon DEF PublishInd
<1>5. CASE builders[b].at = "plan" /\ WriteExclusive(b, "plan", p, [at |-> "manifest", plan |-> p])
  <2>1. CASE fp = NoFile
    <3>1. files' = [files EXCEPT !["plan"] = p] /\ builders' = [builders EXCEPT ![b] = [at |-> "manifest", plan |-> p]]
      BY <1>3, <1>5, <2>1, Zenon DEF WriteExclusive
    <3>2. files' = Output(p, fm)
      BY <1>3, <3>1, Zenon DEF Output
    <3>3. builders' = [builders EXCEPT ![b] = Builder("manifest", p)]
      BY <3>1, Zenon DEF Builder
    <3>4. p # NoFile
      BY <1>1, <1>4, <1>5, Zenon DEF BuilderSound
    <3>5. fm = NoFile
      BY <1>3, <2>1, Zenon DEF PublishInd
    <3>6. files'.plan = p /\ files'.manifest = fm /\ files' = Output(files'.plan, files'.manifest)
      BY <3>2, PublishFields, Zenon
    <3>7. /\ builders' = [c \in Builders |-> Builder(builders'[c].at, builders'[c].plan)]
          /\ builders'[b] = Builder("manifest", p)
          /\ \A c \in Builders \ {b} : builders'[c] = builders[c]
      BY <3>3, BuilderReplaced, Zenon
    <3>8. ASSUME NEW c \in Builders PROVE BuilderSound(builders'[c], files'.plan)
      <4>1. CASE c = b
        <5>1. builders'[c].at = "manifest" /\ builders'[c].plan = p
          <6>1. PICK x : x = builders'[c]
            BY Zenon
          <6>2. PICK k : k = "manifest"
            BY Zenon
          <6>3. x = Builder(k, p)
            BY <3>7, <4>1, <6>1, <6>2, Zenon
          <6>4. x.at = k /\ x.plan = p
            BY <6>3, BuilderParts, Zenon
          <6> QED
            BY <6>1, <6>2, <6>4, Zenon
        <5> QED
          BY <3>4, <3>6, <5>1, Zenon DEF BuilderSound
      <4>2. CASE c # b
        <5>1. BuilderSound(builders[c], fp) /\ builders'[c] = builders[c]
          BY <1>3, <3>7, <4>2, Zenon DEF PublishInd
        <5> QED
          BY <2>1, <5>1, Zenon DEF BuilderSound
      <4> QED
        BY <4>1, <4>2, Zenon
    <3> QED
      BY <3>5, <3>6, <3>7, <3>8, Zenon DEF PublishInd
  <2>2. CASE fp # NoFile
    <3>1. builders' = [builders EXCEPT ![b] = Exited] /\ files' = files
      BY <1>3, <1>5, <2>2, Zenon DEF WriteExclusive
    <3> QED
      BY <3>1, StopPublishes, Zenon
  <2> QED
    BY <2>1, <2>2, Zenon
<1>6. CASE builders[b].at = "manifest" /\ WriteExclusive(b, "manifest", BuildCalldataManifest(p), Exited)
  <2>0. fp = p /\ p # NoFile
    BY <1>1, <1>4, <1>6, Zenon DEF BuilderSound
  <2>1. CASE fm = NoFile
    <3>1. PICK m : m = BuildCalldataManifest(p)
      BY Zenon
    <3>2. files' = [files EXCEPT !["manifest"] = m] /\ builders' = [builders EXCEPT ![b] = Exited]
      BY <1>3, <1>6, <2>1, <3>1, Zenon DEF WriteExclusive
    <3>3. files' = Output(fp, m)
      BY <1>3, <3>2, Zenon DEF Output
    <3>4. files'.plan = fp /\ files'.manifest = m /\ files' = Output(files'.plan, files'.manifest)
      BY <3>3, PublishFields, Zenon
    <3>5. builders' = [builders EXCEPT ![b] = Builder("stopped", NoFile)]
      BY <3>2, Zenon DEF Exited, Builder
    <3>6. /\ builders' = [c \in Builders |-> Builder(builders'[c].at, builders'[c].plan)]
          /\ builders'[b] = Builder("stopped", NoFile)
          /\ \A c \in Builders \ {b} : builders'[c] = builders[c]
      BY <3>5, BuilderReplaced, Zenon
    <3>7. ASSUME NEW c \in Builders PROVE BuilderSound(builders'[c], files'.plan)
      <4>1. CASE c = b
        BY <3>6, <4>1, StoppedSound, Zenon
      <4>2. CASE c # b
        <5>1. BuilderSound(builders[c], fp) /\ builders'[c] = builders[c]
          BY <1>3, <3>6, <4>2, Zenon DEF PublishInd
        <5> QED
          BY <3>4, <5>1, Zenon
      <4> QED
        BY <4>1, <4>2, Zenon
    <3> QED
      BY <2>0, <3>1, <3>4, <3>6, <3>7, Zenon DEF PublishInd
  <2>2. CASE fm # NoFile
    <3>1. builders' = [builders EXCEPT ![b] = Exited] /\ files' = files
      BY <1>3, <1>6, <2>2, Zenon DEF WriteExclusive
    <3> QED
      BY <3>1, StopPublishes, Zenon
  <2> QED
    BY <2>1, <2>2, Zenon
<1> QED
  BY <1>1, <1>5, <1>6, Zenon DEF Publish

\* Every step of the tool keeps the invariant.
LEMMA PublishStep ==
  ASSUME PublishInd, [PlanNext]_planVars
  PROVE  PublishInd'
<1>1. ASSUME NEW b \in Builders, StartBuild(b) \/ Generated(b) \/ Publish(b) \/ BuildStops(b)
      PROVE  PublishInd'
  <2>1. CASE BuildStops(b)
    BY <2>1, StopPublishes, Zenon DEF BuildStops
  <2> QED
    BY <1>1, <2>1, StartBuildPublishes, GeneratedPublishes, PublishPublishes, Zenon
<1>2. ASSUME builders' = builders, files' = files PROVE PublishInd'
  BY <1>2, Zenon DEF PublishInd
<1>3. CASE VerifyPlan
  BY <1>2, <1>3, Zenon DEF VerifyPlan
<1>4. CASE SendNext
  BY <1>2, <1>4, Zenon DEF SendNext
<1>5. CASE UNCHANGED planVars
  BY <1>2, <1>5, Zenon DEF planVars
<1> QED
  BY <1>1, <1>3, <1>4, <1>5, Zenon DEF PlanNext

\* It holds before the first build.
LEMMA PublishInit ==
  ASSUME PlanInit
  PROVE  PublishInd
<1>1. builders = [b \in Builders |-> Builder("idle", NoFile)] /\ files = Output(NoFile, NoFile)
  BY Zenon DEF PlanInit, Builder, Output
<1>2. files.plan = NoFile /\ files.manifest = NoFile /\ files = Output(files.plan, files.manifest)
  BY <1>1, PublishFields, Zenon
<1>3. \A b \in Builders : builders[b] = Builder("idle", NoFile) /\ builders[b].at = "idle" /\ builders[b].plan = NoFile
  BY <1>1, PublishFields, Zenon
<1>4. \A b \in Builders : BuilderSound(builders[b], files.plan)
  BY <1>3, Zenon DEF BuilderSound
<1>5. builders = [b \in Builders |-> Builder(builders[b].at, builders[b].plan)]
  BY <1>1, <1>3, Zenon
<1> QED
  BY <1>2, <1>4, <1>5, Zenon DEF PublishInd

\* publishArtifacts: whatever builds run at once, with whatever batch sizes, and
\* wherever they are killed, a published manifest belongs to the published plan.
THEOREM PublicationAgrees == PlanSpec => []PublishedPairAgrees
<1>1. PlanInit => PublishInd
  BY PublishInit, Zenon
<1>2. PublishInd /\ [PlanNext]_planVars => PublishInd'
  BY PublishStep, Zenon
<1>3. PublishInd => PublishedPairAgrees
  BY Zenon DEF PublishInd, PublishedPairAgrees
<1> QED
  BY <1>1, <1>2, <1>3, PTL DEF PlanSpec

=============================================================================

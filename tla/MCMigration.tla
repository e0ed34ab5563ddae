------------------------------- MODULE MCMigration -------------------------------
EXTENDS ArchiveInventory, MigrationPlan

(***************************************************************************)
(* The two ends of the migration.  They share no file: the converter of a  *)
(* verified archive into a suite snapshot is not part of the repository,   *)
(* so the plan has to be right for every document and the archive for      *)
(* every history, and a behaviour is of one of them.                       *)
(***************************************************************************)
VARIABLE tool

\* After three transactions a history keeps to moderation or to ownership.
MCOnly(actions) == \A i \in DOMAIN log : log[i].ok /\ log[i].event.action \in actions
MCOneTopic ==
  Len(log) > 3 =>
    \/ MCOnly({"create_repo", "submit_moderation_report", "resolve_moderation",
               "appeal_moderation_report"})
    \/ MCOnly({"create_repo", "fork_repo", "transfer_ownership"})

MCRepository(id, fork) ==
  [kind |-> "repository", id |-> id, owner |-> 1 + id \div 3, name |-> 1 + (id % 2), fork |-> fork]
MCStatus(id, s) == [kind |-> "status", repo |-> id, status |-> s]

\* Repositories with any forks, a status for each.
MCBase(forks) ==
  [id \in DOMAIN forks |-> MCRepository(id, forks[id])]
    \o [id \in DOMAIN forks |-> MCStatus(id, IF id = 2 THEN "frozen" ELSE "active")]

\* One record of each kind that is right in most documents, and those that clash
\* with it, break one limit or name a repository that may be missing.
MCExtras ==
  {[kind |-> "repository", id |-> 3, owner |-> 1, name |-> 2, fork |-> 0], MCStatus(2, "active")}
  \cup {[kind |-> "alias", repo |-> i, owner |-> 2, name |-> n] : i \in 1..2, n \in 1..2}
  \cup {[kind |-> "alias", repo |-> 1, owner |-> 1, name |-> 1]}
  \cup {[kind |-> "ref", repo |-> i, name |-> n, packs |-> k] : i \in 1..2, n \in 1..1, k \in {1, 3}}
  \cup {[kind |-> "ref", repo |-> 1, name |-> 2, packs |-> k] : k \in {2, 4}}
  \cup {[kind |-> "collaborator", repo |-> 1, account |-> a] : a \in 1..3}
  \cup {[kind |-> "collaborator", repo |-> 2, account |-> 2]}
  \cup {[kind |-> "guardians", repo |-> 1, by |-> 1, list |-> l, threshold |-> 1] :
         l \in {<<2>>, <<2, 2>>, <<1>>, <<2, 3, 4>>}}
  \cup {[kind |-> "guardians", repo |-> 2, by |-> 2, list |-> <<3>>, threshold |-> 2]}
  \cup {[kind |-> "guardians", repo |-> 2, by |-> 1, list |-> <<3, 2>>, threshold |-> 2]}
  \cup {[kind |-> "report", id |-> i, repo |-> 2, state |-> 1, resolution |-> "active",
         trail |-> <<"active">>] : i \in 0..1}
  \cup {[kind |-> "report", id |-> 1, repo |-> 1, state |-> 4, resolution |-> "active",
         trail |-> t] : t \in {<<"active", "frozen", "frozen", "active">>,
                               <<"active", "frozen", "active", "active">>}}
  \cup {[kind |-> "report", id |-> 2, repo |-> 2, state |-> 2, resolution |-> "frozen",
         trail |-> <<"active", "frozen">>]}
  \cup {[kind |-> "trail", repo |-> 2, trail |-> <<[status |-> s, report |-> i]>>] :
         s \in {"frozen", "active"}, i \in {0, 1}}
  \cup {[kind |-> "trail", repo |-> 2, trail |-> <<[status |-> "frozen", report |-> 2]>>]}
  \cup {[kind |-> "splits", repo |-> 1, list |-> l] :
         l \in {<<>>, <<[recipient |-> 2, bps |-> 10]>>, <<[recipient |-> 2, bps |-> 11]>>,
                <<[recipient |-> 1, bps |-> 1]>>}}
  \cup {[kind |-> "total", repo |-> i, denom |-> 1, amount |-> a] : i \in 1..2, a \in {0, 5}}
  \cup {[kind |-> "username", name |-> n, owner |-> a] : n \in 1..2, a \in 1..2}
  \cup {[kind |-> "reserved", name |-> n] : n \in {1, 3}}
  \cup {[kind |-> "badge", id |-> i, repo |-> 1, recipient |-> a, by |-> 1] : i \in 0..2, a \in 1..2}
  \cup {[kind |-> "release", version |-> 1, platform |-> p] : p \in 1..2}

\* A document in the order it was written, with right or wrong indexes.
MCDocument(records, wrong, released) ==
  LET Badges == {r \in ToSet(records) : r.kind = "badge"}
  IN  [records |-> records,
       byRecipient |-> {<<b.recipient, b.id>> : b \in Badges},
       byRepository |-> IF wrong THEN {<<2, 7>>} ELSE {<<b.repo, b.id>> : b \in Badges},
       platforms |-> {<<r.version, r.platform>> : r \in {x \in ToSet(records) : x.kind = "release"}},
       escrowReleased |-> released]

MCDocuments ==
  {MCDocument(MCBase(forks), FALSE, TRUE) : forks \in [1..3 -> 0..3]}
  \cup {MCDocument(MCBase(forks) \o <<x>>, w, ~w) :
         forks \in [1..3 -> {0}] \cup {<<2, 3, 0>>}, x \in MCExtras, w \in BOOLEAN}
  \cup {MCDocument(MCBase(<<0, 1>>) \o <<x, x>>, FALSE, TRUE) : x \in MCExtras}
  \cup {MCDocument(MCBase(<<0, 1>>) \o SetToSeq({x, y}), FALSE, TRUE) : x \in MCExtras, y \in MCExtras}
  \cup {MCDocument(<<x>>, FALSE, TRUE) : x \in MCExtras} \cup {MCDocument(<<>>, FALSE, TRUE)}

MCSymmetry == Permutations(Builders)

MigrationInit ==
  /\ ArchiveInit /\ PlanInit
  /\ tool \in {"archive", "plan"}
  /\ tool = "archive" => document = MCDocument(<<>>, FALSE, TRUE)

MigrationNext ==
  \/ tool = "archive" /\ ArchiveNext /\ UNCHANGED <<planVars, tool>>
  \/ tool = "plan" /\ PlanNext /\ UNCHANGED <<archiveVars, tool>>

MigrationSpec == MigrationInit /\ [][MigrationNext]_<<archiveVars, planVars, tool>>
=============================================================================

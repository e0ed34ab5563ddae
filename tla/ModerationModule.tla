--------------------------- MODULE ModerationModule ---------------------------
(***************************************************************************)
(* The ModerationModule contract: a committee sets the status of a         *)
(* repository directly or by deciding reports, the current owner may       *)
(* appeal a decision once, and other modules ask it whether an operation   *)
(* on a repository is allowed.  Reason hashes and timestamps are left out. *)
(***************************************************************************)
EXTENDS RepositoryCore

CONSTANTS
  Admin,         \* the immutable admin
  FirstCommittee,\* committee_ of the constructor
  CommitteeAccounts, \* accounts offered to setCommittee
  MaxReports,    \* bound on nextReportId
  MaxTrail       \* bound on the length of a status trail

ASSUME ModerationAssumption ==
  /\ Admin \in Accounts /\ FirstCommittee \in Accounts
  /\ CommitteeAccounts \subseteq Accounts \cup {NoAccount}
  /\ MaxReports \in Nat /\ MaxTrail \in Nat

ReportIds == 1..MaxReports

Statuses == {"Active", "Frozen", "Delisted"}
ReportStatuses == {"Open", "Resolved", "Appealed", "AppealResolved"}
TrailActions == {"Submitted", "Resolved", "Appealed", "AppealResolved"}

VARIABLES
  committee,      \* committee
  statuses,       \* _statuses
  statusTrails,   \* _statusTrails
  importedStatuses, \* _importedStatuses
  reports,        \* _reports
  trails,         \* _trails
  nextReportId    \* nextReportId

moderationVars == <<committee, statuses, statusTrails, importedStatuses,
                    reports, trails, nextReportId>>

NoReport == [repoId |-> NoRepo, reporter |-> NoAccount, status |-> "NoReport",
             resolution |-> "Active"]
Report == {NoReport} \cup [repoId: RepoIds, reporter: Accounts,
                           status: ReportStatuses, resolution: Statuses]
TrailEntry == [action: TrailActions, status: Statuses]
StatusTrailEntry == [status: Statuses, reportId: ReportIds \cup {0}]

ModerationTypeOK ==
  /\ committee \in Accounts
  /\ statuses \in [RepoIds -> Statuses]
  /\ statusTrails \in [RepoIds -> Seq(StatusTrailEntry)]
  /\ importedStatuses \in SUBSET RepoIds
  /\ reports \in [ReportIds -> Report]
  /\ trails \in [ReportIds -> Seq(TrailEntry)]
  /\ nextReportId \in Nat \ {0}

ModerationInit ==
  /\ committee = FirstCommittee
  /\ statuses = [r \in RepoIds |-> "Active"]
  /\ statusTrails = [r \in RepoIds |-> <<>>]
  /\ importedStatuses = {}
  /\ reports = [i \in ReportIds |-> NoReport]
  /\ trails = [i \in ReportIds |-> <<>>]
  /\ nextReportId = 1

\* Mutant: delisting, not freezing, stops ref updates.
NotFrozen_Delisted(r) == statuses[r] # "Delisted"

\* requireRefMutation and requireEconomicAction
NotFrozen(r) == statuses[r] # "Frozen"
\* requireFork and requireBadgeAward
RequireActiveRepository(r) == statuses[r] = "Active"

SetCommittee(caller, newCommittee) ==
  /\ caller = Admin
  /\ newCommittee # NoAccount
  /\ committee' = newCommittee
  /\ UNCHANGED <<statuses, statusTrails, importedStatuses, reports, trails, nextReportId>>

\* Mutant: reports decide without a status trail entry.
Decide_TrailDirectOnly(r, status, reportId) ==
  /\ Len(statusTrails[r]) < MaxTrail
  /\ statuses' = [statuses EXCEPT ![r] = status]
  /\ statusTrails' = IF reportId # 0 THEN statusTrails
                     ELSE [statusTrails EXCEPT ![r] =
                             Append(@, [status |-> status, reportId |-> reportId])]
  /\ TouchMetadata(r)

\* Every status change of an active suite leaves a trail entry and, through
\* Core.updateMetadata, a new timestamp on the repository.
Decide(r, status, reportId) ==
  /\ Len(statusTrails[r]) < MaxTrail
  /\ statuses' = [statuses EXCEPT ![r] = status]
  /\ statusTrails' = [statusTrails EXCEPT ![r] =
                        Append(@, [status |-> status, reportId |-> reportId])]
  /\ TouchMetadata(r)

SetRepositoryStatus(caller, r, status) ==
  /\ caller = committee
  /\ Decide(r, status, 0)
  /\ UNCHANGED <<committee, importedStatuses, reports, trails, nextReportId>>

SubmitReport(caller, r) ==
  /\ Exists(r)
  /\ nextReportId \in ReportIds
  /\ reports' = [reports EXCEPT ![nextReportId] =
       [repoId |-> r, reporter |-> caller, status |-> "Open", resolution |-> "Active"]]
  /\ trails' = [trails EXCEPT ![nextReportId] =
                  Append(@, [action |-> "Submitted", status |-> "Active"])]
  /\ nextReportId' = nextReportId + 1
  /\ UNCHANGED <<coreVars, committee, statuses, statusTrails, importedStatuses>>

WithStatus(report, status, resolution) ==
  [repoId |-> report.repoId, reporter |-> report.reporter,
   status |-> status, resolution |-> resolution]

\* resolveReport takes an Open report, resolveAppeal an Appealed one.
DecideReport(caller, id, from, to, status) ==
  /\ caller = committee
  /\ reports[id].status = from
  /\ reports' = [reports EXCEPT ![id] = WithStatus(@, to, status)]
  /\ trails' = [trails EXCEPT ![id] = Append(@, [action |-> to, status |-> status])]
  /\ Decide(reports[id].repoId, status, id)
  /\ UNCHANGED <<committee, importedStatuses, nextReportId>>

ResolveReport(caller, id, status) == DecideReport(caller, id, "Open", "Resolved", status)

ResolveAppeal(caller, id, status) ==
  DecideReport(caller, id, "Appealed", "AppealResolved", status)

Appealable(id) == reports[id].status = "Resolved"

AppealReport(caller, id) ==
  /\ Appealable(id)
  /\ caller = owner[reports[id].repoId]
  /\ reports' = [reports EXCEPT ![id] = WithStatus(@, "Appealed", @.resolution)]
  /\ trails' = [trails EXCEPT ![id] =
                  Append(@, [action |-> "Appealed", status |-> reports[id].resolution])]
  /\ TouchMetadata(reports[id].repoId)
  /\ UNCHANGED <<committee, statuses, statusTrails, importedStatuses, nextReportId>>

-----------------------------------------------------------------------------
(* Snapshot import                                                         *)

ImportStatus(r, status) ==
  /\ Exists(r)
  /\ r \notin importedStatuses
  /\ importedStatuses' = importedStatuses \cup {r}
  /\ statuses' = [statuses EXCEPT ![r] = status]
  /\ UNCHANGED <<committee, statusTrails, reports, trails, nextReportId>>

ReportActions == <<"Submitted", "Resolved", "Appealed", "AppealResolved">>
ReportStates == <<"Open", "Resolved", "Appealed", "AppealResolved">>

\* A report in the n-th state comes with n trail entries, whose statuses are
\* decisions; the checks are those of _storeImportedReport on statuses.
ImportableDecisions(n, decisions, resolution) ==
  /\ n = 1 => resolution = "Active"
  /\ decisions[1] = "Active"
  /\ decisions[n] = resolution
  /\ n = 4 => decisions[3] = decisions[2]
  /\ n \in {2, 3} => decisions[2] = resolution

NextIdAfter(id) == IF id >= nextReportId THEN id + 1 ELSE nextReportId

StoreImportedReport(id, r, reporter, n, decisions, resolution) ==
  /\ Exists(r)
  /\ reports[id].status = "NoReport"
  /\ ImportableDecisions(n, decisions, resolution)
  /\ reports' = [reports EXCEPT ![id] =
       [repoId |-> r, reporter |-> reporter, status |-> ReportStates[n],
        resolution |-> resolution]]
  /\ trails' = [trails EXCEPT ![id] =
       [i \in 1..n |-> [action |-> ReportActions[i], status |-> decisions[i]]]]
  /\ nextReportId' = NextIdAfter(id)
  /\ UNCHANGED <<committee, statuses, statusTrails, importedStatuses>>

StoreImportedStatusTrail(r, trail) ==
  /\ Exists(r)
  /\ r \in importedStatuses
  /\ trail # <<>> /\ statusTrails[r] = <<>>
  /\ \A i \in DOMAIN trail :
       trail[i].reportId # 0 => reports[trail[i].reportId].repoId = r
  /\ trail[Len(trail)].status = statuses[r]
  /\ statusTrails' = [statusTrails EXCEPT ![r] = trail]
  /\ UNCHANGED <<committee, statuses, importedStatuses, reports, trails, nextReportId>>
=============================================================================

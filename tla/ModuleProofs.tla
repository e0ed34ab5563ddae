----------------------------- MODULE ModuleProofs -----------------------------
(***************************************************************************)
(* What two of the modules of the suite keep.  ModerationModule: a report  *)
(* and its trail tell the same story, and the status of a repository is    *)
(* the last decision of its own trail.  EconomicModule: what is sponsored  *)
(* is received or still held, to the last unit, through sums of amounts    *)
(* over finite sets of accounts and repositories and the books that the    *)
(* steps of sponsor and the calls of its payees keep.  SuiteProofs, which  *)
(* has the types of the suite, concludes.                                  *)
(***************************************************************************)
EXTENDS Settlement, TLAPS

-----------------------------------------------------------------------------
(* The audit trails of ModerationModule                                    *)

\* A trail with one entry more.
LEMMA EntryAppended ==
  ASSUME NEW S, NEW q \in Seq(S), NEW x \in S
  PROVE  /\ Len(q) \in Nat
         /\ Len(Append(q, x)) = Len(q) + 1
         /\ Append(q, x)[Len(q) + 1] = x
         /\ \A j \in 1..Len(q) : Append(q, x)[j] = q[j]
  OBVIOUS

\* The positions of a trail and of the trail with one entry more.
LEMMA EntryPositions ==
  \A n \in Nat : /\ n + 1 \in 1..(n + 1) /\ n + 1 # 0
                /\ \A i \in 1..(n + 1) : i # n + 1 => i \in 1..n
  OBVIOUS

\* The entries that an import gives make a trail of their number.
LEMMA EntriesAreTrail ==
  ASSUME NEW S, NEW n \in Nat, NEW f \in [1..n -> S]
  PROVE  f \in Seq(S) /\ Len(f) = n
<1>1. f \in Seq(S)
  OBVIOUS
<1> QED
  BY <1>1

\* What is stored of a report, and what of one that was never submitted.
LEMMA ReportFacts ==
  ASSUME NEW report \in Report
  PROVE  /\ report.resolution \in Statuses
         /\ report.status # "NoReport" => report.repoId \in RepoIds
         /\ report.status = "NoReport" => report.repoId = NoRepo
<1>1. CASE report = NoReport
  BY <1>1, Zenon DEF NoReport, Statuses
<1>2. CASE report # NoReport
  BY <1>2, Zenon DEF Report, ReportStatuses
<1> QED
  BY <1>1, <1>2, Zenon

\* A report and its trail tell the same story.
ReportExact(report, trail) ==
  /\ Len(trail) <= 4
  /\ report.status = IF Len(trail) = 0 THEN "NoReport" ELSE ReportStates[Len(trail)]
  /\ Len(trail) # 0 => trail[Len(trail)].status = report.resolution
  /\ \A i \in 1..Len(trail) : trail[i].action = ReportActions[i]
  /\ Len(trail) > 2 => trail[3].status = trail[2].status

ReportsInv ==
  \A id \in ReportIds : /\ ReportExact(reports[id], trails[id])
                        /\ Len(trails[id]) # 0 => id < nextReportId

\* Before activation a status trail is only imported, and only for a repository
\* whose status was: importing a status can not contradict one.
StatusInv ==
  /\ StatusMatchesTrail
  /\ stage # ActiveStage =>
       \A r \in RepoIds : statusTrails[r] # <<>> => r \in importedStatuses

\* Every report has the trail of its status when each one has.
LEMMA ReportsExact == ReportTrailMatchesStatus <=> ReportsInv
<1>1. Len(ReportActions) = 4
  BY Zenon DEF ReportActions
<1> QED
  BY <1>1, Zenon DEF ReportTrailMatchesStatus, ReportsInv, ReportExact

\* The four states of a report are told apart by their number.
LEMMA ReportStateNumbers ==
  ASSUME NEW report, NEW trail \in Seq(TrailEntry), ReportExact(report, trail)
  PROVE  /\ report.status = "NoReport" => Len(trail) = 0
         /\ report.status = "Open" => Len(trail) = 1
         /\ report.status = "Resolved" => Len(trail) = 2
         /\ report.status = "Appealed" => Len(trail) = 3
<1>1. Len(trail) \in {0, 1, 2, 3, 4}
  <2>1. Len(trail) \in Nat /\ Len(trail) <= 4
    BY DEF ReportExact
  <2>2. \A n \in Nat : n <= 4 => n \in {0, 1, 2, 3, 4}
    OBVIOUS
  <2> QED
    BY <2>1, <2>2, Zenon
<1>2. /\ ReportStates[1] = "Open" /\ ReportStates[2] = "Resolved"
      /\ ReportStates[3] = "Appealed" /\ ReportStates[4] = "AppealResolved"
  BY Zenon DEF ReportStates
<1> QED
  BY <1>1, <1>2, Zenon DEF ReportExact

\* A report that moves to its next state, with the entry for it.
LEMMA ReportGrows ==
  ASSUME NEW report, NEW trail \in Seq(TrailEntry), ReportExact(report, trail),
         Len(trail) < 4, NEW next, NEW entry \in TrailEntry,
         next.status = ReportStates[Len(trail) + 1], entry.status = next.resolution,
         entry.action = ReportActions[Len(trail) + 1],
         Len(trail) = 2 => entry.status = trail[2].status
  PROVE  ReportExact(next, Append(trail, entry))
<1> DEFINE longer == Append(trail, entry)
<1>1. /\ Len(trail) \in Nat /\ Len(longer) = Len(trail) + 1 /\ longer[Len(trail) + 1] = entry
      /\ \A j \in 1..Len(trail) : longer[j] = trail[j]
  BY EntryAppended
<1> HIDE DEF longer
<1>2. ASSUME NEW i \in 1..Len(longer) PROVE longer[i].action = ReportActions[i]
  <2>1. CASE i = Len(trail) + 1
    BY <1>1, <2>1, Zenon
  <2>2. CASE i # Len(trail) + 1
    BY <1>1, <2>2 DEF ReportExact
  <2> QED
    BY <2>1, <2>2, Zenon
<1>3. ASSUME Len(longer) > 2 PROVE longer[3].status = longer[2].status
  <2>1. CASE Len(trail) = 2
    BY <1>1, <2>1
  <2>2. CASE Len(trail) # 2
    <3>1. Len(trail) > 2 /\ 2 \in 1..Len(trail) /\ 3 \in 1..Len(trail)
      <4>1. \A n \in Nat : n + 1 > 2 /\ n # 2 => n > 2 /\ 2 \in 1..n /\ 3 \in 1..n
        OBVIOUS
      <4> QED
        BY <1>1, <1>3, <2>2, <4>1, Zenon
    <3>2. trail[3].status = trail[2].status
      BY <3>1, Zenon DEF ReportExact
    <3> QED
      BY <1>1, <3>1, <3>2, Zenon
  <2> QED
    BY <2>1, <2>2, Zenon
<1>4. ReportExact(next, longer)
  BY <1>1, <1>2, <1>3 DEF ReportExact
<1> QED
  BY <1>4, Zenon DEF longer

\* A step that touches one report.
LEMMA ReportsOfOne ==
  ASSUME ModerationTypeOK, ReportsInv, NEW id \in ReportIds,
         ReportExact(reports'[id], trails'[id]), id < nextReportId', nextReportId' \in Nat,
         nextReportId <= nextReportId',
         \A i \in ReportIds \ {id} : reports'[i] = reports[i] /\ trails'[i] = trails[i]
  PROVE  ReportsInv'
<1>1. ASSUME NEW i \in ReportIds, i # id
      PROVE  /\ ReportExact(reports'[i], trails'[i])
             /\ Len(trails'[i]) # 0 => i < nextReportId'
  BY <1>1 DEF ReportsInv, ModerationTypeOK, ReportIds
<1> QED
  BY <1>1, Zenon DEF ReportsInv

\* No decision names a report that is not stored.
LEMMA StoredReports ==
  ASSUME ModerationTypeOK, StatusInv, NEW r \in RepoIds, NEW i \in 1..Len(statusTrails[r])
  PROVE  /\ statusTrails[r][i].reportId \in ReportIds \cup {0}
         /\ statusTrails[r][i].reportId # 0 =>
              reports[statusTrails[r][i].reportId].repoId = r
<1>1. statusTrails[r][i] \in StatusTrailEntry
  BY DEF ModerationTypeOK
<1> QED
  BY <1>1, Zenon DEF StatusTrailEntry, StatusInv, StatusMatchesTrail

\* Statuses and their trails stand, and no stored report changes its repository.
LEMMA StatusesStand ==
  ASSUME ModerationTypeOK, StatusInv, UNCHANGED <<statuses, statusTrails, importedStatuses>>,
         \A id \in ReportIds : reports[id].repoId # NoRepo =>
                                 reports'[id].repoId = reports[id].repoId,
         stage = ActiveStage => stage' = ActiveStage
  PROVE  StatusInv'
<1>1. ASSUME NEW r \in RepoIds, NEW i \in 1..Len(statusTrails[r]),
             statusTrails[r][i].reportId # 0
      PROVE  reports'[statusTrails[r][i].reportId].repoId = r
  BY <1>1, StoredReports, NoRepoAssumption, Zenon
<1> QED
  BY <1>1 DEF StatusInv, StatusMatchesTrail

\* A decision and its entry.
LEMMA DecideKeepsStatus ==
  ASSUME ModerationTypeOK, StatusInv, NEW r \in RepoIds, NEW status \in Statuses,
         NEW id \in ReportIds \cup {0}, Decide(r, status, id), id # 0 => reports[id].repoId = r,
         \A i \in ReportIds : reports'[i].repoId = reports[i].repoId,
         UNCHANGED importedStatuses, stage' = ActiveStage
  PROVE  StatusInv'
<1> DEFINE entry == [status |-> status, reportId |-> id]
           trail == statusTrails[r]
<1>1. entry \in StatusTrailEntry /\ entry.status = status /\ entry.reportId = id
  BY Zenon DEF StatusTrailEntry
<1>2. /\ statuses' = [statuses EXCEPT ![r] = status]
      /\ statusTrails' = [statusTrails EXCEPT ![r] = Append(trail, entry)]
  BY Zenon DEF Decide
<1> HIDE DEF entry
<1>3. /\ trail \in Seq(StatusTrailEntry) /\ statuses'[r] = status
      /\ statusTrails'[r] = Append(trail, entry)
      /\ \A q \in RepoIds \ {r} : statuses'[q] = statuses[q] /\ statusTrails'[q] = statusTrails[q]
  BY <1>2, Zenon DEF ModerationTypeOK
<1>4. \A q \in RepoIds : \A i \in 1..Len(statusTrails[q]) :
        statusTrails[q][i].reportId # 0 => reports'[statusTrails[q][i].reportId].repoId = q
  BY StoredReports, Zenon
<1> HIDE DEF trail
<1>5. /\ Len(trail) \in Nat /\ Len(statusTrails'[r]) = Len(trail) + 1
      /\ statusTrails'[r][Len(trail) + 1] = entry
      /\ \A j \in 1..Len(trail) : statusTrails'[r][j] = trail[j]
  BY <1>1, <1>3, EntryAppended
<1>6. /\ statusTrails'[r] # <<>>
      /\ statusTrails'[r][Len(statusTrails'[r])].status = statuses'[r]
  BY <1>1, <1>3, <1>5
<1>7. ASSUME NEW i \in 1..Len(statusTrails'[r]), statusTrails'[r][i].reportId # 0
      PROVE  reports'[statusTrails'[r][i].reportId].repoId = r
  <2>1. CASE i = Len(trail) + 1
    BY <1>1, <1>5, <1>7, <2>1, Zenon
  <2>2. CASE i # Len(trail) + 1
    <3>0. Len(trail) \in Nat /\ i \in 1..(Len(trail) + 1)
      BY <1>5, Zenon
    <3>1. i \in 1..Len(trail)
      BY <2>2, <3>0, EntryPositions, Zenon
    <3>2. statusTrails'[r][i] = trail[i]
      BY <1>5, <3>1, Zenon
    <3>3. trail[i].reportId # 0 => reports'[trail[i].reportId].repoId = r
      BY <1>4, <3>1, Zenon DEF trail
    <3> QED
      BY <1>7, <3>2, <3>3, Zenon
  <2> QED
    BY <2>1, <2>2, Zenon
<1>8. ASSUME NEW q \in RepoIds
      PROVE  /\ statusTrails'[q] # <<>> =>
                  statusTrails'[q][Len(statusTrails'[q])].status = statuses'[q]
             /\ statusTrails'[q] = <<>> => statuses'[q] = "Active" \/ q \in importedStatuses'
             /\ \A i \in 1..Len(statusTrails'[q]) :
                  statusTrails'[q][i].reportId # 0 =>
                    reports'[statusTrails'[q][i].reportId].repoId = q
  <2>1. CASE q = r
    BY <1>6, <1>7, <2>1, Zenon
  <2>2. CASE q # r
    <3>1. statuses'[q] = statuses[q] /\ statusTrails'[q] = statusTrails[q]
      BY <1>3, <2>2, Zenon
    <3>2. /\ statusTrails[q] # <<>> => statusTrails[q][Len(statusTrails[q])].status = statuses[q]
          /\ statusTrails[q] = <<>> => statuses[q] = "Active" \/ q \in importedStatuses
      BY Zenon DEF StatusInv, StatusMatchesTrail
    <3> QED
      BY <1>4, <3>1, <3>2, Zenon
  <2> QED
    BY <2>1, <2>2, Zenon
<1>9. StatusMatchesTrail'
  BY <1>8, Zenon DEF StatusMatchesTrail
<1> QED
  BY <1>9, Zenon DEF StatusInv

\* setRepositoryStatus.
LEMMA SetStatusKeepsTrails ==
  ASSUME ModerationTypeOK, StatusInv, ReportsInv, NEW caller, NEW r \in RepoIds,
         NEW s \in Statuses, SetRepositoryStatus(caller, r, s), stage' = ActiveStage
  PROVE  StatusInv' /\ ReportsInv'
<1>1. Decide(r, s, 0) /\ UNCHANGED <<importedStatuses, reports, trails, nextReportId>>
  BY Zenon DEF SetRepositoryStatus
<1>2. StatusInv'
  BY <1>1, DecideKeepsStatus, Zenon
<1> QED
  BY <1>1, <1>2, Zenon DEF ReportsInv

\* submitReport: the number it takes was never used.
LEMMA SubmitKeepsTrails ==
  ASSUME ModerationTypeOK, StatusInv, ReportsInv, NEW caller \in Accounts, NEW r \in RepoIds,
         SubmitReport(caller, r), stage' = ActiveStage
  PROVE  StatusInv' /\ ReportsInv'
<1> DEFINE id == nextReportId
           report == [repoId |-> r, reporter |-> caller, status |-> "Open", resolution |-> "Active"]
           entry == [action |-> "Submitted", status |-> "Active"]
<1>1. /\ id \in ReportIds /\ reports' = [reports EXCEPT ![id] = report]
      /\ trails' = [trails EXCEPT ![id] = Append(trails[id], entry)]
      /\ nextReportId' = id + 1
      /\ UNCHANGED <<statuses, statusTrails, importedStatuses>>
  BY Zenon DEF SubmitReport
<1>2. entry \in TrailEntry /\ entry.action = "Submitted" /\ entry.status = "Active"
  BY Zenon DEF TrailEntry, TrailActions, Statuses
<1>3. report.status = "Open" /\ report.resolution = "Active"
  BY Zenon
<1> HIDE DEF report, entry
<1>4. /\ id \in Nat /\ trails[id] \in Seq(TrailEntry) /\ Len(trails[id]) \in Nat
      /\ ReportExact(reports[id], trails[id])
      /\ reports'[id] = report /\ trails'[id] = Append(trails[id], entry)
      /\ \A i \in ReportIds \ {id} : reports'[i] = reports[i] /\ trails'[i] = trails[i]
  BY <1>1 DEF ModerationTypeOK, ReportsInv
<1>5. Len(trails[id]) = 0
  BY <1>1, <1>4 DEF ReportsInv
<1>6. ReportStates[1] = "Open" /\ ReportActions[1] = "Submitted"
  BY Zenon DEF ReportStates, ReportActions
<1>7. ReportExact(report, Append(trails[id], entry))
  <2>1. Len(trails[id]) + 1 = 1 /\ Len(trails[id]) < 4 /\ Len(trails[id]) # 2
    BY <1>5
  <2> QED
    BY <1>2, <1>3, <1>4, <1>6, <2>1, ReportGrows, Zenon
<1>8. ReportsInv'
  <2>1. id < nextReportId' /\ nextReportId' \in Nat /\ nextReportId <= nextReportId'
    BY <1>1, <1>4
  <2> HIDE DEF id
  <2> QED
    BY <1>1, <1>4, <1>7, <2>1, ReportsOfOne, Zenon
<1>9. reports[id].repoId = NoRepo
  <2>1. reports[id] \in Report /\ reports[id].status = "NoReport"
    BY <1>1, <1>4, <1>5, Zenon DEF ModerationTypeOK, ReportExact
  <2> QED
    BY <2>1 DEF Report, NoReport, ReportStatuses
<1>10. StatusInv'
  BY <1>1, <1>4, <1>9, StatusesStand, Zenon
<1> QED
  BY <1>8, <1>10, Zenon

\* resolveReport and resolveAppeal.
LEMMA DecisionKeepsTrails ==
  ASSUME ModerationTypeOK, StatusInv, ReportsInv, NEW caller, NEW id \in ReportIds,
         NEW s \in Statuses, ResolveReport(caller, id, s) \/ ResolveAppeal(caller, id, s),
         stage' = ActiveStage
  PROVE  StatusInv' /\ ReportsInv'
<1>1. PICK from \in {"Open", "Appealed"}, to \in {"Resolved", "AppealResolved"} :
        /\ DecideReport(caller, id, from, to, s)
        /\ from = "Open" <=> to = "Resolved"
  BY Zenon DEF ResolveReport, ResolveAppeal
<1> DEFINE r == reports[id].repoId
           report == WithStatus(reports[id], to, s)
           entry == [action |-> to, status |-> s]
<1>2. /\ reports[id].status = from /\ Decide(r, s, id)
      /\ reports' = [reports EXCEPT ![id] = report]
      /\ trails' = [trails EXCEPT ![id] = Append(trails[id], entry)]
      /\ UNCHANGED <<importedStatuses, nextReportId>>
  BY <1>1, Zenon DEF DecideReport
<1>3. r \in RepoIds
  <2>1. reports[id] \in Report /\ reports[id].status # "NoReport"
    BY <1>2, Zenon DEF ModerationTypeOK
  <2> QED
    BY <2>1, ReportFacts, Zenon
<1>4. report.status = to /\ report.resolution = s /\ report.repoId = r
  BY Zenon DEF WithStatus
<1>5. entry \in TrailEntry /\ entry.action = to /\ entry.status = s
  BY Zenon DEF TrailEntry, TrailActions
<1> HIDE DEF report, entry
<1>6. /\ trails[id] \in Seq(TrailEntry) /\ ReportExact(reports[id], trails[id])
      /\ reports'[id] = report /\ trails'[id] = Append(trails[id], entry)
      /\ \A i \in ReportIds \ {id} : reports'[i] = reports[i] /\ trails'[i] = trails[i]
  BY <1>2, Zenon DEF ModerationTypeOK, ReportsInv
<1>7. Len(trails[id]) = IF from = "Open" THEN 1 ELSE 3
  BY <1>2, <1>6, ReportStateNumbers
<1>8. /\ ReportStates[2] = "Resolved" /\ ReportActions[2] = "Resolved"
      /\ ReportStates[4] = "AppealResolved" /\ ReportActions[4] = "AppealResolved"
  BY Zenon DEF ReportStates, ReportActions
<1>9. ReportExact(report, Append(trails[id], entry))
  <2>1. Len(trails[id]) < 4 /\ Len(trails[id]) # 2
    BY <1>7
  <2>2. Len(trails[id]) + 1 = IF from = "Open" THEN 2 ELSE 4
    BY <1>7
  <2>3. /\ report.status = ReportStates[Len(trails[id]) + 1]
        /\ entry.action = ReportActions[Len(trails[id]) + 1]
        /\ entry.status = report.resolution
    BY <1>1, <1>4, <1>5, <1>8, <2>2, ZenonT(30)
  <2> QED
    BY <1>5, <1>6, <2>1, <2>3, ReportGrows, Zenon
<1>10. ReportsInv'
  <2>1. Len(trails[id]) # 0
    BY <1>7
  <2>2. id < nextReportId /\ nextReportId \in Nat
    BY <2>1, Zenon DEF ReportsInv, ModerationTypeOK
  <2> QED
    BY <1>2, <1>6, <1>9, <2>2, ReportsOfOne
<1>11. \A i \in ReportIds : reports'[i].repoId = reports[i].repoId
  BY <1>4, <1>6, Zenon
<1>12. StatusInv'
  BY <1>2, <1>3, <1>11, DecideKeepsStatus, Zenon
<1> QED
  BY <1>10, <1>12, Zenon

\* appealReport.
LEMMA AppealKeepsTrails ==
  ASSUME ModerationTypeOK, StatusInv, ReportsInv, NEW caller, NEW id \in ReportIds,
         AppealReport(caller, id), stage' = ActiveStage
  PROVE  StatusInv' /\ ReportsInv'
<1> DEFINE report == WithStatus(reports[id], "Appealed", reports[id].resolution)
           entry == [action |-> "Appealed", status |-> reports[id].resolution]
<1>1. /\ reports[id].status = "Resolved"
      /\ reports' = [reports EXCEPT ![id] = report]
      /\ trails' = [trails EXCEPT ![id] = Append(trails[id], entry)]
      /\ UNCHANGED <<statuses, statusTrails, importedStatuses, nextReportId>>
  BY Zenon DEF AppealReport, Appealable
<1>2. /\ report.status = "Appealed" /\ report.resolution = reports[id].resolution
      /\ report.repoId = reports[id].repoId
  BY Zenon DEF WithStatus
<1>3. /\ entry.action = "Appealed" /\ entry.status = reports[id].resolution
      /\ entry \in TrailEntry
  <2>1. reports[id] \in Report
    BY Zenon DEF ModerationTypeOK
  <2>2. reports[id].resolution \in Statuses
    BY <2>1, ReportFacts, Zenon
  <2> QED
    BY <2>2, Zenon DEF TrailEntry, TrailActions
<1> HIDE DEF report, entry
<1>4. /\ trails[id] \in Seq(TrailEntry) /\ ReportExact(reports[id], trails[id])
      /\ reports'[id] = report /\ trails'[id] = Append(trails[id], entry)
      /\ \A i \in ReportIds \ {id} : reports'[i] = reports[i] /\ trails'[i] = trails[i]
  BY <1>1, Zenon DEF ModerationTypeOK, ReportsInv
<1>5. Len(trails[id]) = 2
  <2>1. /\ trails[id] \in Seq(TrailEntry) /\ ReportExact(reports[id], trails[id])
        /\ reports[id].status = "Resolved"
    BY <1>1, <1>4, Zenon
  <2> QED
    BY <2>1, ReportStateNumbers, Zenon
<1>6. trails[id][2].status = reports[id].resolution
  <2>1. Len(trails[id]) # 0
    BY <1>5
  <2> QED
    BY <1>4, <1>5, <2>1, Zenon DEF ReportExact
<1>7. ReportStates[3] = "Appealed" /\ ReportActions[3] = "Appealed"
  BY ZenonT(30) DEF ReportStates, ReportActions
<1>8. ReportExact(report, Append(trails[id], entry))
  <2>1. Len(trails[id]) + 1 = 3 /\ Len(trails[id]) < 4
    BY <1>5
  <2> QED
    BY <1>2, <1>3, <1>4, <1>6, <1>7, <2>1, ReportGrows, Zenon
<1>9. ReportsInv'
  <2>1. Len(trails[id]) # 0
    BY <1>5
  <2>2. id < nextReportId /\ nextReportId \in Nat
    BY <2>1, Zenon DEF ReportsInv, ModerationTypeOK
  <2> QED
    BY <1>1, <1>4, <1>8, <2>2, ReportsOfOne
<1>10. StatusInv'
  BY <1>1, <1>2, <1>4, StatusesStand, Zenon
<1> QED
  BY <1>9, <1>10, Zenon

\* The import of a status, which happens once per repository and before its trail.
LEMMA ImportStatusKeepsTrails ==
  ASSUME ModerationTypeOK, StatusInv, ReportsInv, NEW r \in RepoIds, NEW s \in Statuses,
         ImportStatus(r, s), stage # ActiveStage
  PROVE  StatusInv' /\ ReportsInv'
<1>1. /\ r \notin importedStatuses /\ importedStatuses' = importedStatuses \cup {r}
      /\ statuses' = [statuses EXCEPT ![r] = s]
      /\ UNCHANGED <<statusTrails, reports, trails, nextReportId>>
  BY Zenon DEF ImportStatus
<1>2. statusTrails[r] = <<>>
  BY <1>1, Zenon DEF StatusInv
<1>3. Len(<<>>) = 0
  BY Zenon
<1>4. \A q \in RepoIds \ {r} : statuses'[q] = statuses[q]
  BY <1>1, Zenon DEF ModerationTypeOK
<1>5. StatusMatchesTrail'
  <2>1. ASSUME NEW q \in RepoIds
        PROVE  /\ statusTrails[q] # <<>> =>
                    statusTrails[q][Len(statusTrails[q])].status = statuses'[q]
               /\ statusTrails[q] = <<>> => statuses'[q] = "Active" \/ q \in importedStatuses'
               /\ \A i \in 1..Len(statusTrails[q]) :
                    statusTrails[q][i].reportId # 0 =>
                      reports[statusTrails[q][i].reportId].repoId = q
    <3>1. \A i \in 1..Len(statusTrails[q]) :
            statusTrails[q][i].reportId # 0 => reports[statusTrails[q][i].reportId].repoId = q
      BY Zenon DEF StatusInv, StatusMatchesTrail
    <3>2. CASE q = r
      BY <1>1, <1>2, <3>1, <3>2, Zenon
    <3>3. CASE q # r
      BY <1>1, <1>4, <3>1, <3>3, Zenon DEF StatusInv, StatusMatchesTrail
    <3> QED
      BY <3>2, <3>3, Zenon
  <2>2. statusTrails' = statusTrails /\ reports' = reports
    BY <1>1, Zenon
  <2> QED
    BY <2>1, <2>2, Zenon DEF StatusMatchesTrail
<1> QED
  BY <1>1, <1>5, Zenon DEF StatusInv, ReportsInv

\* The import of a status trail.
LEMMA ImportTrailKeepsTrails ==
  ASSUME ModerationTypeOK, StatusInv, ReportsInv, NEW r \in RepoIds, NEW n \in 1..MaxTrail,
         NEW trail \in [1..n -> StatusTrailEntry], StoreImportedStatusTrail(r, trail),
         stage' = stage
  PROVE  StatusInv' /\ ReportsInv'
<1>1. /\ r \in importedStatuses /\ trail # <<>>
      /\ \A i \in DOMAIN trail : trail[i].reportId # 0 => reports[trail[i].reportId].repoId = r
      /\ trail[Len(trail)].status = statuses[r]
      /\ statusTrails' = [statusTrails EXCEPT ![r] = trail]
      /\ UNCHANGED <<statuses, importedStatuses, reports, trails, nextReportId>>
  BY Zenon DEF StoreImportedStatusTrail
<1>2. Len(trail) = n /\ DOMAIN trail = 1..n
  BY EntriesAreTrail, ModerationAssumption
<1>3. /\ statusTrails'[r] = trail
      /\ \A q \in RepoIds \ {r} : statusTrails'[q] = statusTrails[q]
  BY <1>1, ZenonT(30) DEF ModerationTypeOK
<1>4. StatusMatchesTrail'
  <2>1. ASSUME NEW q \in RepoIds
        PROVE  /\ statusTrails'[q] # <<>> =>
                    statusTrails'[q][Len(statusTrails'[q])].status = statuses[q]
               /\ statusTrails'[q] = <<>> => statuses[q] = "Active" \/ q \in importedStatuses
               /\ \A i \in 1..Len(statusTrails'[q]) :
                    statusTrails'[q][i].reportId # 0 =>
                      reports[statusTrails'[q][i].reportId].repoId = q
    <3>1. CASE q = r
      BY <1>1, <1>2, <1>3, <3>1, ZenonT(30)
    <3>2. CASE q # r
      <4>1. statusTrails'[q] = statusTrails[q]
        BY <1>3, <3>2, Zenon
      <4>2. /\ statusTrails[q] # <<>> => statusTrails[q][Len(statusTrails[q])].status = statuses[q]
            /\ statusTrails[q] = <<>> => statuses[q] = "Active" \/ q \in importedStatuses
            /\ \A i \in 1..Len(statusTrails[q]) :
                 statusTrails[q][i].reportId # 0 => reports[statusTrails[q][i].reportId].repoId = q
        BY Zenon DEF StatusInv, StatusMatchesTrail
      <4> QED
        BY <4>1, <4>2, Zenon
    <3> QED
      BY <3>1, <3>2, Zenon
  <2> QED
    BY <1>1, <2>1, Zenon DEF StatusMatchesTrail
<1>5. ReportsInv'
  BY <1>1, Zenon DEF ReportsInv
<1> QED
  BY <1>1, <1>3, <1>4, <1>5, Zenon DEF StatusInv

\* The import of a report in any of its four states.
LEMMA ImportReportKeepsTrails ==
  ASSUME ModerationTypeOK, StatusInv, ReportsInv, NEW id \in ReportIds, NEW r \in RepoIds,
         NEW a \in Accounts, NEW n \in 1..4, NEW decisions \in [1..n -> Statuses],
         NEW s \in Statuses, StoreImportedReport(id, r, a, n, decisions, s),
         stage' = stage
  PROVE  StatusInv' /\ ReportsInv'
<1> DEFINE report == [repoId |-> r, reporter |-> a, status |-> ReportStates[n], resolution |-> s]
           trail == [i \in 1..n |-> [action |-> ReportActions[i], status |-> decisions[i]]]
<1>1. /\ reports[id].status = "NoReport" /\ ImportableDecisions(n, decisions, s)
      /\ reports' = [reports EXCEPT ![id] = report] /\ trails' = [trails EXCEPT ![id] = trail]
      /\ nextReportId' = NextIdAfter(id)
      /\ UNCHANGED <<statuses, statusTrails, importedStatuses>>
  BY Zenon DEF StoreImportedReport
<1>2. /\ report.status = ReportStates[n] /\ report.resolution = s
      /\ \A i \in 1..n : trail[i].action = ReportActions[i] /\ trail[i].status = decisions[i]
  BY Zenon
<1>3. Len(trail) = n
  <2>1. \A i \in 1..n : [action |-> ReportActions[i], status |-> decisions[i]] \in TrailEntry
    BY DEF ReportActions, TrailActions, TrailEntry
  <2> QED
    BY <2>1, EntriesAreTrail
<1> HIDE DEF report, trail
<1>4. decisions[n] = s /\ (n > 2 => decisions[3] = decisions[2])
  <2>1. n \in {1, 2, 3, 4}
    OBVIOUS
  <2> QED
    BY <1>1, <2>1 DEF ImportableDecisions
<1>5. ReportExact(report, trail)
  <2>1. n \in Nat /\ n # 0 /\ n <= 4 /\ n \in 1..n
    OBVIOUS
  <2>2. n > 2 => 2 \in 1..n /\ 3 \in 1..n
    OBVIOUS
  <2> QED
    BY <1>2, <1>3, <1>4, <2>1, <2>2, Zenon DEF ReportExact
<1>6. /\ reports'[id] = report /\ trails'[id] = trail
      /\ \A i \in ReportIds \ {id} : reports'[i] = reports[i] /\ trails'[i] = trails[i]
  BY <1>1, Zenon DEF ModerationTypeOK
<1>7. id < nextReportId' /\ nextReportId' \in Nat /\ nextReportId <= nextReportId'
  BY <1>1 DEF NextIdAfter, ModerationTypeOK, ReportIds
<1>8. ReportsInv'
  BY <1>5, <1>6, <1>7, ReportsOfOne, Zenon
<1>9. reports[id].repoId = NoRepo
  <2>1. reports[id] \in Report
    BY Zenon DEF ModerationTypeOK
  <2> QED
    BY <1>1, <2>1, ReportFacts, Zenon
<1>10. StatusInv'
  BY <1>1, <1>6, <1>9, StatusesStand, Zenon
<1> QED
  BY <1>8, <1>10, Zenon

\* No other step touches what the trails are about.
LEMMA TrailsStand ==
  ASSUME ModerationTypeOK, StatusInv, ReportsInv, stage = ActiveStage => stage' = ActiveStage,
         UNCHANGED <<statuses, statusTrails, importedStatuses, reports, trails, nextReportId>>
  PROVE  StatusInv' /\ ReportsInv'
<1>1. StatusInv'
  BY StatusesStand, Zenon
<1> QED
  BY <1>1, Zenon DEF ReportsInv

\* Every step keeps the trails.
LEMMA TrailsKept ==
  ASSUME TypeOK, StatusInv, ReportsInv, [Next]_vars
  PROVE  StatusInv' /\ ReportsInv'
<1>0. ModerationTypeOK
  BY Zenon DEF TypeOK
<1>1. CASE BootstrapImport
  <2>1. stage' = stage
    BY <1>1, Zenon DEF BootstrapImport
  <2>2. CASE ImportModeration
    <3>1. stage # ActiveStage
      BY <2>2 DEF ImportModeration, ModerationStage, ActiveStage
    <3>2. CASE \E r \in RepoIds, s \in Statuses : ImportStatus(r, s)
      BY <1>0, <3>1, <3>2, ImportStatusKeepsTrails, Zenon
    <3>3. CASE \E id \in ReportIds, r \in RepoIds, a \in Accounts, n \in 1..4, s \in Statuses :
                 \E decisions \in [1..n -> Statuses] :
                   StoreImportedReport(id, r, a, n, decisions, s)
      BY <1>0, <2>1, <3>3, ImportReportKeepsTrails, Zenon
    <3>4. CASE \E r \in RepoIds, n \in 1..MaxTrail :
                 \E trail \in [1..n -> StatusTrailEntry] : StoreImportedStatusTrail(r, trail)
      BY <1>0, <2>1, <3>4, ImportTrailKeepsTrails, Zenon
    <3> QED
      BY <2>2, <3>2, <3>3, <3>4, Zenon DEF ImportModeration
  <2>3. CASE ImportCore \/ ImportRecovery \/ ImportEconomic
    <3>1. UNCHANGED moderationVars
      BY <2>3, Zenon DEF ImportCore, ImportRecovery, ImportEconomic
    <3> QED
      BY <1>0, <2>1, <3>1, TrailsStand, Zenon DEF moderationVars
  <2> QED
    BY <1>1, <2>2, <2>3, Zenon DEF BootstrapImport
<1>2. CASE FinalizeModule \/ ClockTick \/ UNCHANGED vars
  <2>1. UNCHANGED moderationVars
    BY <1>2, Zenon DEF FinalizeModule, ClockTick, vars
  <2>2. stage = ActiveStage => stage' = ActiveStage
    BY <1>2 DEF FinalizeModule, ClockTick, vars, suiteVars, ActiveStage
  <2> QED
    BY <1>0, <2>1, <2>2, TrailsStand, Zenon DEF moderationVars
<1>3. CASE ActiveCall
  <2>1. stage' = ActiveStage
    BY <1>3, Zenon DEF ActiveCall, suiteVars
  <2>2. PICK caller \in Accounts :
          \/ CoreCall(caller) \/ RecoveryCall(caller) \/ EconomicCall(caller)
          \/ ModerationCall(caller) \/ AcceptTransfer(caller) \/ ExecuteRecovery(caller)
    BY <1>3, ZenonT(30) DEF ActiveCall
  <2>3. CASE ModerationCall(caller)
    <3>1. CASE \E a \in CommitteeAccounts : SetCommittee(caller, a)
      BY <1>0, <2>1, <3>1, TrailsStand, Zenon DEF SetCommittee
    <3>2. CASE \E r \in RepoIds, s \in Statuses : SetRepositoryStatus(caller, r, s)
      BY <1>0, <2>1, <3>2, SetStatusKeepsTrails, Zenon
    <3>3. CASE \E r \in RepoIds : SubmitReport(caller, r)
      BY <1>0, <2>1, <3>3, SubmitKeepsTrails, Zenon
    <3>4. CASE \E id \in ReportIds, s \in Statuses :
                 ResolveReport(caller, id, s) \/ ResolveAppeal(caller, id, s)
      BY <1>0, <2>1, <3>4, DecisionKeepsTrails, Zenon
    <3>5. CASE \E id \in ReportIds : AppealReport(caller, id)
      BY <1>0, <2>1, <3>5, AppealKeepsTrails, Zenon
    <3> QED
      BY <2>3, <3>1, <3>2, <3>3, <3>4, <3>5 DEF ModerationCall
  <2>4. CASE ~ModerationCall(caller)
    <3>1. UNCHANGED moderationVars
      BY <2>2, <2>4, Zenon
      DEF CoreCall, RecoveryCall, EconomicCall, AcceptTransfer, ExecuteRecovery
    <3> QED
      BY <1>0, <2>1, <3>1, TrailsStand, Zenon DEF moderationVars
  <2> QED
    BY <2>3, <2>4, Zenon
<1> QED
  BY <1>1, <1>2, <1>3, Zenon DEF Next

-----------------------------------------------------------------------------
(* The sponsorships of EconomicModule                                      *)

INSTANCE FiniteSetTheorems

-----------------------------------------------------------------------------
(* Sums                                                                    *)

INSTANCE WellFoundedInduction

\* One step of the sum of f over s, given the sums g over smaller sets.
Part(f, g, s) ==
  IF s = {} THEN 0 ELSE f[CHOOSE x \in s : TRUE] + g[s \ {CHOOSE x \in s : TRUE}]

\* The sums over all sets of elements.
PartialSums(f) == CHOOSE g : g = [s \in SUBSET DOMAIN f |-> Part(f, g, s)]

\* The sum of f is that over all its elements.
LEMMA SumUnfolds == \A f : Sum(f) = PartialSums(f)[DOMAIN f]
BY DEF Sum, MapThenSumSet, MapThenFoldSet, PartialSums, Part

\* A set of natural numbers has a least element.
LEMMA LeastElement ==
  ASSUME NEW T \in SUBSET Nat, T # {}
  PROVE  \E n \in T : \A m \in T : n <= m
<1>1. PICK n \in T : \A m \in T : ~(<<m, n>> \in OpToRel(<, Nat))
  BY NatLessThanWellFounded, WFMin, Zenon
<1>2. \A m \in T : m < n => <<m, n>> \in OpToRel(<, Nat)
  BY Zenon DEF OpToRel
<1>3. \A m \in T : ~(m < n)
  BY <1>1, <1>2, Zenon
<1> QED
  BY <1>3

\* Of any sets of elements of a finite set one is least: with an element less it
\* is none of them.
LEMMA LeastSet ==
  ASSUME NEW S, IsFiniteSet(S), NEW T \in SUBSET (SUBSET S), T # {}
  PROVE  \E s \in T : \A x \in s : s \ {x} \notin T
<1>1. \A s \in SUBSET S : IsFiniteSet(s) /\ Cardinality(s) \in Nat
  BY FS_Subset, FS_CardinalityType, Zenon
<1>2. PICK C : C = {Cardinality(s) : s \in T}
  BY Zenon
<1>3. C \in SUBSET Nat /\ C # {}
  BY <1>1, <1>2, Zenon
<1>4. PICK n \in C : \A m \in C : n <= m
  BY <1>3, LeastElement, Zenon
<1>5. PICK s \in T : n = Cardinality(s)
  BY <1>2, Zenon
<1>6. ASSUME NEW x \in s, s \ {x} \in T PROVE FALSE
  <2>1. IsFiniteSet(s) /\ Cardinality(s) \in Nat
    BY <1>1, Zenon
  <2>2. Cardinality(s \ {x}) = Cardinality(s) - 1
    BY <2>1, FS_RemoveElement, Zenon
  <2>3. Cardinality(s \ {x}) \in C
    BY <1>2, <1>6, Zenon
  <2> QED
    BY <1>4, <1>5, <2>1, <2>2, <2>3
<1> QED
  BY <1>5, <1>6, Zenon

\* Sums over all sets of at most n elements are built from those of fewer.
LEMMA SumsExist ==
  ASSUME NEW f, IsFiniteSet(DOMAIN f)
  PROVE  \E g : g = [s \in SUBSET DOMAIN f |-> Part(f, g, s)]
<1> DEFINE Small(n) == {s \in SUBSET DOMAIN f : Cardinality(s) <= n}
           Defined(n) == \E g : g = [s \in Small(n) |-> Part(f, g, s)]
<1>1. \A s \in SUBSET DOMAIN f : IsFiniteSet(s) /\ Cardinality(s) \in Nat /\ Cardinality(s) <= Cardinality(DOMAIN f)
  BY FS_Subset, FS_CardinalityType, Zenon
<1>2. Defined(0)
  <2>1. \A s \in Small(0) : s = {}
    <3>1. \A s \in Small(0) : Cardinality(s) = 0
      BY <1>1
    <3> QED
      BY <1>1, <3>1, FS_EmptySet, Zenon
  <2>2. PICK g : g = [s \in Small(0) |-> 0]
    BY Zenon
  <2>3. \A s \in Small(0) : Part(f, g, s) = 0
    BY <2>1, Zenon DEF Part
  <2>4. g = [s \in Small(0) |-> Part(f, g, s)]
    BY <2>2, <2>3, Zenon
  <2> QED
    BY <2>4, Zenon
<1>3. ASSUME NEW n \in Nat, Defined(n) PROVE Defined(n + 1)
  <2>1. PICK g : g = [s \in Small(n) |-> Part(f, g, s)]
    BY <1>3, Zenon
  <2>2. PICK h : h = [s \in Small(n + 1) |-> Part(f, g, s)]
    BY Zenon
  <2>3. ASSUME NEW s \in Small(n + 1) PROVE Part(f, g, s) = Part(f, h, s)
    <3>1. CASE s = {}
      BY <3>1, Zenon DEF Part
    <3>2. CASE s # {}
      <4>1. PICK x : x = CHOOSE y \in s : TRUE
        BY Zenon
      <4>2. x \in s
        BY <3>2, <4>1, Zenon
      <4>3. Cardinality(s \ {x}) = Cardinality(s) - 1
        BY <1>1, <4>2, FS_RemoveElement, Zenon
      <4>4. Cardinality(s) \in Nat /\ Cardinality(s) <= n + 1
        BY <1>1, Zenon
      <4>5. Cardinality(s \ {x}) <= n /\ Cardinality(s \ {x}) <= n + 1
        BY <4>3, <4>4
      <4>6. s \ {x} \in Small(n) /\ s \ {x} \in Small(n + 1)
        BY <4>5, Zenon
      <4>7. g[s \ {x}] = h[s \ {x}]
        BY <2>1, <2>2, <4>6, Zenon
      <4> QED
        BY <3>2, <4>1, <4>7, Zenon DEF Part
    <3> QED
      BY <3>1, <3>2, Zenon
  <2>4. h = [s \in Small(n + 1) |-> Part(f, h, s)]
    BY <2>2, <2>3, Zenon
  <2> QED
    BY <2>4, Zenon
<1>4. PICK c : c = Cardinality(DOMAIN f)
  BY Zenon
<1>5. c \in Nat
  BY <1>4, FS_CardinalityType, Zenon
<1>6. Defined(c)
  <2> SUFFICES ASSUME ~Defined(c) PROVE FALSE
    BY Zenon
  <2> HIDE DEF Defined
  <2>1. PICK T : T = {n \in Nat : ~Defined(n)}
    BY Zenon
  <2>2. T \in SUBSET Nat /\ T # {}
    BY <1>5, <2>1, Zenon
  <2>3. PICK n \in T : \A m \in T : n <= m
    BY <2>2, LeastElement, Zenon
  <2>4. n \in Nat /\ ~Defined(n)
    BY <2>1, Zenon
  <2>5. n # 0
    BY <1>2, <2>4, Zenon
  <2>6. PICK k : k = n - 1
    BY Zenon
  <2>7. k \in Nat /\ k + 1 = n /\ ~(n <= k)
    BY <2>4, <2>5, <2>6
  <2>8. Defined(k)
    BY <2>1, <2>3, <2>7, Zenon
  <2> QED
    BY <1>3, <2>4, <2>7, <2>8, Zenon
<1>7. Small(c) = SUBSET DOMAIN f
  BY <1>1, <1>4, Zenon
<1> QED
  BY <1>6, <1>7, Zenon

\* The sum of a set is that of one element and the others.
LEMMA SumSteps ==
  ASSUME NEW f, IsFiniteSet(DOMAIN f), NEW s \in SUBSET DOMAIN f
  PROVE  PartialSums(f)[s] = Part(f, PartialSums(f), s)
<1>1. PartialSums(f) = [t \in SUBSET DOMAIN f |-> Part(f, PartialSums(f), t)]
  BY SumsExist, Zenon DEF PartialSums
<1>2. PICK g : g = PartialSums(f)
  BY Zenon
<1>3. g = [t \in SUBSET DOMAIN f |-> Part(f, g, t)]
  BY <1>1, <1>2, Zenon
<1> QED
  BY <1>2, <1>3, Zenon

\* A property of the empty set that an element more keeps holds of every finite
\* set: Good are the sets of elements of S that have it.
LEMMA FiniteInduction ==
  ASSUME NEW S, IsFiniteSet(S), NEW Good,
         \A s \in SUBSET S : s = {} \/ s \ {CHOOSE x \in s : TRUE} \in Good => s \in Good
  PROVE  \A s \in SUBSET S : s \in Good
<1> SUFFICES ASSUME NEW r \in SUBSET S, r \notin Good PROVE FALSE
  BY Zenon
<1>1. PICK T : T = {s \in SUBSET S : s \notin Good}
  BY Zenon
<1>2. T \in SUBSET (SUBSET S) /\ T # {}
  BY <1>1, Zenon
<1>3. PICK s \in T : \A x \in s : s \ {x} \notin T
  BY <1>2, LeastSet, Zenon
<1>4. s \in SUBSET S /\ s \notin Good
  BY <1>1, Zenon
<1>5. s # {}
  BY <1>4, Zenon
<1>6. PICK x : x = CHOOSE y \in s : TRUE
  BY Zenon
<1>7. x \in s
  BY <1>5, <1>6, Zenon
<1>8. s \ {x} \in SUBSET S
  BY <1>4, Zenon
<1>9. s \ {x} \in Good
  BY <1>1, <1>3, <1>7, <1>8, Zenon
<1> QED
  BY <1>4, <1>6, <1>9, Zenon

\* The sum of integers is one.
LEMMA SumInteger ==
  ASSUME NEW S, IsFiniteSet(S), NEW f \in [S -> Int]
  PROVE  /\ \A s \in SUBSET S : PartialSums(f)[s] \in Int
         /\ Sum(f) \in Int
<1>1. PICK g : g = PartialSums(f)
  BY Zenon
<1>2. DOMAIN f = S
  BY Zenon
<1>3. \A s \in SUBSET S : g[s] = Part(f, g, s)
  BY <1>1, <1>2, SumSteps, Zenon
<1>4. PICK Good : Good = {s \in SUBSET S : g[s] \in Int}
  BY Zenon
<1>5. ASSUME NEW s \in SUBSET S, s = {} \/ s \ {CHOOSE x \in s : TRUE} \in Good PROVE s \in Good
  <2>1. CASE s = {}
    <3>1. g[s] = 0
      BY <1>3, <2>1, Zenon DEF Part
    <3> QED
      BY <1>4, <3>1
  <2>2. CASE s # {}
    <3>1. PICK x : x = CHOOSE y \in s : TRUE
      BY Zenon
    <3>2. x \in S
      BY <2>2, <3>1, Zenon
    <3>3. PICK t : t = s \ {x}
      BY Zenon
    <3>4. g[s] = f[x] + g[t]
      BY <1>3, <2>2, <3>1, <3>3, Zenon DEF Part
    <3>5. t \in Good
      BY <1>5, <2>2, <3>1, <3>3, Zenon
    <3>6. f[x] \in Int /\ g[t] \in Int
      BY <1>4, <3>2, <3>5, Zenon
    <3>7. g[s] \in Int
      BY <3>4, <3>6
    <3> QED
      BY <1>4, <3>7, Zenon
  <2> QED
    BY <2>1, <2>2, Zenon
<1>6. \A s \in SUBSET S : s \in Good
  BY <1>5, FiniteInduction, Zenon
<1>7. \A s \in SUBSET S : g[s] \in Int
  BY <1>4, <1>6, Zenon
<1> QED
  BY <1>1, <1>2, <1>7, SumUnfolds, Zenon

\* One value of f grows by d.
Raised(e, f, a, d) == e = [f EXCEPT ![a] = @ + d]

\* One value that grows lets the sum grow as much.
LEMMA SumGrows ==
  ASSUME NEW S, IsFiniteSet(S), NEW f \in [S -> Int], NEW a \in S, NEW d \in Int,
         NEW e, Raised(e, f, a, d)
  PROVE  Sum(e) = Sum(f) + d
<1>1. e = [f EXCEPT ![a] = @ + d]
  BY Zenon DEF Raised
<1>2. DOMAIN f = S /\ DOMAIN e = S
  BY <1>1, Zenon
<1>3. e[a] = f[a] + d /\ f[a] \in Int /\ e[a] \in Int
  BY <1>1
<1>4. \A x \in S \ {a} : e[x] = f[x] /\ f[x] \in Int
  BY <1>1, Zenon
<1>5. PICK g : g = PartialSums(f)
  BY Zenon
<1>6. PICK h : h = PartialSums(e)
  BY Zenon
<1>7. \A s \in SUBSET S : g[s] = Part(f, g, s) /\ h[s] = Part(e, h, s)
  BY <1>2, <1>5, <1>6, SumSteps, Zenon
<1>8. \A s \in SUBSET S : g[s] \in Int
  BY <1>5, SumInteger, Zenon
<1>9. PICK Good : Good = {s \in SUBSET S : h[s] = g[s] + (IF a \in s THEN d ELSE 0)}
  BY Zenon
<1>10. ASSUME NEW s \in SUBSET S, s = {} \/ s \ {CHOOSE x \in s : TRUE} \in Good PROVE s \in Good
  <2>1. CASE s = {}
    <3>1. g[s] = 0 /\ h[s] = 0 /\ a \notin s
      BY <1>7, <2>1, Zenon DEF Part
    <3>2. h[s] = g[s] + (IF a \in s THEN d ELSE 0)
      BY <3>1
    <3> QED
      BY <1>9, <3>2, Zenon
  <2>2. CASE s # {}
    <3>1. PICK x : x = CHOOSE y \in s : TRUE
      BY Zenon
    <3>2. x \in s /\ x \in S
      BY <2>2, <3>1, Zenon
    <3>3. PICK t : t = s \ {x}
      BY Zenon
    <3>4. g[s] = f[x] + g[t] /\ h[s] = e[x] + h[t]
      BY <1>7, <2>2, <3>1, <3>3, Zenon DEF Part
    <3>5. t \in Good /\ t \in SUBSET S
      BY <1>10, <2>2, <3>1, <3>3, Zenon
    <3>6. h[t] = g[t] + (IF a \in t THEN d ELSE 0) /\ g[t] \in Int
      BY <1>8, <1>9, <3>5, Zenon
    <3>7. h[s] = g[s] + (IF a \in s THEN d ELSE 0)
      <4>1. CASE x = a
        <5>1. a \notin t /\ a \in s
          BY <3>2, <3>3, <4>1, Zenon
        <5> QED
          BY <1>3, <3>4, <3>6, <4>1, <5>1
      <4>2. CASE x # a
        <5>1. a \in t <=> a \in s
          BY <3>3, <4>2, Zenon
        <5>2. e[x] = f[x] /\ f[x] \in Int
          BY <1>4, <3>2, <4>2, Zenon
        <5> QED
          BY <3>4, <3>6, <5>1, <5>2
      <4> QED
        BY <4>1, <4>2, Zenon
    <3> QED
      BY <1>9, <3>7, Zenon
  <2> QED
    BY <2>1, <2>2, Zenon
<1>11. S \in Good
  BY <1>10, FiniteInduction, Zenon
<1>12. h[S] = g[S] + d
  BY <1>9, <1>11, Zenon
<1> QED
  BY <1>1, <1>2, <1>5, <1>6, <1>12, SumUnfolds, Zenon

\* Nothing adds up to nothing.
LEMMA SumOfZeros ==
  ASSUME NEW S, IsFiniteSet(S)
  PROVE  Sum([x \in S |-> 0]) = 0
<1>1. PICK f : f = [x \in S |-> 0]
  BY Zenon
<1>2. DOMAIN f = S
  BY <1>1, Zenon
<1>3. PICK g : g = PartialSums(f)
  BY Zenon
<1>4. \A s \in SUBSET S : g[s] = Part(f, g, s)
  BY <1>2, <1>3, SumSteps, Zenon
<1>5. PICK Good : Good = {s \in SUBSET S : g[s] = 0}
  BY Zenon
<1>6. ASSUME NEW s \in SUBSET S, s = {} \/ s \ {CHOOSE x \in s : TRUE} \in Good PROVE s \in Good
  <2>1. CASE s = {}
    BY <1>4, <1>5, <2>1, Zenon DEF Part
  <2>2. CASE s # {}
    <3>1. PICK x : x = CHOOSE y \in s : TRUE
      BY Zenon
    <3>2. x \in S
      BY <2>2, <3>1, Zenon
    <3>3. PICK t : t = s \ {x}
      BY Zenon
    <3>4. g[s] = f[x] + g[t]
      BY <1>4, <2>2, <3>1, <3>3, Zenon DEF Part
    <3>5. t \in Good
      BY <1>6, <2>2, <3>1, <3>3, Zenon
    <3>6. f[x] = 0 /\ g[t] = 0
      BY <1>1, <1>5, <3>2, <3>5, Zenon
    <3>7. g[s] = 0
      BY <3>4, <3>6
    <3> QED
      BY <1>5, <3>7, Zenon
  <2> QED
    BY <2>1, <2>2, Zenon
<1>7. S \in Good
  BY <1>6, FiniteInduction, Zenon
<1>8. g[S] = 0
  BY <1>5, <1>7, Zenon
<1> QED
  BY <1>1, <1>2, <1>3, <1>8, SumUnfolds, Zenon

-----------------------------------------------------------------------------
(* Sponsorships                                                            *)

Settlements ==
  [repo: RepoIds, owner: Accounts, distributable: Int, distributed: Int, next: Int,
   called: BOOLEAN, last: BOOLEAN]

\* What is still to be paid of the running call.
Owing == Settling /\ ~settlement.last

\* The contract holds what it still owes of the running call, and everything
\* that was sponsored has been received or is held.
PaymentInd ==
  /\ received \in [Accounts -> Int] /\ totals \in [RepoIds -> Int]
  /\ balance \in Int /\ treasury \in Accounts /\ platformFeeBps \in Nat
  /\ Settling => settlement \in Settlements /\ settlement.next >= 1
  /\ Owing => balance = settlement.distributable - settlement.distributed
  /\ ~Owing => balance = 0
  /\ Sum(received) + balance = Sum(totals)

\* Accounts and repositories can be added up.
LEMMA FinitelyMany == IsFiniteSet(Accounts) /\ IsFiniteSet(RepoIds)
<1>1. IsFiniteSet(Accounts) /\ IsFiniteSet(Names)
  BY SettlementAssumption, Zenon
<1>2. IsFiniteSet(Accounts \X Names)
  BY <1>1, FS_Product, Zenon
<1> QED
  BY <1>1, <1>2, Zenon DEF RepoIds

\* A share is rounded to an amount.
LEMMA ShareInteger ==
  ASSUME NEW v \in Int, NEW b \in Nat
  PROVE  (v * b) \div FullShare \in Int
<1>1. FullShare \in Nat \ {0}
  BY EconomicAssumption, Zenon
<1>2. v * b \in Int
  OBVIOUS
<1>3. ASSUME NEW w \in Int PROVE w \div FullShare \in Int
  BY <1>1
<1> QED
  BY <1>2, <1>3, Zenon

\* A payment moves what the contract holds to the payee.
LEMMA PayMoves ==
  ASSUME PaymentInd, NEW a \in Accounts, NEW amount \in Int, Pay(a, amount)
  PROVE  /\ received' \in [Accounts -> Int] /\ balance' \in Int
         /\ balance' = balance - amount
         /\ Sum(received') + balance' = Sum(totals)
<1>1. balance \in Int /\ received \in [Accounts -> Int] /\ Sum(received) + balance = Sum(totals)
  BY Zenon DEF PaymentInd
<1>2. balance' = balance - amount /\ received' = [received EXCEPT ![a] = @ + amount]
  BY Zenon DEF Pay
<1>3. Sum(received) \in Int
  BY <1>1, FinitelyMany, SumInteger, Zenon
<1>4. Sum(received') = Sum(received) + amount
  <2>1. Raised(received', received, a, amount)
    BY <1>2, Zenon DEF Raised
  <2> QED
    BY <1>1, <2>1, FinitelyMany, SumGrows, Zenon
<1>5. received' \in [Accounts -> Int]
  BY <1>1, <1>2
<1>6. balance' \in Int /\ Sum(received') + balance' = Sum(totals)
  BY <1>1, <1>2, <1>3, <1>4
<1> QED
  BY <1>2, <1>5, <1>6, Zenon

\* The parts of a running call.
LEMMA SettlementParts ==
  ASSUME PaymentInd, Settling
  PROVE  /\ settlement \in Settlements
         /\ settlement.repo \in RepoIds /\ settlement.owner \in Accounts
         /\ settlement.distributable \in Int /\ settlement.distributed \in Int
         /\ settlement.next \in Int
         /\ settlement.called \in BOOLEAN /\ settlement.last \in BOOLEAN
<1>1. settlement \in Settlements
  BY Zenon DEF PaymentInd
<1> QED
  BY <1>1, Zenon DEF Settlements

\* A call of sponsor that runs is none that does not.
LEMMA SettlementRuns ==
  ASSUME NEW s \in Settlements
  PROVE  s # NoSettlement
<1>1. s.repo \in RepoIds
  BY DEF Settlements
<1>2. NoSettlement.repo = NoRepo
  BY DEF NoSettlement
<1> QED
  BY <1>1, <1>2, NoRepoAssumption, Zenon

\* The call of sponsor: the fee goes to the treasury, the rest is held.
LEMMA SponsorPays ==
  ASSUME TypeOK, PaymentInd, NEW r \in RepoIds, NEW value \in Values, Sponsor(r, value)
  PROVE  PaymentInd'
<1>1. PICK fee : fee = (value * platformFeeBps) \div FullShare
  BY Zenon
<1>2. value \in Nat /\ value \in Int
  BY SettlementAssumption
<1>3. /\ balance \in Int /\ received \in [Accounts -> Int] /\ totals \in [RepoIds -> Int]
      /\ Sum(received) + balance = Sum(totals) /\ treasury \in Accounts /\ platformFeeBps \in Nat
  BY Zenon DEF PaymentInd
<1>4. fee \in Int
  BY <1>1, <1>2, <1>3, ShareInteger, Zenon
<1>5. /\ totals' = [totals EXCEPT ![r] = @ + value]
      /\ balance' = balance + value - fee
      /\ received' = [received EXCEPT ![treasury] = @ + fee]
      /\ treasury' = treasury /\ platformFeeBps' = platformFeeBps
      /\ ~Settling /\ Exists(r)
  BY <1>1, Zenon DEF Sponsor
<1>6. settlement' = [repo |-> r, owner |-> owner[r], distributable |-> value - fee,
                     distributed |-> 0, next |-> 1, called |-> fee # 0, last |-> FALSE]
  BY <1>1, Zenon DEF Sponsor
<1>7. balance = 0
  BY <1>5, Zenon DEF PaymentInd, Owing
<1>8. owner[r] \in Accounts
  BY <1>5, Zenon DEF TypeOK, CoreTypeOK, Exists
<1>9. value - fee \in Int /\ 0 \in Int /\ 1 \in Int
  BY <1>2, <1>4
<1>10. settlement' \in Settlements
  <2>1. PICK d : d = value - fee
    BY Zenon
  <2>2. PICK c \in BOOLEAN : c = (fee # 0)
    BY Zenon
  <2>3. d \in Int
    BY <1>9, <2>1, Zenon
  <2>4. settlement' = [repo |-> r, owner |-> owner[r], distributable |-> d,
                       distributed |-> 0, next |-> 1, called |-> c, last |-> FALSE]
    BY <1>6, <2>1, <2>2, Zenon
  <2> QED
    BY <1>8, <1>9, <2>3, <2>4, Zenon DEF Settlements
<1>11. settlement'.distributable = value - fee /\ settlement'.distributed = 0 /\ settlement'.last = FALSE
      /\ settlement'.next = 1 /\ 1 >= 1
  BY <1>6
<1>12. settlement' # NoSettlement
  BY <1>10, SettlementRuns, Zenon
<1>13. Settling' /\ Owing'
  BY <1>11, <1>12, Zenon DEF Settling, Owing
<1>14. balance' = settlement'.distributable - settlement'.distributed /\ balance' \in Int
  BY <1>2, <1>4, <1>5, <1>7, <1>11
<1>15. Sum(received) \in Int /\ Sum(totals) \in Int
  BY <1>3, FinitelyMany, SumInteger, Zenon
<1>16. Sum(received') = Sum(received) + fee
  <2>1. Raised(received', received, treasury, fee)
    BY <1>5, Zenon DEF Raised
  <2> QED
    BY <1>3, <1>4, <2>1, FinitelyMany, SumGrows, Zenon
<1>17. Sum(totals') = Sum(totals) + value
  <2>1. Raised(totals', totals, r, value)
    BY <1>5, Zenon DEF Raised
  <2> QED
    BY <1>2, <1>3, <2>1, FinitelyMany, SumGrows, Zenon
<1>18. Sum(received') + balance' = Sum(totals')
  BY <1>2, <1>3, <1>4, <1>5, <1>15, <1>16, <1>17
<1>19. received' \in [Accounts -> Int] /\ totals' \in [RepoIds -> Int]
  BY <1>2, <1>3, <1>4, <1>5
<1> QED
  BY <1>3, <1>5, <1>10, <1>11, <1>13, <1>14, <1>18, <1>19, Zenon DEF PaymentInd

\* A round of the loop: the share of a recipient, as the splits are stored now.
LEMMA PaySharePays ==
  ASSUME TypeOK, PaymentInd, PayShare
  PROVE  PaymentInd'
<1>1. Settling /\ ~settlement.last /\ Owing
  BY Zenon DEF PayShare, Owing
<1>2. PICK r : r = settlement.repo
  BY Zenon
<1>3. /\ settlement \in Settlements /\ r \in RepoIds
      /\ settlement.distributable \in Int /\ settlement.distributed \in Int
      /\ settlement.next \in Int /\ settlement.last = FALSE
  BY <1>1, <1>2, SettlementParts, Zenon
<1>4. splits[r] \in Seq(Split)
  BY <1>3, Zenon DEF TypeOK, EconomicTypeOK
<1>5. PICK split : split = splits[r][settlement.next]
  BY Zenon
<1>6. PICK amount : amount = (settlement.distributable * split.bps) \div FullShare
  BY Zenon
<1>7. /\ Pay(split.recipient, amount)
      /\ settlement' = [settlement EXCEPT !.distributed = @ + amount, !.next = @ + 1,
                                          !.called = amount # 0]
      /\ totals' = totals /\ treasury' = treasury /\ platformFeeBps' = platformFeeBps
  BY <1>2, <1>5, <1>6, Zenon DEF PayShare
<1>8. settlement.next <= Len(splits[r])
  BY <1>2, Zenon DEF PayShare
<1>9. split.recipient \in Accounts /\ split.bps \in Nat
  <2>1. settlement.next >= 1
    BY <1>1, Zenon DEF PaymentInd
  <2>2. settlement.next \in 1..Len(splits[r])
    BY <1>3, <1>4, <1>8, <2>1
  <2>3. split \in Split
    BY <1>4, <1>5, <2>2
  <2> QED
    BY <2>3, Zenon DEF Split
<1>10. amount \in Int
  BY <1>3, <1>6, <1>9, ShareInteger, Zenon
<1>11. /\ received' \in [Accounts -> Int] /\ balance' \in Int
       /\ balance' = balance - amount
       /\ Sum(received') + balance' = Sum(totals)
  BY <1>7, <1>9, <1>10, PayMoves, Zenon
<1>12. PICK d : d = settlement.distributed + amount
  BY Zenon
<1>13. PICK n : n = settlement.next + 1
  BY Zenon
<1>14. PICK c \in BOOLEAN : c = (amount # 0)
  BY Zenon
<1>15. d \in Int /\ n \in Int /\ n >= 1
  <2>1. settlement.next >= 1
    BY <1>1, Zenon DEF PaymentInd
  <2> QED
    BY <1>3, <1>10, <1>12, <1>13, <2>1
<1>16. settlement' = [settlement EXCEPT !.distributed = d, !.next = n, !.called = c]
  BY <1>7, <1>12, <1>13, <1>14, Zenon
<1>17. settlement' \in Settlements
  BY <1>3, <1>15, <1>16, Zenon DEF Settlements
<1>18. /\ settlement'.distributable = settlement.distributable /\ settlement'.distributed = d
       /\ settlement'.next = n /\ settlement'.last = settlement.last
  BY <1>3, <1>16, Zenon DEF Settlements
<1>19. Settling' /\ Owing'
  BY <1>1, <1>17, <1>18, SettlementRuns, Zenon DEF Settling, Owing
<1>20. balance' = settlement'.distributable - settlement'.distributed
  <2>1. balance = settlement.distributable - settlement.distributed
    BY <1>1, Zenon DEF PaymentInd
  <2>2. balance' = settlement.distributable - d
    BY <1>3, <1>10, <1>11, <1>12, <2>1
  <2> QED
    BY <1>18, <2>2, Zenon
<1>21. totals' \in [RepoIds -> Int] /\ treasury' \in Accounts /\ platformFeeBps' \in Nat
  BY <1>7, Zenon DEF PaymentInd
<1>22. settlement'.next >= 1
  BY <1>15, <1>18, Zenon
<1> QED
  BY <1>7, <1>11, <1>17, <1>19, <1>20, <1>21, <1>22, Zenon DEF PaymentInd

\* The owner's payment leaves nothing.
LEMMA PayOwnerPays ==
  ASSUME PaymentInd, PayOwner
  PROVE  PaymentInd'
<1>1. Settling /\ ~settlement.last /\ Owing
  BY Zenon DEF PayOwner, Owing
<1>2. /\ settlement \in Settlements /\ settlement.owner \in Accounts
      /\ settlement.distributable \in Int /\ settlement.distributed \in Int
  BY <1>1, SettlementParts, Zenon
<1>3. PICK amount : amount = settlement.distributable - settlement.distributed
  BY Zenon
<1>4. /\ Pay(settlement.owner, amount)
      /\ settlement' = [settlement EXCEPT !.called = TRUE, !.last = TRUE]
      /\ totals' = totals /\ treasury' = treasury /\ platformFeeBps' = platformFeeBps
  BY <1>3, Zenon DEF PayOwner
<1>5. amount \in Int
  BY <1>2, <1>3
<1>6. /\ received' \in [Accounts -> Int] /\ balance' \in Int
      /\ balance' = balance - amount
      /\ Sum(received') + balance' = Sum(totals)
  BY <1>2, <1>4, <1>5, PayMoves, Zenon
<1>7. balance' = 0
  <2>1. balance = amount
    BY <1>1, <1>3, Zenon DEF PaymentInd
  <2> QED
    BY <1>5, <1>6, <2>1
<1>8. settlement' \in Settlements
  BY <1>2, <1>4, Zenon DEF Settlements
<1>9. settlement'.last = TRUE /\ settlement'.next = settlement.next
  BY <1>2, <1>4, Zenon DEF Settlements
<1>10. ~Owing'
  BY <1>9, Zenon DEF Owing
<1>11. /\ totals' \in [RepoIds -> Int] /\ treasury' \in Accounts /\ platformFeeBps' \in Nat
       /\ settlement'.next >= 1
  BY <1>1, <1>4, <1>9, Zenon DEF PaymentInd
<1> QED
  BY <1>4, <1>6, <1>7, <1>8, <1>10, <1>11, Zenon DEF PaymentInd

\* The end of the call.
LEMMA SettlePays ==
  ASSUME PaymentInd, Settle
  PROVE  PaymentInd'
<1>1. settlement.last /\ ~Owing
  BY Zenon DEF Settle, Owing
<1>2. ~Settling'
  BY Zenon DEF Settle, Settling
<1>3. ~Owing'
  BY <1>2, Zenon DEF Owing
<1>4. /\ totals' = totals /\ treasury' = treasury /\ platformFeeBps' = platformFeeBps
      /\ balance' = balance /\ received' = received
  BY Zenon DEF Settle
<1> QED
  BY <1>1, <1>2, <1>3, <1>4, Zenon DEF PaymentInd

\* Nothing of the payments changes.
LEMMA PaymentsUnchanged ==
  ASSUME PaymentInd, UNCHANGED settlementVars
  PROVE  PaymentInd'
<1>1. /\ totals' = totals /\ treasury' = treasury /\ platformFeeBps' = platformFeeBps
      /\ balance' = balance /\ received' = received /\ settlement' = settlement
  BY Zenon DEF settlementVars
<1>2. (Settling' <=> Settling) /\ (Owing' <=> Owing)
  BY <1>1, Zenon DEF Settling, Owing
<1> QED
  BY <1>1, <1>2, Zenon DEF PaymentInd

\* A new fee and treasury, between two sponsorships or while one is paid.
LEMMA SetFeeConfigPays ==
  ASSUME PaymentInd, NEW caller \in Accounts, NEW a \in Treasuries, NEW fee \in Fees,
         SetFeeConfig(caller, a, fee)
  PROVE  PaymentInd'
<1>1. /\ totals' = totals /\ treasury' = a /\ platformFeeBps' = fee /\ a # NoAccount
      /\ balance' = balance /\ received' = received /\ settlement' = settlement
  BY Zenon DEF SetFeeConfig
<1>2. a \in Accounts /\ fee \in Nat
  BY <1>1, SettlementAssumption, Zenon
<1>3. (Settling' <=> Settling) /\ (Owing' <=> Owing)
  BY <1>1, Zenon DEF Settling, Owing
<1> QED
  BY <1>1, <1>2, <1>3, Zenon DEF PaymentInd

\* A sponsorship and its payments leave the rest of the suite alone: what happens
\* to the suite is what happens without them.
LEMMA SettlementStep ==
  ASSUME [SettlementNext]_paymentVars
  PROVE  [Next]_vars
<1>1. CASE Between
  BY <1>1, Zenon DEF Between, SetFeeConfig
<1>2. CASE CalledBack
  BY <1>2, Zenon DEF CalledBack, SetFeeConfig, Next
<1>3. CASE PayShare \/ PayOwner \/ Settle
  BY <1>3, Zenon DEF PayShare, PayOwner, Settle
<1>4. CASE \E r \in RepoIds, value \in Values : Sponsor(r, value)
  BY <1>4, Zenon DEF Sponsor
<1>5. CASE UNCHANGED paymentVars
  BY <1>5, Zenon DEF paymentVars
<1> QED
  BY <1>1, <1>2, <1>3, <1>4, <1>5, Zenon DEF SettlementNext

\* Every step keeps the books.
LEMMA PaymentStep ==
  ASSUME TypeOK, PaymentInd, [SettlementNext]_paymentVars
  PROVE  PaymentInd'
<1>1. CASE Between
  BY <1>1, PaymentsUnchanged, SetFeeConfigPays, Zenon DEF Between
<1>2. CASE CalledBack
  BY <1>2, PaymentsUnchanged, SetFeeConfigPays, Zenon DEF CalledBack
<1>3. CASE PayShare
  BY <1>3, PaySharePays, Zenon
<1>4. CASE PayOwner
  BY <1>4, PayOwnerPays, Zenon
<1>5. CASE Settle
  BY <1>5, SettlePays, Zenon
<1>6. CASE \E r \in RepoIds, value \in Values : Sponsor(r, value)
  BY <1>6, SponsorPays, Zenon
<1>7. CASE UNCHANGED paymentVars
  BY <1>7, PaymentsUnchanged, Zenon DEF paymentVars
<1> QED
  BY <1>1, <1>2, <1>3, <1>4, <1>5, <1>6, <1>7, Zenon DEF SettlementNext

\* Nothing is sponsored at first.
LEMMA PaymentInit ==
  ASSUME SettlementInit
  PROVE  PaymentInd
<1>1. /\ totals = [r \in RepoIds |-> 0] /\ received = [a \in Accounts |-> 0] /\ balance = 0
      /\ treasury = FirstTreasury /\ platformFeeBps = MaxFee /\ settlement = NoSettlement
  BY Zenon DEF SettlementInit
<1>2. ~Settling /\ ~Owing
  BY <1>1, Zenon DEF Settling, Owing
<1>3. Sum(totals) = 0 /\ Sum(received) = 0
  BY <1>1, FinitelyMany, SumOfZeros, Zenon
<1>4. 0 \in Int /\ 0 + 0 = 0
  OBVIOUS
<1>5. received \in [Accounts -> Int] /\ totals \in [RepoIds -> Int] /\ balance \in Int
  BY <1>1, <1>4, Zenon
<1>6. Sum(received) + balance = Sum(totals)
  BY <1>1, <1>3, <1>4, Zenon
<1>7. treasury \in Accounts /\ platformFeeBps \in Nat
  BY <1>1, SettlementAssumption, Zenon
<1> QED
  BY <1>1, <1>2, <1>5, <1>6, <1>7, Zenon DEF PaymentInd
===============================================================================

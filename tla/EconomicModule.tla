---------------------------- MODULE EconomicModule ----------------------------
(***************************************************************************)
(* The EconomicModule contract's stored revenue splits.                    *)
(***************************************************************************)
EXTENDS RepositoryCore

CONSTANTS
  SplitRecipients, \* accounts offered to setRevenueSplits
  SplitShares,     \* shares offered, in units of which FullShare is the whole
  FullShare,       \* 10_000 basis points
  MaxSplits        \* MAX_SPLIT_RECIPIENTS

ASSUME EconomicAssumption ==
  /\ SplitRecipients \subseteq Accounts \cup {NoAccount}
  /\ SplitShares \subseteq Nat
  /\ FullShare \in Nat \ {0}
  /\ MaxSplits \in Nat

Split == [recipient: Accounts, bps: Nat]

VARIABLES
  splits,         \* _splits
  importedSplits  \* _importedSplits

economicVars == <<splits, importedSplits>>

EconomicTypeOK ==
  /\ splits \in [RepoIds -> Seq(Split)]
  /\ importedSplits \in SUBSET RepoIds

EconomicInit ==
  /\ splits = [r \in RepoIds |-> <<>>]
  /\ importedSplits = {}

\* The sum of the shares of the first n recipients.
ShareSum(list) ==
  LET sum[n \in 0..Len(list)] == IF n = 0 THEN 0 ELSE sum[n - 1] + list[n].bps
  IN  sum[Len(list)]

\* What the loop over the recipients requires: none is the owner, none comes
\* twice, no share is zero and together they are at most the whole.
ValidSplits(list, a) ==
  /\ Len(list) <= MaxSplits
  /\ \A i \in DOMAIN list : list[i].recipient \notin {NoAccount, a} /\ list[i].bps # 0
  /\ \A i, j \in DOMAIN list : list[i].recipient = list[j].recipient => i = j
  /\ ShareSum(list) <= FullShare

\* Argument lists, one longer than the limit included.
SplitLists ==
  UNION {[1..n -> [recipient: SplitRecipients, bps: SplitShares]] : n \in 0..(MaxSplits + 1)}

SetRevenueSplits(caller, r, list) ==
  /\ Exists(r)
  /\ caller = owner[r]
  /\ ValidSplits(list, owner[r])
  /\ splits' = [splits EXCEPT ![r] = list]
  /\ UNCHANGED importedSplits

\* Called by RepositoryCore when ownership moves; it goes on to clear the
\* guardians of RecoveryModule, which Suite joins.
ClearRevenueSplits(r) ==
  /\ splits' = [splits EXCEPT ![r] = <<>>]
  /\ UNCHANGED importedSplits

ImportSplits(r, list) ==
  /\ Exists(r)
  /\ r \notin importedSplits
  /\ ValidSplits(list, owner[r])
  /\ importedSplits' = importedSplits \cup {r}
  /\ splits' = [splits EXCEPT ![r] = @ \o list]
=============================================================================

----------------------------- MODULE MCSettlement -----------------------------
(* Moderation and sponsorships of a repository, in one instance of the suite. *)
EXTENDS MCSuite, Settlement

Priced ==
  \/ Settling \/ Sum(totals) > 0 \/ <<treasury, platformFeeBps>> # <<FirstTreasury, MaxFee>>
  \/ \E r \in Repos : splits[r] # <<>>

\* Fees, splits and sponsorships of a repository with no refs, no collaborators
\* and no judgements.
PricedApart ==
  /\ WrittenApart
  /\ Priced => ~Written /\ ~Reported /\ ~Trailed /\ committee = FirstCommittee
=============================================================================

------------------------------- MODULE MCSuite -------------------------------
(* Instances of Suite.  Each run asks several questions of the same actions;  *)
(* its constraint keeps the states of two questions from multiplying: a state *)
(* outside of it is still checked, and only its successors are left out.      *)
EXTENDS Suite

Repos == {r \in RepoIds : Exists(r)}

Guarded ==
  \E r \in Repos : isGuardian[r] # {} \/ proposalNonce[r] # 0 \/ splits[r] # <<>>

\* Either several repositories whose locators the creators contend for, or one
\* repository with guardians, recovery and splits and a longer time.
OneConcern ==
  /\ Cardinality(Repos) > 1 =>
       /\ ~Guarded /\ now <= 3
       /\ \A r \in Repos :
            {owner[r], pending[r].newOwner} \subseteq Creators \cup {NoAccount}
  /\ Guarded \/ now > 3 => Repos \subseteq {<<Admin, CHOOSE n \in Names : TRUE>>}

Reported == \E id \in ReportIds : trails[id] # <<>>

Trailed == \E r \in RepoIds : statusTrails[r] # <<>>

Written == \E r \in Repos : refNames[r] # <<>> \/ collaborators[r] # <<>>

Furnished == Written \/ Guarded \/ \E r \in Repos : pending[r] # NoTransfer

\* Reports and trails about a bare repository, everything else without them.
ReportsApart == Reported \/ Trailed => ~Furnished /\ Cardinality(Repos) = 1

Judged ==
  \/ Reported \/ Trailed \/ committee # FirstCommittee
  \/ \E r \in Repos : pending[r] # NoTransfer \/ owner[r] # r[1]

\* Refs and collaborators of a repository nobody judges or transfers, or the
\* judgements on one without them.
WrittenApart == Written => ~Judged
=============================================================================

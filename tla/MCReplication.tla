---------------------------- MODULE MCReplication ----------------------------
EXTENDS Replication, TLC

CONSTANTS p1, p2, c1

\* Two pushes of the same pack, one to a repository whose archived refs name it.
Shared == (p1 :> c1) @@ (p2 :> c1)
OneArchived == (p1 :> {c1}) @@ (p2 :> {})
=============================================================================

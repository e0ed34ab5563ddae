--------------------------- MODULE MCRemoteHelper ---------------------------
EXTENDS RemoteHelper, TLC

CONSTANTS c1, c2, c3, h1, h2, main, topic

\* c1 <- c2 and c1 <- c3: two lines of work on one commit.
ForkParents == (c1 :> {}) @@ (c2 :> {c1}) @@ (c3 :> {c1})

\* Each has a line of work of its own.
TwoLines == (h1 :> {c1, c2}) @@ (h2 :> {c1, c3})

\* No definition tells the ref names apart.
RefSymmetry == Permutations({main, topic})
=============================================================================

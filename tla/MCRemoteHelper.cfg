CONSTANTS
  c1 = c1  c2 = c2  c3 = c3
  h1 = h1  h2 = h2  main = main  topic = topic
  Commits = {c1, c2, c3}
  Parents <- ForkParents
  Work <- TwoLines
  Refs = {main, topic}
  Helpers = {h1, h2}
  NoRef = NoRef
  NoCommit = NoCommit
  MaxTx = 3
SPECIFICATION HelperSpec
CHECK_DEADLOCK FALSE
SYMMETRY RefSymmetry
INVARIANTS
  RepositoryComplete
  CloneComplete
PROPERTIES
  FastForwardOnly
  ReplacedListSelfContained

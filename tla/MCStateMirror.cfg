\* Answers in any order, checkouts and lost requests; a page that is up to
\* date has nothing to do.
SPECIFICATION FairSpec
CONSTANTS
  main = main
  topic = topic
  c1 = c1
  c2 = c2
  c3 = c3
  Branch = {main, topic}
  Call = {c1, c2}
  None = None
  MaxChanges = 2
  MaxCheckouts = 1
  MaxFailures = 1
INVARIANTS
  TypeOK
  CommentsOfShownBranch
PROPERTIES
  NeverGoesBack
  MirrorsServer
CHECK_DEADLOCK FALSE

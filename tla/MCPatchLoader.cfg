\* Edits and changes of the scope at any moment of a load, and loads that
\* fail; a page that is up to date has nothing to do.
SPECIFICATION FairSpec
CONSTANTS
  pathA = pathA
  pathB = pathB
  old = old
  new = new
  main = main
  topic = topic
  Path = {pathA, pathB}
  Content = {old}
  Twice = {old}
  Scope = {main, topic}
  None = None
  MaxEdits = 1
  MaxMoves = 1
  MaxFailures = 1
INVARIANTS
  TypeOK
  ItemsOfLastLoad
  QuietPageIsCurrent
PROPERTY PageSettles
CHECK_DEADLOCK FALSE

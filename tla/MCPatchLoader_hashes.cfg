\* A digest of an aborted load ends after the next load began.
SPECIFICATION Spec
CONSTANTS
  pathA = pathA
  pathB = pathB
  old = old
  new = new
  main = main
  topic = topic
  Path = {pathA, pathB}
  Content = {old}
  Twice = {}
  Scope = {main, topic}
  None = None
  MaxEdits = 0
  MaxMoves = 1
  MaxFailures = 0
INVARIANT HashesOfLoadedDiff
CHECK_DEADLOCK FALSE

\* A reader, while a file may be renamed several times before a commit, at three paths;
\* and every sequence of up to four renames among four paths, for every set of requested
\* paths.  The trace ends once it has answered.
SPECIFICATION MCSpec
CONSTANTS
  a = a
  b = b
  c = c
  d = d
  f = f
  g = g
  c1 = c1
  r1 = r1
  Path = {a, b, c, d}
  File = {f, g}
  Comment = {c1}
  Reader = {r1}
  BaseTree <- OneFile
  None = None
  PathReuse = FALSE
  MaxEdits = 4
  MaxFailures = 1
  MaxEdges = 4
  NoAnswer = NoAnswer
INVARIANT OneBucketEach
PROPERTIES
  FollowsEachPath
  ThreadsFollowFiles
CHECK_DEADLOCK FALSE

\* A state file that exists may fail to be read.
SPECIFICATION MCSpec
CONSTANTS
  r1 = r1
  r2 = r2
  r3 = r3
  main = main
  topic = topic
  seed = seed
  pathA = pathA
  hashX = hashX
  note = note
  edit = edit
  Request = {r1, r2}
  SeedComment = {seed}
  Path = {pathA}
  Hash = {hashX}
  Message = {note, edit}
  None = None
  Empty = Empty
  Blank = Blank
  LegacyNote = LegacyNote
  NoFile = NoFile
  OtherVersion = OtherVersion
  Torn = Torn
  Branch = {main, topic}
  OpInput <- ThreadOp
  SeedFile <- SeedFiles
  ReadFaults = TRUE
  MaxCrashes = 0
  MaxCheckouts = 0
INVARIANT AckedCommentsSurvive

\* Two requests, failing writes, a crash and a checkout.
SPECIFICATION MCFairSpec
CONSTANTS
  r1 = r1
  r2 = r2
  r3 = r3
  main = main
  topic = topic
  seed = seed
  pathA = pathA
  hashX = hashX
  note = note
  edit = edit
  Request = {r1, r2}
  SeedComment = {seed}
  Path = {pathA}
  Hash = {hashX}
  Message = {note, edit}
  None = None
  Empty = Empty
  Blank = Blank
  LegacyNote = LegacyNote
  NoFile = NoFile
  OtherVersion = OtherVersion
  Torn = Torn
  Branch = {main, topic}
  OpInput <- EveryOp
  SeedFile <- SeedFiles
  ReadFaults = FALSE
  MaxCrashes = 1
  MaxCheckouts = 1
INVARIANTS
  TypeOK
  AckedCommentsSurvive
  DeletedStaysDeleted
  EffectsOnOwnBranch
PROPERTIES
  ImplementsAtomicStore
  EveryRequestSettles

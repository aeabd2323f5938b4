\* Two views, files, options and workers; up to MaxEvents shows, changes of options,
\* terminations and failures, of which changes and failures count twice.
SPECIFICATION Spec
CONSTANTS
  v1 = v1
  v2 = v2
  f1 = f1
  f2 = f2
  o1 = o1
  o2 = o2
  w1 = w1
  w2 = w2
  View = {v1, v2}
  File = {f1, f2}
  Options = {o1, o2}
  DefaultOptions = o1
  Worker = {w1, w2}
  TaskId = {1, 2, 3, 4, 5}
  None = None
  MaxShows = 3
  MaxChanges = 2
  MaxTerminates = 1
  MaxFailures = 1
  MaxEvents = 6
SYMMETRY Symmetry
CONSTRAINT FewEvents
INVARIANTS
  TypeOK
  Bookkeeping
  NoWorkerLost
  CacheIsCurrent
  SetupsReachable
  RestedPoolServed
CHECK_DEADLOCK FALSE

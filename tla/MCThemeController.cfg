\* Two themes, beginning in system mode; four resolutions with a clear of the resolver or
\* a load that fails, or three with both.
SPECIFICATION FairSpec
CONSTANTS
  a = a
  b = b
  Theme = {a, b}
  None = None
  MaxClears = 1
  InitialSelection <- StartInSystemMode
  PreloadInactive = TRUE
  MaxResolutions = 4
  MaxFailures = 1
  MaxEvents = 5
CONSTRAINT FewEvents
INVARIANTS
  TypeOK
  CacheIsFresh
  ThemeMatchesSelection
  LastChoiceWins
  SavedIsApplied
  SchemeFollowsSystem
PROPERTY ResolutionSettles

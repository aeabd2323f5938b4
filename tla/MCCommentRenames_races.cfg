\* Two reads at once, one of which may fail, against edits, commits and another
\* writer.
SPECIFICATION Spec
CONSTANTS
  a = a
  b = b
  c = c
  f = f
  g = g
  c1 = c1
  c2 = c2
  r1 = r1
  r2 = r2
  Path = {a, b, c}
  File = {f, g}
  Comment = {c1, c2}
  Reader = {r1, r2}
  BaseTree <- OneFile
  None = None
  PathReuse = FALSE
  MaxEdits = 3
  MaxFailures = 1
INVARIANTS
  TypeOK
  KeyedByOwnFile
PROPERTIES
  MarksSurvive
CONSTRAINT FewEvents
SYMMETRY Symmetry

\* A path may be given to a second file.
SPECIFICATION Spec
CONSTANTS
  a = a
  b = b
  c = c
  f = f
  g = g
  c1 = c1
  c2 = c2
  r1 = r1
  r2 = r2
  Path = {a, b, c}
  File = {f, g}
  Comment = {c1}
  Reader = {r1}
  BaseTree <- OneFile
  None = None
  PathReuse = TRUE
  MaxEdits = 3
  MaxFailures = 0
PROPERTY DeletedStayPut

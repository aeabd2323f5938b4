\* Two pages whose connections may break at any time.
\* Nothing has to happen once everyone is up to date.
SPECIFICATION FairSpec
CONSTANTS
  p1 = p1
  p2 = p2
  c1 = c1
  c2 = c2
  c3 = c3
  Page = {p1, p2}
  Conn = {c1, c2}
  None = None
  MaxEdits = 2
  MaxFailures = 1
INVARIANTS
  TypeOK
  RefCountExact
PROPERTIES
  PollerStops
  PagesCatchUp
CHECK_DEADLOCK FALSE

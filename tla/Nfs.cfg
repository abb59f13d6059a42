SPECIFICATION Spec
CONSTANTS
  m1 = m1
  m2 = m2
  a = a
  b = b
  fs = fs
  host = host
  Mountpoint = {m1, m2}
  Operator = {o1, o2}
  Path = {a, b}
  Volume = {fs, host}
  Local = host
  Below <- MCBelow
  Base <- MCBase
  InodeIn <- MCInodeIn
  Within <- MCWithin
  MaxCommands = 3
  MaxFaults = 1
INVARIANTS IdsApart
PROPERTIES ExportsKept StoreServed

SPECIFICATION MountSpec
CONSTANTS
  Mounter = {p1, p2}
  Dir = {m1, m2}
  Odd = {m2}
  Kinds = {"dingo-client", "dingo-mds", "dingo-cache", "dingo-mds-client"}
INVARIANTS SuccessIsOwn
PROPERTIES MountReturns

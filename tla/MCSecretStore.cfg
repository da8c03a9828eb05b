\* Operations of two processes on one pipeline and one saved destination.
CONSTANTS
  a = a
  d = d
  v = v
  p1 = p1
  p2 = p2
  None = None
  Blank = Blank
  Absent = Absent
  Empty = Empty
  Procs <- MCProcs
  Names = {a}
  Dests = {d}
  Values = {v}
  Field <- MCField
  Optional = {"rest_api"}
  Requests <- MCRequests
  MaxKeys = 3
  MaxOps = 4
SYMMETRY Symmetry
SPECIFICATION Spec
INVARIANTS TypeOK KeysAgree NothingGarbled
PROPERTIES SettledStays BlankKeeps
CHECK_DEADLOCK FALSE

SPECIFICATION FairSpec
CONSTANTS
  rest = rest
  slack = slack
  bin = bin
  b1 = b1
  b2 = b2
  p1 = p1
  p2 = p2
  p3 = p3
  NoFile = NoFile
  NoRecord = NoRecord
  Free = Free
  Procs = {p1, p2, p3}
  Names = {rest, slack}
  Paths = {bin}
  Builds = {b1, b2}
  Commands <- SharedPath
CHECK_DEADLOCK FALSE
INVARIANT MismatchHasCause
PROPERTIES EntriesAreNotClobbered CommandsEnd

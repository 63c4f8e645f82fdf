SPECIFICATION SessionSpec
CONSTANTS
  Sessions = {s1, s2}
  Names = {n1}
  None = None
INVARIANT NoLeakedPlayer
CHECK_DEADLOCK FALSE

SPECIFICATION Spec
CONSTANTS
  Sessions = {s1, s2, s3}
  Names = {p1, p3}
  None = None
  Players = {p1, p2, p3, p4}
  Premium = {p1, p2}
  Exempt = {}
  MaxPlayers = 1
  MaxTime = 3
  FarSlot = 2
  ShortRetry = 1
  LongRetry = 3
  Slack = 1
  MaxSize = 4
  SizeMod = 16
  Scenes = {"queue", "sessions"}
SYMMETRY Symmetry
INVARIANT LinksAgree
INVARIANT RefsCounted
INVARIANT PlacesAreKept
CHECK_DEADLOCK FALSE

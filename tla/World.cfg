SPECIFICATION Spec
CONSTANTS
  Players = {p1}
  Monsters = {m1, m2}
  Chasers = {p1}
  Places = {a, b}
  Nowhere = Nowhere
  MaxDue = 1
  MaxRound = 2
  None = None
  Gear = {"boots", "worn boots", "cloak", "ring", "dull ring", "helmet", "amulet"}
  Gives <- GivesOf
  Mounts = {1, 2}
  MountSpeed <- SpeedOf
  Bare = Bare
  MaxDelayed = 2
  MaxLeaks = 1
  Scenes = {"creatures", "speed", "look", "ride", "skill"}
SYMMETRY Symmetry
INVARIANT RefsCounted
INVARIANT PointersAgree
INVARIANT DeadAreChecked
INVARIANT BonusesAgree
INVARIANT AppearanceAgrees
CHECK_DEADLOCK FALSE

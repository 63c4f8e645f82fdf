SPECIFICATION Spec
CONSTANTS
  Bags = {b1, b2}
  Loose = {l1, l2, l3, l4}
  Room = 2
  MaxStack = 2
  Tile = Tile
  Player = Player
  NoItem = NoItem
  Scenes = {"hands", "stacks", "purse", "full", "crowd", "things", "piles", "browsed"}
  Squares = {sq1, sq2}
  Beyond = sq2
  Items = {p1, p2, p3}
  Creatures = {c1, c2, c3}
  Watchers = {all, some, far}
  Seers = {all}
  Far = {far}
  Browsers = {br1, br2}
  MaxShown = 4
SYMMETRY Symmetry
INVARIANT ItemsAgree
INVARIANT Conserved
INVARIANT ClientAgrees
INVARIANT FlagsAgree
INVARIANT BrowseAgrees
PROPERTY NeverOverburdened
CHECK_DEADLOCK FALSE

SPECIFICATION Spec
CONSTANTS
  Players = {p1, p2, p3}
  None = None
  Scenes = {"listsSaved"}
  Crowd <- CrowdOf
  Parties = {x1, x2}
  Slots = {100, 101}
  Guilds = {g}
  GuildOf <- TheGuild
  Items = {bag, pouch}
  Containers = {bag, pouch}
  Ground = Ground
  Nowhere = Nowhere
  Places = {0, 2, 3}
  ItemReach = 1
  PartnerReach = 2
  OfferIds = {o1, o2}
  Amounts = {1, 2}
  Price = 1
  Fee = 1
  Gold = 2
  Goods = 1
  MaxMinted = 0
  Houses = {h}
  Beds = {b1, b2}
  HouseOf <- TheHouse
  Outside = Outside
  MaxWarnings = 1
  Objects = {1, 2, 3}
  Kinds = {"on", "off", "worn", "bare", "corpse", "bones", "Koshei", "remains"}
  DecayTo <- DecayToOf
  DecayTime <- DecayTimeOf
  StopTime = {"bare"}
  UsedTo <- UsedToOf
  Class <- ClassOf
  NoItem = "gone"
  Never = "never"
  MaxListed = 2
SYMMETRY Symmetry
INVARIANT OwnerlessHasNoLists
CHECK_DEADLOCK FALSE

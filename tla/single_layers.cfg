SPECIFICATION SpecBounded
CONSTANTS
  Pages = {g1, g2}
  NoPage = nopage
  NoThread = nothread
  EndSlot = 2
  Producers = {p1, p2}
  Consumers = {c1, c2}
  MaxPuts = 3
  MaxRaw = 1
  ZeroedPages = FALSE
  Outcomes = {"commit", "cancel"}
  Sizes = {1, 2, 3}
  MaxInPage = 2
  Guarantees = {"blocking", "lock_free"}
  PutLayers = {"single", "spin"}
  ConsumeLayers = {"single", "multiple"}
SYMMETRY Symmetry
CONSTRAINTS Bounded
INVARIANTS
  EndsAtTail
  TakenKept
  NothingLeft
  NeverMissed
  LockHeldInside
  NoElementLost
CHECK_DEADLOCK FALSE

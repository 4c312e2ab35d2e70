SPECIFICATION SpecBounded
CONSTANTS
  Pages = {g1, g2}
  NoPage = nopage
  EndSlot = 1
  Producers = {p1, p2}
  Consumers = {c1, c2}
  MaxPuts = 3
  MaxRaw = 1
  ZeroedPages = TRUE
  Outcomes = {"commit", "cancel"}
  Sizes = {1, 2}
  MaxInPage = 1
  Guarantees = {"blocking", "wait_free"}
SYMMETRY Symmetry
CONSTRAINTS Bounded
INVARIANTS
  IInv
  ControlPinned
  ConsumeHolds
  NoElementLost
  TailReachable
  PagesAccountedFor
  ReservedIsZero
  ExternalBlocks
PROPERTIES
  ConsumedOnce
  FirstInFirstOut
CHECK_DEADLOCK FALSE

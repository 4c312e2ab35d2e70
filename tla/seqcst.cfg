SPECIFICATION SpecBounded
CONSTANTS
  Pages = {g1, g2}
  NoPage = nopage
  EndSlot = 3
  Producers = {p1, p2}
  Consumers = {c1, c2}
  MaxPuts = 2
  MaxRaw = 0
  ZeroedPages = FALSE
  Outcomes = {"commit", "cancel"}
  Sizes = {1, 2, 3}
  MaxInPage = 2
  Guarantees = {"blocking", "wait_free"}
  MaxUnits = 9
  SpuriousFailures = FALSE
SYMMETRY Symmetry
CONSTRAINTS Bounded
INVARIANTS
  IInv
  NotTruncated
  ReservedOrHelped
  NothingMissed
  NoSpuriousEmptyForOne
  PendingHolds
CHECK_DEADLOCK FALSE

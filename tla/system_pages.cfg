SPECIFICATION Spec
CONSTANTS
  Threads = {t1, t2, t3}
  r1 = r1
  r2 = r2
  Regions = {r0, r1, r2}
  FirstRegion = r0
  NoRegion = null
  Capacity <- RegionPages
  Guarantees = {"blocking", "lock_free", "wait_free"}
  Reservations = {3}
  SpuriousFailures = TRUE
SYMMETRY Symmetry
INVARIANTS
  PagesExact
  RegionsIntact
  IInv
PROPERTIES
  SourceSpec

SPECIFICATION Spec
CONSTANTS
  Pages = {g1, g2}
  NoPage = nopage
  Marker = marker
  Threads = {t1, t2}
  NoThread = nothread
  NSlots = 2
  Guarantees = {"blocking", "wait_free"}
  UsedKinds = {"uninitialized", "zeroed"}
  MaxUnpins = 1
  SpuriousFailures = {"exclusive"}
  Usages = {"early_free", "exclusive"}
SYMMETRY Symmetry
CONSTRAINTS Bounded
INVARIANTS
  TypeOK
  PinsExact
PROPERTIES
  PoolSpec
  LoneAllocationFinds

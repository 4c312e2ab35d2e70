SPECIFICATION Spec
CONSTANTS
  Pages = {g1, g2}
  NoPage = nopage
  Marker = marker
  Threads = {t1, t2}
  NoThread = nothread
  NSlots = 2
  Guarantees = {"blocking", "wait_free"}
  UsedKinds = {"uninitialized"}
  MaxUnpins = 1
  SpuriousFailures = {}
  Usages = {"any"}
SYMMETRY Symmetry
INVARIANTS
  PinsExact

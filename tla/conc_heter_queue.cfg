SPECIFICATION ConcSpec
CONSTANTS
    Queues = {q1, q2}
    NoQueue = NoQueue
    Pages = {p1, p2}
    NoPage = NoPage
    EndSlot = 2
    Sizes = {1}
    RawSizes = {1}
    MaxItems = 2
    PlainPuts = {t1, t2}
    ReentrantPuts = {t3, t4}
    PlainConsumes = {o1, o2}
    ReentrantConsumes = {o3, o4}
    Iterators = {}
    Uses = {}
    Nobody = Nobody
    Reuses = {"assign"}
    MaxInUse = 2
    MaxInAll = 4
CONSTRAINT Bounded
SYMMETRY Symmetry
INVARIANTS
  LockHeld
  ObjectsHold
PROPERTIES
  ElementsKept

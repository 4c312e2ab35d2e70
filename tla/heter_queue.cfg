SPECIFICATION Spec
CONSTANTS
    Queues = {q1, q2}
    NoQueue = NoQueue
    Pages = {p1, p2}
    NoPage = NoPage
    EndSlot = 2
    Sizes = {1, 3}
    RawSizes = {1}
    MaxItems = 3
    MaxInUse = 2
    MaxInAll = 4
    PlainPuts = {t1, t2}
    ReentrantPuts = {t3, t4}
    PlainConsumes = {o1, o2}
    ReentrantConsumes = {o3, o4}
    Iterators = {i1}
    Uses = {}
CONSTRAINT Bounded
SYMMETRY Symmetry
INVARIANTS
  TypeOK
  NoLeak
  ObjectsHold
PROPERTIES
  IteratorMoves
  ElementsKept

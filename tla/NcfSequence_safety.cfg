SPECIFICATION Spec
CONSTANTS
  k1 = k1 k2 = k2 k3 = k3 g1 = g1 g2 = g2 g3 = g3 c1 = c1 c2 = c2 c3 = c3 t1 = t1 t2 = t2
  w1 = w1 w2 = w2 d1 = d1 d2 = d2 e31 = e31
  Keys = {k1, k2, k3}
  Generates = {g1, g2}
  Creates = {c1, c2, c3}
  Transmits = {t1, t2}
  Mockable = {t2}
  TypeOf <- SameType
  KeyOf <- Apart
  WorkerOf <- OneWorker
  Chosen <- SomeChosen
  DocOf <- EachOwn
  Quota = 1
  None = None
SYMMETRY Alike
INVARIANTS TypeOK AllocatedOnce NoGaps FilesKept
PROPERTIES ImplementsBook
CHECK_DEADLOCK FALSE

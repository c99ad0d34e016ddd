SPECIFICATION Spec
CONSTANTS
  Conns = {c1, c2}
  Ctxs = {x1, x2}
  Readers = {r1, r2}
  Writers = {w1, w2}
  Nil = nil
  Options <- Several
  MaxRequests = 3
CONSTRAINT Bounded
SYMMETRY Symmetry
INVARIANTS ObjectsOwned OneResponse NoStaleDeadline

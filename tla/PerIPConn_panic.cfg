CONSTANTS
  Conns = {c1, c2, c3}
  Nil = Nil
  Wrappers = {w1, w2, w3}
  IPs = {1, 2}
  MaxConnsPerIP = 1
SYMMETRY Symmetry
SPECIFICATION Spec
INVARIANT NoPanic

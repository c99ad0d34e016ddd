CONSTANTS
  Conns = {c1, c2, c3}
  Nil = Nil
  Wrappers = {w1, w2, w3}
  IPs = {1, 2}
  MaxConnsPerIP = 1
  d1 = d1 d2 = d2
  Dialers = {d1, d2}
  Entries = {e1, e2, e3, e4}
  MaxAddrs = 2
  IdxModulus = 2
  Acceptors = {a1, a2}
  LnClosers = {k1, k2}
  Buffers = {b1, b2, b3}
  Capacity = 1
  MaxBytes = 3
  MaxLen = 2
  Callers = {g1, g2, g3}
  Clients = {l1, l2}
  maxPenalty = 1
  MaxCalls = 4
  Requests = {q1, q2}
  k1 = y1 k2 = y2
  Keys = {y1, y2}
  Files = {x1, x2, x3}
  Copies = {z1, z2, z3}
  CopyLimit = 1
  MaxVersion = 1
SYMMETRY Symmetry
SPECIFICATION PartsSpec
INVARIANTS CounterExact DialerSound InmemorySound PenaltyExact FilesSound

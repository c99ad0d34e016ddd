SPECIFICATION FairSpec
CONSTANTS
  g1 = g1 g2 = g2 g3 = g3
  Callers = {g1, g2, g3}
  Wants = {w1, w2, w3}
  Cleaner = cleaner
  Closer = closer
  Conns = {c1, c2, c3}
  Nil = nil
  MaxRounds = 2
  Scenes <- Several
INVARIANT PoolSound
PROPERTY CallersReturn

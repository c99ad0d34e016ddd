SPECIFICATION FairSpec
CONSTANTS
  g1 = g1 g2 = g2
  Callers = {g1, g2}
  Works = {w1, w2, w3}
  Nil = nil
  Error = error
  MaxPendingRequests = 1
  MaxLoops = 2
  MaxCalls = 2
  Scenes <- Several
INVARIANT WorksSound
PROPERTY CallsReturn

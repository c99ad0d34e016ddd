SPECIFICATION Spec
CONSTANTS
  g1 = g1 g2 = g2
  c1 = c1 c2 = c2
  Callers = {g1, g2}
  Conns = {c1, c2}
  Nil = nil
  Settings <- Clients
INVARIANTS ConnsSound AnsweredAsAsked
PROPERTY TimedDoReturns

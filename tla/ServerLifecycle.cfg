SPECIFICATION FairSpec
CONSTANTS
  l1 = l1 l2 = l2 s1 = s1 s2 = s2 c1 = c1 c2 = c2 d1 = d1 d2 = d2
  Listeners = {l1, l2}
  Shutdowns = {s1, s2}
  AcceptedConns = {c1, c2}
  CalledConns = {d1, d2}
  Concurrency = 1
  Scenes <- Several
  MaxRequests = 3
INVARIANTS AccountedAndDrained AtMostTwoLate
PROPERTY ShutdownReturns

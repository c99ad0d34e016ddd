CONSTANTS
  Conns = {c1, c2, c3}
  Chans = {w1, w2}
  NilConn = NilConn
  MaxWorkersCount = 2
  MaxIdleWorkerDuration = 0
  MaxClock = 1
SPECIFICATION FairSpec
INVARIANTS OneHolder WorkersCountExact ChannelsSound
PROPERTIES ConnServiceSpec StopEndsWorkers

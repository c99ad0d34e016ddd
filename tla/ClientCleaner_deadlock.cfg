CONSTANTS
  u1 = u1 u2 = u2 h1 = h1 h2 = h2
  Users = {u1, u2}
  HostClients = {h1, h2}
  Client = Client
  Entries = {e1, e2}
  Cleaner = Cleaner
  Nil = Nil
  MaxWait = 2
  MaxLate = 1
  MaxItems = 8
  MaxWhen = 3
  Scenes <- WithClient
SPECIFICATION PartsSpec
INVARIANT NoDeadlock

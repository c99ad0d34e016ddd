SPECIFICATION MessagesSpec
CONSTANTS
  Nil = Nil
  Msgs = {m1, m2}
  Bytes = {b1, b2}
  Streams = {s1, s2}
  Forms = {f1}
  Pieces = {x}
  MaxPieces = 1
  Limits = {2, 3}
  BufSize = 2
  PreRead = 2
  MaxRead = 2
  MaxLen = 2
  HeaderBufSize = 9
  Headers = {h1, h2}
  Plain = {"X", "Y"}
  Values = {"a", "b"}
  CookieNames = {"n"}
  MaxOps = 3
  MaxTrailers = 2
  Nodes = {n1, n2, n3, n4, n5, n6, n7}
  Blocks = {k1, k2, k3, k4, k5}
  LinkBufferCap = 2
  PageSize = 2
  InplaceThreshold = 2
  WriteSizes = {1, 2, 3}
  MaxBytes = 6
  MaxBufferOps = 5
  Calls = {c1, c2}
  HostKeys = {key}
  HostClients = {hc1, hc2, hc3, hc4}
  MaxConns = 1
  MaxRedirects = 1
  ArgBytes = {"k", "=", "&", "+", "%", " "}
  MaxArgs = 3
  MaxArgOps = 2
  MaxURIOps = 1
  MaxCookies = 2
  Width = 10
  MaxHexIntChars = 2
  MaxDigits = 4
  Children = {p1, p2, p3, p4}
  Pids = {pid1, pid2, pid3}
  goMaxProcs = 2
  RecoverThreshold = 2
  Callers = {d1, d2, d3}
  Works = {w1, w2, w3}
  Writers = {z1, z2, z3}
  End = End
  ChanSize = 1
  MaxCompressions = 3
  Chans = {t1, t2}
  MaxSize = 3
INVARIANTS
  BodyOnePlace
  OwnBody
  FramedAsWritten
  HeaderAsSent
  WrittenAsSet
  IsQueue
  InUseIsMapped
  TextRoundTrip
  URIResolves
  IntExact
  ChildrenKnown
  OwnOutput
  OwnGetAnswer
  RangeAsAsked
CHECK_DEADLOCK FALSE

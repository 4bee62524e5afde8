\* two transmissions from n1 to n3, one back; rings that hold one hash,
\* and two packets in transport
CONSTANTS
  n1 = n1
  n2 = n2
  n3 = n3
  d1 = d1
  prd = prd
  i1 = i1
  i2 = i2
  i3 = i3
  zero = zero
  nobody = nobody
  nokey = nokey
  noframe = noframe
  c1 = c1
  c2 = c2
  Node = {n1, n2, n3}
  Dest = {d1}
  PathRequestDest = prd
  TransportId = {i1, i2, i3, zero}
  ZeroId = zero
  Nobody = nobody
  Content = {c1, c2}
  HopModulus = 4
  PathCapacity = 1
  CacheCapacity = 1
  RingCapacity = 1
  ClockModulus = 2
  NoKey = nokey
  LoraPackets = {}
  HostAnnounces = {}
  HostPackets = {}
  MaxUptime = 0
  Ticking = {}
  NoFrame = noframe
  InRange <- LineInRange
  Distance <- LineDistance
  Home <- MCHome
  Id <- LineId
  HostSends <- Traffic
  MaxHostSends = 3
  MaxResets = 1
  MaxDisturbances = 3
SPECIFICATION MFairSpec
CHECK_DEADLOCK FALSE
INVARIANT NeverNearerThanTruth
INVARIANT NextHopIsInRange
PROPERTY StripsOnlyBesideDestination
PROPERTY SilentUnlessRingsOverflow

\* everybody in range; rings that remember every packet
CONSTANTS
  n1 = n1
  n2 = n2
  n3 = n3
  d1 = d1
  prd = prd
  i1 = i1
  i2 = i2
  i3 = i3
  zero = zero
  nobody = nobody
  nokey = nokey
  noframe = noframe
  c1 = c1
  c2 = c2
  Node = {n1, n2, n3}
  Dest = {d1}
  PathRequestDest = prd
  TransportId = {i1, i2, i3, zero}
  ZeroId = zero
  Nobody = nobody
  Content = {c1, c2}
  HopModulus = 5
  PathCapacity = 1
  CacheCapacity = 1
  RingCapacity = 3
  ClockModulus = 2
  NoKey = nokey
  LoraPackets = {}
  HostAnnounces = {}
  HostPackets = {}
  MaxUptime = 1
  Ticking = {n2}
  NoFrame = noframe
  InRange <- FullInRange
  Distance <- FullDistance
  Home <- MCHome
  Id <- LateId
  HostSends <- Looping
  MaxHostSends = 3
  MaxResets = 0
  MaxDisturbances = 3
SPECIFICATION MSpec
CHECK_DEADLOCK FALSE
INVARIANT NoPacketGoesRound

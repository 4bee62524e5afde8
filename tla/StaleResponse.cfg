\* an announce too long for the cache follows a short one
CONSTANTS
  n1 = n1
  none = none
  d1 = d1
  d2 = d2
  d3 = d3
  prd = prd
  t1 = t1
  t2 = t2
  zero = zero
  nobody = nobody
  nokey = nokey
  never = never
  c1 = c1
  Node = {n1}
  Dest = {d1, d2, d3}
  PathRequestDest = prd
  TransportId = {t2, zero}
  ZeroId = zero
  Nobody = nobody
  Content = {c1}
  HopModulus = 4
  PathCapacity = 2
  CacheCapacity = 2
  RingCapacity = 1
  ClockModulus = 4
  NoKey = nokey
  Never = never
  None = none
  LoraPackets <- LearnLora
  HostAnnounces <- LearnHost
  HostPackets = {}
  MaxUptime = 0
SPECIFICATION HSpec
INVARIANT ResponseIsOfLastAnnounce

\* every table overflows and the clock wraps
CONSTANTS
  n1 = n1
  d1 = d1
  d2 = d2
  d3 = d3
  prd = prd
  t1 = t1
  t2 = t2
  zero = zero
  nobody = nobody
  nokey = nokey
  never = never
  none = none
  c1 = c1
  Node = {n1}
  Dest = {d1, d2, d3}
  PathRequestDest = prd
  TransportId = {t1, zero}
  ZeroId = zero
  Nobody = nobody
  Content = {c1}
  HopModulus = 4
  PathCapacity = 2
  CacheCapacity = 1
  RingCapacity = 2
  ClockModulus = 2
  NoKey = nokey
  Never = never
  None = none
  LoraPackets <- MCLoraPackets
  HostAnnounces <- MCHostAnnounces
  HostPackets <- MCHostPackets
  MaxUptime = 2
SPECIFICATION HSpec
INVARIANT OneCurrentRoute
INVARIANT ResponseIsLastCacheable
INVARIANT TablesFollowContract
PROPERTY EvictsOldestAcrossWrap
PROPERTY RingIsSeenWindow
PROPERTY EchoIsKnown
PROPERTY ForwardsAsAnnounced

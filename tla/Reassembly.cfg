\* two slots, six resources, one longer than the window
CONSTANTS
  long = long
  short = short
  twin = twin
  other = other
  big = big
  empty = empty
  p1 = p1
  p2 = p2
  p3 = p3
  p4 = p4
  q1 = q1
  q2 = q2
  t1 = t1
  u1 = u1
  v1 = v1
  NoResource = NoResource
  Resource <- MCResource
  Part <- MCPart
  Hash <- MCHash
  MapHash <- MCMapHash
  Hashmap <- MCHashmap
  Capacity = 2
  Window = 2
  MaxParts = 4
  MaxRestarts = 1
  RESOURCE_ADV_MAX_PARTS = 4
SPECIFICATION FairSpec
INVARIANT OneTransferPerResource
INVARIANT GapsAreClosed
PROPERTY RepeatedPartsComplete
PROPERTY IsResourceTransfers
PROPERTY ResourcesFollowContract

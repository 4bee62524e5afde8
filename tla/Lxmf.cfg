CONSTANTS
  Alice = Alice
  Bob = Bob
  None = None
  Identities = {Alice, Bob}
  MaxPaths = 1
  Arrivals <- SomeArrivals
SPECIFICATION Spec
INVARIANT PackedHereIsUnknownThere
PROPERTY IsMailbox
PROPERTY LxmfFollowsContract

\* enough frames for two to overtake one another while a third is sent
CONSTANTS
  MaxFrames = 3
  MaxSends = 2
  MaxErrors = 2
  MaxRestarts = 1
  MAX_TRANSFER = 6
  PAYLOAD_MAX = 3
  TIMEOUT_DEFAULT = 2
  INIT_COMMANDS = 3
SPECIFICATION FairSpec
INVARIANT ArmedMeansListening
INVARIANT DeliveredAtMostOnce
INVARIANT DamageIsExplained
INVARIANT SendTellsTruth
PROPERTY EventuallyListens
PROPERTY RadioFollowsContract
CHECK_DEADLOCK FALSE

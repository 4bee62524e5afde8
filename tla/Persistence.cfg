CONSTANTS
  Identity = {i1, i2, i3}
  None = None
  Erased = Erased
  Fixed = Fixed
  PAGE = 8
  SECTOR = 16
  REGION = 16
  U32_MAX = 64
  Bit = {b0, b1, b2}
SPECIFICATION Spec
INVARIANT InUseIsStored
PROPERTY IdentityIsForLife
PROPERTY FlashFollowsContract

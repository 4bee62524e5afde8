\* a buffer of three bytes
CONSTANTS
  FEND = FEND
  FESC = FESC
  TFEND = TFEND
  TFESC = TFESC
  Zero = Zero
  Other = {a}
  MaxFrame = 3
  Payload <- MCPayload
SPECIFICATION Spec
INVARIANT WholeFramesArrive
INVARIANT DamageEndsWithTheNextFrame

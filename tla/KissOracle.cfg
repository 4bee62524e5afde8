CONSTANTS
  FEND = FEND
  FESC = FESC
  TFEND = TFEND
  TFESC = TFESC
  Zero = Zero
  Other = {}
  MaxFrame = 3
  MaxBytes = 8
SPECIFICATION Spec
INVARIANT MirrorsOracle
CHECK_DEADLOCK FALSE

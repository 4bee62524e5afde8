--------------------------------- MODULE Kiss ---------------------------------
(***************************************************************************)
(* The KISS codec between a host and the node: kiss_encode_frame and       *)
(* kiss_decode_byte, which the main loop calls with every byte it reads    *)
(* from the UART.                                                          *)
(***************************************************************************)
EXTENDS Integers, SequencesExt

CONSTANTS
  FEND, FESC, TFEND, TFESC,   \* the bytes with a meaning
  Zero,                       \* the type byte of a data frame
  Other,                      \* all other bytes
  MaxFrame                    \* KISS_MAX_FRAME, 1024 in the code

ASSUME KissAssumption ==
  /\ FEND \notin {FESC, TFEND, TFESC, Zero}
  /\ TFEND # TFESC
  /\ MaxFrame \in Nat

Byte == {FEND, FESC, TFEND, TFESC, Zero} \cup Other

Escaped(b) ==
  IF b = FEND THEN <<FESC, TFEND>>
  ELSE IF b = FESC THEN <<FESC, TFESC>>
  ELSE <<b>>

(* kiss_encode_frame into a buffer that is large enough *)
Encode(payload) ==
  <<FEND, Zero>> \o FlattenSeq([i \in DOMAIN payload |-> Escaped(payload[i])]) \o <<FEND>>

VARIABLES
  kiss_in_frame,   \* the opening FEND was read
  kiss_escaped,    \* the byte before was FESC
  kiss_saw_type,   \* the type byte was read
  kiss_buf,        \* kiss_buf up to kiss_buf_len
  returned         \* what kiss_decode_byte returned last: 0, 1 or -1

flags == <<kiss_in_frame, kiss_escaped, kiss_saw_type>>
decoder == <<flags, kiss_buf, returned>>

(* kiss_decode_reset *)
DecoderReset ==
  /\ kiss_in_frame = FALSE
  /\ kiss_escaped = FALSE
  /\ kiss_saw_type = FALSE
  /\ kiss_buf = <<>>
  /\ returned = 0
-----------------------------------------------------------------------------
(* kiss_decode_byte *)

SetFlags(in_frame, escaped, saw_type) ==
  /\ kiss_in_frame' = in_frame
  /\ kiss_escaped' = escaped
  /\ kiss_saw_type' = saw_type

CompletesFrame(b) ==
  /\ b = FEND /\ kiss_in_frame /\ kiss_buf # <<>>
  /\ SetFlags(FALSE, FALSE, FALSE)
  /\ returned' = 1
  /\ UNCHANGED kiss_buf

StartsFrameFault(b) ==   \* an escape left open by the frame before stays
  /\ b = FEND /\ ~ (kiss_in_frame /\ kiss_buf # <<>>)
  /\ SetFlags(TRUE, kiss_escaped, FALSE)
  /\ kiss_buf' = <<>>
  /\ returned' = 0

StartsFrame(b) ==
  /\ b = FEND /\ ~ (kiss_in_frame /\ kiss_buf # <<>>)
  /\ SetFlags(TRUE, FALSE, FALSE)
  /\ kiss_buf' = <<>>
  /\ returned' = 0

IgnoresByte(b) ==
  /\ b # FEND /\ ~ kiss_in_frame
  /\ returned' = 0
  /\ UNCHANGED <<flags, kiss_buf>>

TakesType(b) ==
  /\ b # FEND /\ kiss_in_frame /\ ~ kiss_saw_type
  /\ SetFlags(TRUE, kiss_escaped, TRUE)
  /\ returned' = 0
  /\ UNCHANGED kiss_buf

InPayload(b) == b # FEND /\ kiss_in_frame /\ kiss_saw_type

StartsEscape(b) ==
  /\ InPayload(b) /\ ~ kiss_escaped /\ b = FESC
  /\ SetFlags(TRUE, TRUE, TRUE)
  /\ returned' = 0
  /\ UNCHANGED kiss_buf

(* the payload byte b stands for; none after a bad escape *)
Unescaped(b) ==
  IF ~ kiss_escaped THEN {b} \ {FESC}
  ELSE IF b = TFEND THEN {FEND}
  ELSE IF b = TFESC THEN {FESC}
  ELSE {}

FitsFault == Len(kiss_buf) <= MaxFrame

Fits == Len(kiss_buf) < MaxFrame

TakesByte(b) ==
  /\ InPayload(b) /\ Fits
  /\ \E c \in Unescaped(b) : kiss_buf' = Append(kiss_buf, c)
  /\ SetFlags(TRUE, FALSE, TRUE)
  /\ returned' = 0

FramingErrorFault(b) ==   \* the rest of the frame is read on
  /\ InPayload(b)
  /\ \/ kiss_escaped /\ Unescaped(b) = {}
     \/ Unescaped(b) # {} /\ ~ Fits
  /\ SetFlags(TRUE, FALSE, TRUE)
  /\ kiss_buf' = <<>>
  /\ returned' = -1

(* a bad escape, or one byte too many *)
FramingError(b) ==
  /\ InPayload(b)
  /\ \/ kiss_escaped /\ Unescaped(b) = {}
     \/ Unescaped(b) # {} /\ ~ Fits
  /\ SetFlags(FALSE, FALSE, FALSE)
  /\ kiss_buf' = <<>>
  /\ returned' = -1

DecodeByte(b) ==
  \/ CompletesFrame(b)
  \/ StartsFrame(b)
  \/ IgnoresByte(b)
  \/ TakesType(b)
  \/ StartsEscape(b)
  \/ TakesByte(b)
  \/ FramingError(b)

DecoderTypeOK ==
  /\ flags \in BOOLEAN \X BOOLEAN \X BOOLEAN
  /\ kiss_buf \in Seq(Byte) /\ Len(kiss_buf) <= MaxFrame
  /\ returned \in {0, 1, -1}
===============================================================================

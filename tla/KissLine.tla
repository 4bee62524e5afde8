------------------------------- MODULE KissLine -------------------------------
(***************************************************************************)
(* A host that sends KISS frames to the node over a line that loses bytes: *)
(* the UART has no flow control, and while a frame is handled nobody reads *)
(* it.  The node may also reset in the middle of a frame.                  *)
(***************************************************************************)
EXTENDS Kiss

CONSTANT Payload   \* what the host may send in a frame

ASSUME KissLineAssumption == Payload \subseteq Seq(Byte)

VARIABLES
  line,          \* bytes of the frame being sent that were not read
  current,       \* its payload
  whole,         \* nothing of it was lost
  whole_before,  \* nothing of the frame before it was lost
  reports        \* what the decoder returned since the host sent it

vars == <<decoder, line, current, whole, whole_before, reports>>

Frame(payload) == [status |-> 1, payload |-> payload]

Error == [status |-> -1, payload |-> <<>>]

Init ==
  /\ DecoderReset
  /\ line = <<>>
  /\ current = <<>>
  /\ whole = TRUE
  /\ whole_before = TRUE
  /\ reports = <<>>

(* The host sends a frame when the one before it is read or lost: sending  *)
(* earlier makes no difference to the decoder.                             *)
HostSends(p) ==
  /\ line = <<>>
  /\ line' = Encode(p)
  /\ current' = p
  /\ whole' = TRUE
  /\ whole_before' = whole
  /\ reports' = <<>>
  /\ UNCHANGED decoder

(* one turn of the main loop; it handles a complete frame before the next  *)
(* byte is read, so kiss_buf holds its payload still                       *)
ReadByte ==
  /\ line # <<>>
  /\ DecodeByte(Head(line))
  /\ line' = Tail(line)
  /\ \/ returned' = 0 /\ UNCHANGED reports
     \/ returned' = 1 /\ reports' = Append(reports, Frame(kiss_buf'))
     \/ returned' = -1 /\ reports' = Append(reports, Error)
  /\ UNCHANGED <<current, whole, whole_before>>

LoseByte ==
  /\ line # <<>>
  /\ line' = Tail(line)
  /\ whole' = FALSE
  /\ UNCHANGED <<decoder, current, whole_before, reports>>

Restart ==
  /\ SetFlags(FALSE, FALSE, FALSE)
  /\ kiss_buf' = <<>>
  /\ returned' = 0
  /\ whole' = (whole /\ line \in {<<>>, Encode(current)})
  /\ UNCHANGED <<line, current, whole_before, reports>>

Next ==
  \/ \E p \in Payload : HostSends(p)
  \/ ReadByte
  \/ LoseByte
  \/ Restart

Spec == Init /\ [][Next]_vars
-----------------------------------------------------------------------------
TypeOK ==
  /\ DecoderTypeOK
  /\ line \in Seq(Byte)
  /\ current \in Payload \cup {<<>>}
  /\ whole \in BOOLEAN
  /\ whole_before \in BOOLEAN
  /\ reports \in Seq([status : {1, -1}, payload : Seq(Byte)])

(* what the main loop should hear of a frame: nothing of an empty one, one *)
(* error if it is too long                                                 *)
Expected(payload) ==
  IF payload = <<>> THEN <<>>
  ELSE IF Len(payload) > MaxFrame THEN <<Error>>
  ELSE <<Frame(payload)>>

Sent == line = <<>> /\ whole

(* Decoding undoes encoding: of two frames in a row that reach the node    *)
(* whole, the second is reported once and as it was sent, whatever was     *)
(* lost, cut short or too long before them.                                *)
WholeFramesArrive ==
  Sent /\ whole_before => reports = Expected(current)

(* A damaged frame costs at most the one after it: its first FEND may end  *)
(* the damaged one, and then the decoder skips the rest, and the FEND of   *)
(* the next frame starts it.                                               *)
DamageEndsWithTheNextFrame ==
  Sent /\ ~ whole_before =>
    \/ reports = Expected(current)
    \/ /\ Len(reports) = 1 /\ reports[1].status = 1
       /\ ~ (kiss_in_frame /\ kiss_buf # <<>>)

-----------------------------------------------------------------------------
(* Payloads of a small instance: empty, in need of every escape, made of   *)
(* the substitutes themselves, as long as the buffer, and longer by one    *)
(* and by two.                                                             *)
MCPayload ==
  LET some == CHOOSE b \in Other : TRUE
  IN  {<<>>, <<some>>, <<FEND>>, <<FESC, TFEND>>, <<TFESC, FESC, FEND>>,
       <<some, FEND, Zero, some>>, <<some, FESC, some, FEND, some>>}
===============================================================================

------------------------------ MODULE KissOracle ------------------------------
(***************************************************************************)
(* kiss_decode_byte and kiss_decode of tests/harness/oracle.py read the    *)
(* same bytes.                                                             *)
(***************************************************************************)
EXTENDS Kiss

CONSTANT MaxBytes   \* bound on the bytes read

VARIABLES
  oracle,   \* the local variables of kiss_decode
  decoded,  \* the frames the oracle has decoded
  frames,   \* the frames the decoder has completed
  read      \* how many bytes were read

vars == <<decoder, oracle, decoded, frames, read>>

Init ==
  /\ DecoderReset
  /\ oracle = [buf |-> <<>>, in_frame |-> FALSE, escaped |-> FALSE,
               saw_type |-> FALSE, raised |-> FALSE]
  /\ decoded = <<>>
  /\ frames = <<>>
  /\ read = 0

OracleFend ==
  /\ decoded' = IF oracle.in_frame /\ oracle.buf # <<>>
                  THEN Append(decoded, oracle.buf) ELSE decoded
  /\ oracle' = [buf |-> <<>>, in_frame |-> TRUE, escaped |-> FALSE,
                saw_type |-> FALSE, raised |-> FALSE]

OracleEscape(b) ==
  oracle' =
    IF b = TFEND THEN [oracle EXCEPT !.buf = Append(@, FEND), !.escaped = FALSE]
    ELSE IF b = TFESC THEN [oracle EXCEPT !.buf = Append(@, FESC), !.escaped = FALSE]
    ELSE [oracle EXCEPT !.raised = TRUE]

OracleByte(b) ==
  \/ b = FEND /\ OracleFend
  \/ /\ b # FEND
     /\ UNCHANGED decoded
     /\ \/ ~ oracle.in_frame /\ UNCHANGED oracle
        \/ /\ oracle.in_frame /\ ~ oracle.saw_type
           /\ oracle' = [oracle EXCEPT !.saw_type = TRUE]
        \/ /\ oracle.in_frame /\ oracle.saw_type /\ oracle.escaped
           /\ OracleEscape(b)
        \/ /\ oracle.in_frame /\ oracle.saw_type /\ ~ oracle.escaped
           /\ oracle' = IF b = FESC THEN [oracle EXCEPT !.escaped = TRUE]
                                    ELSE [oracle EXCEPT !.buf = Append(@, b)]

(* a frame longer than kiss_buf is out of the comparison *)
Next ==
  \E b \in Byte :
    /\ read < MaxBytes
    /\ ~ oracle.raised
    /\ Len(oracle.buf) < MaxFrame
    /\ DecodeByte(b)
    /\ OracleByte(b)
    /\ frames' = IF returned' = 1 THEN Append(frames, kiss_buf') ELSE frames
    /\ read' = read + 1

Spec == Init /\ [][Next]_vars
-----------------------------------------------------------------------------
(* "Mirrors the Python oracle in tests/harness/oracle.py.kiss_decode"      *)
(* (kiss_decode_byte.S, lines 20 and 21): both complete the same frames.   *)
MirrorsOracle == frames = decoded
===============================================================================

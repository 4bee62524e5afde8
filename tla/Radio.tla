-------------------------------- MODULE Radio --------------------------------
(***************************************************************************)
(* The LoRa driver of one node against its SX1262 chip.  The driver works  *)
(* in SPI commands; between any two of them the chip may finish receiving  *)
(* or sending a frame.  A command may fail, before or after the chip       *)
(* obeyed it, and then the driver function returns at once.  The chip's    *)
(* own timeouts are off: sx1262_send_frame asks for none, and              *)
(* sx1262_poll_receive for continuous reception.                           *)
(***************************************************************************)
EXTENDS Integers, LoraContract

CONSTANTS
  MaxFrames,    \* bound on frames that arrive
  MaxSends,     \* bound on frames sent, by the transport or the host
  MaxErrors,    \* bound on failed commands
  MaxRestarts   \* bound on resets of the node

ASSUME RadioAssumption ==
  /\ MaxFrames \in Nat
  /\ MaxSends \in Nat
  /\ MaxErrors \in Nat
  /\ MaxRestarts \in Nat

VARIABLES
  mode,          \* of the chip: standby, rx or tx
  irq,           \* its interrupt flags; DIO1 is high while there are any
  fifo,          \* the frame it received last
  buffer,        \* the number of the frame it would send, 0 when garbled
  on_air,        \* the number of the frame it is sending
  rx_armed,      \* sx1262_model_rx_armed
  at,            \* the command the driver issues next
  taken,         \* the frame sx1262_poll_receive is about to return
  delivered,     \* frames handed to transport_process_packet
  went,          \* numbers of the frames that left the antenna whole
  disturbed,     \* the chip finished another frame where it hurts
  arrived, sends, errors, restarts

chip == <<mode, irq, fifo, buffer, on_air>>
counters == <<arrived, sends, errors, restarts>>
vars == <<chip, rx_armed, at, taken, delivered, went, disturbed, counters>>

Flag == {"tx_done", "rx_done", "crc_err"}

(* "long" is a length the driver refuses: empty, or over 253 bytes.  A     *)
(* "spoiled" frame was overwritten by one to be sent.                      *)
Kind == {"good", "corrupt", "long", "spoiled"}

Frame == [id : Nat, kind : Kind]

NoFrame == [id |-> 0, kind |-> "long"]

Receiving == {"flags", "status", "data", "clear", "rearm"}
Sending == {"params", "write", "ready", "start", "wait", "done"}

Init ==
  /\ mode = "standby" /\ irq = {} /\ fifo = NoFrame /\ buffer = 0 /\ on_air = 0
  /\ rx_armed = FALSE /\ at = "boot" /\ taken = NoFrame
  /\ delivered = {} /\ went = {} /\ disturbed = FALSE
  /\ arrived = 0 /\ sends = 0 /\ errors = 0 /\ restarts = 0

-----------------------------------------------------------------------------
(* What the chip does by itself *)

(* A frame arrives.  The transmit and the receive buffer both begin at     *)
(* address 0, so it may overwrite a frame that waits to be sent.           *)
ChipReceives ==
  /\ mode = "rx"
  /\ arrived < MaxFrames
  /\ arrived' = arrived + 1
  /\ \E kind \in {"good", "corrupt", "long"} :
       /\ fifo' = [id |-> arrived + 1, kind |-> kind]
       /\ irq' = irq \cup {"rx_done"}
                   \cup (IF kind = "corrupt" THEN {"crc_err"} ELSE {})
  /\ buffer' \in {buffer, 0}
  /\ disturbed' = (disturbed \/ at \in {"status", "data", "ready", "start"})
  /\ UNCHANGED <<mode, on_air, rx_armed, at, taken, delivered, went,
                 sends, errors, restarts>>

ChipTransmits ==
  /\ mode = "tx"
  /\ mode' = "standby"
  /\ irq' = irq \cup {"tx_done"}
  /\ went' = went \cup {on_air}
  /\ disturbed' = (disturbed \/ at = "start")
  /\ UNCHANGED <<fifo, buffer, on_air, rx_armed, at, taken, delivered, counters>>

(* What the chip does on the command the driver issues at this place.      *)
(* Writing the frame to send may overwrite a received one, or the one that *)
(* is still being sent.                                                    *)
Obeys ==
  \/ /\ at \in {"flags", "status", "data", "params", "wait"}
     /\ UNCHANGED chip
  \/ /\ at \in {"clear", "ready", "done"}
     /\ irq' = {}
     /\ UNCHANGED <<mode, fifo, buffer, on_air>>
  \/ /\ at = "rearm"
     /\ mode' = "rx"
     /\ UNCHANGED <<irq, fifo, buffer, on_air>>
  \/ /\ at = "write"
     /\ buffer' = sends
     /\ on_air' = IF mode = "tx" THEN 0 ELSE on_air
     /\ \/ UNCHANGED fifo
        \/ fifo.kind = "good" /\ fifo' = [fifo EXCEPT !.kind = "spoiled"]
     /\ UNCHANGED <<mode, irq>>
  \/ /\ at = "start"
     /\ mode' = "tx"
     /\ on_air' = buffer
     /\ UNCHANGED <<irq, fifo, buffer>>

-----------------------------------------------------------------------------
(* sx1262_poll_receive *)

Moves(from, to) == at = from /\ at' = to

(* no interrupt, and the receiver is not armed *)
PollQuiet ==
  /\ irq = {} /\ ~ rx_armed
  /\ Moves("idle", "rearm")
  /\ UNCHANGED <<chip, rx_armed, taken, delivered, went, disturbed, counters>>

PollInterrupt ==
  /\ irq # {}
  /\ Moves("idle", "flags")
  /\ rx_armed' = FALSE
  /\ UNCHANGED <<chip, taken, delivered, went, disturbed, counters>>

PresentFault(flags) == "rx_done" \in flags   \* a bad checksum is overlooked

(* the flags say that a whole frame is there *)
Present(flags) == "rx_done" \in flags /\ "crc_err" \notin flags

ReadFlags ==
  /\ Obeys
  /\ \/ Present(irq) /\ Moves("flags", "status")
     \/ ~ Present(irq) /\ Moves("flags", "clear")
  /\ disturbed' = FALSE
  /\ UNCHANGED <<rx_armed, taken, delivered, went, counters>>

(* the length and place of the frame that is last by now *)
ReadStatus ==
  /\ Obeys
  /\ \/ fifo.kind # "long" /\ Moves("status", "data") /\ taken' = fifo
     \/ fifo.kind = "long" /\ Moves("status", "clear") /\ UNCHANGED taken
  /\ UNCHANGED <<rx_armed, delivered, went, disturbed, counters>>

(* a frame that arrived after the status was read may have overwritten the *)
(* bytes at that place                                                     *)
ReadData ==
  /\ Obeys
  /\ Moves("data", "clear")
  /\ \/ UNCHANGED taken
     \/ fifo.id # taken.id /\ taken' = [taken EXCEPT !.kind = "corrupt"]
  /\ UNCHANGED <<rx_armed, delivered, went, disturbed, counters>>

ClearInterruptFault ==   \* CLEAR_IRQ_STATUS is left out
  /\ UNCHANGED chip
  /\ Moves("clear", "rearm")
  /\ UNCHANGED <<rx_armed, taken, delivered, went, disturbed, counters>>

ClearInterrupt ==
  /\ Obeys
  /\ Moves("clear", "rearm")
  /\ UNCHANGED <<rx_armed, taken, delivered, went, disturbed, counters>>

(* SET_RX; then lora_interface_poll hands the frame to the transport *)
Rearm ==
  /\ Obeys
  /\ Moves("rearm", "idle")
  /\ rx_armed' = TRUE
  /\ delivered' = IF taken = NoFrame THEN delivered ELSE delivered \cup {taken}
  /\ taken' = NoFrame
  /\ UNCHANGED <<went, disturbed, counters>>

-----------------------------------------------------------------------------
(* sx1262_send_frame, called by a handler of the transport or for the host *)

SendBeginsFault ==   \* rx_armed is left as it is
  /\ sends < MaxSends
  /\ sends' = sends + 1
  /\ Moves("idle", "params")
  /\ UNCHANGED <<chip, rx_armed, taken, delivered, went, disturbed,
                 arrived, errors, restarts>>

SendBegins ==
  /\ sends < MaxSends
  /\ sends' = sends + 1
  /\ Moves("idle", "params")
  /\ rx_armed' = FALSE
  /\ UNCHANGED <<chip, taken, delivered, went, disturbed, arrived, errors, restarts>>

SetParams ==
  /\ Obeys
  /\ Moves("params", "write")
  /\ UNCHANGED <<rx_armed, taken, delivered, went, disturbed, counters>>

WriteBuffer ==
  /\ Obeys
  /\ Moves("write", "ready")
  /\ disturbed' = FALSE
  /\ UNCHANGED <<rx_armed, taken, delivered, went, counters>>

ClearBeforeSendFault ==   \* the flags of an earlier frame stay
  /\ UNCHANGED chip
  /\ Moves("ready", "start")
  /\ UNCHANGED <<rx_armed, taken, delivered, went, disturbed, counters>>

ClearBeforeSend ==
  /\ Obeys
  /\ Moves("ready", "start")
  /\ UNCHANGED <<rx_armed, taken, delivered, went, disturbed, counters>>

StartSending ==
  /\ Obeys
  /\ Moves("start", "wait")
  /\ UNCHANGED <<rx_armed, taken, delivered, went, disturbed, counters>>

SendDone ==
  /\ Obeys
  /\ "tx_done" \in irq
  /\ Moves("wait", "done")
  /\ UNCHANGED <<rx_armed, taken, delivered, went, disturbed, counters>>

(* the poll budget is used up *)
SendTimeout ==
  /\ Obeys
  /\ "tx_done" \notin irq
  /\ Moves("wait", "idle")
  /\ UNCHANGED <<rx_armed, taken, delivered, went, disturbed, counters>>

SendSucceeds ==
  /\ Obeys
  /\ Moves("done", "idle")
  /\ UNCHANGED <<rx_armed, taken, delivered, went, disturbed, counters>>

-----------------------------------------------------------------------------
(* lora_interface_init: a reset pulse, which forgets everything, and then  *)
(* the configuration; without success the node never polls or sends        *)
Configure ==
  /\ Moves("boot", "idle")
  /\ mode' = "standby" /\ irq' = {}
  /\ UNCHANGED <<fifo, buffer, on_air, rx_armed, taken, delivered, went, disturbed,
                 counters>>

ConfigureFails ==
  /\ errors < MaxErrors
  /\ errors' = errors + 1
  /\ Moves("boot", "dead")
  /\ \/ mode' = "standby" /\ irq' = {}
     \/ UNCHANGED <<mode, irq>>
  /\ UNCHANGED <<fifo, buffer, on_air, rx_armed, taken, delivered, went, disturbed,
                 arrived, sends, restarts>>

CommandFailsFault ==   \* the frame that was read is kept for the next poll
  /\ at \in Receiving \cup Sending
  /\ errors < MaxErrors
  /\ errors' = errors + 1
  /\ Obeys \/ UNCHANGED chip
  /\ at' = "idle"
  /\ UNCHANGED <<rx_armed, taken, delivered, went, disturbed, arrived, sends, restarts>>

(* sx1262_command_write or sx1262_command_read reports an error *)
CommandFails ==
  /\ at \in Receiving \cup Sending
  /\ errors < MaxErrors
  /\ errors' = errors + 1
  /\ Obeys \/ UNCHANGED chip
  /\ at' = "idle"
  /\ taken' = NoFrame
  /\ UNCHANGED <<rx_armed, delivered, went, disturbed, arrived, sends, restarts>>

(* a reset of the node, which leaves the chip alone *)
Restart ==
  /\ restarts < MaxRestarts
  /\ restarts' = restarts + 1
  /\ at' = "boot"
  /\ rx_armed' = FALSE
  /\ taken' = NoFrame
  /\ UNCHANGED <<chip, delivered, went, disturbed, arrived, sends, errors>>

(* what the driver does when it is called and every command works *)
Driver ==
  \/ PollQuiet \/ PollInterrupt
  \/ ReadFlags \/ ReadStatus \/ ReadData \/ ClearInterrupt \/ Rearm
  \/ SetParams \/ WriteBuffer \/ ClearBeforeSend \/ StartSending
  \/ SendDone \/ SendTimeout \/ SendSucceeds
  \/ Configure

Next ==
  \/ Driver
  \/ SendBegins
  \/ ConfigureFails \/ CommandFails \/ Restart
  \/ ChipReceives \/ ChipTransmits

Spec == Init /\ [][Next]_vars

(* every driver function runs to its end, and the main loop keeps polling *)
FairSpec == Spec /\ WF_vars(Driver)

-----------------------------------------------------------------------------
TypeOK ==
  /\ mode \in {"standby", "rx", "tx"}
  /\ irq \subseteq Flag
  /\ fifo \in Frame /\ taken \in Frame /\ delivered \subseteq Frame
  /\ buffer \in 0 .. MaxSends /\ on_air \in 0 .. MaxSends
  /\ went \subseteq 0 .. MaxSends
  /\ rx_armed \in BOOLEAN /\ disturbed \in BOOLEAN
  /\ at \in {"boot", "dead", "idle"} \cup Receiving \cup Sending
  /\ arrived \in 0 .. MaxFrames
  /\ sends \in 0 .. MaxSends
  /\ errors \in 0 .. MaxErrors
  /\ restarts \in 0 .. MaxRestarts
  /\ taken # NoFrame => at \in {"data", "clear", "rearm"}

(* rx_armed never promises reception the chip does not provide: a poll     *)
(* that trusts it (sx1262_poll_receive skips SET_RX) leaves no node deaf,  *)
(* whichever commands failed before.                                       *)
ArmedMeansListening == rx_armed => mode = "rx"

AboutToDeliver == at = "rearm" /\ taken # NoFrame

(* The transport is given each frame at most once, although a poll whose   *)
(* command fails leaves the frame in the chip and its interrupt pending.   *)
DeliveredAtMostOnce ==
  AboutToDeliver => \A f \in delivered : f.id # taken.id

(* A frame with a bad checksum reaches the transport only when it, or the  *)
(* frame that overwrote its bytes, arrived after the flags were read and   *)
(* before the data was.                                                    *)
CorruptOnlyWhenOvertaken ==
  AboutToDeliver /\ taken.kind = "corrupt" => disturbed

(* Without a failed command, a node never takes the bytes of its own       *)
(* outgoing frame for a received one, although both buffers share their    *)
(* memory and a send may interrupt a pending reception.                    *)
SpoiledOnlyAfterError ==
  AboutToDeliver /\ taken.kind = "spoiled" => errors > 0

(* Every damaged frame that reaches the transport has one of these two     *)
(* explanations.                                                           *)
DamageIsExplained == CorruptOnlyWhenOvertaken /\ SpoiledOnlyAfterError

(* sx1262_send_frame reports LORA_OK only for a frame that left the        *)
(* antenna whole, unless the chip finished another frame between the write *)
(* of this one and the start of its transmission.                          *)
SendTellsTruth == at = "done" => sends \in went \/ disturbed

(* Once frames, sends, errors and resets stop, a node that got through its *)
(* initialization listens with no interrupt left pending.                  *)
EventuallyListens ==
  <>[](at = "dead" \/ (mode = "rx" /\ rx_armed /\ irq = {}))

-----------------------------------------------------------------------------
(***************************************************************************)
(* The driver against the reference models of src/proofs/lora.  The models *)
(* take what a whole call saw at once; here the chip may come between any  *)
(* two commands, and each step must decide what the model decides from     *)
(* what that step saw.                                                     *)
(***************************************************************************)

(* lengths a frame of this kind may have *)
Lengths(f) == IF f.kind = "long" THEN {0, PAYLOAD_MAX + 1} ELSE 1 .. PAYLOAD_MAX

PollOf(initialized, flags, rx_len) ==
  sx1262_poll_model(initialized, TRUE, PAYLOAD_MAX, flags # {}, flags, rx_len)

ContractTables ==
  /\ prove_polls /\ prove_sends /\ prove_interface_polls /\ prove_interface_sends
  /\ prove_initializations /\ prove_interface_init

(* the steps of a call that did not end in a failed command *)
Worked == errors' = errors /\ restarts' = restarts

PollStepFollows ==
  /\ at = "flags" => (at' = "status" <=> PollOf(TRUE, irq, 1) = "OK")
  /\ at = "status" =>
       \A len \in Lengths(fifo) : at' = "data" <=> PollOf(TRUE, {"rx_done"}, len) = "OK"
  /\ delivered' # delivered =>
       poll_model(at # "dead", PollOf(at # "dead", {"rx_done"}, 1), 1, "UPDATED")
         = <<"UPDATED", 1>>
  /\ at = "idle" /\ irq = {} => at' # "flags" /\ PollOf(TRUE, irq, 1) = "NO_PACKET"

SendStepFollows ==
  LET sent == sx1262_send_model(TRUE, 1, <<irq>>)
  IN  at = "wait" => /\ at' = "done" <=> send_model(TRUE, sent, 1) = <<"OK", 1>>
                     /\ at' = "idle" <=> send_model(TRUE, sent, 1) = <<"TX_TIMEOUT", 0>>

(* Every poll and every send decides as the reference models decide, also  *)
(* when the chip changes its flags, or the frame in its buffer, between    *)
(* two commands of one call; and a node whose initialization failed stays  *)
(* not initialized, as the model of lora_interface_init says: it neither   *)
(* polls nor sends until it is reset.                                      *)
RadioFollowsContract ==
  [][/\ ContractTables
     /\ Worked /\ at' # at => PollStepFollows /\ SendStepFollows
     /\ at = "boot" /\ at' # at =>
          LET status == IF errors' = errors THEN "OK" ELSE "SPI_TIMEOUT"
          IN  init_model(status)[2] <=> at' = "idle"
     /\ at = "dead" =>
          /\ PollOf(FALSE, irq, 1) = "NOT_INITIALIZED"
          /\ at' \in {"dead", "boot"} /\ sends' = sends /\ delivered' = delivered]_vars
=============================================================================

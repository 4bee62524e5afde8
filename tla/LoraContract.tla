----------------------------- MODULE LoraContract -----------------------------
(***************************************************************************)
(* The reference models of src/proofs/gpio, src/proofs/spi and             *)
(* src/proofs/lora, from the pins up to the interface.  A mask is the set  *)
(* of its pins, a status the end of its name, a block of bytes its length. *)
(*                                                                         *)
(* The commands of the radio with the bytes they carry: what sx1262_init   *)
(* configures (include/lora.S), and what one sending and one reception put *)
(* on the bus.                                                             *)
(***************************************************************************)
EXTENDS SequencesExt, Encodings

CONSTANTS
  MAX_TRANSFER,   \* SPI_MAX_TRANSFER: bytes in one transfer
  PAYLOAD_MAX,    \* SX1262_BENCH_PAYLOAD_MAX: bytes in one frame
  TIMEOUT_DEFAULT, \* SX1262_COMMAND_TIMEOUT_DEFAULT, SX1262_BUSY_TIMEOUT_DEFAULT
  INIT_COMMANDS   \* commands of sx1262_init, fifteen

ASSUME LoraContractAssumption ==
  /\ MAX_TRANSFER \in Nat
  /\ PAYLOAD_MAX = MAX_TRANSFER - 3
  /\ PAYLOAD_MAX >= 3   \* the frame of three bytes in the tables is not too long
  /\ TIMEOUT_DEFAULT \in Nat \ {0}
  /\ INIT_COMMANDS \in Nat \ {0}

-----------------------------------------------------------------------------
(* gpio_contract.py *)

PIN_LIMIT == 31
NSS == 0
DIO1 == 5
BUSY == 6
NRST == 7

Pin == {NSS, DIO1, BUSY, NRST}

output_allowed(pin) == pin \in 0 .. PIN_LIMIT - 1 /\ pin \in {NSS, NRST}

input_allowed(pin) == pin \in 0 .. PIN_LIMIT - 1 /\ pin \in {DIO1, BUSY}

config_output(pin, configured, direction) ==
  IF output_allowed(pin)
    THEN <<"OK", configured \cup {pin}, direction \cup {pin}>>
    ELSE <<"ERR", configured, direction>>

config_input(pin, configured, direction) ==
  IF input_allowed(pin)
    THEN <<"OK", configured \cup {pin}, direction \ {pin}>>
    ELSE <<"ERR", configured, direction>>

write(pin, level_value, configured, direction, level) ==
  IF /\ level_value \in {0, 1}
     /\ output_allowed(pin)
     /\ pin \in configured \cap direction
    THEN <<"OK", IF level_value = 1 THEN level \cup {pin} ELSE level \ {pin}>>
    ELSE <<"ERR", level>>

read_pin(pin, configured, direction, level) ==
  IF input_allowed(pin) /\ pin \in configured \ direction
    THEN IF pin \in level THEN 1 ELSE 0
    ELSE -1

(* its tables: which pins may be what, and what is refused *)
prove_masks ==
  \A pin \in 0 .. PIN_LIMIT :
    /\ output_allowed(pin) <=> pin \in {0, 7}
    /\ input_allowed(pin) <=> pin \in {5, 6}

prove_pins ==
  LET out == config_output(0, {}, {})
      high == write(0, 1, out[2], out[3], {})
      in == config_input(6, out[2], out[3])
  IN  /\ out = <<"OK", {0}, {0}>> /\ high = <<"OK", {0}>>
      /\ write(0, 0, out[2], out[3], high[2]) = <<"OK", {}>>
      /\ in[1] = "OK" /\ in[2] = {0, 6}
      /\ read_pin(6, in[2], in[3], {6}) = 1 /\ read_pin(6, in[2], in[3], {}) = 0
      /\ \A pin \in {-1, 1, 4, 8, 12, 15, 21, 31} :
           /\ config_output(pin, {}, {})[1] = "ERR"
           /\ config_input(pin, {}, {})[1] = "ERR"
           /\ write(pin, 1, {}, {}, {})[1] = "ERR"
           /\ read_pin(pin, {}, {}, {}) = -1
      /\ write(7, 2, {7}, {7}, {})[1] = "ERR"
      /\ write(7, 1, {}, {}, {})[1] = "ERR"
      /\ read_pin(5, {}, {}, {}) = -1

-----------------------------------------------------------------------------
(* spi_contract.py: the status, the bytes sent and the transfers counted *)

transfer_model(initialized, has_tx, has_rx, length, timeout, force_timeout) ==
  IF length = 0 THEN <<"OK", 0, 0>>
  ELSE IF length > MAX_TRANSFER THEN <<"OVERFLOW", 0, 0>>
  ELSE IF ~ initialized \/ ~ (has_tx \/ has_rx) THEN <<"INVAL", 0, 0>>
  ELSE IF timeout = 0 \/ force_timeout THEN <<"TIMEOUT", 0, 0>>
  ELSE <<"OK", length, 1>>

prove_transfers ==
  /\ transfer_model(TRUE, TRUE, TRUE, 4, 10, FALSE) = <<"OK", 4, 1>>
  /\ transfer_model(TRUE, FALSE, TRUE, 3, 10, FALSE) = <<"OK", 3, 1>>
  /\ transfer_model(FALSE, TRUE, TRUE, 1, 10, FALSE)[1] = "INVAL"
  /\ transfer_model(TRUE, FALSE, FALSE, 1, 10, FALSE)[1] = "INVAL"
  /\ transfer_model(TRUE, TRUE, TRUE, MAX_TRANSFER + 1, 10, FALSE)[1] = "OVERFLOW"
  /\ transfer_model(TRUE, TRUE, TRUE, 1, 0, FALSE)[1] = "TIMEOUT"
  /\ transfer_model(TRUE, TRUE, TRUE, 1, 10, TRUE)[1] = "TIMEOUT"
  /\ transfer_model(FALSE, FALSE, FALSE, 0, 0, FALSE)[1] = "OK"

-----------------------------------------------------------------------------
(* sx1262_command_contract.py and sx1262_reset_contract.py: the status,    *)
(* the length of the transfer asked for and the outputs left high          *)

(* the loop that polls BUSY, over the values it reads *)
wait_busy_model(busy_sequence, timeout) ==
  LET budget == IF timeout = 0 THEN TIMEOUT_DEFAULT ELSE timeout
      ends(i) == busy_sequence[i] <= 0
      first == CHOOSE i \in DOMAIN busy_sequence :
                 ends(i) /\ \A j \in 1 .. i - 1 : ~ ends(j)
  IN  IF \A i \in DOMAIN busy_sequence : ~ ends(i) \/ i > budget + 1
        THEN "BUSY_TIMEOUT"
      ELSE IF busy_sequence[first] < 0 THEN "GPIO" ELSE "OK"

command_status(spi_status) ==
  IF spi_status = "OK" THEN "OK"
  ELSE IF spi_status = "TIMEOUT" THEN "SPI_TIMEOUT" ELSE "SPI"

(* both command models wait and transfer alike once their arguments are    *)
(* accepted                                                                *)
command_model(valid, total, busy_sequence, timeout, spi_status) ==
  LET busy_status == wait_busy_model(busy_sequence, timeout)
  IN  IF ~ valid THEN <<"INVAL", 0, {}>>
      ELSE IF busy_status # "OK" THEN <<busy_status, 0, {NSS}>>
      ELSE <<command_status(spi_status), total, {NSS}>>

command_write_model(opcode, payload_len, has_payload, polls, timeout, spi_status) ==
  command_model(
    /\ opcode <= 255 /\ payload_len <= MAX_TRANSFER - 1
    /\ payload_len > 0 => has_payload,
    payload_len + 1, polls, timeout, spi_status)

command_read_model(opcode, req_len, has_req, rx_len, has_rx, polls, timeout, spi) ==
  command_model(
    /\ opcode <= 255 /\ req_len <= MAX_TRANSFER /\ rx_len <= MAX_TRANSFER
    /\ rx_len > 0 /\ has_rx
    /\ req_len > 0 => has_req
    /\ 1 + req_len + rx_len <= MAX_TRANSFER,
    1 + req_len + rx_len, polls, timeout, spi)

prove_commands ==
  /\ command_write_model(138, 3, TRUE, <<0>>, 3, "OK") = <<"OK", 4, {NSS}>>
  /\ command_write_model(256, 0, FALSE, <<0>>, 3, "OK")[1] = "INVAL"
  /\ command_write_model(138, MAX_TRANSFER, TRUE, <<0>>, 3, "OK")[1] = "INVAL"
  /\ command_write_model(138, 1, FALSE, <<0>>, 3, "OK")[1] = "INVAL"
  /\ command_write_model(128, 0, FALSE, <<1, 1, 1>>, 3, "OK")[1] = "BUSY_TIMEOUT"
  /\ command_write_model(128, 0, FALSE, <<0>>, 3, "TIMEOUT")[1] = "SPI_TIMEOUT"
  /\ command_read_model(29, 2, TRUE, 2, TRUE, <<0>>, 3, "OK") = <<"OK", 5, {NSS}>>
  /\ command_read_model(29, 2, TRUE, MAX_TRANSFER - 2, TRUE, <<0>>, 3, "OK")[1]
       = "INVAL"
  /\ command_read_model(29, 0, FALSE, 0, TRUE, <<0>>, 3, "OK")[1] = "INVAL"
  /\ command_read_model(29, 1, FALSE, 1, TRUE, <<0>>, 3, "OK")[1] = "INVAL"
  /\ command_read_model(29, 0, FALSE, 1, FALSE, <<0>>, 3, "OK")[1] = "INVAL"
  /\ command_read_model(29, 0, FALSE, 1, TRUE, <<0>>, 3, "TIMEOUT")[1] = "SPI_TIMEOUT"

(* the status, and the pins configured, driven and high *)
reset_model(busy_sequence, budget) ==
  LET status == wait_busy_model(busy_sequence, budget)
  IN  <<status, {NRST, BUSY}, {NRST},
        IF status = "BUSY_TIMEOUT" THEN {NRST, BUSY} ELSE {NRST}>>

prove_resets ==
  /\ reset_model(<<0>>, 3) = <<"OK", {NRST, BUSY}, {NRST}, {NRST}>>
  /\ reset_model(<<1, 1, 1>>, 2) = <<"BUSY_TIMEOUT", {NRST, BUSY}, {NRST}, {NRST, BUSY}>>
  /\ reset_model(<<0>>, 0)[1] = "OK"
  /\ reset_model(<<-1>>, 3)[1] = "GPIO"

-----------------------------------------------------------------------------
(* sx1262_init_contract.py and lora_interface_init_contract.py: the status *)
(* and whether the radio is initialized                                    *)

sx1262_init_model(busy_low, command_statuses) ==
  IF ~ busy_low THEN <<"BUSY_TIMEOUT", FALSE>>
  ELSE LET failed(i) == command_statuses[i] # "OK"
           first == CHOOSE i \in DOMAIN command_statuses :
                      failed(i) /\ \A j \in 1 .. i - 1 : ~ failed(j)
       IN  IF \A i \in DOMAIN command_statuses : ~ failed(i) THEN <<"OK", TRUE>>
           ELSE <<command_statuses[first], FALSE>>

prove_initializations ==
  LET all == [i \in 1 .. INIT_COMMANDS |-> "OK"]
  IN  /\ sx1262_init_model(TRUE, all) = <<"OK", TRUE>>
      /\ sx1262_init_model(FALSE, all)[1] = "BUSY_TIMEOUT"
      /\ sx1262_init_model(TRUE, [all EXCEPT ![(INIT_COMMANDS + 1) \div 2] = "SPI_TIMEOUT"])
           = <<"SPI_TIMEOUT", FALSE>>

init_model(sx1262_status) ==
  <<sx1262_status, sx1262_status = "OK", sx1262_status>>

prove_interface_init ==
  /\ init_model("OK") = <<"OK", TRUE, "OK">>
  /\ \A status \in {"GPIO", "BUSY_TIMEOUT", "SPI_TIMEOUT", "SPI"} :
       init_model(status) = <<status, FALSE, status>>

-----------------------------------------------------------------------------
(* sx1262_poll_receive_contract.py, sx1262_send_frame_contract.py          *)

sx1262_poll_model(initialized, output_nonnull, output_cap, dio1_high, irq, rx_len) ==
  IF ~ initialized THEN "NOT_INITIALIZED"
  ELSE IF ~ output_nonnull \/ output_cap = 0 THEN "INVAL"
  ELSE IF ~ dio1_high THEN "NO_PACKET"
  ELSE IF irq \cap {"header_err", "crc_err"} # {} THEN "CRC"
  ELSE IF "timeout" \in irq \/ "rx_done" \notin irq \/ rx_len = 0 THEN "NO_PACKET"
  ELSE IF rx_len > output_cap \/ rx_len > PAYLOAD_MAX THEN "OVERFLOW"
  ELSE "OK"

prove_polls ==
  LET done == {"rx_done"}
  IN  /\ sx1262_poll_model(TRUE, TRUE, 4, TRUE, done, 2) = "OK"
      /\ sx1262_poll_model(FALSE, TRUE, 4, TRUE, done, 2) = "NOT_INITIALIZED"
      /\ sx1262_poll_model(TRUE, FALSE, 4, TRUE, done, 2) = "INVAL"
      /\ sx1262_poll_model(TRUE, TRUE, 0, TRUE, done, 2) = "INVAL"
      /\ sx1262_poll_model(TRUE, TRUE, 4, FALSE, done, 2) = "NO_PACKET"
      /\ sx1262_poll_model(TRUE, TRUE, 4, TRUE, {"crc_err"}, 2) = "CRC"
      /\ sx1262_poll_model(TRUE, TRUE, 4, TRUE, {"timeout"}, 2) = "NO_PACKET"
      /\ sx1262_poll_model(TRUE, TRUE, 4, TRUE, {}, 2) = "NO_PACKET"
      /\ sx1262_poll_model(TRUE, TRUE, 4, TRUE, done, 0) = "NO_PACKET"
      /\ sx1262_poll_model(TRUE, TRUE, 1, TRUE, done, 2) = "OVERFLOW"
      /\ sx1262_poll_model(TRUE, TRUE, PAYLOAD_MAX + 2, TRUE, done, PAYLOAD_MAX + 1)
           = "OVERFLOW"

(* over the interrupt flags the polls after SET_TX read *)
sx1262_send_model(initialized, frame_len, irq_sequence) ==
  LET settled(i) == irq_sequence[i] \cap {"tx_done", "timeout"} # {}
  IN  IF ~ initialized THEN "NOT_INITIALIZED"
      ELSE IF frame_len = 0 THEN "INVAL"
      ELSE IF frame_len > PAYLOAD_MAX THEN "OVERFLOW"
      ELSE IF \E i \in DOMAIN irq_sequence :
                /\ "tx_done" \in irq_sequence[i]
                /\ \A j \in 1 .. i - 1 : ~ settled(j)
        THEN "OK"
      ELSE "TX_TIMEOUT"

prove_sends ==
  /\ sx1262_send_model(TRUE, 3, <<{"tx_done"}>>) = "OK"
  /\ sx1262_send_model(FALSE, 3, <<{"tx_done"}>>) = "NOT_INITIALIZED"
  /\ sx1262_send_model(TRUE, 0, <<{"tx_done"}>>) = "INVAL"
  /\ sx1262_send_model(TRUE, PAYLOAD_MAX + 1, <<{"tx_done"}>>) = "OVERFLOW"
  /\ sx1262_send_model(TRUE, 3, <<{"timeout"}>>) = "TX_TIMEOUT"
  /\ sx1262_send_model(TRUE, 3, <<{}, {}>>) = "TX_TIMEOUT"

-----------------------------------------------------------------------------
(* lora_interface_poll_contract.py and lora_interface_send_contract.py;    *)
(* what the driver returned is a length, or a negative status              *)

poll_model(interface_ready, radio_result, radio_len, dispatch_status) ==
  IF ~ interface_ready THEN <<"NOT_INITIALIZED", 0>>
  ELSE IF radio_result # "OK" THEN <<radio_result, 0>>
  ELSE <<dispatch_status, radio_len>>

prove_interface_polls ==
  /\ poll_model(FALSE, "OK", 2, "UPDATED") = <<"NOT_INITIALIZED", 0>>
  /\ poll_model(TRUE, "NO_PACKET", 0, "UPDATED") = <<"NO_PACKET", 0>>
  /\ poll_model(TRUE, "CRC", 0, "UPDATED") = <<"CRC", 0>>
  /\ poll_model(TRUE, "OK", 2, "UPDATED") = <<"UPDATED", 2>>
  /\ poll_model(TRUE, "OK", 2, "ERR_INVAL") = <<"ERR_INVAL", 2>>

send_model(interface_ready, sx1262_status, packet_len) ==
  IF ~ interface_ready THEN <<"NOT_INITIALIZED", 0>>
  ELSE <<sx1262_status, IF sx1262_status = "OK" THEN packet_len ELSE 0>>

prove_interface_sends ==
  /\ send_model(TRUE, "OK", 3) = <<"OK", 3>>
  /\ send_model(FALSE, "OK", 3) = <<"NOT_INITIALIZED", 0>>
  /\ send_model(TRUE, "INVAL", 3) = <<"INVAL", 0>>
  /\ send_model(TRUE, "OVERFLOW", PAYLOAD_MAX + 1) = <<"OVERFLOW", 0>>
  /\ send_model(TRUE, "TX_TIMEOUT", 3) = <<"TX_TIMEOUT", 0>>

-----------------------------------------------------------------------------
SPI_MAX_TRANSFER == 256
SX1262_BENCH_PAYLOAD_MAX == 253

Opcode ==
  [CLEAR_IRQ_STATUS     |-> 2,   SET_DIO_IRQ_PARAMS |-> 8,   WRITE_BUFFER     |-> 14,
   GET_IRQ_STATUS       |-> 18,  GET_RX_BUFFER_STATUS |-> 19, READ_BUFFER     |-> 30,
   SET_STANDBY          |-> 128, SET_RX             |-> 130, SET_TX           |-> 131,
   SET_RF_FREQUENCY     |-> 134, SET_PACKET_TYPE    |-> 138, SET_MOD_PARAMS   |-> 139,
   SET_PACKET_PARAMS    |-> 140, SET_TX_PARAMS      |-> 142, SET_BUFFER_BASE  |-> 143,
   SET_RXTX_FALLBACK    |-> 147, SET_PA_CONFIG      |-> 149, SET_REGULATOR_MODE |-> 150,
   CALIBRATE_IMAGE      |-> 152, SET_DIO2_RF_SWITCH |-> 157, GET_STATUS       |-> 192]

(* in steps of the synthesizer, 2^25 of which are 32 MHz *)
RfFrequencyWord(megahertz) == megahertz * 2^20

FrequencyMHz == 915
IRQ == [tx_done |-> 1, rx_done |-> 2, header_err |-> 32, crc_err |-> 64, timeout |-> 512]
FlagsIn(mask) == {flag \in DOMAIN IRQ : (mask \div IRQ[flag]) % 2 = 1}

IrqMask == <<2, 99>>   \* SX1262_IRQ_MASK_BENCH, which init spells out as bytes

PacketParams(length) == <<0, 12, 0, length, 1, 0>>

(* what sx1262_init writes, command by command *)
InitWrites ==
  << <<"SET_STANDBY", <<0>> >>, <<"SET_REGULATOR_MODE", <<1>> >>,
     <<"SET_DIO2_RF_SWITCH", <<1>> >>, <<"SET_PA_CONFIG", <<4, 7, 0, 1>> >>,
     <<"SET_RXTX_FALLBACK", <<32>> >>, <<"CALIBRATE_IMAGE", <<225, 233>> >>,
     <<"SET_PACKET_TYPE", <<1>> >>,
     <<"SET_RF_FREQUENCY", ToBytes(RfFrequencyWord(FrequencyMHz), 4)>>,
     <<"SET_TX_PARAMS", <<7, 4>> >>, <<"SET_MOD_PARAMS", <<8, 4, 1, 0>> >>,
     <<"SET_PACKET_PARAMS", PacketParams(SX1262_BENCH_PAYLOAD_MAX)>>,
     <<"SET_BUFFER_BASE", <<0, 0>> >>, <<"CLEAR_IRQ_STATUS", <<255, 255>> >>,
     <<"SET_DIO_IRQ_PARAMS", IrqMask \o IrqMask \o <<0, 0, 0, 0>> >> >>

WrittenBy(name) == InitWrites[CHOOSE i \in DOMAIN InitWrites : InitWrites[i][1] = name][2]

prove_profile_constants ==
  /\ WrittenBy("SET_RF_FREQUENCY") = <<57, 48, 0, 0>>
  /\ FrequencyMHz \in 4 * 225 .. 4 * 233   \* the band that CALIBRATE_IMAGE names
  /\ WrittenBy("CALIBRATE_IMAGE") = <<225, 233>>

(* opcodes are told apart, and each parameter is set after the one that    *)
(* decides what it means                                                   *)
prove_opcode_constants ==
  LET at(name) == CHOOSE i \in DOMAIN InitWrites : InitWrites[i][1] = name
  IN  /\ \A a, b \in DOMAIN Opcode : Opcode[a] = Opcode[b] => a = b
      /\ \A i \in DOMAIN InitWrites : InitWrites[i][1] \in DOMAIN Opcode
      /\ Len(InitWrites) + 1 = 15
      /\ at("SET_STANDBY") = 1
      /\ \A name \in {"SET_MOD_PARAMS", "SET_PACKET_PARAMS"} :
           at("SET_PACKET_TYPE") < at(name)

(* Every flag a reception or a sending decides on is enabled and raises    *)
(* the pin that sx1262_poll_receive looks at first, and no other is.       *)
prove_flags ==
  LET params == WrittenBy("SET_DIO_IRQ_PARAMS")
      enabled == FromBytes(SubSeq(params, 1, 2))
      on_dio1 == FromBytes(SubSeq(params, 3, 4))
  IN  /\ FlagsIn(enabled) = DOMAIN IRQ
      /\ on_dio1 = enabled
      /\ enabled = 1 + 2 + 32 + 64 + 512

-----------------------------------------------------------------------------
(* opcode, bytes written and bytes read of the commands of one sending and *)
(* one reception of length bytes                                           *)
SendCommands(length) ==
  << <<"SET_PACKET_PARAMS", 6, 0>>, <<"WRITE_BUFFER", 1 + length, 0>>,
     <<"CLEAR_IRQ_STATUS", 2, 0>>, <<"SET_TX", 3, 0>>, <<"GET_IRQ_STATUS", 0, 2>>,
     <<"CLEAR_IRQ_STATUS", 2, 0>> >>

ReceiveCommands(length) ==
  << <<"GET_IRQ_STATUS", 0, 2>>, <<"GET_RX_BUFFER_STATUS", 1, 2>>,
     <<"READ_BUFFER", 2, length>>, <<"CLEAR_IRQ_STATUS", 2, 0>>, <<"SET_RX", 3, 0>> >>

(* The longest frame just fits one transfer when it is read back; every    *)
(* command of a frame that is not too long has an opcode and fits.         *)
prove_frames_fit ==
  LET fits(command) == 1 + command[2] + command[3] <= SPI_MAX_TRANSFER
      all(commands) == \A i \in DOMAIN commands :
                         commands[i][1] \in DOMAIN Opcode /\ fits(commands[i])
  IN  /\ \A length \in 1 .. SX1262_BENCH_PAYLOAD_MAX :
           all(SendCommands(length)) /\ all(ReceiveCommands(length))
      /\ ~ all(ReceiveCommands(SX1262_BENCH_PAYLOAD_MAX + 1))
      /\ \A i \in DOMAIN InitWrites : fits(<<InitWrites[i][1], Len(InitWrites[i][2]), 0>>)

ProfileIsConsistent ==
  /\ prove_profile_constants /\ prove_opcode_constants /\ prove_flags /\ prove_frames_fit
=============================================================================

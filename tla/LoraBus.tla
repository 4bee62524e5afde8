------------------------------- MODULE LoraBus -------------------------------
(***************************************************************************)
(* What lies below one step of Radio: a command of the LoRa driver on the  *)
(* pins and the SPI peripheral.  The chip shows on BUSY that it cannot     *)
(* take a command yet; NSS low frames the bytes of one, and its rising     *)
(* edge makes the chip obey.  spi_transfer clocks a command in chunks, and *)
(* the peripheral may not finish one in time.                              *)
(***************************************************************************)
EXTENDS LoraContract

CONSTANTS
  ChunkBytes,   \* SPI_C6_CHUNK_BYTES
  MaxCalls,     \* bound on calls of the driver
  Commands      \* calls of sx1262_command_write and sx1262_command_read

ASSUME LoraBusAssumption ==
  /\ ChunkBytes \in Nat \ {0} /\ MaxCalls \in Nat
  /\ Commands \subseteq [fn : {"write", "read"}, opcode : Nat, len : Nat, ptr : BOOLEAN,
                         rx_len : Nat, rx_ptr : BOOLEAN, timeout : Nat]
  /\ \A c \in Commands : c.fn = "write" => c.rx_len = 0

VARIABLES
  configured, direction, level,   \* gpio_model_*: sets of pins
  spi_initialized,                \* spi_model_initialized
  initialized,   \* sx1262_model_initialized, and with it the interface's
  pc,            \* what the function under way does next
  call,          \* the function, with its arguments
  script,        \* calls sx1262_init has still to make
  statuses,      \* what those it made returned
  budget,        \* polls of BUSY left
  seen,          \* values of BUSY read by this call
  left,          \* bytes of the transfer still to clock
  spi_status,    \* what spi_transfer returned
  last,          \* the call that returned last, with all there is to know of it
  busy,          \* of the chip: its BUSY line
  clocked,       \* of the chip: bytes it got since NSS fell
  calls

pins == <<configured, direction, level>>
chip == <<busy, clocked>>
driver == <<pc, call, script, statuses, budget, seen, left, spi_status, last>>
vars == <<pins, spi_initialized, initialized, driver, chip, calls>>

Reset(timeout) ==
  [fn |-> "reset", opcode |-> 0, len |-> 0, ptr |-> FALSE, rx_len |-> 0,
   rx_ptr |-> FALSE, timeout |-> timeout]

Write(opcode, len, ptr, timeout) ==
  [fn |-> "write", opcode |-> opcode, len |-> len, ptr |-> ptr, rx_len |-> 0,
   rx_ptr |-> FALSE, timeout |-> timeout]

Read(opcode, len, ptr, rx_len, rx_ptr, timeout) ==
  [fn |-> "read", opcode |-> opcode, len |-> len, ptr |-> ptr,
   rx_len |-> rx_len, rx_ptr |-> rx_ptr, timeout |-> timeout]

(* sx1262_init: the reset, one command after another that is written, and  *)
(* one that reads the status                                               *)
InitScript(timeout) ==
  <<Reset(timeout)>>
    \o [i \in 1 .. INIT_COMMANDS - 1 |-> Write(128 + i, 1, TRUE, timeout)]
    \o <<Read(192, 0, FALSE, 1, TRUE, timeout)>>

Total == 1 + call.len + call.rx_len

NoCall == [call |-> Reset(0), status |-> "none", seen |-> <<>>, got |-> 0, spi |-> "none"]

Init ==
  /\ configured = {} /\ direction = {} /\ level = {}
  /\ spi_initialized = FALSE /\ initialized = FALSE
  /\ pc = "idle" /\ call = Reset(0) /\ script = <<>> /\ statuses = <<>>
  /\ budget = 0 /\ seen = <<>> /\ left = 0 /\ spi_status = "none" /\ last = NoCall
  /\ busy \in BOOLEAN /\ clocked = 0
  /\ calls = 0

-----------------------------------------------------------------------------
(* polls of BUSY a call makes after the first *)
Patience(c) == IF c.timeout = 0 THEN TIMEOUT_DEFAULT ELSE c.timeout

Enter(c) ==
  /\ call' = c
  /\ pc' = IF c.fn = "reset" THEN "reset" ELSE "args"
  /\ budget' = Patience(c)
  /\ seen' = <<>> /\ left' = 0 /\ spi_status' = "none"

(* The call under way returns, after it read BUSY as in "read" and the     *)
(* chip got so many bytes.  sx1262_init goes on with its next command, or  *)
(* passes a failure on.                                                    *)
Return(status, read, got) ==
  LET more == status = "OK" /\ Len(script) > 1
      done == status = "OK" /\ Len(script) = 1
  IN  /\ last' = [call |-> call, status |-> status, seen |-> read, got |-> got,
                  spi |-> spi_status]
      /\ statuses' = IF script = <<>> THEN <<>> ELSE Append(statuses, status)
      /\ initialized' = (initialized \/ done)
      /\ script' = IF more THEN Tail(script) ELSE <<>>
      /\ IF more
           THEN Enter(script[2])
           ELSE /\ pc' = "idle" /\ call' = Reset(0)
                /\ budget' = 0 /\ seen' = <<>> /\ left' = 0 /\ spi_status' = "none"

Stay == UNCHANGED <<call, script, statuses, left, last, initialized>>

(* lora_interface_init: sx1262_init, which begins with spi_init *)
Initialize(timeout) ==
  /\ pc = "idle" /\ calls < MaxCalls
  /\ calls' = calls + 1
  /\ initialized' = FALSE
  /\ spi_initialized' = TRUE
  /\ script' = InitScript(timeout)
  /\ statuses' = <<>>
  /\ Enter(Reset(timeout))
  /\ UNCHANGED <<pins, chip, last>>

(* sx1262_command_write, sx1262_command_read *)
Command(c) ==
  /\ pc = "idle" /\ calls < MaxCalls
  /\ calls' = calls + 1
  /\ Enter(c)
  /\ UNCHANGED <<pins, spi_initialized, initialized, script, statuses, last, chip>>

ValidFault ==   \* the opcode's byte is not counted
  /\ call.opcode <= 255 /\ call.len <= MAX_TRANSFER /\ call.rx_len <= MAX_TRANSFER
  /\ call.len > 0 => call.ptr
  /\ call.fn = "read" => call.rx_len > 0 /\ call.rx_ptr /\ Total <= MAX_TRANSFER

Valid ==
  /\ call.opcode <= 255
  /\ call.len > 0 => call.ptr
  /\ IF call.fn = "write"
       THEN call.len <= MAX_TRANSFER - 1
       ELSE /\ call.len <= MAX_TRANSFER /\ call.rx_len \in 1 .. MAX_TRANSFER
            /\ call.rx_ptr
            /\ Total <= MAX_TRANSFER

CheckArguments ==
  /\ pc = "args"
  /\ \/ Valid /\ pc' = "pins" /\ Stay /\ UNCHANGED <<budget, seen, spi_status>>
     \/ ~ Valid /\ Return("INVAL", <<>>, 0)
  /\ UNCHANGED <<pins, spi_initialized, chip, calls>>

(* NSS driven high, BUSY read *)
PreparePins ==
  /\ pc = "pins"
  /\ configured' = configured \cup {NSS, BUSY}
  /\ direction' = (direction \cup {NSS}) \ {BUSY}
  /\ level' = level \cup {NSS}
  /\ pc' = "wait"
  /\ Stay
  /\ UNCHANGED <<spi_initialized, budget, seen, spi_status, chip, calls>>

(* the low pulse on NRST begins: the chip stops whatever it did *)
PullReset ==
  /\ pc = "reset"
  /\ configured' = configured \cup {NRST, BUSY}
  /\ direction' = (direction \cup {NRST}) \ {BUSY}
  /\ level' = level \ {NRST}
  /\ busy' = TRUE /\ clocked' = 0
  /\ pc' = "settle"
  /\ Stay
  /\ UNCHANGED <<spi_initialized, budget, seen, spi_status, calls>>

ReleaseReset ==
  /\ pc = "settle"
  /\ level' = level \cup {NRST}
  /\ pc' = "wait"
  /\ Stay
  /\ UNCHANGED <<configured, direction, spi_initialized, budget, seen, spi_status,
                 chip, calls>>

(* the values of BUSY this call read, as many as a budget allows for *)
Remember(value) ==
  IF Len(seen) > Patience(call) THEN seen ELSE Append(seen, value)

SpentFault(polls) == polls   \* the loop forgets to count

Spent(polls) == polls - 1

ReadyFault(value) == value = 0 \/ budget = 0   \* patience is taken for readiness

Ready(value) == value = 0

(* one turn of the loop that polls BUSY; after the reset, sx1262_init      *)
(* makes DIO1 an input                                                     *)
ReadBusy ==
  LET value == IF BUSY \notin configured \ direction THEN -1
               ELSE IF busy THEN 1 ELSE 0
      read == Remember(value)
  IN  /\ pc = "wait"
      /\ IF value < 0 THEN Return("GPIO", read, 0) /\ UNCHANGED configured
         ELSE \/ /\ Ready(value) /\ call.fn = "reset"
                 /\ Return("OK", read, 0)
                 /\ configured' = configured \cup {DIO1}
              \/ /\ Ready(value) /\ call.fn # "reset"
                 /\ pc' = "select" /\ seen' = read
                 /\ Stay /\ UNCHANGED <<configured, budget, spi_status>>
              \/ /\ ~ Ready(value) /\ budget = 0
                 /\ Return("BUSY_TIMEOUT", read, 0)
                 /\ UNCHANGED configured
              \/ /\ ~ Ready(value) /\ budget # 0
                 /\ budget' = Spent(budget)
                 /\ seen' = read
                 /\ Stay /\ UNCHANGED <<configured, pc, spi_status>>
      /\ UNCHANGED <<direction, level, spi_initialized, chip, calls>>

(* NSS falls, and spi_transfer looks at its arguments *)
Select ==
  /\ pc = "select"
  /\ level' = level \ {NSS}
  /\ clocked' = 0
  /\ \/ spi_initialized /\ pc' = "clock" /\ left' = Total /\ UNCHANGED spi_status
     \/ ~ spi_initialized /\ pc' = "deselect" /\ spi_status' = "INVAL" /\ UNCHANGED left
  /\ UNCHANGED <<configured, direction, spi_initialized, initialized, call, script,
                 statuses, budget, seen, last, busy, calls>>

(* A chunk of the transfer.  When the peripheral does not report its end   *)
(* in time, the chunk may have gone out all the same.                      *)
ClockChunk ==
  LET chunk == IF left < ChunkBytes THEN left ELSE ChunkBytes
  IN  /\ pc = "clock"
      /\ left' = left - chunk
      /\ \/ /\ clocked' = clocked + chunk
            /\ IF left' > 0 THEN UNCHANGED <<pc, spi_status>>
                            ELSE pc' = "deselect" /\ spi_status' = "OK"
         \/ /\ clocked' \in {clocked, clocked + chunk}
            /\ pc' = "deselect" /\ spi_status' = "TIMEOUT"
      /\ UNCHANGED <<pins, spi_initialized, initialized, call, script, statuses,
                     budget, seen, last, busy, calls>>

(* NSS rises on every outcome, and the chip takes the bytes it got for a   *)
(* command                                                                 *)
Deselect ==
  /\ pc = "deselect"
  /\ level' = level \cup {NSS}
  /\ clocked' = 0
  /\ busy' \in (IF clocked > 0 THEN BOOLEAN ELSE {busy})
  /\ Return(IF spi_status = "OK" THEN "OK"
            ELSE IF spi_status = "TIMEOUT" THEN "SPI_TIMEOUT" ELSE "SPI",
            seen, clocked)
  /\ UNCHANGED <<configured, direction, spi_initialized, calls>>

(* the chip is done with its reset or with a command *)
ChipReady ==
  /\ busy
  /\ busy' = FALSE
  /\ UNCHANGED <<pins, spi_initialized, initialized, driver, clocked, calls>>

Driver ==
  \/ CheckArguments \/ PreparePins \/ PullReset \/ ReleaseReset \/ ReadBusy
  \/ Select \/ ClockChunk \/ Deselect

Next ==
  \/ Driver
  \/ \E timeout \in {0, 1} : Initialize(timeout)
  \/ \E c \in Commands : Command(c)
  \/ ChipReady

Spec == Init /\ [][Next]_vars

(* the driver runs on, whatever the chip does *)
FairSpec == Spec /\ WF_vars(Driver)

-----------------------------------------------------------------------------
TotalOf(c) == 1 + c.len + c.rx_len

(* What a command reports is what the chip got: all of its bytes on        *)
(* LORA_OK, none on any error but an SPI timeout, and never a byte while   *)
(* BUSY was high; between commands NSS is high, also after a transfer that *)
(* failed half way, so no later command is taken for the rest of it.  The  *)
(* same holds within sx1262_init, which ends initialized exactly when all  *)
(* its commands were obeyed.                                               *)
ChipGetsWhatIsReported ==
  /\ last.call.fn # "reset" /\ last # NoCall =>
       /\ last.status = "OK" => last.got = TotalOf(last.call)
       /\ last.status \in {"INVAL", "GPIO", "BUSY_TIMEOUT", "SPI"} => last.got = 0
  /\ pc = "clock" => ~ busy
  /\ NSS \in configured /\ pc \notin {"clock", "deselect"} => NSS \in level /\ clocked = 0

ModelsAreConsistent ==
  /\ ProfileIsConsistent
  /\ prove_masks /\ prove_pins /\ prove_transfers /\ prove_commands
  /\ prove_resets /\ prove_initializations /\ prove_interface_init

CallsFollowContract ==
  LET c == last.call
      wrote == command_write_model(c.opcode, c.len, c.ptr, last.seen, c.timeout, last.spi)
      read == command_read_model(c.opcode, c.len, c.ptr, c.rx_len, c.rx_ptr,
                                 last.seen, c.timeout, last.spi)
      was_reset == reset_model(last.seen, c.timeout)
      obeyed == IF c.fn = "write" THEN wrote ELSE read
      ended == sx1262_init_model(TRUE, Tail(statuses))
  IN  /\ \A pin \in Pin :
           /\ pin \in configured \cap direction => output_allowed(pin)
           /\ pin \in configured \ direction => input_allowed(pin)
      /\ last # NoCall /\ c.fn # "reset" =>
           /\ last.status = obeyed[1]
           /\ last.status = "OK" => last.got = obeyed[2]
           /\ pc = "idle" => obeyed[3] \subseteq level
      /\ last # NoCall /\ c.fn = "reset" =>
           /\ last.status = was_reset[1]
           /\ was_reset[2] \subseteq configured
           /\ was_reset[3] \subseteq direction
           /\ pc = "idle" => was_reset[3] \subseteq level
      /\ pc = "idle" /\ statuses # <<>> =>
           IF statuses[1] # "OK"
             THEN ~ initialized
             ELSE init_model(ended[1]) = <<ended[1], initialized, ended[1]>>

(* The call that returned last, and the whole initialization it may have   *)
(* belonged to, gave what the reference models of src/proofs give for the  *)
(* values of BUSY and the outcome of the transfer it saw, and the pins     *)
(* show what those models leave on them.                                   *)
BusFollowsContract == ModelsAreConsistent /\ CallsFollowContract

(* A chip whose BUSY line is stuck, or a peripheral that never finishes,   *)
(* does not hang the node: every call of the driver returns.               *)
EveryCallReturns == (pc # "idle") ~> (pc = "idle")
=============================================================================

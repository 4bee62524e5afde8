----------------------------- MODULE RadioProofs -----------------------------
(***************************************************************************)
(* The driver's invariants, for any number of frames, sends, failed        *)
(* commands and resets.                                                    *)
(***************************************************************************)
EXTENDS Radio, TLAPS

(* the receiver is armed only between calls *)
Armed == rx_armed => at = "idle" /\ mode = "rx"

Numbered ==
  /\ fifo.id = arrived
  /\ \A f \in delivered : f.id <= arrived
  /\ taken.id <= arrived

(* an interrupt for a received frame is pending, so that frame is news *)
PendingIsNews ==
  "rx_done" \in irq => \A f \in delivered : f.id # fifo.id

TakenIsNews ==
  /\ at = "data" => taken # NoFrame
  /\ at = "status" => "rx_done" \in irq
  /\ taken # NoFrame =>
       /\ \A f \in delivered : f.id # taken.id
       /\ at = "rearm" /\ "rx_done" \in irq => taken.id # fifo.id

Checked ==
  /\ "rx_done" \in irq /\ fifo.kind = "corrupt" => "crc_err" \in irq
  /\ at = "status" /\ fifo.kind = "corrupt" => disturbed
  /\ at = "data" /\ fifo.id # taken.id => disturbed
  /\ taken.kind = "corrupt" => disturbed

Spoils ==
  /\ fifo.kind = "spoiled" /\ "rx_done" \in irq => errors > 0 \/ at \in {"ready", "boot"}
  /\ taken.kind = "spoiled" => errors > 0

SendProgress ==
  /\ at \in {"ready", "start"} => buffer = sends \/ disturbed
  /\ at = "start" /\ "tx_done" \in irq => disturbed
  /\ at = "wait" =>
       \/ sends \in went
       \/ disturbed
       \/ mode = "tx" /\ on_air = sends /\ "tx_done" \notin irq
  /\ at = "done" => sends \in went \/ disturbed

(* every part but the types *)
Relations ==
  /\ Armed /\ Numbered /\ PendingIsNews /\ TakenIsNews /\ Checked /\ Spoils
  /\ SendProgress

RInv == TypeOK /\ Relations

-----------------------------------------------------------------------------
USE RadioAssumption DEF RadioAssumption, Frame, Kind, Flag, NoFrame, Receiving, Sending

LEMMA RInvInit == Init => RInv
<1> SUFFICES ASSUME Init PROVE RInv
  OBVIOUS
<1>1. TypeOK
  <2>1. fifo \in Frame /\ taken \in Frame
    BY DEF Init
  <2>2. 0 \in 0 .. MaxFrames /\ 0 \in 0 .. MaxSends /\ 0 \in 0 .. MaxErrors /\ 0 \in 0 .. MaxRestarts
    OBVIOUS
  <2> QED
    BY <2>1, <2>2, Zenon DEF Init, TypeOK
<1>2. Relations
  BY DEF Init, Relations, Armed, Numbered, PendingIsNews, TakenIsNews, Checked, Spoils,
         SendProgress
<1> QED
  BY <1>1, <1>2 DEF RInv

LEMMA TypeNext == RInv /\ [Next]_vars => TypeOK'
<1> SUFFICES ASSUME RInv, [Next]_vars PROVE TypeOK'
  OBVIOUS
<1> USE DEF RInv, TypeOK, TakenIsNews, chip, counters, Moves, Obeys
<1>1. CASE PollQuiet
  BY <1>1 DEF PollQuiet
<1>2. CASE PollInterrupt
  BY <1>2 DEF PollInterrupt
<1>3. CASE ReadFlags
  BY <1>3 DEF ReadFlags
<1>4. CASE ReadStatus
  BY <1>4 DEF ReadStatus
<1>5. CASE ReadData
  BY <1>5 DEF ReadData
<1>6. CASE ClearInterrupt
  BY <1>6 DEF ClearInterrupt
<1>7. CASE Rearm
  BY <1>7 DEF Rearm
<1>8. CASE SetParams
  BY <1>8 DEF SetParams
<1>9. CASE WriteBuffer
  <2>1. fifo' \in Frame
    BY <1>9 DEF WriteBuffer
  <2>2. buffer' \in 0 .. MaxSends /\ on_air' \in 0 .. MaxSends
    BY <1>9 DEF WriteBuffer
  <2> QED
    BY <1>9, <2>1, <2>2 DEF WriteBuffer
<1>10. CASE ClearBeforeSend
  BY <1>10 DEF ClearBeforeSend
<1>11. CASE StartSending
  BY <1>11 DEF StartSending
<1>12. CASE SendDone
  BY <1>12 DEF SendDone
<1>13. CASE SendTimeout
  BY <1>13 DEF SendTimeout
<1>14. CASE SendSucceeds
  BY <1>14 DEF SendSucceeds
<1>15. CASE Configure
  BY <1>15 DEF Configure
<1>16. CASE SendBegins
  <2>1. sends' \in 0 .. MaxSends
    BY <1>16 DEF SendBegins
  <2> QED
    BY <1>16, <2>1, Zenon DEF SendBegins
<1>17. CASE ConfigureFails
  <2>1. errors' \in 0 .. MaxErrors
    BY <1>17 DEF ConfigureFails
  <2> QED
    BY <1>17, <2>1, Zenon DEF ConfigureFails
<1>18. CASE CommandFails
  BY <1>18 DEF CommandFails
<1>19. CASE Restart
  <2>1. restarts' \in 0 .. MaxRestarts
    BY <1>19 DEF Restart
  <2> QED
    BY <1>19, <2>1, Zenon DEF Restart
<1>20. CASE ChipReceives
  <2>1. arrived' \in 0 .. MaxFrames
    BY <1>20 DEF ChipReceives
  <2>2. fifo' \in Frame /\ buffer' \in 0 .. MaxSends /\ irq' \subseteq Flag
    BY <1>20 DEF ChipReceives
  <2> QED
    BY <1>20, <2>1, <2>2, Zenon DEF ChipReceives
<1>21. CASE ChipTransmits
  BY <1>21 DEF ChipTransmits
<1>22. CASE UNCHANGED vars
  BY <1>22 DEF vars
<1> QED
  BY <1>1, <1>2, <1>3, <1>4, <1>5, <1>6, <1>7, <1>8, <1>9,
     <1>10, <1>11, <1>12, <1>13, <1>14, <1>15, <1>16, <1>17, <1>18,
     <1>19, <1>20, <1>21, <1>22 DEF Next, Driver

LEMMA RelationsNext == RInv /\ [Next]_vars => Relations'
<1> SUFFICES ASSUME RInv, [Next]_vars PROVE Relations'
  OBVIOUS
<1> USE DEF RInv, TypeOK, Relations, Armed, Numbered, PendingIsNews, TakenIsNews, Checked,
       Spoils, SendProgress, chip, counters, Moves, Obeys, Present
<1>1. CASE PollQuiet
  BY <1>1 DEF PollQuiet
<1>2. CASE PollInterrupt
  BY <1>2 DEF PollInterrupt
<1>3. CASE ReadFlags
  BY <1>3 DEF ReadFlags
<1>4. CASE ReadStatus
  BY <1>4 DEF ReadStatus
<1>5. CASE ReadData
  BY <1>5 DEF ReadData
<1>6. CASE ClearInterrupt
  BY <1>6 DEF ClearInterrupt
<1>7. CASE Rearm
  BY <1>7 DEF Rearm
<1>8. CASE SetParams
  BY <1>8 DEF SetParams
<1>9. CASE WriteBuffer
  BY <1>9 DEF WriteBuffer
<1>10. CASE ClearBeforeSend
  BY <1>10 DEF ClearBeforeSend
<1>11. CASE StartSending
  BY <1>11 DEF StartSending
<1>12. CASE SendDone
  BY <1>12 DEF SendDone
<1>13. CASE SendTimeout
  BY <1>13 DEF SendTimeout
<1>14. CASE SendSucceeds
  BY <1>14 DEF SendSucceeds
<1>15. CASE Configure
  BY <1>15 DEF Configure
<1>16. CASE SendBegins
  BY <1>16 DEF SendBegins
<1>17. CASE ConfigureFails
  BY <1>17 DEF ConfigureFails
<1>18. CASE CommandFails
  BY <1>18 DEF CommandFails
<1>19. CASE Restart
  BY <1>19 DEF Restart
<1>20. CASE ChipReceives
  <2>1. Armed'
    BY <1>20 DEF ChipReceives
  <2>2. Numbered'
    BY <1>20 DEF ChipReceives
  <2>3. PendingIsNews'
    BY <1>20 DEF ChipReceives
  <2>4. TakenIsNews'
    BY <1>20 DEF ChipReceives
  <2>5. Checked'
    <3>1. /\ disturbed => disturbed'
          /\ at \in {"status", "data"} => disturbed'
      BY <1>20, Zenon DEF ChipReceives
    <3>2. fifo'.kind = "corrupt" => "crc_err" \in irq'
      BY <1>20 DEF ChipReceives
    <3>3. taken' = taken /\ at' = at
      BY <1>20, Zenon DEF ChipReceives
    <3> HIDE DEF TypeOK
    <3> QED
      BY <3>1, <3>2, <3>3
  <2>6. Spoils'
    BY <1>20 DEF ChipReceives
  <2>7. SendProgress'
    BY <1>20 DEF ChipReceives
  <2> QED
    BY <2>1, <2>2, <2>3, <2>4, <2>5, <2>6, <2>7, Zenon DEF Relations
<1>21. CASE ChipTransmits
  BY <1>21 DEF ChipTransmits
<1>22. CASE UNCHANGED vars
  BY <1>22 DEF vars
<1> QED
  BY <1>1, <1>2, <1>3, <1>4, <1>5, <1>6, <1>7, <1>8, <1>9,
     <1>10, <1>11, <1>12, <1>13, <1>14, <1>15, <1>16, <1>17, <1>18,
     <1>19, <1>20, <1>21, <1>22 DEF Next, Driver

LEMMA RInvAlways == Spec => []RInv
<1>1. RInv /\ [Next]_vars => RInv'
  BY TypeNext, RelationsNext DEF RInv
<1> QED
  BY <1>1, RInvInit, PTL DEF Spec

-----------------------------------------------------------------------------
(* The driver and the chip are always in a state of their types, and a frame
   is held by sx1262_poll_receive only between its read and its return. *)
THEOREM RadioTypeCorrect == Spec => []TypeOK
<1>1. RInv => TypeOK
  BY DEF RInv, Relations, TypeOK
<1> QED
  BY <1>1, RInvAlways, PTL

(* A node that trusts rx_armed and skips SET_RX is listening, however many
   commands failed and however often it was reset. *)
THEOREM ArmedNodesListen == Spec => []ArmedMeansListening
<1>1. RInv => ArmedMeansListening
  BY DEF RInv, Relations, Armed, ArmedMeansListening
<1> QED
  BY <1>1, RInvAlways, PTL

(* sx1262_poll_receive returns no frame twice, for any number of failed polls. *)
THEOREM FramesDeliveredAtMostOnce == Spec => []DeliveredAtMostOnce
<1>1. RInv => DeliveredAtMostOnce
  BY DEF RInv, Relations, TakenIsNews, AboutToDeliver, DeliveredAtMostOnce
<1> QED
  BY <1>1, RInvAlways, PTL

(* A bad checksum gets through only by an arrival in the middle of a poll. *)
THEOREM ChecksumsAreKept == Spec => []CorruptOnlyWhenOvertaken
<1>1. RInv => CorruptOnlyWhenOvertaken
  BY DEF RInv, Relations, Checked, AboutToDeliver, CorruptOnlyWhenOvertaken
<1> QED
  BY <1>1, RInvAlways, PTL

(* While every command works, no received frame is overwritten by a sent one
   before it is delivered. *)
THEOREM SendsSpoilNothing == Spec => []SpoiledOnlyAfterError
<1>1. RInv => SpoiledOnlyAfterError
  BY DEF RInv, Relations, Spoils, AboutToDeliver, SpoiledOnlyAfterError
<1> QED
  BY <1>1, RInvAlways, PTL

(* Damage has one of these two explanations, as the run of the radio checks. *)
THEOREM DamageAlwaysExplained == Spec => []DamageIsExplained
BY ChecksumsAreKept, SendsSpoilNothing, PTL DEF DamageIsExplained

(* LORA_OK from sx1262_send_frame means that the frame left whole, unless the
   chip finished another between its write and its start. *)
THEOREM SendsTellTheTruth == Spec => []SendTellsTruth
<1>1. RInv => SendTellsTruth
  BY DEF RInv, Relations, SendProgress, SendTellsTruth
<1> QED
  BY <1>1, RInvAlways, PTL

-----------------------------------------------------------------------------
(* The reference models of the driver *)

LEMMA PollsHold == prove_polls
BY LoraContractAssumption DEF prove_polls, sx1262_poll_model

(* a frame is out when the first flags that settle it say so *)
LEMMA SendsHold == prove_sends
<1>1. PAYLOAD_MAX \in Int /\ PAYLOAD_MAX >= 3
  BY LoraContractAssumption
<1>2. ASSUME NEW irqs, DOMAIN <<irqs>> = {1}
      PROVE  sx1262_send_model(TRUE, 3, <<irqs>>) =
               IF "tx_done" \in irqs THEN "OK" ELSE "TX_TIMEOUT"
  BY <1>1, <1>2 DEF sx1262_send_model
<1>3. \A irqs : DOMAIN <<irqs>> = {1}
  OBVIOUS
<1>4. sx1262_send_model(TRUE, 3, <<{}, {}>>) = "TX_TIMEOUT"
  <2>1. \A i \in DOMAIN <<{}, {}>> : "tx_done" \notin <<{}, {}>>[i]
    OBVIOUS
  <2> QED BY <1>1, <2>1 DEF sx1262_send_model
<1>5. /\ sx1262_send_model(TRUE, 3, <<{"tx_done"}>>) = "OK"
      /\ sx1262_send_model(TRUE, 3, <<{"timeout"}>>) = "TX_TIMEOUT"
  BY <1>2, <1>3
<1>6. /\ sx1262_send_model(FALSE, 3, <<{"tx_done"}>>) = "NOT_INITIALIZED"
      /\ sx1262_send_model(TRUE, 0, <<{"tx_done"}>>) = "INVAL"
      /\ sx1262_send_model(TRUE, PAYLOAD_MAX + 1, <<{"tx_done"}>>) = "OVERFLOW"
  BY <1>1 DEF sx1262_send_model
<1> QED BY <1>4, <1>5, <1>6 DEF prove_sends

LEMMA InterfaceCallsHold == prove_interface_polls /\ prove_interface_sends
BY DEF prove_interface_polls, prove_interface_sends, poll_model, send_model

LEMMA InitializationsHold == prove_initializations /\ prove_interface_init
<1> DEFINE all == [i \in 1 .. INIT_COMMANDS |-> "OK"]
           middle == (INIT_COMMANDS + 1) \div 2
           spoilt == [all EXCEPT ![middle] = "SPI_TIMEOUT"]
<1>1. middle \in 1 .. INIT_COMMANDS
  BY LoraContractAssumption
<1>2. sx1262_init_model(TRUE, all) = <<"OK", TRUE>>
  BY DEF sx1262_init_model
<1>3. sx1262_init_model(FALSE, all)[1] = "BUSY_TIMEOUT"
  BY DEF sx1262_init_model
<1>4. \A i \in 1 .. INIT_COMMANDS : spoilt[i] = IF i = middle THEN "SPI_TIMEOUT" ELSE "OK"
  OBVIOUS
<1>5. DOMAIN spoilt = 1 .. INIT_COMMANDS
  OBVIOUS
<1> HIDE DEF middle, spoilt, all
<1>6. middle \in DOMAIN spoilt /\ spoilt[middle] # "OK"
  BY <1>1, <1>4, <1>5
<1>7. \A first \in DOMAIN spoilt : spoilt[first] # "OK" <=> first = middle
  BY <1>1, <1>4, <1>5
<1>8. \A j \in 1 .. middle - 1 : ~ (spoilt[j] # "OK")
  BY <1>1, <1>4, LoraContractAssumption
<1>9. (CHOOSE i \in DOMAIN spoilt :
         spoilt[i] # "OK" /\ \A j \in 1 .. i - 1 : ~ (spoilt[j] # "OK")) = middle
  BY <1>6, <1>7, <1>8
<1>10. sx1262_init_model(TRUE, spoilt) = <<"SPI_TIMEOUT", FALSE>>
  <2>1. spoilt[middle] = "SPI_TIMEOUT"
    BY <1>1, <1>4
  <2> QED BY <1>6, <1>9, <2>1 DEF sx1262_init_model
<1>11. prove_initializations
  BY <1>2, <1>3, <1>10 DEF prove_initializations, all, middle, spoilt
<1>12. prove_interface_init
  BY DEF prove_interface_init, init_model
<1> QED BY <1>11, <1>12

LEMMA TablesHold == ContractTables
BY PollsHold, SendsHold, InterfaceCallsHold, InitializationsHold DEF ContractTables

-----------------------------------------------------------------------------
(* What the models decide on what one step of the driver sees *)

LEMMA PollDecides ==
  ASSUME NEW flags \in SUBSET Flag, NEW len \in Nat
  PROVE  /\ PollOf(TRUE, flags, len) = "OK" <=>
              Present(flags) /\ len \in 1 .. PAYLOAD_MAX
         /\ PollOf(FALSE, flags, len) = "NOT_INITIALIZED"
         /\ flags = {} => PollOf(TRUE, flags, len) = "NO_PACKET"
BY LoraContractAssumption DEF PollOf, sx1262_poll_model, Present

LEMMA OneByteDecides ==
  ASSUME NEW flags \in SUBSET Flag
  PROVE  PollOf(TRUE, flags, 1) = "OK" <=> Present(flags)
BY LoraContractAssumption DEF PollOf, sx1262_poll_model, Present

LEMMA SendDecides ==
  ASSUME NEW flags \in SUBSET Flag
  PROVE  sx1262_send_model(TRUE, 1, <<flags>>) =
           IF "tx_done" \in flags THEN "OK" ELSE "TX_TIMEOUT"
<1>1. DOMAIN <<flags>> = {1} /\ <<flags>>[1] = flags
  OBVIOUS
<1> QED BY <1>1, LoraContractAssumption DEF sx1262_send_model

ModelsFollowed ==
  /\ ContractTables
  /\ Worked /\ at' # at => PollStepFollows /\ SendStepFollows
  /\ at = "boot" /\ at' # at =>
       LET status == IF errors' = errors THEN "OK" ELSE "SPI_TIMEOUT"
       IN  init_model(status)[2] <=> at' = "idle"
  /\ at = "dead" =>
       /\ PollOf(FALSE, irq, 1) = "NOT_INITIALIZED"
       /\ at' \in {"dead", "boot"} /\ sends' = sends /\ delivered' = delivered

(* a step that works, from the place of the driver it starts at *)
LEMMA StepsFollow ==
  ASSUME TypeOK, Next, Worked, at' # at
  PROVE  PollStepFollows /\ SendStepFollows
<1>1. irq \in SUBSET Flag /\ fifo.kind \in Kind
  BY DEF TypeOK
<1>2. PAYLOAD_MAX \in Nat /\ PAYLOAD_MAX >= 3
  BY LoraContractAssumption
<1>3. Driver \/ SendBegins
  BY DEF Next, ConfigureFails, CommandFails, Restart, ChipReceives, ChipTransmits,
     Worked, TypeOK
<1> USE DEF Moves, Driver, PollQuiet, PollInterrupt, ReadFlags, ReadStatus, ReadData,
        ClearInterrupt, Rearm, SetParams, WriteBuffer, ClearBeforeSend, StartSending,
        SendDone, SendTimeout, SendSucceeds, Configure, SendBegins
<1>4. at = "flags" => (at' = "status" <=> PollOf(TRUE, irq, 1) = "OK")
  <2>1. at = "flags" => (at' = "status" <=> Present(irq))
    BY <1>3
  <2>2. PollOf(TRUE, irq, 1) = "OK" <=> Present(irq)
    BY <1>1, OneByteDecides
  <2> QED BY <2>1, <2>2
<1>5. ASSUME at = "status", NEW len \in Lengths(fifo)
      PROVE  at' = "data" <=> PollOf(TRUE, {"rx_done"}, len) = "OK"
  <2>1. at' = "data" <=> fifo.kind # "long"
    BY <1>3, <1>5
  <2>2. len \in Nat /\ (len \in 1 .. PAYLOAD_MAX <=> fifo.kind # "long")
    BY <1>2, <1>5 DEF Lengths
  <2>3. {"rx_done"} \in SUBSET Flag /\ Present({"rx_done"})
    BY DEF Present
  <2> QED BY <2>1, <2>2, <2>3, PollDecides
<1>6. ASSUME delivered' # delivered
      PROVE  poll_model(at # "dead", PollOf(at # "dead", {"rx_done"}, 1), 1, "UPDATED")
               = <<"UPDATED", 1>>
  <2>1. at = "rearm"
    BY <1>3, <1>6
  <2>2. {"rx_done"} \in SUBSET Flag /\ Present({"rx_done"})
    BY DEF Present
  <2>3. PollOf(TRUE, {"rx_done"}, 1) = "OK"
    BY <2>2, OneByteDecides
  <2> QED BY <2>1, <2>3 DEF poll_model
<1>7. at = "idle" /\ irq = {} => at' # "flags" /\ PollOf(TRUE, irq, 1) = "NO_PACKET"
  BY <1>1, <1>3, PollDecides
<1>8. at = "wait" =>
        /\ at' = "done" <=> "tx_done" \in irq
        /\ at' = "idle" <=> "tx_done" \notin irq
  BY <1>3
<1>9. SendStepFollows
  BY <1>1, <1>8, SendDecides DEF SendStepFollows, send_model
<1> QED BY <1>4, <1>5, <1>6, <1>7, <1>9 DEF PollStepFollows

LEMMA ModelsAreFollowed ==
  ASSUME TypeOK, Next
  PROVE  ModelsFollowed
<1>1. ASSUME at = "boot", at' # at
      PROVE  (errors' = errors /\ at' = "idle") \/ (errors' # errors /\ at' = "dead")
  BY <1>1 DEF Next, Driver, Moves, PollQuiet, PollInterrupt, ReadFlags, ReadStatus, ReadData,
     ClearInterrupt, Rearm, SetParams, WriteBuffer, ClearBeforeSend, StartSending,
     SendDone, SendTimeout, SendSucceeds, Configure, SendBegins, ConfigureFails,
     CommandFails, Restart, ChipReceives, ChipTransmits, TypeOK, counters
<1>2. ASSUME at = "dead"
      PROVE  at' \in {"dead", "boot"} /\ sends' = sends /\ delivered' = delivered
  BY <1>2 DEF Next, Driver, Moves, PollQuiet, PollInterrupt, ReadFlags, ReadStatus, ReadData,
     ClearInterrupt, Rearm, SetParams, WriteBuffer, ClearBeforeSend, StartSending,
     SendDone, SendTimeout, SendSucceeds, Configure, SendBegins, ConfigureFails,
     CommandFails, Restart, ChipReceives, ChipTransmits, TypeOK, counters
<1>3. PollOf(FALSE, irq, 1) = "NOT_INITIALIZED"
  BY DEF PollOf, sx1262_poll_model
<1>4. \A status : init_model(status)[2] <=> status = "OK"
  BY DEF init_model
<1>5. at = "boot" /\ at' # at =>
        LET status == IF errors' = errors THEN "OK" ELSE "SPI_TIMEOUT"
        IN  init_model(status)[2] <=> at' = "idle"
  BY <1>1, <1>4
<1> QED BY TablesHold, StepsFollow, <1>2, <1>3, <1>5 DEF ModelsFollowed

(* Whatever the chip does between two commands of a call, and whichever    *)
(* commands fail, each step of a poll, a send and the initialization       *)
(* decides as the reference models of the driver do.                       *)
THEOREM RadioFollowsItsModels == Spec => RadioFollowsContract
<1>1. RInv /\ [Next]_vars => [ModelsFollowed]_vars
  BY ModelsAreFollowed DEF RInv
<1> QED
  BY <1>1, RInvAlways, PTL DEF Spec, RadioFollowsContract, ModelsFollowed
=============================================================================

----------------------------- MODULE LoraBusProofs -----------------------------
(***************************************************************************)
(* Theorems about LoraBus: what the driver reports of a command is what    *)
(* the chip got and what the reference models of src/proofs give, a call   *)
(* takes no more steps than its bytes and polls, and the functions active  *)
(* fit the depth check_stack.py finds, which is exact for every graph: for *)
(* every length of chunk and of transfer and every default timeout.        *)
(***************************************************************************)
EXTENDS LoraStack, FiniteSetTheorems, SequenceTheorems, WellFoundedInduction, TLAPS

Call ==
  [fn : {"reset", "write", "read"}, opcode : Nat, len : Nat, ptr : BOOLEAN,
   rx_len : Nat, rx_ptr : BOOLEAN, timeout : Nat]

Status == {"OK", "INVAL", "GPIO", "BUSY_TIMEOUT", "SPI_TIMEOUT", "SPI"}

SpiStatus == {"none", "OK", "TIMEOUT", "INVAL"}

Values == {-1, 0, 1}

Place == {"idle", "args", "pins", "wait", "reset", "settle", "select", "clock", "deselect"}

BusTypeOK ==
  /\ configured \subseteq Pin /\ direction \subseteq Pin /\ level \subseteq Pin
  /\ spi_initialized \in BOOLEAN /\ initialized \in BOOLEAN /\ busy \in BOOLEAN
  /\ pc \in Place
  /\ call \in Call /\ script \in Seq(Call) /\ statuses \in Seq(Status)
  /\ budget \in Nat /\ left \in Nat /\ clocked \in Nat /\ calls \in Nat
  /\ seen \in Seq(Values)
  /\ spi_status \in SpiStatus
  /\ last \in [call : Call, status : Status \cup {"none"}, seen : Seq(Values), got : Nat,
               spi : SpiStatus]

Transferring == pc \in {"clock", "deselect"}

(* the arguments were found valid, and NSS was driven high *)
Prepared ==
  \/ pc \in {"select", "clock", "deselect"}
  \/ pc = "wait" /\ call.fn # "reset"

InReset ==
  \/ pc = "settle"
  \/ pc = "wait" /\ call.fn = "reset"

PinsAreRight ==
  /\ direction \subseteq {NSS, NRST} /\ configured \cap {NSS, NRST} \subseteq direction
  /\ NSS \in configured /\ ~ Transferring => NSS \in level
  /\ NRST \in configured /\ pc # "settle" => NRST \in level
  /\ Prepared => NSS \in configured
  /\ InReset => {NRST, BUSY} \subseteq configured

BytesAreCounted ==
  /\ ~ Transferring => clocked = 0
  /\ pc = "clock" => clocked + left = Total /\ left > 0
  /\ pc = "deselect" =>
       /\ spi_status \in {"OK", "TIMEOUT", "INVAL"}
       /\ spi_status = "OK" => clocked = Total
       /\ spi_status = "INVAL" => clocked = 0
  /\ pc # "deselect" => spi_status = "none"
  /\ pc \in {"select", "clock"} => ~ busy

CallIsAsAsked ==
  /\ pc \in {"reset", "settle"} => call.fn = "reset"
  /\ pc \in {"args", "pins"} => call.fn # "reset"
  /\ Prepared \/ pc = "pins" => call.fn # "reset" /\ Valid
  /\ call.fn = "write" => call.rx_len = 0

(* BUSY was high whenever it was read, but for the last time *)
PollsAreCounted ==
  /\ pc \in {"args", "pins", "reset", "settle"} => seen = <<>> /\ budget = Patience(call)
  /\ pc = "wait" =>
       Len(seen) + budget = Patience(call) /\ \A i \in DOMAIN seen : seen[i] = 1
  /\ pc \in {"select", "clock", "deselect"} => wait_busy_model(seen, call.timeout) = "OK"

AllOK == \A i \in DOMAIN statuses : statuses[i] = "OK"

InitIsUnderWay ==
  /\ script # <<>> => ~ initialized /\ pc # "idle" /\ AllOK
  /\ script = <<>> /\ statuses # <<>> => (initialized <=> AllOK)
  /\ \A i \in DOMAIN script : script[i].fn = "write" => script[i].rx_len = 0

(* what the model of a command gives for the call that returned last *)
Obeyed(r) ==
  IF r.call.fn = "write"
    THEN command_write_model(r.call.opcode, r.call.len, r.call.ptr, r.seen, r.call.timeout,
                             r.spi)
    ELSE command_read_model(r.call.opcode, r.call.len, r.call.ptr, r.call.rx_len, r.call.rx_ptr,
                            r.seen, r.call.timeout, r.spi)

Reported(r) ==
  /\ r.status \in Status
  /\ r.call.fn # "reset" =>
       /\ r.status = Obeyed(r)[1]
       /\ r.status = "OK" => r.got = Obeyed(r)[2] /\ r.got = TotalOf(r.call)
       /\ r.status \in {"INVAL", "GPIO", "BUSY_TIMEOUT", "SPI"} => r.got = 0
       /\ Obeyed(r)[3] \subseteq {NSS} \cap configured
  /\ r.call.fn = "reset" =>
       /\ r.status = wait_busy_model(r.seen, r.call.timeout)
       /\ {NRST, BUSY} \subseteq configured

BusInv ==
  /\ BusTypeOK /\ PinsAreRight /\ BytesAreCounted /\ CallIsAsAsked /\ PollsAreCounted
  /\ InitIsUnderWay
  /\ last # NoCall => Reported(last)
-----------------------------------------------------------------------------
LEMMA WaitTimesOut ==
  ASSUME NEW s \in Seq(Values), \A i \in DOMAIN s : s[i] = 1, NEW timeout
  PROVE  wait_busy_model(s, timeout) = "BUSY_TIMEOUT"
<1>1. \A i \in DOMAIN s : ~ (s[i] <= 0)
  OBVIOUS
<1> QED BY <1>1 DEF wait_busy_model

LEMMA WaitEnds ==
  ASSUME NEW s \in Seq(Values), \A i \in DOMAIN s : s[i] = 1, NEW v \in {-1, 0},
         NEW timeout \in Nat, Len(s) <= IF timeout = 0 THEN TIMEOUT_DEFAULT ELSE timeout
  PROVE  wait_busy_model(Append(s, v), timeout) = IF v = -1 THEN "GPIO" ELSE "OK"
<1> DEFINE a == Append(s, v)
           n == Len(s) + 1
           b == IF timeout = 0 THEN TIMEOUT_DEFAULT ELSE timeout
           ends(i) == a[i] <= 0
           first == CHOOSE i \in DOMAIN a : ends(i) /\ \A j \in 1 .. i - 1 : ~ ends(j)
<1>1. /\ n \in DOMAIN a /\ n \in Nat /\ a[n] = v /\ DOMAIN a = 1 .. n
      /\ \A j \in 1 .. n - 1 : a[j] = 1
  OBVIOUS
<1>2. ends(n) /\ \A j \in 1 .. n - 1 : ~ ends(j)
  BY <1>1
<1>3. b \in Nat /\ ~ (n > b + 1)
  BY LoraContractAssumption
<1> HIDE DEF a, n
<1>4. \A i \in DOMAIN a : ends(i) => i = n
  BY <1>1, <1>2
<1>5. first = n
  <2>1. first \in DOMAIN a /\ ends(first)
    BY <1>1, <1>2
  <2> HIDE DEF first, ends
  <2> QED BY <1>4, <2>1
<1>6. ~ \A i \in DOMAIN a : ~ ends(i) \/ i > b + 1
  BY <1>1, <1>2, <1>3
<1>7. wait_busy_model(a, timeout) =
        IF \A i \in DOMAIN a : ~ ends(i) \/ i > b + 1 THEN "BUSY_TIMEOUT"
        ELSE IF a[first] < 0 THEN "GPIO" ELSE "OK"
  BY DEF wait_busy_model
<1>8. a[first] = v
  BY <1>1, <1>5
<1> HIDE DEF first, ends, b
<1>9. wait_busy_model(a, timeout) = IF v < 0 THEN "GPIO" ELSE "OK"
  BY <1>6, <1>7, <1>8
<1> QED BY <1>9 DEF a
-----------------------------------------------------------------------------
(* intervals that begin at zero are well-founded under inclusion *)
LEMMA LeastNumber ==
  ASSUME NEW S \in SUBSET Nat, S # {}
  PROVE  \E x \in S : \A y \in S : x <= y
<1> DEFINE R == StrictSubsetOrdering(Nat)
           Below == {0 .. x : x \in S}
<1>1. IsWellFoundedOn(R, FiniteSubsetsOf(Nat))
  BY FS_StrictSubsetOrderingWellFounded
<1>2. Below \subseteq FiniteSubsetsOf(Nat)
  <2>1. \A x \in S : IsFiniteSet(0 .. x)
    BY FS_Interval
  <2> QED BY <2>1 DEF FiniteSubsetsOf
<1>6. Below # {}
  OBVIOUS
<1>3. \E I \in Below : \A J \in Below : ~ (<<J, I>> \in R)
  <2> HIDE DEF R, Below
  <2> QED BY <1>1, <1>2, <1>6, WFMin
<1>4. PICK x \in S : \A y \in S : ~ (<<0 .. y, 0 .. x>> \in R)
  BY <1>3
<1>5. ASSUME NEW y \in S, y < x
      PROVE  FALSE
  <2>1. x \in 0 .. x /\ x \notin 0 .. y /\ 0 .. y \subseteq 0 .. x /\ 0 .. y \subseteq Nat
        /\ 0 .. x \subseteq Nat
    BY <1>5
  <2>2. <<0 .. y, 0 .. x>> \in R
    BY <2>1 DEF StrictSubsetOrdering
  <2> QED BY <1>4, <2>2
<1> QED BY <1>4, <1>5

(* sx1262_init returns the first failure among its commands *)
LEMMA InitModelIs ==
  ASSUME NEW t \in Seq(Status)
  PROVE  sx1262_init_model(TRUE, t)[1] = "OK" <=> \A i \in DOMAIN t : t[i] = "OK"
<1> DEFINE failed(i) == t[i] # "OK"
           first == CHOOSE i \in DOMAIN t : failed(i) /\ \A j \in 1 .. i - 1 : ~ failed(j)
           Bad == {i \in DOMAIN t : failed(i)}
<1>1. CASE Bad = {}
  <2>1. \A i \in DOMAIN t : t[i] = "OK"
    BY <1>1
  <2>2. sx1262_init_model(TRUE, t)[1] = "OK"
    BY <2>1 DEF sx1262_init_model
  <2> HIDE DEF sx1262_init_model
  <2> QED BY <2>1, <2>2
<1>2. CASE Bad # {}
  <2>1. Bad \in SUBSET Nat
    OBVIOUS
  <2>2. PICK x \in Bad : \A y \in Bad : x <= y
    <3> HIDE DEF Bad
    <3> QED BY <1>2, <2>1, LeastNumber
  <2>3. x \in DOMAIN t /\ failed(x) /\ \A j \in 1 .. x - 1 : ~ failed(j)
    <3>1. DOMAIN t = 1 .. Len(t) /\ Len(t) \in Nat
      OBVIOUS
    <3>2. ASSUME NEW j \in 1 .. x - 1
          PROVE  j \in DOMAIN t /\ ~ (x <= j)
      BY <2>2, <3>1
    <3> QED BY <2>2, <3>2
  <2>4. failed(first)
    BY <2>3
  <2>5. sx1262_init_model(TRUE, t)[1] = t[first]
    BY <1>2 DEF sx1262_init_model
  <2>6. ~ \A i \in DOMAIN t : t[i] = "OK"
    BY <1>2
  <2> HIDE DEF first
  <2> QED BY <2>4, <2>5, <2>6
<1> QED BY <1>1, <1>2

LEMMA ResetIsCall ==
  ASSUME NEW t \in Nat
  PROVE  Reset(t) \in Call /\ Reset(t).fn = "reset" /\ Reset(t).timeout = t
BY DEF Reset, Call

LEMMA ScriptIsCalls ==
  ASSUME NEW t \in Nat
  PROVE  /\ InitScript(t) \in Seq(Call) /\ InitScript(t) # <<>>
         /\ \A i \in DOMAIN InitScript(t) :
              InitScript(t)[i].fn = "write" => InitScript(t)[i].rx_len = 0
<1> DEFINE w == [i \in 1 .. INIT_COMMANDS - 1 |-> Write(128 + i, 1, TRUE, t)]
           a == <<Reset(t)>>
           z == <<Read(192, 0, FALSE, 1, TRUE, t)>>
           Fine == {c \in Call : c.fn = "write" => c.rx_len = 0}
<1>1. \A i \in Nat : Write(128 + i, 1, TRUE, t) \in Fine
  BY DEF Write, Call
<1>2. w \in Seq(Fine)
  <2>1. INIT_COMMANDS - 1 \in Nat
    BY LoraContractAssumption
  <2>2. \A i \in 1 .. INIT_COMMANDS - 1 : Write(128 + i, 1, TRUE, t) \in Fine
    <3>1. \A i \in 1 .. INIT_COMMANDS - 1 : i \in Nat
      BY <2>1
    <3> HIDE DEF Fine
    <3> QED BY <1>1, <3>1
  <2>3. w \in [1 .. INIT_COMMANDS - 1 -> Fine]
    <3> HIDE DEF Fine
    <3> QED BY <2>2
  <2> HIDE DEF Fine, w
  <2> QED BY <2>1, <2>3
<1>3. Reset(t) \in Fine /\ Read(192, 0, FALSE, 1, TRUE, t) \in Fine
  BY DEF Reset, Read, Call
<1>4. a \in Seq(Fine) /\ z \in Seq(Fine) /\ Len(a) = 1
  <2> HIDE DEF Fine
  <2>1. \A x \in Fine : <<x>> \in Seq(Fine) /\ Len(<<x>>) = 1
    OBVIOUS
  <2> QED BY <1>3, <2>1
<1> HIDE DEF w, a, z
<1>5. a \o w \o z \in Seq(Fine) /\ a \o w \o z # <<>>
  <2> HIDE DEF Fine
  <2>1. \A x, y \in Seq(Fine) : x \o y \in Seq(Fine) /\ Len(x \o y) = Len(x) + Len(y)
    OBVIOUS
  <2>2. Len(a) = 1 /\ Len(w) \in Nat /\ Len(z) \in Nat
    BY <1>2, <1>4
  <2>3. a \o w \o z \in Seq(Fine) /\ Len(a \o w \o z) # 0
    BY <1>2, <1>4, <2>1, <2>2
  <2> QED BY <2>3
<1>6. InitScript(t) = a \o w \o z
  BY DEF InitScript, w, a, z
<1>7. InitScript(t) \in Seq(Fine) /\ InitScript(t) # <<>>
  BY <1>5, <1>6
<1>8. \A s \in Seq(Fine) : s \in Seq(Call) /\ \A i \in DOMAIN s : s[i] \in Fine
  OBVIOUS
<1> QED BY <1>7, <1>8

LEMMA EnterStep ==
  ASSUME NEW c \in Call, Enter(c), c.fn = "write" => c.rx_len = 0
  PROVE  /\ call' = c /\ pc' = (IF c.fn = "reset" THEN "reset" ELSE "args")
         /\ budget' \in Nat /\ seen' = <<>> /\ left' = 0 /\ spi_status' = "none"
         /\ CallIsAsAsked' /\ PollsAreCounted'
<1>1. Patience(c) \in Nat
  BY LoraContractAssumption DEF Patience, Call
<1>2. /\ call' = c /\ pc' = (IF c.fn = "reset" THEN "reset" ELSE "args")
      /\ budget' \in Nat /\ seen' = <<>> /\ left' = 0 /\ spi_status' = "none"
      /\ budget' = Patience(c)
  BY <1>1 DEF Enter
<1>3. CallIsAsAsked'
  BY <1>2 DEF CallIsAsAsked, Prepared
<1>4. PollsAreCounted'
  BY <1>2 DEF PollsAreCounted, Patience
<1> QED BY <1>2, <1>3, <1>4

(* what holds after every return, whether sx1262_init goes on or not *)
LEMMA ReturnStep ==
  ASSUME BusTypeOK, InitIsUnderWay, NEW status \in Status, NEW heard \in Seq(Values),
         NEW got \in Nat, Return(status, heard, got)
  PROVE  /\ pc' \in {"idle", "reset", "args"}
         /\ call' \in Call /\ script' \in Seq(Call) /\ statuses' \in Seq(Status)
         /\ budget' \in Nat /\ left' \in Nat /\ seen' \in Seq(Values) /\ spi_status' = "none"
         /\ initialized' \in BOOLEAN
         /\ last' \in [call : Call, status : Status \cup {"none"}, seen : Seq(Values),
                       got : Nat, spi : SpiStatus]
         /\ last' = [call |-> call, status |-> status, seen |-> heard, got |-> got,
                     spi |-> spi_status]
         /\ CallIsAsAsked' /\ PollsAreCounted' /\ InitIsUnderWay'
<1> DEFINE more == status = "OK" /\ Len(script) > 1
           done == status = "OK" /\ Len(script) = 1
<1>1. /\ last' = [call |-> call, status |-> status, seen |-> heard, got |-> got,
                  spi |-> spi_status]
      /\ statuses' = (IF script = <<>> THEN <<>> ELSE Append(statuses, status))
      /\ initialized' = (initialized \/ done)
      /\ script' = (IF more THEN Tail(script) ELSE <<>>)
      /\ more => Enter(script[2])
      /\ ~ more => /\ pc' = "idle" /\ call' = Reset(0)
                   /\ budget' = 0 /\ seen' = <<>> /\ left' = 0 /\ spi_status' = "none"
  BY DEF Return
<1>2. /\ call \in Call /\ script \in Seq(Call) /\ statuses \in Seq(Status)
      /\ spi_status \in SpiStatus /\ initialized \in BOOLEAN
  BY DEF BusTypeOK
<1>3. last' \in [call : Call, status : Status \cup {"none"}, seen : Seq(Values),
                 got : Nat, spi : SpiStatus]
  BY <1>1, <1>2
<1>4. statuses' \in Seq(Status) /\ initialized' \in BOOLEAN
  <2>1. <<>> \in Seq(Status) /\ Append(statuses, status) \in Seq(Status)
    BY <1>2
  <2> QED BY <1>1, <1>2, <2>1
<1>5. CASE more
  <2>1. 2 \in DOMAIN script /\ script # <<>> /\ Tail(script) \in Seq(Call)
        /\ DOMAIN Tail(script) = 1 .. Len(script) - 1
        /\ \A i \in DOMAIN Tail(script) : i + 1 \in DOMAIN script /\ Tail(script)[i] = script[i + 1]
    BY <1>2, <1>5
  <2>2. script[2] \in Call /\ (script[2].fn = "write" => script[2].rx_len = 0) /\ Enter(script[2])
    BY <1>1, <1>2, <1>5, <2>1 DEF InitIsUnderWay
  <2>3. /\ call' = script[2] /\ pc' \in {"reset", "args"}
        /\ budget' \in Nat /\ seen' = <<>> /\ left' = 0 /\ spi_status' = "none"
        /\ CallIsAsAsked' /\ PollsAreCounted'
    BY <2>2, EnterStep
  <2>4. AllOK' /\ ~ initialized'
    <3>1. statuses' = Append(statuses, "OK") /\ AllOK /\ ~ initialized /\ ~ done
      BY <1>1, <1>2, <1>5, <2>1 DEF InitIsUnderWay
    <3>2. \A i \in DOMAIN Append(statuses, "OK") :
            \/ i \in DOMAIN statuses /\ Append(statuses, "OK")[i] = statuses[i]
            \/ Append(statuses, "OK")[i] = "OK"
      BY <1>2
    <3>3. AllOK'
      BY <3>1, <3>2 DEF AllOK
    <3> QED BY <1>1, <3>1, <3>3
  <2>5. InitIsUnderWay'
    <3>1. Tail(script) # <<>> => pc' # "idle"
      BY <2>3
    <3>2. script' = Tail(script) /\ Tail(script) # <<>>
      BY <1>1, <1>2, <1>5, <2>1
    <3>3. \A i \in DOMAIN Tail(script) :
            Tail(script)[i].fn = "write" => Tail(script)[i].rx_len = 0
      BY <2>1 DEF InitIsUnderWay
    <3> QED BY <2>3, <2>4, <3>2, <3>3 DEF InitIsUnderWay
  <2>6. <<>> \in Seq(Values)
    OBVIOUS
  <2> QED BY <1>1, <1>3, <1>4, <1>5, <2>1, <2>2, <2>3, <2>5, <2>6
<1>6. CASE ~ more
  <2>1. /\ pc' = "idle" /\ call' = Reset(0) /\ script' = <<>>
        /\ budget' = 0 /\ seen' = <<>> /\ left' = 0 /\ spi_status' = "none"
    BY <1>1, <1>6
  <2>2. call' \in Call /\ call'.fn = "reset"
    BY <2>1, ResetIsCall
  <2>3. CallIsAsAsked' /\ PollsAreCounted'
    BY <2>1, <2>2 DEF CallIsAsAsked, PollsAreCounted, Prepared
  <2>4. script # <<>> => (initialized' <=> AllOK')
    <3> SUFFICES ASSUME script # <<>>
                 PROVE  initialized' <=> AllOK'
      OBVIOUS
    <3>1. statuses' = Append(statuses, status) /\ AllOK /\ ~ initialized
      BY <1>1 DEF InitIsUnderWay
    <3>2. CASE status = "OK"
      <4>1. done
        <5>1. Len(script) \in Nat /\ Len(script) # 0
          BY <1>2
        <5>2. ~ (Len(script) > 1)
          BY <1>6, <3>2
        <5>3. \A n \in Nat : n # 0 /\ ~ (n > 1) => n = 1
          OBVIOUS
        <5>4. Len(script) = 1
          BY <5>1, <5>2, <5>3
        <5> QED BY <3>2, <5>4
      <4>2. \A i \in DOMAIN Append(statuses, "OK") :
              \/ i \in DOMAIN statuses /\ Append(statuses, "OK")[i] = statuses[i]
              \/ Append(statuses, "OK")[i] = "OK"
        BY <1>2
      <4>3. AllOK'
        BY <3>1, <3>2, <4>2 DEF AllOK
      <4> QED BY <1>1, <4>1, <4>3
    <3>3. CASE status # "OK"
      <4>1. Len(statuses) + 1 \in DOMAIN statuses' /\ statuses'[Len(statuses) + 1] = status
        BY <1>2, <3>1
      <4>2. ~ AllOK'
        BY <3>3, <4>1 DEF AllOK
      <4> QED BY <1>1, <3>1, <3>3, <4>2
    <3> QED BY <3>2, <3>3
  <2>5. InitIsUnderWay'
    BY <1>1, <2>1, <2>4 DEF InitIsUnderWay
  <2>6. <<>> \in Seq(Values) /\ <<>> \in Seq(Call)
    OBVIOUS
  <2> QED BY <1>1, <1>3, <1>4, <2>1, <2>2, <2>3, <2>5, <2>6
<1> QED BY <1>5, <1>6
-----------------------------------------------------------------------------
LEMMA BusInvInit == Init => BusInv
<1> SUFFICES ASSUME Init
             PROVE  BusInv
  OBVIOUS
<1> USE DEF Init
<1>1. Reset(0) \in Call /\ Reset(0).fn = "reset"
  BY ResetIsCall
<1>2. <<>> \in Seq(Call) /\ <<>> \in Seq(Status) /\ <<>> \in Seq(Values)
  OBVIOUS
<1>3. BusTypeOK
  <2>1. last \in [call : Call, status : Status \cup {"none"}, seen : Seq(Values), got : Nat,
                  spi : SpiStatus]
    BY <1>1, <1>2 DEF NoCall, SpiStatus
  <2> QED BY <1>1, <1>2, <2>1 DEF BusTypeOK, Place, SpiStatus
<1>4. PinsAreRight /\ BytesAreCounted /\ CallIsAsAsked /\ PollsAreCounted
  BY <1>1 DEF PinsAreRight, Prepared, InReset, BytesAreCounted, CallIsAsAsked, PollsAreCounted,
              Transferring
<1>5. InitIsUnderWay
  BY DEF InitIsUnderWay
<1> QED BY <1>3, <1>4, <1>5 DEF BusInv

(* the report of a call stays right while pins are only added *)
LEMMA ReportedKept ==
  ASSUME last # NoCall => Reported(last), UNCHANGED last, configured \subseteq configured'
  PROVE  (last # NoCall => Reported(last))'
BY DEF Reported, Obeyed, NoCall, Reset

(* both command models of the contract check what the driver checks *)
LEMMA ObeyedIs ==
  ASSUME call \in Call, call.fn # "reset", call.fn = "write" => call.rx_len = 0, NEW r,
         r.call = call
  PROVE  Obeyed(r) =
           IF ~ Valid THEN <<"INVAL", 0, {}>>
           ELSE LET busy_status == wait_busy_model(r.seen, call.timeout)
                IN  IF busy_status # "OK" THEN <<busy_status, 0, {NSS}>>
                    ELSE <<command_status(r.spi), Total, {NSS}>>
<1>1. /\ call.opcode \in Nat /\ call.len \in Nat /\ call.rx_len \in Nat
      /\ call.ptr \in BOOLEAN /\ call.rx_ptr \in BOOLEAN /\ call.fn \in {"write", "read"}
  BY DEF Call
<1>2. MAX_TRANSFER \in Nat
  BY LoraContractAssumption
<1>3. CASE call.fn = "write"
  <2>1. Valid <=> /\ call.opcode <= 255 /\ call.len <= MAX_TRANSFER - 1
                  /\ call.len > 0 => call.ptr
    BY <1>3 DEF Valid
  <2>2. call.len + 1 = Total
    BY <1>1, <1>3 DEF Total
  <2> HIDE DEF Valid, Total
  <2> QED BY <1>3, <2>1, <2>2 DEF Obeyed, command_write_model, command_model
<1>4. CASE call.fn = "read"
  <2>1. Valid <=> /\ call.opcode <= 255 /\ call.len <= MAX_TRANSFER
                  /\ call.rx_len <= MAX_TRANSFER
                  /\ call.rx_len > 0 /\ call.rx_ptr
                  /\ call.len > 0 => call.ptr
                  /\ 1 + call.len + call.rx_len <= MAX_TRANSFER
    BY <1>1, <1>2, <1>4 DEF Valid, Total
  <2> QED BY <1>4, <2>1 DEF Obeyed, command_read_model, command_model, Total
<1> QED BY <1>1, <1>3, <1>4

LEMMA CommandStep ==
  ASSUME BusInv, NEW c \in Commands, Command(c)
  PROVE  BusInv'
<1>1. c \in Call /\ c.fn # "reset" /\ (c.fn = "write" => c.rx_len = 0)
  BY LoraBusAssumption DEF Call
<1>2. /\ call' = c /\ pc' = "args"
      /\ budget' \in Nat /\ seen' = <<>> /\ left' = 0 /\ spi_status' = "none"
      /\ CallIsAsAsked' /\ PollsAreCounted'
  BY <1>1, EnterStep DEF Command
<1>3. /\ pc = "idle" /\ calls' = calls + 1
      /\ UNCHANGED <<configured, direction, level, spi_initialized, initialized, script,
                     statuses, last, busy, clocked>>
  BY DEF Command, pins, chip
<1>4. BusTypeOK'
  <2>1. <<>> \in Seq(Values)
    OBVIOUS
  <2> QED BY <1>1, <1>2, <1>3, <2>1 DEF BusInv, BusTypeOK, Place, SpiStatus
<1>5. PinsAreRight' /\ BytesAreCounted' /\ InitIsUnderWay'
  BY <1>1, <1>2, <1>3 DEF BusInv, PinsAreRight, Prepared, InReset, BytesAreCounted, Transferring,
                   InitIsUnderWay, AllOK
<1>6. (last # NoCall => Reported(last))'
  BY <1>3, ReportedKept DEF BusInv
<1> QED BY <1>2, <1>4, <1>5, <1>6 DEF BusInv

LEMMA InitializeStep ==
  ASSUME BusInv, NEW timeout \in Nat, Initialize(timeout)
  PROVE  BusInv'
<1>1. Reset(timeout) \in Call /\ Reset(timeout).fn = "reset"
  BY ResetIsCall
<1>2. /\ call' = Reset(timeout) /\ pc' = "reset"
      /\ budget' \in Nat /\ seen' = <<>> /\ left' = 0 /\ spi_status' = "none"
      /\ CallIsAsAsked' /\ PollsAreCounted'
  BY <1>1, EnterStep DEF Initialize
<1>3. /\ pc = "idle" /\ calls' = calls + 1 /\ initialized' = FALSE /\ spi_initialized' = TRUE
      /\ script' = InitScript(timeout) /\ statuses' = <<>>
      /\ UNCHANGED <<configured, direction, level, last, busy, clocked>>
  BY DEF Initialize, pins, chip
<1>4. /\ script' \in Seq(Call)
      /\ \A i \in DOMAIN script' : script'[i].fn = "write" => script'[i].rx_len = 0
  BY <1>3, ScriptIsCalls
<1>5. BusTypeOK'
  <2>1. <<>> \in Seq(Values) /\ <<>> \in Seq(Status)
    OBVIOUS
  <2>2. BusTypeOK
    BY DEF BusInv
  <2>3. script' \in Seq(Call)
    BY <1>4
  <2>4. calls' \in Nat /\ statuses' \in Seq(Status) /\ seen' \in Seq(Values)
    BY <1>2, <1>3, <2>1, <2>2 DEF BusTypeOK
  <2>5. pc' \in Place /\ spi_status' \in SpiStatus /\ budget' \in Nat /\ left' \in Nat
    BY <1>2 DEF Place, SpiStatus
  <2> QED BY <1>1, <1>2, <1>3, <2>2, <2>3, <2>4, <2>5 DEF BusTypeOK
<1>6. PinsAreRight' /\ BytesAreCounted'
  BY <1>1, <1>2, <1>3 DEF BusInv, PinsAreRight, Prepared, InReset, BytesAreCounted, Transferring
<1>7. InitIsUnderWay'
  BY <1>2, <1>3, <1>4 DEF InitIsUnderWay, AllOK
<1>8. (last # NoCall => Reported(last))'
  BY <1>3, ReportedKept DEF BusInv
<1> QED BY <1>2, <1>5, <1>6, <1>7, <1>8 DEF BusInv

LEMMA CheckArgumentsStep ==
  ASSUME BusInv, CheckArguments
  PROVE  BusInv'
<1> DEFINE Parts == BusTypeOK /\ PinsAreRight /\ BytesAreCounted /\ CallIsAsAsked
                    /\ PollsAreCounted /\ InitIsUnderWay
<1>1. Parts
  BY DEF BusInv
<1>2. /\ pc = "args"
      /\ UNCHANGED <<configured, direction, level, spi_initialized, busy, clocked, calls>>
  BY DEF CheckArguments, pins, chip
<1>3. CASE Valid /\ pc' = "pins" /\ Stay /\ UNCHANGED <<budget, seen, spi_status>>
  <2>1. UNCHANGED <<call, script, statuses, left, last, initialized>>
    BY <1>3 DEF Stay
  <2>2. BusTypeOK'
    BY <1>1, <1>2, <1>3, <2>1 DEF BusTypeOK, Place
  <2>3. PinsAreRight' /\ BytesAreCounted' /\ CallIsAsAsked' /\ PollsAreCounted' /\ InitIsUnderWay'
    BY <1>1, <1>2, <1>3, <2>1
    DEF PinsAreRight, Prepared, InReset, BytesAreCounted, Transferring, Total, CallIsAsAsked, Valid,
        PollsAreCounted, InitIsUnderWay, AllOK
  <2>4. (last # NoCall => Reported(last))'
    BY <1>2, <2>1, ReportedKept DEF BusInv
  <2> QED BY <2>2, <2>3, <2>4 DEF BusInv
<1>4. CASE ~ Valid /\ Return("INVAL", <<>>, 0)
  <2>1. "INVAL" \in Status /\ <<>> \in Seq(Values) /\ 0 \in Nat
    BY DEF Status
  <2>2. /\ pc' \in {"idle", "reset", "args"}
        /\ call' \in Call /\ script' \in Seq(Call) /\ statuses' \in Seq(Status)
        /\ budget' \in Nat /\ left' \in Nat /\ seen' \in Seq(Values) /\ spi_status' = "none"
        /\ initialized' \in BOOLEAN
        /\ last' \in [call : Call, status : Status \cup {"none"}, seen : Seq(Values),
                      got : Nat, spi : SpiStatus]
        /\ last' = [call |-> call, status |-> "INVAL", seen |-> <<>>, got |-> 0,
                    spi |-> spi_status]
        /\ CallIsAsAsked' /\ PollsAreCounted' /\ InitIsUnderWay'
    BY <1>1, <1>4, <2>1, ReturnStep
  <2>3. BusTypeOK'
    BY <1>1, <1>2, <2>2 DEF BusTypeOK, Place, SpiStatus
  <2>4. PinsAreRight' /\ BytesAreCounted'
    BY <1>1, <1>2, <2>2
    DEF PinsAreRight, Prepared, InReset, BytesAreCounted, Transferring
  <2>5. Reported(last)'
    <3>1. call.fn # "reset" /\ call \in Call /\ (call.fn = "write" => call.rx_len = 0)
      BY <1>1, <1>2 DEF CallIsAsAsked, BusTypeOK
    <3>2. Obeyed([call |-> call, status |-> "INVAL", seen |-> <<>>, got |-> 0,
                  spi |-> spi_status]) = <<"INVAL", 0, {}>>
      BY <1>4, <3>1, ObeyedIs
    <3> QED BY <2>1, <2>2, <3>1, <3>2 DEF Reported, Obeyed
  <2> QED BY <2>2, <2>3, <2>4, <2>5 DEF BusInv
<1> QED BY <1>3, <1>4 DEF CheckArguments

LEMMA PinsStep ==
  ASSUME BusInv, PreparePins \/ PullReset \/ ReleaseReset
  PROVE  BusInv'
<1>1. /\ BusTypeOK /\ PinsAreRight /\ BytesAreCounted /\ CallIsAsAsked /\ PollsAreCounted
      /\ InitIsUnderWay
  BY DEF BusInv
<1>2. /\ UNCHANGED <<call, script, statuses, left, last, initialized, spi_initialized, budget, seen,
                     spi_status, calls>>
      /\ pc' \in {"wait", "settle"}
  BY DEF PreparePins, PullReset, ReleaseReset, Stay
<1>3. BusTypeOK'
  <2>1. configured' \subseteq Pin /\ direction' \subseteq Pin /\ level' \subseteq Pin
    BY <1>1 DEF BusTypeOK, PreparePins, PullReset, ReleaseReset, Pin
  <2>2. busy' \in BOOLEAN /\ clocked' \in Nat /\ pc' \in Place
    <3>1. \/ busy' = TRUE /\ clocked' = 0
          \/ busy' = busy /\ clocked' = clocked
      BY DEF PreparePins, PullReset, ReleaseReset, chip
    <3>3. pc' \in Place
      BY <1>2 DEF Place
    <3>4. busy \in BOOLEAN /\ clocked \in Nat
      BY <1>1 DEF BusTypeOK
    <3>5. busy' \in BOOLEAN
      BY <3>1, <3>4, Zenon
    <3>6. clocked' \in Nat
      BY <3>1, <3>4
    <3> QED BY <3>3, <3>5, <3>6
  <2> QED BY <1>1, <1>2, <2>1, <2>2 DEF BusTypeOK
<1>4. PinsAreRight'
  <2> USE DEF PinsAreRight, Prepared, InReset, Transferring, CallIsAsAsked, NSS, NRST, BUSY
  <2>1. CASE PreparePins
    BY <1>1, <1>2, <2>1 DEF PreparePins
  <2>2. CASE PullReset
    BY <1>1, <1>2, <2>2 DEF PullReset
  <2>3. CASE ReleaseReset
    BY <1>1, <1>2, <2>3 DEF ReleaseReset
  <2> QED BY <2>1, <2>2, <2>3
<1>5. BytesAreCounted'
  BY <1>1, <1>2 DEF PreparePins, PullReset, ReleaseReset, BytesAreCounted, Transferring, chip
<1>6. CallIsAsAsked' /\ PollsAreCounted' /\ InitIsUnderWay'
  <2>1. Valid' <=> Valid
    BY <1>2 DEF Valid, Total
  <2>2. CallIsAsAsked'
    BY <1>1, <1>2, <2>1 DEF PreparePins, PullReset, ReleaseReset, CallIsAsAsked, Prepared
  <2>3. Patience(call) \in Nat /\ Len(<<>>) = 0 /\ DOMAIN <<>> = {}
    BY <1>1, LoraContractAssumption DEF Patience, BusTypeOK, Call
  <2>4. PollsAreCounted'
    BY <1>1, <1>2, <2>3 DEF PreparePins, PullReset, ReleaseReset, PollsAreCounted, Patience
  <2>5. InitIsUnderWay'
    BY <1>1, <1>2 DEF InitIsUnderWay, AllOK
  <2> QED BY <2>2, <2>4, <2>5
<1>7. (last # NoCall => Reported(last))'
  <2>1. configured \subseteq configured'
    BY DEF PreparePins, PullReset, ReleaseReset
  <2> QED BY <1>2, <2>1, ReportedKept DEF BusInv
<1> QED BY <1>3, <1>4, <1>5, <1>6, <1>7 DEF BusInv

LEMMA ReadBusyStep ==
  ASSUME BusInv, ReadBusy
  PROVE  BusInv'
<1>1. /\ BusTypeOK /\ PinsAreRight /\ BytesAreCounted /\ CallIsAsAsked /\ PollsAreCounted
      /\ InitIsUnderWay
  BY DEF BusInv
<1> DEFINE value == IF BUSY \notin configured \ direction THEN -1
                    ELSE IF busy THEN 1 ELSE 0
           heard == Append(seen, value)
<1>2. /\ pc = "wait" /\ UNCHANGED <<direction, level, spi_initialized, busy, clocked, calls>>
      /\ spi_status = "none" /\ clocked = 0
  BY <1>1 DEF ReadBusy, chip, BytesAreCounted, Transferring
<1>3. /\ call \in Call /\ seen \in Seq(Values) /\ Len(seen) \in Nat /\ budget \in Nat
      /\ Patience(call) \in Nat /\ Len(seen) + budget = Patience(call)
      /\ \A i \in DOMAIN seen : seen[i] = 1
      /\ value \in Values
  <2>1. Patience(call) \in Nat
    BY <1>1, LoraContractAssumption DEF Patience, BusTypeOK, Call
  <2> QED BY <1>1, <1>2, <2>1 DEF BusTypeOK, PollsAreCounted, Values
<1>4. Remember(value) = heard
  BY <1>3 DEF Remember
<1>5. heard \in Seq(Values) /\ Len(heard) = Len(seen) + 1
      /\ (value = 1 => \A i \in DOMAIN heard : heard[i] = 1)
  <2> HIDE DEF value
  <2> QED BY <1>3
<1>6. value # 1 => wait_busy_model(heard, call.timeout) = IF value = -1 THEN "GPIO" ELSE "OK"
  <2>1. call.timeout \in Nat /\ Len(seen) <= IF call.timeout = 0 THEN TIMEOUT_DEFAULT ELSE call.timeout
    BY <1>3 DEF Patience, Call
  <2> HIDE DEF value
  <2> QED BY <1>3, <2>1, WaitEnds DEF Values
<1>7. value = 1 => wait_busy_model(heard, call.timeout) = "BUSY_TIMEOUT"
  <2> HIDE DEF heard, value
  <2> QED BY <1>5, WaitTimesOut
<1>8. /\ call.fn = "reset" => {NRST, BUSY} \subseteq configured
      /\ call.fn # "reset" => NSS \in configured /\ Valid /\ (call.fn = "write" => call.rx_len = 0)
  BY <1>1, <1>2 DEF PinsAreRight, CallIsAsAsked, Prepared, InReset
<1>9. value = 0 => ~ busy
  OBVIOUS
<1> HIDE DEF heard, value
<1>10. ASSUME NEW status \in {"GPIO", "OK", "BUSY_TIMEOUT"},
              Return(status, heard, 0), configured \subseteq configured',
              configured' \subseteq configured \cup {DIO1},
              status = wait_busy_model(heard, call.timeout), status = "OK" => call.fn = "reset"
       PROVE  BusInv'
  <2>1. /\ pc' \in {"idle", "reset", "args"}
        /\ call' \in Call /\ script' \in Seq(Call) /\ statuses' \in Seq(Status)
        /\ budget' \in Nat /\ left' \in Nat /\ seen' \in Seq(Values) /\ spi_status' = "none"
        /\ initialized' \in BOOLEAN
        /\ last' \in [call : Call, status : Status \cup {"none"}, seen : Seq(Values),
                      got : Nat, spi : SpiStatus]
        /\ last' = [call |-> call, status |-> status, seen |-> heard, got |-> 0,
                    spi |-> spi_status]
        /\ CallIsAsAsked' /\ PollsAreCounted' /\ InitIsUnderWay'
    BY <1>1, <1>5, <1>10, ReturnStep DEF Status
  <2>2. BusTypeOK'
    BY <1>1, <1>2, <1>10, <2>1 DEF BusTypeOK, Place, SpiStatus, Pin
  <2>3. PinsAreRight' /\ BytesAreCounted'
    BY <1>1, <1>2, <1>10, <2>1
    DEF PinsAreRight, Prepared, InReset, BytesAreCounted, Transferring, NSS, NRST, DIO1
  <2>4. Reported(last)'
    <3>1. CASE call.fn = "reset"
      BY <1>8, <1>10, <2>1, <3>1 DEF Reported, Status
    <3>2. CASE call.fn # "reset"
      <4>1. Obeyed([call |-> call, status |-> status, seen |-> heard, got |-> 0,
                    spi |-> spi_status]) = <<status, 0, {NSS}>>
        BY <1>3, <1>8, <1>10, <3>2, ObeyedIs
      <4> QED BY <1>8, <1>10, <2>1, <3>2, <4>1 DEF Reported, Obeyed, Status
    <3> QED BY <3>1, <3>2
  <2> QED BY <2>1, <2>2, <2>3, <2>4 DEF BusInv
<1>11. CASE value < 0 /\ Return("GPIO", heard, 0) /\ UNCHANGED configured
  BY <1>3, <1>6, <1>10, <1>11 DEF Values
<1>12. CASE /\ ~ (value < 0) /\ Ready(value) /\ call.fn = "reset" /\ Return("OK", heard, 0)
            /\ configured' = configured \cup {DIO1}
  BY <1>6, <1>10, <1>12 DEF Ready
<1>13. CASE /\ ~ (value < 0) /\ ~ Ready(value) /\ budget = 0 /\ Return("BUSY_TIMEOUT", heard, 0)
            /\ UNCHANGED configured
  BY <1>3, <1>7, <1>10, <1>13 DEF Ready, Values
<1>14. CASE /\ Ready(value) /\ call.fn # "reset" /\ pc' = "select" /\ seen' = heard
            /\ Stay /\ UNCHANGED <<configured, budget, spi_status>>
  <2>1. UNCHANGED <<call, script, statuses, left, last, initialized, configured, budget, spi_status>>
    BY <1>14 DEF Stay
  <2>2. BusTypeOK'
    BY <1>1, <1>2, <1>5, <1>14, <2>1 DEF BusTypeOK, Place
  <2>3. PinsAreRight' /\ BytesAreCounted'
    BY <1>1, <1>2, <1>8, <1>9, <1>14, <2>1
    DEF PinsAreRight, Prepared, InReset, BytesAreCounted, Transferring, Ready
  <2>4. CallIsAsAsked'
    <3>1. Valid' <=> Valid
      BY <2>1 DEF Valid, Total
    <3> QED BY <1>1, <1>8, <1>14, <2>1, <3>1 DEF CallIsAsAsked, Prepared
  <2>5. PollsAreCounted' /\ InitIsUnderWay'
    BY <1>1, <1>2, <1>6, <1>14, <2>1 DEF PollsAreCounted, InitIsUnderWay, AllOK, Ready
  <2>6. (last # NoCall => Reported(last))'
    BY <2>1, ReportedKept DEF BusInv
  <2> QED BY <2>2, <2>3, <2>4, <2>5, <2>6 DEF BusInv
<1>15. CASE /\ ~ (value < 0) /\ ~ Ready(value) /\ budget # 0 /\ budget' = Spent(budget)
            /\ seen' = heard /\ Stay /\ UNCHANGED <<configured, pc, spi_status>>
  <2>1. UNCHANGED <<call, script, statuses, left, last, initialized, configured, pc, spi_status>>
    BY <1>15 DEF Stay
  <2>2. budget' \in Nat /\ budget' = budget - 1 /\ value = 1
    BY <1>3, <1>15 DEF Spent, Ready, Values
  <2>3. BusTypeOK'
    BY <1>1, <1>2, <1>5, <1>15, <2>1, <2>2 DEF BusTypeOK
  <2>4. PinsAreRight' /\ BytesAreCounted'
    BY <1>1, <1>2, <2>1
    DEF PinsAreRight, Prepared, InReset, BytesAreCounted, Transferring
  <2>5. CallIsAsAsked'
    <3>1. Valid' <=> Valid
      BY <2>1 DEF Valid, Total
    <3> QED BY <1>1, <2>1, <3>1 DEF CallIsAsAsked, Prepared
  <2>6. PollsAreCounted'
    <3>1. Len(seen') + budget' = Patience(call) /\ \A i \in DOMAIN seen' : seen'[i] = 1
      BY <1>3, <1>5, <1>15, <2>2
    <3> QED BY <1>2, <2>1, <3>1 DEF PollsAreCounted, Patience
  <2>7. InitIsUnderWay'
    BY <1>1, <2>1 DEF InitIsUnderWay, AllOK
  <2>8. (last # NoCall => Reported(last))'
    BY <2>1, ReportedKept DEF BusInv
  <2> QED BY <2>3, <2>4, <2>5, <2>6, <2>7, <2>8 DEF BusInv
<1> QED
  <2>1. \/ value < 0 /\ Return("GPIO", Remember(value), 0) /\ UNCHANGED configured
        \/ /\ ~ (value < 0)
           /\ \/ /\ Ready(value) /\ call.fn = "reset"
                 /\ Return("OK", Remember(value), 0) /\ configured' = configured \cup {DIO1}
              \/ /\ Ready(value) /\ call.fn # "reset"
                 /\ pc' = "select" /\ seen' = Remember(value)
                 /\ Stay /\ UNCHANGED <<configured, budget, spi_status>>
              \/ /\ ~ Ready(value) /\ budget = 0
                 /\ Return("BUSY_TIMEOUT", Remember(value), 0) /\ UNCHANGED configured
              \/ /\ ~ Ready(value) /\ budget # 0
                 /\ budget' = Spent(budget) /\ seen' = Remember(value)
                 /\ Stay /\ UNCHANGED <<configured, pc, spi_status>>
    BY DEF ReadBusy, value
  <2> QED BY <1>4, <1>11, <1>12, <1>13, <1>14, <1>15, <2>1

LEMMA SelectStep ==
  ASSUME BusInv, Select
  PROVE  BusInv'
<1>1. /\ BusTypeOK /\ PinsAreRight /\ BytesAreCounted /\ CallIsAsAsked /\ PollsAreCounted
      /\ InitIsUnderWay
  BY DEF BusInv
<1>2. /\ pc = "select" /\ level' = level \ {NSS} /\ clocked' = 0
      /\ UNCHANGED <<configured, direction, spi_initialized, initialized, call, script,
                     statuses, budget, seen, last, busy, calls>>
  BY DEF Select
<1>3. \/ pc' = "clock" /\ left' = Total /\ spi_status' = spi_status
      \/ pc' = "deselect" /\ spi_status' = "INVAL" /\ left' = left
  BY DEF Select
<1>4. Total \in Nat \ {0} /\ Total' = Total /\ (Valid' <=> Valid)
  BY <1>1, <1>2 DEF BusTypeOK, Call, Total, Valid
<1>5. BusTypeOK'
  BY <1>1, <1>2, <1>3, <1>4 DEF BusTypeOK, Place, SpiStatus
<1>6. PinsAreRight'
  BY <1>1, <1>2, <1>3 DEF PinsAreRight, Prepared, InReset, Transferring, NSS, NRST
<1>7. BytesAreCounted'
  BY <1>1, <1>2, <1>3, <1>4 DEF BytesAreCounted, Transferring
<1>8. CallIsAsAsked' /\ PollsAreCounted' /\ InitIsUnderWay'
  BY <1>1, <1>2, <1>3, <1>4 DEF CallIsAsAsked, Prepared, PollsAreCounted, InitIsUnderWay, AllOK
<1>9. (last # NoCall => Reported(last))'
  BY <1>2, ReportedKept DEF BusInv
<1> QED BY <1>5, <1>6, <1>7, <1>8, <1>9 DEF BusInv

LEMMA ClockChunkStep ==
  ASSUME BusInv, ClockChunk
  PROVE  BusInv'
<1>1. /\ BusTypeOK /\ PinsAreRight /\ BytesAreCounted /\ CallIsAsAsked /\ PollsAreCounted
      /\ InitIsUnderWay
  BY DEF BusInv
<1> DEFINE chunk == IF left < ChunkBytes THEN left ELSE ChunkBytes
<1>2. /\ pc = "clock" /\ left' = left - chunk
      /\ UNCHANGED <<configured, direction, level, spi_initialized, initialized, call, script,
                     statuses, budget, seen, last, busy, calls>>
  BY DEF ClockChunk, pins
<1>3. \/ /\ clocked' = clocked + chunk
         /\ IF left' > 0 THEN UNCHANGED <<pc, spi_status>>
                         ELSE pc' = "deselect" /\ spi_status' = "OK"
      \/ /\ clocked' \in {clocked, clocked + chunk}
         /\ pc' = "deselect" /\ spi_status' = "TIMEOUT"
  BY DEF ClockChunk
<1>4. chunk \in Nat /\ chunk <= left /\ left \in Nat /\ clocked \in Nat /\ Total \in Nat
  BY <1>1, LoraBusAssumption DEF BusTypeOK, Call, Total
<1> HIDE DEF chunk
<1>5. Total' = Total /\ (Valid' <=> Valid)
  BY <1>2 DEF Total, Valid
<1>6. BusTypeOK'
  <2>1. left' \in Nat /\ clocked' \in Nat /\ pc' \in Place /\ spi_status' \in SpiStatus
    BY <1>1, <1>2, <1>3, <1>4 DEF BusTypeOK, Place, SpiStatus
  <2> QED BY <1>1, <1>2, <2>1 DEF BusTypeOK
<1>7. PinsAreRight' /\ CallIsAsAsked' /\ PollsAreCounted' /\ InitIsUnderWay'
  <2>1. pc' \in {"clock", "deselect"}
    BY <1>2, <1>3
  <2> QED BY <1>1, <1>2, <1>5, <2>1
          DEF PinsAreRight, Prepared, InReset, Transferring, CallIsAsAsked, PollsAreCounted,
              InitIsUnderWay, AllOK
<1>8. BytesAreCounted'
  <2>1. clocked + left = Total /\ spi_status = "none" /\ ~ busy
    BY <1>1, <1>2 DEF BytesAreCounted
  <2>2. clocked + chunk + left' = Total
    BY <1>2, <1>4, <2>1
  <2>3. left' \in Nat
    BY <1>2, <1>4
  <2> QED BY <1>2, <1>3, <1>4, <1>5, <2>1, <2>2, <2>3 DEF BytesAreCounted, Transferring
<1>9. (last # NoCall => Reported(last))'
  BY <1>2, ReportedKept DEF BusInv
<1> QED BY <1>6, <1>7, <1>8, <1>9 DEF BusInv

LEMMA DeselectStep ==
  ASSUME BusInv, Deselect
  PROVE  BusInv'
<1>1. /\ BusTypeOK /\ PinsAreRight /\ BytesAreCounted /\ CallIsAsAsked /\ PollsAreCounted
      /\ InitIsUnderWay
  BY DEF BusInv
<1> DEFINE status == command_status(spi_status)
<1>2. /\ pc = "deselect" /\ level' = level \cup {NSS} /\ clocked' = 0
      /\ Return(status, seen, clocked)
      /\ UNCHANGED <<configured, direction, spi_initialized, calls>>
  BY DEF Deselect, command_status
<1>3. busy' \in BOOLEAN
  BY <1>1 DEF Deselect, BusTypeOK
<1>4. status \in Status /\ (status = "OK" <=> spi_status = "OK")
  BY DEF command_status, Status
<1> HIDE DEF status
<1>5. /\ pc' \in {"idle", "reset", "args"}
      /\ call' \in Call /\ script' \in Seq(Call) /\ statuses' \in Seq(Status)
      /\ budget' \in Nat /\ left' \in Nat /\ seen' \in Seq(Values) /\ spi_status' = "none"
      /\ initialized' \in BOOLEAN
      /\ last' \in [call : Call, status : Status \cup {"none"}, seen : Seq(Values),
                    got : Nat, spi : SpiStatus]
      /\ last' = [call |-> call, status |-> status, seen |-> seen, got |-> clocked,
                  spi |-> spi_status]
      /\ CallIsAsAsked' /\ PollsAreCounted' /\ InitIsUnderWay'
  <2>1. seen \in Seq(Values) /\ clocked \in Nat
    BY <1>1 DEF BusTypeOK
  <2> QED BY <1>1, <1>2, <1>4, <2>1, ReturnStep
<1>6. BusTypeOK'
  <2>1. level' \subseteq Pin
    BY <1>1, <1>2 DEF BusTypeOK, Pin
  <2> QED BY <1>1, <1>2, <1>3, <1>5, <2>1 DEF BusTypeOK, Place, SpiStatus
<1>7. PinsAreRight' /\ BytesAreCounted'
  <2>1. PinsAreRight'
    BY <1>1, <1>2, <1>5 DEF PinsAreRight, Prepared, InReset, Transferring, NSS, NRST
  <2>2. BytesAreCounted'
    BY <1>2, <1>5 DEF BytesAreCounted, Transferring
  <2> QED BY <2>1, <2>2
<1>8. Reported(last)'
  <2>1. /\ call \in Call /\ call.fn # "reset" /\ (call.fn = "write" => call.rx_len = 0) /\ Valid
        /\ NSS \in configured /\ wait_busy_model(seen, call.timeout) = "OK"
    BY <1>1, <1>2 DEF BusTypeOK, CallIsAsAsked, Prepared, PinsAreRight, PollsAreCounted
  <2>2. Obeyed([call |-> call, status |-> status, seen |-> seen, got |-> clocked,
                spi |-> spi_status]) = <<status, Total, {NSS}>>
    BY <2>1, ObeyedIs DEF status
  <2>3. status = "OK" => clocked = Total /\ Total = TotalOf(call)
    BY <1>1, <1>2, <1>4 DEF BytesAreCounted, Total, TotalOf
  <2>4. status \in {"INVAL", "GPIO", "BUSY_TIMEOUT", "SPI"} => clocked = 0
    BY <1>1, <1>2 DEF BytesAreCounted, status, command_status
  <2> QED BY <1>2, <1>4, <1>5, <2>1, <2>2, <2>3, <2>4 DEF Reported, Obeyed
<1> QED BY <1>5, <1>6, <1>7, <1>8 DEF BusInv

LEMMA ChipReadyStep ==
  ASSUME BusInv, ChipReady \/ UNCHANGED vars
  PROVE  BusInv'
<1>1. /\ UNCHANGED <<configured, direction, level, spi_initialized, initialized, pc, call, script,
                     statuses, budget, seen, left, spi_status, last, clocked, calls>>
      /\ busy' \in {busy, FALSE}
  BY DEF ChipReady, vars, pins, driver, chip
<1>2. BusTypeOK'
  BY <1>1 DEF BusInv, BusTypeOK
<1>3. (Valid' <=> Valid) /\ Total' = Total
  BY <1>1 DEF Valid, Total
<1>4. PinsAreRight' /\ BytesAreCounted'
  <2>1. PinsAreRight'
    BY <1>1 DEF BusInv, PinsAreRight, Prepared, InReset, Transferring
  <2>2. pc \in {"select", "clock"} => ~ busy'
    BY <1>1 DEF BusInv, BytesAreCounted
  <2>3. BytesAreCounted'
    BY <1>1, <1>3, <2>2 DEF BusInv, BytesAreCounted, Transferring
  <2> QED BY <2>1, <2>3
<1>5. CallIsAsAsked' /\ PollsAreCounted' /\ InitIsUnderWay'
  BY <1>1, <1>3
  DEF BusInv, CallIsAsAsked, Prepared, PollsAreCounted, Patience, InitIsUnderWay, AllOK
<1>6. (last # NoCall => Reported(last))'
  BY <1>1, ReportedKept DEF BusInv
<1> QED BY <1>2, <1>4, <1>5, <1>6 DEF BusInv

LEMMA BusInvStep == BusInv /\ [Next]_vars => BusInv'
<1> SUFFICES ASSUME BusInv, [Next]_vars
             PROVE  BusInv'
  OBVIOUS
<1>1. ASSUME NEW timeout \in {0, 1}, Initialize(timeout)
      PROVE  BusInv'
  BY <1>1, InitializeStep
<1>2. ASSUME NEW c \in Commands, Command(c)
      PROVE  BusInv'
  BY <1>2, CommandStep
<1> QED BY <1>1, <1>2, CheckArgumentsStep, PinsStep, ReadBusyStep, SelectStep, ClockChunkStep,
           DeselectStep, ChipReadyStep DEF Next, Driver

(* Every variable of the driver keeps its type. *)
THEOREM BusTypesAreRight == Spec => []BusTypeOK
<1>1. BusInv => BusTypeOK
  BY DEF BusInv
<1> QED BY <1>1, BusInvInit, BusInvStep, PTL DEF Spec

(* sx1262_command_write and sx1262_command_read report LORA_OK only of a   *)
(* command whose bytes all went to the chip, and any error but an SPI      *)
(* timeout only of one of which the chip got nothing; no byte is clocked   *)
(* while BUSY is high, and NSS is high between commands.                   *)
THEOREM ReportsAreTrue == Spec => []ChipGetsWhatIsReported
<1>1. BusInv => ChipGetsWhatIsReported
  <2> SUFFICES ASSUME BusInv
               PROVE  ChipGetsWhatIsReported
    OBVIOUS
  <2> QED BY DEF BusInv, Reported, PinsAreRight, BytesAreCounted, Transferring, ChipGetsWhatIsReported
<1> QED BY <1>1, BusInvInit, BusInvStep, PTL DEF Spec

(* What each call of the driver and each initialization returned, and the  *)
(* pins, are what the reference models of src/proofs give.                 *)
THEOREM CallsAgreeWithModels == Spec => []CallsFollowContract
<1>1. BusInv => CallsFollowContract
  <2> SUFFICES ASSUME BusInv
               PROVE  CallsFollowContract
    OBVIOUS
  <2>1. /\ BusTypeOK /\ PinsAreRight /\ InitIsUnderWay /\ (last # NoCall => Reported(last))
    BY DEF BusInv
  <2>2. ASSUME NEW pin \in Pin
        PROVE  /\ pin \in configured \cap direction => output_allowed(pin)
               /\ pin \in configured \ direction => input_allowed(pin)
    BY <2>1 DEF PinsAreRight, Pin, output_allowed, input_allowed, PIN_LIMIT, NSS, NRST, DIO1, BUSY
  <2>3. ASSUME last # NoCall, last.call.fn # "reset"
        PROVE  /\ last.status = Obeyed(last)[1]
               /\ last.status = "OK" => last.got = Obeyed(last)[2]
               /\ pc = "idle" => Obeyed(last)[3] \subseteq level
    BY <2>1, <2>3 DEF Reported, PinsAreRight, Transferring
  <2>4. ASSUME last # NoCall, last.call.fn = "reset"
        PROVE  LET was_reset == reset_model(last.seen, last.call.timeout)
               IN  /\ last.status = was_reset[1]
                   /\ was_reset[2] \subseteq configured
                   /\ was_reset[3] \subseteq direction
                   /\ pc = "idle" => was_reset[3] \subseteq level
    BY <2>1, <2>4 DEF Reported, PinsAreRight, reset_model
  <2>5. ASSUME pc = "idle", statuses # <<>>
        PROVE  LET ended == sx1262_init_model(TRUE, Tail(statuses))
               IN  IF statuses[1] # "OK"
                     THEN ~ initialized
                     ELSE init_model(ended[1]) = <<ended[1], initialized, ended[1]>>
    <3>1. initialized <=> AllOK
      BY <2>1, <2>5 DEF InitIsUnderWay
    <3>2. /\ 1 \in DOMAIN statuses
          /\ DOMAIN Tail(statuses) = 1 .. Len(statuses) - 1
          /\ \A i \in 1 .. Len(statuses) - 1 : Tail(statuses)[i] = statuses[i + 1]
          /\ Len(statuses) \in Nat /\ DOMAIN statuses = 1 .. Len(statuses)
      BY <2>1, <2>5 DEF BusTypeOK
    <3>3. ASSUME statuses[1] = "OK"
          PROVE  AllOK <=> \A i \in DOMAIN Tail(statuses) : Tail(statuses)[i] = "OK"
      <4>1. \A i \in 1 .. Len(statuses) :
              \/ i = 1
              \/ i - 1 \in 1 .. Len(statuses) - 1 /\ (i - 1) + 1 = i
        BY <3>2
      <4>2. \A i \in 1 .. Len(statuses) - 1 : i + 1 \in 1 .. Len(statuses)
        BY <3>2
      <4> QED BY <3>2, <3>3, <4>1, <4>2 DEF AllOK
    <3>4. sx1262_init_model(TRUE, Tail(statuses))[1] = "OK"
            <=> \A i \in DOMAIN Tail(statuses) : Tail(statuses)[i] = "OK"
      <4>1. Tail(statuses) \in Seq(Status)
        BY <2>1, <2>5 DEF BusTypeOK
      <4> QED BY <4>1, InitModelIs
    <3> QED BY <2>1, <3>1, <3>2, <3>3, <3>4 DEF AllOK, init_model, BusTypeOK
  <2> QED BY <2>2, <2>3, <2>4, <2>5 DEF CallsFollowContract, Obeyed
<1> QED BY <1>1, BusInvInit, BusInvStep, PTL DEF Spec

-----------------------------------------------------------------------------
(* what sx1262_init writes, each command by its number *)
LEMMA InitWritesAre ==
  /\ DOMAIN InitWrites = 1 .. 14 /\ Len(InitWrites) = 14
  /\ InitWrites[1] = <<"SET_STANDBY", <<0>> >>
  /\ InitWrites[2] = <<"SET_REGULATOR_MODE", <<1>> >>
  /\ InitWrites[3] = <<"SET_DIO2_RF_SWITCH", <<1>> >>
  /\ InitWrites[4] = <<"SET_PA_CONFIG", <<4, 7, 0, 1>> >>
  /\ InitWrites[5] = <<"SET_RXTX_FALLBACK", <<32>> >>
  /\ InitWrites[6] = <<"CALIBRATE_IMAGE", <<225, 233>> >>
  /\ InitWrites[7] = <<"SET_PACKET_TYPE", <<1>> >>
  /\ InitWrites[8] = <<"SET_RF_FREQUENCY", ToBytes(RfFrequencyWord(FrequencyMHz), 4)>>
  /\ InitWrites[9] = <<"SET_TX_PARAMS", <<7, 4>> >>
  /\ InitWrites[10] = <<"SET_MOD_PARAMS", <<8, 4, 1, 0>> >>
  /\ InitWrites[11] = <<"SET_PACKET_PARAMS", PacketParams(SX1262_BENCH_PAYLOAD_MAX)>>
  /\ InitWrites[12] = <<"SET_BUFFER_BASE", <<0, 0>> >>
  /\ InitWrites[13] = <<"CLEAR_IRQ_STATUS", <<255, 255>> >>
  /\ InitWrites[14] = <<"SET_DIO_IRQ_PARAMS", IrqMask \o IrqMask \o <<0, 0, 0, 0>> >>
BY SMT DEF InitWrites

(* a function over 1 .. 4 is the tuple of its values *)
LEMMA FourOf ==
  ASSUME NEW f, f = [i \in 1 .. 4 |-> f[i]]
  PROVE  f = <<f[1], f[2], f[3], f[4]>>
<1>1. DOMAIN f = 1 .. 4 /\ DOMAIN <<f[1], f[2], f[3], f[4]>> = 1 .. 4
  OBVIOUS
<1> QED BY <1>1

(* 915 MHz as the four bytes of SET_RF_FREQUENCY *)
LEMMA FrequencyBytes == ToBytes(RfFrequencyWord(FrequencyMHz), 4) = <<57, 48, 0, 0>>
<1>1. 256^3 = 16777216 /\ 256^2 = 65536 /\ 256^1 = 256 /\ 256^0 = 1 /\ 2^20 = 1048576
  OBVIOUS
<1>2. RfFrequencyWord(FrequencyMHz) = 959447040
  BY <1>1 DEF RfFrequencyWord, FrequencyMHz
<1>3. /\ (959447040 \div 256^(4 - 1)) % 256 = 57
      /\ (959447040 \div 256^(4 - 2)) % 256 = 48
      /\ (959447040 \div 256^(4 - 3)) % 256 = 0
      /\ (959447040 \div 256^(4 - 4)) % 256 = 0
  BY <1>1
<1> DEFINE bytes == ToBytes(RfFrequencyWord(FrequencyMHz), 4)
<1>4. bytes = [i \in 1 .. 4 |-> (959447040 \div 256^(4 - i)) % 256]
  BY <1>2 DEF ToBytes
<1>5. bytes[1] = 57 /\ bytes[2] = 48 /\ bytes[3] = 0 /\ bytes[4] = 0
  <2> HIDE DEF bytes
  <2> QED BY <1>3, <1>4
<1>6. bytes = <<bytes[1], bytes[2], bytes[3], bytes[4]>>
  <2>1. bytes = [i \in 1 .. 4 |-> bytes[i]]
    BY <1>4
  <2> HIDE DEF bytes
  <2> QED BY <2>1, FourOf
<1> HIDE DEF bytes
<1>7. bytes = <<57, 48, 0, 0>>
  BY <1>5, <1>6
<1> QED BY <1>7 DEF bytes

(* the opcodes in the order they are written *)
LEMMA NamesDiffer ==
  /\ InitWrites[1][1] = "SET_STANDBY" /\ InitWrites[2][1] = "SET_REGULATOR_MODE"
  /\ InitWrites[3][1] = "SET_DIO2_RF_SWITCH" /\ InitWrites[4][1] = "SET_PA_CONFIG"
  /\ InitWrites[5][1] = "SET_RXTX_FALLBACK" /\ InitWrites[6][1] = "CALIBRATE_IMAGE"
  /\ InitWrites[7][1] = "SET_PACKET_TYPE" /\ InitWrites[8][1] = "SET_RF_FREQUENCY"
  /\ InitWrites[9][1] = "SET_TX_PARAMS" /\ InitWrites[10][1] = "SET_MOD_PARAMS"
  /\ InitWrites[11][1] = "SET_PACKET_PARAMS" /\ InitWrites[12][1] = "SET_BUFFER_BASE"
  /\ InitWrites[13][1] = "CLEAR_IRQ_STATUS" /\ InitWrites[14][1] = "SET_DIO_IRQ_PARAMS"
BY SMT, InitWritesAre

(* each command that the tables ask for is written once *)
LEMMA PlacesAre ==
  /\ \A j \in 1 .. 14 : InitWrites[j][1] = "SET_STANDBY" <=> j = 1
  /\ \A j \in 1 .. 14 : InitWrites[j][1] = "CALIBRATE_IMAGE" <=> j = 6
  /\ \A j \in 1 .. 14 : InitWrites[j][1] = "SET_PACKET_TYPE" <=> j = 7
  /\ \A j \in 1 .. 14 : InitWrites[j][1] = "SET_RF_FREQUENCY" <=> j = 8
  /\ \A j \in 1 .. 14 : InitWrites[j][1] = "SET_MOD_PARAMS" <=> j = 10
  /\ \A j \in 1 .. 14 : InitWrites[j][1] = "SET_PACKET_PARAMS" <=> j = 11
  /\ \A j \in 1 .. 14 : InitWrites[j][1] = "SET_DIO_IRQ_PARAMS" <=> j = 14
BY SMT, NamesDiffer

(* the only command of that name *)
LEMMA WrittenWhere ==
  ASSUME NEW name, NEW k \in 1 .. 14,
         \A j \in 1 .. 14 : InitWrites[j][1] = name <=> j = k
  PROVE  /\ WrittenBy(name) = InitWrites[k][2]
         /\ (CHOOSE i \in DOMAIN InitWrites : InitWrites[i][1] = name) = k
<1>1. DOMAIN InitWrites = 1 .. 14
  BY InitWritesAre
<1>2. (CHOOSE i \in DOMAIN InitWrites : InitWrites[i][1] = name) = k
  BY <1>1
<1> QED BY <1>2 DEF WrittenBy

(* the frequency as written, and the calibration that covers it *)
LEMMA ProfileHolds == prove_profile_constants
<1>1. WrittenBy("SET_RF_FREQUENCY") = InitWrites[8][2]
  BY SMT, PlacesAre, WrittenWhere
<1>2. WrittenBy("CALIBRATE_IMAGE") = InitWrites[6][2]
  BY SMT, PlacesAre, WrittenWhere
<1>3. InitWrites[8][2] = <<57, 48, 0, 0>>
  BY SMT, InitWritesAre, FrequencyBytes
<1>4. InitWrites[6][2] = <<225, 233>>
  BY SMT, InitWritesAre
<1> QED BY SMT, <1>1, <1>2, <1>3, <1>4 DEF prove_profile_constants, FrequencyMHz

(* the tables of the driver's commands, of its reset and of the interface *)
LEMMA CommandsHold == prove_commands
BY SMT, LoraContractAssumption
   DEF prove_commands, command_write_model, command_read_model, command_model,
       wait_busy_model, command_status

(* the table of the reset, with a BUSY line that falls, sticks or fails *)
LEMMA ResetsHold == prove_resets
BY SMT, LoraContractAssumption DEF prove_resets, reset_model, wait_busy_model

(* the table of lora_interface_init *)
LEMMA InterfaceHolds == prove_interface_init
BY DEF prove_interface_init, init_model

(* two bytes as a number: the recursion of FromBytes, unrolled *)
LEMMA TwoBytes ==
  ASSUME NEW b1 \in Int, NEW b2 \in Int
  PROVE  FromBytes(<<b1, b2>>) = 256 * b1 + b2
<1> DEFINE bytes == <<b1, b2>>
           Rec(v) == v = [i \in 0 .. 2 |-> IF i = 0 THEN 0 ELSE 256 * v[i - 1] + bytes[i]]
           g == [i \in 0 .. 2 |-> IF i = 0 THEN 0 ELSE IF i = 1 THEN b1 ELSE 256 * b1 + b2]
           value == CHOOSE v : Rec(v)
<1>1. Len(bytes) = 2 /\ bytes[1] = b1 /\ bytes[2] = b2
  OBVIOUS
<1>2. Rec(g)
  <2> SUFFICES ASSUME NEW i \in 0 .. 2
               PROVE  g[i] = IF i = 0 THEN 0 ELSE 256 * g[i - 1] + bytes[i]
    OBVIOUS
  <2>1. i = 0 \/ i = 1 \/ i = 2
    OBVIOUS
  <2> QED BY SMT, <1>1, <2>1
<1>3. Rec(value)
  BY <1>2
<1>4. FromBytes(bytes) = value[2]
  BY <1>1 DEF FromBytes
<1> HIDE DEF value
<1>5. value[2] = 256 * value[1] + bytes[2] /\ value[1] = 256 * value[0] + bytes[1]
      /\ value[0] = 0
  <2>1. \A i \in 0 .. 2 : value[i] = IF i = 0 THEN 0 ELSE 256 * value[i - 1] + bytes[i]
    BY <1>3
  <2> HIDE DEF bytes
  <2> QED BY <2>1
<1> QED BY SMT, <1>1, <1>4, <1>5

(* the subsequence of two neighbours *)
LEMMA BytesOfPair ==
  ASSUME NEW S, NEW bytes \in Seq(S), NEW m \in Nat, m >= 1, m + 1 <= Len(bytes)
  PROVE  SubSeq(bytes, m, m + 1) = <<bytes[m], bytes[m + 1]>>
<1> DEFINE part == SubSeq(bytes, m, m + 1)
           pair == <<bytes[m], bytes[m + 1]>>
<1>1. bytes[m] \in S /\ bytes[m + 1] \in S
  BY ElementOfSeq
<1>2. part \in Seq(S) /\ Len(part) = 2 /\ part[1] = bytes[m] /\ part[2] = bytes[m + 1]
  <2>1. \A i \in m .. m + 1 : bytes[i] \in S
    BY ElementOfSeq
  <2>2. /\ part \in Seq(S) /\ Len(part) = (IF m <= m + 1 THEN (m + 1) - m + 1 ELSE 0)
        /\ \A i \in 1 .. (m + 1) - m + 1 : part[i] = bytes[m + i - 1]
    BY <2>1, SubSeqProperties
  <2> HIDE DEF part
  <2>3. part[1] = bytes[m + 1 - 1] /\ part[2] = bytes[m + 2 - 1]
    BY <2>2
  <2> QED BY <2>2, <2>3
<1>3. pair \in Seq(S) /\ Len(pair) = 2 /\ pair[1] = bytes[m] /\ pair[2] = bytes[m + 1]
  BY <1>1
<1> HIDE DEF part, pair
<1>4. \A i \in 1 .. Len(part) : part[i] = pair[i]
  BY <1>2, <1>3
<1>5. part = pair
  BY <1>2, <1>3, <1>4, SeqEqual
<1> QED BY <1>5 DEF part, pair

(* a mask of two bytes written twice before four zeros *)
LEMMA MaskTwice ==
  ASSUME NEW S, NEW mask \in Seq(S), NEW zeros \in Seq(S), Len(mask) = 2, Len(zeros) = 4
  PROVE  LET params == mask \o mask \o zeros
         IN  /\ SubSeq(params, 1, 2) = <<mask[1], mask[2]>>
             /\ SubSeq(params, 3, 4) = <<mask[1], mask[2]>>
<1> DEFINE twice == mask \o mask
           params == twice \o zeros
<1>1. /\ twice \in Seq(S) /\ Len(twice) = Len(mask) + Len(mask)
      /\ \A i \in 1 .. Len(mask) + Len(mask) :
           twice[i] = IF i <= Len(mask) THEN mask[i] ELSE mask[i - Len(mask)]
  BY ConcatProperties
<1> HIDE DEF twice
<1>2. /\ Len(twice) = 4 /\ twice[1] = mask[1] /\ twice[2] = mask[2]
      /\ twice[3] = mask[1] /\ twice[4] = mask[2]
  BY <1>1
<1>3. /\ params \in Seq(S) /\ Len(params) = Len(twice) + Len(zeros)
      /\ \A i \in 1 .. Len(twice) + Len(zeros) :
           params[i] = IF i <= Len(twice) THEN twice[i] ELSE zeros[i - Len(twice)]
  <2>1. twice \in Seq(S)
    BY <1>1
  <2> QED BY <2>1, ConcatProperties
<1> HIDE DEF params
<1>4. /\ Len(params) = 8 /\ params[1] = mask[1] /\ params[2] = mask[2]
      /\ params[3] = mask[1] /\ params[4] = mask[2]
  BY <1>2, <1>3
<1>5. SubSeq(params, 1, 1 + 1) = <<params[1], params[1 + 1]>>
  BY <1>3, <1>4, BytesOfPair
<1>6. SubSeq(params, 3, 3 + 1) = <<params[3], params[3 + 1]>>
  BY <1>3, <1>4, BytesOfPair
<1>7. SubSeq(params, 1, 2) = <<mask[1], mask[2]>> /\ SubSeq(params, 3, 4) = <<mask[1], mask[2]>>
  BY <1>4, <1>5, <1>6
<1> QED BY <1>7 DEF params, twice

(* the enabled interrupts, and those raised on DIO1 *)
LEMMA InterruptBytes ==
  LET params == IrqMask \o IrqMask \o <<0, 0, 0, 0>>
  IN  SubSeq(params, 1, 2) = <<2, 99>> /\ SubSeq(params, 3, 4) = <<2, 99>>
<1> DEFINE Used == {0, 2, 99}
           zeros == <<0, 0, 0, 0>>
<1>1. IrqMask \in Seq(Used) /\ Len(IrqMask) = 2 /\ IrqMask[1] = 2 /\ IrqMask[2] = 99
  BY DEF IrqMask
<1>2. zeros \in Seq(Used) /\ Len(zeros) = 4
  OBVIOUS
<1> HIDE DEF Used, zeros
<1>3. LET params == IrqMask \o IrqMask \o zeros
      IN  /\ SubSeq(params, 1, 2) = <<IrqMask[1], IrqMask[2]>>
          /\ SubSeq(params, 3, 4) = <<IrqMask[1], IrqMask[2]>>
  BY <1>1, <1>2, MaskTwice
<1> QED BY <1>1, <1>3 DEF zeros

(* exactly the flags that are decided on are enabled, and on DIO1 *)
LEMMA FlagsHold == prove_flags
<1> DEFINE params == WrittenBy("SET_DIO_IRQ_PARAMS")
<1>1. params = InitWrites[14][2]
  BY SMT, PlacesAre, WrittenWhere
<1>2. InitWrites[14] = <<"SET_DIO_IRQ_PARAMS", IrqMask \o IrqMask \o <<0, 0, 0, 0>> >>
  BY InitWritesAre
<1>3. params = IrqMask \o IrqMask \o <<0, 0, 0, 0>>
  BY <1>1, <1>2
<1> HIDE DEF params
<1>4. SubSeq(params, 1, 2) = <<2, 99>> /\ SubSeq(params, 3, 4) = <<2, 99>>
  BY <1>3, InterruptBytes
<1>5. FromBytes(<<2, 99>>) = 611
  BY TwoBytes
<1>6. FlagsIn(611) = DOMAIN IRQ
  BY DEF FlagsIn, IRQ
<1>7. FromBytes(SubSeq(params, 1, 2)) = 611 /\ FromBytes(SubSeq(params, 3, 4)) = 611
  BY ONLY <1>4, <1>5, Zenon
<1> QED BY <1>6, <1>7 DEF prove_flags, params

(* every command of sx1262_init has an opcode *)
LEMMA NamesHaveOpcodes ==
  \A i \in 1 .. 14 : InitWrites[i][1] \in DOMAIN Opcode
<1>1. {InitWrites[i][1] : i \in 1 .. 14} \subseteq DOMAIN Opcode
  BY SMT, NamesDiffer DEF Opcode
<1> QED BY <1>1

(* opcodes are told apart, and the packet type comes first *)
LEMMA OpcodesHold == prove_opcode_constants
<1>1. \A a, b \in DOMAIN Opcode : Opcode[a] = Opcode[b] => a = b
  BY DEF Opcode
<1>2. DOMAIN InitWrites = 1 .. 14 /\ Len(InitWrites) = 14
  BY InitWritesAre
<1> DEFINE at(name) == CHOOSE i \in DOMAIN InitWrites : InitWrites[i][1] = name
<1>3. /\ at("SET_STANDBY") = 1 /\ at("SET_PACKET_TYPE") = 7
      /\ at("SET_MOD_PARAMS") = 10 /\ at("SET_PACKET_PARAMS") = 11
  BY SMT, PlacesAre, WrittenWhere
<1> HIDE DEF at
<1>4. \A name \in {"SET_MOD_PARAMS", "SET_PACKET_PARAMS"} : at("SET_PACKET_TYPE") < at(name)
  BY SMT, <1>3
<1>5. \A i \in DOMAIN InitWrites : InitWrites[i][1] \in DOMAIN Opcode
  BY <1>2, NamesHaveOpcodes
<1>6. Len(InitWrites) + 1 = 15
  BY <1>2
<1> QED BY <1>1, <1>3, <1>4, <1>5, <1>6 DEF prove_opcode_constants, at

(* the commands of one sending, each by its number *)
LEMMA SixCommands ==
  ASSUME NEW length
  PROVE  LET c == SendCommands(length) IN
         /\ DOMAIN c = 1 .. 6
         /\ c[1] = <<"SET_PACKET_PARAMS", 6, 0>> /\ c[2] = <<"WRITE_BUFFER", 1 + length, 0>>
         /\ c[3] = <<"CLEAR_IRQ_STATUS", 2, 0>> /\ c[4] = <<"SET_TX", 3, 0>>
         /\ c[5] = <<"GET_IRQ_STATUS", 0, 2>> /\ c[6] = <<"CLEAR_IRQ_STATUS", 2, 0>>
BY SMT DEF SendCommands

(* the commands of one reception, each by its number *)
LEMMA FiveCommands ==
  ASSUME NEW length
  PROVE  LET c == ReceiveCommands(length) IN
         /\ DOMAIN c = 1 .. 5
         /\ c[1] = <<"GET_IRQ_STATUS", 0, 2>> /\ c[2] = <<"GET_RX_BUFFER_STATUS", 1, 2>>
         /\ c[3] = <<"READ_BUFFER", 2, length>> /\ c[4] = <<"CLEAR_IRQ_STATUS", 2, 0>>
         /\ c[5] = <<"SET_RX", 3, 0>>
BY SMT DEF ReceiveCommands

(* every command of a frame has an opcode *)
LEMMA OpcodesOfFrames ==
  {"SET_PACKET_PARAMS", "WRITE_BUFFER", "CLEAR_IRQ_STATUS", "SET_TX", "GET_IRQ_STATUS",
   "GET_RX_BUFFER_STATUS", "READ_BUFFER", "SET_RX"} \subseteq DOMAIN Opcode
BY SMT DEF Opcode

(* a frame of 253 bytes fits a transfer, one of 254 does not *)
LEMMA FramesFit == prove_frames_fit
<1> DEFINE fits(command) == 1 + command[2] + command[3] <= SPI_MAX_TRANSFER
           all(commands) == \A i \in DOMAIN commands :
                              commands[i][1] \in DOMAIN Opcode /\ fits(commands[i])
<1>1. ASSUME NEW length \in 1 .. SX1262_BENCH_PAYLOAD_MAX
      PROVE  all(SendCommands(length)) /\ all(ReceiveCommands(length))
  <2>1. 1 + (1 + length) + 0 <= 256 /\ 1 + 2 + length <= 256
    BY DEF SX1262_BENCH_PAYLOAD_MAX
  <2>2. ASSUME NEW i \in 1 .. 6
        PROVE  LET c == SendCommands(length)[i] IN c[1] \in DOMAIN Opcode /\ fits(c)
    <3>1. i = 1 \/ i = 2 \/ i = 3 \/ i = 4 \/ i = 5 \/ i = 6
      OBVIOUS
    <3> HIDE DEF fits
    <3>2. CASE i = 2
      <4>1. fits(<<"WRITE_BUFFER", 1 + length, 0>>)
        BY SMT, <2>1 DEF fits, SPI_MAX_TRANSFER
      <4> QED BY <3>2, <4>1, SixCommands, OpcodesOfFrames
    <3>3. /\ fits(<<"SET_PACKET_PARAMS", 6, 0>>) /\ fits(<<"CLEAR_IRQ_STATUS", 2, 0>>)
          /\ fits(<<"SET_TX", 3, 0>>) /\ fits(<<"GET_IRQ_STATUS", 0, 2>>)
      BY SMT DEF fits, SPI_MAX_TRANSFER
    <3> QED BY <3>1, <3>2, <3>3, SixCommands, OpcodesOfFrames
  <2>3. ASSUME NEW i \in 1 .. 5
        PROVE  LET c == ReceiveCommands(length)[i] IN c[1] \in DOMAIN Opcode /\ fits(c)
    <3>1. i = 1 \/ i = 2 \/ i = 3 \/ i = 4 \/ i = 5
      OBVIOUS
    <3> HIDE DEF fits
    <3>2. CASE i = 3
      <4>1. fits(<<"READ_BUFFER", 2, length>>)
        BY SMT, <2>1 DEF fits, SPI_MAX_TRANSFER
      <4> QED BY <3>2, <4>1, FiveCommands, OpcodesOfFrames
    <3>3. /\ fits(<<"GET_RX_BUFFER_STATUS", 1, 2>>) /\ fits(<<"CLEAR_IRQ_STATUS", 2, 0>>)
          /\ fits(<<"SET_RX", 3, 0>>) /\ fits(<<"GET_IRQ_STATUS", 0, 2>>)
      BY SMT DEF fits, SPI_MAX_TRANSFER
    <3> QED BY <3>1, <3>2, <3>3, FiveCommands, OpcodesOfFrames
  <2> QED BY <2>2, <2>3, SixCommands, FiveCommands
<1>2. ~ all(ReceiveCommands(SX1262_BENCH_PAYLOAD_MAX + 1))
  <2> DEFINE long == SX1262_BENCH_PAYLOAD_MAX + 1
  <2>1. ~ fits(<<"READ_BUFFER", 2, long>>)
    BY SMT DEF SX1262_BENCH_PAYLOAD_MAX, SPI_MAX_TRANSFER
  <2>2. DOMAIN ReceiveCommands(long) = 1 .. 5
        /\ ReceiveCommands(long)[3] = <<"READ_BUFFER", 2, long>>
    BY FiveCommands
  <2> HIDE DEF fits, long
  <2> QED BY <2>1, <2>2 DEF long
<1>3. ASSUME NEW i \in DOMAIN InitWrites
      PROVE  fits(<<InitWrites[i][1], Len(InitWrites[i][2]), 0>>)
  <2>1. i \in 1 .. 14
    BY InitWritesAre
  <2>2. Len(InitWrites[i][2]) \in 0 .. 8
    <3>1. /\ Len(ToBytes(RfFrequencyWord(FrequencyMHz), 4)) = 4
          /\ Len(PacketParams(SX1262_BENCH_PAYLOAD_MAX)) = 6
          /\ Len(IrqMask \o IrqMask \o <<0, 0, 0, 0>>) = 8
      BY SMT, FrequencyBytes DEF PacketParams, IrqMask
    <3>2. \A j \in 1 .. 14 : j = 1 \/ j = 2 \/ j = 3 \/ j = 4 \/ j = 5 \/ j = 6 \/ j = 7
             \/ j = 8 \/ j = 9 \/ j = 10 \/ j = 11 \/ j = 12 \/ j = 13 \/ j = 14
      OBVIOUS
    <3>3. /\ Len(InitWrites[1][2]) = 1 /\ Len(InitWrites[2][2]) = 1
          /\ Len(InitWrites[3][2]) = 1 /\ Len(InitWrites[4][2]) = 4
          /\ Len(InitWrites[5][2]) = 1 /\ Len(InitWrites[6][2]) = 2
          /\ Len(InitWrites[7][2]) = 1 /\ Len(InitWrites[8][2]) = 4
          /\ Len(InitWrites[9][2]) = 2 /\ Len(InitWrites[10][2]) = 4
          /\ Len(InitWrites[11][2]) = 6 /\ Len(InitWrites[12][2]) = 2
          /\ Len(InitWrites[13][2]) = 2 /\ Len(InitWrites[14][2]) = 8
      BY SMT, InitWritesAre, <3>1
    <3> QED BY SMT, <2>1, <3>2, <3>3
  <2> DEFINE name == InitWrites[i][1]
             length == Len(InitWrites[i][2])
  <2> HIDE DEF name, length
  <2>3. length \in 0 .. 8
    BY <2>2 DEF length
  <2>4. fits(<<name, length, 0>>)
    BY SMT, <2>3 DEF SPI_MAX_TRANSFER
  <2> QED BY <2>4 DEF name, length
<1> QED BY <1>1, <1>2, <1>3 DEF prove_frames_fit

(* the table of sx1262_init: the first command that fails decides *)
LEMMA InitializationsHold == prove_initializations
<1> DEFINE all == [i \in 1 .. INIT_COMMANDS |-> "OK"]
           middle == (INIT_COMMANDS + 1) \div 2
           spoilt == [all EXCEPT ![middle] = "SPI_TIMEOUT"]
<1>1. middle \in 1 .. INIT_COMMANDS
  BY LoraContractAssumption
<1>2. sx1262_init_model(TRUE, all) = <<"OK", TRUE>>
  BY DEF sx1262_init_model
<1>3. sx1262_init_model(FALSE, all)[1] = "BUSY_TIMEOUT"
  BY DEF sx1262_init_model
<1>4. \A i \in 1 .. INIT_COMMANDS : spoilt[i] = IF i = middle THEN "SPI_TIMEOUT" ELSE "OK"
  OBVIOUS
<1>5. DOMAIN spoilt = 1 .. INIT_COMMANDS
  OBVIOUS
<1> HIDE DEF middle, spoilt, all
<1>6. middle \in DOMAIN spoilt /\ spoilt[middle] # "OK"
  BY <1>1, <1>4, <1>5
<1>7. \A first \in DOMAIN spoilt : spoilt[first] # "OK" <=> first = middle
  BY <1>1, <1>4, <1>5
<1>8. \A j \in 1 .. middle - 1 : ~ (spoilt[j] # "OK")
  BY <1>1, <1>4, LoraContractAssumption
<1>9. (CHOOSE i \in DOMAIN spoilt :
         spoilt[i] # "OK" /\ \A j \in 1 .. i - 1 : ~ (spoilt[j] # "OK")) = middle
  BY <1>6, <1>7, <1>8
<1>10. sx1262_init_model(TRUE, spoilt) = <<"SPI_TIMEOUT", FALSE>>
  <2>1. spoilt[middle] = "SPI_TIMEOUT"
    BY <1>1, <1>4
  <2> QED BY <1>6, <1>9, <2>1 DEF sx1262_init_model
<1> QED
  BY <1>2, <1>3, <1>10 DEF prove_initializations, all, middle, spoilt

(* the masks, pins and transfers of src/proofs/gpio and src/proofs/spi *)
LEMMA PinsHold == prove_masks /\ prove_pins /\ prove_transfers
<1>1. prove_masks
  BY DEF prove_masks, output_allowed, input_allowed, PIN_LIMIT, NSS, DIO1, BUSY, NRST
<1>2. prove_pins
  BY DEF prove_pins, config_output, config_input, write, read_pin, output_allowed,
         input_allowed, PIN_LIMIT, NSS, DIO1, BUSY, NRST
<1>3. prove_transfers
  BY LoraContractAssumption DEF prove_transfers, transfer_model
<1> QED BY <1>1, <1>2, <1>3

(* The tables that the scripts of src/proofs/gpio, src/proofs/spi and      *)
(* src/proofs/lora assert of their own models, and the profile of the      *)
(* radio: for every size of a transfer and every default timeout.          *)
LEMMA ModelsHold == ModelsAreConsistent
BY ProfileHolds, OpcodesHold, FlagsHold, FramesFit, PinsHold, CommandsHold, ResetsHold,
   InitializationsHold, InterfaceHolds
   DEF ModelsAreConsistent, ProfileIsConsistent

(* Calls, pins and initialization agree with reference models whose own    *)
(* tables hold.                                                            *)
THEOREM BusFollowsItsModels == Spec => []BusFollowsContract
<1>1. CallsFollowContract => BusFollowsContract
  BY ModelsHold DEF BusFollowsContract
<1> QED BY <1>1, CallsAgreeWithModels, PTL

-----------------------------------------------------------------------------
(* The search of check_stack.py, of any finite graph *)

LEMMA NatSetInduction ==
  ASSUME NEW S, 0 \in S, \A k \in Nat : k \in S => k + 1 \in S
  PROVE  Nat \subseteq S
<1> SUFFICES ASSUME ~ Nat \subseteq S
             PROVE  FALSE
  OBVIOUS
<1>1. PICK x \in Nat \ S : \A y \in Nat \ S : x <= y
  <2> DEFINE T == Nat \ S
  <2>1. T \in SUBSET Nat /\ T # {}
    OBVIOUS
  <2> HIDE DEF T
  <2>2. \E x \in T : \A y \in T : x <= y
    BY <2>1, LeastNumber
  <2> QED BY <2>2 DEF T
<1>2. x # 0 /\ x - 1 \in Nat
  BY <1>1
<1>3. x - 1 \in S
  BY <1>1, <1>2
<1>4. x - 1 + 1 = x
  BY <1>1
<1> QED BY <1>1, <1>2, <1>3, <1>4

(* A function defined over the numbers to n by its value at 0 and by each   *)
(* value from the one before exists.                                       *)
LEMMA RecursionExists ==
  ASSUME NEW S, NEW base \in S, NEW n \in Nat, NEW step \in [1 .. n -> [S -> S]]
  PROVE  \E F \in [0 .. n -> S] :
           \A i \in 0 .. n : F[i] = IF i = 0 THEN base ELSE step[i][F[i - 1]]
<1> DEFINE Built(m, F) ==
             \A i \in 0 .. m : F[i] = IF i = 0 THEN base ELSE step[i][F[i - 1]]
           Good == {m \in Nat : m <= n => \E F \in [0 .. m -> S] : Built(m, F)}
<1>1. 0 \in Good
  <2>1. [i \in 0 .. 0 |-> base] \in [0 .. 0 -> S] /\ Built(0, [i \in 0 .. 0 |-> base])
    OBVIOUS
  <2> QED BY <2>1
<1>2. ASSUME NEW m \in Nat, m \in Good
      PROVE  m + 1 \in Good
  <2> SUFFICES ASSUME m + 1 <= n
               PROVE  \E F \in [0 .. m + 1 -> S] : Built(m + 1, F)
    OBVIOUS
  <2>1. PICK F \in [0 .. m -> S] : Built(m, F)
    BY <1>2
  <2> DEFINE G == [i \in 0 .. m + 1 |-> IF i <= m THEN F[i] ELSE step[m + 1][F[m]]]
  <2>2. G \in [0 .. m + 1 -> S]
    <3>1. step[m + 1] \in [S -> S] /\ F[m] \in S
      OBVIOUS
    <3> QED BY <3>1
  <2>3. \A i \in 0 .. m : G[i] = F[i]
    OBVIOUS
  <2>4. G[m + 1] = step[m + 1][F[m]]
    OBVIOUS
  <2> HIDE DEF G
  <2>5. ASSUME NEW i \in 0 .. m + 1
        PROVE  G[i] = IF i = 0 THEN base ELSE step[i][G[i - 1]]
    <3>1. CASE i \in 0 .. m
      <4>1. i # 0 => i - 1 \in 0 .. m
        BY <3>1
      <4> QED BY <2>1, <2>3, <3>1, <4>1
    <3>2. CASE i = m + 1
      BY <2>3, <2>4, <3>2
    <3> QED BY <3>1, <3>2
  <2> QED BY <2>2, <2>5
<1>3. Nat \subseteq Good
  <2> HIDE DEF Good
  <2> QED BY <1>1, <1>2, NatSetInduction
<1> QED BY <1>3

Recurs(F, S, base, n, step) ==
  F \in [0 .. n -> S]
  /\ \A i \in 0 .. n : F[i] = IF i = 0 THEN base ELSE step[i][F[i - 1]]

LEMMA LoopExists ==
  \A S, base, n, step :
    base \in S /\ n \in Nat /\ step \in [1 .. n -> [S -> S]]
      => \E F : Recurs(F, S, base, n, step)
<1> SUFFICES ASSUME NEW S, NEW base \in S, NEW n \in Nat, NEW step \in [1 .. n -> [S -> S]]
             PROVE  \E F : Recurs(F, S, base, n, step)
  OBVIOUS
<1>1. \E F \in [0 .. n -> S] :
        \A i \in 0 .. n : F[i] = IF i = 0 THEN base ELSE step[i][F[i - 1]]
  BY RecursionExists
<1> QED BY <1>1 DEF Recurs

(* numbers of a finite set have a greatest one, and 0 if there are none *)
LEMMA GreatestNumber ==
  ASSUME NEW C, IsFiniteSet(C), NEW g \in [C -> Nat]
  PROVE  \E m \in {0} \cup {g[c] : c \in C} : \A c \in C : g[c] <= m
<1> DEFINE Good == {k \in Nat :
             \A D \in SUBSET C : Cardinality(D) = k =>
               \E m \in {0} \cup {g[c] : c \in D} : \A c \in D : g[c] <= m}
<1>1. 0 \in Good
  <2>1. \A D \in SUBSET C : Cardinality(D) = 0 => D = {}
    BY FS_EmptySet, FS_Subset
  <2>2. ASSUME NEW D, D = {}
        PROVE  0 \in {0} \cup {g[c] : c \in D} /\ \A c \in D : g[c] <= 0
    BY <2>2
  <2> QED BY <2>1, <2>2
<1>2. ASSUME NEW k \in Nat, k \in Good
      PROVE  k + 1 \in Good
  <2> SUFFICES ASSUME NEW D \in SUBSET C, Cardinality(D) = k + 1
               PROVE  \E m \in {0} \cup {g[c] : c \in D} : \A c \in D : g[c] <= m
    OBVIOUS
  <2>1. IsFiniteSet(D) /\ D # {}
    BY FS_Subset, FS_EmptySet
  <2>2. PICK d : d \in D
    BY <2>1
  <2>3. Cardinality(D \ {d}) = k
    <3>1. Cardinality(D \ {d}) = Cardinality(D) - 1
      BY <2>1, <2>2, FS_RemoveElement
    <3> QED BY <3>1
  <2>4. PICK m \in {0} \cup {g[c] : c \in D \ {d}} : \A c \in D \ {d} : g[c] <= m
    <3>1. D \ {d} \in SUBSET C
      OBVIOUS
    <3> QED BY <1>2, <2>3, <3>1
  <2>5. m \in Nat /\ g[d] \in Nat
    BY <2>2, <2>4
  <2>6. CASE g[d] <= m
    BY <2>4, <2>6
  <2>7. CASE m <= g[d]
    <3>1. \A c \in D : g[c] \in Nat
      OBVIOUS
    <3>2. \A c \in D : g[c] <= g[d]
      BY <2>4, <2>5, <2>7, <3>1
    <3> QED BY <2>2, <3>2
  <2> QED BY <2>5, <2>6, <2>7
<1>3. Nat \subseteq Good
  <2> HIDE DEF Good
  <2> QED BY <1>1, <1>2, NatSetInduction
<1>4. Cardinality(C) \in Nat
  BY FS_CardinalityType
<1>5. Cardinality(C) \in Good
  BY <1>3, <1>4
<1>6. C \in SUBSET C
  OBVIOUS
<1> QED BY <1>5, <1>6

LEMMA MaxIsGreatest ==
  ASSUME NEW C, IsFiniteSet(C), NEW g \in [C -> Nat],
         NEW S, S = {0} \cup {g[c] : c \in C}
  PROVE  /\ Max(S) \in Nat
         /\ \A c \in C : g[c] <= Max(S)
         /\ Max(S) = 0 \/ \E c \in C : Max(S) = g[c]
<1>1. PICK m \in S : \A c \in C : g[c] <= m
  BY GreatestNumber
<1>2. S \in SUBSET Nat
  OBVIOUS
<1>3. \A y \in S : m >= y
  BY <1>1, <1>2
<1>4. Max(S) \in S /\ \A y \in S : Max(S) >= y
  BY <1>1, <1>3 DEF Max
<1>5. \A c \in C : g[c] \in S
  OBVIOUS
<1> QED BY <1>2, <1>4, <1>5

IsGraph(graph) ==
  /\ IsFiniteSet(DOMAIN graph)
  /\ \A function \in DOMAIN graph : graph[function].stack \in Nat

(* what dfs finds of a node, from what it found of the functions below it *)
Explored(graph, on_path, node, below) ==
  [depth     |-> graph[node].stack + Max({0} \cup {f.depth : f \in below}),
   recursion |-> graph[node].callees \cap on_path # {} \/ \E f \in below : f.recursion,
   missing   |-> (graph[node].callees \ DOMAIN graph) \cup UNION {f.missing : f \in below}]

Onwards(graph, on_path, node) == (graph[node].callees \cap DOMAIN graph) \ on_path

Under(F, graph, on_path, node) ==
  {F[on_path \cup {callee}][callee] : callee \in Onwards(graph, on_path, node)}

Turn(F, graph, on_path) ==
  [node \in DOMAIN graph |-> Explored(graph, on_path, node, Under(F, graph, on_path, node))]

IsFound(F, graph) == F = [on_path \in SUBSET DOMAIN graph |-> Turn(F, graph, on_path)]

(* the functions that are not on the path get fewer *)
LEMMA PathGrows ==
  ASSUME NEW graph, IsGraph(graph), NEW P \in SUBSET DOMAIN graph,
         NEW c \in DOMAIN graph \ P
  PROVE  /\ P \cup {c} \in SUBSET DOMAIN graph
         /\ Cardinality(DOMAIN graph \ P) \in Nat
         /\ Cardinality(DOMAIN graph \ (P \cup {c})) \in Nat
         /\ Cardinality(DOMAIN graph \ (P \cup {c})) < Cardinality(DOMAIN graph \ P)
<1> DEFINE R == DOMAIN graph \ P
<1>1. IsFiniteSet(R)
  BY FS_Difference DEF IsGraph
<1>2. DOMAIN graph \ (P \cup {c}) = R \ {c}
  OBVIOUS
<1>3. c \in R
  OBVIOUS
<1> HIDE DEF R
<1>4. IsFiniteSet(R \ {c}) /\ Cardinality(R \ {c}) = Cardinality(R) - 1
  BY <1>1, <1>3, FS_RemoveElement
<1>5. Cardinality(R) \in Nat /\ Cardinality(R \ {c}) \in Nat
  BY <1>1, <1>4, FS_CardinalityType
<1>6. Cardinality(R \ {c}) < Cardinality(R)
  BY <1>4, <1>5
<1>7. P \cup {c} \in SUBSET DOMAIN graph
  OBVIOUS
<1> QED BY <1>2, <1>5, <1>6, <1>7, Zenon DEF R

(* a turn looks only at longer paths *)
LEMMA TurnLooksDown ==
  ASSUME NEW graph, NEW P, NEW F, NEW G,
         \A c \in DOMAIN graph \ P : F[P \cup {c}] = G[P \cup {c}]
  PROVE  Turn(F, graph, P) = Turn(G, graph, P)
<1>1. ASSUME NEW node \in DOMAIN graph
      PROVE  Under(F, graph, P, node) = Under(G, graph, P, node)
  <2>1. Onwards(graph, P, node) \subseteq DOMAIN graph \ P
    BY DEF Onwards
  <2> QED BY <2>1 DEF Under
<1> QED BY <1>1 DEF Turn

LEMMA FoundExists ==
  ASSUME NEW graph, IsGraph(graph)
  PROVE  \E F : IsFound(F, graph)
<1> DEFINE D == DOMAIN graph
           size(P) == Cardinality(D \ P)
           Upto(F, k) ==
             /\ F = [P \in SUBSET D |-> F[P]]
             /\ \A P \in SUBSET D : size(P) < k => F[P] = Turn(F, graph, P)
           Good == {k \in Nat : \E F : Upto(F, k)}
<1>1. \A P \in SUBSET D : size(P) \in Nat /\ size(P) <= Cardinality(D)
  <2>1. \A P \in SUBSET D : IsFiniteSet(D \ P) /\ D \ P \in SUBSET D
    BY FS_Difference DEF IsGraph
  <2> QED BY <2>1, FS_CardinalityType, FS_Subset DEF IsGraph
<1>2. \A P \in SUBSET D : \A c \in D \ P :
        P \cup {c} \in SUBSET D /\ size(P \cup {c}) < size(P)
  BY PathGrows
<1> HIDE DEF size
<1>3. 0 \in Good
  <2> DEFINE F == [P \in SUBSET D |-> 0]
  <2>1. F = [P \in SUBSET D |-> F[P]]
    OBVIOUS
  <2>2. \A P \in SUBSET D : ~ (size(P) < 0)
    BY <1>1
  <2> HIDE DEF F
  <2>3. Upto(F, 0)
    BY <2>1, <2>2
  <2> QED BY <2>3
<1>4. ASSUME NEW k \in Nat, k \in Good
      PROVE  k + 1 \in Good
  <2>1. PICK F : Upto(F, k)
    BY <1>4
  <2> DEFINE G == [P \in SUBSET D |-> IF size(P) < k THEN F[P] ELSE Turn(F, graph, P)]
  <2>2. \A P \in SUBSET D : G[P] = IF size(P) < k THEN F[P] ELSE Turn(F, graph, P)
    OBVIOUS
  <2>3. G = [P \in SUBSET D |-> G[P]]
    OBVIOUS
  <2> HIDE DEF G
  <2>4. ASSUME NEW P \in SUBSET D, size(P) < k + 1
        PROVE  G[P] = Turn(G, graph, P)
    <3>1. ASSUME NEW c \in D \ P
          PROVE  F[P \cup {c}] = G[P \cup {c}]
      <4>1. P \cup {c} \in SUBSET D /\ size(P \cup {c}) < size(P)
        BY <1>2
      <4>2. size(P \cup {c}) < k
        BY <1>1, <2>4, <4>1
      <4> QED BY <2>2, <4>1, <4>2
    <3>2. Turn(F, graph, P) = Turn(G, graph, P)
      BY <3>1, TurnLooksDown
    <3>3. G[P] = Turn(F, graph, P)
      BY <2>1, <2>2
    <3> QED BY <3>2, <3>3
  <2>5. Upto(G, k + 1)
    BY <2>3, <2>4
  <2>6. k + 1 \in Nat
    OBVIOUS
  <2> HIDE DEF Upto
  <2> QED BY <2>5, <2>6
<1>5. Nat \subseteq Good
  <2> HIDE DEF Good
  <2> QED BY <1>3, <1>4, NatSetInduction
<1>6. Cardinality(D) + 1 \in Nat
  BY FS_CardinalityType DEF IsGraph
<1>7. PICK F : Upto(F, Cardinality(D) + 1)
  BY <1>5, <1>6
<1>8. \A P \in SUBSET D : size(P) < Cardinality(D) + 1
  BY <1>1, FS_CardinalityType DEF IsGraph
<1>9. \A P \in SUBSET D : F[P] = Turn(F, graph, P)
  BY <1>7, <1>8
<1>10. F = [P \in SUBSET D |-> Turn(F, graph, P)]
  BY <1>7, <1>9
<1> QED BY <1>10 DEF IsFound

(* a node is as deep as the deepest function below it, and its own frame *)
LEMMA OneTurn ==
  ASSUME NEW graph, IsGraph(graph), NEW F, IsFound(F, graph),
         NEW P \in SUBSET DOMAIN graph, NEW node \in DOMAIN graph,
         \A c \in DOMAIN graph \ P : F[P \cup {c}][c].depth \in Nat
  PROVE  /\ F[P][node].depth \in Nat
         /\ graph[node].stack <= F[P][node].depth
         /\ \A c \in Onwards(graph, P, node) :
              graph[node].stack + F[P \cup {c}][c].depth <= F[P][node].depth
         /\ \/ F[P][node].depth = graph[node].stack
            \/ \E c \in Onwards(graph, P, node) :
                 F[P][node].depth = graph[node].stack + F[P \cup {c}][c].depth
<1> DEFINE C == Onwards(graph, P, node)
           g == [c \in C |-> F[P \cup {c}][c].depth]
           U == Under(F, graph, P, node)
           S == {0} \cup {f.depth : f \in U}
<1>1. F[P][node] = Explored(graph, P, node, U)
  BY DEF IsFound, Turn
<1>2. F[P][node].depth = graph[node].stack + Max(S)
  BY <1>1 DEF Explored
<1>3. C \subseteq DOMAIN graph \ P /\ IsFiniteSet(C)
  <2>1. C \in SUBSET DOMAIN graph
    BY DEF Onwards
  <2> QED BY <2>1, FS_Subset DEF IsGraph, Onwards
<1>4. g \in [C -> Nat]
  BY <1>3
<1>5. S = {0} \cup {g[c] : c \in C}
  <2>1. {f.depth : f \in U} = {F[P \cup {c}][c].depth : c \in C}
    BY DEF Under
  <2>2. \A c \in C : g[c] = F[P \cup {c}][c].depth
    OBVIOUS
  <2> HIDE DEF g, C, U
  <2> QED BY <2>1, <2>2
<1>6. \A c \in C : g[c] = F[P \cup {c}][c].depth
  OBVIOUS
<1> HIDE DEF g, C, U, S
<1>7. /\ Max(S) \in Nat /\ \A c \in C : g[c] <= Max(S)
      /\ Max(S) = 0 \/ \E c \in C : Max(S) = g[c]
  BY <1>3, <1>4, <1>5, MaxIsGreatest
<1>8. graph[node].stack \in Nat
  BY DEF IsGraph
<1>9. \A c \in C : g[c] \in Nat
  BY <1>4
<1>10. F[P][node].depth \in Nat /\ graph[node].stack <= F[P][node].depth
  BY <1>2, <1>7, <1>8
<1>11. \A c \in C : graph[node].stack + g[c] <= F[P][node].depth
  BY <1>2, <1>7, <1>8, <1>9
<1>12. \/ F[P][node].depth = graph[node].stack
       \/ \E c \in C : F[P][node].depth = graph[node].stack + F[P \cup {c}][c].depth
  <2>1. CASE Max(S) = 0
    BY <1>2, <1>8, <2>1
  <2>2. CASE \E c \in C : Max(S) = g[c]
    BY <1>2, <1>6, <2>2
  <2> QED BY <1>7, <2>1, <2>2
<1>13. \A c \in C : graph[node].stack + F[P \cup {c}][c].depth <= F[P][node].depth
  BY <1>6, <1>11
<1> QED BY <1>10, <1>12, <1>13 DEF C

LEMMA DepthsAreNumbers ==
  ASSUME NEW graph, IsGraph(graph), NEW F, IsFound(F, graph)
  PROVE  \A P \in SUBSET DOMAIN graph : \A node \in DOMAIN graph : F[P][node].depth \in Nat
<1> DEFINE D == DOMAIN graph
           size(P) == Cardinality(D \ P)
           Good == {k \in Nat :
             \A P \in SUBSET D : size(P) < k => \A node \in D : F[P][node].depth \in Nat}
<1>1. \A P \in SUBSET D : size(P) \in Nat
  <2>1. \A P \in SUBSET D : IsFiniteSet(D \ P)
    BY FS_Difference DEF IsGraph
  <2> QED BY <2>1, FS_CardinalityType
<1>2. \A P \in SUBSET D : \A c \in D \ P :
        P \cup {c} \in SUBSET D /\ size(P \cup {c}) < size(P)
  BY PathGrows
<1> HIDE DEF size
<1>3. 0 \in Good
  BY <1>1
<1>4. ASSUME NEW k \in Nat, k \in Good
      PROVE  k + 1 \in Good
  <2> SUFFICES ASSUME NEW P \in SUBSET D, size(P) < k + 1, NEW node \in D
               PROVE  F[P][node].depth \in Nat
    OBVIOUS
  <2>1. ASSUME NEW c \in D \ P
        PROVE  F[P \cup {c}][c].depth \in Nat
    <3>1. P \cup {c} \in SUBSET D /\ size(P \cup {c}) < size(P)
      BY <1>2
    <3>2. size(P \cup {c}) < k
      BY <1>1, <3>1
    <3> QED BY <1>4, <3>1, <3>2
  <2> QED BY <2>1, OneTurn
<1>5. Nat \subseteq Good
  <2> HIDE DEF Good
  <2> QED BY <1>3, <1>4, NatSetInduction
<1> SUFFICES ASSUME NEW P \in SUBSET D
             PROVE  \A node \in D : F[P][node].depth \in Nat
  OBVIOUS
<1>6. size(P) + 1 \in Nat /\ size(P) < size(P) + 1
  BY <1>1
<1>7. size(P) + 1 \in Good
  BY <1>5, <1>6
<1> QED BY <1>6, <1>7

(* what a node of no recursion says of those it calls *)
LEMMA NoRecursionBelow ==
  ASSUME NEW graph, NEW F, IsFound(F, graph),
         NEW P \in SUBSET DOMAIN graph, NEW node \in DOMAIN graph,
         ~ F[P][node].recursion,
         NEW c \in graph[node].callees \cap DOMAIN graph
  PROVE  c \in Onwards(graph, P, node) /\ ~ F[P \cup {c}][c].recursion
<1> DEFINE U == Under(F, graph, P, node)
<1>1. F[P][node] = Explored(graph, P, node, U)
  BY DEF IsFound, Turn
<1>2. ~ (graph[node].callees \cap P # {} \/ \E f \in U : f.recursion)
  <2> DEFINE again == graph[node].callees \cap P # {} \/ \E f \in U : f.recursion
  <2>1. Explored(graph, P, node, U).recursion = again
    BY DEF Explored
  <2> HIDE DEF again, U
  <2>2. ~ again
    BY <1>1, <2>1
  <2> QED BY <2>2 DEF again
<1>3. c \notin P
  BY <1>2
<1>4. c \in Onwards(graph, P, node)
  BY <1>3 DEF Onwards
<1>5. F[P \cup {c}][c] \in U
  BY <1>4 DEF Under
<1>6. ~ F[P \cup {c}][c].recursion
  <2> HIDE DEF U
  <2> QED BY <1>2, <1>5, Zenon
<1> QED BY <1>4, <1>6

(* and one of recursion calls a function on the path, or one below it does *)
LEMMA RecursionBelow ==
  ASSUME NEW graph, NEW F, IsFound(F, graph),
         NEW P \in SUBSET DOMAIN graph, NEW node \in DOMAIN graph,
         F[P][node].recursion
  PROVE  \/ graph[node].callees \cap P # {}
         \/ \E c \in Onwards(graph, P, node) : F[P \cup {c}][c].recursion
<1> DEFINE U == Under(F, graph, P, node)
           again == graph[node].callees \cap P # {} \/ \E f \in U : f.recursion
<1>1. F[P][node] = Explored(graph, P, node, U)
  BY DEF IsFound, Turn
<1>2. Explored(graph, P, node, U).recursion = again
  BY DEF Explored
<1>3. again
  <2> HIDE DEF again, U
  <2> QED BY <1>1, <1>2
<1>4. (\E f \in U : f.recursion)
        => \E c \in Onwards(graph, P, node) : F[P \cup {c}][c].recursion
  BY Zenon DEF Under
<1> QED BY <1>3, <1>4, Zenon

(* the search of check_stack.py is one that was found *)
LEMMA SearchIsFound ==
  ASSUME NEW graph, IsGraph(graph), NEW root \in DOMAIN graph
  PROVE  \E F : IsFound(F, graph) /\ worst_case_path(graph, root) = F[{root}][root]
<1> DEFINE F == CHOOSE G : IsFound(G, graph)
<1>1. IsFound(F, graph)
  BY FoundExists
<1>2. dfs(graph, root) = F[{root}][root]
  BY Zenon DEF dfs, IsFound, Turn, Under, Onwards, Explored
<1> HIDE DEF F
<1> QED BY <1>1, <1>2 DEF worst_case_path

(* the bytes on the stack, one function of a chain after another *)
LEMMA FramesAddUp ==
  ASSUME NEW graph, IsGraph(graph), NEW chain \in Seq(DOMAIN graph)
  PROVE  \E B : /\ B \in [0 .. Len(chain) -> Nat]
                /\ B[0] = 0
                /\ \A i \in 1 .. Len(chain) : B[i] = B[i - 1] + graph[chain[i]].stack
                /\ Frames(graph, chain) = B[Len(chain)]
<1> DEFINE n == Len(chain)
           step == [i \in 1 .. n |-> [x \in Nat |-> x + graph[chain[i]].stack]]
           IsSum(B) == B = [i \in 0 .. n |-> IF i = 0 THEN 0
                                             ELSE B[i - 1] + graph[chain[i]].stack]
           B == CHOOSE G : IsSum(G)
<1>1. n \in Nat /\ \A i \in 1 .. n : graph[chain[i]].stack \in Nat
  BY DEF IsGraph
<1>2. step \in [1 .. n -> [Nat -> Nat]]
  BY <1>1
<1>3. \A i \in 1 .. n : \A x \in Nat : step[i][x] = x + graph[chain[i]].stack
  OBVIOUS
<1> HIDE DEF step
<1>4. PICK G : Recurs(G, Nat, 0, n, step)
  <2> HIDE DEF n
  <2> QED BY <1>1, <1>2, LoopExists
<1>5. \A i \in 0 .. n : G[i] = IF i = 0 THEN 0 ELSE G[i - 1] + graph[chain[i]].stack
  <2>1. \A i \in 0 .. n : i # 0 => i \in 1 .. n /\ i - 1 \in 0 .. n
    BY <1>1
  <2> HIDE DEF n
  <2>2. \A i \in 0 .. n : i # 0 => G[i - 1] \in Nat
    BY <1>4, <2>1 DEF Recurs
  <2> QED BY <1>3, <1>4, <2>1, <2>2 DEF Recurs
<1>6. IsSum(G)
  <2>1. G = [i \in 0 .. n |-> G[i]]
    BY <1>4 DEF Recurs
  <2> QED BY <1>5, <2>1
<1>7. IsSum(B)
  BY <1>6
<1>8. Frames(graph, chain) = B[n]
  BY Zenon DEF Frames
<1> HIDE DEF B
<1>9. \A i \in 0 .. n : B[i] = IF i = 0 THEN 0 ELSE B[i - 1] + graph[chain[i]].stack
  BY <1>7
<1>10. B \in [0 .. n -> Nat]
  <2> DEFINE Good == {k \in Nat : k <= n => B[k] \in Nat}
  <2>1. 0 \in Good
    BY <1>1, <1>9
  <2>2. ASSUME NEW k \in Nat, k \in Good
        PROVE  k + 1 \in Good
    <3> SUFFICES ASSUME k + 1 <= n
                 PROVE  B[k + 1] \in Nat
      OBVIOUS
    <3>1. k + 1 \in 0 .. n /\ k + 1 \in 1 .. n /\ k + 1 # 0 /\ k + 1 - 1 = k /\ k <= n
      BY <1>1
    <3>2. B[k + 1] = B[k] + graph[chain[k + 1]].stack
      BY <1>9, <3>1
    <3> HIDE DEF n
    <3> QED BY <1>1, <2>2, <3>1, <3>2
  <2>3. Nat \subseteq Good
    <3> HIDE DEF Good
    <3> QED BY <2>1, <2>2, NatSetInduction
  <2>4. \A k \in 0 .. n : B[k] \in Nat
    BY <1>1, <2>3
  <2> QED BY <1>7, <2>4
<1>11. B[0] = 0
  BY <1>1, <1>9
<1>12. \A i \in 1 .. n : B[i] = B[i - 1] + graph[chain[i]].stack
  BY <1>1, <1>9
<1> QED BY <1>8, <1>10, <1>11, <1>12

(* a function of the graph that the last of a chain calls lengthens it *)
LEMMA ChainGrows ==
  ASSUME NEW graph, NEW root, NEW chain \in Seq(DOMAIN graph), chain # <<>>,
         IsChain(graph, chain, root), NEW callee \in DOMAIN graph,
         callee \in graph[chain[Len(chain)]].callees
  PROVE  /\ Append(chain, callee) \in Seq(DOMAIN graph)
         /\ Append(chain, callee) # <<>>
         /\ Append(chain, callee)[Len(Append(chain, callee))] = callee
         /\ IsChain(graph, Append(chain, callee), root)
<1> DEFINE n == Len(chain)
           longer == Append(chain, callee)
<1>1. n \in Nat /\ n >= 1
  OBVIOUS
<1>2. longer \in Seq(DOMAIN graph) /\ Len(longer) = n + 1
      /\ longer[n + 1] = callee /\ \A i \in 1 .. n : longer[i] = chain[i]
  OBVIOUS
<1>3. longer # <<>>
  BY <1>1, <1>2
<1> HIDE DEF longer
<1>4. longer[1] = root
  BY <1>1, <1>2 DEF IsChain
<1>5. \A i \in DOMAIN longer : longer[i] \in DOMAIN graph
  BY <1>2
<1>6. ASSUME NEW i \in 1 .. Len(longer) - 1
      PROVE  longer[i + 1] \in graph[longer[i]].callees
  <2>1. CASE i = n
    <3>1. longer[i] = chain[n] /\ longer[i + 1] = callee
      BY <1>1, <1>2, <2>1
    <3> QED BY <3>1
  <2>2. CASE i # n
    <3>1. i \in 1 .. Len(chain) - 1 /\ i + 1 \in 1 .. n /\ i \in 1 .. n
      BY <1>1, <1>2, <2>2
    <3>2. chain[i + 1] \in graph[chain[i]].callees
      BY <3>1 DEF IsChain
    <3>3. longer[i + 1] = chain[i + 1] /\ longer[i] = chain[i]
      BY <1>2, <3>1
    <3> QED BY <3>2, <3>3
  <2> QED BY <2>1, <2>2
<1>7. IsChain(graph, longer, root)
  BY <1>4, <1>5, <1>6 DEF IsChain
<1> QED BY <1>2, <1>3, <1>7 DEF longer
(* the functions of a chain up to one of them *)
Behind(chain, i) == {chain[j] : j \in 1 .. i}

LEMMA BehindGrows ==
  ASSUME NEW S, NEW chain \in Seq(S)
  PROVE  /\ \A i \in 1 .. Len(chain) : Behind(chain, i) \in SUBSET S
         /\ Behind(chain, 1) = {chain[1]}
         /\ \A i \in 1 .. Len(chain) - 1 :
              Behind(chain, i + 1) = Behind(chain, i) \cup {chain[i + 1]}
<1>1. Len(chain) \in Nat /\ \A i \in 1 .. Len(chain) : chain[i] \in S
  OBVIOUS
<1>2. \A i \in 1 .. Len(chain) : Behind(chain, i) \in SUBSET S
  BY <1>1 DEF Behind
<1>3. Behind(chain, 1) = {chain[1]}
  <2>1. 1 .. 1 = {1}
    OBVIOUS
  <2> QED BY <2>1 DEF Behind
<1>4. ASSUME NEW i \in 1 .. Len(chain) - 1
      PROVE  Behind(chain, i + 1) = Behind(chain, i) \cup {chain[i + 1]}
  <2>1. 1 .. i + 1 = (1 .. i) \cup {i + 1}
    BY <1>1
  <2> DEFINE k == i + 1
  <2> HIDE DEF k
  <2>2. Behind(chain, k) = Behind(chain, i) \cup {chain[k]}
    BY <2>1 DEF Behind, k
  <2> QED BY <2>2 DEF k
<1> QED BY <1>2, <1>3, <1>4

(* where no recursion is reported, no chain comes back to where it was *)
LEMMA NoChainComesBack ==
  ASSUME NEW graph, NEW F, IsFound(F, graph), NEW root \in DOMAIN graph,
         ~ F[{root}][root].recursion,
         NEW chain \in Seq(DOMAIN graph), chain # <<>>, IsChain(graph, chain, root)
  PROVE  /\ \A i \in 1 .. Len(chain) : ~ F[Behind(chain, i)][chain[i]].recursion
         /\ \A i \in 1 .. Len(chain) - 1 :
              chain[i + 1] \in Onwards(graph, Behind(chain, i), chain[i])
<1> DEFINE n == Len(chain)
           Good == {i \in Nat : i + 1 <= n => ~ F[Behind(chain, i + 1)][chain[i + 1]].recursion}
<1>1. n \in Nat /\ n >= 1 /\ \A i \in 1 .. n : chain[i] \in DOMAIN graph
  OBVIOUS
<1>2. ASSUME NEW i \in 1 .. n - 1, ~ F[Behind(chain, i)][chain[i]].recursion
      PROVE  /\ chain[i + 1] \in Onwards(graph, Behind(chain, i), chain[i])
             /\ ~ F[Behind(chain, i + 1)][chain[i + 1]].recursion
  <2> DEFINE c == chain[i + 1]
  <2>1. i \in 1 .. n /\ i + 1 \in 1 .. n
    BY <1>1
  <2>2. chain[i] \in DOMAIN graph /\ c \in graph[chain[i]].callees \cap DOMAIN graph
    BY <1>1, <2>1 DEF IsChain
  <2>3. Behind(chain, i) \in SUBSET DOMAIN graph
        /\ Behind(chain, i + 1) = Behind(chain, i) \cup {c}
    BY <2>1, BehindGrows
  <2> HIDE DEF c, n
  <2>4. c \in Onwards(graph, Behind(chain, i), chain[i])
        /\ ~ F[Behind(chain, i) \cup {c}][c].recursion
    BY <1>2, <2>2, <2>3, NoRecursionBelow
  <2> QED BY <2>3, <2>4 DEF c
<1>3. 0 \in Good
  <2>1. Behind(chain, 1) = {root} /\ chain[1] = root
    BY BehindGrows DEF IsChain
  <2>2. ~ F[Behind(chain, 1)][chain[1]].recursion
    BY <2>1
  <2>3. 0 + 1 = 1
    OBVIOUS
  <2> QED BY <2>2, <2>3
<1>4. ASSUME NEW i \in Nat, i \in Good
      PROVE  i + 1 \in Good
  <2> SUFFICES ASSUME i + 1 + 1 <= n
               PROVE  ~ F[Behind(chain, i + 1 + 1)][chain[i + 1 + 1]].recursion
    OBVIOUS
  <2> DEFINE k == i + 1
  <2>1. k \in 1 .. n - 1 /\ i + 1 <= n
    BY <1>1
  <2>2. ~ F[Behind(chain, k)][chain[k]].recursion
    BY <1>4, <2>1
  <2> HIDE DEF k, n
  <2>3. ~ F[Behind(chain, k + 1)][chain[k + 1]].recursion
    BY <1>2, <2>1, <2>2
  <2> QED BY <2>3 DEF k
<1>5. Nat \subseteq Good
  <2> HIDE DEF Good
  <2> QED BY <1>3, <1>4, NatSetInduction
<1>6. ASSUME NEW i \in 1 .. n
      PROVE  ~ F[Behind(chain, i)][chain[i]].recursion
  <2> DEFINE k == i - 1
  <2>1. k \in Nat /\ k + 1 = i /\ k + 1 <= n
    BY <1>1
  <2>2. ~ F[Behind(chain, k + 1)][chain[k + 1]].recursion
    BY <1>5, <2>1
  <2> HIDE DEF k
  <2> QED BY <2>1, <2>2
<1>7. \A i \in 1 .. n - 1 : i \in 1 .. n
  BY <1>1
<1> QED BY <1>2, <1>6, <1>7

(* the frames of a chain that does not come back fit in the depth *)
LEMMA DepthsAddUp ==
  ASSUME NEW graph, IsGraph(graph), NEW F, IsFound(F, graph), NEW root \in DOMAIN graph,
         NEW chain \in Seq(DOMAIN graph), chain # <<>>, IsChain(graph, chain, root),
         \A i \in 1 .. Len(chain) - 1 :
           chain[i + 1] \in Onwards(graph, Behind(chain, i), chain[i])
  PROVE  Frames(graph, chain) <= F[{root}][root].depth
<1> DEFINE n == Len(chain)
           bound == F[{root}][root].depth
           deep(i) == F[Behind(chain, i)][chain[i]].depth
<1>1. PICK B : /\ B \in [0 .. n -> Nat] /\ B[0] = 0
               /\ \A i \in 1 .. n : B[i] = B[i - 1] + graph[chain[i]].stack
               /\ Frames(graph, chain) = B[n]
  BY FramesAddUp
<1>2. n \in Nat /\ n >= 1 /\ \A i \in 1 .. n : chain[i] \in DOMAIN graph
  OBVIOUS
<1>3. \A i \in 1 .. n : Behind(chain, i) \in SUBSET DOMAIN graph
  BY BehindGrows
<1>4. \A P \in SUBSET DOMAIN graph : \A node \in DOMAIN graph : F[P][node].depth \in Nat
  BY DepthsAreNumbers
<1>5. \A i \in 1 .. n : deep(i) \in Nat
  <2> HIDE DEF n
  <2> QED BY <1>2, <1>3, <1>4
<1>6. bound \in Nat
  <2>1. {root} \in SUBSET DOMAIN graph
    OBVIOUS
  <2> QED BY <1>4, <2>1
<1>7. ASSUME NEW i \in 1 .. n
      PROVE  /\ graph[chain[i]].stack \in Nat /\ graph[chain[i]].stack <= deep(i)
             /\ \A c \in Onwards(graph, Behind(chain, i), chain[i]) :
                  graph[chain[i]].stack + F[Behind(chain, i) \cup {c}][c].depth <= deep(i)
  <2>1. chain[i] \in DOMAIN graph /\ Behind(chain, i) \in SUBSET DOMAIN graph
    BY <1>2, <1>3
  <2>2. \A c \in DOMAIN graph \ Behind(chain, i) :
          F[Behind(chain, i) \cup {c}][c].depth \in Nat
    BY <1>4, <2>1
  <2>3. graph[chain[i]].stack \in Nat
    BY <2>1 DEF IsGraph
  <2> QED BY <2>1, <2>2, <2>3, OneTurn
<1>8. \A i \in 1 .. n - 1 : graph[chain[i]].stack + deep(i + 1) <= deep(i)
  <2> SUFFICES ASSUME NEW i \in 1 .. n - 1
               PROVE  graph[chain[i]].stack + deep(i + 1) <= deep(i)
    OBVIOUS
  <2> DEFINE c == chain[i + 1]
  <2>1. i \in 1 .. n
    BY <1>2
  <2>2. Behind(chain, i + 1) = Behind(chain, i) \cup {c}
    BY BehindGrows
  <2>3. c \in Onwards(graph, Behind(chain, i), chain[i])
    OBVIOUS
  <2>4. graph[chain[i]].stack + F[Behind(chain, i) \cup {c}][c].depth <= deep(i)
    <3> HIDE DEF c, n
    <3> QED BY <1>7, <2>1, <2>3
  <2> QED BY <2>2, <2>4
<1> DEFINE Good == {i \in Nat : i + 1 <= n => B[i] + deep(i + 1) <= bound}
<1>9. 0 \in Good
  <2>1. Behind(chain, 1) = {root} /\ chain[1] = root
    BY BehindGrows DEF IsChain
  <2>2. deep(1) = bound
    BY <2>1
  <2>3. 0 + 1 = 1
    OBVIOUS
  <2> HIDE DEF deep, bound
  <2>4. B[0] + deep(0 + 1) <= bound
    BY <1>1, <1>6, <2>2, <2>3
  <2> QED BY <2>4
<1>10. ASSUME NEW i \in Nat, i \in Good
       PROVE  i + 1 \in Good
  <2> SUFFICES ASSUME i + 1 + 1 <= n
               PROVE  B[i + 1] + deep(i + 1 + 1) <= bound
    OBVIOUS
  <2> DEFINE k == i + 1
  <2>1. k \in 1 .. n - 1 /\ k \in 1 .. n /\ k + 1 \in 1 .. n /\ k - 1 = i /\ i \in 0 .. n
        /\ i + 1 <= n
    BY <1>2
  <2>2. B[i] + deep(k) <= bound
    BY <1>10, <2>1
  <2>3. B[k] = B[i] + graph[chain[k]].stack
    BY <1>1, <2>1
  <2> HIDE DEF k, n, deep, bound
  <2>4. graph[chain[k]].stack + deep(k + 1) <= deep(k)
    BY <1>8, <2>1
  <2>5. B[i] \in Nat /\ deep(k) \in Nat /\ deep(k + 1) \in Nat /\ graph[chain[k]].stack \in Nat
    BY <1>1, <1>5, <1>7, <2>1
  <2>6. B[k] + deep(k + 1) <= bound
    BY <1>6, <2>2, <2>3, <2>4, <2>5
  <2> QED BY <2>6 DEF k
<1>11. Nat \subseteq Good
  <2> HIDE DEF Good
  <2> QED BY <1>9, <1>10, NatSetInduction
<1>12. B[n - 1] + deep(n) <= bound
  <2> DEFINE k == n - 1
  <2>1. k \in Nat /\ k + 1 = n /\ k + 1 <= n
    BY <1>2
  <2>2. B[k] + deep(k + 1) <= bound
    <3> HIDE DEF deep, bound
    <3> QED BY <1>11, <2>1
  <2>3. deep(k + 1) = deep(n)
    BY <2>1
  <2> HIDE DEF deep, bound
  <2> QED BY <2>2, <2>3
<1>13. n \in 1 .. n /\ n - 1 \in 0 .. n
  BY <1>2
<1>14. B[n] = B[n - 1] + graph[chain[n]].stack /\ B[n - 1] \in Nat
       /\ deep(n) \in Nat /\ graph[chain[n]].stack \in Nat /\ graph[chain[n]].stack <= deep(n)
  <2> HIDE DEF deep, n
  <2> QED BY <1>1, <1>5, <1>7, <1>13
<1> HIDE DEF deep, bound, n
<1>15. B[n] <= bound
  BY <1>6, <1>12, <1>14
<1> QED BY <1>1, <1>15 DEF bound, n

(* Where the search of check_stack.py reports no recursion, its depth is   *)
(* enough for all functions that call one another from the root, however   *)
(* long the chain: for every call graph with finitely many functions.      *)
THEOREM BoundCoversEveryChain ==
  ASSUME NEW graph, IsGraph(graph), NEW root \in DOMAIN graph,
         ~ worst_case_path(graph, root).recursion,
         NEW chain \in Seq(DOMAIN graph), chain # <<>>, IsChain(graph, chain, root)
  PROVE  Frames(graph, chain) <= worst_case_path(graph, root).depth
<1>1. PICK F : IsFound(F, graph) /\ worst_case_path(graph, root) = F[{root}][root]
  BY SearchIsFound
<1>2. ~ F[{root}][root].recursion
  BY <1>1
<1>3. \A i \in 1 .. Len(chain) - 1 :
        chain[i + 1] \in Onwards(graph, Behind(chain, i), chain[i])
  BY <1>1, <1>2, NoChainComesBack
<1>4. Frames(graph, chain) <= F[{root}][root].depth
  BY <1>1, <1>3, DepthsAddUp
<1> QED BY <1>1, <1>4

(* a chain in which no function comes twice *)
IsSimpleChain(graph, chain, root) ==
  /\ chain \in Seq(DOMAIN graph) /\ chain # <<>> /\ IsChain(graph, chain, root)
  /\ \A i, j \in DOMAIN chain : chain[i] = chain[j] => i = j

LastOf(chain) == chain[Len(chain)]

All(chain) == Behind(chain, Len(chain))

LEMMA SimpleGoesOn ==
  ASSUME NEW graph, NEW root, NEW chain, IsSimpleChain(graph, chain, root)
  PROVE  \A i \in 1 .. Len(chain) - 1 :
           chain[i + 1] \in Onwards(graph, Behind(chain, i), chain[i])
<1> SUFFICES ASSUME NEW i \in 1 .. Len(chain) - 1
             PROVE  chain[i + 1] \in Onwards(graph, Behind(chain, i), chain[i])
  OBVIOUS
<1>1. chain \in Seq(DOMAIN graph) /\ IsChain(graph, chain, root)
      /\ \A j, k \in DOMAIN chain : chain[j] = chain[k] => j = k
  BY DEF IsSimpleChain
<1>2. chain[i + 1] \in graph[chain[i]].callees
  BY <1>1 DEF IsChain
<1>3. i + 1 \in DOMAIN chain /\ chain[i + 1] \in DOMAIN graph
  BY <1>1
<1>4. ASSUME NEW j \in 1 .. i
      PROVE  chain[j] # chain[i + 1]
  <2>1. j \in DOMAIN chain /\ j # i + 1
    BY <1>1
  <2> QED BY <1>1, <1>3, <2>1
<1>5. chain[i + 1] \notin Behind(chain, i)
  BY <1>4 DEF Behind
<1> QED BY <1>2, <1>3, <1>5 DEF Onwards

LEMMA SimpleIsShort ==
  ASSUME NEW graph, IsGraph(graph), NEW root, NEW chain, IsSimpleChain(graph, chain, root)
  PROVE  Len(chain) <= Cardinality(DOMAIN graph)
<1> DEFINE n == Len(chain)
           D == DOMAIN graph
<1>1. n \in Nat /\ chain \in [1 .. n -> D] /\ DOMAIN chain = 1 .. n
  BY DEF IsSimpleChain
<1>2. IsFiniteSet(1 .. n) /\ Cardinality(1 .. n) = n
  <2>1. 0 <= n
    BY <1>1
  <2> HIDE DEF n
  <2> QED BY <1>1, <2>1, FS_Interval
<1>3. IsFiniteSet(D) /\ Cardinality(D) \in Nat
  BY FS_CardinalityType DEF IsGraph
<1>4. \A i, j \in 1 .. n : chain[i] = chain[j] => i = j
  BY <1>1 DEF IsSimpleChain
<1> HIDE DEF n, D
<1>5. ~ Cardinality(D) < Cardinality(1 .. n)
  BY <1>1, <1>2, <1>3, <1>4, FS_PigeonHole
<1> QED BY <1>1, <1>2, <1>3, <1>5 DEF n, D

LEMMA SimpleGrows ==
  ASSUME NEW graph, NEW root, NEW chain, IsSimpleChain(graph, chain, root),
         NEW c \in Onwards(graph, All(chain), LastOf(chain))
  PROVE  /\ IsSimpleChain(graph, Append(chain, c), root)
         /\ Len(Append(chain, c)) = Len(chain) + 1
         /\ LastOf(Append(chain, c)) = c
         /\ All(Append(chain, c)) = All(chain) \cup {c}
<1> DEFINE n == Len(chain)
           longer == Append(chain, c)
<1>1. chain \in Seq(DOMAIN graph) /\ chain # <<>> /\ IsChain(graph, chain, root)
      /\ \A i, j \in DOMAIN chain : chain[i] = chain[j] => i = j
  BY DEF IsSimpleChain
<1>2. n \in Nat /\ n >= 1 /\ DOMAIN chain = 1 .. n
  BY <1>1
<1>3. c \in DOMAIN graph /\ c \in graph[chain[n]].callees /\ c \notin Behind(chain, n)
  BY DEF Onwards, All, LastOf
<1>4. longer \in Seq(DOMAIN graph) /\ longer # <<>> /\ IsChain(graph, longer, root)
      /\ longer[Len(longer)] = c
  BY <1>1, <1>3, ChainGrows
<1>5. Len(longer) = n + 1 /\ DOMAIN longer = 1 .. n + 1 /\ longer[n + 1] = c
      /\ \A i \in 1 .. n : longer[i] = chain[i]
  BY <1>1, <1>3
<1>6. \A i \in 1 .. n : chain[i] # c
  BY <1>3 DEF Behind
<1> HIDE DEF longer, n
<1>7. ASSUME NEW i \in 1 .. n + 1, NEW j \in 1 .. n + 1, longer[i] = longer[j]
      PROVE  i = j
  <2>1. CASE i \in 1 .. n /\ j \in 1 .. n
    BY <1>1, <1>2, <1>5, <1>7, <2>1
  <2>2. CASE i = n + 1 /\ j \in 1 .. n
    BY <1>5, <1>6, <1>7, <2>2
  <2>3. CASE j = n + 1 /\ i \in 1 .. n
    BY <1>5, <1>6, <1>7, <2>3
  <2>4. CASE i = n + 1 /\ j = n + 1
    BY <2>4
  <2> QED BY <1>2, <2>1, <2>2, <2>3, <2>4
<1>8. IsSimpleChain(graph, longer, root)
  BY <1>4, <1>5, <1>7 DEF IsSimpleChain
<1>9. Behind(longer, n + 1) = Behind(chain, n) \cup {c}
  <2>1. Behind(longer, n + 1) = Behind(longer, n) \cup {longer[n + 1]}
    <3>1. n \in 1 .. Len(longer) - 1
      BY <1>2, <1>5
    <3> QED BY <1>4, <3>1, BehindGrows
  <2>2. Behind(longer, n) = Behind(chain, n)
    BY <1>5 DEF Behind
  <2> QED BY <1>5, <2>1, <2>2
<1>10. All(longer) = All(chain) \cup {c}
  BY <1>5, <1>9 DEF All, n
<1> QED BY <1>4, <1>5, <1>8, <1>10 DEF longer, n, LastOf

LEMMA RootIsSimple ==
  ASSUME NEW graph, IsGraph(graph), NEW root \in DOMAIN graph
  PROVE  /\ IsSimpleChain(graph, <<root>>, root)
         /\ Len(<<root>>) = 1 /\ LastOf(<<root>>) = root /\ All(<<root>>) = {root}
         /\ Frames(graph, <<root>>) = graph[root].stack
<1> DEFINE chain == <<root>>
<1>1. chain \in Seq(DOMAIN graph) /\ chain # <<>> /\ Len(chain) = 1 /\ chain[1] = root
      /\ DOMAIN chain = 1 .. 1
  OBVIOUS
<1> HIDE DEF chain
<1>2. IsSimpleChain(graph, chain, root)
  BY <1>1 DEF IsSimpleChain, IsChain
<1>3. Behind(chain, 1) = {root}
  BY <1>1, BehindGrows
<1>4. PICK B : /\ B \in [0 .. Len(chain) -> Nat] /\ B[0] = 0
               /\ \A i \in 1 .. Len(chain) : B[i] = B[i - 1] + graph[chain[i]].stack
               /\ Frames(graph, chain) = B[Len(chain)]
  BY <1>1, FramesAddUp
<1>5. graph[root].stack \in Nat
  BY DEF IsGraph
<1>6. Frames(graph, chain) = graph[root].stack
  <2>1. B[1] = B[1 - 1] + graph[chain[1]].stack
    BY <1>1, <1>4
  <2> QED BY <1>1, <1>4, <1>5, <2>1
<1> QED BY <1>1, <1>2, <1>3, <1>6 DEF chain, LastOf, All

LEMMA FramesGrow ==
  ASSUME NEW graph, IsGraph(graph), NEW chain \in Seq(DOMAIN graph), NEW c \in DOMAIN graph
  PROVE  /\ Frames(graph, chain) \in Nat
         /\ Frames(graph, Append(chain, c)) = Frames(graph, chain) + graph[c].stack
<1> DEFINE n == Len(chain)
           longer == Append(chain, c)
<1>1. n \in Nat /\ longer \in Seq(DOMAIN graph) /\ Len(longer) = n + 1 /\ longer[n + 1] = c
      /\ \A i \in 1 .. n : longer[i] = chain[i]
  OBVIOUS
<1> HIDE DEF longer
<1>2. PICK A : /\ A \in [0 .. n -> Nat] /\ A[0] = 0
               /\ \A i \in 1 .. n : A[i] = A[i - 1] + graph[chain[i]].stack
               /\ Frames(graph, chain) = A[n]
  BY FramesAddUp
<1>3. PICK B : /\ B \in [0 .. Len(longer) -> Nat] /\ B[0] = 0
               /\ \A i \in 1 .. Len(longer) : B[i] = B[i - 1] + graph[longer[i]].stack
               /\ Frames(graph, longer) = B[Len(longer)]
  BY <1>1, FramesAddUp
<1> HIDE DEF n
<1> DEFINE Good == {i \in Nat : i <= n => A[i] = B[i]}
<1>4. 0 \in Good
  BY <1>2, <1>3
<1>5. ASSUME NEW i \in Nat, i \in Good
      PROVE  i + 1 \in Good
  <2> SUFFICES ASSUME i + 1 <= n
               PROVE  A[i + 1] = B[i + 1]
    OBVIOUS
  <2> DEFINE k == i + 1
  <2>1. k \in 1 .. n /\ k \in 1 .. Len(longer) /\ k - 1 = i /\ i <= n
    BY <1>1
  <2> HIDE DEF k
  <2>2. A[i] = B[i]
    BY <1>5, <2>1
  <2>3. A[k] = A[i] + graph[chain[k]].stack /\ B[k] = B[i] + graph[longer[k]].stack
    BY <1>2, <1>3, <2>1
  <2>4. longer[k] = chain[k]
    BY <1>1, <2>1
  <2>5. A[k] = B[k]
    BY <2>2, <2>3, <2>4
  <2> QED BY <2>5 DEF k
<1>6. Nat \subseteq Good
  <2> HIDE DEF Good
  <2> QED BY <1>4, <1>5, NatSetInduction
<1>7. A[n] = B[n]
  BY <1>1, <1>6
<1>8. B[n + 1] = B[n] + graph[c].stack
  <2> DEFINE k == n + 1
  <2>1. k \in 1 .. Len(longer) /\ k - 1 = n /\ longer[k] = c
    BY <1>1
  <2> HIDE DEF k
  <2>2. B[k] = B[n] + graph[c].stack
    BY <1>3, <2>1
  <2> QED BY <2>2 DEF k
<1>9. A[n] \in Nat
  BY <1>1, <1>2
<1> QED BY <1>1, <1>2, <1>3, <1>7, <1>8, <1>9 DEF longer

(* there is no end to chains that can always be lengthened *)
LEMMA SomeChainIsDeepest ==
  ASSUME NEW graph, IsGraph(graph), NEW F, IsFound(F, graph), NEW root \in DOMAIN graph
  PROVE  \E chain : /\ IsSimpleChain(graph, chain, root)
                    /\ Frames(graph, chain) = F[{root}][root].depth
<1> DEFINE bound == F[{root}][root].depth
           deep(chain) == F[All(chain)][LastOf(chain)].depth
           Half(chain) ==
             /\ IsSimpleChain(graph, chain, root)
             /\ Frames(graph, chain) + deep(chain) = bound + graph[LastOf(chain)].stack
           Good == {k \in Nat : \E chain : Half(chain) /\ Len(chain) = k + 1}
<1> SUFFICES ASSUME \A chain : IsSimpleChain(graph, chain, root)
                                 => Frames(graph, chain) # bound
             PROVE  FALSE
  OBVIOUS
<1>1. \A P \in SUBSET DOMAIN graph : \A node \in DOMAIN graph : F[P][node].depth \in Nat
  BY DepthsAreNumbers
<1>2. bound \in Nat
  <2>1. {root} \in SUBSET DOMAIN graph
    OBVIOUS
  <2> QED BY <1>1, <2>1
<1>3. 0 \in Good
  <2>1. Half(<<root>>)
    <3>1. graph[root].stack \in Nat
      BY DEF IsGraph
    <3>2. deep(<<root>>) = bound
      BY RootIsSimple
    <3>3. Frames(graph, <<root>>) = graph[root].stack /\ LastOf(<<root>>) = root
          /\ IsSimpleChain(graph, <<root>>, root)
      BY RootIsSimple
    <3> HIDE DEF bound, deep
    <3> QED BY <1>2, <3>1, <3>2, <3>3
  <2>2. Len(<<root>>) = 0 + 1
    OBVIOUS
  <2> HIDE DEF Half
  <2> QED BY <2>1, <2>2
<1>4. ASSUME NEW k \in Nat, k \in Good
      PROVE  k + 1 \in Good
  <2>1. PICK chain : Half(chain) /\ Len(chain) = k + 1
    BY <1>4
  <2> DEFINE last_one == LastOf(chain)
             P == All(chain)
  <2>2. chain \in Seq(DOMAIN graph) /\ chain # <<>> /\ IsSimpleChain(graph, chain, root)
    BY <2>1 DEF IsSimpleChain
  <2>3. Len(chain) \in 1 .. Len(chain)
    BY <2>2
  <2>4. last_one \in DOMAIN graph /\ P \in SUBSET DOMAIN graph
    BY <2>2, <2>3, BehindGrows DEF LastOf, All
  <2>5. graph[last_one].stack \in Nat /\ Frames(graph, chain) \in Nat
    BY <2>2, <2>4, FramesGrow DEF IsGraph
  <2>6. Frames(graph, chain) + deep(chain) = bound + graph[last_one].stack
    BY <2>1
  <2> HIDE DEF last_one, P
  <2>7. \/ F[P][last_one].depth = graph[last_one].stack
        \/ \E c \in Onwards(graph, P, last_one) :
             F[P][last_one].depth = graph[last_one].stack + F[P \cup {c}][c].depth
    <3>1. \A c \in DOMAIN graph \ P : F[P \cup {c}][c].depth \in Nat
      BY <1>1, <2>4
    <3> QED BY <2>4, <3>1, OneTurn
  <2>8. deep(chain) = F[P][last_one].depth
    BY DEF P, last_one
  <2>9. deep(chain) # graph[last_one].stack
    <3>1. Frames(graph, chain) # bound
      BY <2>2
    <3> HIDE DEF deep, bound
    <3> QED BY <1>2, <2>5, <2>6, <3>1
  <2>10. PICK c \in Onwards(graph, P, last_one) :
           F[P][last_one].depth = graph[last_one].stack + F[P \cup {c}][c].depth
    BY <2>7, <2>8, <2>9
  <2> DEFINE longer == Append(chain, c)
  <2>11. /\ IsSimpleChain(graph, longer, root) /\ Len(longer) = Len(chain) + 1
         /\ LastOf(longer) = c /\ All(longer) = P \cup {c}
    BY <2>2, SimpleGrows DEF P, last_one
  <2>12. c \in DOMAIN graph \ P
    BY DEF Onwards
  <2>13. Frames(graph, longer) = Frames(graph, chain) + graph[c].stack
    BY <2>2, <2>12, FramesGrow
  <2>14. deep(longer) \in Nat /\ deep(longer) = F[P \cup {c}][c].depth
    BY <1>1, <2>4, <2>11, <2>12
  <2>15. graph[c].stack \in Nat
    BY <2>12 DEF IsGraph
  <2>16. deep(chain) = graph[last_one].stack + deep(longer)
    BY <2>8, <2>10, <2>14
  <2>17. Frames(graph, longer) + deep(longer) = bound + graph[c].stack
    <3> HIDE DEF deep, bound, longer
    <3> QED BY <1>2, <2>5, <2>6, <2>13, <2>14, <2>15, <2>16
  <2>18. Half(longer)
    BY <2>11, <2>17
  <2>19. Len(longer) = k + 1 + 1
    BY <2>1, <2>11
  <2> HIDE DEF Half, longer
  <2>20. k + 1 \in Nat
    OBVIOUS
  <2> QED BY <2>18, <2>19, <2>20
<1>5. Nat \subseteq Good
  <2> HIDE DEF Good
  <2> QED BY <1>3, <1>4, NatSetInduction
<1>6. Cardinality(DOMAIN graph) \in Nat
  BY FS_CardinalityType DEF IsGraph
<1>7. PICK chain : Half(chain) /\ Len(chain) = Cardinality(DOMAIN graph) + 1
  BY <1>5, <1>6
<1>8. Len(chain) <= Cardinality(DOMAIN graph)
  BY <1>7, SimpleIsShort
<1> QED BY <1>6, <1>7, <1>8

(* the same of chains that are followed to where a function comes again *)
LEMMA SomeChainComesBack ==
  ASSUME NEW graph, IsGraph(graph), NEW F, IsFound(F, graph), NEW root \in DOMAIN graph,
         F[{root}][root].recursion
  PROVE  \E chain : /\ IsSimpleChain(graph, chain, root)
                    /\ \E i \in DOMAIN chain : chain[i] \in graph[LastOf(chain)].callees
<1> DEFINE Half(chain) ==
             IsSimpleChain(graph, chain, root) /\ F[All(chain)][LastOf(chain)].recursion
           Good == {k \in Nat : \E chain : Half(chain) /\ Len(chain) = k + 1}
<1> SUFFICES ASSUME \A chain : IsSimpleChain(graph, chain, root)
                      => ~ \E i \in DOMAIN chain : chain[i] \in graph[LastOf(chain)].callees
             PROVE  FALSE
  OBVIOUS
<1>1. 0 \in Good
  <2>1. Half(<<root>>)
    BY RootIsSimple
  <2>2. Len(<<root>>) = 0 + 1
    OBVIOUS
  <2> HIDE DEF Half
  <2> QED BY <2>1, <2>2
<1>2. ASSUME NEW k \in Nat, k \in Good
      PROVE  k + 1 \in Good
  <2>1. PICK chain : Half(chain) /\ Len(chain) = k + 1
    BY <1>2
  <2> DEFINE last_one == LastOf(chain)
             P == All(chain)
  <2>2. chain \in Seq(DOMAIN graph) /\ chain # <<>> /\ IsSimpleChain(graph, chain, root)
    BY <2>1 DEF IsSimpleChain
  <2>3. Len(chain) \in 1 .. Len(chain) /\ DOMAIN chain = 1 .. Len(chain)
    BY <2>2
  <2>4. last_one \in DOMAIN graph /\ P \in SUBSET DOMAIN graph
    BY <2>2, <2>3, BehindGrows DEF LastOf, All
  <2>5. F[P][last_one].recursion
    BY <2>1
  <2>6. graph[last_one].callees \cap P = {}
    BY <2>2, <2>3 DEF P, last_one, All, Behind
  <2> HIDE DEF last_one, P
  <2>7. PICK c \in Onwards(graph, P, last_one) : F[P \cup {c}][c].recursion
    BY <2>4, <2>5, <2>6, RecursionBelow
  <2> DEFINE longer == Append(chain, c)
  <2>8. /\ IsSimpleChain(graph, longer, root) /\ Len(longer) = Len(chain) + 1
        /\ LastOf(longer) = c /\ All(longer) = P \cup {c}
    BY <2>2, SimpleGrows DEF P, last_one
  <2> HIDE DEF longer
  <2>9. Half(longer)
    BY <2>7, <2>8
  <2>10. Len(longer) = k + 1 + 1 /\ k + 1 \in Nat
    BY <2>1, <2>8
  <2> HIDE DEF Half
  <2> QED BY <2>9, <2>10
<1>3. Nat \subseteq Good
  <2> HIDE DEF Good
  <2> QED BY <1>1, <1>2, NatSetInduction
<1>4. Cardinality(DOMAIN graph) \in Nat
  BY FS_CardinalityType DEF IsGraph
<1>5. PICK chain : Half(chain) /\ Len(chain) = Cardinality(DOMAIN graph) + 1
  BY <1>3, <1>4
<1>6. Len(chain) <= Cardinality(DOMAIN graph)
  BY <1>5, SimpleIsShort
<1> QED BY <1>4, <1>5, <1>6

(* The search of check_stack.py is exact, of every finite call graph: the  *)
(* depth is that of the deepest chain of calls that names no function      *)
(* twice, and recursion is reported exactly if such a chain can go back    *)
(* to one of its functions.                                                *)
THEOREM SearchIsExact ==
  ASSUME NEW graph, IsGraph(graph), NEW root \in DOMAIN graph
  PROVE  LET found == worst_case_path(graph, root)
             Simple(chain) == IsSimpleChain(graph, chain, root)
         IN  /\ \A chain : Simple(chain) => Frames(graph, chain) <= found.depth
             /\ \E chain : Simple(chain) /\ Frames(graph, chain) = found.depth
             /\ found.recursion <=>
                  \E chain : Simple(chain)
                    /\ \E i \in DOMAIN chain : chain[i] \in graph[LastOf(chain)].callees
<1>1. PICK F : IsFound(F, graph) /\ worst_case_path(graph, root) = F[{root}][root]
  BY SearchIsFound
<1>2. ASSUME NEW chain, IsSimpleChain(graph, chain, root)
      PROVE  Frames(graph, chain) <= F[{root}][root].depth
  BY <1>1, <1>2, SimpleGoesOn, DepthsAddUp DEF IsSimpleChain
<1>3. \E chain : IsSimpleChain(graph, chain, root)
                   /\ Frames(graph, chain) = F[{root}][root].depth
  BY <1>1, SomeChainIsDeepest
<1>4. F[{root}][root].recursion =>
        \E chain : IsSimpleChain(graph, chain, root)
          /\ \E i \in DOMAIN chain : chain[i] \in graph[LastOf(chain)].callees
  BY <1>1, SomeChainComesBack
<1>5. ASSUME ~ F[{root}][root].recursion, NEW chain, IsSimpleChain(graph, chain, root),
             NEW i \in DOMAIN chain, chain[i] \in graph[LastOf(chain)].callees
      PROVE  FALSE
  <2> DEFINE n == Len(chain)
             c == chain[i]
  <2>1. chain \in Seq(DOMAIN graph) /\ chain # <<>> /\ IsChain(graph, chain, root)
    BY <1>5 DEF IsSimpleChain
  <2>2. n \in 1 .. n /\ i \in 1 .. n /\ chain[n] \in DOMAIN graph /\ c \in DOMAIN graph
    BY <2>1
  <2>3. Behind(chain, n) \in SUBSET DOMAIN graph /\ c \in Behind(chain, n)
    <3>1. c \in Behind(chain, n)
      BY <2>2 DEF Behind
    <3> QED BY <2>1, <2>2, <3>1, BehindGrows
  <2>4. ~ F[Behind(chain, n)][chain[n]].recursion
    BY <1>1, <1>5, <2>1, <2>2, NoChainComesBack
  <2>5. c \in graph[chain[n]].callees \cap DOMAIN graph
    BY <1>5, <2>2 DEF LastOf
  <2> HIDE DEF c, n
  <2>6. c \in Onwards(graph, Behind(chain, n), chain[n])
    BY <1>1, <2>2, <2>3, <2>4, <2>5, NoRecursionBelow
  <2> QED BY <2>3, <2>6 DEF Onwards
<1> QED BY <1>1, <1>2, <1>3, <1>4, <1>5

-----------------------------------------------------------------------------
(* The driver's calls in the call graph *)

(* a chain of the driver, and the function it has come to *)
Reaches(chain, function) ==
  /\ chain \in Seq(DOMAIN Graph) /\ chain # <<>>
  /\ chain[Len(chain)] = function
  /\ IsChain(Graph, chain, Main)

LEMMA CallGoesOn ==
  \A chain, function, callee :
    Reaches(chain, function) /\ <<function, callee>> \in DriverCalls
      => Reaches(Append(chain, callee), callee)
<1> SUFFICES ASSUME NEW chain, NEW function, NEW callee,
                    Reaches(chain, function), <<function, callee>> \in DriverCalls
             PROVE  Reaches(Append(chain, callee), callee)
  OBVIOUS
<1> DEFINE edge == <<function, callee>>
<1>1. edge[1] \in DOMAIN Graph /\ edge[2] \in DOMAIN Graph
      /\ edge[2] \in Graph[edge[1]].callees
  BY StackAssumption
<1>2. callee \in DOMAIN Graph /\ callee \in Graph[function].callees
  BY <1>1
<1> QED BY <1>2, ChainGrows DEF Reaches

LEMMA MainIsChain == Reaches(<<Main>>, Main)
<1>1. <<Main, InitInterface>> \in DriverCalls
  BY DEF DriverCalls
<1> DEFINE edge == <<Main, InitInterface>>
<1>2. edge[1] \in DOMAIN Graph
  BY <1>1, StackAssumption
<1>3. Main \in DOMAIN Graph
  BY <1>2
<1>4. <<Main>> \in Seq(DOMAIN Graph) /\ <<Main>> # <<>> /\ Len(<<Main>>) = 1 /\ <<Main>>[1] = Main
  BY <1>3
<1>5. IsChain(Graph, <<Main>>, Main)
  BY <1>3, <1>4 DEF IsChain
<1> QED BY <1>4, <1>5 DEF Reaches

Lengthens(S, longer, chain, last_one) ==
  /\ chain \in Seq(S) /\ longer \in Seq(S) /\ last_one \in S
  /\ Len(longer) = Len(chain) + 1 /\ longer[Len(longer)] = last_one
  /\ \A i \in 1 .. Len(chain) : longer[i] = chain[i]

LEMMA Lengthened ==
  \A S, longer, chain, last_one :
    Lengthens(S, longer, chain, last_one) => Append(chain, last_one) = longer
<1> SUFFICES ASSUME NEW S, NEW longer, NEW chain, NEW last_one,
                    Lengthens(S, longer, chain, last_one)
             PROVE  Append(chain, last_one) = longer
  OBVIOUS
<1>1. Append(chain, last_one) \in Seq(S) /\ Len(Append(chain, last_one)) = Len(longer)
  BY DEF Lengthens
<1>2. \A i \in 1 .. Len(longer) : Append(chain, last_one)[i] = longer[i]
  BY DEF Lengthens
<1> QED BY <1>1, <1>2, SeqEqual DEF Lengthens

(* the chains of two functions and of more, as they are written *)
LEMMA ChainsGoOn ==
  /\ \A b : <<Main, b>> \in DriverCalls => Reaches(<<Main, b>>, b)
  /\ \A a, b, c : Reaches(<<a, b>>, b) /\ <<b, c>> \in DriverCalls => Reaches(<<a, b, c>>, c)
  /\ \A a, b, c, d : Reaches(<<a, b, c>>, c) /\ <<c, d>> \in DriverCalls
       => Reaches(<<a, b, c, d>>, d)
  /\ \A a, b, c, d, e : Reaches(<<a, b, c, d>>, d) /\ <<d, e>> \in DriverCalls
       => Reaches(<<a, b, c, d, e>>, e)
  /\ \A a, b, c, d, e, f : Reaches(<<a, b, c, d, e>>, e) /\ <<e, f>> \in DriverCalls
       => Reaches(<<a, b, c, d, e, f>>, f)
<1>1. ASSUME NEW b, <<Main, b>> \in DriverCalls
      PROVE  Reaches(<<Main, b>>, b)
  <2>1. Lengthens({Main, b}, <<Main, b>>, <<Main>>, b)
    BY DEF Lengthens
  <2>2. Append(<<Main>>, b) = <<Main, b>>
    BY <2>1, Lengthened, Zenon
  <2> QED BY <1>1, <2>2, MainIsChain, CallGoesOn, Zenon
<1>2. ASSUME NEW a, NEW b, NEW c, Reaches(<<a, b>>, b), <<b, c>> \in DriverCalls
      PROVE  Reaches(<<a, b, c>>, c)
  <2>1. Lengthens({a, b, c}, <<a, b, c>>, <<a, b>>, c)
    BY DEF Lengthens
  <2>2. Append(<<a, b>>, c) = <<a, b, c>>
    BY <2>1, Lengthened, Zenon
  <2> QED BY <1>2, <2>2, CallGoesOn, Zenon
<1>3. ASSUME NEW a, NEW b, NEW c, NEW d, Reaches(<<a, b, c>>, c), <<c, d>> \in DriverCalls
      PROVE  Reaches(<<a, b, c, d>>, d)
  <2>1. Lengthens({a, b, c, d}, <<a, b, c, d>>, <<a, b, c>>, d)
    BY DEF Lengthens
  <2>2. Append(<<a, b, c>>, d) = <<a, b, c, d>>
    BY <2>1, Lengthened, Zenon
  <2> QED BY <1>3, <2>2, CallGoesOn, Zenon
<1>4. ASSUME NEW a, NEW b, NEW c, NEW d, NEW e,
             Reaches(<<a, b, c, d>>, d), <<d, e>> \in DriverCalls
      PROVE  Reaches(<<a, b, c, d, e>>, e)
  <2>1. Lengthens({a, b, c, d, e}, <<a, b, c, d, e>>, <<a, b, c, d>>, e)
    BY DEF Lengthens
  <2>2. Append(<<a, b, c, d>>, e) = <<a, b, c, d, e>>
    BY <2>1, Lengthened, Zenon
  <2> QED BY <1>4, <2>2, CallGoesOn, Zenon
<1>5. ASSUME NEW a, NEW b, NEW c, NEW d, NEW e, NEW f,
             Reaches(<<a, b, c, d, e>>, e), <<e, f>> \in DriverCalls
      PROVE  Reaches(<<a, b, c, d, e, f>>, f)
  <2>1. Lengthens({a, b, c, d, e, f}, <<a, b, c, d, e, f>>, <<a, b, c, d, e>>, f)
    BY DEF Lengthens
  <2>2. Append(<<a, b, c, d, e>>, f) = <<a, b, c, d, e, f>>
    BY <2>1, Lengthened, Zenon
  <2> QED BY <1>5, <2>2, CallGoesOn, Zenon
<1> QED BY <1>1, <1>2, <1>3, <1>4, <1>5

LEMMA CallersReach ==
  /\ Reaches(<<Main, InitInterface, RadioInit>>, RadioInit)
  /\ Reaches(<<Main, PollInterface, PollReceive>>, PollReceive)
  /\ Reaches(<<Main, SendInterface, SendFrame>>, SendFrame)
  /\ Reaches(<<Main, PollInterface, ProcessPacket, SendInterface, SendFrame>>, SendFrame)
  /\ Reaches(<<Main, PollInterface, ProcessPacket, ResponseSend, SendInterface, SendFrame>>,
             SendFrame)
<1>1. /\ <<Main, InitInterface>> \in DriverCalls /\ <<InitInterface, RadioInit>> \in DriverCalls
      /\ <<Main, PollInterface>> \in DriverCalls /\ <<PollInterface, PollReceive>> \in DriverCalls
      /\ <<PollInterface, ProcessPacket>> \in DriverCalls
      /\ <<ProcessPacket, SendInterface>> \in DriverCalls
      /\ <<ProcessPacket, ResponseSend>> \in DriverCalls
      /\ <<ResponseSend, SendInterface>> \in DriverCalls
      /\ <<Main, SendInterface>> \in DriverCalls /\ <<SendInterface, SendFrame>> \in DriverCalls
  BY DEF DriverCalls
<1>2. Reaches(<<Main, InitInterface, RadioInit>>, RadioInit)
  <2>1. Reaches(<<Main, InitInterface>>, InitInterface)
    BY <1>1, ChainsGoOn, Zenon
  <2> QED BY <1>1, <2>1, ChainsGoOn, Zenon
<1>3. Reaches(<<Main, PollInterface>>, PollInterface)
  BY <1>1, ChainsGoOn, Zenon
<1>4. Reaches(<<Main, PollInterface, PollReceive>>, PollReceive)
  BY <1>1, <1>3, ChainsGoOn, Zenon
<1>5. Reaches(<<Main, SendInterface, SendFrame>>, SendFrame)
  <2>1. Reaches(<<Main, SendInterface>>, SendInterface)
    BY <1>1, ChainsGoOn, Zenon
  <2> QED BY <1>1, <2>1, ChainsGoOn, Zenon
<1>6. Reaches(<<Main, PollInterface, ProcessPacket>>, ProcessPacket)
  BY <1>1, <1>3, ChainsGoOn, Zenon
<1>7. Reaches(<<Main, PollInterface, ProcessPacket, SendInterface, SendFrame>>, SendFrame)
  <2>1. Reaches(<<Main, PollInterface, ProcessPacket, SendInterface>>, SendInterface)
    BY <1>1, <1>6, ChainsGoOn, Zenon
  <2> QED BY <1>1, <2>1, ChainsGoOn, Zenon
<1>8. Reaches(<<Main, PollInterface, ProcessPacket, ResponseSend, SendInterface, SendFrame>>,
              SendFrame)
  <2>1. Reaches(<<Main, PollInterface, ProcessPacket, ResponseSend>>, ResponseSend)
    BY <1>1, <1>6, ChainsGoOn, Zenon
  <2>2. Reaches(<<Main, PollInterface, ProcessPacket, ResponseSend, SendInterface>>,
                SendInterface)
    BY <1>1, <2>1, ChainsGoOn, Zenon
  <2> QED BY <1>1, <2>2, ChainsGoOn, Zenon
<1> QED BY <1>2, <1>4, <1>5, <1>7, <1>8

LEMMA CalledIsCalled ==
  /\ <<RadioInit, RadioReset>> \in DriverCalls
  /\ \A command \in CommandPair :
       /\ \A caller \in {RadioInit, PollReceive, SendFrame} : <<caller, command>> \in DriverCalls
       /\ <<command, <<"spi", "transfer">>>> \in DriverCalls
  /\ \A function \in {RadioReset} \cup CommandPair : \A pin \in PinCalls :
       <<function, pin>> \in DriverCalls
BY DEF DriverCalls

-----------------------------------------------------------------------------
(* only sx1262_init resets the chip *)
NoResetAlone == script = <<>> /\ pc # "idle" => call.fn # "reset"

LEMMA ReturnKeepsScript ==
  ASSUME BusTypeOK, NEW status, NEW heard, NEW got, Return(status, heard, got)
  PROVE  NoResetAlone'
<1>1. CASE status = "OK" /\ Len(script) > 1
  <2>1. script' = Tail(script)
    BY <1>1 DEF Return
  <2>2. Len(Tail(script)) = Len(script) - 1 /\ Len(script) \in Nat
    BY <1>1 DEF BusTypeOK
  <2>3. Len(script') # 0
    BY <1>1, <2>1, <2>2
  <2>4. script' # <<>>
    BY <2>3
  <2> QED BY <2>4 DEF NoResetAlone
<1>2. CASE ~ (status = "OK" /\ Len(script) > 1)
  <2>1. pc' = "idle"
    BY <1>2 DEF Return
  <2> QED BY <2>1 DEF NoResetAlone
<1> QED BY <1>1, <1>2

LEMMA NoResetAloneStep == BusInv /\ NoResetAlone /\ [Next]_vars => NoResetAlone'
<1> SUFFICES ASSUME BusInv, NoResetAlone, [Next]_vars
             PROVE  NoResetAlone'
  OBVIOUS
<1> USE DEF NoResetAlone
<1>1. CASE UNCHANGED vars
  BY <1>1 DEF vars, driver
<1>2. ASSUME NEW timeout \in {0, 1}, Initialize(timeout)
      PROVE  NoResetAlone'
  <2>1. script' # <<>>
    BY <1>2, ScriptIsCalls DEF Initialize
  <2> QED BY <2>1
<1>3. ASSUME NEW c \in Commands, Command(c)
      PROVE  NoResetAlone'
  <2>1. call'.fn # "reset"
    BY <1>3, LoraBusAssumption DEF Command, Enter
  <2> QED BY <2>1
<1>4. ASSUME Stay, pc # "idle"
      PROVE  NoResetAlone'
  BY <1>4 DEF Stay
<1>5. CASE CheckArguments
  BY <1>4, <1>5, ReturnKeepsScript DEF CheckArguments, BusInv
<1>6. CASE PreparePins \/ PullReset \/ ReleaseReset
  BY <1>4, <1>6 DEF PreparePins, PullReset, ReleaseReset
<1>7. CASE ReadBusy
  BY <1>4, <1>7, ReturnKeepsScript DEF ReadBusy, BusInv
<1>8. CASE Select
  BY <1>8 DEF Select
<1>9. CASE ClockChunk
  BY <1>9 DEF ClockChunk
<1>10. CASE Deselect
  BY <1>10, ReturnKeepsScript DEF Deselect, BusInv
<1>11. CASE ChipReady
  BY <1>11 DEF ChipReady, driver
<1> QED BY <1>1, <1>2, <1>3, <1>5, <1>6, <1>7, <1>8, <1>9, <1>10, <1>11 DEF Next, Driver

(* the functions that are active call one another *)
LEMMA ActiveIsChain ==
  ASSUME BusInv, NoResetAlone, NEW chain \in Active
  PROVE  \E function : Reaches(chain, function)
<1>1. CASE pc = "idle"
  BY <1>1, MainIsChain DEF Active
<1>2. CASE pc # "idle"
  <2>1. call.fn \in {"reset", "write", "read"}
    BY DEF BusInv, BusTypeOK, Call
  <2>2. Called \in {RadioReset} \cup CommandPair
    BY DEF Called, CommandPair
  <2>3. script = <<>> => Called \in CommandPair
    BY <1>2 DEF Called, CommandPair, NoResetAlone
  <2>4. ASSUME NEW caller \in Callers
        PROVE  Reaches(Append(caller, Called), Called)
    <3>1. CASE script # <<>>
      <4>1. Reaches(caller, RadioInit)
        BY <3>1, CallersReach DEF Callers
      <4>2. <<RadioInit, Called>> \in DriverCalls
        BY <2>2, CalledIsCalled
      <4> QED BY <4>1, <4>2, CallGoesOn
    <3>2. CASE script = <<>>
      <4>1. PICK from \in {PollReceive, SendFrame} : Reaches(caller, from)
        BY <3>2, CallersReach DEF Callers
      <4>2. <<from, Called>> \in DriverCalls
        BY <2>3, <3>2, <4>1, CalledIsCalled
      <4> QED BY <4>1, <4>2, CallGoesOn
    <3> QED BY <3>1, <3>2
  <2>5. CASE pc = "args"
    <3>1. PICK caller \in Callers : chain = Append(caller, Called)
      BY <1>2, <2>5 DEF Active
    <3> QED BY <2>4, <3>1
  <2>6. CASE pc # "args"
    <3>1. PICK caller \in Callers, leaf \in Leaves : chain = Append(Append(caller, Called), leaf)
      BY <1>2, <2>6 DEF Active
    <3>2. <<Called, leaf>> \in DriverCalls
      <4>1. CASE pc = "clock"
        <5>1. Called \in CommandPair
          BY <4>1 DEF Called, CommandPair, BusInv, CallIsAsAsked, Prepared
        <5>2. leaf = <<"spi", "transfer">>
          BY <4>1 DEF Leaves
        <5> QED BY <5>1, <5>2, CalledIsCalled
      <4>2. CASE pc # "clock"
        <5>1. leaf \in PinCalls
          BY <4>2 DEF Leaves, PinCalls
        <5> QED BY <2>2, <5>1, CalledIsCalled
      <4> QED BY <4>1, <4>2
    <3>3. Reaches(Append(caller, Called), Called)
      BY <2>4, <3>1
    <3>4. Reaches(Append(Append(caller, Called), leaf), leaf)
      BY <3>2, <3>3, CallGoesOn, Zenon
    <3> QED BY <3>1, <3>4
  <2> QED BY <2>5, <2>6
<1> QED BY <1>1, <1>2

(* Whatever the driver is doing, the functions that are active call one    *)
(* another as check_stack.py believes and their frames fit in the depth it *)
(* reports for _main, if it reports no recursion: whatever else the        *)
(* firmware is made of, however large the call graph and its frames are.   *)
THEOREM StackIsBounded == ToolsAreExact /\ ToolsPass => (Spec => []StackStaysInBound)
<1> SUFFICES ASSUME ToolsAreExact, ToolsPass
             PROVE  Spec => []StackStaysInBound
  OBVIOUS
<1>1. BusInv /\ NoResetAlone => StackStaysInBound
  <2> SUFFICES ASSUME BusInv, NoResetAlone, NEW chain \in Active
               PROVE  IsChain(Graph, chain, Main) /\ Frames(Graph, chain) <= Bound.depth
    BY DEF StackStaysInBound
  <2>1. PICK function : Reaches(chain, function)
    BY ActiveIsChain
  <2>2. IsGraph(Graph)
    BY StackAssumption DEF IsGraph
  <2>3. Main \in DOMAIN Graph
    BY MainIsChain DEF Reaches
  <2>4. ~ worst_case_path(Graph, Main).recursion
    BY DEF ToolsPass, Bound
  <2>5. Frames(Graph, chain) <= worst_case_path(Graph, Main).depth
    BY <2>1, <2>2, <2>3, <2>4, BoundCoversEveryChain DEF Reaches
  <2> QED BY <2>1, <2>5 DEF Reaches, Bound
<1>2. Init => NoResetAlone
  BY DEF Init, NoResetAlone
<1> QED BY <1>1, <1>2, BusInvInit, BusInvStep, NoResetAloneStep, PTL DEF Spec

-----------------------------------------------------------------------------
(* How long a call can take *)

(* steps the call under way can still take *)
StepsLeft ==
  [idle |-> 0, deselect |-> 1, clock |-> 1 + left, select |-> 2 + Total,
   wait |-> 3 + Total + budget, pins |-> 4 + Total + budget,
   settle |-> 4 + Total + budget, args |-> 5 + Total + budget,
   reset |-> 5 + Total + budget][pc]

(* A call has as many steps as its bytes and its polls of BUSY, and each   *)
(* of them uses one up, whatever chip and peripheral do; where a call ends *)
(* within sx1262_init, one call fewer is left.                             *)
EveryStepCounts ==
  [][Driver => \/ script' = script /\ StepsLeft' < StepsLeft
               \/ Len(script') < Len(script)]_vars

LEMMA StepsAre ==
  /\ pc = "idle" => StepsLeft = 0
  /\ pc = "deselect" => StepsLeft = 1
  /\ pc = "clock" => StepsLeft = 1 + left
  /\ pc = "select" => StepsLeft = 2 + Total
  /\ pc = "wait" => StepsLeft = 3 + Total + budget
  /\ pc \in {"pins", "settle"} => StepsLeft = 4 + Total + budget
  /\ pc \in {"args", "reset"} => StepsLeft = 5 + Total + budget
BY DEF StepsLeft

LEMMA StepsAreNext ==
  /\ pc' = "idle" => StepsLeft' = 0
  /\ pc' = "deselect" => StepsLeft' = 1
  /\ pc' = "clock" => StepsLeft' = 1 + left'
  /\ pc' = "select" => StepsLeft' = 2 + Total'
  /\ pc' = "wait" => StepsLeft' = 3 + Total' + budget'
  /\ pc' \in {"pins", "settle"} => StepsLeft' = 4 + Total' + budget'
  /\ pc' \in {"args", "reset"} => StepsLeft' = 5 + Total' + budget'
BY DEF StepsLeft

OneLess ==
  \/ script' = script /\ StepsLeft' < StepsLeft
  \/ Len(script') < Len(script)

LEMMA TotalIsNatural == BusTypeOK => Total \in Nat \ {0}
<1> SUFFICES ASSUME BusTypeOK
             PROVE  Total \in Nat \ {0}
  OBVIOUS
<1>1. call.len \in Nat /\ call.rx_len \in Nat
  BY DEF BusTypeOK, Call
<1> QED BY <1>1 DEF Total

LEMMA TotalStays == call' = call => Total' = Total
BY DEF Total

(* a call that returns ends the one under way, or one of sx1262_init *)
LEMMA ReturnCounts ==
  ASSUME BusTypeOK, StepsLeft > 0, NEW status, NEW heard, NEW got, Return(status, heard, got)
  PROVE  OneLess
<1>1. CASE script = <<>>
  <2>1. Len(script) = 0
    BY <1>1
  <2>2. script' = <<>> /\ pc' = "idle"
    BY <1>1, <2>1 DEF Return
  <2>3. StepsLeft' = 0
    BY <2>2, StepsAreNext
  <2> QED BY <1>1, <2>2, <2>3 DEF OneLess
<1>2. CASE script # <<>>
  <2>1. script \in Seq(Call) /\ Len(script) \in Nat /\ Len(script) > 0
    BY <1>2 DEF BusTypeOK
  <2>2. Len(Tail(script)) = Len(script) - 1
    BY <1>2, <2>1
  <2>3. script' = Tail(script) \/ script' = <<>>
    BY DEF Return
  <2>4. Len(script') < Len(script)
    BY <2>1, <2>2, <2>3
  <2> QED BY <2>4 DEF OneLess
<1> QED BY <1>1, <1>2

LEMMA DriverCounts == BusInv /\ Driver => OneLess
<1> SUFFICES ASSUME BusInv, Driver
             PROVE  OneLess
  OBVIOUS
<1>1. /\ Total \in Nat \ {0} /\ budget \in Nat /\ left \in Nat
      /\ BusTypeOK
  BY TotalIsNatural DEF BusInv, BusTypeOK
<1>2. StepsLeft > 0
  BY <1>1, StepsAre DEF BusTypeOK, Place, Driver, CheckArguments, PreparePins, PullReset,
     ReleaseReset, ReadBusy, Select, ClockChunk, Deselect
<1>3. Stay => script' = script /\ Total' = Total
  BY TotalStays DEF Stay
<1>4. CASE CheckArguments
  <2>1. CASE Stay /\ pc' = "pins" /\ budget' = budget
    <3>1. StepsLeft = 5 + Total + budget
      BY <1>4, StepsAre DEF CheckArguments
    <3>2. StepsLeft' = 4 + Total + budget
      BY <1>3, <2>1, StepsAreNext
    <3> QED BY <1>1, <1>3, <2>1, <3>1, <3>2 DEF OneLess
  <2>2. ASSUME Return("INVAL", <<>>, 0)
        PROVE  OneLess
    BY <1>1, <1>2, <2>2, ReturnCounts
  <2> QED BY <1>4, <2>1, <2>2 DEF CheckArguments
<1>5. CASE PreparePins
  <2>1. StepsLeft = 4 + Total + budget
    BY <1>5, StepsAre DEF PreparePins
  <2>2. StepsLeft' = 3 + Total + budget
    BY <1>3, <1>5, StepsAreNext DEF PreparePins
  <2> QED BY <1>1, <1>3, <1>5, <2>1, <2>2 DEF OneLess, PreparePins
<1>6. CASE PullReset
  <2>1. StepsLeft = 5 + Total + budget
    BY <1>6, StepsAre DEF PullReset
  <2>2. StepsLeft' = 4 + Total + budget
    BY <1>3, <1>6, StepsAreNext DEF PullReset
  <2> QED BY <1>1, <1>3, <1>6, <2>1, <2>2 DEF OneLess, PullReset
<1>7. CASE ReleaseReset
  <2>1. StepsLeft = 4 + Total + budget
    BY <1>7, StepsAre DEF ReleaseReset
  <2>2. StepsLeft' = 3 + Total + budget
    BY <1>3, <1>7, StepsAreNext DEF ReleaseReset
  <2> QED BY <1>1, <1>3, <1>7, <2>1, <2>2 DEF OneLess, ReleaseReset
<1>8. CASE ReadBusy
  <2>1. StepsLeft = 3 + Total + budget
    BY <1>8, StepsAre DEF ReadBusy
  <2>2. ASSUME NEW status, NEW heard, Return(status, heard, 0)
        PROVE  OneLess
    BY <1>1, <1>2, <2>2, ReturnCounts
  <2>3. CASE pc' = "select" /\ Stay
    <3>1. StepsLeft' = 2 + Total
      BY <1>3, <2>3, StepsAreNext
    <3> QED BY <1>1, <1>3, <2>1, <2>3, <3>1 DEF OneLess
  <2>4. CASE budget # 0 /\ budget' = Spent(budget) /\ Stay /\ pc' = pc
    <3>1. StepsLeft' = 3 + Total + (budget - 1)
      BY <1>3, <1>8, <2>4, StepsAreNext DEF ReadBusy, Spent
    <3> QED BY <1>1, <1>3, <2>1, <2>4, <3>1 DEF OneLess
  <2> QED BY <1>8, <2>2, <2>3, <2>4 DEF ReadBusy
<1>9. CASE Select
  <2>1. StepsLeft = 2 + Total /\ script' = script /\ Total' = Total
    BY <1>9, StepsAre, TotalStays DEF Select
  <2>2. StepsLeft' \in {1, 1 + Total}
    BY <1>9, StepsAreNext DEF Select
  <2> QED BY <1>1, <2>1, <2>2 DEF OneLess
<1>10. CASE ClockChunk
  <2> DEFINE chunk == IF left < ChunkBytes THEN left ELSE ChunkBytes
  <2>1. StepsLeft = 1 + left /\ left > 0 /\ script' = script
    BY <1>10, StepsAre DEF ClockChunk, BusInv, BytesAreCounted
  <2>2. chunk \in 1 .. left
    BY <1>1, <2>1, LoraBusAssumption
  <2>3. left' = left - chunk
    BY <1>10 DEF ClockChunk
  <2>4. \/ pc' = "deselect"
        \/ pc' = "clock"
    BY <1>10 DEF ClockChunk
  <2> HIDE DEF chunk
  <2>5. StepsLeft' = 1 \/ StepsLeft' = 1 + left'
    BY <2>4, StepsAreNext
  <2>6. StepsLeft' < StepsLeft
    BY <1>1, <2>1, <2>2, <2>3, <2>5
  <2> QED BY <2>1, <2>6 DEF OneLess
<1>11. CASE Deselect
  <2>1. ASSUME NEW status, Return(status, seen, clocked)
        PROVE  OneLess
    BY <1>1, <1>2, <2>1, ReturnCounts
  <2> QED BY <1>11, <2>1 DEF Deselect
<1> QED BY <1>4, <1>5, <1>6, <1>7, <1>8, <1>9, <1>10, <1>11 DEF Driver

(* Every step of the driver uses up one of the steps its call has, or ends *)
(* one of sx1262_init's calls, for every length of transfer and of chunk   *)
(* and every timeout, whatever BUSY and the SPI peripheral do.             *)
THEOREM CallsAreBounded == Spec => EveryStepCounts
<1>1. BusInv /\ [Next]_vars => [Driver => \/ script' = script /\ StepsLeft' < StepsLeft
                                          \/ Len(script') < Len(script)]_vars
  BY DriverCounts DEF OneLess
<1> QED BY <1>1, BusInvInit, BusInvStep, PTL DEF Spec, EveryStepCounts
================================================================================

------------------------------ MODULE MCLoraBus ------------------------------
EXTENDS LoraStack

(* commands as the driver and its tests issue them: with and without       *)
(* payload, as long as fits and longer, and with arguments to be refused   *)
SomeCommands ==
  { Write(131, 0, FALSE, 0), Write(14, MAX_TRANSFER - 1, TRUE, 1),
    Write(256, 0, FALSE, 1), Write(14, MAX_TRANSFER, TRUE, 0), Write(14, 1, FALSE, 0),
    Read(18, 1, TRUE, 2, TRUE, 1), Read(30, 2, TRUE, PAYLOAD_MAX, TRUE, 0),
    Read(30, 2, TRUE, MAX_TRANSFER - 2, TRUE, 0), Read(192, 0, FALSE, 0, TRUE, 0),
    Read(192, 0, FALSE, 1, FALSE, 0), Read(18, 1, FALSE, 1, TRUE, 0) }

(* directory, name, @stack and calls of the files on the driver's paths *)
Gpio == {<<"gpio", f>> : f \in {"config_input", "config_output", "read", "write"}}
Delay == <<"clock", "delay_us">>

SourceLine(kind) == [kind |-> kind, key |-> "", value |-> 0]
Field(key, value) == [kind |-> "field", key |-> key, value |-> value]

Function(directory, name, stack, targets) ==
  [directory |-> directory, stem |-> name,
   lines     |-> <<SourceLine("comment"), SourceLine("fence"),
                   Field("function", name), Field("module", directory),
                   Field("stack", stack), Field("status", "verified"),
                   Field("cycles", [unbounded |-> FALSE, a_number |-> TRUE]),
                   Field("ct", [word |-> "not-required", more |-> FALSE]),
                   Field("verify", [kat_only |-> FALSE, rationale |-> FALSE,
                                    files |-> {"contract.py"}]),
                   Field("tests", "test.py"), Field("adrs", {1, 2}),
                   Field("inputs", ""), Field("outputs", ""), Field("clobbers", ""),
                   Field("preserves", ""), Field("spec", ""),
                   SourceLine("fence"), SourceLine("code")>>,
   calls     |-> targets, globals |-> {name}, typed |-> {name}]

Files ==
  {[directory |-> "state", stem |-> <<"state", "gpio">>, lines |-> <<>>, calls |-> {},
    globals |-> {<<"gpio", "model_level">>}, typed |-> {}],
   Function("boot", Main, 16, {<<"lora_interface", "init">>, PollInterface, SendInterface}),
   Function("interface/lora", <<"lora_interface", "init">>, 16, {<<"sx1262", "init">>}),
   Function("interface/lora", PollInterface, 32, {<<"sx1262", "poll_receive">>, ProcessPacket}),
   Function("interface/lora", SendInterface, 32, {SendFrame}),
   Function("interface/lora", <<"sx1262", "init">>, 32,
     CommandPair \cup {<<"sx1262", "reset">>, <<"spi", "init">>, <<"gpio", "config_input">>, <<".L">>}),
   Function("interface/lora", <<"sx1262", "reset">>, 16, Gpio \cup {Delay}),
   Function("interface/lora", <<"sx1262", "command_write">>, 48,
     Gpio \cup {Delay, <<"spi", "transfer">>, <<".L">>}),
   Function("interface/lora", <<"sx1262", "command_read">>, 64,
     Gpio \cup {Delay, <<"spi", "transfer">>, <<".L">>}),
   Function("interface/lora", <<"sx1262", "poll_receive">>, 80,
     CommandPair \cup {<<"gpio", "config_input">>, <<"gpio", "read">>}),
   Function("interface/lora", SendFrame, 64, CommandPair \cup {Delay}),
   Function("transport", ProcessPacket, 176,
     {SendInterface, <<"transport", "path_response_send">>}),
   Function("transport", <<"transport", "path_response_send">>, 160, {SendInterface}),
   Function("clock", Delay, 0, {}),
   Function("interface/spi", <<"spi", "init">>, 0, {}),
   Function("interface/spi", <<"spi", "transfer">>, 0, {<<".L">>})}
  \cup {Function("interface/gpio", f, 0, {}) : f \in Gpio}

Row(name, depends_on) ==
  [name |-> name, cell |-> <<"fisheye", "verified">>, depends_on |-> depends_on, adrs |-> {}]

InSomeOrder(S) == FoldSet(LAMBDA x, seq : Append(seq, x), <<>>, S)

Rows ==
  [m \in {"boot", "interface", "transport", "flash"} |->
     IF m = "boot" THEN <<Row(Main, {<<"lora_interface", "*">>}), Row(Delay, {})>>
     ELSE IF m = "transport"
       THEN <<Row(ProcessPacket, {SendInterface}), Row(<<"transport", "path_response_send">>, {})>>
     ELSE IF m = "flash"
       THEN <<[Row(<<"flash", "verify">>, {<<"spi", "*">>}) EXCEPT !.cell = <<"empty", "planned">>]>>
     ELSE InSomeOrder({Row(f.lines[3].value, {<<"sx1262", "*">>}) : f \in
                      {f \in Files : f.directory \in {"interface/lora", "interface/spi",
                                                     "interface/gpio"}}})]

Records ==
  {[named_as_record |-> TRUE, number |-> n,
    head |-> <<[kind |-> "status", words |-> {"accepted"}]>>] : n \in 1 .. 3}

Config_S ==
  <<[equ |-> "", value |-> 0], [equ |-> "STACK_SIZE", value |-> 16384],
    [equ |-> "STACK_SIZE", value |-> 0]>>

Page_md == Page(<<"boot", "interface", "transport", "flash">>, Rows, TRUE, TRUE)
=============================================================================

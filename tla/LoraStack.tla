------------------------------ MODULE LoraStack ------------------------------
(***************************************************************************)
(* The driver of LoraBus as the repository's tools see it: its files, with *)
(* their spec blocks and calls, and its rows of FUNCTIONS.md.  The tools   *)
(* promise a bound on the stack; the driver's calls are held against it.   *)
(***************************************************************************)
EXTENDS LoraBus, Tools

CONSTANTS
  Sources,      \* the assembly files: directory, stem, lines, calls, globals, typed
  Functions_md, \* the lines of FUNCTIONS.md
  Config,       \* the lines of config.S
  Adrs,         \* the decision records
  Exists        \* the paths of verifiers and tests

Graph == build_call_graph(Sources)

Main == <<"_", "main">>
PollInterface == <<"lora_interface", "poll">>
SendInterface == <<"lora_interface", "send">>
ProcessPacket == <<"transport", "process_packet">>
SendFrame == <<"sx1262", "send_frame">>

InitInterface == <<"lora_interface", "init">>
RadioInit == <<"sx1262", "init">>
PollReceive == <<"sx1262", "poll_receive">>
ResponseSend == <<"transport", "path_response_send">>
RadioReset == <<"sx1262", "reset">>
CommandPair == {<<"sx1262", "command_write">>, <<"sx1262", "command_read">>}
PinCalls == {<<"gpio", "config_output">>, <<"gpio", "config_input">>, <<"gpio", "write">>,
             <<"gpio", "read">>, <<"clock", "delay_us">>}

(* the calls on the way from _main to the pins, as the source has them *)
DriverCalls ==
  {<<Main, InitInterface>>, <<InitInterface, RadioInit>>, <<RadioInit, RadioReset>>,
   <<Main, PollInterface>>, <<PollInterface, PollReceive>>, <<PollInterface, ProcessPacket>>,
   <<ProcessPacket, SendInterface>>, <<ProcessPacket, ResponseSend>>,
   <<ResponseSend, SendInterface>>, <<Main, SendInterface>>, <<SendInterface, SendFrame>>}
    \cup {RadioInit, PollReceive, SendFrame} \X CommandPair
    \cup ({RadioReset} \cup CommandPair) \X PinCalls
    \cup CommandPair \X {<<"spi", "transfer">>}

(* the files of the driver are among the sources *)
ASSUME StackAssumption ==
  /\ IsFiniteSet(DOMAIN Graph)
  /\ \A function \in DOMAIN Graph : Graph[function].stack \in Nat
  /\ \A edge \in DriverCalls :
       /\ edge[1] \in DOMAIN Graph /\ edge[2] \in DOMAIN Graph
       /\ edge[2] \in Graph[edge[1]].callees

(* who may have called the function under way *)
Callers ==
  IF script # <<>>
    THEN {<<Main, InitInterface, RadioInit>>}
    ELSE {<<Main, PollInterface, PollReceive>>,
          <<Main, SendInterface, SendFrame>>,
          <<Main, PollInterface, ProcessPacket, SendInterface, SendFrame>>,
          <<Main, PollInterface, ProcessPacket, ResponseSend, SendInterface, SendFrame>>}

Called ==
  IF call.fn = "reset" THEN RadioReset
  ELSE IF call.fn = "write" THEN <<"sx1262", "command_write">>
  ELSE <<"sx1262", "command_read">>

(* and what it calls in turn *)
Leaves ==
  IF pc \in {"pins", "reset"} THEN {<<"gpio", "config_output">>, <<"gpio", "config_input">>,
                                    <<"gpio", "write">>}
  ELSE IF pc = "settle" THEN {<<"gpio", "write">>, <<"clock", "delay_us">>}
  ELSE IF pc = "wait" THEN {<<"gpio", "read">>, <<"clock", "delay_us">>}
  ELSE IF pc = "clock" THEN {<<"spi", "transfer">>}
  ELSE {<<"gpio", "write">>}

Active ==
  IF pc = "idle" THEN {<<Main>>}
  ELSE IF pc = "args" THEN {Append(caller, Called) : caller \in Callers}
  ELSE {Append(Append(caller, Called), leaf) : caller \in Callers, leaf \in Leaves}

Bound == worst_case_path(Graph, Main)

(* what _main can call, and both the source and FUNCTIONS.md know *)
Known ==
  LET entries == parse_registry(Functions_md)
  IN  reachable(Graph, Main) \cap collect_src_globals(Sources)
        \cap {entries[i].name : i \in DOMAIN entries}

SpecMain(files) == spec_main(files, accepted_adrs(Adrs), Exists)

(* the tools find nothing to object to *)
ToolsPass ==
  LET entries == parse_registry(Functions_md)
      specs == [name \in DOMAIN Graph |->
                  parse_spec((CHOOSE f \in Sources : name \in f.globals).lines)]
  IN  /\ DOMAIN Graph \subseteq Known
      /\ SpecMain(Sources) = 0
      /\ main(Graph, Main, Config) = 0
      /\ ~ Bound.recursion /\ Bound.missing = {}
      /\ registry_main(Functions_md, Sources) = 0
      /\ warnings(entries, specs) = {}

(* nothing is lost unnoticed: no field of a spec block, no line of         *)
(* FUNCTIONS.md that names a function, no file, no byte of stack           *)
ToolsNotice ==
  LET without(seq, i) == SubSeq(seq, 1, i - 1) \o SubSeq(seq, i + 1, Len(seq))
      functions == UNION {f.globals : f \in iter_src_files(Sources)}
      limit(n) == <<[equ |-> "STACK_SIZE", value |-> n]>>
  IN  /\ main(Graph, Main, limit(Bound.depth)) = 0
      /\ main(Graph, Main, limit(Bound.depth - 1)) = 1
      /\ \A f \in iter_src_files(Sources) :
           /\ registry_main(Functions_md, Sources \ {f}) = 1
           /\ \A i \in {i \in DOMAIN f.lines : f.lines[i].kind = "field"} :
                SpecMain({[f EXCEPT !.lines = without(@, i)]}) = 1
      /\ \A i \in DOMAIN Functions_md :
           Functions_md[i].kind = "row" /\ Functions_md[i].cells[1] \in functions =>
             registry_main(without(Functions_md, i), Sources) = 1

ToolsAreExact ==
  /\ BoundsAreExact /\ ToolsNotice
  /\ PagesAreRead(<<"interface/lora", "interface/spi">>,
       {[name |-> n, cell |-> status[1], status |-> status[2],
         depends_on |-> {}, adrs |-> {}] :
          n \in {Main, SendFrame},
          status \in {<<<<"", "verified">>, "verified">>,
                     <<<<"fisheye", "planned">>, "verified">>,
                     <<<<"slash", "">>, "superseded">>}})
  /\ ChecksAreExact({<<"gpio", "read">>, <<"gpio", "*">>, SendFrame})
  /\ BlocksAreRead({"function", "stack"}, {"a", "b"})
  /\ RulesAreIndependent

(* Whatever the driver is doing, the functions that are active call one    *)
(* another as check_stack.py believes, and their frames fit in the depth   *)
(* it reports for _main, which has no recursion; every one of them can be  *)
(* reached from there, and is a function check_registry.py finds in the    *)
(* source and among the rows.  And the tools can be believed: what they    *)
(* read and the bound, the rows and the errors they report are exact for   *)
(* all small files, graphs, pages and registries (asked before any call).  *)
StackStaysInBound ==
  /\ calls = 0 => ToolsAreExact /\ ToolsPass
  /\ \A chain \in Active :
       /\ IsChain(Graph, chain, Main)
       /\ Frames(Graph, chain) <= Bound.depth
=============================================================================

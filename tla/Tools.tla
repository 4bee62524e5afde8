-------------------------------- MODULE Tools ---------------------------------
(***************************************************************************)
(* tools/parse_spec.py and tools/check_registry.py: the spec block on top  *)
(* of every assembly file, the table of functions in FUNCTIONS.md, and     *)
(* what must agree between them.  A line is a record of its kind and of    *)
(* what the expressions of the tools take out of it; a cell of a table is  *)
(* its text, without the marks of formatting.                              *)
(*                                                                         *)
(* tools/check_stack.py: how much stack the firmware may need, from the    *)
(* @stack field and the calls of every function.  A file is the directory  *)
(* it lies in, its lines and the targets it calls.                         *)
(***************************************************************************)
EXTENDS Integers, Sequences, FiniteSets, SequencesExt, FiniteSetsExt

CONSTANT HeadLines   \* a spec block begins within so many lines

REQUIRED_FIELDS ==
  {"function", "module", "inputs", "outputs", "clobbers", "preserves", "stack",
   "cycles", "ct", "spec", "verify", "tests", "adrs", "status"}

Failed(error) == [error |-> error, fields |-> <<>>, line_range |-> <<0, 0>>]

-----------------------------------------------------------------------------
(* parse_spec.py.  Lines are of kind fence, field, comment, blank or code. *)

parse_spec(lines) ==
  LET fence(i) == lines[i].kind = "fence"
      First(S) == CHOOSE i \in S : \A j \in S : i <= j
      starts == {i \in DOMAIN lines : i <= HeadLines /\ fence(i)}
      start == First(starts)
      ends == {i \in DOMAIN lines : i > start /\ fence(i)}
      end == First(ends)
      body == start + 1 .. end - 1
      fields == {i \in body : lines[i].kind = "field"}
      malformed == {i \in body : lines[i].kind = "code"}
      duplicate == {i \in fields : \E j \in fields : j < i /\ lines[j].key = lines[i].key}
      bad == malformed \cup duplicate
  IN  IF starts = {} THEN Failed("no fence")
      ELSE IF ends = {} THEN Failed("no closing fence")
      ELSE IF bad # {}
        THEN Failed(IF First(bad) \in malformed THEN "malformed" ELSE "duplicate")
      ELSE [error |-> "none",
            fields |-> [key \in {lines[i].key : i \in fields} |->
                          lines[CHOOSE i \in fields : lines[i].key = key].value],
            line_range |-> <<start, end>>]

(* what parse_spec is for, of every file of five lines made of a few: it   *)
(* takes a file exactly when a fence in its head is closed by another one  *)
(* and there are only fields, all different, and comments between them;    *)
(* then it has those fields, and what follows does not matter              *)
BlocksAreRead(keys, values) ==
  LET line(kind) == [kind |-> kind, key |-> "", value |-> ""]
      some == {line("fence"), line("comment"), line("code")}
                \cup [kind : {"field"}, key : keys, value : values]
      block(file, i, j) ==
        /\ i < j /\ i <= HeadLines
        /\ \A k \in 1 .. j : file[k].kind = "fence" <=> k \in {i, j}
      Fields(file, i, j) == {k \in i .. j : file[k].kind = "field"}
  IN  \A file \in [1 .. 5 -> some] :
        LET parsed == parse_spec(file)
        IN  \/ /\ parsed.error # "none"
               /\ \A i, j \in 1 .. 5 : block(file, i, j) =>
                    \/ \E k \in i .. j : file[k].kind = "code"
                    \/ \E k, l \in Fields(file, i, j) : k < l /\ file[k].key = file[l].key
            \/ \E i, j \in 1 .. 5 :
                 /\ block(file, i, j) /\ parsed.line_range = <<i, j>>
                 /\ \A k \in Fields(file, i, j) : parsed.fields[file[k].key] = file[k].value
                 /\ Cardinality(DOMAIN parsed.fields) = Cardinality(Fields(file, i, j))
                 /\ \A k \in i + 1 .. j - 1 : file[k].kind \in {"field", "comment"}

(* the numbers of the decision records whose status line, among their      *)
(* first lines, says Accepted                                              *)
accepted_adrs(records) ==
  {adr.number : adr \in {r \in records :
     /\ r.named_as_record
     /\ \E i \in DOMAIN r.head :
          /\ r.head[i].kind = "status" /\ "accepted" \in r.head[i].words
          /\ \A j \in 1 .. i - 1 : r.head[j].kind # "status"}}

VALID_STATUS == {"draft", "review", "tested", "verified"}

(* The numbers of the rules a block breaks.  A field is what the rules     *)
(* take out of its text: cycles whether it says unbounded or has a number, *)
(* ct its first word and whether there is more, verify its files or that   *)
(* there are none, with or without a rationale.                            *)
validate_spec(f, stem, directory, accepted, exists) ==
  IF ~ REQUIRED_FIELDS \subseteq DOMAIN f THEN {1}
  ELSE {rule \in 2 .. 10 :
    \/ rule = 2 /\ f.function # stem
    \/ rule = 3 /\ f.status \notin VALID_STATUS
    \/ rule = 4 /\ f.ct.word \notin {"required", "not-required"}
    \/ rule = 5 /\ f.stack \notin Nat
    \/ rule = 6 /\ IF f.cycles.unbounded
                     THEN f.ct # [word |-> "not-required", more |-> FALSE]
                     ELSE ~ f.cycles.a_number
    \/ rule = 7 /\ ~ f.adrs \subseteq accepted
    \/ rule = 8 /\ IF f.verify.kat_only
                     THEN ~ f.verify.rationale
                     ELSE ~ f.verify.files \subseteq exists
    \/ rule = 9 /\ f.tests \notin exists
    \/ rule = 10 /\ directory \notin {"", "state", "include"} /\ f.module # directory}

(* include holds equates, state holds data: neither has a spec block *)
iter_src_files(files) == {f \in files : f.directory \notin {"include", "state"}}

(* the exit status for all files: a block that cannot be read or breaks a  *)
(* rule, in any of them                                                    *)
spec_main(files, accepted, exists) ==
  IF \E f \in iter_src_files(files) :
       LET spec == parse_spec(f.lines)
       IN  \/ spec.error # "none"
           \/ validate_spec(spec.fields, f.stem, f.directory, accepted, exists) # {}
    THEN 1 ELSE 0

(* a block that keeps all rules, and one that breaks each of them alone *)
RulesAreIndependent ==
  LET status(words) == [kind |-> "status", words |-> words]
      text == [kind |-> "text", words |-> {"accepted"}]
      accepted == accepted_adrs(
        {[named_as_record |-> TRUE, number |-> 1, head |-> <<text, status({"accepted"})>>],
         [named_as_record |-> TRUE, number |-> 2, head |-> <<status({"draft"}),
                                                             status({"accepted"})>>],
         [named_as_record |-> FALSE, number |-> 3, head |-> <<status({"accepted"})>>]})
      ct(word) == [word |-> word, more |-> FALSE]
      verify(files) == [kat_only |-> FALSE, rationale |-> FALSE, files |-> files]
      cycles(unbounded, a_number) == [unbounded |-> unbounded, a_number |-> a_number]
      good == [function |-> "f", module |-> "m", inputs |-> "", outputs |-> "",
               clobbers |-> "", preserves |-> "", stack |-> 0, cycles |-> cycles(FALSE, TRUE),
               ct |-> ct("required"), spec |-> "", verify |-> verify({"f.py"}),
               tests |-> "t.py", adrs |-> {1}, status |-> "tested"]
      rules(f) == validate_spec(f, "f", "m", accepted, {"f.py", "t.py"})
  IN  /\ accepted = {1}
      /\ rules(good) = {}
      /\ rules([k \in DOMAIN good \ {"spec"} |-> good[k]]) = {1}
      /\ rules([good EXCEPT !.function = "g"]) = {2}
      /\ rules([good EXCEPT !.status = "planned"]) = {3}
      /\ rules([good EXCEPT !.ct = ct("maybe")]) = {4}
      /\ rules([good EXCEPT !.stack = -16]) = {5}
      /\ rules([good EXCEPT !.cycles = cycles(FALSE, FALSE)]) = {6}
      /\ rules([good EXCEPT !.cycles = cycles(TRUE, FALSE)]) = {6}
      /\ rules([good EXCEPT !.cycles = cycles(TRUE, FALSE), !.ct = ct("not-required")]) = {}
      /\ rules([good EXCEPT !.adrs = {1, 2}]) = {7}
      /\ rules([good EXCEPT !.verify = verify({"f.py", "g.py"})]) = {8}
      /\ rules([good EXCEPT !.verify.kat_only = TRUE]) = {8}
      /\ rules([good EXCEPT !.verify.kat_only = TRUE, !.verify.rationale = TRUE]) = {}
      /\ rules([good EXCEPT !.tests = "none"]) = {9}
      /\ rules([good EXCEPT !.module = "n"]) = {10}

-----------------------------------------------------------------------------
(* check_registry.py.  A line starts a module, is a row of a table, or is  *)
(* text; a row whose first cell is "function" is of kind header, one of    *)
(* dashes of kind dashes.  A name is a pair: what it starts with and the   *)
(* rest, which is "*" in a wildcard.                                       *)

(* the symbols, by their look *)
STATUS_SYMBOLS ==
  [empty |-> "planned", left |-> "in-progress", right |-> "tested",
   fisheye |-> "verified", slash |-> "superseded"]

(* a cell is its symbol or "", and the word or text after it: the symbol   *)
(* is trusted, whatever the word                                           *)
parse_status_cell(cell) ==
  IF cell[1] \in DOMAIN STATUS_SYMBOLS THEN STATUS_SYMBOLS[cell[1]] ELSE cell[2]

Columns(cells) == [c \in ToSet(cells) |-> CHOOSE i \in DOMAIN cells : cells[i] = c]

(* a cell by the name of its column, or else by its usual place *)
Cell(cells, columns, name, place, default) ==
  LET idx == IF name \in DOMAIN columns THEN columns[name] ELSE place
  IN  IF idx \in DOMAIN cells THEN cells[idx] ELSE default

Entry(cells, columns, module) ==
  LET after == IF "owner" \in DOMAIN columns THEN 4 ELSE 3
  IN  [name       |-> Cell(cells, columns, "function", 1, ""),
       module     |-> module,
       status     |-> parse_status_cell(Cell(cells, columns, "status", 2, <<"", "">>)),
       depends_on |-> Cell(cells, columns, "depends-on", after, {}),
       adrs       |-> Cell(cells, columns, "adrs", after + 1, {})]

parse_registry(lines) ==
  LET outside(so, module) ==
        [so EXCEPT !.module = module, !.in_table = FALSE, !.saw_header = FALSE,
                   !.columns = <<>>]
      read(so, line) ==
        IF line.kind = "module" THEN outside(so, line.name)
        ELSE IF line.kind = "text" THEN outside(so, so.module)
        ELSE IF ~ so.saw_header /\ line.kind = "header"
          THEN [so EXCEPT !.columns = Columns(line.cells), !.saw_header = TRUE,
                          !.in_table = FALSE]
        ELSE IF so.saw_header /\ ~ so.in_table /\ line.kind = "dashes"
          THEN [so EXCEPT !.in_table = TRUE]
        ELSE IF so.saw_header /\ so.module # "none" /\ Len(line.cells) >= 4
                  /\ ~ line.placeholder
          THEN [so EXCEPT !.in_table = TRUE,
                          !.entries = Append(@, Entry(line.cells, so.columns, so.module))]
        ELSE [so EXCEPT !.in_table = so.saw_header]
      nothing == [module |-> "none", in_table |-> FALSE, saw_header |-> FALSE,
                  columns |-> <<>>, entries |-> <<>>]
      after[i \in 0 .. Len(lines)] ==
        IF i = 0 THEN nothing ELSE read(after[i - 1], lines[i])
  IN  after[Len(lines)].entries

(* functions a file declares global and types as functions; "include" has  *)
(* none                                                                    *)
collect_src_globals(files) ==
  UNION {file.globals \cap file.typed : file \in {f \in files : f.directory # "include"}}

Wildcard(name) == name[2] = "*"

(* the errors, each a kind with the name it is about *)
check(entries, src_globals) ==
  LET names == {entries[i].name : i \in DOMAIN entries}
      first(name) == entries[CHOOSE i \in DOMAIN entries :
                               /\ entries[i].name = name
                               /\ \A j \in 1 .. i - 1 : entries[j].name # name]
      repeated == {name \in names :
                     \E i, j \in DOMAIN entries :
                       i # j /\ entries[i].name = name /\ entries[j].name = name}
      met(dep) == IF Wildcard(dep) THEN \E name \in names : name[1] = dep[1]
                                   ELSE dep \in names
      unmet == {name \in names : \E dep \in first(name).depends_on : ~ met(dep)}
      expected == {name \in names : /\ ~ Wildcard(name)
                                    /\ first(name).status \notin {"planned", "superseded"}}
  IN  ({"duplicate"} \X repeated) \cup ({"depends on"} \X unmet)
        \cup ({"unregistered"} \X (src_globals \ names))
        \cup ({"no source"} \X (expected \ src_globals))

(* functions whose spec block, where it parses, gives another status *)
warnings(entries, specs) ==
  {i \in DOMAIN entries :
     /\ ~ Wildcard(entries[i].name)
     /\ entries[i].name \in DOMAIN specs
     /\ \/ specs[entries[i].name].error # "none"
        \/ /\ "status" \in DOMAIN specs[entries[i].name].fields
           /\ specs[entries[i].name].fields.status # entries[i].status}

(* the exit status: warnings do not count *)
registry_main(lines, files) ==
  IF check(parse_registry(lines), collect_src_globals(files)) = {} THEN 0 ELSE 1

-----------------------------------------------------------------------------
Line(kind) == [kind |-> kind, name |-> "", cells |-> <<>>, placeholder |-> FALSE]

(* a page with one table for each module, with or without an owner column, *)
(* a placeholder before the rows and text after them                       *)
Page(modules, rows, owner, placeholder) ==
  LET header == [Line("header") EXCEPT !.cells =
                   IF owner THEN <<"function", "status", "owner", "depends-on", "adrs">>
                            ELSE <<"function", "status", "depends-on", "adrs">>]
      row(e) == [Line("row") EXCEPT !.cells =
                   IF owner THEN <<e.name, e.cell, "", e.depends_on, e.adrs>>
                            ELSE <<e.name, e.cell, e.depends_on, e.adrs>>]
      table(m) ==
        <<[Line("module") EXCEPT !.name = m], header, Line("dashes")>>
          \o (IF placeholder
                THEN <<[Line("row") EXCEPT !.placeholder = TRUE,
                                           !.cells = <<"", <<"", "">>, {}, {}>>]>>
                ELSE <<>>)
          \o [i \in DOMAIN rows[m] |-> row(rows[m][i])]
          \o <<Line("text"), [Line("row") EXCEPT !.cells = <<"a", "b", "c", "d">>]>>
  IN  FlattenSeq([i \in DOMAIN modules |-> table(modules[i])])

(* every function of such a page is read once, in order, under its module; *)
(* a table outside any module's header, or without a header of its own, is *)
(* not                                                                     *)
PagesAreRead(modules, entries) ==
  LET choices == [ToSet(modules) -> BoundedSeq(entries, 2)]
  IN  \A rows \in choices, owner \in BOOLEAN, placeholder \in BOOLEAN :
        parse_registry(Page(modules, rows, owner, placeholder))
          = FlattenSeq([i \in DOMAIN modules |->
              [k \in DOMAIN rows[modules[i]] |->
                 [name       |-> rows[modules[i]][k].name,
                  module     |-> modules[i],
                  status     |-> rows[modules[i]][k].status,
                  depends_on |-> rows[modules[i]][k].depends_on,
                  adrs       |-> rows[modules[i]][k].adrs]]])

(* check finds nothing exactly when the functions of the source are the    *)
(* registered ones that are neither planned nor given up, each once        *)
ChecksAreExact(names) ==
  \A entries \in BoundedSeq([name : names, depends_on : {{}} \cup {{n} : n \in names},
                              status : {"planned", "verified", "superseded"}], 2) :
    \A src \in SUBSET {n \in names : ~ Wildcard(n)} :
      LET of(status) == {e.name : e \in {e \in ToSet(entries) : e.status = status}}
          registered == {e.name : e \in ToSet(entries)}
      IN  check(entries, src) = {} <=>
            /\ Cardinality(registered) = Len(entries)
            /\ {n \in of("verified") : ~ Wildcard(n)} \subseteq src
            /\ src \subseteq registered
            /\ \A e \in ToSet(entries) : \A dep \in e.depends_on :
                 \/ dep \in registered
                 \/ Wildcard(dep) /\ \E n \in registered : n[1] = dep[1]

-----------------------------------------------------------------------------
(* a jump to a local label is no call; a call of itself is one *)
scan_function(file) ==
  LET spec == parse_spec(file.lines)
  IN  [name    |-> spec.fields.function,
       stack   |-> spec.fields.stack,
       callees |-> {c \in file.calls : c # <<".L">>}]

build_call_graph(files) ==
  FoldSet(LAMBDA file, graph :
            LET f == scan_function(file)
            IN  (f.name :> [stack |-> f.stack, callees |-> f.callees]) @@ graph,
          <<>>, iter_src_files(files))

(* the depth-first search: the deepest stack from a node down, and whether *)
(* a callee already on the path, or one without a file, was met            *)
dfs(graph, root) ==
  LET found[on_path \in SUBSET DOMAIN graph] ==
        [node \in DOMAIN graph |->
           LET info == graph[node]
               below == {found[on_path \cup {callee}][callee] :
                           callee \in (info.callees \cap DOMAIN graph) \ on_path}
           IN  [depth     |-> info.stack + Max({0} \cup {f.depth : f \in below}),
                recursion |-> info.callees \cap on_path # {} \/ \E f \in below : f.recursion,
                missing   |-> (info.callees \ DOMAIN graph)
                                \cup UNION {f.missing : f \in below}]]
  IN  found[{root}][root]

worst_case_pathFault(graph, root) ==   \* the frame of the root is left out
  LET found == dfs(graph, root)
  IN  [found EXCEPT !.depth = @ - graph[root].stack]

worst_case_path(graph, root) ==
  IF root \in DOMAIN graph
    THEN dfs(graph, root)
    ELSE [depth |-> 0, recursion |-> FALSE, missing |-> {root}]

(* the work list, whatever order it is worked off in *)
visit(graph, root) ==
  LET names == {root} \cup UNION {graph[n].callees : n \in DOMAIN graph}
      from[seen \in SUBSET names] ==
        LET stack == (UNION {graph[n].callees : n \in seen \cap DOMAIN graph}) \ seen
        IN  IF stack = {} THEN seen ELSE from[seen \cup stack]
  IN  from[{root}]

reachable(graph, root) == visit(graph, root)

(* the value of the first .equ STACK_SIZE, if there is one *)
stack_size_from_config(lines) ==
  {lines[i].value : i \in {i \in DOMAIN lines :
     /\ lines[i].equ = "STACK_SIZE"
     /\ \A j \in 1 .. i - 1 : lines[j].equ # "STACK_SIZE"}}

(* the exit status: without a limit nothing is over it, and recursion only *)
(* warns                                                                   *)
main(graph, root, config) ==
  IF \E limit \in stack_size_from_config(config) : worst_case_path(graph, root).depth > limit
    THEN 1 ELSE 0

-----------------------------------------------------------------------------
(* the bytes on the stack while the functions of a chain are active *)
Frames(graph, chain) ==
  LET bytes[i \in 0 .. Len(chain)] ==
        IF i = 0 THEN 0 ELSE bytes[i - 1] + graph[chain[i]].stack
  IN  bytes[Len(chain)]

(* functions that call one another, from the root *)
IsChain(graph, chain, root) ==
  /\ chain[1] = root
  /\ \A i \in DOMAIN chain : chain[i] \in DOMAIN graph
  /\ \A i \in 1 .. Len(chain) - 1 : chain[i + 1] \in graph[chain[i]].callees

(* what the search is for, stated without it, of graphs with few functions *)
BoundIsExact(graph, root) ==
  LET chains == {c \in UNION {[1 .. n -> DOMAIN graph] :
                                n \in 1 .. Cardinality(DOMAIN graph)} :
                   IsChain(graph, c, root)}
      simple == {c \in chains : \A i, j \in DOMAIN c : c[i] = c[j] => i = j}
      found == worst_case_path(graph, root)
      reached == {c[Len(c)] : c \in chains}
  IN  /\ found.depth = Max({Frames(graph, c) : c \in simple})
      /\ found.recursion <=>
           \E c \in simple : \E i \in DOMAIN c : c[i] \in graph[c[Len(c)]].callees
      /\ found.missing = UNION {graph[n].callees : n \in reached} \ DOMAIN graph
      /\ reachable(graph, root) \cap DOMAIN graph = reached

(* every graph of three functions with frames of 0 and 16 bytes, and of two *)
(* where a third has no file                                               *)
BoundsAreExact ==
  \A size \in {2, 3} :
    \A stack \in [1 .. size -> {0, 16}], callees \in [1 .. size -> SUBSET (1 .. 3)] :
      BoundIsExact([n \in 1 .. size |-> [stack |-> stack[n], callees |-> callees[n]]], 1)
=============================================================================

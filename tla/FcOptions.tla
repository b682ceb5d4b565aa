----------------------------- MODULE FcOptions ------------------------------
(***************************************************************************)
(* The command line of fcdump (main of fcdump/fc_dump.c).                  *)
(*                                                                         *)
(* A word of the command line is a record: "opt", the option or "" for the *)
(* name of a program, and "arg", the argument that follows, if any does.   *)
(* Options that only change the layout (-header, -details, -demangle...)   *)
(* are left out.  The flags are the variables of main of that name.        *)
(***************************************************************************)
EXTENDS Integers, SequencesExt

SortKeys == {"total", "local", "name", "calls", "min", "max", "lmin", "lmax"}

(* options that print a text and end fcdump *)
Informing == {"--help", "-help", "--h", "-h", "-?", "--version", "-version", "--v", "-v",
              "--contact"}

(* The flags an option sets, and those it resets.  -propagate and          *)
(* -rpropagate set their flags to 0.                                       *)
Sets(set, reset) == [set |-> set, reset |-> reset]
Switches ==
  "-no-graph" :> Sets({"no_call_graph"}, {}) @@
  "-graph" :> Sets({}, {"no_call_graph", "call_called"}) @@
  "-rgraph" :> Sets({"call_called"}, {"no_call_graph"}) @@
  "-flat" :> Sets({}, {"no_flat_profile"}) @@
  "-no-flat" :> Sets({"no_flat_profile"}, {}) @@
  "-info" :> Sets({}, {"no_general"}) @@
  "-no-info" :> Sets({"no_general"}, {}) @@
  "-vcg" :> Sets({"show_callgraph"}, {}) @@
  "-force-names" :> Sets({"force_names"}, {}) @@
  "-no-names" :> Sets({"no_names"}, {}) @@
  "-no-cycles" :> Sets({"no_cycles"}, {}) @@
  "-cycles" :> Sets({}, {"no_cycles"}) @@
  "-no-memory" :> Sets({"no_memory"}, {}) @@
  "-memory" :> Sets({}, {"no_memory"}) @@
  "-no-mem-leaks" :> Sets({"no_memory_leaks"}, {}) @@
  "-mem-leaks" :> Sets({}, {"no_memory_leaks"}) @@
  "-no-mem-free" :> Sets({"no_memory_free"}, {}) @@
  "-mem-free" :> Sets({}, {"no_memory_free"}) @@
  "-no-mem-realloc" :> Sets({"no_memory_realloc"}, {}) @@
  "-mem-realloc" :> Sets({}, {"no_memory_realloc"}) @@
  "-propagate" :> Sets({}, {"do_propagate"}) @@
  "-rpropagate" :> Sets({}, {"do_rpropagate"})

Defaults ==
  [end |-> "", efile |-> "", pfile |-> "functioncheck.fc", flags |-> {}, sort |-> "total",
   order |-> -1, only |-> <<>>, not |-> <<>>]

(* An entry of a list of functions, from the text between two commas: n    *)
(* stands for the name of the function n, -n for its address in digits and *)
(* 0 for no text at all.                                                   *)
NoFunction == 1000000
Entry(text) == IF text < 0 THEN [name |-> 0, addr |-> -text] ELSE [name |-> text, addr |-> 0]

(* fc_read_flist: strtok skips the empty texts, but the first entry is     *)
(* where the string begins: if it begins with a comma, the entry is a name *)
(* with that comma in it, which no function has.                           *)
ReadFlist(list, texts) ==
  LET full == SelectSeq(texts, LAMBDA t : t # 0)
      first == IF texts[1] = 0 THEN NoFunction ELSE texts[1]
  IN  list \o <<Entry(first)>> \o [i \in 1 .. Len(full) - 1 |-> Entry(full[i + 1])]

HasArg(w) == "arg" \in DOMAIN w

(* -sort and -rsort: an unknown key is ignored, the order is not *)
SortOption(o, w) ==
  [o EXCEPT !.order = IF w.opt = "-sort" THEN -1 ELSE 1,
            !.sort = IF w.arg \in SortKeys THEN w.arg ELSE @]

(* "program name given as an other one still exists" *)
ProgramName(o, w) ==
  IF o.efile = "" THEN [o EXCEPT !.efile = w.arg] ELSE [o EXCEPT !.end = "fatal"]

(* one turn of the loop over argv; "end" says why fcdump ends, if it does *)
Option(o, w) ==
  CASE o.end # "" -> o
    [] w.opt \in Informing -> [o EXCEPT !.end = "told"]
    [] w.opt = "-cumul" -> [o EXCEPT !.flags = @ \cup {"cumul"}, !.sort = "local"]
    [] w.opt \in DOMAIN Switches ->
         [o EXCEPT !.flags = (@ \ Switches[w.opt].reset) \cup Switches[w.opt].set]
    [] w.opt = "-only" /\ HasArg(w) -> [o EXCEPT !.only = ReadFlist(@, w.arg)]
    [] w.opt = "-not" /\ HasArg(w) -> [o EXCEPT !.not = ReadFlist(@, w.arg)]
    [] w.opt = "-pfile" /\ HasArg(w) -> [o EXCEPT !.pfile = w.arg]
    [] w.opt \in {"-sort", "-rsort"} /\ HasArg(w) -> SortOption(o, w)
    [] w.opt = "" -> ProgramName(o, w)
    [] OTHER -> [o EXCEPT !.end = "fatal"]

ReadOptions(argv) ==
  LET o == FoldLeft(Option, Defaults, argv)
  IN  IF o.end = "" /\ o.efile = "" THEN [o EXCEPT !.end = "fatal"] ELSE o
=============================================================================

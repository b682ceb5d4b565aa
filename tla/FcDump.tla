------------------------------- MODULE FcDump -------------------------------
(***************************************************************************)
(* fcdump: from a profile data file to what it displays (fcdump/fc_dump.c, *)
(* fc_graph.c): read the command line (FcOptions) and the file, solve the  *)
(* names (FcNames), sort the functions, remove duplicated arcs, create and *)
(* link nodes, hide functions (-only, -not), display the graph (-vcg) or   *)
(* the functions, the call-graph, the cycles and the lists of memory       *)
(* profiling.                                                              *)
(*                                                                         *)
(* Addresses are numbers.  What fc_graph.c does for -propagate is never    *)
(* reached: main sets the flags of these options to 0.  Reading a file     *)
(* token by token is in FcFile; here a file that can be read has arcs,     *)
(* functions and the numbers of elements of the lists of memory profiling. *)
(***************************************************************************)
EXTENDS FcOptions, FcNames

CONSTANTS
  Funcs,     \* functions of the program, in the file
  Sites,     \* where functions are called from
  Times,     \* of each function in the file: its times and number of calls, by key
  Inputs,    \* what fcdump may be given: the command line, the executable, the
             \* libraries, the file ("good", "old", "missing") and its memory lists
  MaxArcs    \* bound: arcs in the file

Lists == {"leaks", "free", "realloc"}

ASSUME DumpAssumption ==
  /\ Funcs \subseteq Nat \ {0} /\ IsFiniteSet(Funcs) /\ Sites \subseteq Nat \ {0} /\ MaxArcs \in Nat \ {0}
  /\ Times \in [Funcs -> [SortKeys \ {"name"} -> Nat]]
  /\ \A in \in Inputs :
       /\ in.argv \in Seq(Range(in.argv)) /\ in.lists \in [Lists -> Nat]
       /\ DOMAIN in.exe.syms \subseteq Nat /\ IsFiniteSet(DOMAIN in.exe.syms)
       /\ in.file \in {"good", "old", "missing"}

VARIABLES
  input,    \* what fcdump is given
  opts,     \* the variables of main that the options set
  phase,    \* what fcdump does next
  file,     \* the arcs in the file
  arcs,     \* fc_list_of_arcs
  fncs,     \* fc_list_of_functions
  nodes, nexts, prevs,  \* the call-graph
  out       \* what has been displayed

graph == <<nodes, nexts, prevs>>
vars == <<input, opts, phase, file, arcs, fncs, nodes, nexts, prevs, out>>

Init ==
  /\ input \in Inputs /\ opts = Defaults /\ phase = "options"
  /\ file = <<>> /\ arcs = <<>> /\ fncs = <<>>
  /\ nodes = {} /\ nexts = <<>> /\ prevs = <<>>
  /\ out = <<>>

Flag(f) == f \in opts.flags

------------------------------------------------------------------------------
(* main reads the options *)
Arguments ==
  /\ phase = "options"
  /\ opts' = ReadOptions(input.argv)
  /\ phase' = IF opts'.end = "" THEN "read" ELSE opts'.end
  /\ UNCHANGED <<input, file, arcs, fncs, graph, out>>

(* One arc for each call site and function, as the hash-table of arcs of   *)
(* the manager has them; the numbers of calls tell the arcs apart.         *)
Files ==
  {[i \in DOMAIN s |-> [from |-> s[i][1], to |-> s[i][2], number |-> 2 ^ i]] :
     s \in {s \in UNION {[1 .. n -> Sites \X Funcs] : n \in 1 .. MaxArcs} : IsInjective(s)}}

(* main reads the file; "profile data file seems to be troncated" when it  *)
(* ends, also before the lists of memory profiling                         *)
ReadFile ==
  /\ phase = "read" /\ input.file = "good" /\ phase' = "names"
  /\ file' \in Files /\ arcs' = file'
  /\ fncs' = LET syms == InOrder(Funcs)
             IN  [i \in DOMAIN syms |->
                    [symbol |-> syms[i], name |-> NoName, ok |-> "ndef", hide |-> FALSE, my_index |-> i]]
  /\ opts' = IF \A l \in Lists : input.lists[l] = 0
               THEN [opts EXCEPT !.flags = @ \cup {"no_memory"}] ELSE opts
  /\ UNCHANGED <<input, graph, out>>

CannotRead ==
  /\ phase = "read" /\ input.file # "good" /\ phase' = "fatal"
  /\ UNCHANGED <<input, opts, file, arcs, fncs, graph, out>>

------------------------------------------------------------------------------
(* fc_names_solve *)

(* -no-names, an executable that is none, or has no function *)
NoNames ==
  /\ phase = "names"
  /\ Flag("no_names") \/ ~HasSymbols(input.exe)
  /\ phase' = IF Flag("no_names") \/ input.exe.ok \/ Flag("force_names") THEN "sort" ELSE "fatal"
  /\ UNCHANGED <<input, opts, file, arcs, fncs, graph, out>>

(* the functions with what the executable says of their names *)
Named(lost) == [i \in DOMAIN fncs |-> ExtractName(input.exe.syms, fncs[i], lost)]

(* Call sites become functions, functions get names, and the entries of    *)
(* the lists of options their addresses.  Without -not, -only follows a    *)
(* null pointer; with a shorter list of -not it reads beyond its end.      *)
SolveNames ==
  /\ phase = "names" /\ ~Flag("no_names") /\ HasSymbols(input.exe)
  /\ \E lost \in {InvalidName, GarbageName} :
       LET crash == NoFileName(input.libs, Named(lost)) \/ (opts.only # <<>> /\ opts.not = <<>>)
           all == WithLibraries(input.libs, Named(lost))
       IN  /\ fncs' = all
           /\ phase' \in IF crash THEN {"crashed"}
                         ELSE IF BeyondNot(opts.only, opts.not) THEN {"sort", "crashed"} ELSE {"sort"}
           /\ opts' = [opts EXCEPT !.only = [i \in DOMAIN @ |-> SolveNamed(all, @[i])],
                                   !.not = [i \in DOMAIN @ |-> SolveEntry(all, @[i])]]
  /\ arcs' = [i \in DOMAIN arcs |-> [arcs[i] EXCEPT !.from = ExtractBase(input.exe.syms, @)]]
  /\ UNCHANGED <<input, file, graph, out>>

------------------------------------------------------------------------------
(* fc_sort_total and the others: what a function is sorted by *)
KeyOf(f) == IF opts.sort = "name" THEN f.name ELSE Times[f.symbol][opts.sort]

(* qsort: any order that the comparison allows; strcmp of names that there *)
(* are not                                                                 *)
SortFunctions ==
  /\ phase = "sort"
  /\ IF opts.sort = "name" /\ Len(fncs) > 1 /\ \E f \in Range(fncs) : f.name = NoName
       THEN phase' = "crashed" /\ UNCHANGED fncs
       ELSE /\ phase' = "arcs"
            /\ fncs' \in {s \in SetToSeqs(Range(fncs)) :
                          \A i, j \in DOMAIN s :
                            i < j => opts.order * (KeyOf(s[i]) - KeyOf(s[j])) <= 0}
  /\ UNCHANGED <<input, opts, file, arcs, graph, out>>

------------------------------------------------------------------------------
(* fc_graph_create *)

SamePair(i, j) == arcs[i].from = arcs[j].from /\ arcs[i].to = arcs[j].to

(* a bug: only neighbours are compared *)
RemoveDuplicates_Neighbours ==
  /\ phase = "arcs" /\ phase' = "link"
  /\ arcs' = LET left == InOrder({i \in DOMAIN arcs : i = Len(arcs) \/ ~SamePair(i, i + 1)})
             IN  [i \in DOMAIN left |-> arcs[left[i]]]
  /\ UNCHANGED <<input, opts, file, fncs, graph, out>>

(* The first loop adds the number of an arc to its next duplicate, and     *)
(* marks it.  The second one moves the arcs that are left to the front,    *)
(* their numbers excepted.                                                 *)
RemoveDuplicates ==
  /\ phase = "arcs" /\ phase' = "link"
  /\ LET summed(i) == MapThenSumSet(LAMBDA k : arcs[k].number,
                                    {k \in 1 .. i : SamePair(k, i)})
         left == InOrder({i \in DOMAIN arcs : \A j \in i + 1 .. Len(arcs) : ~SamePair(i, j)})
     IN  arcs' = [i \in DOMAIN left |-> [arcs[left[i]] EXCEPT !.number = summed(i)]]
  /\ UNCHANGED <<input, opts, file, fncs, graph, out>>

(* fc_search_function: the function at an address, or a faked one, which   *)
(* is a new one for each end of each arc                                   *)
FromNode(i) == <<arcs[i].from, IF arcs[i].from \in Funcs THEN 0 ELSE i>>
ToNode(i) == <<arcs[i].to, IF arcs[i].to \in Funcs THEN 0 ELSE -i>>

(* fc_add_child, fc_add_prev: links are added in the order of the arcs *)
NextLinks(n) ==
  LET from == InOrder({i \in DOMAIN arcs : FromNode(i) = n})
  IN  [k \in DOMAIN from |-> [node |-> ToNode(from[k]), number |-> arcs[from[k]].number]]
PrevLinks(n) ==
  LET to == InOrder({i \in DOMAIN arcs : ToNode(i) = n})
  IN  [k \in DOMAIN to |-> [node |-> FromNode(to[k]), number |-> arcs[to[k]].number]]

(* fc_create_node for the ends of each arc, then the links *)
LinkNodes ==
  /\ phase = "link" /\ phase' = "select"
  /\ nodes' = {FromNode(i) : i \in DOMAIN arcs} \cup {ToNode(i) : i \in DOMAIN arcs}
  /\ nexts' = [n \in nodes' |-> NextLinks(n)]
  /\ prevs' = [n \in nodes' |-> PrevLinks(n)]
  /\ UNCHANGED <<input, opts, file, arcs, fncs, out>>

(* fc_list_of_functions[i].node is never set when the functions are read:  *)
(* what malloc left there, if not zeros, is taken for a node               *)
FollowGarbage ==
  /\ phase = "link" /\ phase' = "crashed"
  /\ \E i \in DOMAIN arcs : {arcs[i].from, arcs[i].to} \cap Funcs # {}
  /\ UNCHANGED <<input, opts, file, arcs, fncs, graph, out>>

(* no memory for a faked function: "removing call-graph", and the lists of *)
(* -only and -not are not looked at                                        *)
GraphFails ==
  /\ phase = "link" /\ \E i \in DOMAIN arcs : arcs[i].from \notin Funcs
  /\ phase' = IF Flag("show_callgraph") THEN "vcg" ELSE "list"
  /\ opts' = [opts EXCEPT !.flags = @ \cup {"no_call_graph"}]
  /\ UNCHANGED <<input, file, arcs, fncs, graph, out>>

NodeOf(f) == <<f, 0>>
InGraph(f) == NodeOf(f) \in nodes
Faked(n) == n[2] # 0

(* the functions that the entries of a list have the addresses of *)
Addresses(list) == {e.addr : e \in Range(list)} \ {0}

(* -only or -not; "combined -not/-only not implemented" *)
Hidden(f) ==
  \/ opts.only # <<>> /\ opts.not = <<>> /\ f \notin Addresses(opts.only)
  \/ opts.not # <<>> /\ opts.only = <<>> /\ f \in Addresses(opts.not)

(* With one of the lists the node of every function is marked as not       *)
(* treated, without a look whether it has one.                             *)
SelectFunctions ==
  /\ phase = "select"
  /\ IF (opts.only # <<>>) # (opts.not # <<>>) /\ \E f \in Funcs : ~InGraph(f)
       THEN phase' = "crashed" /\ UNCHANGED fncs
       ELSE /\ phase' = IF Flag("show_callgraph") THEN "vcg" ELSE "list"
            /\ fncs' = [i \in DOMAIN fncs |-> [fncs[i] EXCEPT !.hide = Hidden(fncs[i].symbol)]]
  /\ UNCHANGED <<input, opts, file, arcs, graph, out>>

------------------------------------------------------------------------------
my_index(n) == (CHOOSE f \in Range(fncs) : f.symbol = n[1]).my_index

(* a bug: the edges of "called by" *)
DisplayGraph_Prevs ==
  /\ phase = "vcg" /\ \A f \in Funcs : InGraph(f)
  /\ phase' = "done"
  /\ out' = [edges |-> UNION {{<<i, my_index(link.node)>> : link \in Range(prevs[NodeOf(fncs[i].symbol)])}
                               : i \in DOMAIN fncs}]
  /\ UNCHANGED <<input, opts, file, arcs, fncs, graph>>

(* -vcg: a node is displayed under its index in the sorted list, an edge   *)
(* ends at my_index, the index of the function when it was read            *)
DisplayGraph ==
  /\ phase = "vcg"
  /\ IF \E f \in Funcs : ~InGraph(f)
       THEN phase' = "crashed" /\ UNCHANGED out
       ELSE /\ phase' = "done"
            /\ out' = [edges |-> UNION {{<<i, my_index(link.node)>> :
                                 link \in Range(nexts[NodeOf(fncs[i].symbol)])} : i \in DOMAIN fncs}]
  /\ UNCHANGED <<input, opts, file, arcs, fncs, graph>>

(* the functions that are displayed, in the order they are sorted in *)
Displayed == SelectSeq(fncs, LAMBDA f : ~f.hide)

(* a line of the flat profile: the function, and the local time up to it *)
FlatProfile ==
  [i \in DOMAIN Displayed |->
     [symbol |-> Displayed[i].symbol,
      cumul |-> MapThenSumSet(LAMBDA j : Times[Displayed[j].symbol]["local"], 1 .. i)]]

(* The nodes next to f that are displayed with it, each with its number.   *)
(* The hide flag of a faked function is never set: "unset" are those that  *)
(* malloc gave a zero for it.                                              *)
Neighbours(f, unset) ==
  SelectSeq(IF Flag("call_called") THEN prevs[NodeOf(f)] ELSE nexts[NodeOf(f)],
            LAMBDA link : IF Faked(link.node) THEN link.node \in unset
                          ELSE \E g \in Range(Displayed) : g.symbol = link.node[1])

(* a bug: functions that are hidden are displayed as neighbours *)
CallGraph_All(unset) ==
  [f \in {g.symbol : g \in {h \in Range(Displayed) : InGraph(h.symbol)}} |->
     IF Flag("call_called") THEN prevs[NodeOf(f)] ELSE nexts[NodeOf(f)]]

(* functions without a node: "this function is not in the call-graph!" *)
CallGraph(unset) ==
  [f \in {g.symbol : g \in {h \in Range(Displayed) : InGraph(h.symbol)}} |-> Neighbours(f, unset)]

(* the header, the flat profile and the call-graph *)
ListFunctions ==
  /\ phase = "list" /\ phase' = "cycles"
  /\ \E unset \in SUBSET {n \in nodes : Faked(n)} :
       out' = [shown |-> Len(Displayed), hidden |-> Len(fncs) - Len(Displayed),
               flat |-> IF Flag("no_flat_profile") THEN <<>> ELSE FlatProfile,
               calls |-> IF Flag("no_call_graph") THEN <<>> ELSE CallGraph(unset),
               cycles |-> <<>>, lists |-> <<>>]
  /\ UNCHANGED <<input, opts, file, arcs, fncs, graph>>

(* fc_get_cycle_: a search in depth first that leaves its tags behind.     *)
(* "ret" is the length of the cycle found, or 0, and "last" the node that  *)
(* calls the first one.                                                    *)
NoNode == <<0, 0>>
Call(node, tags, lng) == [node |-> node, tags |-> tags, lng |-> lng]
Calls == [node : nodes, tags : SUBSET nodes, lng : Nat]
GetCycle_(init) ==
  LET search[c \in Calls] ==
        IF c.node = init /\ c.lng # 0 THEN [ret |-> c.lng, last |-> NoNode, tags |-> c.tags]
        ELSE IF c.node \in c.tags THEN [ret |-> 0, last |-> NoNode, tags |-> c.tags]
        ELSE FoldLeft(
               LAMBDA found, link :
                 IF found.ret > 0 THEN found
                 ELSE LET below == search[Call(link.node, found.tags, c.lng + 1)]
                      IN  [below EXCEPT !.last = IF below.ret > 0 /\ @ = NoNode THEN c.node ELSE @],
               [ret |-> 0, last |-> NoNode, tags |-> c.tags \cup {c.node}],
               nexts[c.node])
  IN  search

(* a bug: the tag of the first node is left from the search before *)
GetCycle_Tagged(node) == GetCycle_(node)[Call(node, {node}, 0)]

(* fc_get_cycle: the tags are cleared for each node *)
GetCycle(node) == GetCycle_(node)[Call(node, {}, 0)]

ComputeCycles ==
  /\ phase = "cycles" /\ phase' = "memory"
  /\ out' = IF Flag("no_cycles") THEN out
            ELSE [out EXCEPT !.cycles = [n \in nodes |-> GetCycle(n)]]
  /\ UNCHANGED <<input, opts, file, arcs, fncs, graph>>

(* the flag of the option that hides a list of memory profiling *)
NoList == "leaks" :> "no_memory_leaks" @@ "free" :> "no_memory_free"
            @@ "realloc" :> "no_memory_realloc"

(* fc_graph_delete, unless the call-graph was not wanted *)
NodesLeft == IF Flag("no_call_graph") THEN nodes ELSE {}

(* the lists of memory profiling; then all data is freed *)
ListMemory ==
  /\ phase = "memory" /\ phase' = "done"
  /\ out' = [out EXCEPT !.lists = [l \in {k \in Lists : ~Flag("no_memory") /\ ~Flag(NoList[k])} |->
                                     input.lists[l]]]
  /\ nodes' = NodesLeft
  /\ UNCHANGED <<input, opts, file, arcs, fncs, nexts, prevs>>

Next ==
  \/ Arguments \/ ReadFile \/ CannotRead \/ NoNames \/ SolveNames \/ SortFunctions
  \/ RemoveDuplicates \/ LinkNodes \/ FollowGarbage \/ GraphFails \/ SelectFunctions
  \/ DisplayGraph \/ ListFunctions \/ ComputeCycles \/ ListMemory

Spec == Init /\ [][Next]_vars

------------------------------------------------------------------------------
TypeOK ==
  /\ phase \in {"options", "read", "names", "sort", "arcs", "link", "select", "vcg", "list",
                "cycles", "memory", "done", "told", "fatal", "crashed"}
  /\ {f.symbol : f \in Range(fncs)} \subseteq Funcs /\ IsInjective(fncs)
  /\ nodes \subseteq DOMAIN nexts /\ DOMAIN prevs = DOMAIN nexts

Linked == phase \in {"select", "vcg", "list", "cycles", "memory", "done"} /\ nodes # {}

(* The function that a call site lies in, as far as the symbols tell *)
Solved == ~Flag("no_names") /\ HasSymbols(input.exe)
Base(site) ==
  LET syms == DOMAIN input.exe.syms
  IN  IF ~Solved \/ site < Min(syms) \/ site > Max(syms) THEN site
      ELSE Max({f \in syms : f <= site})
Pairs(list) == {<<list[i].from, list[i].to>> : i \in DOMAIN list}
Called == {<<Base(a.from), a.to>> : a \in Range(file)}

(* Call sites become the functions they lie in, no arc is lost and none is *)
(* left twice when duplicates are removed, and both directions of the      *)
(* graph are those of the arcs: "calls" and "called by" tell the same.     *)
ArcsKept ==
  TypeOK /\ (Linked =>
    /\ Pairs(arcs) = Called
    /\ Cardinality(Pairs(arcs)) = Len(arcs)
    /\ \A n, m \in nodes :
         {link.number : link \in {l \in Range(nexts[n]) : l.node = m}}
           = {link.number : link \in {l \in Range(prevs[m]) : l.node = n}})

Callees(n) == {link.node : link \in Range(nexts[n])}
Closed(S) == \A n \in S : Callees(n) \subseteq S
(* m is at the end of a path of one link or more from n: it is in each set *)
(* that has the callees of n and those of its own nodes                    *)
Reaches(n, m) == \A S \in SUBSET nodes : Callees(n) \subseteq S /\ Closed(S) => m \in S

(* The search finds a cycle through a node whenever there is one, although *)
(* it leaves tags on the nodes it has given up, and only then; the cycle   *)
(* is closed by the node that is displayed with it.                        *)
CyclesExact ==
  phase = "memory" /\ ~Flag("no_cycles") =>
    /\ DOMAIN out.cycles = nodes
    /\ \A n \in nodes : LET found == out.cycles[n] IN
         /\ (found.ret > 0) <=> Reaches(n, n)
         /\ found.ret > 0 =>
              /\ n \in Callees(found.last)
              /\ found.ret <= Cardinality(nodes)
              /\ (found.ret = 1) <=> (found.last = n)
              /\ n # found.last => Reaches(n, found.last)

IndexInFile(f) == Cardinality({g \in Funcs : g <= f})

(* The graph of -vcg has an edge for each call between two functions of    *)
(* the program, whatever the order the functions are displayed in: from    *)
(* the title of the caller to the index that the callee has in the file.   *)
EdgesKept ==
  phase = "done" /\ Flag("show_callgraph") =>
    \A i \in DOMAIN fncs :
      {e[2] : e \in {d \in out.edges : d[1] = i}}
        = {IndexInFile(a[2]) : a \in {c \in Called : c[1] = fncs[i].symbol}}

------------------------------------------------------------------------------
(* What the command line asks for, read from its words *)
LastWord(words, P(_)) == LET at == {i \in DOMAIN words : P(words[i])}
                         IN  IF at = {} THEN [opt |-> "", arg |-> ""] ELSE words[Max(at)]
AskedKey ==
  LET w == LastWord(input.argv, LAMBDA w : w.opt = "-cumul"
                                  \/ (w.opt \in {"-sort", "-rsort"} /\ w.arg \in SortKeys))
  IN  CASE w.opt = "" -> "total" [] w.opt = "-cumul" -> "local" [] OTHER -> w.arg
Ascending == LastWord(input.argv, LAMBDA w : w.opt \in {"-sort", "-rsort"}).opt = "-rsort"

(* the functions that the texts of an option stand for; names only count   *)
(* when they are solved (lists that begin with a comma aside)              *)
Meant(opt) ==
  LET texts == UNION {Range(w.arg) : w \in {v \in Range(input.argv) : v.opt = opt}}
  IN  {f \in Funcs : -f \in texts \/ (f \in texts /\ Solved /\ f \in DOMAIN input.exe.syms)}
Given(opt) == \E w \in Range(input.argv) : w.opt = opt
Wanted ==
  CASE Given("-only") /\ ~Given("-not") -> Meant("-only")
    [] Given("-not") /\ ~Given("-only") -> Funcs \ Meant("-not")
    [] OTHER -> Funcs

(* The flat profile has each function that -only and -not leave, once, in  *)
(* the order of the last -sort, -rsort or -cumul, and its last cumulated   *)
(* time is the local time of them all.  The call-graph tells for each of   *)
(* them the calls in the file to (or from) the functions left; nothing is  *)
(* said of the unknown functions, nor when there was no memory for the     *)
(* call-graph.                                                             *)
ListingExact ==
  phase = "memory" /\ (nodes # {}) =>
    LET flat == out.flat
        key(f) == IF AskedKey = "name" THEN f ELSE Times[f][AskedKey]
        sum(S) == MapThenSumSet(LAMBDA f : Times[f]["local"], S)
    IN  /\ out.shown = Cardinality(Wanted) /\ out.hidden = Cardinality(Funcs \ Wanted)
        /\ ~Flag("no_flat_profile") =>
             /\ Len(flat) = Cardinality(Wanted) /\ {l.symbol : l \in Range(flat)} = Wanted
             /\ flat # <<>> => flat[Len(flat)].cumul = sum(Wanted)
             /\ (AskedKey = "name" => Wanted \subseteq DOMAIN input.exe.syms) =>
                \A i, j \in DOMAIN flat : i < j =>
                  IF Ascending THEN key(flat[i].symbol) <= key(flat[j].symbol)
                  ELSE key(flat[i].symbol) >= key(flat[j].symbol)
        /\ ~Flag("no_call_graph") =>
             \A f, g \in Funcs :
               (f \in DOMAIN out.calls /\ \E link \in Range(out.calls[f]) : link.node = NodeOf(g))
                 <=> /\ {f, g} \subseteq Wanted
                     /\ (IF Flag("call_called") THEN <<g, f>> ELSE <<f, g>>) \in Called
=============================================================================

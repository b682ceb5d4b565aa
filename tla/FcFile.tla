------------------------------- MODULE FcFile -------------------------------
(***************************************************************************)
(* The profile data file: what fc_context_save (fcmanager/fc_context.c)    *)
(* writes of a context and what main of fcdump/fc_dump.c reads of it, as   *)
(* operators.                                                              *)
(*                                                                         *)
(* A file is a sequence of tokens: decimal numbers, pointers and words.    *)
(* It may end before its time; file.newline tells whether the separator    *)
(* after the last token is there.  The six times of a function are one.    *)
(***************************************************************************)
EXTENDS Integers, SequencesExt

CONSTANTS
  Word,          \* 2^32 in the code: addresses in the key of an arc
  UINT_MAX,      \* the size that tells an invalid free or realloc
  MaxCallstack,  \* FC_MAX_CALLSTACK, 8 in the code
  MaxStackSize   \* FC_MAX_STACK_SIZE, 16 in the code

ASSUME FileAssumption ==
  /\ Word \in Nat \ {0} /\ UINT_MAX \in Nat
  /\ MaxCallstack \in Nat /\ MaxStackSize \in Nat \ {0}

NULL == 0
Header == "functioncheck_v3.0"

Dec(n) == <<"d", n>>
Ptr(a) == <<"p", a>>
Str(s) == <<"w", s>>

(* one line for each element of a list: the number of them, then the lines *)
Counted(n, lines) == <<Dec(n)>> \o FlattenSeq(lines)

------------------------------------------------------------------------------
(* fc_graph_add, fc_graph_add_single: the key of an arc is made of two     *)
(* unsigned ints, and a call without a call site makes none.  calls is a   *)
(* sequence of <<call site, function>>; the arcs come out in the order of  *)
(* their first call.                                                       *)
Key(call) == <<call[1] % Word, call[2] % Word>>

Arcs(calls) ==
  FoldLeft(LAMBDA arcs, c :
             LET at == {i \in DOMAIN arcs : <<arcs[i].from, arcs[i].to>> = Key(c)} IN
             IF at = {} THEN Append(arcs, [from |-> Key(c)[1], to |-> Key(c)[2], number |-> 1])
             ELSE [arcs EXCEPT ![Min(at)].number = @ + 1],
           <<>>, SelectSeq(calls, LAMBDA c : c[1] # NULL))

(* fc_memory_set_stack_size *)
StackSize(size) == IF size < MaxCallstack THEN size ELSE MaxCallstack

(* fc_get_top_stack: the call sites from the top of the stack, one at      *)
(* least, whatever the size                                                *)
TopStack(sites, size) ==
  LET up == Reverse(sites)
  IN  SubSeq(up, 1, Min({Len(up), IF size < 1 THEN 1 ELSE size}))

(* the part of alloc_stack that is saved: up to the first NULL, and not    *)
(* more than fc_memory_stack_size                                          *)
SavedStack(el, size) ==
  LET end == {i \in DOMAIN el.stack : el.stack[i] = NULL \/ i > size}
  IN  IF end = {} THEN el.stack ELSE SubSeq(el.stack, 1, Min(end) - 1)

StackTokens(el, size) ==
  LET saved == SavedStack(el, size)
  IN  [i \in DOMAIN saved |-> Ptr(saved[i])] \o <<Ptr(NULL)>>

(* which of the elements of the list count, and are written, as what *)
Leak(el) == el.set /\ el.size # UINT_MAX
CountsAsFree(el) == el.set /\ el.size = UINT_MAX /\ el.realloc_place = NULL
CountsAsRealloc(el) == el.set /\ el.size = UINT_MAX /\ el.realloc_place # NULL
WrittenAsFree(el) == el.set /\ el.size = UINT_MAX /\ el.alloc_place # NULL

(* a bug: an entry of a leak without the end of its stack *)
LeakTokens_NoEnd(el, size) ==
  <<Ptr(el.pointer), Dec(el.size), Ptr(el.alloc_place), Ptr(el.realloc_place)>>
    \o Front(StackTokens(el, size))

LeakTokens(el, size) ==
  <<Ptr(el.pointer), Dec(el.size), Ptr(el.alloc_place), Ptr(el.realloc_place)>>
    \o StackTokens(el, size)

FreeTokens(el, size) == <<Ptr(el.alloc_place), Ptr(el.pointer)>> \o StackTokens(el, size)
ReallocTokens(el, size) == <<Ptr(el.realloc_place), Ptr(el.pointer)>> \o StackTokens(el, size)

MemoryTokens(list, size) ==
  LET leaks == SelectSeq(list, Leak)
      frees == SelectSeq(list, WrittenAsFree)
      reallocs == SelectSeq(list, CountsAsRealloc)
  IN  Counted(Len(leaks), [i \in DOMAIN leaks |-> LeakTokens(leaks[i], size)])
        \o Counted(Len(SelectSeq(list, CountsAsFree)),
                   [i \in DOMAIN frees |-> FreeTokens(frees[i], size)])
        \o Counted(Len(reallocs), [i \in DOMAIN reallocs |-> ReallocTokens(reallocs[i], size)])

(* a library without a name is an address alone *)
LibTokens(lib) == <<Ptr(lib.addr)>> \o (IF lib.name = "" THEN <<>> ELSE <<Str(lib.name)>>)

(* the numbers of the time modes in a file *)
FC_MTIME == [EXT |-> 1, CPU |-> 2, TSC |-> 3]

(* The time mode of the manager: it gets the program's in the INIT record, *)
(* and does not set its own.                                               *)
fc_time_tmode == "TSC"

(* fc_context_save; mng is what the manager knows beside the contexts *)
Save(ctx, mng) ==
  LET arcs == Arcs(ctx.calls)
      functions == SelectSeq(ctx.functions, LAMBDA f : f.symbol # NULL)
  IN  <<Str(Header), Str(mng.unique_id), Dec(FC_MTIME[fc_time_tmode]), Dec(mng.pmode), Dec(ctx.id), Dec(ctx.pid),
        Dec(ctx.last_time - ctx.first_time)>>
        \o Counted(Len(arcs), [i \in DOMAIN arcs |->
                                 <<Ptr(arcs[i].from), Ptr(arcs[i].to), Dec(arcs[i].number)>>])
        \o Counted(Len(functions), [i \in DOMAIN functions |->
                                      <<Ptr(functions[i].symbol), Dec(functions[i].calls),
                                        Dec(functions[i].times)>>])
        \o Counted(Len(mng.ldyn), [i \in DOMAIN mng.ldyn |-> LibTokens(mng.ldyn[i])])
        \o MemoryTokens(ctx.memory, mng.stack_size)

------------------------------------------------------------------------------
(* fcdump.  The scanner is its position, whether it stands in the middle   *)
(* of a pointer, feof, whether a conversion of this call has failed, the   *)
(* values of this call, and whether fcdump has given up.                   *)

Scanner == [pos |-> 1, rest |-> FALSE, eof |-> FALSE, failed |-> FALSE, vals |-> <<>>,
            fatal |-> FALSE]

(* what a conversion that fails leaves in its variable: what was there *)
Garbage == -1

(* two decimal digits, read as hexadecimal ones *)
Hex(n) == 16 * (n \div 10) + (n % 10)

(* One conversion of fscanf: at the end of the file, feof; "%d" and "%p"   *)
(* take nothing of a word, and "%d" only the 0 of "0x...".                 *)
Convert(file, s, kind) ==
  LET tok == file.tokens[s.pos]
      last == s.pos = Len(file.tokens) /\ ~file.newline
      fails == [s EXCEPT !.failed = TRUE, !.vals = Append(@, Garbage)]
      takes(v) == [s EXCEPT !.pos = @ + 1, !.rest = FALSE, !.eof = @ \/ last,
                            !.vals = Append(@, v)]
  IN  CASE s.failed -> fails
        [] ~s.failed /\ s.pos > Len(file.tokens) -> [fails EXCEPT !.eof = TRUE]
        [] ~s.failed /\ s.pos <= Len(file.tokens) ->
             CASE kind = "w" -> takes(tok[2])
               [] kind = tok[1] /\ ~s.rest -> takes(tok[2])
               [] kind = "p" /\ tok[1] = "d" -> takes(Hex(tok[2]))
               [] kind = "d" /\ tok[1] = "p" /\ tok[2] # NULL /\ ~s.rest ->
                    [s EXCEPT !.rest = TRUE, !.vals = Append(@, 0)]
               [] OTHER -> fails

fscanf(file, s, kinds) ==
  FoldLeft(LAMBDA r, kind : Convert(file, r, kind),
           [s EXCEPT !.failed = FALSE, !.vals = <<>>], kinds)

(* a bug: the end of the file is not looked for *)
fc_fscanf_NoTest(file, s, kinds) == IF s.fatal THEN s ELSE fscanf(file, s, kinds)

(* "profile data file seems to be troncated" *)
fc_fscanf(file, s, kinds) ==
  IF s.fatal THEN s
  ELSE LET tested(r) == [r EXCEPT !.fatal = r.eof] IN tested(fscanf(file, s, kinds))

(* n lines, each read with fc_fscanf *)
ReadList(file, s, n, kinds) ==
  FoldLeft(LAMBDA r, k : LET t == fc_fscanf(file, r.s, kinds)
                         IN  [s |-> t, list |-> Append(r.list, t.vals)],
           [s |-> s, list |-> <<>>], [k \in 1 .. n |-> k])

(* fc_read_stack: up to the first NULL; a pointer that is not read is the  *)
(* one of before, and the table is full at last                            *)
ReadStack(file, s) ==
  FoldLeft(LAMBDA r, k :
             LET t == fscanf(file, r.s, <<"p">>)
                 tmp == IF t.failed THEN r.tmp ELSE t.vals[1]
             IN  CASE r.done -> r
                   [] ~r.done /\ tmp = NULL -> [r EXCEPT !.s = t, !.done = TRUE]
                   [] OTHER -> [s |-> t, tmp |-> tmp, stack |-> Append(r.stack, tmp),
                                done |-> FALSE],
           [s |-> s, tmp |-> Garbage, stack |-> <<>>, done |-> FALSE],
           [k \in 1 .. MaxStackSize - 1 |-> k])

(* a number that must not be 0; a conversion that fails leaves the 0 of     *)
(* the static variable                                                     *)
NotEmpty(count) ==
  IF count.fatal \/ count.failed \/ count.vals[1] = 0 THEN [count EXCEPT !.fatal = TRUE]
  ELSE count

(* as many lines as the number that was read before tells *)
ReadLines(file, count, kinds) ==
  ReadList(file, count, IF count.fatal THEN 0 ELSE count.vals[1], kinds)

(* the lines of a list of the memory profiling are read with fscanf *)
ReadBlock(file, s, kinds) ==
  LET withStack(t) == LET u == ReadStack(file, t)
                      IN  [s |-> u.s, line |-> t.vals \o <<u.stack>>]
  IN  withStack(fscanf(file, s, kinds))

ReadBlocks(file, count, kinds) ==
  FoldLeft(LAMBDA r, k : LET block == ReadBlock(file, r.s, kinds)
                         IN  [s |-> block.s, list |-> Append(r.list, block.line)],
           [s |-> count, list |-> <<>>],
           [k \in 1 .. (IF count.fatal \/ count.failed THEN 0 ELSE count.vals[1]) |-> k])

(* the first word tells what file it is *)
ReadHeader(file, s) ==
  LET tested(r) == [s |-> [r EXCEPT !.fatal = @ \/ r.failed \/ r.vals # <<Header>>],
                    list |-> <<r.vals>>]
  IN  tested(fc_fscanf(file, s, <<"w">>))

(* the parts of a file, in the order that main reads them in *)
Parts ==
  << [name |-> "header", how |-> "header"],
     [name |-> "unique_id", how |-> "lines", nb |-> 1, kinds |-> <<"w">>],
     [name |-> "general", how |-> "lines", nb |-> 5, kinds |-> <<"d">>],
     [name |-> "arcs", how |-> "some", kinds |-> <<"p", "p", "d">>],
     [name |-> "functions", how |-> "some", kinds |-> <<"p", "d", "d">>],
     [name |-> "libs", how |-> "any", kinds |-> <<"p", "w">>],
     [name |-> "leaks", how |-> "blocks", kinds |-> <<"p", "d", "p", "p">>],
     [name |-> "frees", how |-> "blocks", kinds |-> <<"p", "p">>],
     [name |-> "reallocs", how |-> "blocks", kinds |-> <<"p", "p">>] >>

ReadPart(file, s, part) ==
  CASE part.how = "header" -> ReadHeader(file, s)
    [] part.how = "lines" -> ReadList(file, s, part.nb, part.kinds)
    [] part.how = "some" -> ReadLines(file, NotEmpty(fc_fscanf(file, s, <<"d">>)), part.kinds)
    [] part.how = "any" -> ReadLines(file, fc_fscanf(file, s, <<"d">>), part.kinds)
    [] part.how = "blocks" -> ReadBlocks(file, fc_fscanf(file, s, <<"d">>), part.kinds)

(* what main reads, up to "ok. close file" *)
Read(file) ==
  LET add(r, part) == LET read == ReadPart(file, r.s, part)
                      IN  [s |-> read.s, data |-> (part.name :> read.list) @@ r.data]
      all == FoldLeft(add, [s |-> Scanner, data |-> <<>>], Parts)
  IN  [fatal |-> all.s.fatal] @@ all.data
=============================================================================

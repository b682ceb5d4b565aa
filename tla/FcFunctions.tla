---------------------------- MODULE FcFunctions ----------------------------
(***************************************************************************)
(* What the manager knows of one context (a process or a thread of the     *)
(* profiled program) and how an enter and an exit change it:               *)
(* fc_functions.c, fc_stack.c, fc_hash.c, fc_graph.c and the creation of a *)
(* context in fc_context.c, as operators on a context record.              *)
(*                                                                         *)
(* Addresses are numbers (below 2^32: the keys of the tables are cut to an *)
(* unsigned int); their place in the table of functions follows from them. *)
(***************************************************************************)
EXTENDS Integers, Sequences, FiniteSetsExt

CONSTANTS
  Size,      \* func_size: slots of the table of functions, a power of 2
  NbFaked,   \* 16 in the code: unknown functions of a forked process
  U64,       \* 2^64 in the code: times are unsigned long long
  U32        \* 2^32 in the code: the first time is an unsigned int

ASSUME FunctionsAssumption ==
  /\ Size \in Nat /\ NbFaked \in 0 .. Size - 1
  /\ U64 \in Nat /\ U32 \in 1 .. U64

NULL == 0
Slots == 0 .. Size - 1
NoSlot == Size

Add(a, b) == (a + b) % U64
Sub(a, b) == (a - b) % U64

(* fc_functions_init, and the new entry of fc_functions_enter *)
NewFunction(fnc) ==
  [symbol |-> fnc, faked |-> FALSE, calls |-> 0, recursive_state |-> 0,
   local_time |-> 0, total_time |-> 0, last_time |-> 0, temp_ltime |-> 0,
   min_time |-> U64 - 1, max_time |-> 0, min_ltime |-> U64 - 1, max_ltime |-> 0]

------------------------------------------------------------------------------
(* fc_hash.c: a table with linear probing *)

Home(fnc) == fnc % Size

(* a bug: no probing *)
Find_HomeOnly(table, fnc) == IF table[Home(fnc)].symbol = fnc THEN Home(fnc) ELSE NoSlot

(* fc_fhash_find stops at the first slot with that symbol or without any,  *)
(* the unknown functions included, and does not come back to slot 0: what  *)
(* lies behind the last slot is taken for an empty one.                    *)
Find(table, fnc) ==
  LET stops == {s \in Slots : s >= Home(fnc) /\ table[s].symbol \in {fnc, NULL}}
  IN  IF stops # {} /\ table[Min(stops)].symbol = fnc THEN Min(stops) ELSE NoSlot

(* a bug: the place of an unknown function is taken for a free one *)
InsertAt_OverFaked(table, fnc) ==
  LET free == {s \in Slots : table[s].symbol = NULL}
  IN  CHOOSE s \in free : \A t \in free : (s - Home(fnc)) % Size <= (t - Home(fnc)) % Size

(* fc_fhash_insert takes the first free slot, around the end of the table *)
InsertAt(table, fnc) ==
  LET free == {s \in Slots : table[s].symbol = NULL /\ ~table[s].faked}
  IN  CHOOSE s \in free : \A t \in free : (s - Home(fnc)) % Size <= (t - Home(fnc)) % Size

(* current_nb / current_size > FC_HASH_MAX_RATIO, which is fatal *)
TooManyFunctions(nb) == 100 * nb > 80 * Size

------------------------------------------------------------------------------
(* fc_stack.c *)

Push(stack, slot, time, site) ==
  Append(stack, [function |-> slot, time |-> time, call_site |-> site])
Pop(stack) == SubSeq(stack, 1, Len(stack) - 1)
Top(stack) == stack[Len(stack)]
Below(stack) == stack[Len(stack) - 1]

(* a bug: an arc that is there is not counted *)
GraphAdd_Resets(graph, from, to) ==
  IF from = NULL THEN graph ELSE
    [arc \in DOMAIN graph \cup {<<from, to>>} |->
       IF arc = <<from, to>> THEN 1 ELSE graph[arc]]

(* fc_graph_add: arcs without an origin are not recorded *)
GraphAdd(graph, from, to) ==
  IF from = NULL THEN graph ELSE
    [arc \in DOMAIN graph \cup {<<from, to>>} |->
       (IF arc \in DOMAIN graph THEN graph[arc] ELSE 0)
         + (IF arc = <<from, to>> THEN 1 ELSE 0)]

------------------------------------------------------------------------------
(* fc_context_create.  In FORK mode all contexts but the first start with  *)
(* NbFaked unknown functions entered at the first time: the functions that *)
(* the child is in when it is forked.                                      *)
EmptyContext(first) ==
  [stack |-> <<>>, table |-> [s \in Slots |-> NewFunction(NULL)], nb |-> 0,
   graph |-> <<>>, pid |-> 0, first_time |-> first % U32, last_time |-> first % U32]

FakedFunction(time) ==
  [NewFunction(NULL) EXCEPT !.faked = TRUE, !.calls = 1, !.recursive_state = 1,
                            !.last_time = time]

ForkedContext(first) ==
  LET time == first % U32 IN
  [EmptyContext(first) EXCEPT
     !.stack = [k \in 1 .. NbFaked |->
                  [function |-> k - 1, time |-> time, call_site |-> NULL]],
     !.table = [s \in Slots |-> IF s < NbFaked THEN FakedFunction(time) ELSE @[s]],
     !.nb = NbFaked]

------------------------------------------------------------------------------
(* fc_functions_enter *)
Enter(ctx, fnc, site, time) ==
  LET found == Find(ctx.table, fnc)
      slot == IF found = NoSlot THEN InsertAt(ctx.table, fnc) ELSE found
      known == IF found = NoSlot THEN [ctx.table EXCEPT ![slot] = NewFunction(fnc)]
                                 ELSE ctx.table
      cleared == [known EXCEPT ![slot].temp_ltime =
                    IF known[slot].recursive_state = 0 THEN 0 ELSE @]
      (* the local time of the caller stops *)
      caller == Top(ctx.stack).function
      stopped == IF ctx.stack = <<>> THEN cleared ELSE
                   [cleared EXCEPT ![caller].temp_ltime =
                      Add(@, Sub(time, cleared[caller].last_time))]
  IN  [ctx EXCEPT
         !.stack = Push(@, slot, time, site),
         !.nb = IF found = NoSlot THEN @ + 1 ELSE @,
         !.table = [stopped EXCEPT ![slot].recursive_state = @ + 1,
                                   ![slot].calls = @ + 1,
                                   ![slot].last_time = time]]

(* an exit that fc_functions_exit ignores: the stack is empty, or its top  *)
(* is another function, and not one that is faked                          *)
Ignored(ctx, fnc) ==
  \/ ctx.stack = <<>>
  \/ LET top == ctx.table[Top(ctx.stack).function] IN
       top.symbol \notin {fnc, NULL} /\ ~top.faked

(* An unknown function gets its symbol when it exits, and the one below it *)
(* the place it was called from, until it exits in turn.                   *)
Named(ctx, fnc, site) ==
  LET slot == Top(ctx.stack).function
      top == ctx.table[slot]
      named == [ctx.table EXCEPT ![slot].symbol = fnc,
                                 ![slot].faked = @ /\ top.symbol \in {fnc, NULL}]
  IN  IF top.symbol = NULL /\ Len(ctx.stack) > 1
        THEN [named EXCEPT ![Below(ctx.stack).function].symbol = site]
        ELSE named

(* a bug: the times of a recursion are added at every level *)
Timed_EveryLevel(func, ftime, time) ==
  LET delta == Sub(time, ftime)
      ltime == Add(func.temp_ltime, Sub(time, func.last_time))
  IN  [func EXCEPT
         !.temp_ltime = ltime, !.local_time = Add(@, ltime),
         !.max_ltime = Max({@, ltime}), !.min_ltime = Min({@, ltime}),
         !.max_time = Max({@, delta}), !.min_time = Min({@, delta}),
         !.total_time = Add(@, delta), !.recursive_state = @ - 1]

(* the times of a function whose activation, begun at ftime, ends *)
Timed(func, ftime, time) ==
  LET delta == Sub(time, ftime)
      ltime == Add(func.temp_ltime, Sub(time, func.last_time))
      outermost == func.recursive_state <= 1
  IN  [func EXCEPT
         !.temp_ltime = ltime,
         !.local_time = IF outermost THEN Add(@, ltime) ELSE @,
         !.max_ltime = Max({@, ltime}), !.min_ltime = Min({@, ltime}),
         !.max_time = Max({@, delta}), !.min_time = Min({@, delta}),
         !.total_time = IF outermost THEN Add(@, delta) ELSE @,
         !.recursive_state = @ - 1]

(* fc_functions_exit *)
Exit(ctx, fnc, site, time) ==
  IF Ignored(ctx, fnc) THEN ctx ELSE
    LET slot == Top(ctx.stack).function
        named == Named(ctx, fnc, site)
        timed == [named EXCEPT ![slot] = Timed(@, Top(ctx.stack).time, time)]
    IN  [ctx EXCEPT
           !.table = IF Len(ctx.stack) > 1
                       THEN [timed EXCEPT ![Below(ctx.stack).function].last_time = time]
                       ELSE timed,
           !.stack = Pop(@)]
=============================================================================

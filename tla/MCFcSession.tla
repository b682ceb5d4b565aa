---------------------------- MODULE MCFcSession ----------------------------
(***************************************************************************)
(* Scenarios for FcSession: each is about one part of a session, and       *)
(* leaves the other parts small.                                           *)
(***************************************************************************)
EXTENDS FcSession

MCNumerals == "2" :> 2 @@ "9" :> 9 @@ "5" :> 5 @@ "1000" :> 1000 @@ "1024" :> 1024
                @@ "-1" :> -1 @@ "2000000000" :> 2000000000

(* what a context may have to save *)
Function(f, n) == [symbol |-> f, calls |-> n, times |-> 7 * n]
Empty == Function(0, 0)
Block(p, size, a, r, sites) ==
  [set |-> p # 0, pointer |-> p, size |-> size, alloc_place |-> a, realloc_place |-> r,
   sites |-> sites]
NoBlock == Block(0, 0, 0, 0, <<>>)

NoCalls == [pid |-> 0, calls |-> <<>>, functions |-> <<Empty>>, blocks |-> <<>>]
Short == [pid |-> 1, calls |-> << <<11, 10>> >>, functions |-> <<Empty, Function(10, 1)>>,
          blocks |-> <<>>]
Wide == [Short EXCEPT !.calls = << <<11, 10>>, <<11 + Word, 10>> >>]
Full ==
  [pid |-> 1, calls |-> << <<11, 10>>, <<0, 20>>, <<21, 10>>, <<11, 10>> >>,
   functions |-> <<Function(10, 3), Empty, Function(20, 1)>>,
   blocks |-> << Block(90, UINT_MAX, 0, 12, <<11, 21, 31>>), NoBlock,
                 Block(91, 8, 13, 14, <<11>>), Block(92, UINT_MAX, 15, 0, <<0, 21>>),
                 Block(93, 4, 16, 0, <<>>) >>]
(* a block of UINT_MAX bytes, allocated and reallocated *)
Huge == [Full EXCEPT !.blocks = << Block(94, UINT_MAX, 17, 18, <<11>>),
                                   Block(90, UINT_MAX, 0, 12, <<>>) >>]

Lib(n) == [addr |-> 100 + n, name |-> "lib"]
Plain == [env |-> <<>>, rc |-> [lines |-> <<>>, newline |-> TRUE, junk |-> ""],
          build |-> [thread |-> TRUE, memory |-> TRUE], libs |-> <<Lib(1)>>, work |-> 0,
          steps |-> {1}, contents |-> {Short}]
With(env) == [Plain EXCEPT !.env = env]

Resources ==
  { [With("FC_DUMP_NAME" :> "mine") EXCEPT
       !.rc.lines = << <<"FC_DUMP_NAME", "other">>, <<"FC_USE_PID", "1">>,
                       <<"FC_MEMORY", "yes">>, <<"FC_USE_PID", "!">> >>],
    \* words that are missing, and a last line without newline
    [With("FC_MEMORY" :> "" @@ "FC_MEMORY_STACK" :> "2") EXCEPT
       !.rc = [lines |-> << <<"FC_DUMP_PATH">>, <<"FC_MEMORY_STACK", "!">>,
                            <<"FC_QUIET">>, <<"PATH", "x">>, <<>>, <<"FC_HELP", "1">> >>,
               newline |-> FALSE, junk |-> "junk"]],
    With("FC_HELP" :> "1") }

Sizes ==
  { With("FC_FUNCTION_SIZE" :> "1000" @@ "FC_BUFFER_SIZE" :> "-1"),
    With("FC_FUNCTION_SIZE" :> "1000"),
    With("FC_FUNCTION_SIZE" :> "1024" @@ "FC_DUMP_PATH" :> "/tmp"),
    With("FC_FUNCTION_SIZE" :> "-1" @@ "FC_USE_PID" :> ""),
    With("FC_FUNCTION_SIZE" :> "2000000000" @@ "FC_STACK_SIZE" :> "many") }

(* a program that cannot move, one that can, and one with too many *)
Libraries ==
  { [Plain EXCEPT !.libs = <<[addr |-> 0, name |-> ""], Lib(1), Lib(2)>>],
    [With("FC_MEMORY" :> "") EXCEPT !.libs = <<[addr |-> 50, name |-> ""], Lib(1), Lib(2)>>],
    [Plain EXCEPT !.libs = <<Lib(1), Lib(2), Lib(3), Lib(4)>>] }

(* clocks, and more than one context *)
Times ==
  { [With("FC_TIME_MODE" :> mode) EXCEPT !.work = 2, !.steps = {0, 1, 14}] :
      mode \in {"ext", "sys", "fast"} }
  \cup { [With("FC_ALLOW_THREAD" :> "") EXCEPT !.work = 2, !.steps = {1, 14}] }

(* what is saved *)
Saves ==
  { [With("FC_ALLOW_THREAD" :> "" @@ "FC_USE_PID" :> "" @@ "FC_MEMORY" :> ""
            @@ "FC_MEMORY_STACK" :> "9") EXCEPT
       !.build.thread = FALSE, !.work = 1, !.contents = {NoCalls, Wide, Full, Huge}],
    [With("FC_MEMORY" :> "") EXCEPT !.build.memory = FALSE, !.contents = {Full}] }

(* a ring of five places that is filled *)
Rings == { [With("FC_BUFFER_SIZE" :> "5") EXCEPT !.work = 5] }

MCScenarios == Resources \cup Sizes \cup Libraries \cup Times \cup Saves \cup Rings
=============================================================================

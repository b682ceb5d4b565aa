----------------------------- MODULE FcProfile -----------------------------
(***************************************************************************)
(* The manager's main loop (fcmanager/main.c) with its contexts            *)
(* (fc_context.c), fed by a profiled program: processes (SINGLE and FORK   *)
(* modes) or threads (THREAD mode) that enter and leave functions, fork,   *)
(* create threads and quit.                                                *)
(*                                                                         *)
(* The FIFO delivers the events of the program in the order they are sent  *)
(* (FcStream): an event and what the manager does of it are one step.      *)
(* What the program really does is kept beside what the manager computes   *)
(* from its events.                                                        *)
(***************************************************************************)
EXTENDS FcFunctions

CONSTANTS
  Ids,        \* identifiers of processes or threads
  Root,       \* the first one
  Funcs,      \* addresses of the program's functions
  Sites,      \* addresses they are called from
  Modes,      \* of FC_MODE_SINGLE, FC_MODE_FORK and FC_MODE_THREAD
  StartTime,  \* init.start_time
  Garbage,    \* what the uninitialized vtime of main may hold
  MaxEvents   \* bound: events and jumps of the program

ASSUME ProfileAssumption ==
  /\ Root \in Ids /\ 0 \notin Ids
  /\ Modes \subseteq {"SINGLE", "FORK", "THREAD"}
  /\ Funcs \subseteq Nat \ {NULL} /\ Sites \subseteq Nat \ {NULL}
  /\ StartTime \in Nat /\ Garbage \subseteq Nat /\ Garbage # {}
  /\ MaxEvents \in Nat

VARIABLES
  mode,       \* init.mode, the same for the program and the manager
  \* the program: state of each process or thread, its frames, who has forked
  \* it or creates it just now, the events so far, the time
  alive, frames, parent, events, clock,
  \* the manager: vtime, fc_context_list (identifiers), fc_current_context_id,
  \* the contexts, what main is doing and the context that it flushes
  vtime, list, current, ctx, phase, flushed,
  \* history: the time of the last enter or exit, the time each function was
  \* running and the time it was among the frames, per process or thread;
  \* its frames when it was created, and whether it has left functions
  \* without an exit
  seen, self, during, depth, jumped

program == <<mode, alive, frames, parent>>
history == <<seen, self, during, depth, jumped>>
vars == <<mode, alive, frames, parent, events, clock, vtime, list, current, ctx,
          phase, flushed, seen, self, during, depth, jumped>>

(* an identifier that has no context yet *)
NoContext == EmptyContext(0)

(* main, up to the loop: the first context is created at the start time *)
Init ==
  /\ mode \in Modes
  /\ alive = [c \in Ids |-> IF c = Root THEN "run" ELSE "unborn"]
  /\ frames = [c \in Ids |-> <<>>]
  /\ parent = [c \in Ids |-> 0]
  /\ events = 0
  /\ clock = StartTime
  /\ vtime \in Garbage
  /\ list = <<Root>> /\ current = Root
  /\ ctx = [c \in Ids |-> IF c = Root THEN EmptyContext(StartTime) ELSE NoContext]
  /\ phase = "read" /\ flushed = 1
  /\ seen = [c \in Ids |-> 0]
  /\ self = [c \in Ids |-> [f \in Funcs |-> 0]]
  /\ during = [c \in Ids |-> [f \in Funcs |-> 0]]
  /\ depth = [c \in Ids |-> 0]
  /\ jumped = [c \in Ids |-> FALSE]

------------------------------------------------------------------------------
(* The manager's side of an event *)

Known(c) == \E k \in 1 .. Len(list) : list[k] = c

(* a bug: the list of contexts is not searched *)
ContextSet_Fresh(c, time) ==
  IF mode = "FORK" THEN ForkedContext(time) ELSE EmptyContext(time)

(* fc_context_set(c, time): the context, created if there is none, and the *)
(* new list; the caller makes it the current one                           *)
ContextSet(c, time) ==
  IF Known(c) THEN ctx[c]
  ELSE IF mode = "FORK" THEN ForkedContext(time) ELSE EmptyContext(time)

Register(c) == list' = IF Known(c) THEN list ELSE Append(list, c)

(* An event of c other than FORK, THREAD and QUIT: fc_context_set, then    *)
(* the last time.  The test for a time that loops comes after the          *)
(* assignment it should precede, and never succeeds: time_pad stays 0.     *)
Received(c, time) == [ContextSet(c, time) EXCEPT !.last_time = time]

(* a bug: the context that was current gets the event *)
Treat_WrongContext(c, to) ==
  /\ Register(c)
  /\ current' = c
  /\ ctx' = [ctx EXCEPT ![current] = to]

(* the context of c becomes "to" and the current one *)
Treat(c, to) ==
  /\ Register(c)
  /\ current' = c
  /\ ctx' = [ctx EXCEPT ![c] = to]

------------------------------------------------------------------------------
(* The program's side *)

Step(c) == phase = "read" /\ alive[c] = "run" /\ events < MaxEvents /\ events' = events + 1

(* the clock is read; an event of another type leaves vtime as it was *)
Tick == clock' = clock + 1 /\ vtime' = clock'

OnStack(c) == {frames[c][k].fn : k \in 1 .. Len(frames[c])}

(* the time since the last enter or exit goes to the functions of c *)
Account(c) ==
  LET spent == clock' - seen[c] IN
  /\ seen' = [seen EXCEPT ![c] = clock']
  /\ during' = [during EXCEPT ![c] = [f \in Funcs |->
                  IF f \in OnStack(c) THEN @[f] + spent ELSE @[f]]]
  /\ self' = [self EXCEPT ![c] = [f \in Funcs |->
                  IF frames[c] # <<>> /\ Top(frames[c]).fn = f THEN @[f] + spent ELSE @[f]]]
  /\ UNCHANGED <<depth, jumped>>

(* __cyg_profile_func_enter: ENTER.  A table that is full ends the manager. *)
EnterFunction(c, f, s) ==
  /\ Step(c) /\ Tick /\ Account(c)
  /\ frames' = [frames EXCEPT ![c] = Append(@, [fn |-> f, site |-> s, by |-> c])]
  /\ LET set == Received(c, clock') IN
     IF Find(set.table, f) = NoSlot /\ TooManyFunctions(set.nb)
       THEN phase' = "fatal" /\ UNCHANGED <<list, current, ctx>>
       ELSE Treat(c, Enter(set, f, s, clock')) /\ UNCHANGED phase
  /\ UNCHANGED <<mode, alive, parent, flushed>>

(* __cyg_profile_func_exit: EXIT.  The arc is counted first. *)
ExitFunction(c) ==
  /\ Step(c) /\ Tick /\ Account(c)
  /\ frames[c] # <<>>
  /\ frames' = [frames EXCEPT ![c] = SubSeq(@, 1, Len(@) - 1)]
  /\ LET fn == Top(frames[c]).fn
         site == Top(frames[c]).site
         set == Received(c, clock')
     IN  Treat(c, Exit([set EXCEPT !.graph = GraphAdd(@, site, fn)], fn, site, clock'))
  /\ UNCHANGED <<mode, alive, parent, phase, flushed>>

(* MALLOC, FREE, REALLOC, MEMALIGN, DLOPEN, DLCLOSE, DLSYM: no time. What  *)
(* main does of the first four is FcMemory; the others are not treated.    *)
OtherEvent(c) ==
  /\ Step(c) /\ UNCHANGED <<clock, vtime, history>>
  /\ Treat(c, Received(c, vtime))
  /\ UNCHANGED <<program, phase, flushed>>

(* longjmp, or an exception: the frames left are not announced *)
Jump(c) ==
  /\ Step(c) /\ frames[c] # <<>>
  /\ \E n \in 0 .. Len(frames[c]) - 1 : frames' = [frames EXCEPT ![c] = SubSeq(@, 1, n)]
  /\ jumped' = [jumped EXCEPT ![c] = TRUE]
  /\ UNCHANGED <<mode, alive, parent, clock, vtime, list, current, ctx, phase,
                 flushed, seen, self, during, depth>>

(* fork: the child has its parent's frames, and sends PARENT, without the  *)
(* time, before anything else; the parent sends nothing                    *)
Fork(p, c) ==
  /\ mode = "FORK" /\ Step(p) /\ alive[c] = "unborn"
  /\ clock' = clock + 1
  /\ alive' = [alive EXCEPT ![c] = "forked"]
  /\ frames' = [frames EXCEPT ![c] = frames[p]]
  /\ parent' = [parent EXCEPT ![c] = p]
  /\ depth' = [depth EXCEPT ![c] = Len(frames[p])]
  /\ UNCHANGED <<mode, vtime, list, current, ctx, phase, flushed, seen, self, during,
                 jumped>>

ParentEvent(c) ==
  /\ phase = "read" /\ alive[c] = "forked"
  /\ alive' = [alive EXCEPT ![c] = "run"]
  /\ UNCHANGED <<mode, frames, parent, events, clock, vtime, phase, flushed, history>>
  /\ Treat(c, [Received(c, vtime) EXCEPT !.pid = parent[c]])

(* pthread_create: the new thread runs before, or after, THREAD is sent; a *)
(* thread that is over has given its identifier back                       *)
CreateThread(p, c) ==
  /\ mode = "THREAD" /\ Step(p) /\ alive[c] \in {"unborn", "over"}
  /\ parent[c] = 0
  /\ clock' = clock + 1
  /\ alive' = [alive EXCEPT ![p] = "creating", ![c] = "run"]
  /\ frames' = [frames EXCEPT ![c] = <<>>]
  /\ parent' = [parent EXCEPT ![c] = p]
  /\ UNCHANGED <<mode, vtime, list, current, ctx, phase, flushed, history>>

(* fc_context_set for the new thread, and nothing else *)
ThreadEvent(c) ==
  /\ mode = "THREAD" /\ phase = "read" /\ parent[c] # 0
  /\ Tick
  /\ alive' = [alive EXCEPT ![parent[c]] = "run"]
  /\ parent' = [parent EXCEPT ![c] = 0]
  /\ Treat(c, ContextSet(c, clock'))
  /\ UNCHANGED <<mode, frames, events, phase, flushed, history>>

(* a return from the start routine, or pthread_exit inside its functions *)
ThreadEnds(c) ==
  /\ mode = "THREAD" /\ c # Root /\ phase = "read" /\ alive[c] = "run"
  /\ alive' = [alive EXCEPT ![c] = "over"]
  /\ jumped' = [jumped EXCEPT ![c] = @ \/ frames[c] # <<>>]
  /\ UNCHANGED <<mode, frames, parent, events, clock, vtime, list, current, ctx, phase,
                 flushed, seen, self, during, depth>>

(* _fini: QUIT, whose time is read into vtime and goes nowhere else *)
Quit(c) ==
  /\ phase = "read" /\ alive[c] = "run"
  /\ mode = "THREAD" => c = Root /\ \A d \in Ids \ {c} : alive[d] \in {"unborn", "over"}
  /\ Tick
  /\ alive' = [alive EXCEPT ![c] = "over"]
  /\ Treat(c, ContextSet(c, clock'))
  /\ UNCHANGED <<mode, frames, parent, events, phase, flushed, history>>

------------------------------------------------------------------------------
(* fc_mcom_read returns 0: all clients are over *)
EndOfStream ==
  /\ phase = "read" /\ \A c \in Ids : alive[c] \in {"unborn", "over"}
  /\ phase' = "flush" /\ current' = list[1]
  /\ UNCHANGED <<program, events, clock, vtime, list, ctx, flushed, history>>

(* an exit for what is left of the stack of the context being flushed *)
FlushFunction ==
  /\ phase = "flush" /\ flushed <= Len(list)
  /\ LET set == ctx[current]
         top == Top(set.stack)
         symbol == set.table[top.function].symbol
     IN  /\ set.stack # <<>>
         /\ ctx' = [ctx EXCEPT ![current] =
              IF symbol = NULL THEN [set EXCEPT !.stack = Pop(@)]
              ELSE Exit([set EXCEPT !.graph = GraphAdd(@, top.call_site, symbol)],
                        symbol, NULL, set.last_time)]
  /\ UNCHANGED <<program, events, clock, vtime, list, current, phase, flushed, history>>

(* a bug: one function of each context stays *)
FlushNext_Early ==
  /\ phase = "flush" /\ flushed <= Len(list) /\ Len(ctx[current].stack) <= 1
  /\ flushed' = flushed + 1
  /\ current' = IF flushed' <= Len(list) THEN list[flushed'] ELSE current
  /\ UNCHANGED <<program, events, clock, vtime, list, ctx, phase, history>>

FlushNext ==
  /\ phase = "flush" /\ flushed <= Len(list) /\ ctx[current].stack = <<>>
  /\ flushed' = flushed + 1
  /\ current' = IF flushed' <= Len(list) THEN list[flushed'] ELSE current
  /\ UNCHANGED <<program, events, clock, vtime, list, ctx, phase, history>>

(* fc_context_save_all *)
SaveAll ==
  /\ phase = "flush" /\ flushed > Len(list)
  /\ phase' = "saved"
  /\ UNCHANGED <<program, events, clock, vtime, list, current, ctx, flushed, history>>

Flush == EndOfStream \/ FlushFunction \/ FlushNext \/ SaveAll

Next ==
  \/ \E c \in Ids, f \in Funcs, s \in Sites : EnterFunction(c, f, s)
  \/ \E c \in Ids : ExitFunction(c) \/ OtherEvent(c) \/ Jump(c) \/ ThreadEnds(c) \/ Quit(c)
  \/ \E c \in Ids : ParentEvent(c) \/ ThreadEvent(c)
  \/ \E p, c \in Ids : Fork(p, c) \/ CreateThread(p, c)
  \/ Flush

Spec == Init /\ [][Next]_vars

(* the manager goes on once the stream has ended *)
FairSpec == Spec /\ WF_vars(Flush)

------------------------------------------------------------------------------
Times == 0 .. U64 - 1

TypeOK ==
  /\ alive \in [Ids -> {"unborn", "forked", "run", "creating", "over"}]
  /\ vtime \in Nat /\ current \in Ids
  /\ \A k \in 1 .. Len(list) : list[k] \in Ids
  /\ \A c \in Ids :
       /\ \A k \in 1 .. Len(ctx[c].stack) :
            ctx[c].stack[k].function \in Slots /\ ctx[c].stack[k].time \in Nat
       /\ \A s \in Slots : /\ ctx[c].table[s].local_time \in Times
                          /\ ctx[c].table[s].total_time \in Times
                          /\ ctx[c].table[s].recursive_state \in Nat

Entries(c, f) == {s \in Slots : ctx[c].table[s].symbol = f}
Occurrences(c, s) ==
  {k \in 1 .. Len(ctx[c].stack) : ctx[c].stack[k].function = s}
Reading(c) == phase = "read" /\ Known(c)

(* recursive_state, "number of time in the stack", decides which exit adds *)
(* to the total time; it stays right whatever exits are missing or ignored *)
(* (longjmp, a child that leaves functions it never entered).              *)
OccurrencesCounted ==
  TypeOK /\ \A c \in Ids : Known(c) => \A s \in Slots :
    phase = "read" \/ ctx[c].table[s].symbol # NULL =>
      ctx[c].table[s].recursive_state = Cardinality(Occurrences(c, s))

(* The manager's stack follows the program's: the functions that a process *)
(* or thread has entered are on top of it, with their call sites, also     *)
(* when its identifier was used before or it was forked deep in calls.     *)
StackFollows ==
  \A c \in Ids : Reading(c) /\ ~jumped[c] =>
    \A k \in 1 .. Len(frames[c]) : frames[c][k].by = c =>
      LET n == Len(ctx[c].stack) - Len(frames[c]) + k
          entry == ctx[c].stack[n]
      IN  /\ n >= 1
          /\ ctx[c].table[entry.function].symbol = frames[c][k].fn
          /\ entry.call_site = frames[c][k].site

(* Arcs are counted at the exits, calls at the enters: the two agree for   *)
(* every function, up to the calls on the stack, and in the saved profile. *)
(* Exits from more than NbFaked inherited functions are the exception.     *)
ArcsCountCalls ==
  \A c \in Ids : ~jumped[c] /\ depth[c] <= NbFaked => \A f \in Funcs :
    SumFunctionOnSet(ctx[c].graph, {arc \in DOMAIN ctx[c].graph : arc[2] = f})
      + Cardinality({k \in 1 .. Len(ctx[c].stack) :
                       ctx[c].table[ctx[c].stack[k].function].symbol = f})
    = SumFunctionOnSet([s \in Slots |-> ctx[c].table[s].calls], Entries(c, f))

(* the times are compared while the program runs, and after it when it has *)
(* left all its functions; a forked process starts with unknown functions  *)
Forked(c) == mode = "FORK" /\ c # Root
Comparable(c) == ~jumped[c] /\ ~Forked(c) /\ (phase = "read" \/ frames[c] = <<>>)

(* "correct local time calculation for recursive functions" (TODO): the    *)
(* local time of a function is the time it was the one running, however    *)
(* calls, recursive or not, cut it into pieces.                            *)
LocalTimeExact ==
  \A c \in Ids : Comparable(c) => \A f \in Funcs :
    SumFunctionOnSet([s \in Slots |-> ctx[c].table[s].local_time
                       + (IF ctx[c].table[s].recursive_state > 0
                            THEN ctx[c].table[s].temp_ltime ELSE 0)], Entries(c, f))
    = self[c][f]

(* The total time of a function is the time it was anywhere on the stack,  *)
(* counted once in a recursion (fc_functions_exit's NOTE).                 *)
TotalTimeExact ==
  \A c \in Ids : Comparable(c) => \A f \in Funcs :
    SumFunctionOnSet([s \in Slots |-> ctx[c].table[s].total_time
                       + (IF Occurrences(c, s) # {}
                            THEN seen[c] - ctx[c].stack[Min(Occurrences(c, s))].time
                            ELSE 0)], Entries(c, f))
    = during[c][f]

(* "1st check if the function exists" (fc_functions_enter): a function has *)
(* one entry, where all its calls are counted, but in a forked process,    *)
(* whose unknown functions get their names one by one.                     *)
OneEntryPerFunction ==
  \A c \in Ids : ~Forked(c) =>
    \A f \in Funcs : Cardinality(Entries(c, f)) <= 1

(* Once the stream has ended the profile is saved: no stack, whatever is   *)
(* on it, makes the flush ignore an exit and come back to it for ever.     *)
(* And "all remaining functions are treated as if they exit now"           *)
(* (main.c): whatever was left by longjmp, pthread_exit or exit, the saved *)
(* profile has no function that is still running.                          *)
FlushEnds ==
  phase = "flush" ~>
    /\ phase = "saved"
    /\ \A c \in Ids :
         /\ ctx[c].stack = <<>>
         /\ \A s \in Slots : ctx[c].table[s].symbol # NULL =>
              ctx[c].table[s].recursive_state = 0
=============================================================================

----------------------------- MODULE FcSession -----------------------------
(***************************************************************************)
(* A whole session, from _init of the profiled program to fcdump: the      *)
(* parameters are read, the segment is created, the INIT record and the    *)
(* libraries are written into it, the manager is started and takes them    *)
(* over, events come with their times, contexts are saved, and fcdump      *)
(* reads a file.  Every step that may fail does (shmget, fork, execvp,     *)
(* shmat, fopen), and the manager may be killed, also while it saves.      *)
(*                                                                         *)
(* The ring is a queue here (FcFifo has its steps), and what a context has *)
(* counted is any of the contents given (FcProfile and FcMemory have how). *)
(***************************************************************************)
EXTENDS FcConfig, FcFile

CONSTANTS
  Scenarios,  \* records: env; rc, the resource file; build, how libfc was
              \* compiled; libs, the libraries; work, a bound on the events;
              \* steps, by how much the clock may move between two looks;
              \* contents, what a context may have to save
  MaxLdyn,    \* MAX_LDYN, 256 in the code
  FirstNow    \* the clock when the program starts

ASSUME SessionAssumption ==
  /\ MaxLdyn \in Nat \ {0} /\ FirstNow \in Nat
  /\ \A s \in Scenarios :
       /\ s.work \in Nat /\ s.steps \subseteq Nat
       /\ s.env \in [DOMAIN s.env -> STRING]
       /\ s.rc \in [lines : Seq(Seq(STRING)), newline : BOOLEAN, junk : STRING]
       /\ s.libs \in Seq([addr : Nat, name : STRING])
       \* the loader puts no two of them at one address
       /\ \A i, j \in DOMAIN s.libs :
            s.libs[i].addr = s.libs[j].addr /\ s.libs[i].addr # NULL => i = j

VARIABLES
  scn,        \* the scenario
  now,        \* the clock
  ppc,        \* where the program is
  conf,       \* its parameters, with the mode, the timer and its origin
  written,    \* libraries that dl_iterate_phdr has shown
  sent,       \* events sent
  seg,        \* the shared segment, or NoSegment
  cpc,        \* where the child that becomes the manager is
  mng,        \* what the manager knows
  saved,      \* contexts saved
  disk,       \* the files, by name
  cut,        \* history: the file that the manager was killed in, if any
  descriptor, \* the .fcd file
  dumped      \* what fcdump has read

progVars == <<ppc, conf, written, sent>>
mngVars == <<cpc, mng, saved>>
fileVars == <<disk, cut, descriptor, dumped>>
vars == <<scn, now, progVars, seg, mngVars, fileVars>>

NoSegment == [ref |-> -1]
NoLib == [addr |-> NULL, name |-> ""]
NoInit == [mode |-> "none"]
Nothing == <<>>

Init ==
  /\ scn \in Scenarios /\ now = FirstNow
  /\ ppc = "start" /\ conf = Nothing /\ written = 0 /\ sent = 0
  /\ seg = NoSegment
  /\ cpc = "none" /\ mng = Nothing /\ saved = 0
  /\ disk = Nothing /\ cut = Nothing /\ descriptor = Nothing /\ dumped = Nothing

------------------------------------------------------------------------------
(* _init *)

Clock == \E d \in scn.steps : now' = now + d

(* fc_read_ressources, fc_read_env, help, mode, fc_set_time_type,          *)
(* fc_init_time                                                            *)
Configure ==
  /\ ppc = "start"
  /\ LET c == ReadEnv(ReadRessources(scn.env, scn.rc)) IN
       /\ ppc' = IF c.give_help THEN "exit" ELSE "create"
       /\ \E max_clock \in IF TimeType(c.time_mode) = "CPU" THEN MaxClocks ELSE {0} :
            conf' = [params |-> c, mode |-> Mode(c, scn.build), tmode |-> TimeType(c.time_mode),
                     first |-> now, max_clock |-> max_clock]
  /\ UNCHANGED <<scn, now, written, sent, seg, mngVars, fileVars>>

(* fc_com_init, fc_fifo_create: 4 elements or less are 32 K; the size is   *)
(* unsigned, so that a negative one cannot be had                          *)
CreateFifo ==
  /\ ppc = "create" /\ ppc' = "init"
  /\ conf.params.buffer_size >= 0
  /\ seg' = [init |-> NoInit, ldyn |-> [i \in 1 .. MaxLdyn |-> NoLib], lastLdyn |-> 1,
             queue |-> <<>>, ref |-> 1,
             numEntry |-> IF conf.params.buffer_size <= 4 THEN 32 * 1024
                          ELSE conf.params.buffer_size]
  /\ UNCHANGED <<scn, now, conf, written, sent, mngVars, fileVars>>

(* shmget or shmat fails; _init does not look at the result *)
CreateFails ==
  /\ ppc = "create" /\ ppc' = "init"
  /\ UNCHANGED <<scn, now, conf, written, sent, seg, mngVars, fileVars>>

(* build.memory is that fc_no_memory_hard is not set; first_pid is the     *)
(* process, or in THREAD mode the thread                                   *)
InitRecord(time) ==
  LET c == conf.params IN
  [function_size |-> CheckPower(c.function_size), stack_size |-> c.stack_size,
   graph_size |-> c.graph_size, memory_size |-> c.memory_size,
   use_pid |-> c.use_pid, mode |-> conf.mode, time_mode |-> conf.tmode,
   memory |-> IF scn.build.memory /\ c.use_memory THEN c.memory_stack ELSE -1,
   start_time |-> time, dump_name |-> c.dump_name, dump_path |-> c.dump_path,
   follow |-> TRUE, first_pid |-> 1]

(* fc_com_write_init on a FIFO that is NULL ends the program *)
WriteInit ==
  /\ ppc = "init" /\ Clock
  /\ IF seg = NoSegment THEN ppc' = "crashed" /\ UNCHANGED seg
     ELSE /\ ppc' = "libs"
          /\ seg' = [seg EXCEPT !.init = InitRecord(Stamp(conf, now'))]
  /\ UNCHANGED <<scn, conf, written, sent, mngVars, fileVars>>

(* a bug: the last slot is used too *)
WriteLdyn_All(ldyn, lib) ==
  LET free == {i \in 1 .. MaxLdyn : ldyn[i] = NoLib}
  IN  IF free = {} THEN ldyn ELSE [ldyn EXCEPT ![Min(free)] = lib]

(* fc_fifo_write_ldyn: the first free slot, the last one excepted *)
WriteLdyn(ldyn, lib) ==
  LET free == {i \in 1 .. MaxLdyn - 1 : ldyn[i] = NoLib}
  IN  IF free = {} THEN ldyn ELSE [ldyn EXCEPT ![Min(free)] = lib]

(* dl_phdr_callback: what lies at address 0 (a program that cannot move)   *)
(* is left out                                                             *)
WriteLib ==
  /\ ppc = "libs" /\ written < Len(scn.libs)
  /\ written' = written + 1
  /\ LET lib == scn.libs[written'] IN
       seg' = IF lib.addr = NULL THEN seg ELSE [seg EXCEPT !.ldyn = WriteLdyn(@, lib)]
  /\ UNCHANGED <<scn, now, ppc, conf, sent, mngVars, fileVars>>

(* the mark at the end of the list *)
EndLibs ==
  /\ ppc = "libs" /\ written = Len(scn.libs) /\ ppc' = "fork"
  /\ seg' = [seg EXCEPT !.ldyn = WriteLdyn(@, NoLib)]
  /\ UNCHANGED <<scn, now, conf, written, sent, mngVars, fileVars>>

(* fc_com_start_manager *)
StartManager ==
  /\ ppc = "fork" /\ ppc' = "run" /\ cpc' = "exec"
  /\ UNCHANGED <<scn, now, conf, written, sent, seg, mng, saved, fileVars>>

ForkFails ==
  /\ ppc = "fork" /\ ppc' = "exit"
  /\ UNCHANGED <<scn, now, conf, written, sent, seg, mngVars, fileVars>>

------------------------------------------------------------------------------
(* the program runs, and _fini *)

(* a bug: a full ring is waited for even if nobody is there to empty it *)
CanPut_Waits == Len(seg.queue) < seg.numEntry

(* fc_fifo_write_single, as FcFifo has it: a full ring drops the event     *)
(* when nobody else is attached, and is waited for otherwise               *)
CanPut == Len(seg.queue) < seg.numEntry \/ seg.ref <= 1
Put(event) ==
  IF Len(seg.queue) < seg.numEntry THEN [seg EXCEPT !.queue = Append(@, event)] ELSE seg

(* elapsed is history: the time that the stamp should be *)
Event(type, id, time) ==
  [type |-> type, id |-> id, time |-> Stamp(conf, time),
   elapsed |-> time - conf.first]

Send ==
  /\ ppc = "run" /\ sent < scn.work
  /\ CanPut /\ Clock
  /\ \E id \in IF conf.mode = "SINGLE" THEN {1} ELSE {1, 2} : seg' = Put(Event("enter", id, now'))
  /\ sent' = sent + 1
  /\ UNCHANGED <<scn, ppc, conf, written, mngVars, fileVars>>

Exit ==
  /\ ppc = "run" /\ ppc' = "exit"
  /\ UNCHANGED <<scn, now, conf, written, sent, seg, mngVars, fileVars>>

(* fc_com_quit; there is no FIFO when help was asked for *)
Quit ==
  /\ ppc = "exit"
  /\ IF seg = NoSegment THEN ppc' = "crashed" /\ UNCHANGED <<seg, now>>
     ELSE CanPut /\ Clock /\ ppc' = "close" /\ seg' = Put(Event("quit", 1, now'))
  /\ UNCHANGED <<scn, conf, written, sent, mngVars, fileVars>>

Unref == [seg EXCEPT !.ref = IF @ = 0 THEN 0 ELSE @ - 1]

(* fc_com_fini *)
Close ==
  /\ ppc = "close" /\ ppc' = "ended"
  /\ seg' = Unref
  /\ UNCHANGED <<scn, now, conf, written, sent, mngVars, fileVars>>

------------------------------------------------------------------------------
(* the child: execvp, or what it does when that fails *)

Exec ==
  /\ cpc = "exec" /\ cpc' = "connect"
  /\ UNCHANGED <<scn, now, progVars, seg, mng, saved, fileVars>>

(* fc_message_fatal exits, and a copy of the program goes through _fini *)
ExecFails ==
  /\ cpc = "exec" /\ cpc' = "quit"
  /\ UNCHANGED <<scn, now, progVars, seg, mng, saved, fileVars>>

ChildQuit ==
  /\ cpc = "quit" /\ cpc' = "leave"
  /\ CanPut /\ seg' = Put(Event("quit", 3, now))
  /\ UNCHANGED <<scn, now, progVars, mng, saved, fileVars>>

ChildClose ==
  /\ cpc = "leave" /\ cpc' = "gone"
  /\ seg' = Unref
  /\ UNCHANGED <<scn, now, progVars, mng, saved, fileVars>>

------------------------------------------------------------------------------
(* the manager *)

(* fc_mcom_init *)
Connect ==
  /\ cpc = "connect" /\ cpc' = "params"
  /\ seg' = [seg EXCEPT !.ref = @ + 1]
  /\ UNCHANGED <<scn, now, progVars, mng, saved, fileVars>>

(* main does not look at its result, and goes on with a FIFO that is NULL *)
ConnectFails ==
  /\ cpc = "connect" /\ cpc' = "crashed"
  /\ UNCHANGED <<scn, now, progVars, seg, mng, saved, fileVars>>

(* the INIT record and the values main sets from it *)
ReadInit ==
  /\ cpc = "params" /\ cpc' = "libs"
  /\ mng' = [params |-> seg.init, ldyn |-> <<>>, contexts |-> <<>>,
             unique_id |-> "unique", stack_size |-> StackSize(seg.init.memory),
             pmode |-> CASE seg.init.mode = "SINGLE" -> 1
                         [] seg.init.mode = "FORK" -> 2
                         [] OTHER -> 3]
  /\ UNCHANGED <<scn, now, progVars, seg, saved, fileVars>>

(* fc_ldyn_add *)
LdynAdd(list, lib) == IF \E i \in DOMAIN list : list[i].addr = lib.addr THEN list
                      ELSE Append(list, lib)

(* fc_fifo_read_ldyn: up to the first slot that is empty *)
ReadLib ==
  /\ cpc = "libs"
  /\ LET lib == seg.ldyn[seg.lastLdyn] IN
       IF lib = NoLib THEN cpc' = "context" /\ UNCHANGED <<seg, mng>>
       ELSE /\ seg' = [seg EXCEPT !.lastLdyn = @ + 1]
            /\ mng' = [mng EXCEPT !.ldyn = LdynAdd(@, lib)]
            /\ UNCHANGED cpc
  /\ UNCHANGED <<scn, now, progVars, saved, fileVars>>

(* fc_context_create: the first time is an unsigned int.  opened is        *)
(* history: that time as it was.                                           *)
Context(id, time) ==
  [id |-> id, pid |-> 0, first_time |-> time % U32, last_time |-> time % U32, opened |-> time]

(* fc_context_set *)
ContextSet(contexts, id, time) ==
  IF \E i \in DOMAIN contexts : contexts[i].id = id THEN contexts
  ELSE Append(contexts, Context(id, time))

FirstContext ==
  /\ cpc = "context" /\ cpc' = "read"
  /\ mng' = [mng EXCEPT !.contexts = ContextSet(@, mng.params.first_pid, mng.params.start_time)]
  /\ UNCHANGED <<scn, now, progVars, seg, saved, fileVars>>

(* fc_mcom_read and main: in SINGLE mode an event has no id *)
ReadEvent ==
  /\ cpc = "read" /\ seg.queue # <<>>
  /\ LET event == Head(seg.queue)
         id == IF mng.params.mode = "SINGLE" THEN mng.params.first_pid ELSE event.id
         set == ContextSet(mng.contexts, id, event.time)
         at == CHOOSE i \in DOMAIN set : set[i].id = id
     IN  mng' = [mng EXCEPT !.contexts =
                   IF event.type = "quit" THEN set
                   ELSE [set EXCEPT ![at].last_time = event.time]]
  /\ seg' = [seg EXCEPT !.queue = Tail(@)]
  /\ UNCHANGED <<scn, now, progVars, cpc, saved, fileVars>>

EndOfStream ==
  /\ cpc = "read" /\ cpc' = "save"
  /\ seg.queue = <<>> /\ seg.ref <= 1
  /\ UNCHANGED <<scn, now, progVars, seg, mng, saved, fileVars>>

(* fc_context_getname, with and without the pid *)
GetName(ctx) ==
  [path |-> mng.params.dump_path, name |-> mng.params.dump_name,
   pid |-> IF mng.params.use_pid THEN "pid" ELSE "",
   id |-> IF Len(mng.contexts) = 1 THEN 0 ELSE ctx.id]

(* What the context has counted when the stream ends.  Blocks are known    *)
(* only when memory is profiled, with the top of the stack they have.      *)
Filled(ctx, content) ==
  content @@ ctx @@
    [memory |-> IF mng.params.memory < 0 THEN <<>>
                ELSE [i \in DOMAIN content.blocks |->
                        [stack |-> TopStack(content.blocks[i].sites, mng.stack_size)]
                          @@ content.blocks[i]]]

(* fopen with "w": what a file of that name held is gone *)
Write(name, file) ==
  disk' = [n \in DOMAIN disk \cup {name} |-> IF n = name THEN file ELSE disk[n]]

(* fc_context_save, when the file can be opened *)
SaveContext ==
  /\ cpc = "save" /\ saved < Len(mng.contexts)
  /\ saved' = saved + 1
  /\ \E content \in scn.contents :
       LET ctx == Filled(mng.contexts[saved'], content) IN
         /\ mng' = [mng EXCEPT !.contexts[saved'] = ctx]
         /\ Write(GetName(ctx), [tokens |-> Save(ctx, mng), newline |-> TRUE])
  /\ UNCHANGED <<scn, now, progVars, seg, cpc, cut, descriptor, dumped>>

(* ... and when it cannot *)
SaveFails ==
  /\ cpc = "save" /\ saved < Len(mng.contexts)
  /\ saved' = saved + 1
  /\ UNCHANGED <<scn, now, progVars, seg, cpc, mng, fileVars>>

(* the manager is killed in the middle of a file *)
KilledInSave ==
  /\ cpc = "save" /\ saved < Len(mng.contexts) /\ cpc' = "killed"
  /\ saved' = saved + 1
  /\ \E content \in scn.contents, newline \in BOOLEAN :
       LET ctx == Filled(mng.contexts[saved'], content)
           tokens == Save(ctx, mng)
       IN  \E n \in 0 .. Len(tokens) :
             /\ newline => n < Len(tokens)
             /\ mng' = [mng EXCEPT !.contexts[saved'] = ctx]
             /\ cut' = GetName(ctx)
             /\ Write(GetName(ctx), [tokens |-> SubSeq(tokens, 1, n), newline |-> newline])
  /\ UNCHANGED <<scn, now, progVars, seg, descriptor, dumped>>

(* fc_context_save_all: the descriptor, if it can be opened, names all     *)
(* contexts                                                                *)
SaveDescriptor ==
  /\ cpc = "save" /\ saved = Len(mng.contexts) /\ cpc' = "close"
  /\ \/ UNCHANGED descriptor
     \/ /\ Len(mng.contexts) > 1
        /\ descriptor' = [i \in DOMAIN mng.contexts |->
                            [id |-> mng.contexts[i].id, parent |-> mng.contexts[i].pid,
                             file |-> GetName(mng.contexts[i])]]
  /\ UNCHANGED <<scn, now, progVars, seg, mng, saved, disk, cut, dumped>>

(* fc_mcom_fini; FcFifo has the removal of the segment *)
ManagerClose ==
  /\ cpc = "close" /\ cpc' = "ended"
  /\ seg' = Unref
  /\ UNCHANGED <<scn, now, progVars, mng, saved, fileVars>>

(* a signal, before the manager has anything to save *)
ManagerKilled ==
  /\ cpc \in {"params", "libs", "context", "read"} /\ cpc' = "killed"
  /\ UNCHANGED <<scn, now, progVars, seg, mng, saved, fileVars>>

------------------------------------------------------------------------------
(* fcdump on one of the files, or on the one that is not complete *)
Dump ==
  /\ cpc \in {"ended", "killed"} /\ dumped = Nothing
  /\ \E name \in DOMAIN disk : dumped' = [name |-> name, data |-> Read(disk[name])]
  /\ UNCHANGED <<scn, now, progVars, seg, mngVars, disk, cut, descriptor>>

Program ==
  \/ Configure \/ CreateFifo \/ CreateFails \/ WriteInit \/ WriteLib \/ EndLibs
  \/ StartManager \/ ForkFails \/ Send \/ Exit \/ Quit \/ Close
Child == Exec \/ ExecFails \/ ChildQuit \/ ChildClose
Receive == Connect \/ ConnectFails \/ ReadInit \/ ReadLib \/ FirstContext \/ ReadEvent \/ EndOfStream
Finish == SaveContext \/ SaveFails \/ SaveDescriptor \/ ManagerClose

Next == Program \/ Child \/ Receive \/ Finish \/ KilledInSave \/ ManagerKilled \/ Dump

Spec == Init /\ [][Next]_vars

(* the program and the child, up to the end of the stream, go on if they can *)
FairSpec == Spec /\ WF_vars(Program) /\ WF_vars(Child \/ Receive)

------------------------------------------------------------------------------
(* What the user has asked for, said at once: the last line of the         *)
(* resource file that is about a variable decides, else the environment.   *)
WellFormed(rc) == rc.newline /\ \A i \in DOMAIN rc.lines : Len(rc.lines[i]) = 2
About(rc, v) == {i \in DOMAIN rc.lines : rc.lines[i][1] = v}
Said(rc, v) == rc.lines[Max(About(rc, v))][2]
AskedEnv(env, rc) ==
  [v \in {v \in Variables : IF About(rc, v) # {} THEN Said(rc, v) # "!" ELSE v \in DOMAIN env} |->
     IF About(rc, v) # {} THEN Said(rc, v) ELSE env[v]]

HasParams == mng # Nothing

(* Whatever order the program and its manager run in, the manager works    *)
(* with the parameters that the user asked for, and takes events for what  *)
(* they are: its mode, on which the layout of an event depends, is that of *)
(* the program.                                                            *)
ParamsAgree ==
  HasParams =>
    /\ mng.params.mode = conf.mode
    /\ WellFormed(scn.rc) =>
         LET asked == ReadEnv(AskedEnv(scn.env, scn.rc)) IN
           /\ mng.params.dump_name = asked.dump_name
           /\ mng.params.dump_path = asked.dump_path
           /\ mng.params.use_pid = asked.use_pid
           /\ mng.params.memory >= 0 => asked.use_memory /\ mng.params.memory = asked.memory_stack
           /\ asked.use_memory /\ scn.build.memory => mng.params.memory = asked.memory_stack

(* fc_fhash_create: "size MUST be a power of 2 (not checked)".  The table  *)
(* of functions of every context has one, and has the room asked for as    *)
(* far as an int can hold the next power.                                  *)
TableIsPower ==
  HasParams =>
    LET size == IF mng.params.function_size > 0 THEN mng.params.function_size ELSE 512 IN
      /\ \E k \in 1 .. 30 : size = 2 ^ k
      /\ conf.params.function_size <= 2 ^ 30 =>
           /\ size >= conf.params.function_size
           /\ size > 2 => size \div 2 < conf.params.function_size

(* The manager has all libraries of the program that fit, in their order,  *)
(* when it opens its first context, and never reads past the table.        *)
Listed == {i \in DOMAIN scn.libs : scn.libs[i].addr # NULL}
Rank(i) == Cardinality({j \in Listed : j <= i})
LibrariesSeen ==
  /\ seg # NoSegment => seg.lastLdyn <= MaxLdyn
  /\ HasParams /\ cpc \in {"context", "read", "save", "close", "ended"} =>
       /\ Len(mng.ldyn) = Min({Cardinality(Listed), MaxLdyn - 1})
       /\ \A i \in Listed : Rank(i) \in DOMAIN mng.ldyn => mng.ldyn[Rank(i)] = scn.libs[i]

(* The time of an event is what has passed since the program started; with *)
(* the cpu clock, once that has moved and as long as 32 bits hold it.      *)
TimesExact ==
  seg # NoSegment =>
    \A i \in DOMAIN seg.queue :
      LET event == seg.queue[i] IN
        \/ event.time = event.elapsed
        \/ conf.tmode = "CPU" /\ (event.elapsed = 0 \/ event.elapsed + conf.first >= U32)

(* what the code can write and read back: libraries with a name, addresses *)
(* and first times of 32 bits, and no block of the size that stands for an *)
(* invalid call that was reallocated                                       *)
Regular(ctx) ==
  /\ \A i \in DOMAIN mng.ldyn : mng.ldyn[i].name # ""
  /\ \A i \in DOMAIN ctx.memory : ~(CountsAsRealloc(ctx.memory[i]) /\ WrittenAsFree(ctx.memory[i]))

DumpedContext == CHOOSE ctx \in Range(mng.contexts) : GetName(ctx) = dumped.name

(* fcdump shows of a complete file what the manager had of the context     *)
(* that the file is named for: its time, its calls, its functions, the     *)
(* libraries and the three lists of the memory; it refuses one without     *)
(* calls or functions.  The time mode ("the time unit used during          *)
(* profile", libfc.texi) is right with the tsc clock only, as the manager  *)
(* saves its own and not the program's.                                    *)
ReadBack ==
  dumped # Nothing /\ dumped.name # cut /\ Regular(DumpedContext) =>
    LET ctx == DumpedContext
        data == dumped.data
        functions == SelectSeq(ctx.functions, LAMBDA f : f.symbol # NULL)
        calls == {c \in Range(ctx.calls) : c[1] # NULL}
        times(c) == Cardinality({i \in DOMAIN ctx.calls : ctx.calls[i] = c})
        list(Test(_)) == SelectSeq(ctx.memory, Test)
        leaks == list(Leak)
        frees == list(CountsAsFree)
        reallocs == list(CountsAsRealloc)
        stack(el) == SavedStack(el, mng.stack_size)
    IN  /\ data.fatal <=> calls = {} \/ functions = <<>>
        /\ ~data.fatal =>
             /\ conf.tmode = "TSC" => data.general[1] = <<FC_MTIME[conf.tmode]>>
             /\ FlattenSeq(SubSeq(data.general, 2, 4)) = <<mng.pmode, ctx.id, ctx.pid>>
             /\ ctx.opened < U32 => data.general[5] = <<ctx.last_time - ctx.opened>>
             /\ (\A c \in calls : c[1] < Word /\ c[2] < Word) =>
                  /\ Range(data.arcs) = {<<c[1], c[2], times(c)>> : c \in calls}
                  /\ Len(data.arcs) = Cardinality(calls)
             /\ data.functions = [i \in DOMAIN functions |->
                                     <<functions[i].symbol, functions[i].calls, functions[i].times>>]
             /\ data.libs = [i \in DOMAIN mng.ldyn |-> <<mng.ldyn[i].addr, mng.ldyn[i].name>>]
             /\ data.leaks = [i \in DOMAIN leaks |->
                                 <<leaks[i].pointer, leaks[i].size, leaks[i].alloc_place,
                                   leaks[i].realloc_place, stack(leaks[i])>>]
             /\ data.frees = [i \in DOMAIN frees |->
                                 <<frees[i].alloc_place, frees[i].pointer, stack(frees[i])>>]
             /\ data.reallocs = [i \in DOMAIN reallocs |->
                                    <<reallocs[i].realloc_place, reallocs[i].pointer,
                                      stack(reallocs[i])>>]

(* A file that the manager could not finish is refused ("troncated"),      *)
(* unless all that is missing lies in the last list.                       *)
CutRefused ==
  dumped # Nothing /\ dumped.name = cut /\ Regular(DumpedContext) =>
    LET reallocs == SelectSeq(DumpedContext.memory, CountsAsRealloc)
        last == FlattenSeq([i \in DOMAIN reallocs |-> ReallocTokens(reallocs[i], mng.stack_size)])
        before == Len(Save(DumpedContext, mng)) - Len(last)
        file == disk[cut]
    IN  \/ dumped.data.fatal
        \/ Len(file.tokens) > before
        \/ Len(file.tokens) = before /\ file.newline

(* A profiled program comes to its end whatever fails when it starts: a    *)
(* manager that could not be started never makes it wait.  Only one that   *)
(* is killed while it is attached does, once the ring is full.             *)
Stuck == cpc = "killed" /\ seg.ref > 1 /\ Len(seg.queue) = seg.numEntry
ProgramEnds == ppc = "start" ~> (ppc \in {"ended", "crashed"} \/ Stuck)
=============================================================================

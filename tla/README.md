# TLA+ models of FunctionCheck

FunctionCheck is a profiler. A program compiled with `-finstrument-functions` is
linked with **libfc**, which sends an event for every enter and exit of a
function, for every call of `malloc` and its like, for `fork`, `exec`,
`pthread_create` and `exit`, through a ring in shared memory to a second process,
**fcmanager**. The manager keeps a context for each process or thread, computes
counts, call arcs, times and the state of the memory, and saves them when the
stream ends. **fcdump** reads the saved file, gives names to addresses and shows
listings, a call-graph or cycles.

This directory holds models of these parts, the TLC configurations that check
them on small instances, and proofs, checked by TLAPS, of the results that matter
most for the lock, the ring, the hooks, the profile, the hash-tables and the memory.
Paths below are relative to `src/src/`.

## 1. The system

| part | source | state | operations | met by |
|---|---|---|---|---|
| lock of the ring | `fcmanager/fc_semaphore.c` | table of pids, tickets, choosing flags, nesting count, in shared memory | get, put, registration of a process | writers and the reader of the ring |
| ring (FIFO) | `fcmanager/fc_fifo.c` | slots, two indices, `numData`, `refCount`, in shared memory | create, connect, close, read and write in two halves | libfc writes, fcmanager reads |
| sending of events | `fcmanager/fc_com.c`, `libfc/fc_check.c` | the mode, the pid, `fc_active` | enter, exit, fork, thread, exec, quit, memory events | the ring |
| reading of events | `fcmanager/fc_com_manager.c` | none | one event into the variables of main | the ring, main |
| main loop | `fcmanager/main.c` | `vtime`, the event's fields | one case for each type of event; flush; save | contexts |
| contexts | `fcmanager/fc_context.c` | list of contexts, the current one | search, create, set, loop, save | functions, arcs, memory |
| functions and times | `fcmanager/fc_functions.c` | entries with counts and times | enter, exit | table, stack, arcs |
| table of functions | `fcmanager/fc_hash.c` | open addressing | find, insert | functions |
| stack | `fcmanager/fc_stack.c` | functions entered and not left | push, pop, get | functions |
| call arcs | `fcmanager/fc_graph.c` | number of calls per call site and function | add | chained hash-table |
| chained hash-tables | `fcmanager/fc_xhash.c`, `fc_xlhash.c` | buckets, chains, blocks of nodes, free list | insert, modify, remove, lookup, foreach, re-hash | arcs, memory |
| memory in the manager | `fcmanager/fc_memory_manager.c` | list of elements, free list, hash-table | malloc, free, realloc, memalign events | contexts |
| malloc hooks | `libfc/fc_memory.c` | four hooks of the libc, the four old ones | install, the hooks, remove | the libc, sending |
| fcdump, graph | `fcdump/fc_dump.c`, `fc_graph.c` | functions, arcs, nodes | read, name, sort, remove duplicates, link, hide, display, cycles | the saved file |
| fcdump, names | `fcdump/fc_names.c` | symbols | find the function of an address | BFD (a library) |
| start | `libfc/fc_check.c` `_init`, `fc_com.c` `fc_com_init`, `fc_com_manager.c` `fc_mcom_init` | the INIT record, the list of libraries, in shared memory | make the segment, start the manager, hand over the parameters | the ring |
| timers | `fcmanager/fc_time.c` | the clock used, its first value | read the clock | sending |
| configuration | `libfc/fc_ressources.c` | the options of libfc | read the resource file and the environment | start |
| fcdump, command line | `fcdump/fc_dump.c` `main` | the options of fcdump | read | all of fcdump |
| saved file | `fcmanager/fc_context.c`, `fcdump/fc_dump.c` | text | write, read | contexts, fcdump |
| messages | `fc_tools.c` | none | print | all |

### What is hard in it

* **Shared memory between processes that know nothing of each other.** In SINGLE
  mode the ring has no lock at all: only `numData` is updated atomically, and
  each index is moved after it. In FORK and THREAD modes any number of processes
  write under a bakery lock, in which they register on their first use.
* **Nobody counts the processes.** `refCount` is changed by a plain `++` and `--`
  on both sides, children are not in it, and it decides between "wait" and "end
  of stream".
* **Death.** A profiled program is often one that crashes; `_fini`, which closes
  the ring, does not run then, and a process may die with the lock, a slot or a
  half written file in its hands.
* **A start that fails half-way.** The segment, the fork, the exec and the attach
  of the manager may each fail, and most results are not looked at.
* **Events without context.** A child inherits a stack of calls that the manager
  has not seen; a thread may send events before the event that announces it; some
  types of events carry no time.
* **Hash-tables at their limits**, one that goes around its end on insert, and one
  that is re-hashed while pointers to its nodes are held.
* **A file without structure**: numbers and words one after the other, counted by
  one loop and written by another; one word too few and all that follows is read
  out of step.
* **Global hooks**, taken away and put back by each thread around each call.

The hazards this gives are in `PROJECT.json`, each at its line. Some oddities of the
code are modelled as they are and have no property, as nothing in the repository says
what should happen: an event without a time takes that of the event before
(`main.c:176`), the test for a time that loops never holds (`main.c:178`), and a list
of memory that cannot grow is used all the same (`fc_memory_manager.c:111`).

## 2. The modules

```
 FcLock  <-- implemented by --  FcSemaphore        FcMap <-- implemented by -- FcXHash
   ^                                                 ^
   | INSTANCE                                        | used as a map by
 FcFifo  -- implements -->  FcStream  <-- assumed by -- FcProfile -- EXTENDS --> FcFunctions
                                      <-- assumed by -- FcMemory
 FcHooks (sends the memory events)
 FcSession -- EXTENDS --> FcConfig, FcFile      (a whole run: _init ... fcdump)
 FcDump    -- EXTENDS --> FcOptions, FcNames    (fcdump after the file is read)
```

The composition is by contract. `FcFifo` takes its lock from `FcLock`. `FcSemaphore` is
proved to implement it from its start up to the first step at which one of two races
of the code happens: two processes register at once (`fc_semaphore.c:41`), or the second
read of a ticket takes a running maximum back (`fc_semaphore.c:66`). What is said of the
ring in FORK and THREAD modes therefore holds up to the first of these races; in
SINGLE mode the ring has no lock. `FcProfile` and `FcMemory` take one event
and what the manager does of it as one step, which is sound for a stream that
delivers everything in order (`FcStream`), and `FcFifo` is proved to implement
that one, in SINGLE mode and, for programs whose other threads are over when they
exit, in THREAD mode. `FcSession` composes the start, the ring, the manager, its files and
the reader of fcdump; the ring is a queue in it, and what a context has counted is
chosen, as the other modules have how it is counted. Arcs and memory blocks are kept
in functions (maps), and `FcXHash` is proved to implement a map (`FcMap`).

### FcLock, FcSemaphore

`FcSemaphore` has one label for each access to a shared word in
`fc_semaphore_get`, `fc_semaphore_put` and `fc_semaphore_find_process`: `pids`,
`number_pid`, `choosing`, `number` and `number_of_recursive_lock` are the fields
of `FC_Semaphore`; `process`, `i` and `temp` are the locals. The ticket of a slot
is read twice, as in the code: once in the comparison, once in the copy. `Get`
begins a call of `fc_semaphore_get` (nested ones too), `Step` is everything a
process does from there to the return of `fc_semaphore_put`. A slot is never given
back, so that some may be taken by processes that have ended (`Ended`), and a table
at its limit ends the process (`FindFull`).

The registration has a comment that says that it should be protected. `Protected`
selects for TLC: TRUE, no two processes register at the same time (this is the environment
in which the rest of the algorithm is examined); FALSE, the code as it stands. `faults`
is a history of the two races: "registration" from the moment that a process finds its
slot free while another one is registering, "maximum" from the moment that the second read
of a ticket takes a process back below a ticket in use that it had covered
(`FallsBack`). The theorems are about the code as it stands and say what holds up to the
first of the two. Unprotected, two processes that come together take
one slot, and the second is let in as a nested lock of the first: with two
processes, two slots and `Protected = FALSE`, TLC refutes `MutualExclusion`.

### FcStream, FcFifo

`FcFifo` has both ends of the ring: `Send`, `Quit`, `Fork`, `Leave` and `Die`
are the program; `WAcquire` to `WAdvance` are `fc_fifo_write_single`, the filling
of the slot by a `fc_com_...` function and `fc_fifo_write_single_done`;
`ConnectLoad`, `ConnectStore` are `fc_fifo_connect`; `RAcquire` to `RAdvance` are
`fc_fifo_read_single`, `fc_mcom_read` and `fc_fifo_read_single_done`; `REnd`
is the end of stream in main; `CloseTest` to `Detach` are `fc_fifo_close`, by
either side. Each access to a shared word is a step, `numData` is updated
atomically, `refCount` by a load and a store. An event is its client, its number among
those of the client, and its time, if it bears one: the rest of its fields does not
matter to the ring. The events of the memory, of the libraries and PARENT bear none
(`Untimed`; `fc_com.c:175` to `298`).

`OneClock` is FC_TIME_MODE: with ext (`gettimeofday`) and tsc (the time-stamp counter) all
processes read one clock, which may stand still between two readings. That it is not set
back, that the counters of the processors agree and that it does not pass its width is
assumed. With cpu (or sys) each process has its own, which starts anew in the child of a
fork (`clock()`, `fc_time.c:62`): `OneClock` is FALSE, a reading is any number, and
`TimeOrdered` is not claimed.

A process, the manager included, may be killed before any step (`Die`): it stays
where it was, and so does all it has done to the shared memory, the lock included.
In THREAD mode a signal takes all threads. `Mortal` says which processes may be
killed. `Leave` is the end without `_fini`: a
thread that ends, a child that calls `_exit`.

`_fini` waits for no thread (`fc_check.c:438-459`). In THREAD mode `Quit` may come while
others send, and the process ends with them when it has detached: what they send may
come after the end of the stream, be given up, or leave the lock taken. `Joined` is the
program that ends its other threads before it exits.

### FcFunctions, FcProfile

`FcFunctions` has the operators on one context: the table of functions with its
probing (`Find`, `InsertAt`), the stack, the arcs, and `Enter` and `Exit` with all
the times, in arithmetic modulo `U64` (2^64) and, for the first time of a
context, `U32` (2^32). `FcProfile` has the main loop: each action is an
event of the program and everything main does with it (search or creation of the
context, its times, the function). Beside the manager's data it keeps what the
program really did: its frames, the time each function ran, the time it was among
the frames. The properties compare the two.

`vtime`, which main does not initialise, starts with any value of `Garbage`. The
mode, which the manager reads at its start, is any of `Modes`. `jumped` tells who
has left functions without an exit (`longjmp`, `pthread_exit`): for it the stack,
the arcs and the times are not compared, the counts of occurrences are.

### FcMap, FcXHash

The chains, the free list of nodes, the blocks they come from, and the table's size
out of a list of primes. The nodes are numbered in the order in which they are
allocated, and `key` and `value` grow with each block; `max_rnodes` doubles, so that
`2 * max_rnodes - FirstBlock` nodes have been allocated. `Insert` is a whole insertion:
the block of nodes that it may need, the test for the load, the re-hash, which puts
the nodes one after the other at the end of their new chains. `InsertFails` is the
insertion when no block can be added.

### FcMemory

Each context has a list of elements with a free list threaded through it, and the
hash-table from addresses to pointers to elements. A pointer is the index together
with the memory block the list was in, so that a pointer into a list that has moved
is told apart from a good one. Each of the events assigns through the pointer that its
address leads to; when that one points into a list that was moved (`Dangling`), the
manager writes to memory that it has freed, and what comes of it is not known: a final
state (`crashed`), like the use of a list that could not grow. Up to there a list that
was moved is as good as another, and the properties hold in it. The program's side
keeps the blocks that are really allocated and the invalid calls really made; each call
comes from a place of its own. Some calls the manager takes for something else: `odd`
remembers which have happened, and `LeaksExact` and `InvalidExact` name the ones among
them that do no harm.

### FcHooks

The four hooks are written one after the other, always together; here that is one
step. A thread in a hook goes through the five steps of the code: restore the old
hooks, make the real call, save the hooks again, send the event, install. `overlap`
remembers whether a thread has made a call while another was in a hook. The libc
is external: it calls the hook that is set, and its own first hooks remove
themselves.

### FcConfig, FcFile, FcSession

`FcConfig` has the resource file and the environment (`ReadRessources`, `ReadEnv`:
`sscanf` leaves words of the line before, the last line needs its newline), the
mode, the power of two of `fc_check_power` with the overflow of an int, and the
three clocks with their widths. `FcFile` has what `fc_context_save` writes and what
main of `fc_dump.c` reads, both on sequences of tokens: the scanner is modelled
with feof, conversions that fail and leave what was there, `%d` on a pointer, and
`%p` on a number, so that a reader out of step reads what fcdump would.

`FcSession` is the whole of it: the program (`Configure` to `EndLibs` are `_init`,
then `StartManager`, the run, `Quit` and `Close`), the child that becomes the
manager (`Exec`), or fails to and goes through `_fini` (`ExecFails`, `ChildQuit`,
`ChildClose`), the manager from `fc_mcom_init` (`Connect`, `ReadInit`, `ReadLib`,
`FirstContext`) to the files (`SaveContext`, `SaveDescriptor`), and fcdump (`Dump`).
All that may fail does (`CreateFails`, `ForkFails`, `ConnectFails`, `SaveFails`), and
the manager may be killed (`ManagerKilled`), in the middle of a file too
(`KilledInSave` cuts it after any token, with or without the space behind it).

### FcOptions, FcNames, FcDump

`FcOptions` reads the command line word by word. `FcNames` has the tables of
symbols: names of functions, the function that an address lies in, the libraries
that a function may come from, and the entries of -only and -not. BFD is external:
an object file is its table of symbols, or none. `FcDump` has one action for each
phase of main: `Arguments`, `ReadFile` (all files with up to `MaxArcs` arcs),
`SolveNames`, `SortFunctions` (any order that the comparison allows), `RemoveDuplicates`,
`LinkNodes`, `SelectFunctions` (-only, -not), then `DisplayGraph` (-vcg) or
`ListFunctions` (flat profile and call-graph), `ComputeCycles` (`fc_get_cycle`) and
`ListMemory`. What ends fcdump is a final state: "fatal" where it says why,
"crashed" where it follows a pointer that is none. The node of a function is not
initialised: what lies there may be followed (`FollowGarbage`), or be zeros; the
hide flag of an unknown function is either.

### MC modules

`MCFc...` extend a module for TLC with small constants, inputs and scenarios.
`MCFcSemaphoreFive` restricts the next-state relation of `FcSemaphore` to one
schedule of five processes; every step of it is a step of `FcSemaphore`.

## 3. Runs that pass

| run | instance | shows |
|---|---|---|
| `FcSemaphore_bakery` | 3 processes, 3 slots, one of them taken by an ended process or not, as many gets as they please, nested or not, tickets up to 4, protected registration, fairness | `MutualExclusion`, `PrivateSlots`, `NestingCounted`; `LockImplemented`: it implements `FcLock`; `NoStarvation`: whoever asks gets the lock, however often the others come back, or ends at the full table |
| `FcFifo_single` | 1 client, 2 slots, 5 events, both ends killed anywhere | `InOrder`, `NoOverwrite` without any lock; `EndMeansOver`, `KeptOnceAttached`; `StreamImplemented`: it implements `FcStream` |
| `FcFifo_fork` | a parent and a child, 1 slot, 1 event each (the child's without time) and QUIT, a clock of two values, parent and child killed anywhere, fairness | `TimeOrdered`; `ManagerFinishes`; `WritersGoOn`: profiling does not block the program |
| `FcProfile_modes` | the 3 modes, 2 processes or threads, 2 functions with one home slot, 5 events and jumps, fairness | the stack (`StackFollows`), occurrences, arcs, local and total times are those of the program, recursion included; one entry per function; events reach their context whatever the place of THREAD among them; exits of functions never entered are absorbed in a child; the flush ends (`FlushEnds`) |
| `FcXHash_map` | 4 keys, 2 buckets at first, 2 nodes per block | it is a map (`MapImplemented`), no node is lost or used twice (`NodesShared`), no node of a key moves (`NodesStay`) |
| `FcMemory_calls` | the 3 modes, 2 processes or threads, 4 calls of all kinds, a list that grows, in place or not | saved leaks and invalid calls are the real ones, up to the oddities each property names; addresses never share an element; all this until a pointer into a list that was moved is used |
| `FcHooks_threads` | 2 threads, 3 calls each | the hooks are in place whenever nobody is in one; while calls follow one another, each is announced once and none recurses |
| `FcSession_files` | 18 scenarios of resource files, environments, sizes, libraries, clocks, contents and a full ring, all failures, fairness | the manager has the parameters asked for (`ParamsAgree`), a table of a size it can use (`TableIsPower`), the libraries (`LibrariesSeen`); times are those that passed (`TimesExact`); fcdump reads what was saved, but for the time mode of clocks other than tsc (`ReadBack`), and refuses a cut file (`CutRefused`); the program ends (`ProgramEnds`) |
| `FcDump_graph` | 24 command lines with executables and libraries, all files of up to 3 arcs | the graph is that of the file (`ArcsKept`), the cycles and their lengths are those of the graph (`CyclesExact`), the drawing has its edges (`EdgesKept`), the listings have the functions, the order and the calls asked for (`ListingExact`) |

The types of a module's variables are part of its first invariant
(`OccurrencesCounted`, `NodesShared`, `ElementsApart`, `HooksInPlace`, `ArcsKept`), and
proved with it; those of the lock and of the ring are proved on their own
(`SemaphoreTypes`, and `TypeOK` in `Invariance`).

Each property of these runs has a mutant: an operator beside the mapped
definition with a plausible slip (`..._OffByOne`, `..._NoLock`, `..._Forgotten`),
under which the property fails.

### Bounds, and why they are enough

* *Lock.* Three processes are enough for a process that waits for two others, one
  choosing and one with a smaller ticket. They may come back for ever: the number of gets
  has no bound, only that of nested ones (`MaxDepth`) and the tickets (`MaxNumber`), which
  go back to 0 whenever the lock falls free. `NoStarvation` says nothing of a
  behaviour whose tickets have come to 4; below, one process is passed by the
  others again and again, also by one that comes back with a ticket started again. With a
  slot left by an ended process the third finds the table full. The run keeps, of the
  behaviours that differ in the names of the processes, one (`InOrder`), and has nested
  gets before puts (`NestedFirst`). Three are not enough for everything:
  `FcSemaphore_five` needs five. In the code
  tickets may go up to SHRT_MAX, which takes 2^15 gets in a row that never let the lock
  fall free.
* *Ring.* Two slots and five events go more than twice around; one slot more than
  the events at one time leaves room for both the full and the empty ring. The
  proofs hold for every capacity. In FORK mode one slot makes every second event
  wait or be given up; a parent and a child are the least number of processes of
  which one is not counted. The death of the manager is left out of `FcFifo_fork`, whose
  liveness properties name it (`Stuck`), and is in the other two runs. SINGLE and FORK modes
  are run; what THREAD mode adds is
  in the proofs, which are for all modes or for SINGLE and THREAD.
* *Profile.* Five events hold two nested calls or a recursion with their exits, a
  fork at depth two with both exits in the child, or the creation of a thread and
  its reuse. Functions that are multiples of `Size` share one home slot, so probing
  takes place, and in a child the unknown functions fill the table to its limit.
* *Hash-tables.* Three sizes and one additional block: two re-hashes, one new block,
  and an insertion that fails come about.
* *Memory.* With `FirstElements` of 1 the list grows twice within four calls: a
  block before, one after it, and a call for the first, in a list that was moved or not.
* *Session.* Each scenario is about one part: lines that lack a word or a newline,
  sizes that are no power, negative, or too large; as many libraries as slots; clock
  steps of 0, 1 and 14 with a second of 4 units and a word of 16, so that seconds are
  borrowed and words overflow; contents with all kinds of blocks; a ring that is full.
* *fcdump.* Three functions and three arcs give all cycles of length one to three,
  duplicates before and after the naming, and sites outside all symbols. Each
  command line is about a few options that act on one another.

Deadlock is not checked in any run: programs end, and so do their managers.
That a process waits without end is the matter of the liveness properties instead.

### Fairness

* `FcSemaphore!FairSpec`: each process that has called get or put is scheduled
  again (weak fairness of its `Step`). A process need not call get, but one that
  holds the lock puts it, as each user in `fc_fifo.c` does.
* `FcFifo!FairSpec`: weak fairness for the steps of a process inside libfc and
  for the manager; strong fairness for taking the lock, which is what `NoStarvation`
  says of the bakery while processes come back without end. That one is checked for three
  processes, protected registration and tickets below their bound; more processes, or a
  ticket that falls back, are not covered by it. The program itself (`Send`, `Quit`, `Fork`) has none.
* `FcSession!FairSpec`: the program goes on, and so does the child up to the end of
  the stream, when they can (weak fairness); saving and fcdump have none, and the
  manager may be killed instead.
* `FcProfile!FairSpec`: weak fairness of the flush, which begins only when the
  stream has ended; the program has none.

## 4. Where the code and its words differ

Three runs check a property that a comment of the repository states, and show a
behaviour of the code that contradicts it. The quotations are in `PROJECT.json`
under `findings`.

| run | property | what happens |
|---|---|---|
| `FcSemaphore_five` | `MutualExclusion` | the ticket of another is read twice and goes to 0 in between: two hold the lock (one schedule of five processes, registration over) |
| `FcFifo_killed` | `DumpedAtExit` | a killed program does not close: the manager polls for ever, the flush meant for crashes is not reached |
| `FcProfile_wrap` | `OneEntryPerFunction` | insert goes around the end of the table of functions, find does not |

Other properties are stated with the condition under which the code keeps them.
What happens without the condition can be read from the model by dropping it:

* `PrivateSlots`, `MutualExclusion`, `NestingCounted`, `LockImplemented`: without
  `Protected`, two processes share a slot (`fc_semaphore.c:41`); with more than two the
  maximum may be taken back where a ticket is read twice (`fc_semaphore.c:66`). The
  theorems (section 5) have no such condition: they hold up to the first of these races.
* `EndMeansOver`, `KeptOnceAttached`, `StreamImplemented`: in THREAD mode a thread that
  still sends when the first one exits may lose its events, after the end of the stream
  or for want of room, or end with the lock in its hands (`fc_check.c:447`); the theorems
  name `Joined` for that mode, and without it `EndMeansOver` is false.
* `TimeOrdered`: with one clock for all (ext and tsc), for the events that bear a time.
* `EndIsTheEnd`, `FifoImplementsStream`: in FORK mode children are not counted in
  `refCount`, and the end of the stream is seen while one runs (`fc_fifo.c:221`,
  against `main.c:125`). `ManagerFinishes` begins once the manager is attached:
  before, `refCount++` and `--refCount` race, and the count may stay at 2.
* `ManagerFinishes`, `WritersGoOn`: `Stuck` names what nobody repairs: the lock of a
  process that was killed, the reference of a killed manager, and a count that runs
  below zero when two processes close at once and both have found it above zero
  (`fc_fifo.c:178`, `185`). `ProgramEnds` names the killed manager too.
* `ParamsAgree`: the parameters are promised for resource files of whole lines of two
  words. A line that lacks a word takes it from the one before (`fc_ressources.c:191`).
* The mode: without any option the code takes SINGLE (`fc_no_fork` and `fc_no_thread` start
  set, `fc_check.c:260`), where libfc.texi:325 says "The default mode for libfc is the
  FORK mode". `ParamsAgree` follows the code: it compares the manager's mode with the
  program's.
* `ReadBack` claims the saved time mode for the tsc clock only. libfc.texi:578 calls it "the
  time unit used during profile"; the mode that the program uses is in the INIT record,
  and the manager never takes it out (`main.c:70-85`), so that each file has that of the
  manager, 3 (tsc), also with FC_TIME_MODE ext, cpu or sys. fcdump knows 1 and 2 only and
  calls 3 unknown (`fc_dump.c:1076`), and libfc.texi has other numbers (1 tsc, 2 ext, 3
  cpu, 4 sys).
* `TimesExact`: the cpu clock, while it has not moved or once it is past 32 bits, gives
  a time that did not pass (`fc_time.c:65`).
* `ReadBack`, `CutRefused`: `Regular` leaves out a library without a name
  (`fc_context.c:400`) and a block of UINT_MAX bytes that was reallocated
  (`fc_context.c:468`); times and arcs are compared as far as 32 bits go
  (`fc_context.c:247`, `fc_graph.c:51`). A file cut in its last list is not
  refused; and the test that refuses the others also refuses the old files
  without memory lists, which `fc_dump.c:893` means to accept.
* `KeptOnceAttached`: before the manager is attached, a full ring drops events
  (`fc_fifo.c:300`).
* `OneEntryPerFunction`, the times: in a forked process an unknown function gets
  its symbol at its exit, whether or not that symbol has an entry
  (`fc_functions.c:147`).
* `LeaksExact`: realloc of NULL, to 0, or one that fails, or a free by another thread.
* `InvalidExact`: free(NULL), realloc of NULL, a realloc that fails, a free in
  another process or thread than the one that allocated.
* All three properties of the memory: after the use of a pointer into a list that was
  moved by its growth (`fc_memory_manager.c:110`), or of a list that could not grow,
  nothing is claimed.
* `EachCallAnnounced`, `NoRecursion`: a call while another
  thread is in a hook is not seen, or makes libfc's hooks the ones that are kept
  as the libc's (`libfc/fc_memory.c:126`).
* `ArcsKept` says nothing of the numbers of calls but that both directions have the
  same: they stay where they were when arcs move to the front
  (`fcdump/fc_graph.c:525`). `EdgesKept` has edges that lead from the title of the
  caller to the place of the callee in the file, which is another function's title
  once the sort has moved it (`fc_dump.c:1048`).
* `ListingExact` says nothing of unknown functions (their hide flag is not set,
  `fc_graph.c:396`) and of a graph that there was no memory for. A list that begins
  with a comma has a first entry that no function has. -only alone with names
  (`fc_names.c:547`), -sort name without names (`fc_dump.c:184`), -only, -not and -vcg
  on a function without node (`fc_graph.c:581`), and a library without debugging
  information (`fc_names.c:517`) crash: final states of the model.

## 5. Proofs

The eight proof modules are checked by TLAPS to the last leaf, from the assumptions
on the constants in the modules they extend and the hypotheses that a theorem states,
and from nothing else. Each follows the
same lines: an inductive invariant, which `Init` implies and each action keeps (one
lemma per action, or per group of actions that do alike), and from which the
properties follow.

| module | theorems (the property of a run they state) |
|---|---|
| `FcSemaphoreProofs` | `SemaphoreTypes`, `SlotsArePrivate` (`PrivateSlots`); `BakeryExcludes` (`MutualExclusion`), `NestingIsCounted` (`NestingCounted`), `BakeryImplementsLock` (`LockUntilRace`), `TwoExclude` |
| `FcFifoProofs` | `Invariance`, `InOrderDelivery` (`InOrder`), `SlotNotOverwritten` (`NoOverwrite`), `TimesInOrder` (`TimeOrdered`), `EndIsTheEnd` (`EndMeansOver`), `NothingGivenUp` (`KeptOnceAttached`), `FifoImplementsStream` (`StreamImplemented`) |
| `FcHooksProofs` | `HooksStayInPlace` (`HooksInPlace`), `HooksDoNotRecur` (`NoRecursion`), `CallsAreAnnounced` (`EachCallAnnounced`) |
| `FcMemoryProofs` | `ElementsStayApart` (`ElementsApart`), `LeaksAreExact` (`LeaksExact`), `InvalidCallsAreExact` (`InvalidExact`) |
| `FcProfileProofs` | `OccurrencesAreCounted` (`OccurrencesCounted`), `StackIsFollowed` (`StackFollows`), `SavedWhenFlushed`, `FunctionsFoundAgain` (`OneEntryPerFunction`), `ArcsAndCallsAgree` (`ArcsCountCalls`), `LocalTimesAreExact` (`LocalTimeExact`), `TotalTimesAreExact` (`TotalTimeExact`) |
| `FcSessionProofs` | `ParametersAgree` (`ParamsAgree`), `TableSizeIsPower` (`TableIsPower`), `LibrariesAreSeen` (`LibrariesSeen`), `TimesAreExact` (`TimesExact`) |
| `FcDumpProofs` | `ArcsAreKept` (`ArcsKept`), `EdgesAreKept` (`EdgesKept`), `CyclesAreExact` (`CyclesExact`) |
| `FcXHashProofs` | `TableImplementsMap` (`MapImplemented`), `NodesAreShared` (`NodesShared`), `NodesStayInPlace` (`NodesStay`) |

### FcSemaphoreProofs

For the code as it stands, any set of processes, any number of slots, some of them taken
by processes that have ended, any number of gets, nested ones included:

* `SemaphoreTypes`, `SlotsArePrivate`: until two processes register at once, types are
  kept and no two processes use one slot (`PrivateSlots`);
* `BakeryExcludes`, `NestingIsCounted`: until one of the two races has happened
  (`faults = {}`), `MutualExclusion` and `NestingCounted` hold;
* `BakeryImplementsLock`: up to the first step at which one happens, the semaphore is the
  lock that `FcFifo` takes from `FcLock` (`LockUntilRace`). This is how far the
  composition of the two goes: the code ensures neither that the registration is
  protected nor that the second read is that of the first.

There is thus no third way to lose the lock. `PrivateSlots` alone is not inductive: a
process that registers could find the
end of the table already taken. `SlotInv` adds that a slot that holds the pid of a
process lies below `number_pid` and that the two know each other (`TableInv`), that whoever
registers does so alone and at the end (`RegisterInv`), that a process without a
slot is on its first way (`NewInv`), and the ranges of the locals (`LocalInv`).
One lemma treats the registration (`SlotFind`), one the steps of the bakery
(`SlotLock`). What is inductive is `"registration" \notin faults => SlotInv`, as faults
are never forgotten.

The second half of the module is about the bakery, on top of `SlotInv`. `BakeryInv` has
four parts: choosing
flags and tickets follow the program counters (`WordsInv`); slots that nobody has
taken are as they were made (`FreeInv`); a process that has looked at the slot of
another and gone on has its place before it, for good (`OrderInv`); and the one
counter of nested locks is that of the holder (`NestInv`). Two processes cannot each
be before the other, hence `MutualExclusion`. The invariant is
`faults = {} => BakeryInv`: `OrderInv` is kept by every step but those at which a race
happens. A ticket that another has put back to 0
between the comparison and the copy takes the running maximum back, and the process
that took it may draw a ticket lower than one that is in use, after the holder of that
one has passed it. `FcSemaphore_five` is such a schedule.
A copy of the value that was compared would keep the maximum from falling, and
with it rule this race out.

With at most two processes (`Pair`) the second race does no harm: the only ticket that
can be copied is the first one seen, and there is nothing to fall back from
(`PairInv`, `TwoExclude`). This is a program with one writer and its manager. Three
processes are in reach of TLC (`FcSemaphore_bakery`) and are not proved.

### FcFifoProofs

For any capacity, mode, set of clients and number of events, with processes killed at
any step:

* `Invariance`: `Spec => []FifoInv`;
* `InOrderDelivery`: what was received is the beginning of what was published;
* `SlotNotOverwritten`: no slot is filled while it is to be read.

The difficulty is that `numData` changes before the index that goes with it, so
that no relation between `readIdx`, `writeIdx` and `numData` holds at every step.
`First` and `Free` are the indices seen through that lag; then `RingInv`
(`Free` is `numData` slots after `First`), `SlotsInv` (these slots hold the last
events published), `CountInv` and `InOrder` (`DataInv`) are inductive together
with the control part: who holds the lock where (`LockInv`), and that a writer
that has seen room still has it (`RoomInv`), as only the reader changes `numData`
meanwhile, downwards. A process that is killed stays at its label, so that the
invariant speaks of it as of one that is slow; `DieStep` is short for that reason.

In SINGLE mode, and in THREAD mode for programs whose other threads are over when they
exit (`[]Joined`), where one process closes the ring and does so last:

* `EndIsTheEnd`: the manager sees the end only when the program is over and all
  has been read;
* `FifoImplementsStream`: `Spec => Stream!Spec`.

* `NothingGivenUp`: once the manager is attached no event is given up for want of
  room (an action property).

Their invariant `EndInv` says that `refCount` is 2 from the attachment of the
manager to the close of the root process (`RefInv`), that this one is the last
client (`RootInv`), and hence that the second look at `numData` sees the final
value (`OverInv`). In FORK mode they are false (section 4).

With one clock for all (`OneClock`), in all modes, the times of the published events that
bear one never run backwards (`TimesInOrder`). The
invariant (`TimeInv`) adds that no published event is past the clock, and that the
slot that is about to be published has no time, or one that is not before any published
one (`ClockInv`): the lock, or being the only writer, keeps all others from publishing between.

### FcHooksProofs

For any threads and number of calls. That the hooks are in place when nobody is in
one (`PlaceInv`) holds whatever threads do at the same time, as the last step of each
call sets them. That no hook runs inside itself and that each call is announced once
holds while calls follow one another: `AloneInv` says that at most one thread is in
one hook, and that libfc's hooks are neither among the kept ones nor among those in
force between `restore` and `reinstall`; `SentInv` counts the call whose event is on
its way. Both are kept up to the first overlap, after which they are false (section 4).

### FcMemoryProofs

For any modes, processes or threads, addresses and number of calls. `ContextInv`
says of the memory of a context that its free elements are those beyond
`nb_elements`, chained in their order (`FreeChained`), as the code never gives an
element back although it means to; and that addresses lead to different elements,
given out before, each in use and with that address
(`HashApart`). This holds whatever the program does, in a list that was moved too, until
a pointer into the old one is used, and gives `ElementsApart`.

`LeaksAreExact` relates the two sides: unless one of the calls that `LeaksExact`
names has come about, the hash-table and the list show exactly the blocks that the
process or thread has allocated and not freed (`Shows`, with `View` for the
program's side). Only with the whole list, the freed elements included, is this
inductive. `InvalidCallsAreExact` does the same for the invalid calls: `Recorded`
matches the elements of size UINT_MAX with the calls made, in their order.

### FcProfileProofs

For any table size, functions, call sites, processes or threads, number of events and
widths of time. `ProfileInv` consists of the program's side (`ProgramInv`: frames that
were inherited lie below one's own), the manager's contexts (`ManagerInv`), the flush
(`FlushInv`) and the relation between frames and stacks (`FollowInv`).

* `OccurrencesAreCounted`: `recursive_state` of each function that has a name is the
  number of its places on the stack. It needs that a slot on the stack is never free
  and that `nb` bounds the slots in use, so that an insertion finds a free one.
  While events are read it holds of unknown functions as well (`ReadingInv`), not in
  the flush.
* `StackIsFollowed`: up to a jump, the frames of a process or thread are those on top
  of the manager's stack, with their symbols and call sites. An exit of a function
  that a child never entered is absorbed because inherited frames are below.
* `SavedWhenFlushed`: when the profile is saved all stacks are empty and no function
  with a name counts as running. This is the safety half of `FlushEnds`.

What is shown of the stack is the base for what the manager adds
up (in the second half of the module), again for any table size, functions, call sites, processes or threads, and number
of events. `BaseInv` is `ProfileInv` with who exists: which identifiers have a
context, who has inherited frames, whose identifier is free again (`BirthInv`,
`ThreadInv`). On top of it there is one invariant per question:

* `FunctionsFoundAgain` (`EntriesInv`): from the home of a function to its entry all
  slots are taken, so that `Find` comes to the entry before it comes to a hole, and
  nothing is inserted twice. It holds of a context as long as no entry lies before its
  home (`NoneWrapped`): `insert` goes around the end of the table and `find` does not
  (`FcProfile_wrap`), and the first entry that went around is where a second one of
  the same function may come from. This is the only condition of the theorem. On the
  instance of `FcProfile_wrap`, where it does not hold, both `OneEntryPerFunction` and
  `TotalTimeExact` are false: a recursion over two entries is counted in both.
* `ArcsAndCallsAgree` (`CallsInv`): for every function the counts of its arcs and its
  places on the stack make its calls (`Balanced`); it is the calls that a child
  inherited that need care, as they get a name only at their exit (`Inherits`,
  `UnknownOnce`). The theorem assumes that no call site is the first address of a
  function: an address that a call returns to lies behind that call. It needs no
  condition on the table: calls that are spread over two entries add up.
* `LocalTimesAreExact` (`SeenInv`, `HeightInv`, `LocalInv`): while a context is looked
  at, the entry on top of the stack has the time of the last event (`Stopwatch`), the
  others have in `temp_ltime` what had passed when they were interrupted, and the sum
  over the entries of a function is the time that the program spent in it. This too
  holds of a table that has gone around.
* `TotalTimesAreExact` (`TotalInv`), with the condition on the table: an entry has the
  total time of its outermost calls that are over, and the one that lasts began at the
  lowest place of the function on the stack (`Since`).

Both kinds of time are proved `clock < U64`: the times are differences modulo 2^64,
and a clock of microseconds takes half a million years to get there. The bound is of
each state and not of the constants; past it nothing is claimed.

The sums are folds over sets. The module shows first, by looking at a least set for
which it would fail, that `SumFunctionOnSet` is the sum it should be, whatever element
its `CHOOSE` takes first: it is 0 for the empty set, any element can be taken out of it
(`SumElement`), and a change of one value changes the sum by as much (`SumDiffers`).

### FcSessionProofs

For any scenario: any resource file and environment, any build, libraries, steps of
the clock and contents. `SessionAssumption` has what is assumed of them: their types,
and that the loader puts no two libraries at one address.

* `PhaseInv` orders the two processes: the segment is there before its first use, the
  libraries are all written before the child starts, and what the manager does comes
  after it has read the INIT record. All others need it.
* `TimesAreExact` (`ConfInv`, `QueueInv`): the events in the queue have the time since
  the start, whichever of the three timers, with their borrow and their widths
  (`StampIsElapsed`).
* `ParametersAgree` (`RecordInv`): the record that the manager has is the one that
  `InitRecord` makes of the parameters. That these are what the user asked for is
  `AskedIsRead`: reading well formed lines one after the other, each of them
  overwriting what the environment had (`setenv`), comes to letting the last line
  about a variable decide (`LastLineDecides`).
* `TableSizeIsPower` (`TableSize`): `fc_check_power` goes through the powers of an
  int; for a number of functions up to 2^30 it takes the least that is not below, and
  what it makes of a larger one, an int that has overflowed, `fc_fhash_create`
  replaces by 512.
* `LibrariesAreSeen` (`LibsInv`): the table has the first libraries written, in their
  order and without those at address 0, and is empty after them; the manager has
  copied what lies before `lastLdyn`. The last slot is never written, so that the
  reader always comes to an empty one. That `fc_ldyn_add` drops nothing needs the
  loader's different addresses.

### FcDumpProofs

For any file of up to `MaxArcs` arcs, any executable, libraries and command line;
`DumpAssumption` says that addresses are naturals, that functions and symbols are
finitely many and that a command line is a sequence of words.

* `ArcsAreKept` (`ArcsOK`, `GraphOK`): from `names` on the arcs are those of the file,
  from `sort` on their call sites are the functions these lie in (`BaseFound`: the
  loop of `fc_extract_dynamic_base` stops at the largest symbol that is not beyond the
  address), and from `link` on no two have the same ends: of the arcs that are alike
  exactly the last one stays (`RemoveDuplicatesKeeps`), so that as many pairs are
  left as arcs (`PairsCounted`). The lists of links of both directions are the arcs
  (`LinksAreArcs`).
* `EdgesAreKept` (`FncsOK`, `VcgOK`): whatever the sort makes of the order, each
  function of the file is in the list once, with the index that it has in the file
  (`RankInOrder`), and `DisplayGraph` is reached with the whole graph or not at all.
* `CyclesAreExact` (`CyclesInv`): `fc_get_cycle_` finds a cycle through a node whenever
  there is one, and only then. The search never clears a tag, so that a node given up
  once is not looked at again; that this hides no cycle is `Vain`: when a call gives up,
  the callees of all nodes it has tagged are tagged too, and the first node is not one
  of them. After each link either that is so or a cycle has been found whose last node
  was not tagged before (`Partial`, `TurnKeeps`). Of a search that finds nothing the
  tags, without the first node, are then a closed set that the first node's callees are
  in, and the first node is not; this refutes `Reaches`, which is defined by closed
  sets. Each call tags one node more or ends (`FewerLeft`), which bounds the length of
  a cycle and shows that the recursive function exists (`SearchExists`); the loop over
  the links is shown to go from link to link (`ThroughSteps`). The graph has what this
  takes since its nodes are the ends of the arcs, or none (`NodesOK`, `GraphIsFine`).

Sets of numbers are put in order by `InOrder`; that this order exists and has all of
them is `Ordered`: the rank of a number is a bijection. What the options are read to is
a fold over the words, whose function is shown to exist (`ReadingExists`,
`OptionsRead`).

### FcXHashProofs

For any keys, values, increasing list of sizes, first block and number of blocks.
`XHashInv` says that the chain of a bucket has exactly the nodes whose keys belong
there, once (`Chained`), that the free list has the nodes without a key, once, and is
never empty (`FreeOnes`), that no two nodes have one key (`Unique`) and that `nb`
counts the nodes in use. A lookup then finds the one node with the key
(`LookupFacts`), from which follow the map, the sharing of the nodes, and that a node
stays with its key.

The re-hash and `fc_hash_foreach` are loops over data. Their recursive functions are
shown to exist, and their results to have what the loop builds up (`Visited`,
`Refilled`), by looking at the least turn at which either would fail (`Least`,
`FlatteningExists`, `ForeachFacts`, `RehashingExists`, `RehashFacts`).

### Only model-checked

* Liveness (`NoStarvation`, `ManagerFinishes`, `WritersGoOn`, `FlushEnds`,
  `ProgramEnds`) is outside what the prover handles.
* `MutualExclusion` after a ticket has fallen back: false with five processes
  (`FcSemaphore_five`), proved for two, checked for three.
* `OneEntryPerFunction` and `TotalTimeExact` are checked and proved for tables that have
  not gone around their end; beyond that both are false (`FcProfile_wrap`).
* `ReadBack` and `CutRefused` of `FcSession` are about two scanners that go over a sequence of
  tokens of any length: what a recursive scanner has read after each token is an
  induction over data, for every one of its lists.
* `ListingExact` of `FcDump`: a listing is a sum over a filtered, sorted list that
  depends on every word of the command line. It is compared with a definition over
  all files of the bound and the command lines of the run.

## 6. Abstractions

* Memory is sequentially consistent; the barriers implied by `__sync_...` are the
  only ones the code has.
* Addresses are numbers; in `FcProfile` and `FcMemory` they are below 2^32, for which
  the keys of the tables are exact. `FcFile` cuts them (`Word`), with a small word.
* Widths are small where a property is about them: `U32`, `Word`, `Micro`, `UINT_MAX`.
* A file is a sequence of tokens; the six times of a function are one token, and an
  empty name is a token that is missing.
* The events of `FcSession` are enter and quit; the other types are in `FcProfile`.
* A function, a call site, an address or a time is a small number; names,
  columns, formats and messages are left out.
* `fc_message_fatal` ends the process that calls it.
* The hooks are switched in one step; a thread that sees half of them switched
  behaves as one that came before or after, for the one kind that it calls.
* The failure of `malloc` inside the manager is modelled where the code goes on
  after it (`ListLost`, `InsertFails`), and not where it ends the program.

## 7. Not modelled, and the plan

Left out for good: messages (`fc_tools.c`), the reading of symbols through BFD and
demangling (libraries), the layout of the listings of fcdump (columns, headers,
units), the propagation of -propagate (never reached: the option sets its flag to
0), `fc_dmanager.c` (a draft that no build file names), `sed` scripts, build files and
the patch for gcc.

Next, in this order:

1. **The ring and the main loop together**, without the contract in between, in
   FORK mode, where the contract does not hold.
2. Proofs: mutual exclusion of three processes after a ticket has fallen back; and the listings
   of `FcDump`, the order of their functions first.

------------------------------- MODULE FcFifo -------------------------------
(***************************************************************************)
(* The FIFO in shared memory between the profiled program and fcmanager    *)
(* (fcmanager/fc_fifo.c) with the two ends that use it: the event writers  *)
(* of fc_com.c and fc_check.c (from the first event to _fini) and the read *)
(* loop of the manager (main.c, fc_com_manager.c), from its attachment to  *)
(* the segment to its removal.                                             *)
(*                                                                         *)
(* A client is a process of the program (SINGLE and FORK modes) or one of  *)
(* its threads (THREAD mode).  Every access to a shared word is a step;    *)
(* the updates of numData are atomic (__sync_fetch_and_add/sub) and those  *)
(* of refCount are a load and a store.  An event is its client, its number *)
(* among those of the client, and the time it bears, if it bears one.      *)
(***************************************************************************)
EXTENDS Integers, Sequences

CONSTANTS
  Clients,    \* processes or threads of the program
  Root,       \* the process that ran _init
  Manager,    \* fcmanager
  NoOne,      \* nobody holds the lock
  Mode,       \* FC_MODE_SINGLE, FC_MODE_FORK or FC_MODE_THREAD
  NumEntry,   \* numEntry: capacity of the FIFO
  RefLimit,   \* 2^32 in the code: refCount is an unsigned int
  OneClock,   \* TRUE: FC_TIME_MODE is ext or tsc, one clock for all, which
              \* is never set back; FALSE: it is cpu, each process its own
  MaxTime,    \* 2^64 - 1 in the code, where times are unsigned long long
  Untimed,    \* the events that bear no time: those of the memory and of
              \* the dynamic libraries, and PARENT
  MaxEvents,  \* bound: events of a client, its QUIT left out
  Mortal      \* the processes a signal may end, wherever they are

ASSUME FifoAssumption ==
  /\ Root \in Clients
  /\ Manager \notin Clients
  /\ NoOne \notin Clients \cup {Manager}
  /\ Mode \in {"SINGLE", "FORK", "THREAD"}
  /\ Mode = "SINGLE" => Clients = {Root}
  /\ NumEntry \in Nat \ {0}
  /\ RefLimit \in Nat /\ RefLimit > 2
  /\ OneClock \in BOOLEAN
  /\ MaxTime \in Nat
  /\ MaxEvents \in Nat
  /\ Mortal \subseteq Clients \cup {Manager}

(* QUIT bears a time *)
ASSUME UntimedAssumption == Untimed \subseteq Clients \X (1 .. MaxEvents)

Procs == Clients \cup {Manager}
Index == 0 .. NumEntry - 1

VARIABLES
  \* _fifo_control, in shared memory
  numData, readIdx, writeIdx, refCount, data,
  holder,     \* who is between fc_semaphore_get and fc_semaphore_put
  shm,        \* FALSE once the segment is removed (IPC_RMID)
  \* the processes
  pc, ref, quitting, sent,
  dead,       \* who was killed, or ended by the exit of its process, which
              \* stays where it was
  clock,      \* the time of day, or the time-stamp counter
  \* history: the events published, read and given up, in that order
  written, received, dropped

control == <<numData, readIdx, writeIdx, data>>
history == <<written, received, dropped>>
vars == <<numData, readIdx, writeIdx, refCount, data, holder, shm,
          pc, ref, quitting, sent, dead, clock, written, received, dropped>>

Lock == INSTANCE FcLock

Single == Mode = "SINGLE"
ACQUIRE(p) == IF Single THEN UNCHANGED holder ELSE Lock!Acquire(p)
RELEASE(p) == IF Single THEN UNCHANGED holder ELSE Lock!Release(p)

(* a step of p, which is alive *)
Goto(p, label) == p \notin dead /\ pc' = [pc EXCEPT ![p] = label] /\ UNCHANGED dead

NoTime == -1
NoEvent == <<Root, 0, NoTime>>

(* unsigned arithmetic on refCount *)
Incr(n) == IF n = RefLimit - 1 THEN 0 ELSE n + 1
Decr(n) == IF n = 0 THEN RefLimit - 1 ELSE n - 1

(* fc_fifo_create by the first process, which has started the manager *)
Init ==
  /\ numData = 0 /\ readIdx = 0 /\ writeIdx = 0
  /\ refCount = 1
  /\ data = [k \in Index |-> NoEvent]
  /\ Lock!Init
  /\ shm = TRUE
  /\ pc = [p \in Procs |-> IF p = Manager THEN "boot"
                           ELSE IF p = Root THEN "run" ELSE "unborn"]
  /\ ref = [p \in Procs |-> 0]
  /\ quitting = [c \in Clients |-> FALSE]
  /\ sent = [c \in Clients |-> 0]
  /\ dead = {}
  /\ clock = 0
  /\ written = <<>> /\ received = <<>> /\ dropped = {}

------------------------------------------------------------------------------
(* The program *)

(* fork or pthread_create: nobody counts the new client in refCount *)
Fork(c) ==
  /\ pc[c] = "unborn" /\ \E parent \in Clients \ dead : pc[parent] = "run"
  /\ Goto(c, "run")
  /\ UNCHANGED <<control, refCount, holder, shm, ref, quitting, sent, clock, history>>

(* an instrumented function, a hook or a redirected call sends an event *)
Send(c) ==
  /\ pc[c] = "run" /\ sent[c] < MaxEvents
  /\ Goto(c, "acquire")
  /\ sent' = [sent EXCEPT ![c] = @ + 1]
  /\ UNCHANGED <<control, refCount, holder, shm, ref, quitting, clock, history>>

(* exit: _fini sends QUIT.  In THREAD mode it is the first thread that     *)
(* exits, and it waits for no other one.                                   *)
Quit(c) ==
  /\ pc[c] = "run"
  /\ Mode = "THREAD" => c = Root
  /\ Goto(c, "acquire")
  /\ quitting' = [quitting EXCEPT ![c] = TRUE]
  /\ UNCHANGED <<control, refCount, holder, shm, ref, sent, clock, history>>

(* a thread ends, or a child calls _exit *)
Leave(c) ==
  /\ ~Single /\ c # Root
  /\ pc[c] = "run" /\ Goto(c, "gone")
  /\ UNCHANGED <<control, refCount, holder, shm, ref, quitting, sent, clock, history>>

(* A signal ends a process, all its threads with it: what it has changed   *)
(* in shared memory stays, the lock included.                              *)
Die(p) ==
  /\ p \in Mortal \ dead /\ pc[p] \notin {"unborn", "gone"}
  /\ dead' = dead \cup (IF Mode = "THREAD" /\ p # Manager THEN Clients ELSE {p})
  /\ UNCHANGED <<control, refCount, holder, shm, pc, ref, quitting, sent, clock, history>>

(* where a fc_com_... function returns to *)
After(c) == IF quitting[c] THEN "close" ELSE "run"

(* the number of the event that a client is sending, QUIT being the last *)
Number(c) == IF quitting[c] THEN MaxEvents + 1 ELSE sent[c]

(* fc_fifo_write_single *)
WAcquire(c) ==
  /\ pc[c] = "acquire" /\ Goto(c, "room")
  /\ ACQUIRE(c)
  /\ UNCHANGED <<control, refCount, shm, ref, quitting, sent, clock, history>>

(* a bug: the FIFO is full one event too late *)
WRoom_OffByOne(c) ==
  /\ pc[c] = "room" /\ Goto(c, IF numData > NumEntry THEN "full" ELSE "fill")
  /\ UNCHANGED <<control, refCount, holder, shm, ref, quitting, sent, clock, history>>

WRoom(c) ==
  /\ pc[c] = "room" /\ Goto(c, IF numData = NumEntry THEN "full" ELSE "fill")
  /\ UNCHANGED <<control, refCount, holder, shm, ref, quitting, sent, clock, history>>

(* a bug: the writer does not count itself *)
WDrop_OffByOne(c) ==
  /\ pc[c] = "full" /\ refCount <= 2
  /\ Goto(c, After(c))
  /\ RELEASE(c)
  /\ dropped' = dropped \cup {<<c, Number(c)>>}
  /\ UNCHANGED <<control, refCount, shm, ref, quitting, sent, clock, written, received>>

(* alone: write_single returns 0 and build_fc_com gives the event up *)
WDrop(c) ==
  /\ pc[c] = "full" /\ refCount <= 1
  /\ Goto(c, After(c))
  /\ RELEASE(c)
  /\ dropped' = dropped \cup {<<c, Number(c)>>}
  /\ UNCHANGED <<control, refCount, shm, ref, quitting, sent, clock, written, received>>

WRetry(c) ==
  /\ pc[c] = "full" /\ refCount > 1
  /\ Goto(c, "acquire")
  /\ RELEASE(c)
  /\ UNCHANGED <<control, refCount, shm, ref, quitting, sent, clock, history>>

(* fc_gettimeofday.  What clock() gives, which starts anew in the child of *)
(* a fork and takes a wrong branch below its first value, is any number.   *)
Readings == IF OneClock THEN clock .. MaxTime ELSE 0 .. MaxTime

(* a bug: the time was read before the slot was got *)
WFill_Earlier(c) ==
  /\ pc[c] = "fill" /\ Goto(c, "publish")
  /\ \E time \in Readings, earlier \in 0 .. clock :
       /\ clock' = time
       /\ data' = [data EXCEPT ![writeIdx] = <<c, Number(c), earlier>>]
  /\ UNCHANGED <<numData, readIdx, writeIdx, refCount, holder, shm, ref,
                 quitting, sent, history>>

(* fc_com_...: the slot is filled, the time read last *)
WFill(c) ==
  /\ pc[c] = "fill" /\ Goto(c, "publish")
  /\ IF <<c, Number(c)>> \in Untimed
     THEN /\ data' = [data EXCEPT ![writeIdx] = <<c, Number(c), NoTime>>]
          /\ UNCHANGED clock
     ELSE \E time \in Readings :
          /\ data' = [data EXCEPT ![writeIdx] = <<c, Number(c), time>>]
          /\ clock' = time
  /\ UNCHANGED <<numData, readIdx, writeIdx, refCount, holder, shm, ref,
                 quitting, sent, history>>

(* fc_fifo_write_single_done *)
WPublish(c) ==
  /\ pc[c] = "publish" /\ Goto(c, "advance")
  /\ numData' = numData + 1
  /\ written' = Append(written, data[writeIdx])
  /\ UNCHANGED <<readIdx, writeIdx, refCount, data, holder, shm, ref,
                 quitting, sent, clock, received, dropped>>

Succ(k) == IF k >= NumEntry - 1 THEN 0 ELSE k + 1

WAdvance(c) ==
  /\ pc[c] = "advance" /\ Goto(c, After(c))
  /\ writeIdx' = Succ(writeIdx)
  /\ RELEASE(c)
  /\ UNCHANGED <<numData, readIdx, refCount, data, shm, ref, quitting, sent,
                 clock, history>>

------------------------------------------------------------------------------
(* fc_fifo_close, by a client in _fini and by the manager when it is done  *)

CloseTest(p) ==
  /\ pc[p] = "close" /\ Goto(p, IF refCount = 0 THEN "detach" ELSE "load")
  /\ ref' = [ref EXCEPT ![p] = 0]
  /\ UNCHANGED <<control, refCount, holder, shm, quitting, sent, clock, history>>

CloseLoad(p) ==
  /\ pc[p] = "load" /\ Goto(p, "store")
  /\ ref' = [ref EXCEPT ![p] = Decr(refCount)]
  /\ UNCHANGED <<control, refCount, holder, shm, quitting, sent, clock, history>>

(* a bug: the count of the program is not given back *)
CloseStore_Manager(p) ==
  /\ pc[p] = "store" /\ Goto(p, "detach")
  /\ refCount' = IF p = Manager THEN ref[p] ELSE refCount
  /\ UNCHANGED <<control, holder, shm, ref, quitting, sent, clock, history>>

CloseStore(p) ==
  /\ pc[p] = "store" /\ Goto(p, "detach")
  /\ refCount' = ref[p]
  /\ UNCHANGED <<control, holder, shm, ref, quitting, sent, clock, history>>

(* shmdt; the manager removes the segment when the count came down to 0.   *)
(* In THREAD mode the segment is gone for all threads, and the process     *)
(* ends with those that are left, wherever they are.                       *)
Detach(p) ==
  /\ p \notin dead
  /\ pc[p] = "detach" /\ pc' = [pc EXCEPT ![p] = "gone"]
  /\ dead' = dead \cup {c \in Clients \ {p} : Mode = "THREAD" /\ p = Root /\ pc[c] # "gone"}
  /\ shm' = (shm /\ ~(p = Manager /\ ref[p] = 0))
  /\ UNCHANGED <<control, refCount, holder, ref, quitting, sent, clock, history>>

------------------------------------------------------------------------------
(* The manager *)

(* fc_fifo_connect: refCount++ is a load and a store *)
ConnectLoad ==
  /\ pc[Manager] = "boot" /\ Goto(Manager, "attach")
  /\ ref' = [ref EXCEPT ![Manager] = Incr(refCount)]
  /\ UNCHANGED <<control, refCount, holder, shm, quitting, sent, clock, history>>

ConnectStore ==
  /\ pc[Manager] = "attach" /\ Goto(Manager, "acquire")
  /\ refCount' = ref[Manager]
  /\ UNCHANGED <<control, holder, shm, ref, quitting, sent, clock, history>>

(* fc_fifo_read_single *)
RAcquire ==
  /\ pc[Manager] = "acquire" /\ Goto(Manager, "data")
  /\ ACQUIRE(Manager)
  /\ UNCHANGED <<control, refCount, shm, ref, quitting, sent, clock, history>>

RData ==
  /\ pc[Manager] = "data" /\ Goto(Manager, IF numData = 0 THEN "alone" ELSE "copy")
  /\ UNCHANGED <<control, refCount, holder, shm, ref, quitting, sent, clock, history>>

(* a bug: no second look at numData *)
RAlone_NoRecheck ==
  /\ pc[Manager] = "alone" /\ refCount <= 1
  /\ Goto(Manager, "close")
  /\ RELEASE(Manager)
  /\ UNCHANGED <<control, refCount, shm, ref, quitting, sent, clock, history>>

RAlone ==
  /\ pc[Manager] = "alone" /\ refCount <= 1
  /\ Goto(Manager, "recheck")
  /\ UNCHANGED <<control, refCount, holder, shm, ref, quitting, sent, clock, history>>

(* a bug: the manager keeps the lock while it waits *)
RPoll_KeepsLock ==
  /\ pc[Manager] = "alone" /\ refCount > 1
  /\ Goto(Manager, "acquire")
  /\ UNCHANGED <<control, refCount, holder, shm, ref, quitting, sent, clock, history>>

RPoll ==
  /\ pc[Manager] = "alone" /\ refCount > 1
  /\ Goto(Manager, "acquire")
  /\ RELEASE(Manager)
  /\ UNCHANGED <<control, refCount, shm, ref, quitting, sent, clock, history>>

(* the second look at numData, after the sleep *)
RRecheck ==
  /\ pc[Manager] = "recheck" /\ numData > 0
  /\ Goto(Manager, "copy")
  /\ UNCHANGED <<control, refCount, holder, shm, ref, quitting, sent, clock, history>>

(* end of stream: main leaves its loop, saves the profile, closes the FIFO *)
REnd ==
  /\ pc[Manager] = "recheck" /\ numData = 0
  /\ Goto(Manager, "close")
  /\ RELEASE(Manager)
  /\ UNCHANGED <<control, refCount, shm, ref, quitting, sent, clock, history>>

(* fc_mcom_read takes the fields out of the slot *)
RCopy ==
  /\ pc[Manager] = "copy" /\ Goto(Manager, "consume")
  /\ received' = Append(received, data[readIdx])
  /\ UNCHANGED <<control, refCount, holder, shm, ref, quitting, sent, clock,
                 written, dropped>>

(* fc_fifo_read_single_done *)
RConsume ==
  /\ pc[Manager] = "consume" /\ Goto(Manager, "advance")
  /\ numData' = numData - 1
  /\ UNCHANGED <<readIdx, writeIdx, refCount, data, holder, shm, ref,
                 quitting, sent, clock, history>>

(* a bug: the read index stays *)
RAdvance_Forgotten ==
  /\ pc[Manager] = "advance" /\ Goto(Manager, "acquire")
  /\ RELEASE(Manager)
  /\ UNCHANGED <<control, refCount, shm, ref, quitting, sent, clock, history>>

RAdvance ==
  /\ pc[Manager] = "advance" /\ Goto(Manager, "acquire")
  /\ readIdx' = Succ(readIdx)
  /\ RELEASE(Manager)
  /\ UNCHANGED <<numData, writeIdx, refCount, data, shm, ref, quitting, sent,
                 clock, history>>

------------------------------------------------------------------------------
Close(p) == CloseTest(p) \/ CloseLoad(p) \/ CloseStore(p) \/ Detach(p)

Write(c) == \/ WRoom(c) \/ WDrop(c) \/ WRetry(c) \/ WFill(c)
            \/ WPublish(c) \/ WAdvance(c)

Program(c) == Fork(c) \/ Send(c) \/ Quit(c) \/ Leave(c)

Read == \/ ConnectLoad \/ ConnectStore \/ RData \/ RAlone \/ RPoll
        \/ RRecheck \/ REnd \/ RCopy \/ RConsume \/ RAdvance

Next == \/ \E c \in Clients : Program(c) \/ WAcquire(c) \/ Write(c) \/ Close(c)
        \/ RAcquire \/ Read \/ Close(Manager)
        \/ \E p \in Procs : Die(p)

Spec == Init /\ [][Next]_vars

(* What is begun goes on: every process inside libfc and the manager are   *)
(* scheduled, and the bakery lets everyone in, however often the others    *)
(* come back (FcSemaphore!NoStarvation).                                   *)
Fairness ==
  /\ \A c \in Clients : SF_vars(WAcquire(c)) /\ WF_vars(Write(c)) /\ WF_vars(Close(c))
  /\ SF_vars(RAcquire) /\ WF_vars(Read) /\ WF_vars(Close(Manager))

FairSpec == Spec /\ Fairness

------------------------------------------------------------------------------
Event == Clients \X Nat \X (Nat \cup {NoTime})

TypeOK ==
  /\ numData \in 0 .. NumEntry
  /\ readIdx \in Index /\ writeIdx \in Index
  /\ refCount \in 0 .. RefLimit - 1
  /\ data \in [Index -> Event]
  /\ holder \in Procs \cup {NoOne}
  /\ shm \in BOOLEAN
  /\ pc \in [Procs -> {"unborn", "run", "acquire", "room", "full", "fill",
                       "publish", "advance", "close", "load", "store",
                       "detach", "gone", "boot", "attach", "data", "alone",
                       "recheck", "copy", "consume"}]
  /\ ref \in [Procs -> 0 .. RefLimit - 1]
  /\ quitting \in [Clients -> BOOLEAN]
  /\ sent \in [Clients -> 0 .. MaxEvents]
  /\ dead \subseteq Procs
  /\ clock \in 0 .. MaxTime
  /\ written \in Seq(Event) /\ received \in Seq(Event)

(* The stream: the manager has read exactly the events published first, in *)
(* the order they were published, each once (the indices, the slots and    *)
(* numData are moved by different processes in separate steps).            *)
InOrder ==
  /\ Len(received) <= Len(written)
  /\ \A k \in 1 .. Len(received) : received[k] = written[k]

(* fc_mcom_read works on the slot itself: no writer fills the slot that    *)
(* the manager is taking an event from.                                    *)
NoOverwrite ==
  pc[Manager] = "copy" =>
    \A c \in Clients : pc[c] \in {"fill", "publish"} => writeIdx # readIdx

(* With one clock for all, the times of the events that bear one never run *)
(* backwards in the stream, whichever clients they come from and whatever  *)
(* comes between them: the time is read while the slot is held.            *)
TimeOrdered ==
  \A j, k \in 1 .. Len(written) :
    j < k /\ written[j][3] # NoTime /\ written[k][3] # NoTime
      => written[j][3] <= written[k][3]

(* In THREAD mode a program may end its other threads before it exits, and *)
(* is then like one with a single thread.  Nothing in libfc sees to it: a  *)
(* thread that still sends may lose its events, or keep the lock for ever. *)
Joined ==
  quitting[Root] => \A c \in Clients \ {Root} : pc[c] \in {"unborn", "gone"}

(* A client that is done with libfc *)
Over(c) == pc[c] \in {"unborn", "detach", "gone"}

(* The manager has left its loop *)
Ended == pc[Manager] \in {"close", "load", "store", "detach", "gone"}

(* "ret==0 => pipe closed => all clients are over" (main.c), and the       *)
(* profile that is then saved has every published event in it: the manager *)
(* looks at numData and at refCount in two steps, and the last event and   *)
(* the last close may come between them.                                   *)
EndMeansOver ==
  Ended => (\A c \in Clients : Over(c)) /\ received = written

(* Once the manager is attached no event is given up: a full FIFO delays   *)
(* the program, also when it is closing.                                   *)
KeptOnceAttached ==
  [][dropped' # dropped => pc[Manager] \in {"boot", "attach"}]_vars

(* A process that holds the lock, or the manager, was killed; or two have  *)
(* closed at once, and the count ran below zero between test and load.     *)
Stuck == holder \in dead \/ Manager \in dead \/ refCount > 2

(* A manager attached before the program leaves _fini ends after it,       *)
(* whichever other processes are killed, and wherever, unless Stuck.       *)
Attached == pc[Manager] \notin {"boot", "attach"}
ManagerFinishes ==
  Attached /\ pc[Root] = "acquire" /\ quitting[Root]
    ~> pc[Manager] = "gone" \/ Stuck \/ Root \in dead

(* Profiling does not block the program: whoever has an event to send gets *)
(* on, with the event sent or given up, whether the manager is not there   *)
(* yet, slow or over, and whichever processes are killed, unless Stuck.    *)
WritersGoOn ==
  \A c \in Clients :
    pc[c] = "acquire" ~> pc[c] \in {"run", "close"} \/ Stuck \/ c \in dead

(* "At exit time (when the stream between the program and fcmanager is     *)
(* cutted), all these data are dumped into a file" (libfc.texi).           *)
DumpedAtExit ==
  pc[Root] = "gone" \/ Root \in dead ~> pc[Manager] = "gone" \/ Manager \in dead

(* the stream of events the FIFO implements *)
Stream == INSTANCE FcStream WITH over <- Ended
StreamImplemented == Stream!Spec
=============================================================================

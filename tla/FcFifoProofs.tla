---------------------------- MODULE FcFifoProofs ----------------------------
(***************************************************************************)
(* The FIFO delivers the published events in order and never overwrites a  *)
(* slot that is being read, for every capacity, every mode and every set   *)
(* of clients.                                                             *)
(***************************************************************************)
EXTENDS FcFifo, TLAPS

(* where a client, or the manager, holds the lock in the locked modes *)
WCritical == {"room", "full", "fill", "publish", "advance"}
RCritical == {"data", "alone", "recheck", "copy", "consume", "advance"}

LockInv ==
  /\ pc[Manager] \in RCritical => Single \/ holder = Manager
  /\ \A c \in Clients : pc[c] \in WCritical => Single \/ holder = c

(* At most one client is between the two ends of a write (write_single and *)
(* write_single_done): a slot is filled by one client at a time.           *)
OneWriter ==
  \A c, d \in Clients : pc[c] \in WCritical /\ pc[d] \in WCritical => c = d

(* n slots after slot k, once around at most *)
Ring(k, n) == IF k + n < NumEntry THEN k + n ELSE k + n - NumEntry

(* the first published slot and the first free one: an index lags behind   *)
(* numData between the update of numData and its own                       *)
First == IF pc[Manager] = "advance" THEN Succ(readIdx) ELSE readIdx
Free == IF \E c \in Clients : pc[c] = "advance" THEN Succ(writeIdx) ELSE writeIdx

RingInv == Free = Ring(First, numData)

(* numData counts the events not yet read, and the one being consumed *)
CountInv ==
  /\ Len(written) = Len(received) + numData - (IF pc[Manager] = "consume" THEN 1 ELSE 0)
  /\ pc[Manager] = "consume" => received # <<>>

(* the published slots hold the last numData events, in order *)
SlotsInv ==
  \A n \in 0 .. numData - 1 :
    data[Ring(First, n)] = written[Len(written) - numData + n + 1]

RoomInv ==
  /\ \A c \in Clients : pc[c] \in {"fill", "publish"} => numData < NumEntry
  /\ pc[Manager] \in {"copy", "consume"} => numData > 0

(* labels that only a client, or only the manager, is at *)
LabelInv ==
  /\ \A c \in Clients : pc[c] \notin {"boot", "attach", "data", "alone", "recheck",
                                      "copy", "consume"}
  /\ pc[Manager] \notin {"unborn", "run", "room", "full", "fill", "publish"}

ControlInv == TypeOK /\ LockInv /\ LabelInv /\ RoomInv
DataInv == RingInv /\ CountInv /\ SlotsInv /\ InOrder
(* The inductive invariant of the FIFO: seen through the lag of the two    *)
(* indices, the published slots are a ring of numData events, the last     *)
(* ones of the stream, and the manager has read all the others.            *)
FifoInv == ControlInv /\ DataInv
------------------------------------------------------------------------------
(* In the locked modes the lock, in SINGLE mode the only client, keeps two *)
(* clients from being at work at once.                                     *)
LEMMA OneWriterHolds == FifoInv => OneWriter
BY FifoAssumption DEF FifoInv, ControlInv, LockInv, OneWriter, Single

(* fc_fifo_create: an empty FIFO *)
LEMMA InitInv == Init => FifoInv
<1> SUFFICES ASSUME Init PROVE FifoInv
  OBVIOUS
<1> USE FifoAssumption DEF Init, Procs, Index
<1>1. TypeOK
  BY DEF TypeOK, NoEvent, Event, Lock!Init
<1>2. LockInv /\ LabelInv /\ RoomInv
  BY DEF LockInv, LabelInv, RoomInv, RCritical, WCritical
<1>3. RingInv /\ CountInv /\ SlotsInv /\ InOrder
  BY DEF RingInv, CountInv, SlotsInv, InOrder, Ring, First, Free
<1> QED
  BY <1>1, <1>2, <1>3 DEF FifoInv, ControlInv, DataInv

(* A step that leaves the indices, the slots and the stream alone, and at  *)
(* which no process goes to or comes from an update of them, keeps the     *)
(* part of the invariant about the data.                                   *)
LEMMA QuietData ==
  ASSUME FifoInv, UNCHANGED <<numData, readIdx, writeIdx, data, written, received>>,
         pc'[Manager] = "advance" <=> pc[Manager] = "advance",
         pc'[Manager] = "consume" <=> pc[Manager] = "consume",
         \A c \in Clients : pc'[c] = "advance" <=> pc[c] = "advance"
  PROVE  DataInv'
<1>1. First' = First /\ Free' = Free
  BY DEF First, Free
<1>2. RingInv' /\ CountInv' /\ InOrder'
  BY <1>1 DEF FifoInv, DataInv, RingInv, CountInv, InOrder, Ring
<1>3. SlotsInv'
  BY <1>1 DEF FifoInv, DataInv, SlotsInv, Ring
<1> QED
  BY <1>2, <1>3 DEF DataInv

(* Steps of a client that do not touch the data. *)
LEMMA QuietClient ==
  ASSUME NEW c \in Clients, FifoInv,
         Program(c) \/ WAcquire(c) \/ WRoom(c) \/ WDrop(c) \/ WRetry(c)
  PROVE  FifoInv'
<1> USE FifoAssumption DEF FifoInv, ControlInv, Procs, Index, Goto, control, history
<1>1. CASE Fork(c)
  <2>1. ControlInv'
    BY <1>1 DEF Fork, TypeOK, LockInv, LabelInv, RoomInv, RCritical, WCritical
  <2> QED
    BY <1>1, <2>1, QuietData DEF Fork, TypeOK, LabelInv
<1>2. CASE Send(c)
  <2>1. ControlInv'
    BY <1>2 DEF Send, TypeOK, LockInv, LabelInv, RoomInv, RCritical, WCritical
  <2> QED
    BY <1>2, <2>1, QuietData DEF Send, TypeOK, LabelInv
<1>3. CASE Quit(c)
  <2>1. ControlInv'
    BY <1>3 DEF Quit, TypeOK, LockInv, LabelInv, RoomInv, RCritical, WCritical
  <2> QED
    BY <1>3, <2>1, QuietData DEF Quit, TypeOK, LabelInv
<1>4. CASE Leave(c)
  <2>1. ControlInv'
    BY <1>4 DEF Leave, TypeOK, LockInv, LabelInv, RoomInv, RCritical, WCritical
  <2> QED
    BY <1>4, <2>1, QuietData DEF Leave, TypeOK, LabelInv
<1>5. CASE WAcquire(c)
  <2>1. ControlInv'
    BY <1>5 DEF WAcquire, TypeOK, LockInv, LabelInv, RoomInv, RCritical, WCritical,
                ACQUIRE, RELEASE, Single, Lock!Acquire, Lock!Release
  <2> QED
    BY <1>5, <2>1, QuietData DEF WAcquire, TypeOK, LabelInv
<1>6. CASE WRoom(c)
  <2>1. ControlInv'
    BY <1>6 DEF WRoom, TypeOK, LockInv, LabelInv, RoomInv, RCritical, WCritical
  <2> QED
    BY <1>6, <2>1, QuietData DEF WRoom, TypeOK, LabelInv
<1>7. CASE WDrop(c)
  <2>1. ControlInv'
    BY <1>7 DEF WDrop, TypeOK, LockInv, LabelInv, RoomInv, RCritical, WCritical,
                After, ACQUIRE, RELEASE, Single, Lock!Acquire, Lock!Release
  <2> QED
    BY <1>7, <2>1, QuietData DEF WDrop, TypeOK, LabelInv, After
<1>8. CASE WRetry(c)
  <2>1. ControlInv'
    BY <1>8 DEF WRetry, TypeOK, LockInv, LabelInv, RoomInv, RCritical, WCritical,
                ACQUIRE, RELEASE, Single, Lock!Acquire, Lock!Release
  <2> QED
    BY <1>8, <2>1, QuietData DEF WRetry, TypeOK, LabelInv
<1> QED
  BY <1>1, <1>2, <1>3, <1>4, <1>5, <1>6, <1>7, <1>8 DEF Program

(* Closing moves refCount and the segment only. *)
LEMMA QuietClose ==
  ASSUME NEW p \in Procs, FifoInv, Close(p)
  PROVE  FifoInv'
<1> USE FifoAssumption DEF FifoInv, ControlInv, Procs, Index, Goto, control, history
<1>1. CASE CloseTest(p)
  <2>1. ControlInv'
    BY <1>1 DEF CloseTest, TypeOK, LockInv, LabelInv, RoomInv, RCritical, WCritical
  <2> QED
    BY <1>1, <2>1, QuietData DEF CloseTest, TypeOK, LabelInv
<1>2. CASE CloseLoad(p)
  <2>1. ControlInv'
    BY <1>2 DEF CloseLoad, TypeOK, LockInv, LabelInv, RoomInv, RCritical, WCritical, Decr
  <2> QED
    BY <1>2, <2>1, QuietData DEF CloseLoad, TypeOK, LabelInv
<1>3. CASE CloseStore(p)
  <2>1. ControlInv'
    BY <1>3 DEF CloseStore, TypeOK, LockInv, LabelInv, RoomInv, RCritical, WCritical
  <2> QED
    BY <1>3, <2>1, QuietData DEF CloseStore, TypeOK, LabelInv
<1>4. CASE Detach(p)
  <2>1. ControlInv'
    BY <1>4 DEF Detach, TypeOK, LockInv, LabelInv, RoomInv, RCritical, WCritical
  <2> QED
    BY <1>4, <2>1, QuietData DEF Detach, TypeOK, LabelInv
<1> QED
  BY <1>1, <1>2, <1>3, <1>4 DEF Close

(* Steps of the manager that do not touch the data. *)
LEMMA QuietManager ==
  ASSUME FifoInv,
         ConnectLoad \/ ConnectStore \/ RAcquire \/ RData \/ RAlone \/ RPoll \/ RRecheck \/ REnd
  PROVE  FifoInv'
<1> USE FifoAssumption DEF FifoInv, ControlInv, Procs, Index, Goto, control, history
<1>1. CASE ConnectLoad
  <2>1. ControlInv'
    BY <1>1 DEF ConnectLoad, TypeOK, LockInv, LabelInv, RoomInv, RCritical, WCritical, Incr
  <2> QED
    BY <1>1, <2>1, QuietData DEF ConnectLoad, TypeOK, LabelInv
<1>2. CASE ConnectStore
  <2>1. ControlInv'
    BY <1>2 DEF ConnectStore, TypeOK, LockInv, LabelInv, RoomInv, RCritical, WCritical
  <2> QED
    BY <1>2, <2>1, QuietData DEF ConnectStore, TypeOK, LabelInv
<1>3. CASE RAcquire
  <2>1. ControlInv'
    BY <1>3 DEF RAcquire, TypeOK, LockInv, LabelInv, RoomInv, RCritical, WCritical,
                ACQUIRE, RELEASE, Single, Lock!Acquire, Lock!Release
  <2> QED
    BY <1>3, <2>1, QuietData DEF RAcquire, TypeOK, LabelInv
<1>4. CASE RData
  <2>1. ControlInv'
    BY <1>4 DEF RData, TypeOK, LockInv, LabelInv, RoomInv, RCritical, WCritical
  <2> QED
    BY <1>4, <2>1, QuietData DEF RData, TypeOK, LabelInv
<1>5. CASE RAlone
  <2>1. ControlInv'
    BY <1>5 DEF RAlone, TypeOK, LockInv, LabelInv, RoomInv, RCritical, WCritical
  <2> QED
    BY <1>5, <2>1, QuietData DEF RAlone, TypeOK, LabelInv
<1>6. CASE RPoll
  <2>1. ControlInv'
    BY <1>6 DEF RPoll, TypeOK, LockInv, LabelInv, RoomInv, RCritical, WCritical,
                ACQUIRE, RELEASE, Single, Lock!Acquire, Lock!Release
  <2> QED
    BY <1>6, <2>1, QuietData DEF RPoll, TypeOK, LabelInv
<1>7. CASE RRecheck
  <2>1. ControlInv'
    BY <1>7 DEF RRecheck, TypeOK, LockInv, LabelInv, RoomInv, RCritical, WCritical
  <2> QED
    BY <1>7, <2>1, QuietData DEF RRecheck, TypeOK, LabelInv
<1>8. CASE REnd
  <2>1. ControlInv'
    BY <1>8 DEF REnd, TypeOK, LockInv, LabelInv, RoomInv, RCritical, WCritical,
                ACQUIRE, RELEASE, Single, Lock!Acquire, Lock!Release
  <2> QED
    BY <1>8, <2>1, QuietData DEF REnd, TypeOK, LabelInv
<1> QED
  BY <1>1, <1>2, <1>3, <1>4, <1>5, <1>6, <1>7, <1>8

(* A client fills the free slot with an event of its own, whose time, if   *)
(* it bears one, is the clock's.                                           *)
LEMMA FilledEvent ==
  ASSUME TypeOK, NEW c \in Clients, WFill(c)
  PROVE  \E e \in Event :
           /\ data' = [data EXCEPT ![writeIdx] = e]
           /\ clock' \in 0 .. MaxTime /\ (OneClock => clock <= clock')
           /\ e[3] = NoTime \/ e[3] = clock'
<1>0. /\ c \in Clients /\ Number(c) \in Nat /\ clock \in 0 .. MaxTime
      /\ \A e \in Nat \cup {NoTime} :
           <<c, Number(c), e>> \in Event /\ <<c, Number(c), e>>[3] = e
  <2>1. Number(c) \in Nat /\ clock \in 0 .. MaxTime
    BY FifoAssumption DEF Number, TypeOK
  <2> QED
    BY <2>1 DEF Event
<1>1. CASE <<c, Number(c)>> \in Untimed
  <2> DEFINE e == <<c, Number(c), NoTime>>
  <2>1. data' = [data EXCEPT ![writeIdx] = e] /\ clock' = clock
    BY <1>1 DEF WFill
  <2>2. e \in Event /\ e[3] = NoTime
    BY <1>0
  <2>3. clock' \in 0 .. MaxTime /\ clock <= clock'
    BY <1>0, <2>1, FifoAssumption
  <2> HIDE DEF e
  <2> QED
    BY ONLY <2>1, <2>2, <2>3
<1>2. CASE <<c, Number(c)>> \notin Untimed
  <2>1. PICK time \in Readings :
          data' = [data EXCEPT ![writeIdx] = <<c, Number(c), time>>] /\ clock' = time
    BY <1>2 DEF WFill
  <2>2. time \in 0 .. MaxTime /\ (OneClock => clock <= time)
    BY <1>0, FifoAssumption DEF Readings
  <2> DEFINE e == <<c, Number(c), time>>
  <2>3. e \in Event /\ e[3] = time
    BY <1>0, <2>2
  <2>4. data' = [data EXCEPT ![writeIdx] = e]
    BY <2>1
  <2> HIDE DEF e
  <2> QED
    BY ONLY <2>1, <2>2, <2>3, <2>4
<1> QED
  BY <1>1, <1>2

(* Filling the free slot touches no published one. *)
LEMMA FillStep == ASSUME NEW c \in Clients, FifoInv, WFill(c) PROVE FifoInv'
<1> USE FifoAssumption DEF FifoInv, ControlInv, WFill, Procs, Index, Goto, history
<1>1. ControlInv'
  <2>1. PICK e \in Event : data' = [data EXCEPT ![writeIdx] = e] /\ clock' \in 0 .. MaxTime
    BY FilledEvent DEF TypeOK
  <2>2. data' \in [Index -> Event]
    BY <2>1 DEF TypeOK
  <2>3. TypeOK'
    BY <2>1, <2>2, SMTT(60) DEF TypeOK
  <2> QED
    BY <2>3 DEF TypeOK, LockInv, LabelInv, RoomInv, RCritical, WCritical
<1>2. First' = First /\ Free' = Free /\ Free = writeIdx
  BY OneWriterHolds DEF First, Free, OneWriter, WCritical, TypeOK, LabelInv
<1>3. RingInv' /\ CountInv' /\ InOrder'
  BY <1>2 DEF DataInv, RingInv, CountInv, InOrder, Ring, TypeOK, LabelInv
<1>4. SlotsInv'
  <2>1. First \in Index /\ numData \in Nat /\ numData < NumEntry
    BY DEF First, Succ, TypeOK, RoomInv
  <2>2. \A n \in 0 .. numData - 1 : Ring(First, n) # writeIdx /\ Ring(First, n) \in Index
    BY <1>2, <2>1 DEF DataInv, RingInv, Ring
  <2> QED
    BY <1>2, <2>2 DEF DataInv, SlotsInv, Ring, TypeOK
<1> QED
  BY <1>1, <1>3, <1>4 DEF DataInv

(* Publishing makes the filled slot the last of the published ones. *)
LEMMA PublishStep == ASSUME NEW c \in Clients, FifoInv, WPublish(c) PROVE FifoInv'
<1> USE FifoAssumption DEF FifoInv, ControlInv
<1>0. /\ numData \in Nat /\ numData < NumEntry /\ First \in Index
      /\ written \in Seq(Event) /\ received \in Seq(Event)
      /\ writeIdx \in Index /\ data[writeIdx] \in Event
  BY DEF WPublish, Index, First, Succ, TypeOK, RoomInv
<1>1. /\ Len(written) \in Nat /\ Len(received) \in Nat
      /\ Len(written') = Len(written) + 1
      /\ written'[Len(written) + 1] = data[writeIdx]
      /\ \A k \in 1 .. Len(written) : written'[k] = written[k]
  BY <1>0 DEF WPublish
<1>2. ControlInv'
  <2>1. written' \in Seq(Event) /\ numData' \in 0 .. NumEntry
    BY <1>0 DEF WPublish
  <2>2. TypeOK'
    BY <2>1, SMTT(60) DEF TypeOK, WPublish, Procs, Index, Goto
  <2>3. RoomInv'
    BY OneWriterHolds, <1>0, SMTT(60)
       DEF WPublish, Procs, Goto, RoomInv, OneWriter, WCritical, TypeOK, LabelInv
  <2> QED
    BY <2>2, <2>3
       DEF WPublish, Procs, Goto, TypeOK, LockInv, LabelInv, RCritical, WCritical
<1>3. /\ numData' = numData + 1 /\ data' = data /\ received' = received
      /\ pc'[Manager] = pc[Manager] /\ First' = First
      /\ Free = writeIdx /\ Free' = Succ(writeIdx)
  BY OneWriterHolds DEF WPublish, Procs, Goto, First, Free, OneWriter, WCritical,
                        TypeOK, LabelInv, Succ
<1>4. RingInv'
  BY <1>0, <1>3 DEF DataInv, RingInv, Ring, Succ, Index
<1>5. CountInv' /\ InOrder'
  <2>1. CountInv'
    <3>1. CASE pc[Manager] = "consume"
      BY <1>0, <1>1, <1>3, <3>1 DEF DataInv, CountInv
    <3>2. CASE pc[Manager] # "consume"
      BY <1>0, <1>1, <1>3, <3>2 DEF DataInv, CountInv
    <3> QED
      BY <3>1, <3>2
  <2>2. InOrder'
    BY <1>1, <1>3 DEF DataInv, InOrder
  <2> QED
    BY <2>1, <2>2
<1>6. SlotsInv'
  <2> SUFFICES ASSUME NEW n \in 0 .. numData
               PROVE  data[Ring(First, n)] = written'[Len(written) - numData + n + 1]
    <3>1. numData' - 1 = numData /\ Len(written') - numData' = Len(written) - numData
      BY <1>0, <1>1, <1>3
    <3>2. \A n : Ring(First, n)' = Ring(First, n)
      BY <1>3 DEF Ring
    <3> QED
      BY <1>3, <3>1, <3>2 DEF SlotsInv
  <2>1. CASE n = numData
    <3>1. Ring(First, n) = writeIdx
      BY <1>3, <2>1 DEF DataInv, RingInv
    <3>2. Len(written) - numData + n + 1 = Len(written) + 1
      BY <1>0, <1>1, <2>1
    <3> QED
      BY <1>1, <3>1, <3>2
  <2>2. CASE n < numData
    <3>1. pc[Manager] = "consume" => Len(received) > 0
      BY <1>0, <1>1 DEF DataInv, CountInv
    <3>2. Len(written) - numData >= 0
      BY <1>0, <1>1, <3>1 DEF DataInv, CountInv
    <3>3. Len(written) - numData + n + 1 \in 1 .. Len(written)
      BY <1>0, <1>1, <2>2, <3>2
    <3>4. n \in 0 .. numData - 1
      BY <1>0, <2>2
    <3>5. data[Ring(First, n)] = written[Len(written) - numData + n + 1]
      BY <3>4 DEF DataInv, SlotsInv
    <3> QED
      BY <1>1, <3>3, <3>5
  <2> QED
    BY <1>0, <2>1, <2>2
<1> QED
  BY <1>2, <1>4, <1>5, <1>6 DEF DataInv

(* The write index catches up with numData. *)
LEMMA WAdvanceStep == ASSUME NEW c \in Clients, FifoInv, WAdvance(c) PROVE FifoInv'
<1> USE FifoAssumption DEF FifoInv, ControlInv, WAdvance, Procs, Index, Goto, history
<1>1. ControlInv'
  <2>1. TypeOK'
    BY DEF TypeOK, RELEASE, Single, Lock!Release, After, Succ
  <2> QED
    BY <2>1 DEF TypeOK, LockInv, LabelInv, RoomInv, RCritical, WCritical, RELEASE,
                Single, Lock!Release, After
<1>2. First' = First /\ Free' = Free
  BY OneWriterHolds DEF First, Free, OneWriter, WCritical, TypeOK, LabelInv, Succ, After
<1>3. RingInv' /\ CountInv' /\ InOrder' /\ SlotsInv'
  BY <1>2 DEF DataInv, RingInv, CountInv, InOrder, SlotsInv, Ring, TypeOK, LabelInv, After
<1> QED
  BY <1>1, <1>3 DEF DataInv

(* The slot at readIdx holds the first event that was not read yet. *)
LEMMA CopyStep == ASSUME FifoInv, RCopy PROVE FifoInv'
<1> USE FifoAssumption DEF FifoInv, ControlInv, RCopy, Procs, Index, Goto, control
<1>0. /\ numData \in Nat /\ numData > 0 /\ readIdx \in Index
      /\ written \in Seq(Event) /\ received \in Seq(Event)
      /\ data[readIdx] \in Event
      /\ Len(written) = Len(received) + numData
  BY DEF TypeOK, RoomInv, DataInv, CountInv
<1>1. ControlInv'
  <2>1. TypeOK'
    BY <1>0, SMTT(20) DEF TypeOK
  <2> QED
    BY <2>1 DEF TypeOK, LockInv, LabelInv, RoomInv, RCritical, WCritical
<1>2. First' = First /\ Free' = Free /\ First = readIdx
  BY DEF First, Free, TypeOK, LabelInv
<1>3. data[readIdx] = written[Len(received) + 1]
  <2>1. Ring(First, 0) = readIdx
    BY <1>0, <1>2 DEF Ring
  <2> QED
    BY <1>0, <2>1 DEF DataInv, SlotsInv
<1>4. /\ Len(received) \in Nat
      /\ Len(received') = Len(received) + 1 /\ received' # <<>>
      /\ received'[Len(received) + 1] = data[readIdx]
      /\ \A k \in 1 .. Len(received) : received'[k] = received[k]
  BY <1>0
<1>5. CountInv' /\ InOrder' /\ RingInv' /\ SlotsInv'
  <2>1. pc'[Manager] = "consume" /\ written' = written /\ numData' = numData
    BY DEF TypeOK
  <2>2. CountInv'
    BY <1>0, <1>4, <2>1 DEF CountInv
  <2>3. InOrder'
    BY <1>0, <1>3, <1>4, <2>1 DEF DataInv, InOrder
  <2> QED
    BY <1>2, <2>2, <2>3 DEF DataInv, RingInv, SlotsInv, Ring
<1> QED
  BY <1>1, <1>5 DEF DataInv

(* Consuming an event makes the next slot the first of the published ones. *)
LEMMA ConsumeStep == ASSUME FifoInv, RConsume PROVE FifoInv'
<1> USE FifoAssumption DEF FifoInv, ControlInv, RConsume, Procs, Index, Goto, history
<1>0. /\ numData \in Nat /\ numData > 0 /\ numData <= NumEntry /\ readIdx \in Index
  BY DEF TypeOK, RoomInv
<1>1. ControlInv'
  BY <1>0 DEF TypeOK, LockInv, LabelInv, RoomInv, RCritical, WCritical
<1>2. First = readIdx /\ First' = Succ(readIdx) /\ Free' = Free
  BY DEF First, Free, TypeOK, LabelInv, Succ
<1>3. \A n \in 0 .. numData - 1 : Ring(Succ(readIdx), n) = Ring(readIdx, n + 1)
  BY <1>0 DEF Ring, Succ
<1>4. RingInv'
  BY <1>0, <1>2, <1>3 DEF DataInv, RingInv, Ring
<1>5. CountInv' /\ InOrder'
  BY <1>0 DEF DataInv, CountInv, InOrder, TypeOK
<1>6. SlotsInv'
  <2> SUFFICES ASSUME NEW n \in 0 .. numData - 2
               PROVE  data[Ring(Succ(readIdx), n)] = written[Len(written) - numData + n + 2]
    BY <1>0, <1>2 DEF SlotsInv, Ring, TypeOK
  <2>1. n + 1 \in 0 .. numData - 1
    BY <1>0
  <2>2. data[Ring(First, n + 1)] = written[Len(written) - numData + (n + 1) + 1]
    BY <2>1 DEF DataInv, SlotsInv
  <2>3. Ring(Succ(readIdx), n) = Ring(First, n + 1)
    BY <1>0, <1>2, <1>3
  <2>4. Len(written) - numData + (n + 1) + 1 = Len(written) - numData + n + 2
    BY <1>0 DEF TypeOK
  <2> QED
    BY ONLY <2>2, <2>3, <2>4
<1> QED
  BY <1>1, <1>4, <1>5, <1>6 DEF DataInv

(* The read index catches up with numData. *)
LEMMA RAdvanceStep == ASSUME FifoInv, RAdvance PROVE FifoInv'
<1> USE FifoAssumption DEF FifoInv, ControlInv, RAdvance, Procs, Index, Goto, history
<1>1. ControlInv'
  <2>1. TypeOK'
    BY DEF TypeOK, RELEASE, Single, Lock!Release, Succ
  <2> QED
    BY <2>1 DEF TypeOK, LockInv, LabelInv, RoomInv, RCritical, WCritical, RELEASE,
                Single, Lock!Release
<1>2. First' = First /\ Free' = Free
  BY DEF First, Free, TypeOK, LabelInv, Succ
<1>3. RingInv' /\ CountInv' /\ InOrder' /\ SlotsInv'
  BY <1>2 DEF DataInv, RingInv, CountInv, InOrder, SlotsInv, Ring, TypeOK, LabelInv
<1> QED
  BY <1>1, <1>3 DEF DataInv

(* A process that is killed changes nothing by it. *)
LEMMA DieStep ==
  ASSUME FifoInv, NEW p \in Procs, Die(p)
  PROVE  FifoInv'
<1> USE DEF Die, control, history
<1>1. ControlInv'
  BY DEF FifoInv, ControlInv, TypeOK, LockInv, LabelInv, RoomInv, Procs
<1> QED
  BY <1>1, QuietData DEF FifoInv

(* Every step keeps the invariant. *)
LEMMA NextInv == FifoInv /\ [Next]_vars => FifoInv'
<1> SUFFICES ASSUME FifoInv, [Next]_vars PROVE FifoInv'
  OBVIOUS
<1>1. ASSUME NEW c \in Clients, Program(c) \/ WAcquire(c) \/ Write(c) \/ Close(c)
      PROVE  FifoInv'
  BY <1>1, QuietClient, QuietClose, FillStep, PublishStep, WAdvanceStep
     DEF Program, Write, Procs
<1>2. CASE RAcquire \/ Read \/ Close(Manager)
  BY <1>2, QuietManager, QuietClose, CopyStep, ConsumeStep, RAdvanceStep DEF Read, Procs
<1>3. CASE UNCHANGED vars
  <2>1. ControlInv'
    BY <1>3 DEF vars, FifoInv, ControlInv, TypeOK, LockInv, LabelInv, RoomInv
  <2> QED
    BY <1>3, <2>1, QuietData DEF vars, FifoInv
<1> QED
  BY <1>1, <1>2, <1>3, DieStep DEF Next

(* FifoInv holds in every state, for every capacity, mode, number of       *)
(* clients and of events, and also when processes are killed.              *)
THEOREM Invariance == Spec => []FifoInv
BY InitInv, NextInv, PTL DEF Spec

(* fc_fifo.c delivers the published events in order, each once, although   *)
(* indices and numData are moved in separate steps by different processes. *)
THEOREM InOrderDelivery == Spec => []InOrder
<1>1. FifoInv => InOrder
  BY DEF FifoInv, DataInv
<1> QED
  BY <1>1, Invariance, PTL

(* No writer fills the slot the manager reads in place (fc_mcom_read),     *)
(* also in SINGLE mode, where nothing is locked.                           *)
THEOREM SlotNotOverwritten == Spec => []NoOverwrite
<1>1. FifoInv => NoOverwrite
  <2> SUFFICES ASSUME FifoInv, pc[Manager] = "copy",
                      NEW c \in Clients, pc[c] \in {"fill", "publish"}
               PROVE  writeIdx # readIdx
    BY DEF NoOverwrite
  <2> USE FifoAssumption DEF FifoInv, ControlInv
  <2>1. numData \in Nat /\ 0 < numData /\ numData < NumEntry /\ readIdx \in Index
    BY DEF RoomInv, TypeOK
  <2>2. First = readIdx /\ Free = writeIdx
    BY OneWriterHolds DEF First, Free, OneWriter, WCritical
  <2> QED
    BY <2>1, <2>2 DEF DataInv, RingInv, Ring, Index
<1> QED
  BY <1>1, Invariance, PTL

------------------------------------------------------------------------------
(* Times in the stream *)

(* the one clock is past every published event, and a slot that is about   *)
(* to be published bears no time, or one past theirs                       *)
ClockInv ==
  /\ \A k \in 1 .. Len(written) : written[k][3] <= clock
  /\ \A c \in Clients : pc[c] = "publish" =>
       \/ data[writeIdx][3] = NoTime
       \/ /\ data[writeIdx][3] <= clock
          /\ \A k \in 1 .. Len(written) : written[k][3] <= data[writeIdx][3]

(* The inductive invariant of the times: the clock is read by a client     *)
(* that holds the slot, so the order of the slots is that of the times.    *)
TimeInv == ClockInv /\ TimeOrdered

(* The time is read after every published event was filled. *)
LEMMA TimeFill ==
  ASSUME OneClock, FifoInv, TimeInv, NEW c \in Clients, WFill(c) PROVE TimeInv'
<1> USE FifoAssumption DEF FifoInv, ControlInv
<1>1. PICK e \in Event :
        /\ data' = [data EXCEPT ![writeIdx] = e]
        /\ clock' \in 0 .. MaxTime /\ clock <= clock'
        /\ e[3] = NoTime \/ e[3] = clock'
  BY FilledEvent
<1>2. /\ clock \in Nat /\ clock' \in Nat /\ data'[writeIdx] = e
      /\ written' = written /\ writeIdx' = writeIdx
  BY <1>1 DEF WFill, history, TypeOK
<1>3. \A k \in 1 .. Len(written) : written[k][3] <= clock /\ written[k][3] \in Int
  <2>1. \A k \in 1 .. Len(written) : written[k] \in Event
    BY DEF TypeOK
  <2>2. \A f \in Event : f[3] \in Int
    BY DEF Event, NoTime
  <2> QED
    BY <2>1, <2>2 DEF TimeInv, ClockInv
<1>4. ClockInv'
  <2>1. \A k \in 1 .. Len(written) : written[k][3] <= clock'
    BY ONLY <1>1, <1>2, <1>3
  <2> QED
    BY ONLY <1>1, <1>2, <2>1 DEF ClockInv
<1> QED
  BY <1>2, <1>4 DEF TimeInv, TimeOrdered

(* The published event is the youngest of those that bear a time. *)
LEMMA TimePublish ==
  ASSUME FifoInv, TimeInv, NEW c \in Clients, WPublish(c) PROVE TimeInv'
<1> USE FifoAssumption DEF FifoInv, ControlInv
<1> DEFINE e == data[writeIdx]
<1>1. /\ written \in Seq(Event) /\ e \in Event /\ clock \in Nat
      /\ pc[c] = "publish" /\ written' = Append(written, e)
      /\ clock' = clock /\ pc' = [pc EXCEPT ![c] = "advance"]
  BY DEF TypeOK, WPublish, Goto
<1>2. /\ Len(written) \in Nat /\ Len(written') = Len(written) + 1
      /\ written'[Len(written) + 1] = e
      /\ \A k \in 1 .. Len(written) : written'[k] = written[k]
  BY <1>1
<1>3. \A d \in Clients : pc'[d] # "publish"
  BY <1>1, OneWriterHolds DEF OneWriter, WCritical, TypeOK, Procs
<1>4. \/ e[3] = NoTime
      \/ e[3] <= clock /\ \A k \in 1 .. Len(written) : written[k][3] <= e[3]
  BY <1>1 DEF TimeInv, ClockInv
<1>5. ClockInv'
  <2>1. e[3] <= clock
    BY <1>1, <1>4 DEF NoTime
  <2> QED
    BY <1>1, <1>2, <1>3, <2>1 DEF TimeInv, ClockInv
<1> HIDE DEF e
<1>6. ASSUME NEW j \in 1 .. Len(written'), NEW k \in 1 .. Len(written'),
             j < k, written'[j][3] # NoTime, written'[k][3] # NoTime
      PROVE  written'[j][3] <= written'[k][3]
  <2>1. CASE k = Len(written) + 1
    BY <1>2, <1>4, <1>6, <2>1
  <2>2. CASE k < Len(written) + 1
    BY <1>2, <1>6, <2>2 DEF TimeInv, TimeOrdered
  <2> QED
    BY <1>2, <2>1, <2>2
<1> QED
  BY <1>5, <1>6 DEF TimeInv, TimeOrdered

(* The index moves when nothing is about to be published. *)
LEMMA TimeAdvance ==
  ASSUME FifoInv, TimeInv, NEW c \in Clients, WAdvance(c) PROVE TimeInv'
<1> USE FifoAssumption DEF FifoInv, ControlInv
<1>1. clock' = clock /\ written' = written
  BY DEF WAdvance, history
<1>2. \A d \in Clients : pc'[d] # "publish"
  BY OneWriterHolds DEF WAdvance, OneWriter, WCritical, TypeOK, Procs, Goto, After
<1> QED
  BY <1>1, <1>2 DEF TimeInv, ClockInv, TimeOrdered

(* Nobody else touches the clock, the slots or the stream. *)
LEMMA TimeQuiet ==
  ASSUME TimeInv, UNCHANGED <<clock, data, writeIdx, written>>,
         \A c \in Clients : pc'[c] = "publish" => pc[c] = "publish"
  PROVE  TimeInv'
BY DEF TimeInv, ClockInv, TimeOrdered

(* Every step keeps the order of the times. *)
LEMMA TimeNext == ASSUME OneClock, FifoInv, TimeInv, [Next]_vars PROVE TimeInv'
<1> USE DEF FifoInv, ControlInv, TypeOK, Procs, Goto, control, history
<1>1. ASSUME NEW c \in Clients,
             \/ Program(c) \/ WAcquire(c) \/ WRoom(c) \/ WDrop(c) \/ WRetry(c)
      PROVE  TimeInv'
  BY <1>1, TimeQuiet DEF Program, Fork, Send, Quit, Leave, WAcquire, WRoom, WDrop, WRetry, After
<1>2. ASSUME NEW p \in Procs, Close(p) \/ Die(p) PROVE TimeInv'
  BY <1>2, TimeQuiet DEF Close, CloseTest, CloseLoad, CloseStore, Detach, Die
<1>3. CASE RAcquire \/ Read
  BY <1>3, TimeQuiet DEF Read, RAcquire, ConnectLoad, ConnectStore, RData, RAlone, RPoll,
                         RRecheck, REnd, RCopy, RConsume, RAdvance
<1>4. CASE UNCHANGED vars
  BY <1>4, TimeQuiet DEF vars
<1> QED
  BY <1>1, <1>2, <1>3, <1>4, TimeFill, TimePublish, TimeAdvance DEF Next, Write

(* With one clock for all processes, never set back (FC_TIME_MODE ext or   *)
(* tsc), the times of the events that bear one never run backwards in the  *)
(* stream, in every mode and with any number of clients: build_fc_com      *)
(* reads the time while it holds the slot (fc_com.c).                      *)
THEOREM TimesInOrder == ASSUME OneClock PROVE Spec => []TimeOrdered
<1>1. Init => TimeInv
  BY FifoAssumption DEF Init, TimeInv, ClockInv, TimeOrdered, Procs
<1>2. TimeInv => TimeOrdered
  BY DEF TimeInv
<1> QED
  BY <1>1, <1>2, Invariance, TimeNext, PTL DEF Spec

------------------------------------------------------------------------------
(* End of stream, in the modes where one process opens and closes the FIFO *)

(* the root process has given its reference back, or died *)
Closed == pc[Root] \in {"detach", "gone"}
Closing == quitting[Root] \/ pc[Root] \in {"close", "load", "store", "detach", "gone"}

RefInv ==
  ~Closed =>
    /\ pc[Manager] = "boot" => refCount = 1
    /\ pc[Manager] = "attach" => refCount = 1 /\ ref[Manager] = 2
    /\ Attached => refCount = 2

RootInv ==
  /\ \A c \in Clients \ {Root} :
       /\ ~quitting[c]
       /\ pc[c] \notin {"close", "load", "store", "detach"}
       /\ Closing => pc[c] \in {"unborn", "gone"}
  /\ pc[Root] # "unborn"
  /\ Closing => pc[Root] # "run"

(* the manager has seen the root closed, and then that nothing is left *)
OverInv ==
  /\ pc[Manager] = "recheck" \/ Ended => Closed
  /\ Ended => numData = 0

(* The inductive invariant of the end of the stream (SINGLE and THREAD     *)
(* modes): refCount is 2 from the attachment of the manager to the close   *)
(* of the root process, so the manager looks at numData for the second     *)
(* time only when nobody is left to write.                                 *)
EndInv == RefInv /\ RootInv /\ OverInv
------------------------------------------------------------------------------
(* Only the root process closes, and it is the last client, when nobody    *)
(* else is left as it exits.                                               *)
LEMMA EndClient ==
  ASSUME Mode # "FORK", FifoInv, EndInv, Joined',
         NEW c \in Clients, Program(c) \/ WAcquire(c) \/ Write(c)
  PROVE  EndInv'
<1> USE FifoAssumption DEF FifoInv, ControlInv, LabelInv, TypeOK, Procs, Goto, Ended,
        Attached, Closed, Closing, RootInv, RefInv, OverInv, EndInv,
        control, history
<1>1. CASE Fork(c)
  BY <1>1 DEF Fork
<1>2. CASE Send(c)
  BY <1>2 DEF Send
<1>3. CASE Quit(c)
  BY <1>3 DEF Quit, Joined
<1>4. CASE Leave(c)
  BY <1>4 DEF Leave
<1>5. CASE WAcquire(c)
  BY <1>5 DEF WAcquire
<1>6. CASE WRoom(c)
  BY <1>6 DEF WRoom
<1>7. CASE WDrop(c)
  BY <1>7 DEF WDrop, After
<1>8. CASE WRetry(c)
  BY <1>8 DEF WRetry
<1>9. CASE WFill(c)
  BY <1>9 DEF WFill
<1>10. CASE WPublish(c)
  BY <1>10 DEF WPublish
<1>11. CASE WAdvance(c)
  BY <1>11 DEF WAdvance, After
<1> QED
  BY <1>1, <1>2, <1>3, <1>4, <1>5, <1>6, <1>7, <1>8, <1>9, <1>10,
     <1>11 DEF Program, Write

(* After its close the count may be anything. *)
LEMMA EndClose ==
  ASSUME Mode # "FORK", FifoInv, EndInv, NEW p \in Procs, Close(p)
  PROVE  EndInv'
<1> USE FifoAssumption DEF FifoInv, ControlInv, LabelInv, TypeOK, Procs, Goto, Ended,
        Attached, Closed, Closing, RootInv, RefInv, OverInv, EndInv,
        control, history
<1>1. CASE CloseTest(p)
  BY <1>1 DEF CloseTest
<1>2. CASE CloseLoad(p)
  BY <1>2 DEF CloseLoad
<1>3. CASE CloseStore(p)
  BY <1>3 DEF CloseStore
<1>4. CASE Detach(p)
  BY <1>4 DEF Detach
<1> QED
  BY <1>1, <1>2, <1>3, <1>4 DEF Close

(* The manager is at its second look only after the close. *)
LEMMA EndManager ==
  ASSUME Mode # "FORK", FifoInv, EndInv, RAcquire \/ Read
  PROVE  EndInv'
<1> USE FifoAssumption DEF FifoInv, ControlInv, LabelInv, TypeOK, Procs, Goto, Ended,
        Attached, Closed, Closing, RootInv, RefInv, OverInv, EndInv,
        control, history
<1>1. CASE ConnectLoad
  BY <1>1 DEF ConnectLoad, Incr
<1>2. CASE ConnectStore
  BY <1>2 DEF ConnectStore
<1>3. CASE RData
  BY <1>3 DEF RData
<1>4. CASE RAlone
  BY <1>4 DEF RAlone
<1>5. CASE RPoll
  BY <1>5 DEF RPoll
<1>6. CASE RRecheck
  BY <1>6 DEF RRecheck
<1>7. CASE REnd
  BY <1>7 DEF REnd
<1>8. CASE RCopy
  BY <1>8 DEF RCopy
<1>9. CASE RConsume
  BY <1>9 DEF RConsume
<1>10. CASE RAdvance
  BY <1>10 DEF RAdvance
<1>11. CASE RAcquire
  BY <1>11 DEF RAcquire
<1> QED
  BY <1>1, <1>2, <1>3, <1>4, <1>5, <1>6, <1>7, <1>8, <1>9, <1>10, <1>11 DEF Read

(* Every step keeps EndInv. *)
LEMMA EndNext ==
  ASSUME Mode # "FORK", FifoInv, EndInv, Joined', [Next]_vars
  PROVE  EndInv'
<1>1. CASE UNCHANGED vars
  BY <1>1 DEF vars, EndInv, RefInv, RootInv, OverInv, Closed, Closing, Attached, Ended
<1>2. ASSUME NEW p \in Procs, Die(p) PROVE EndInv'
  BY <1>2 DEF Die, control, EndInv, RefInv, RootInv, OverInv, Closed, Closing, Attached, Ended
<1> QED
  BY <1>1, <1>2, EndClient, EndClose, EndManager DEF Next, Procs

(* One reference at the start, that of the root process. *)
LEMMA EndInit == Init => EndInv
BY FifoAssumption DEF Init, EndInv, RefInv, RootInv, OverInv, Closed, Closing, Attached,
                      Ended, Procs

(* At the end of the stream nothing is left in the FIFO. *)
LEMMA EndFacts ==
  ASSUME FifoInv, EndInv
  PROVE  EndMeansOver
<1>1. ASSUME Ended PROVE \A c \in Clients : Over(c)
  BY <1>1, FifoAssumption DEF EndInv, OverInv, RootInv, Closed, Closing, Over
<1>2. ASSUME Ended PROVE received = written
  <2>1. /\ Len(received) = Len(written)
        /\ \A k \in 1 .. Len(received) : received[k] = written[k]
        /\ received \in Seq(Event) /\ written \in Seq(Event)
    BY <1>2 DEF EndInv, OverInv, Ended, FifoInv, ControlInv, DataInv, CountInv, InOrder, TypeOK
  <2> QED
    BY <2>1
<1> QED
  BY <1>1, <1>2 DEF EndMeansOver

(* In SINGLE mode there is no other client to wait for. *)
LEMMA SingleJoins == Mode = "SINGLE" => Joined
BY FifoAssumption DEF Joined

(* A program without threads, or whose threads are over when it exits.     *)
LEMMA EndInvHolds ==
  /\ Mode = "SINGLE" => (Spec => [](FifoInv /\ EndInv))
  /\ Mode = "THREAD" => (Spec /\ []Joined => [](FifoInv /\ EndInv))
<1>1. ASSUME Mode # "FORK" PROVE Spec /\ []Joined => [](FifoInv /\ EndInv)
  <2>1. FifoInv /\ EndInv /\ Joined' /\ [Next]_vars => EndInv'
    BY <1>1, EndNext
  <2> QED
    BY <2>1, Invariance, EndInit, PTL DEF Spec
<1>2. ASSUME Mode = "SINGLE" PROVE Spec => [](FifoInv /\ EndInv)
  <2>1. Joined
    BY <1>2, SingleJoins
  <2>2. Spec /\ []Joined => [](FifoInv /\ EndInv)
    BY <1>1, <1>2
  <2> QED
    BY <2>1, <2>2, PTL
<1>3. ASSUME Mode = "THREAD" PROVE Spec /\ []Joined => [](FifoInv /\ EndInv)
  BY <1>1, <1>3
<1> QED
  BY <1>2, <1>3

(* When a single process opens and closes the FIFO (SINGLE and THREAD      *)
(* modes), and its other threads, if any, are over when it exits, the end  *)
(* the manager sees is the end of the program, whatever the capacity and   *)
(* the number of threads and events.  _fini waits for no thread: that they *)
(* are over is up to the program.                                          *)
THEOREM EndIsTheEnd ==
  /\ Mode = "SINGLE" => (Spec => []EndMeansOver)
  /\ Mode = "THREAD" => (Spec /\ []Joined => []EndMeansOver)
<1>2. FifoInv /\ EndInv => EndMeansOver
  BY EndFacts
<1> QED
  BY <1>2, EndInvHolds, PTL

(* When a single process opens and closes the FIFO, and its other threads, *)
(* if any, are over when it exits, an event is given up for want of room   *)
(* only before the manager is attached: from then on refCount says that    *)
(* somebody reads (fc_fifo_write_single).                                  *)
THEOREM NothingGivenUp ==
  /\ Mode = "SINGLE" => (Spec => KeptOnceAttached)
  /\ Mode = "THREAD" => (Spec /\ []Joined => KeptOnceAttached)
<1>1. Spec => [][Next]_vars
  BY DEF Spec
<1>2. FifoInv /\ EndInv /\ [Next]_vars
        => [dropped' # dropped => pc[Manager] \in {"boot", "attach"}]_vars
  <2> SUFFICES ASSUME EndInv, Next, dropped' # dropped
               PROVE  ~Attached
    BY DEF vars, Attached
  <2>1. PICK c \in Clients : WDrop(c)
    BY DEF Next, Program, Fork, Send, Quit, Leave, WAcquire, Write, WRoom, WRetry, WFill,
           WPublish, WAdvance, Close, CloseTest, CloseLoad, CloseStore, Detach, RAcquire,
           Read, ConnectLoad, ConnectStore, RData, RAlone, RPoll, RRecheck, REnd, RCopy,
           RConsume, RAdvance, Die, history
  <2>2. ~Closed
    BY <2>1 DEF WDrop, EndInv, RootInv, Closed, Closing
  <2> QED
    BY <2>1, <2>2 DEF WDrop, EndInv, RefInv
<1> QED
  BY <1>1, <1>2, EndInvHolds, PTL DEF KeptOnceAttached

(* The steps that show in the stream are those of the writer that          *)
(* publishes, of the manager that copies and of its end of stream.         *)
LEMMA StreamStep ==
  ASSUME Mode # "FORK", FifoInv, EndInv, EndMeansOver', [Next]_vars
  PROVE  [Stream!Next]_<<written, received, Ended>>
<1> USE FifoAssumption DEF FifoInv, ControlInv, LabelInv, TypeOK, Procs, Goto, Ended
<1>1. ASSUME NEW c \in Clients, WPublish(c) PROVE Stream!Publish
  <2>1. ~Ended
    BY <1>1 DEF WPublish, EndInv, OverInv, RootInv, Closed, Closing
  <2>2. data[writeIdx] \in Event
    BY <1>1 DEF Index
  <2>3. written' = Append(written, data[writeIdx]) /\ UNCHANGED <<received, Ended>>
    BY <1>1 DEF WPublish
  <2> QED
    BY <2>1, <2>2, <2>3 DEF Stream!Publish
<1>2. ASSUME RCopy PROVE Stream!Deliver
  <2>1. numData > 0 /\ numData = Len(written) - Len(received)
    BY <1>2 DEF RCopy, RoomInv, DataInv, CountInv
  <2>2. data[Ring(First, 0)] = written[Len(written) - numData + 0 + 1]
    BY <2>1 DEF DataInv, SlotsInv
  <2>3. data[readIdx] = written[Len(received) + 1]
    BY <1>2, <2>1, <2>2 DEF RCopy, First, Ring, Index
  <2>4. UNCHANGED <<written, Ended>>
    BY <1>2 DEF RCopy
  <2>5. Len(received) < Len(written) /\ received' = Append(received, data[readIdx])
    BY <1>2, <2>1 DEF RCopy
  <2> QED
    BY <2>3, <2>4, <2>5, Zenon DEF Stream!Deliver
<1>3. ASSUME REnd PROVE Stream!EndOfStream
  <2>1. ~Ended /\ Ended' /\ UNCHANGED <<written, received>>
    BY <1>3 DEF REnd, history
  <2>2. Ended' = TRUE
    BY <2>1, Zenon
  <2>3. received = written
    BY <2>1 DEF EndMeansOver
  <2> QED
    BY <2>1, <2>2, <2>3, Zenon DEF Stream!EndOfStream
<1>4. ASSUME NEW c \in Clients,
             \/ Program(c) \/ WAcquire(c) \/ WRoom(c) \/ WDrop(c) \/ WRetry(c)
             \/ WFill(c) \/ WAdvance(c) \/ Close(c)
      PROVE  UNCHANGED <<written, received, Ended>>
  BY <1>4 DEF Program, Fork, Send, Quit, Leave, WAcquire, WRoom, WDrop, WRetry,
              WFill, WAdvance, Close, CloseTest, CloseLoad, CloseStore, Detach, history
<1>5. CASE \/ RAcquire \/ ConnectLoad \/ ConnectStore \/ RData \/ RAlone \/ RPoll
           \/ RRecheck \/ RConsume \/ RAdvance \/ Close(Manager)
  BY <1>5 DEF RAcquire, ConnectLoad, ConnectStore, RData, RAlone, RPoll, RRecheck,
              RConsume, RAdvance, Close, CloseTest, CloseLoad, CloseStore, Detach, history
<1>6. ASSUME NEW p \in Procs, Die(p) PROVE UNCHANGED <<written, received, Ended>>
  BY <1>6 DEF Die, history
<1> QED
  BY <1>1, <1>2, <1>3, <1>4, <1>5, <1>6 DEF Next, Write, Read, vars, Stream!Next

(* In those modes, with the same proviso on the threads, the FIFO          *)
(* implements the stream of events (FcStream).                             *)
THEOREM FifoImplementsStream ==
  /\ Mode = "SINGLE" => (Spec => StreamImplemented)
  /\ Mode = "THREAD" => (Spec /\ []Joined => StreamImplemented)
<1>1. Init => Stream!Init
  BY FifoAssumption DEF Init, Stream!Init, Ended, Procs
<1>2. ASSUME Mode # "FORK"
      PROVE  Spec /\ [](FifoInv /\ EndInv) => StreamImplemented
  <2>1. FifoInv /\ EndInv /\ (FifoInv /\ EndInv)' /\ [Next]_vars
          => [Stream!Next]_<<written, received, Ended>>
    <3>1. FifoInv' /\ EndInv' => EndMeansOver'
      BY EndFacts, PTL
    <3> QED
      BY <1>2, <3>1, StreamStep
  <2> QED
    BY <1>1, <2>1, PTL DEF Spec, StreamImplemented, Stream!Spec
<1>3. ASSUME Mode = "SINGLE" PROVE Spec => StreamImplemented
  <2>1. Spec /\ [](FifoInv /\ EndInv) => StreamImplemented
    BY <1>2, <1>3
  <2>2. Spec => [](FifoInv /\ EndInv)
    BY <1>3, EndInvHolds
  <2> QED
    BY <2>1, <2>2, PTL
<1>4. ASSUME Mode = "THREAD" PROVE Spec /\ []Joined => StreamImplemented
  <2>1. Spec /\ [](FifoInv /\ EndInv) => StreamImplemented
    BY <1>2, <1>4
  <2>2. Spec /\ []Joined => [](FifoInv /\ EndInv)
    BY <1>4, EndInvHolds
  <2> QED
    BY <2>1, <2>2, PTL
<1> QED
  BY <1>3, <1>4
=============================================================================

--------------------------- MODULE FcHooksProofs ---------------------------
(***************************************************************************)
(* What libfc's malloc hooks keep, for any number of threads, of calls and *)
(* of nested hooks.                                                        *)
(***************************************************************************)
EXTENDS FcHooks, SequenceTheorems, TLAPS

AllIdle == \A t \in Threads : Idle(t)

(* memory is profiled, or nobody is in a hook *)
QuietInv == active # "on" => AllIdle

(* our hooks are set when nobody is in one *)
PlaceInv == active = "on" /\ AllIdle => hook = Ours

(* a thread is between the moment it puts the libc's hooks back and the    *)
(* moment it sets ours again                                               *)
Unhooked(t) == ~Idle(t) /\ Top(t).at # "restore"

(* a thread has begun a call and has not sent its event yet *)
Unsent(t) == ~Idle(t) /\ Top(t).at # "reinstall"

NotOurs(h) == \A k \in Kinds : h[k] # "ours"

(* While calls follow one another: one thread is in one hook, and the      *)
(* hooks of the libc, kept or put back, are not ours.                      *)
AloneInv ==
  /\ \A t, u \in Threads : ~Idle(t) /\ ~Idle(u) => t = u
  /\ \A t \in Threads : Len(frames[t]) <= 1
  /\ NotOurs(old)
  /\ active = "before" => NotOurs(hook)
  /\ \A t \in Threads : Unhooked(t) => NotOurs(hook)

(* every call is announced, but the one whose event is still to be sent *)
SentInv == \A t \in Threads : calls[t] = events[t] + (IF Unsent(t) THEN 1 ELSE 0)

(* The inductive invariant of the malloc hooks (fc_memory.c).              *)
HooksInv == TypeOK /\ QuietInv /\ PlaceInv /\ (~overlap => AloneInv /\ SentInv)
------------------------------------------------------------------------------
(* The innermost hook of a thread goes on: the other ones stay. *)
LEMMA FrameGoesOn ==
  ASSUME NEW s \in Seq(Frames), s # <<>>, NEW l \in Labels
  PROVE  LET r == [s EXCEPT ![Len(s)].at = l] IN
         /\ r \in Seq(Frames) /\ r # <<>> /\ Len(r) = Len(s)
         /\ r[Len(r)].at = l /\ r[Len(r)].kind = s[Len(s)].kind
<1>1. Len(s) \in 1 .. Len(s) /\ s[Len(s)] \in Frames
  OBVIOUS
<1>2. [s[Len(s)] EXCEPT !.at = l] \in Frames
  BY <1>1 DEF Frames
<1> QED
  BY <1>1, <1>2 DEF Frames

(* A thread enters a hook. *)
LEMMA FrameEntered ==
  ASSUME NEW s \in Seq(Frames), NEW f \in Frames
  PROVE  LET r == Append(s, f) IN
         r \in Seq(Frames) /\ r # <<>> /\ Len(r) = Len(s) + 1 /\ r[Len(r)] = f
OBVIOUS

(* A thread leaves its innermost hook. *)
LEMMA FrameLeft ==
  ASSUME NEW s \in Seq(Frames), s # <<>>
  PROVE  /\ SubSeq(s, 1, Len(s) - 1) \in Seq(Frames)
         /\ Len(SubSeq(s, 1, Len(s) - 1)) = Len(s) - 1
         /\ Len(s) <= 1 => SubSeq(s, 1, Len(s) - 1) = <<>>
<1>1. Len(s) \in Nat /\ Len(s) > 0 /\ \A j \in 1 .. Len(s) - 1 : s[j] \in Frames
  OBVIOUS
<1>2. /\ SubSeq(s, 1, Len(s) - 1) \in Seq(Frames)
      /\ Len(SubSeq(s, 1, Len(s) - 1)) = IF 1 <= Len(s) - 1 THEN Len(s) - 1 - 1 + 1 ELSE 0
  BY <1>1, SubSeqProperties
<1>3. Len(SubSeq(s, 1, Len(s) - 1)) = Len(s) - 1
  <2> DEFINE n == Len(s)
             r == Len(SubSeq(s, 1, Len(s) - 1))
  <2>1. n \in Nat /\ n > 0 /\ r = IF 1 <= n - 1 THEN n - 1 - 1 + 1 ELSE 0
    BY <1>1, <1>2
  <2> HIDE DEF n, r
  <2>2. r = n - 1
    BY <2>1
  <2> QED
    BY <2>2 DEF n, r
<1>4. Len(s) <= 1 => SubSeq(s, 1, Len(s) - 1) = <<>>
  BY <1>1, SubSeqEmpty
<1> QED
  BY <1>2, <1>3, <1>4

(* fc_memory_init has not run and nobody is in a hook. *)
LEMMA HooksInit == Init => HooksInv
<1>1. Init => TypeOK
  <2> SUFFICES ASSUME Init PROVE TypeOK
    OBVIOUS
  <2>1. hook \in [Kinds -> Values] /\ old \in [Kinds -> Values]
    BY DEF Init, Values
  <2>2. frames \in [Threads -> Seq(Frames)]
    BY DEF Init
  <2>3. calls \in [Threads -> 0 .. MaxCalls] /\ events \in [Threads -> Nat]
    BY HooksAssumption DEF Init
  <2>4. active \in {"before", "on", "over"} /\ overlap \in BOOLEAN
    BY DEF Init
  <2> QED
    BY <2>1, <2>2, <2>3, <2>4 DEF TypeOK
<1>2. Init => QuietInv /\ PlaceInv
  BY DEF Init, QuietInv, PlaceInv, AllIdle, Idle
<1>3. Init => AloneInv /\ SentInv
  BY DEF Init, AloneInv, SentInv, NotOurs, Unhooked, Unsent, Idle
<1> QED
  BY <1>1, <1>2, <1>3 DEF HooksInv

(* fc_memory_init keeps the libc's hooks, fc_memory_fini puts them back.   *)
LEMMA HooksStartEnd ==
  ASSUME HooksInv, MemoryInit \/ MemoryFini
  PROVE  HooksInv'
<1>1. CASE MemoryInit
  <2>1. TypeOK'
    BY <1>1 DEF HooksInv, TypeOK, MemoryInit, Ours, Values
  <2>2. QuietInv' /\ PlaceInv'
    BY <1>1 DEF MemoryInit, QuietInv, PlaceInv
  <2>3. ASSUME ~overlap' PROVE AloneInv' /\ SentInv'
    BY <1>1, <2>3 DEF HooksInv, MemoryInit, QuietInv, AllIdle, AloneInv, SentInv,
                      NotOurs, Unhooked, Unsent, Idle, Top
  <2> QED
    BY <2>1, <2>2, <2>3 DEF HooksInv
<1>2. CASE MemoryFini
  <2>1. TypeOK'
    BY <1>2 DEF HooksInv, TypeOK, MemoryFini
  <2>2. QuietInv' /\ PlaceInv'
    BY <1>2 DEF MemoryFini, QuietInv, PlaceInv, AllIdle, Idle
  <2>3. ASSUME ~overlap' PROVE AloneInv' /\ SentInv'
    BY <1>2, <2>3 DEF HooksInv, MemoryFini, AllIdle, AloneInv, SentInv,
                      NotOurs, Unhooked, Unsent, Idle, Top
  <2> QED
    BY <2>1, <2>2, <2>3 DEF HooksInv
<1> QED
  BY <1>1, <1>2

(* A call of the program: our hook runs, or the libc's when another thread *)
(* has put it back.                                                        *)
LEMMA HooksCall ==
  ASSUME HooksInv, NEW t \in Threads, NEW k \in Kinds, Call(t, k)
  PROVE  HooksInv'
<1> DEFINE f == [kind |-> k, at |-> "restore"]
<1>0. f \in Frames /\ f.at = "restore" /\ f.at # "reinstall"
  BY DEF Frames, Labels
<1>1. /\ frames \in [Threads -> Seq(Frames)] /\ frames[t] = <<>>
      /\ calls \in [Threads -> 0 .. MaxCalls] /\ events \in [Threads -> Nat]
      /\ active = "on" /\ active' = "on" /\ old' = old /\ events' = events
      /\ calls' = [calls EXCEPT ![t] = @ + 1] /\ calls[t] < MaxCalls
  BY DEF HooksInv, TypeOK, Call, Idle
<1>2. CASE hook[k] = "ours"
  <2>1. frames' = [frames EXCEPT ![t] = Append(frames[t], f)] /\ hook' = hook
    BY <1>2 DEF Call, Enter
  <2>2. /\ frames' \in [Threads -> Seq(Frames)] /\ frames'[t] # <<>>
        /\ Len(frames'[t]) = 1 /\ frames'[t][Len(frames'[t])] = f
        /\ \A u \in Threads \ {t} : frames'[u] = frames[u]
    BY <1>0, <1>1, <2>1, FrameEntered
  <2>3. TypeOK'
    BY <1>1, <2>1, <2>2, HooksAssumption DEF HooksInv, TypeOK, Call
  <2>4. QuietInv' /\ PlaceInv'
    BY <1>1, <2>2 DEF QuietInv, PlaceInv, AllIdle, Idle
  <2>5. ASSUME ~overlap' PROVE AloneInv' /\ SentInv'
    <3>1. ~overlap /\ AllIdle /\ AloneInv /\ SentInv
      BY <2>5 DEF Call, AllIdle, HooksInv
    <3>2. \A u \in Threads \ {t} : frames'[u] = <<>>
      BY <2>2, <3>1 DEF AllIdle, Idle
    <3>3. AloneInv'
      BY <1>0, <1>1, <2>1, <2>2, <3>1, <3>2 DEF AloneInv, NotOurs, Unhooked, Idle, Top
    <3>4. SentInv'
      BY <1>0, <1>1, <2>2, <3>1, <3>2 DEF SentInv, AllIdle, Unsent, Idle, Top
    <3> QED
      BY <3>3, <3>4
  <2> QED
    BY <2>3, <2>4, <2>5 DEF HooksInv
<1>3. CASE hook[k] # "ours"
  <2>1. frames' = frames /\ hook' = [hook EXCEPT ![k] = IF @ = "libc" THEN "none" ELSE @]
    BY <1>3 DEF Call, LibcCall
  <2>2. ~AllIdle
    BY <1>1, <1>3 DEF HooksInv, PlaceInv, Ours
  <2>3. TypeOK'
    BY <1>1, <2>1, HooksAssumption DEF HooksInv, TypeOK, Call, Values
  <2>4. QuietInv' /\ PlaceInv'
    BY <1>1, <2>1, <2>2 DEF QuietInv, PlaceInv, AllIdle, Idle
  <2>5. overlap' = TRUE
    BY <2>2 DEF Call, AllIdle
  <2> QED
    BY <2>3, <2>4, <2>5 DEF HooksInv
<1> QED
  BY <1>2, <1>3

(* A hook goes on to its next step.  What is left to see of it is what it  *)
(* does to the hooks of the libc and to the count of the events.           *)
LEMMA HookGoesOn ==
  ASSUME HooksInv, NEW t \in Threads, ~Idle(t), NEW l \in Labels, Goto(t, l)
  PROVE  /\ frames' \in [Threads -> Seq(Frames)] /\ ~Idle(t)'
         /\ Len(frames'[t]) = Len(frames[t]) /\ Top(t)'.at = l
         /\ \A u \in Threads \ {t} : frames'[u] = frames[u]
<1>1. frames \in [Threads -> Seq(Frames)] /\ frames[t] # <<>>
  BY DEF HooksInv, TypeOK, Idle
<1>2. frames'[t] = [frames[t] EXCEPT ![Len(frames[t])].at = l]
      /\ frames' = [frames EXCEPT ![t] = [frames[t] EXCEPT ![Len(frames[t])].at = l]]
  BY <1>1 DEF Goto
<1>3. frames'[t] \in Seq(Frames) /\ frames'[t] # <<>> /\ Len(frames'[t]) = Len(frames[t])
      /\ frames'[t][Len(frames'[t])].at = l
  BY <1>1, <1>2, FrameGoesOn
<1> QED
  BY <1>1, <1>2, <1>3 DEF Idle, Top

(* A hook that goes on leaves QuietInv and PlaceInv alone: it is running.  *)
LEMMA HookRuns ==
  ASSUME HooksInv, NEW t \in Threads, ~Idle(t), ~Idle(t)', active' = active
  PROVE  active = "on" /\ QuietInv' /\ PlaceInv'
BY DEF HooksInv, QuietInv, PlaceInv, AllIdle

(* my_malloc_hook and the others, one step after the other. *)
LEMMA HooksStep ==
  ASSUME HooksInv, NEW t \in Threads,
         RestoreHooks(t) \/ RealCall(t) \/ SaveHooks(t) \/ SendEvent(t)
  PROVE  HooksInv'
<1>1. PICK l \in Labels : /\ Goto(t, l) /\ Unsent(t)
                         /\ events' = IF l # "reinstall" THEN events
                                        ELSE [events EXCEPT ![t] = @ + 1]
  BY DEF RestoreHooks, RealCall, SaveHooks, SendEvent, Labels, At, Unsent
<1>2. ~Idle(t) /\ active' = active /\ calls' = calls /\ overlap' = overlap
  BY DEF RestoreHooks, RealCall, SaveHooks, SendEvent, At
<1>3. /\ frames' \in [Threads -> Seq(Frames)] /\ ~Idle(t)'
      /\ Len(frames'[t]) = Len(frames[t]) /\ Top(t)'.at = l
      /\ \A u \in Threads \ {t} : frames'[u] = frames[u]
  BY <1>1, <1>2, HookGoesOn
<1>4. active = "on" /\ QuietInv' /\ PlaceInv'
  BY <1>2, <1>3, HookRuns
<1>5. TypeOK'
  <2>1. frames[t] \in Seq(Frames) /\ Top(t) \in Frames
    BY <1>2 DEF HooksInv, TypeOK, Idle, Top
  <2>2. hook' \in [Kinds -> Values] /\ old' \in [Kinds -> Values]
    BY <2>1 DEF HooksInv, TypeOK, RestoreHooks, RealCall, SaveHooks, SendEvent, LibcCall, Values
  <2>3. events' \in [Threads -> Nat]
    BY DEF HooksInv, TypeOK, RestoreHooks, RealCall, SaveHooks, SendEvent
  <2> QED
    BY <1>2, <1>3, <2>2, <2>3 DEF HooksInv, TypeOK
<1>6. ASSUME ~overlap' PROVE AloneInv' /\ SentInv'
  <2>1. AloneInv /\ SentInv
    BY <1>2, <1>6 DEF HooksInv
  <2>2. \A u \in Threads \ {t} : Idle(u) /\ Idle(u)'
    BY <1>2, <1>3, <2>1 DEF AloneInv, Idle
  <2>3. NotOurs(old) /\ NotOurs(old)'
    BY <1>2, <2>1 DEF RestoreHooks, RealCall, SaveHooks, SendEvent, AloneInv, NotOurs, Unhooked, At
  <2>4. NotOurs(hook)'
    BY <1>2, <2>1, <2>3 DEF RestoreHooks, RealCall, SaveHooks, SendEvent, LibcCall,
                            AloneInv, NotOurs, Unhooked, At, HooksInv, TypeOK
  <2>5. AloneInv'
    BY <1>2, <1>3, <1>4, <2>1, <2>2, <2>3, <2>4 DEF AloneInv, Unhooked
  <2>6. SentInv'
    <3>1. calls \in [Threads -> 0 .. MaxCalls] /\ events \in [Threads -> Nat]
      BY DEF HooksInv, TypeOK
    <3>2. \A u \in Threads \ {t} : ~Unsent(u) /\ ~Unsent(u)' /\ events'[u] = events[u]
      BY <1>1, <2>2, <3>1 DEF Unsent
    <3>3. Unsent(t)' <=> l # "reinstall"
      BY <1>3 DEF Unsent
    <3>4. calls'[t] = events'[t] + IF Unsent(t)' THEN 1 ELSE 0
      BY <1>1, <1>2, <2>1, <3>1, <3>3, HooksAssumption DEF SentInv
    <3> QED
      BY <1>2, <2>1, <3>1, <3>2, <3>4 DEF SentInv
  <2> QED
    BY <2>5, <2>6
<1> QED
  BY <1>4, <1>5, <1>6 DEF HooksInv

(* The real call comes back to our hook: only when calls overlap. *)
LEMMA HooksAgain ==
  ASSUME HooksInv, NEW t \in Threads, RealCallHooked(t)
  PROVE  HooksInv'
<1> DEFINE s == [frames[t] EXCEPT ![Len(frames[t])].at = "save"]
           f == [kind |-> Top(t).kind, at |-> "restore"]
<1>1. frames \in [Threads -> Seq(Frames)] /\ frames[t] \in Seq(Frames) /\ frames[t] # <<>>
  BY DEF HooksInv, TypeOK, RealCallHooked, At, Idle
<1>2. s \in Seq(Frames)
  BY <1>1, FrameGoesOn DEF Labels
<1>3. Top(t) \in Frames
  BY <1>1 DEF Top
<1>4. f \in Frames
  BY <1>3 DEF Frames, Labels
<1>5. Append(s, f) \in Seq(Frames) /\ Append(s, f) # <<>>
  BY <1>2, <1>4, FrameEntered
<1>6. frames' = [frames EXCEPT ![t] = Append(s, f)]
  BY <1>1 DEF RealCallHooked
<1>7. frames' \in [Threads -> Seq(Frames)] /\ ~Idle(t) /\ ~Idle(t)'
  BY <1>1, <1>5, <1>6 DEF Idle
<1>8. QuietInv' /\ PlaceInv'
  BY <1>7, HookRuns DEF RealCallHooked
<1>9. TypeOK'
  BY <1>7 DEF HooksInv, TypeOK, RealCallHooked
<1>10. overlap /\ overlap' = overlap
  BY <1>3 DEF HooksInv, Frames, AloneInv, NotOurs, Unhooked, RealCallHooked, At
<1> QED
  BY <1>8, <1>9, <1>10 DEF HooksInv

(* A hook ends: our hooks are set again. *)
LEMMA HooksEnd ==
  ASSUME HooksInv, NEW t \in Threads, ReinstallHooks(t)
  PROVE  HooksInv'
<1>1. frames \in [Threads -> Seq(Frames)] /\ frames[t] \in Seq(Frames) /\ frames[t] # <<>>
  BY DEF HooksInv, TypeOK, ReinstallHooks, At, Idle
<1>2. /\ frames' = [frames EXCEPT ![t] = SubSeq(frames[t], 1, Len(frames[t]) - 1)]
      /\ hook' = Ours /\ old' = old /\ active' = active /\ overlap' = overlap
      /\ calls' = calls /\ events' = events
  BY <1>1 DEF ReinstallHooks
<1>3. /\ frames' \in [Threads -> Seq(Frames)] /\ Len(frames'[t]) = Len(frames[t]) - 1
      /\ Len(frames[t]) <= 1 => frames'[t] = <<>>
      /\ \A u \in Threads \ {t} : frames'[u] = frames[u]
  <2>1. /\ SubSeq(frames[t], 1, Len(frames[t]) - 1) \in Seq(Frames)
        /\ Len(SubSeq(frames[t], 1, Len(frames[t]) - 1)) = Len(frames[t]) - 1
        /\ Len(frames[t]) <= 1 => SubSeq(frames[t], 1, Len(frames[t]) - 1) = <<>>
    BY <1>1, FrameLeft
  <2>2. frames'[t] = SubSeq(frames[t], 1, Len(frames[t]) - 1)
    BY <1>1, <1>2
  <2> QED
    BY <1>1, <1>2, <2>1, <2>2, Zenon
<1>4. active = "on" /\ QuietInv' /\ PlaceInv'
  BY <1>1, <1>2 DEF HooksInv, QuietInv, PlaceInv, AllIdle, Idle
<1>5. TypeOK'
  BY <1>2, <1>3 DEF HooksInv, TypeOK, Ours, Values
<1>6. ASSUME ~overlap' PROVE AloneInv' /\ SentInv'
  <2>1. AloneInv /\ SentInv
    BY <1>2, <1>6 DEF HooksInv
  <2>2. \A u \in Threads : Idle(u)'
    BY <1>1, <1>3, <2>1 DEF AloneInv, Idle
  <2>3. AloneInv'
    BY <1>2, <1>4, <2>1, <2>2 DEF AloneInv, NotOurs, Unhooked, Idle
  <2>4. \A u \in Threads : ~Unsent(u) /\ ~Unsent(u)'
    BY <1>1, <2>1, <2>2 DEF AloneInv, Unsent, ReinstallHooks, At, Idle
  <2>5. SentInv'
    BY <1>2, <2>1, <2>4 DEF SentInv
  <2> QED
    BY <2>3, <2>5
<1> QED
  BY <1>4, <1>5, <1>6 DEF HooksInv

(* Every step of the program and of its hooks keeps the invariant. *)
LEMMA HooksNext == HooksInv /\ [Next]_vars => HooksInv'
<1> SUFFICES ASSUME HooksInv, [Next]_vars PROVE HooksInv'
  OBVIOUS
<1>1. CASE UNCHANGED vars
  BY <1>1 DEF vars, HooksInv, TypeOK, QuietInv, PlaceInv, AloneInv, SentInv, AllIdle,
              Unhooked, Unsent, NotOurs, Idle, Top
<1>2. CASE Next
  BY <1>2, HooksStartEnd, HooksCall, HooksStep, HooksAgain, HooksEnd DEF Next
<1> QED
  BY <1>1, <1>2

(* fc_memory_init sets the four hooks, and whenever no thread is in one of *)
(* them they are set: whatever threads put back or set meanwhile, in any   *)
(* order, the last one to leave a hook sets libfc's again.                 *)
THEOREM HooksStayInPlace == Spec => []HooksInPlace
<1>1. HooksInv => HooksInPlace
  BY DEF HooksInv, PlaceInv, AllIdle, HooksInPlace
<1> QED
  BY <1>1, HooksInit, HooksNext, PTL DEF Spec

(* As long as calls follow one another, my_malloc_hook and the others      *)
(* never come to run inside one another, and what they keep as the libc's  *)
(* hooks is never themselves.                                              *)
THEOREM HooksDoNotRecur == Spec => []NoRecursion
<1>1. HooksInv => NoRecursion
  BY DEF HooksInv, AloneInv, NotOurs, NoRecursion
<1> QED
  BY <1>1, HooksInit, HooksNext, PTL DEF Spec

(* As long as calls follow one another, each of them sends one event.      *)
THEOREM CallsAreAnnounced == Spec => []EachCallAnnounced
<1>1. HooksInv => EachCallAnnounced
  BY DEF HooksInv, TypeOK, SentInv, Unsent, EachCallAnnounced
<1> QED
  BY <1>1, HooksInit, HooksNext, PTL DEF Spec
=============================================================================

------------------------------ MODULE FcHooks ------------------------------
(***************************************************************************)
(* The malloc hooks of libfc (fc_memory.c).  While a hook runs, the hooks  *)
(* that were there before are put back, so that the real call and the      *)
(* sending of the event do not come back to libfc.  The four hooks         *)
(* (malloc, free, realloc, memalign) are global variables of the libc,     *)
(* written one after the other and always together: one step here.         *)
(*                                                                         *)
(* External, from how the code uses it: the libc calls a hook that is set, *)
(* and its own first hooks remove themselves when they are called.         *)
(***************************************************************************)
EXTENDS Integers, Sequences

CONSTANTS
  Threads,   \* threads of the program
  Main,      \* the one that runs _init and _fini
  MaxCalls,  \* bound: calls of each thread to malloc and its like
  MaxDepth   \* bound: hooks that a thread is in

ASSUME HooksAssumption == Main \in Threads /\ MaxCalls \in Nat /\ MaxDepth \in Nat

Kinds == {"malloc", "free", "realloc", "memalign"}
Values == {"none", "libc", "ours"}

VARIABLES
  hook,     \* __malloc_hook and the others
  old,      \* old_malloc_hook and the others
  active,   \* fc_active_memory: "before", "on" or "over"
  frames,   \* the hooks that each thread is in, the innermost last
  calls,    \* calls of the program that began while memory is profiled
  events,   \* events sent for them
  overlap   \* history: a thread has made a call while another was in a hook

vars == <<hook, old, active, frames, calls, events, overlap>>

Ours == [k \in Kinds |-> "ours"]

Init ==
  /\ hook = [k \in Kinds |-> IF k = "free" THEN "none" ELSE "libc"]
  /\ old = [k \in Kinds |-> "none"]
  /\ active = "before"
  /\ frames = [t \in Threads |-> <<>>]
  /\ calls = [t \in Threads |-> 0] /\ events = [t \in Threads |-> 0]
  /\ overlap = FALSE

Idle(t) == frames[t] = <<>>

(* a bug: only malloc is hooked *)
MemoryInit_MallocOnly ==
  /\ active = "before" /\ active' = "on"
  /\ old' = hook /\ hook' = [hook EXCEPT !["malloc"] = "ours"]
  /\ UNCHANGED <<frames, calls, events, overlap>>

(* fc_memory_init *)
MemoryInit ==
  /\ active = "before" /\ active' = "on"
  /\ old' = hook /\ hook' = Ours
  /\ UNCHANGED <<frames, calls, events, overlap>>

(* fc_memory_fini, when the threads of the program are done *)
MemoryFini ==
  /\ active = "on" /\ active' = "over"
  /\ \A t \in Threads : Idle(t)
  /\ hook' = old
  /\ UNCHANGED <<old, frames, calls, events, overlap>>

------------------------------------------------------------------------------
(* A call of a function of the libc goes to the hook that is set *)
Enter(t, k) == frames' = [frames EXCEPT ![t] = Append(@, [kind |-> k, at |-> "restore"])]
LibcCall(k) == hook' = [hook EXCEPT ![k] = IF @ = "libc" THEN "none" ELSE @]

Call(t, k) ==
  /\ active = "on" /\ Idle(t) /\ calls[t] < MaxCalls
  /\ calls' = [calls EXCEPT ![t] = @ + 1]
  /\ IF hook[k] = "ours" THEN Enter(t, k) /\ UNCHANGED hook
                         ELSE LibcCall(k) /\ UNCHANGED frames
  /\ overlap' = (overlap \/ \E u \in Threads : ~Idle(u))
  /\ UNCHANGED <<old, active, events>>

(* my_malloc_hook, my_free_hook, my_realloc_hook, my_memalign_hook *)
Top(t) == frames[t][Len(frames[t])]
At(t, label) == ~Idle(t) /\ Top(t).at = label
Goto(t, label) == frames' = [frames EXCEPT ![t] = [@ EXCEPT ![Len(@)].at = label]]

(* a bug: our hooks stay during the real call *)
RestoreHooks_Forgotten(t) ==
  /\ At(t, "restore") /\ Goto(t, "real")
  /\ UNCHANGED <<hook, old, active, calls, events, overlap>>

RestoreHooks(t) ==
  /\ At(t, "restore") /\ Goto(t, "real")
  /\ hook' = old
  /\ UNCHANGED <<old, active, calls, events, overlap>>

(* the real call *)
RealCall(t) ==
  /\ At(t, "real") /\ hook[Top(t).kind] # "ours"
  /\ Goto(t, "save")
  /\ LibcCall(Top(t).kind)
  /\ UNCHANGED <<old, active, calls, events, overlap>>

(* ... which comes back to libfc when our hook is set all the same *)
RealCallHooked(t) ==
  /\ At(t, "real") /\ hook[Top(t).kind] = "ours"
  /\ Len(frames[t]) < MaxDepth
  /\ frames' = [frames EXCEPT ![t] = Append([@ EXCEPT ![Len(@)].at = "save"],
                                            [kind |-> Top(t).kind, at |-> "restore"])]
  /\ UNCHANGED <<hook, old, active, calls, events, overlap>>

(* "re-save underlaying hook (cause it may change!)" *)
SaveHooks(t) ==
  /\ At(t, "save") /\ Goto(t, "treat")
  /\ old' = hook
  /\ UNCHANGED <<hook, active, calls, events, overlap>>

(* fc_com_malloc and the others *)
SendEvent(t) ==
  /\ At(t, "treat") /\ Goto(t, "reinstall")
  /\ events' = [events EXCEPT ![t] = @ + 1]
  /\ UNCHANGED <<hook, old, active, calls, overlap>>

(* a bug: only the hook that ran comes back *)
ReinstallHooks_OnlyOne(t) ==
  /\ At(t, "reinstall")
  /\ frames' = [frames EXCEPT ![t] = SubSeq(@, 1, Len(@) - 1)]
  /\ hook' = [hook EXCEPT ![Top(t).kind] = "ours"]
  /\ UNCHANGED <<old, active, calls, events, overlap>>

ReinstallHooks(t) ==
  /\ At(t, "reinstall")
  /\ frames' = [frames EXCEPT ![t] = SubSeq(@, 1, Len(@) - 1)]
  /\ hook' = Ours
  /\ UNCHANGED <<old, active, calls, events, overlap>>

Next ==
  \/ MemoryInit \/ MemoryFini
  \/ \E t \in Threads :
       \/ \E k \in Kinds : Call(t, k)
       \/ RestoreHooks(t) \/ RealCall(t) \/ RealCallHooked(t)
       \/ SaveHooks(t) \/ SendEvent(t) \/ ReinstallHooks(t)

Spec == Init /\ [][Next]_vars

------------------------------------------------------------------------------
Labels == {"restore", "real", "save", "treat", "reinstall"}
Frames == [kind : Kinds, at : Labels]

TypeOK ==
  /\ hook \in [Kinds -> Values] /\ old \in [Kinds -> Values]
  /\ active \in {"before", "on", "over"}
  /\ frames \in [Threads -> Seq(Frames)]
  /\ calls \in [Threads -> 0 .. MaxCalls] /\ events \in [Threads -> Nat]
  /\ overlap \in BOOLEAN

(* "malloc, free, realloc and memalign are hooked in order to manage the   *)
(* state of the memory blocks" (libfc.texi): each call is announced, once, *)
(* as long as no thread makes one while another is in a hook.              *)
EachCallAnnounced == ~overlap => \A t \in Threads : Idle(t) => events[t] = calls[t]

(* "protected, as they may call malloc": a hook never comes to run inside  *)
(* another, and the hooks kept as the libc's are not libfc's own, with     *)
(* which they would call themselves for ever, as long as calls of threads  *)
(* follow one another.                                                     *)
NoRecursion ==
  ~overlap =>
    /\ \A t \in Threads : Len(frames[t]) <= 1
    /\ \A k \in Kinds : old[k] # "ours"

(* Once no thread is in a hook, the hooks are libfc's: no interleaving of  *)
(* threads that put back and take away the hooks ends the profiling.       *)
HooksInPlace ==
  TypeOK /\ (active = "on" /\ (\A t \in Threads : Idle(t)) => hook = Ours)

=============================================================================

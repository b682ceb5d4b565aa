------------------------------ MODULE FcMemory ------------------------------
(***************************************************************************)
(* Memory profiling in the manager (fc_memory_manager.c) and its part of   *)
(* the saved profile (fc_context_save): each context keeps a list of       *)
(* blocks and of invalid calls, and a hash-table (FcMap) from addresses to *)
(* elements of the list.  Beside it, what the program does with its        *)
(* blocks.  An event and what the manager does of it are one step.         *)
(*                                                                         *)
(* The hash-table holds C pointers to elements: an element is known by its *)
(* index and by which of the memory blocks that held the list it lies in   *)
(* (list_add moves the list when it grows it).  What follows the use of a  *)
(* pointer into a block that is left, or of a list that could not grow, is *)
(* undefined: the manager may end, overwrite what else it keeps, or go on  *)
(* as if nothing had happened.  It is a final state of the model.  Sizes   *)
(* of blocks and call stacks are left out.                                 *)
(***************************************************************************)
EXTENDS Integers, FiniteSetsExt, SequencesExt

CONSTANTS
  Ids,            \* processes or threads
  Root,           \* the first one
  Modes,          \* of FC_MODE_SINGLE, FC_MODE_FORK and FC_MODE_THREAD
  Addrs,          \* addresses of blocks
  FirstElements,  \* memory_size, 512 in the code
  MaxCalls        \* bound: calls of the program

ASSUME MemoryAssumption ==
  /\ Root \in Ids /\ Modes \subseteq {"SINGLE", "FORK", "THREAD"}
  /\ 0 \notin Addrs
  /\ FirstElements \in Nat \ {0} /\ MaxCalls \in Nat

VARIABLES
  mode,    \* init.mode
  mem,     \* FC_Memory of each context
  crashed, \* the manager has used a list that could not grow, or a pointer
           \* into one that was moved: nothing is known of it any more
  \* the program: the blocks in each address space (the places of their
  \* allocation and last reallocation, and who made the first), who is alive,
  \* the invalid calls of each process or thread, the calls so far
  live, alive, faults, calls,
  odd      \* history: what has happened that the manager takes wrongly

vars == <<mode, mem, crashed, live, alive, faults, calls, odd>>

(* free(NULL), realloc(NULL, n), realloc(p, 0), a realloc that fails and a *)
(* call for a block that another process or thread has allocated           *)
Oddities == {"free null", "realloc null", "zero", "fail", "foreign"}

NULL == 0
NoBlock == [alloc |-> NULL, realloc |-> NULL, by |-> NULL]

------------------------------------------------------------------------------
(* The list *)

FreeElement(i) ==
  [pointer |-> NULL, size |-> "none", alloc |-> NULL, realloc |-> NULL,
   next |-> i + 1, set |-> FALSE]

(* fc_memory_create *)
Created ==
  [list |-> [i \in 0 .. FirstElements - 1 |-> FreeElement(i)], block |-> 0,
   nb_elements |-> 0, max_elements |-> FirstElements, entry |-> 0, hash |-> <<>>]

Full(m) == m.nb_elements = m.max_elements

Grown(m, moves) ==
  [m EXCEPT
     !.list = [i \in 0 .. 2 * m.max_elements - 1 |->
                 IF i < m.max_elements THEN m.list[i] ELSE FreeElement(i)],
     !.block = IF moves THEN @ + 1 ELSE @,
     !.max_elements = 2 * @]

(* fc_memory_list_add; the element added is the one "entry" was at *)
ListAdd(m, moves) ==
  LET g == IF Full(m) THEN Grown(m, moves) ELSE m
  IN  [g EXCEPT !.entry = g.list[g.entry].next,
                !.nb_elements = @ + 1,
                !.list[g.entry].set = TRUE]

Element(m, i) == [block |-> m.block, index |-> i]

At(m, el) == m.list[el.index]

(* an assignment through a pointer to an element of the list *)
Assign(m, el, value) == [m EXCEPT !.list[el.index] = value]

(* the address leads to an element of a list that was moved since: each of *)
(* fc_memory_add_malloc, _free and _realloc assigns through this pointer   *)
Dangling(m, a) == a \in DOMAIN m.hash /\ m.hash[a].block # m.block

(* fc_memory_list_remove *)
ListRemove(m, el) ==
  IF m.list[el.index].pointer = NULL THEN m ELSE
    [m EXCEPT !.list[el.index] =
                [@ EXCEPT !.pointer = NULL, !.set = FALSE, !.next = m.entry],
              !.entry = el.index]

(* a bug: the hash-table keeps the address *)
Without_Kept(hash, a) == hash

Without(hash, a) == [b \in DOMAIN hash \ {a} |-> hash[b]]
With(hash, a, el) ==
  IF a = NULL THEN hash
  ELSE [b \in DOMAIN hash \cup {a} |-> IF b = a THEN el ELSE hash[b]]

(* fc_memory_add_malloc and fc_memory_add_memalign *)
AddMalloc(m, ptr, where, moves) ==
  LET known == ptr \in DOMAIN m.hash
      n == IF known THEN m ELSE ListAdd(m, moves)
      el == IF known THEN m.hash[ptr] ELSE Element(n, m.entry)
  IN  [Assign(n, el, [At(n, el) EXCEPT !.pointer = ptr, !.size = "block",
                                       !.alloc = where, !.realloc = NULL])
         EXCEPT !.hash = With(@, ptr, el)]

(* an element of its own for an invalid call, that no address leads to *)
AddInvalid(m, ptr, alloc, realloc, moves) ==
  LET n == ListAdd(m, moves)
      el == Element(n, m.entry)
  IN  Assign(n, el, [At(n, el) EXCEPT !.pointer = ptr, !.size = "UINT_MAX",
                                      !.alloc = alloc, !.realloc = realloc])

(* fc_memory_add_free *)
AddFree(m, ptr, where, moves) ==
  IF ptr \notin DOMAIN m.hash THEN AddInvalid(m, ptr, where, NULL, moves)
  ELSE LET el == m.hash[ptr]
           cleared == Assign(m, el, [At(m, el) EXCEPT !.pointer = NULL, !.size = "none",
                                                      !.set = FALSE, !.alloc = NULL,
                                                      !.realloc = NULL])
       IN  ListRemove([cleared EXCEPT !.hash = Without(@, ptr)], el)

(* fc_memory_add_realloc: ptr is the new place of the block, inc the old   *)
AddRealloc(m, ptr, inc, where, moves) ==
  IF inc \notin DOMAIN m.hash THEN AddInvalid(m, inc, NULL, where, moves)
  ELSE LET el == m.hash[inc]
           updated == Assign(m, el, [At(m, el) EXCEPT !.pointer = ptr, !.realloc = where])
       IN  IF inc = ptr THEN updated
           ELSE [updated EXCEPT !.hash = With(Without(@, inc), ptr, el)]

------------------------------------------------------------------------------
Init ==
  /\ mode \in Modes
  /\ mem = [c \in Ids |-> Created]
  /\ crashed = FALSE
  /\ live = [c \in Ids |-> [a \in Addrs |-> NoBlock]]
  /\ alive = [c \in Ids |-> c = Root \/ mode = "THREAD"]
  /\ faults = [c \in Ids |-> <<>>]
  /\ calls = 0
  /\ odd = {}

(* threads share their blocks *)
Space(c) == IF mode = "FORK" THEN c ELSE Root
Blocks(c) == {a \in Addrs : live[Space(c)][a] # NoBlock}
Block(c, a) == live[Space(c)][a]

(* where the program calls from: each time from another place *)
Place == calls + 1

Call(c) ==
  /\ alive[c] /\ ~crashed /\ calls < MaxCalls /\ calls' = calls + 1
  /\ UNCHANGED <<mode, alive>>

(* The manager's side: what comes of the context's memory, the list moved  *)
(* by its growth or not, when it looks up the address a.                   *)
Treat(c, a, added, oddity) ==
  \/ /\ Dangling(mem[c], a)
     /\ crashed' = TRUE
     /\ UNCHANGED <<mem, odd>>
  \/ /\ ~Dangling(mem[c], a)
     /\ \E moves \in BOOLEAN : mem' = [mem EXCEPT ![c] = added[moves]]
     /\ odd' = odd \cup oddity
     /\ UNCHANGED crashed

(* the block is not of the one that frees it *)
Foreign(c, a) == IF Block(c, a).by = c THEN {} ELSE {"foreign"}

(* A list that cannot grow is lost, and used by the caller of list_add all *)
(* the same.                                                               *)
ListLost(c) ==
  /\ Call(c) /\ Full(mem[c])
  /\ crashed' = TRUE
  /\ UNCHANGED <<mem, live, faults, odd>>

Malloc(c, a) ==
  /\ Call(c) /\ a \notin Blocks(c)
  /\ live' = [live EXCEPT ![Space(c)][a] = [alloc |-> Place, realloc |-> NULL, by |-> c]]
  /\ Treat(c, a, [moves \in BOOLEAN |-> AddMalloc(mem[c], a, Place, moves)], {})
  /\ UNCHANGED faults

Free(c, a) ==
  /\ Call(c) /\ a \in Blocks(c)
  /\ live' = [live EXCEPT ![Space(c)][a] = NoBlock]
  /\ Treat(c, a, [moves \in BOOLEAN |-> AddFree(mem[c], a, Place, moves)], Foreign(c, a))
  /\ UNCHANGED faults

(* the block stays in its place, or moves *)
Realloc(c, inc, ptr) ==
  /\ Call(c) /\ inc \in Blocks(c) /\ ptr \notin Blocks(c) \ {inc}
  /\ live' = [live EXCEPT ![Space(c)] =
                [@ EXCEPT ![inc] = NoBlock, ![ptr] = [Block(c, inc) EXCEPT !.realloc = Place]]]
  /\ Treat(c, inc, [moves \in BOOLEAN |-> AddRealloc(mem[c], ptr, inc, Place, moves)], Foreign(c, inc))
  /\ UNCHANGED faults

Fault(c, kind, a) ==
  faults' = [faults EXCEPT ![c] = Append(@, [kind |-> kind, pointer |-> a, place |-> Place])]

(* free and realloc of an address that is no block's *)
InvalidFree(c, a) ==
  /\ Call(c) /\ a \notin Blocks(c)
  /\ Fault(c, "free", a)
  /\ Treat(c, a, [moves \in BOOLEAN |-> AddFree(mem[c], a, Place, moves)], {})
  /\ UNCHANGED live

InvalidRealloc(c, a) ==
  /\ Call(c) /\ a \notin Blocks(c)
  /\ Fault(c, "realloc", a)
  /\ Treat(c, a, [moves \in BOOLEAN |-> AddRealloc(mem[c], NULL, a, Place, moves)], {})
  /\ UNCHANGED live

(* free(NULL), which does nothing, and realloc(NULL, n), which allocates:  *)
(* the hooks send them like the others                                     *)
FreeNull(c) ==
  /\ Call(c)
  /\ Treat(c, NULL, [moves \in BOOLEAN |-> AddFree(mem[c], NULL, Place, moves)], {"free null"})
  /\ UNCHANGED <<live, faults>>

ReallocNull(c, a) ==
  /\ Call(c) /\ a \notin Blocks(c)
  /\ live' = [live EXCEPT ![Space(c)][a] = [alloc |-> Place, realloc |-> NULL, by |-> c]]
  /\ Treat(c, NULL, [moves \in BOOLEAN |-> AddRealloc(mem[c], a, NULL, Place, moves)], {"realloc null"})
  /\ UNCHANGED faults

(* realloc(a, 0), which frees, and a realloc that fails: both return NULL *)
ReallocZero(c, a) ==
  /\ Call(c) /\ a \in Blocks(c)
  /\ live' = [live EXCEPT ![Space(c)][a] = NoBlock]
  /\ Treat(c, a, [moves \in BOOLEAN |-> AddRealloc(mem[c], NULL, a, Place, moves)],
           {"zero"} \cup Foreign(c, a))
  /\ UNCHANGED faults

ReallocFails(c, a) ==
  /\ Call(c) /\ a \in Blocks(c)
  /\ Treat(c, a, [moves \in BOOLEAN |-> AddRealloc(mem[c], NULL, a, Place, moves)],
           {"fail"} \cup Foreign(c, a))
  /\ UNCHANGED <<live, faults>>

(* the child has copies of its parent's blocks; its context is new *)
Fork(p, c) ==
  /\ mode = "FORK" /\ alive[p] /\ ~alive[c]
  /\ alive' = [alive EXCEPT ![c] = TRUE]
  /\ live' = [live EXCEPT ![c] = live[p]]
  /\ UNCHANGED <<mode, mem, crashed, faults, calls, odd>>

Next ==
  \/ \E c \in Ids, a \in Addrs :
       \/ Malloc(c, a) \/ Free(c, a) \/ \E b \in Addrs : Realloc(c, a, b)
       \/ InvalidFree(c, a) \/ InvalidRealloc(c, a)
       \/ ReallocNull(c, a) \/ ReallocZero(c, a) \/ ReallocFails(c, a)
  \/ \E c \in Ids : FreeNull(c) \/ ListLost(c)
  \/ \E p, c \in Ids : Fork(p, c)

Spec == Init /\ [][Next]_vars

------------------------------------------------------------------------------
(* fc_context_save: the elements in use, sorted out *)

(* bugs: invalid calls are taken for leaks; both kinds of invalid calls    *)
(* are taken for frees                                                     *)
SavedLeaks_All(m) == {i \in 0 .. m.nb_elements - 1 : m.list[i].set}
SavedFrees_All(m) ==
  {i \in 0 .. m.nb_elements - 1 : m.list[i].set /\ m.list[i].size = "UINT_MAX"}

Used(m) == {i \in 0 .. m.nb_elements - 1 : m.list[i].set}
SavedLeaks(m) == {i \in Used(m) : m.list[i].size # "UINT_MAX"}
SavedFrees(m) == {i \in Used(m) : m.list[i].size = "UINT_MAX" /\ m.list[i].alloc # NULL}
SavedReallocs(m) == {i \in Used(m) : m.list[i].size = "UINT_MAX" /\ m.list[i].realloc # NULL}
(* nbf: what is announced before the list of invalid frees *)
AnnouncedFrees(m) == {i \in Used(m) : m.list[i].size = "UINT_MAX" /\ m.list[i].realloc = NULL}

TypeOK ==
  /\ crashed \in BOOLEAN /\ calls \in 0 .. MaxCalls /\ odd \subseteq Oddities
  /\ \A c \in Ids :
       LET m == mem[c] IN
       /\ m.nb_elements \in 0 .. m.max_elements /\ m.entry \in 0 .. m.max_elements
       /\ DOMAIN m.list = 0 .. m.max_elements - 1
       /\ DOMAIN m.hash \subseteq Addrs
       /\ \A a \in DOMAIN m.hash : m.hash[a].index \in 0 .. m.nb_elements - 1

(* "At exit, each remaining block is dropped in the profile data file"     *)
(* (libfc.texi): the leaks are, once each and with their places, the       *)
(* blocks that the process or thread has allocated and that are not freed, *)
(* in a list that was moved too, until a pointer into the old one is used. *)
(* It takes a realloc of NULL, to 0 or that fails or, between threads, a   *)
(* free by another one, to make them wrong.                                *)
LeaksExact ==
  \A c \in Ids :
    ~crashed /\ odd \subseteq {"free null"} \cup (IF mode = "FORK" THEN {"foreign"} ELSE {}) =>
    LET m == mem[c]
        own == {a \in Blocks(c) : Block(c, a).by = c}
    IN  /\ Cardinality(SavedLeaks(m)) = Cardinality(own)
        /\ \A a \in own : \E i \in SavedLeaks(m) :
             /\ m.list[i].pointer = a
             /\ m.list[i].alloc = Block(c, a).alloc
             /\ m.list[i].realloc = Block(c, a).realloc

(* "it allows to get [...] invalid pointers given to free and realloc"     *)
(* (libfc.texi): the two lists are the invalid calls, once each and in     *)
(* order (a later call has a greater place), and the number announced      *)
(* before the first is right, also after a realloc to 0.                   *)
InvalidExact ==
  \A c \in Ids : ~crashed /\ odd \subseteq {"zero"} =>
    LET list == mem[c].list
        frees == SavedFrees(mem[c])
        reallocs == SavedReallocs(mem[c])
        called(kind) == {<<f.pointer, f.place>> : f \in {g \in Range(faults[c]) : g.kind = kind}}
    IN  /\ AnnouncedFrees(mem[c]) = frees
        /\ {<<list[i].pointer, list[i].alloc>> : i \in frees} = called("free")
        /\ {<<list[i].pointer, list[i].realloc>> : i \in reallocs} = called("realloc")
        /\ \A i, j \in frees : i < j => list[i].alloc < list[j].alloc
        /\ \A i, j \in reallocs : i < j => list[i].realloc < list[j].realloc

(* As long as no pointer into a list that was moved is used: no two        *)
(* addresses lead to one element, an element of the hash-table has its     *)
(* address, is in use and none of the invalid calls, and the next element  *)
(* to be given out is not, whatever calls come, valid or not, by whoever.  *)
ElementsApart ==
  TypeOK /\ (~crashed => \A c \in Ids :
    LET m == mem[c] IN
    /\ \A a, b \in DOMAIN m.hash : m.hash[a].index = m.hash[b].index => a = b
    /\ \A a \in DOMAIN m.hash :
         m.list[m.hash[a].index].pointer = a /\ m.hash[a].index \in SavedLeaks(m)
    /\ ~Full(m) => m.entry \notin Used(m))
=============================================================================

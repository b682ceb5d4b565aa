--------------------------- MODULE FcMemoryProofs ---------------------------
(***************************************************************************)
(* What the memory profiling of the manager keeps, for any processes or    *)
(* threads, addresses, first size of the list and number of calls.         *)
(***************************************************************************)
EXTENDS FcMemory, FiniteSetTheorems, FunctionTheorems, TLAPS

Elements ==
  [pointer : Addrs \cup {NULL}, size : {"none", "block", "UINT_MAX"},
   alloc : Nat, realloc : Nat, next : Nat, set : BOOLEAN]

References == [block : Nat, index : Nat]

(* FC_Memory *)
IsMemory(m) ==
  /\ m = [list |-> m.list, block |-> m.block, nb_elements |-> m.nb_elements,
          max_elements |-> m.max_elements, entry |-> m.entry, hash |-> m.hash]
  /\ m.block \in Nat /\ m.nb_elements \in Nat /\ m.max_elements \in Nat
  /\ m.list \in [0 .. m.max_elements - 1 -> Elements]
  /\ DOMAIN m.hash \subseteq Addrs
  /\ m.hash \in [DOMAIN m.hash -> References]

(* The free elements are those after the ones given out, chained in their  *)
(* order: list_remove never puts one back, since fc_memory_add_free clears *)
(* the pointer that it looks at.                                           *)
FreeChained(m) ==
  /\ m.entry = m.nb_elements /\ m.nb_elements <= m.max_elements /\ m.max_elements > 0
  /\ \A i \in m.nb_elements .. m.max_elements - 1 :
       m.list[i].next = i + 1 /\ m.list[i].set = FALSE

(* The addresses lead to different elements, given out before, which have  *)
(* their address, are in use and are no invalid calls.                     *)
HashApart(m) ==
  /\ \A a \in DOMAIN m.hash : m.hash[a].index < m.nb_elements /\ m.hash[a].block <= m.block
  /\ \A a, b \in DOMAIN m.hash : m.hash[a].index = m.hash[b].index => a = b
  /\ \A a \in DOMAIN m.hash :
       LET x == m.list[m.hash[a].index] IN
       x.pointer = a /\ x.set = TRUE /\ x.size = "block"

ContextInv(m) == IsMemory(m) /\ FreeChained(m) /\ HashApart(m)

------------------------------------------------------------------------------
(* fc_memory_create: the list is empty and its elements are chained. *)
LEMMA CreatedInv == ContextInv(Created)
<1>1. \A i \in 0 .. FirstElements - 1 : FreeElement(i) \in Elements
  BY MemoryAssumption DEF FreeElement, Elements, NULL
<1>2. Created.list \in [0 .. FirstElements - 1 -> Elements]
  BY <1>1 DEF Created
<1>3. DOMAIN Created.hash = {}
  BY DEF Created
<1>4. IsMemory(Created)
  BY <1>2, <1>3, MemoryAssumption DEF IsMemory, Created
<1>5. FreeChained(Created)
  BY MemoryAssumption DEF FreeChained, Created, FreeElement
<1>6. HashApart(Created)
  BY <1>3 DEF HashApart
<1> QED
  BY <1>4, <1>5, <1>6 DEF ContextInv

(* fc_memory_list_add gives out the element after the last one given out,  *)
(* and leaves those before it alone, also when the list has to grow.       *)
LEMMA ListAddFacts ==
  ASSUME NEW m, ContextInv(m), NEW moves \in BOOLEAN
  PROVE  LET r == ListAdd(m, moves) IN
         /\ IsMemory(r) /\ FreeChained(r)
         /\ r.nb_elements = m.nb_elements + 1
         /\ r.hash = m.hash
         /\ r.block = m.block \/ r.block = m.block + 1
         /\ \A i \in 0 .. m.nb_elements - 1 : r.list[i] = m.list[i]
         /\ m.nb_elements \in 0 .. r.max_elements - 1
         /\ r.list[m.nb_elements].set = TRUE
<1> DEFINE g == IF Full(m) THEN Grown(m, moves) ELSE m
           e == m.nb_elements
<1>1. /\ IsMemory(m) /\ FreeChained(m)
      /\ m.entry = e /\ e \in Nat /\ m.max_elements \in Nat /\ m.block \in Nat
  BY DEF ContextInv, IsMemory, FreeChained
<1>2. /\ IsMemory(g) /\ g.hash = m.hash /\ g.nb_elements = e /\ g.entry = e
      /\ g.block = m.block \/ g.block = m.block + 1
      /\ g.max_elements > e
      /\ \A i \in 0 .. e - 1 : g.list[i] = m.list[i]
      /\ \A i \in e .. g.max_elements - 1 : g.list[i].next = i + 1 /\ g.list[i].set = FALSE
  <2>1. CASE ~Full(m)
    BY <1>1, <2>1 DEF Full, IsMemory, FreeChained
  <2>2. CASE Full(m)
    <3> DEFINE l == [i \in 0 .. 2 * m.max_elements - 1 |->
                       IF i < m.max_elements THEN m.list[i] ELSE FreeElement(i)]
    <3>1. g = [m EXCEPT !.list = l, !.block = IF moves THEN m.block + 1 ELSE m.block,
                        !.max_elements = 2 * m.max_elements]
      BY <2>2, <1>1 DEF Grown, IsMemory
    <3>2. \A i \in Nat : FreeElement(i) \in Elements
      BY DEF FreeElement, Elements, NULL
    <3>3. \A i \in 0 .. 2 * m.max_elements - 1 : l[i] \in Elements
      BY <3>2, <1>1 DEF IsMemory
    <3>4. l \in [0 .. 2 * m.max_elements - 1 -> Elements]
      BY <3>3
    <3>5. e = m.max_elements /\ m.max_elements > 0
      BY <2>2, <1>1 DEF Full, FreeChained
    <3>6. \A i \in 0 .. e - 1 : l[i] = m.list[i]
      BY <3>5, <1>1
    <3>7. \A i \in e .. 2 * m.max_elements - 1 : l[i].next = i + 1 /\ l[i].set = FALSE
      BY <3>5, <1>1 DEF FreeElement
    <3> HIDE DEF l, g
    <3>8. /\ g.list = l /\ g.max_elements = 2 * m.max_elements /\ g.hash = m.hash
          /\ g.nb_elements = e /\ g.entry = e
          /\ g.block = IF moves THEN m.block + 1 ELSE m.block
          /\ g = [list |-> g.list, block |-> g.block, nb_elements |-> g.nb_elements,
                  max_elements |-> g.max_elements, entry |-> g.entry, hash |-> g.hash]
      BY <3>1, <1>1 DEF IsMemory
    <3>9. IsMemory(g)
      BY <3>8, <3>4, <1>1 DEF IsMemory
    <3> QED
      BY <3>5, <3>6, <3>7, <3>8, <3>9, <1>1
  <2> QED
    BY <2>1, <2>2
<1> DEFINE r == ListAdd(m, moves)
<1> HIDE DEF g
<1>3. r = [g EXCEPT !.entry = g.list[e].next, !.nb_elements = g.nb_elements + 1,
                    !.list = [g.list EXCEPT ![e] = [g.list[e] EXCEPT !.set = TRUE]]]
  BY <1>2 DEF ListAdd, g, IsMemory
<1>4. /\ e \in 0 .. g.max_elements - 1 /\ g.list[e] \in Elements /\ g.list[e].next = e + 1
      /\ g.list \in [0 .. g.max_elements - 1 -> Elements] /\ g.max_elements \in Nat
  BY <1>1, <1>2 DEF IsMemory
<1>5. [g.list[e] EXCEPT !.set = TRUE] \in Elements /\ [g.list[e] EXCEPT !.set = TRUE].set = TRUE
  BY <1>4 DEF Elements
<1> HIDE DEF r
<1>6. /\ r.entry = e + 1 /\ r.nb_elements = e + 1 /\ r.hash = g.hash /\ r.block = g.block
      /\ r.max_elements = g.max_elements
      /\ r.list = [g.list EXCEPT ![e] = [g.list[e] EXCEPT !.set = TRUE]]
      /\ r = [list |-> r.list, block |-> r.block, nb_elements |-> r.nb_elements,
              max_elements |-> r.max_elements, entry |-> r.entry, hash |-> r.hash]
  BY <1>2, <1>3, <1>4 DEF IsMemory
<1>7. /\ r.list \in [0 .. r.max_elements - 1 -> Elements]
      /\ r.list[e].set = TRUE
      /\ \A i \in 0 .. r.max_elements - 1 : i # e => r.list[i] = g.list[i]
  BY <1>4, <1>5, <1>6
<1>8. IsMemory(r)
  BY <1>2, <1>6, <1>7, <1>1 DEF IsMemory
<1>9. FreeChained(r)
  <2>1. /\ r.entry = r.nb_elements /\ r.nb_elements <= r.max_elements /\ r.max_elements > 0
    BY <1>1, <1>2, <1>4, <1>6
  <2>2. ASSUME NEW i \in r.nb_elements .. r.max_elements - 1
        PROVE  r.list[i].next = i + 1 /\ r.list[i].set = FALSE
    <3>1. i \in 0 .. r.max_elements - 1 /\ i # e /\ i \in e .. g.max_elements - 1
      BY <1>1, <1>4, <1>6
    <3> QED
      BY <3>1, <1>2, <1>7
  <2> QED
    BY <2>1, <2>2 DEF FreeChained
<1>10. \A i \in 0 .. e - 1 : r.list[i] = m.list[i]
  BY <1>1, <1>2, <1>4, <1>6, <1>7
<1> QED
  BY <1>1, <1>2, <1>4, <1>6, <1>7, <1>8, <1>9, <1>10 DEF r

(* what an assignment to an element given out leaves *)
Assigned(m, el, value, r) ==
  /\ IsMemory(r) /\ FreeChained(r)
  /\ r.block = m.block /\ r.nb_elements = m.nb_elements /\ r.hash = m.hash
  /\ r.max_elements = m.max_elements
  /\ r.list = [m.list EXCEPT ![el.index] = value]
  /\ \A i \in 0 .. m.max_elements - 1 : i # el.index => r.list[i] = m.list[i]
  /\ r.list[el.index] = value
  /\ el.index \in 0 .. m.max_elements - 1

(* The assignments of fc_memory_add_*, through a pointer to an element. *)
LEMMA AssignFacts ==
  ASSUME NEW m, IsMemory(m), FreeChained(m), NEW el, NEW value \in Elements,
         el.index \in Nat, el.index < m.nb_elements
  PROVE  Assigned(m, el, value, Assign(m, el, value))
<1> DEFINE r == Assign(m, el, value)
<1>1. /\ m.list \in [0 .. m.max_elements - 1 -> Elements] /\ m.max_elements \in Nat
      /\ m.nb_elements \in Nat /\ m.nb_elements <= m.max_elements
      /\ el.index \in 0 .. m.max_elements - 1
  BY DEF IsMemory, FreeChained
<1> DEFINE l == [m.list EXCEPT ![el.index] = value]
<1>2. l \in [0 .. m.max_elements - 1 -> Elements]
  BY <1>1
<1>3. r = [m EXCEPT !.list = l]
  BY DEF Assign, IsMemory
<1>4. /\ l[el.index] = value
      /\ \A i \in 0 .. m.max_elements - 1 : i # el.index => l[i] = m.list[i]
  BY <1>1
<1>5. r.list = l
  BY <1>3 DEF IsMemory
<1> HIDE DEF l, r
<1>6. /\ r.block = m.block /\ r.nb_elements = m.nb_elements /\ r.hash = m.hash
      /\ r.max_elements = m.max_elements /\ r.entry = m.entry
      /\ r = [list |-> r.list, block |-> r.block, nb_elements |-> r.nb_elements,
              max_elements |-> r.max_elements, entry |-> r.entry, hash |-> r.hash]
  BY <1>3 DEF IsMemory
<1>7. IsMemory(r)
  BY <1>2, <1>5, <1>6 DEF IsMemory
<1>8. \A i \in m.nb_elements .. m.max_elements - 1 : r.list[i] = m.list[i]
  BY <1>1, <1>4, <1>5
<1>9. FreeChained(r)
  BY <1>6, <1>8 DEF FreeChained
<1> QED
  BY <1>1, <1>4, <1>5, <1>6, <1>7, <1>9 DEF r, l, Assigned

(* what an invalid call leaves *)
Charged(m, ptr, alloc, realloc, r) ==
  /\ ContextInv(r)
  /\ r.nb_elements = m.nb_elements + 1 /\ r.hash = m.hash
  /\ \A i \in 0 .. m.nb_elements - 1 : r.list[i] = m.list[i]
  /\ LET x == r.list[m.nb_elements] IN
       /\ x.pointer = ptr /\ x.size = "UINT_MAX" /\ x.set = TRUE
       /\ x.alloc = alloc /\ x.realloc = realloc

(* An invalid call takes an element of its own. *)
LEMMA AddInvalidFacts ==
  ASSUME NEW m, ContextInv(m), NEW ptr \in Addrs \cup {NULL}, NEW alloc \in Nat,
         NEW realloc \in Nat, NEW moves \in BOOLEAN
  PROVE  Charged(m, ptr, alloc, realloc, AddInvalid(m, ptr, alloc, realloc, moves))
<1> DEFINE n == ListAdd(m, moves)
           e == m.nb_elements
           el == Element(n, m.entry)
           value == [At(n, el) EXCEPT !.pointer = ptr, !.size = "UINT_MAX",
                                      !.alloc = alloc, !.realloc = realloc]
           r == Assign(n, el, value)
<1>1. /\ IsMemory(n) /\ FreeChained(n) /\ n.nb_elements = e + 1 /\ n.hash = m.hash
      /\ n.block = m.block \/ n.block = m.block + 1
      /\ \A i \in 0 .. e - 1 : n.list[i] = m.list[i]
      /\ e \in 0 .. n.max_elements - 1 /\ n.list[e].set = TRUE
  BY ListAddFacts
<1>2. e \in Nat /\ m.entry = e /\ m.block \in Nat /\ n.max_elements \in Nat
  BY <1>1 DEF ContextInv, IsMemory, FreeChained
<1>3. n.list[e] \in Elements
  BY <1>1 DEF IsMemory
<1> HIDE DEF n
<1>4. el.index = e /\ el.block = n.block /\ At(n, el) = n.list[e]
  BY <1>2 DEF Element, At
<1>5. /\ value \in Elements /\ value.size = "UINT_MAX" /\ value.set = TRUE
      /\ value.pointer = ptr /\ value.alloc = alloc /\ value.realloc = realloc
  BY <1>1, <1>3, <1>4 DEF Elements
<1> HIDE DEF el, value
<1>6. /\ IsMemory(r) /\ FreeChained(r) /\ r.block = n.block /\ r.nb_elements = e + 1
      /\ r.hash = m.hash /\ r.list[e] = value
      /\ \A i \in 0 .. n.max_elements - 1 : i # e => r.list[i] = n.list[i]
  <2>1. el.index \in Nat /\ el.index < n.nb_elements
    BY <1>1, <1>2, <1>4
  <2>2. Assigned(n, el, value, r)
    BY <2>1, <1>1, <1>5, AssignFacts
  <2> QED
    BY <2>2, <1>1, <1>4 DEF Assigned
<1> HIDE DEF r
<1>7. \A i \in 0 .. e - 1 : r.list[i] = m.list[i]
  BY <1>1, <1>2, <1>6
<1>8. HashApart(r)
  <2>1. ASSUME NEW a \in DOMAIN m.hash
        PROVE  /\ m.hash[a].index \in 0 .. e - 1 /\ m.hash[a].block \in Nat
               /\ m.hash[a].block <= m.block
    BY <1>2 DEF ContextInv, HashApart, IsMemory, References
  <2>2. \A a, b \in DOMAIN m.hash : m.hash[a].index = m.hash[b].index => a = b
    BY DEF ContextInv, HashApart
  <2>3. ASSUME NEW a \in DOMAIN m.hash
        PROVE  LET x == r.list[m.hash[a].index] IN
               x.pointer = a /\ x.set = TRUE /\ x.size = "block"
    <3>1. r.list[m.hash[a].index] = m.list[m.hash[a].index]
      BY <2>1, <1>2, <1>7
    <3> QED
      BY <3>1 DEF ContextInv, HashApart
  <2>4. \A a \in DOMAIN m.hash : m.hash[a].index < r.nb_elements /\ m.hash[a].block <= r.block
    BY <2>1, <1>1, <1>2, <1>6
  <2>5. \A a \in DOMAIN m.hash :
          LET x == r.list[m.hash[a].index] IN x.pointer = a /\ x.set = TRUE /\ x.size = "block"
    BY ONLY <2>3
  <2>6. r.hash = m.hash
    BY <1>6
  <2> QED
    BY ONLY <2>2, <2>4, <2>5, <2>6 DEF HashApart
<1> QED
  BY <1>5, <1>6, <1>7, <1>8 DEF Charged, ContextInv, AddInvalid, r, el, value, n

(* A reference of the hash-table is to an element given out. *)
LEMMA HashTyped ==
  ASSUME NEW m, ContextInv(m), NEW a \in DOMAIN m.hash
  PROVE  /\ a \in Addrs /\ a # NULL /\ m.hash[a] \in References
         /\ m.hash[a].index \in Nat /\ m.hash[a].index < m.nb_elements
         /\ m.hash[a].index \in 0 .. m.nb_elements - 1
         /\ m.hash[a].index \in 0 .. m.max_elements - 1
         /\ At(m, m.hash[a]) \in Elements
         /\ m.hash[a].block \in Nat /\ m.hash[a].block <= m.block
         /\ m.block \in Nat /\ m.nb_elements \in Nat /\ m.max_elements \in Nat
         /\ m.nb_elements <= m.max_elements
<1>1. /\ a \in Addrs /\ m.hash[a] \in References
      /\ m.block \in Nat /\ m.nb_elements \in Nat /\ m.max_elements \in Nat
      /\ m.list \in [0 .. m.max_elements - 1 -> Elements]
  BY DEF ContextInv, IsMemory
<1>2. /\ m.hash[a].index < m.nb_elements /\ m.hash[a].block <= m.block
      /\ m.nb_elements <= m.max_elements
  BY DEF ContextInv, HashApart, FreeChained
<1>3. m.hash[a].index \in Nat /\ m.hash[a].block \in Nat
  BY <1>1 DEF References
<1>4. a # NULL
  BY <1>1, MemoryAssumption DEF NULL
<1> QED
  BY <1>1, <1>2, <1>3, <1>4 DEF At

(* what fc_memory_add_malloc leaves for an address it does not know *)
Allocated(m, ptr, where, r) ==
  /\ ContextInv(r)
  /\ r.nb_elements = m.nb_elements + 1
  /\ r.hash = With(m.hash, ptr, [block |-> r.block, index |-> m.nb_elements])
  /\ \A i \in 0 .. m.nb_elements - 1 : r.list[i] = m.list[i]
  /\ LET x == r.list[m.nb_elements] IN
       /\ x.pointer = ptr /\ x.size = "block" /\ x.set = TRUE
       /\ x.alloc = where /\ x.realloc = NULL

(* An allocation takes an element of its own. *)
LEMMA AddMallocFacts ==
  ASSUME NEW m, ContextInv(m), NEW ptr \in Addrs, ptr \notin DOMAIN m.hash,
         NEW where \in Nat, NEW moves \in BOOLEAN
  PROVE  Allocated(m, ptr, where, AddMalloc(m, ptr, where, moves))
<1> DEFINE n == ListAdd(m, moves)
           e == m.nb_elements
           el == Element(n, m.entry)
           value == [At(n, el) EXCEPT !.pointer = ptr, !.size = "block",
                                      !.alloc = where, !.realloc = NULL]
           o == Assign(n, el, value)
           r == [o EXCEPT !.hash = With(o.hash, ptr, el)]
<1>1. /\ IsMemory(n) /\ FreeChained(n) /\ n.nb_elements = e + 1 /\ n.hash = m.hash
      /\ n.block = m.block \/ n.block = m.block + 1
      /\ \A i \in 0 .. e - 1 : n.list[i] = m.list[i]
      /\ e \in 0 .. n.max_elements - 1 /\ n.list[e].set = TRUE
  BY ListAddFacts
<1>2. e \in Nat /\ m.entry = e /\ m.block \in Nat /\ n.max_elements \in Nat /\ n.block \in Nat
  BY <1>1 DEF ContextInv, IsMemory, FreeChained
<1>3. n.list[e] \in Elements
  BY <1>1 DEF IsMemory
<1>r. AddMalloc(m, ptr, where, moves) = [o EXCEPT !.hash = With(@, ptr, el)]
  BY DEF AddMalloc
<1> HIDE DEF n
<1>4. /\ el = [block |-> n.block, index |-> e] /\ el.index = e /\ el.block = n.block
      /\ At(n, el) = n.list[e]
  BY <1>2 DEF Element, At
<1>5. /\ value \in Elements /\ value.size = "block" /\ value.set = TRUE /\ value.pointer = ptr
      /\ value.alloc = where /\ value.realloc = NULL
  BY <1>1, <1>3, <1>4 DEF Elements, NULL
<1> HIDE DEF el, value
<1>6. /\ IsMemory(o) /\ FreeChained(o) /\ o.block = n.block /\ o.nb_elements = e + 1
      /\ o.hash = m.hash /\ o.list[e] = value
      /\ \A i \in 0 .. n.max_elements - 1 : i # e => o.list[i] = n.list[i]
  <2>1. el.index \in Nat /\ el.index < n.nb_elements
    BY <1>1, <1>2, <1>4
  <2>2. Assigned(n, el, value, o)
    BY <2>1, <1>1, <1>5, AssignFacts
  <2> QED
    BY <2>2, <1>1, <1>4 DEF Assigned
<1>s. AddMalloc(m, ptr, where, moves) = r
  BY <1>r, <1>6 DEF IsMemory
<1> HIDE DEF o
<1> DEFINE h == With(m.hash, ptr, el)
<1>7. /\ r.list = o.list /\ r.block = o.block /\ r.nb_elements = o.nb_elements
      /\ r.max_elements = o.max_elements /\ r.entry = o.entry /\ r.hash = h
      /\ r = [list |-> r.list, block |-> r.block, nb_elements |-> r.nb_elements,
              max_elements |-> r.max_elements, entry |-> r.entry, hash |-> r.hash]
  BY <1>6 DEF IsMemory
<1>8. /\ DOMAIN h = DOMAIN m.hash \cup {ptr} /\ h[ptr] = el
      /\ \A a \in DOMAIN m.hash : h[a] = m.hash[a]
      /\ h = [b \in DOMAIN h |-> h[b]]
  BY MemoryAssumption DEF With, NULL
<1> HIDE DEF r, h
<1>9. IsMemory(r)
  <2>1. el \in References
    BY <1>2, <1>4 DEF References
  <2>2. \A a \in DOMAIN m.hash : m.hash[a] \in References /\ a \in Addrs
    BY HashTyped
  <2>3. h \in [DOMAIN h -> References] /\ DOMAIN h \subseteq Addrs
    BY <2>1, <2>2, <1>8
  <2> QED
    BY <2>3, <1>6, <1>7 DEF IsMemory
<1>10. FreeChained(r)
  BY <1>6, <1>7 DEF FreeChained
<1>11. \A i \in 0 .. e - 1 : r.list[i] = m.list[i]
  BY <1>1, <1>2, <1>6, <1>7
<1>12. HashApart(r)
  <2>1. \A a \in DOMAIN m.hash : /\ m.hash[a].index \in 0 .. e - 1 /\ m.hash[a].index # e
                                 /\ m.hash[a].block \in Nat /\ m.hash[a].block <= m.block
    BY HashTyped, <1>2
  <2>2. \A a \in DOMAIN h : h[a].index < e + 1 /\ h[a].block <= n.block
    BY <2>1, <1>1, <1>2, <1>4, <1>8
  <2>3. ASSUME NEW a \in DOMAIN h, NEW b \in DOMAIN h, h[a].index = h[b].index
        PROVE  a = b
    BY <2>1, <2>3, <1>4, <1>8 DEF ContextInv, HashApart
  <2>4. ASSUME NEW a \in DOMAIN h
        PROVE  LET x == r.list[h[a].index] IN
               x.pointer = a /\ x.set = TRUE /\ x.size = "block"
    <3>1. CASE a = ptr
      BY <3>1, <1>4, <1>5, <1>6, <1>7, <1>8
    <3>2. CASE a # ptr
      <4>1. /\ a \in DOMAIN m.hash /\ h[a] = m.hash[a]
            /\ r.list[h[a].index] = m.list[m.hash[a].index]
        BY <3>2, <2>1, <1>1, <1>2, <1>6, <1>7, <1>8, <1>11
      <4> QED
        BY <4>1 DEF ContextInv, HashApart
    <3> QED
      BY <3>1, <3>2
  <2>5. r.hash = h /\ r.nb_elements = e + 1 /\ r.block = n.block
    BY <1>6, <1>7
  <2> QED
    BY <2>2, <2>3, <2>4, <2>5, ZenonT(30) DEF HashApart
<1>13. Allocated(m, ptr, where, r)
  BY <1>4, <1>5, <1>6, <1>7, <1>9, <1>10, <1>11, <1>12 DEF Allocated, ContextInv, h
<1> QED
  BY <1>13, <1>s

(* what an update of the hash-table leaves *)
Rehashed(m, h, r) ==
  /\ IsMemory(r) /\ FreeChained(r) /\ r.hash = h
  /\ r.list = m.list /\ r.block = m.block /\ r.nb_elements = m.nb_elements
  /\ r.max_elements = m.max_elements

(* fc_hash_insert and fc_hash_remove change nothing but the hash-table. *)
LEMMA RehashFacts ==
  ASSUME NEW m, IsMemory(m), FreeChained(m), NEW h, DOMAIN h \subseteq Addrs,
         h \in [DOMAIN h -> References]
  PROVE  Rehashed(m, h, [m EXCEPT !.hash = h])
<1> DEFINE r == [m EXCEPT !.hash = h]
<1>1. /\ r.list = m.list /\ r.block = m.block /\ r.nb_elements = m.nb_elements
      /\ r.max_elements = m.max_elements /\ r.entry = m.entry /\ r.hash = h
      /\ r = [list |-> r.list, block |-> r.block, nb_elements |-> r.nb_elements,
              max_elements |-> r.max_elements, entry |-> r.entry, hash |-> r.hash]
  BY DEF IsMemory
<1> HIDE DEF r
<1>2. IsMemory(r)
  BY <1>1 DEF IsMemory
<1>3. FreeChained(r)
  BY <1>1 DEF FreeChained
<1>4. Rehashed(m, h, r)
  BY <1>1, <1>2, <1>3 DEF Rehashed
<1> QED
  BY <1>4 DEF r

(* An allocation at an address that is known already, of a block that was  *)
(* freed without the context hearing of it: its element is used again.     *)
LEMMA AddMallocKnown ==
  ASSUME NEW m, ContextInv(m), NEW ptr \in DOMAIN m.hash,
         NEW where \in Nat, NEW moves \in BOOLEAN
  PROVE  ContextInv(AddMalloc(m, ptr, where, moves))
<1> DEFINE el == m.hash[ptr]
           value == [At(m, el) EXCEPT !.pointer = ptr, !.size = "block",
                                      !.alloc = where, !.realloc = NULL]
           o == Assign(m, el, value)
           h == With(o.hash, ptr, el)
           r == [o EXCEPT !.hash = h]
<1>1. /\ ptr \in Addrs /\ ptr # NULL /\ el \in References
      /\ el.index \in Nat /\ el.index < m.nb_elements /\ At(m, el) \in Elements
  BY HashTyped
<1>2. /\ value \in Elements /\ value.size = "block" /\ value.set = At(m, el).set
      /\ value.pointer = ptr
  BY <1>1 DEF Elements, NULL
<1>3. IsMemory(m) /\ FreeChained(m) /\ HashApart(m)
  BY DEF ContextInv
<1>4. At(m, el).set = TRUE
  BY <1>3 DEF HashApart, At
<1>r. AddMalloc(m, ptr, where, moves) = [o EXCEPT !.hash = With(@, ptr, el)]
  BY DEF AddMalloc
<1> HIDE DEF value
<1>5. Assigned(m, el, value, o)
  BY <1>1, <1>2, <1>3, AssignFacts
<1> HIDE DEF o
<1>6. IsMemory(o) /\ FreeChained(o) /\ o.hash = m.hash /\ o.block = m.block
  BY <1>5 DEF Assigned
<1>s. AddMalloc(m, ptr, where, moves) = r
  BY <1>r, <1>6 DEF IsMemory
<1>7. h = m.hash
  BY <1>1, <1>3, <1>6 DEF With, IsMemory
<1> HIDE DEF h
<1>8. Rehashed(o, h, r)
  BY <1>3, <1>6, <1>7, RehashFacts DEF IsMemory
<1> HIDE DEF r
<1>9. HashApart(r)
  <2>1. ASSUME NEW a \in DOMAIN m.hash
        PROVE  LET x == o.list[m.hash[a].index] IN
               x.pointer = a /\ x.set = TRUE /\ x.size = "block"
    <3>1. CASE a = ptr
      BY <3>1, <1>2, <1>4, <1>5 DEF Assigned
    <3>2. CASE a # ptr
      <4>1. m.hash[a].index # el.index
        BY <3>2, <1>3 DEF HashApart
      <4>2. o.list[m.hash[a].index] = m.list[m.hash[a].index]
        BY <4>1, <1>5, HashTyped DEF Assigned
      <4> QED
        BY <4>2, <1>3 DEF HashApart
    <3> QED
      BY <3>1, <3>2
  <2>2. /\ r.hash = m.hash /\ r.block = m.block /\ r.nb_elements = m.nb_elements
        /\ r.list = o.list
    BY <1>5, <1>7, <1>8 DEF Rehashed, Assigned
  <2>3. /\ \A a \in DOMAIN m.hash : m.hash[a].index < m.nb_elements /\ m.hash[a].block <= m.block
        /\ \A a, b \in DOMAIN m.hash : m.hash[a].index = m.hash[b].index => a = b
    BY <1>3 DEF HashApart
  <2>4. \A a \in DOMAIN m.hash :
          LET x == r.list[m.hash[a].index] IN x.pointer = a /\ x.set = TRUE /\ x.size = "block"
    <3>1. r.list = o.list
      BY <2>2
    <3> QED
      BY ONLY <2>1, <3>1
  <2> QED
    BY <2>2, <2>3, <2>4 DEF HashApart
<1> QED
  BY <1>8, <1>9, <1>s DEF ContextInv, Rehashed

(* what fc_memory_add_free leaves for an address it knows *)
Freed(m, ptr, r) ==
  /\ ContextInv(r)
  /\ r.nb_elements = m.nb_elements /\ r.block = m.block
  /\ r.hash = Without(m.hash, ptr)
  /\ \A i \in 0 .. m.nb_elements - 1 : i # m.hash[ptr].index => r.list[i] = m.list[i]
  /\ LET x == r.list[m.hash[ptr].index] IN
       x.set = FALSE /\ x.size = "none"

(* A free gives up the element of its address, and no other. *)
LEMMA AddFreeKnown ==
  ASSUME NEW m, ContextInv(m), NEW ptr \in DOMAIN m.hash,
         NEW where, NEW moves
  PROVE  Freed(m, ptr, AddFree(m, ptr, where, moves))
<1> DEFINE el == m.hash[ptr]
           value == [At(m, el) EXCEPT !.pointer = NULL, !.size = "none", !.set = FALSE,
                                      !.alloc = NULL, !.realloc = NULL]
           o == Assign(m, el, value)
           h == Without(o.hash, ptr)
           r == [o EXCEPT !.hash = h]
<1>1. /\ ptr \in Addrs /\ ptr # NULL /\ el \in References /\ m.nb_elements \in Nat
      /\ m.max_elements \in Nat /\ m.nb_elements <= m.max_elements
      /\ el.index \in Nat /\ el.index < m.nb_elements /\ At(m, el) \in Elements
  BY HashTyped
<1>2. value \in Elements /\ value.set = FALSE /\ value.size = "none" /\ value.pointer = NULL
  BY <1>1 DEF Elements, NULL
<1>3. IsMemory(m) /\ FreeChained(m) /\ HashApart(m)
  BY DEF ContextInv
<1>r. AddFree(m, ptr, where, moves) = ListRemove([o EXCEPT !.hash = Without(@, ptr)], el)
  BY DEF AddFree
<1> HIDE DEF value
<1>4. Assigned(m, el, value, o)
  BY <1>1, <1>2, <1>3, AssignFacts
<1> HIDE DEF o
<1>5. IsMemory(o) /\ FreeChained(o) /\ o.hash = m.hash /\ o.block = m.block
  BY <1>4 DEF Assigned
<1>s. AddFree(m, ptr, where, moves) = ListRemove(r, el)
  BY <1>r, <1>5 DEF IsMemory
<1>6. /\ DOMAIN h = DOMAIN m.hash \ {ptr} /\ \A a \in DOMAIN h : h[a] = m.hash[a]
      /\ h = [a \in DOMAIN h |-> h[a]] /\ h = Without(m.hash, ptr)
  BY <1>5 DEF Without
<1> HIDE DEF h
<1>7. DOMAIN h \subseteq Addrs /\ h \in [DOMAIN h -> References]
  BY <1>3, <1>6 DEF IsMemory
<1>8. Rehashed(o, h, r)
  BY <1>5, <1>7, RehashFacts
<1> HIDE DEF r
<1>9. ListRemove(r, el) = r
  <2>1. r.list = o.list /\ r.block = m.block
    BY <1>5, <1>8 DEF Rehashed
  <2>2. r.list[el.index].pointer = NULL
    BY <2>1, <1>2, <1>4 DEF Assigned
  <2> QED
    BY <2>1, <2>2 DEF ListRemove
<1>10. /\ r.hash = h /\ r.block = m.block /\ r.nb_elements = m.nb_elements
       /\ r.list = o.list
  BY <1>4, <1>8 DEF Rehashed, Assigned
<1>11. \A i \in 0 .. m.nb_elements - 1 : i # el.index => r.list[i] = m.list[i]
  BY <1>1, <1>4, <1>10 DEF Assigned
<1>12. LET x == r.list[el.index] IN
       x.set = FALSE /\ x.size = "none"
  BY <1>2, <1>4, <1>10 DEF Assigned
<1>13. HashApart(r)
  <2>1. ASSUME NEW a \in DOMAIN h
        PROVE  LET x == r.list[m.hash[a].index] IN
               x.pointer = a /\ x.set = TRUE /\ x.size = "block"
    <3>1. a \in DOMAIN m.hash /\ m.hash[a].index # el.index
      BY <1>3, <1>6 DEF HashApart
    <3>2. r.list[m.hash[a].index] = m.list[m.hash[a].index]
      BY <3>1, <1>11, HashTyped
    <3> QED
      BY <3>1, <3>2, <1>3 DEF HashApart
  <2>2. /\ \A a \in DOMAIN h : h[a].index < m.nb_elements /\ h[a].block <= m.block
        /\ \A a, b \in DOMAIN h : h[a].index = h[b].index => a = b
    BY <1>3, <1>6 DEF HashApart
  <2>3. \A a \in DOMAIN h :
          LET x == r.list[h[a].index] IN x.pointer = a /\ x.set = TRUE /\ x.size = "block"
    <3>1. \A a \in DOMAIN h : h[a] = m.hash[a]
      BY <1>6
    <3> QED
      BY ONLY <2>1, <3>1
  <2> QED
    BY <2>2, <2>3, <1>10 DEF HashApart
<1> QED
  BY <1>6, <1>8, <1>9, <1>10, <1>11, <1>12, <1>13, <1>s DEF ContextInv, Rehashed, Freed

(* what fc_memory_add_realloc leaves for an address it knows *)
Moved(m, ptr, inc, where, r) ==
  LET el == m.hash[inc] IN
  /\ ContextInv(r)
  /\ r.nb_elements = m.nb_elements /\ r.block = m.block
  /\ r.hash = IF inc = ptr THEN m.hash ELSE With(Without(m.hash, inc), ptr, el)
  /\ \A i \in 0 .. m.nb_elements - 1 : i # el.index => r.list[i] = m.list[i]
  /\ LET x == r.list[el.index] IN
       /\ x.pointer = ptr /\ x.size = m.list[el.index].size /\ x.set = m.list[el.index].set
       /\ x.alloc = m.list[el.index].alloc /\ x.realloc = where

(* A realloc leads the new address to the element of the old one. *)
LEMMA AddReallocKnown ==
  ASSUME NEW m, ContextInv(m), NEW inc \in DOMAIN m.hash, NEW ptr \in Addrs \cup {NULL},
         NEW where \in Nat, NEW moves
  PROVE  Moved(m, ptr, inc, where, AddRealloc(m, ptr, inc, where, moves))
<1> DEFINE el == m.hash[inc]
           value == [At(m, el) EXCEPT !.pointer = ptr, !.realloc = where]
           o == Assign(m, el, value)
           h == IF inc = ptr THEN m.hash ELSE With(Without(m.hash, inc), ptr, el)
           r == [o EXCEPT !.hash = h]
<1>1. /\ inc \in Addrs /\ inc # NULL /\ el \in References /\ m.nb_elements \in Nat
      /\ m.max_elements \in Nat /\ m.nb_elements <= m.max_elements
      /\ el.index \in Nat /\ el.index < m.nb_elements /\ At(m, el) \in Elements
  BY HashTyped
<1>2. /\ value \in Elements /\ value.size = At(m, el).size /\ value.set = At(m, el).set
      /\ value.alloc = At(m, el).alloc /\ value.pointer = ptr /\ value.realloc = where
  BY <1>1 DEF Elements
<1>3. IsMemory(m) /\ FreeChained(m) /\ HashApart(m)
  BY DEF ContextInv
<1>r. AddRealloc(m, ptr, inc, where, moves) =
        IF inc = ptr THEN o ELSE [o EXCEPT !.hash = With(Without(@, inc), ptr, el)]
  BY DEF AddRealloc
<1> HIDE DEF value
<1>4. Assigned(m, el, value, o)
  BY <1>1, <1>2, <1>3, AssignFacts
<1> HIDE DEF o
<1>5. /\ IsMemory(o) /\ FreeChained(o) /\ o.hash = m.hash /\ o.block = m.block
      /\ o.nb_elements = m.nb_elements
      /\ o = [list |-> o.list, block |-> o.block, nb_elements |-> o.nb_elements,
              max_elements |-> o.max_elements, entry |-> o.entry, hash |-> o.hash]
  BY <1>4 DEF Assigned, IsMemory
<1>s. AddRealloc(m, ptr, inc, where, moves) = r
  <2>1. CASE inc = ptr
    <3>1. [o EXCEPT !.hash = o.hash] = o
      BY <1>5
    <3> QED
      BY <2>1, <3>1, <1>5, <1>r
  <2>2. CASE inc # ptr
    <3>1. [o EXCEPT !.hash = With(Without(@, inc), ptr, el)]
            = [o EXCEPT !.hash = With(Without(o.hash, inc), ptr, el)]
      BY <1>5
    <3> QED
      BY <2>2, <3>1, <1>5, <1>r
  <2> QED
    BY <2>1, <2>2
(* an address leads where it did, but the old one and the new *)
<1>6. /\ h = [a \in DOMAIN h |-> h[a]]
      /\ ptr # NULL => ptr \in DOMAIN h /\ h[ptr] = el
      /\ DOMAIN h \subseteq DOMAIN m.hash \cup {ptr} /\ NULL \notin DOMAIN h
      /\ \A a \in DOMAIN h : a # ptr => a \in DOMAIN m.hash /\ a # inc /\ h[a] = m.hash[a]
  <2>1. NULL \notin DOMAIN m.hash
    BY HashTyped
  <2>2. CASE inc = ptr
    BY <2>1, <2>2, <1>3 DEF IsMemory
  <2>3. CASE inc # ptr
    <3> DEFINE w == Without(m.hash, inc)
    <3>1. /\ DOMAIN w = DOMAIN m.hash \ {inc} /\ \A a \in DOMAIN w : w[a] = m.hash[a]
          /\ w = [a \in DOMAIN w |-> w[a]]
      BY DEF Without
    <3> HIDE DEF w
    <3>2. h = IF ptr = NULL THEN w
              ELSE [b \in DOMAIN w \cup {ptr} |-> IF b = ptr THEN el ELSE w[b]]
      BY <2>3 DEF With, w
    <3> HIDE DEF h
    <3>3. CASE ptr = NULL
      BY <3>1, <3>2, <3>3, <2>1
    <3>4. CASE ptr # NULL
      BY <3>1, <3>2, <3>4, <2>1
    <3> QED
      BY <3>3, <3>4
  <2> QED
    BY <2>2, <2>3
<1> HIDE DEF h
<1>7. DOMAIN h \subseteq Addrs /\ h \in [DOMAIN h -> References]
  <2>1. ASSUME NEW a \in DOMAIN h PROVE a \in Addrs /\ h[a] \in References
    <3>1. CASE a = ptr
      BY <3>1, <1>1, <1>6
    <3>2. CASE a # ptr
      BY <3>2, <1>6, HashTyped
    <3> QED
      BY <3>1, <3>2
  <2> QED
    BY <2>1, <1>6
<1>8. Rehashed(o, h, r)
  BY <1>5, <1>7, RehashFacts
<1> HIDE DEF r
<1>9. /\ r.hash = h /\ r.block = m.block /\ r.nb_elements = m.nb_elements
      /\ r.list = o.list
  BY <1>5, <1>8 DEF Rehashed
<1>10. \A i \in 0 .. m.nb_elements - 1 : i # el.index => r.list[i] = m.list[i]
  BY <1>1, <1>4, <1>9 DEF Assigned
<1>11. r.list[el.index] = value
  BY <1>4, <1>9 DEF Assigned
<1>12. HashApart(r)
  <2>1. ASSUME NEW a \in DOMAIN h PROVE h[a].index < m.nb_elements /\ h[a].block <= m.block
    <3>1. CASE a = ptr
      BY <3>1, <1>3, <1>6 DEF HashApart
    <3>2. CASE a # ptr
      BY <3>2, <1>3, <1>6 DEF HashApart
    <3> QED
      BY <3>1, <3>2
  <2>2. ASSUME NEW a \in DOMAIN h, a # ptr
        PROVE  a \in DOMAIN m.hash /\ h[a] = m.hash[a] /\ m.hash[a].index # el.index
    BY <2>2, <1>3, <1>6 DEF HashApart
  <2>3. ASSUME NEW a \in DOMAIN h, NEW b \in DOMAIN h, h[a].index = h[b].index
        PROVE  a = b
    <3>1. CASE a = ptr \/ b = ptr
      BY <3>1, <2>2, <2>3, <1>6
    <3>2. CASE a # ptr /\ b # ptr
      BY <3>2, <2>2, <2>3, <1>3 DEF HashApart
    <3> QED
      BY <3>1, <3>2
  <2>4. ASSUME NEW a \in DOMAIN h
        PROVE  LET x == r.list[h[a].index] IN
               x.pointer = a /\ x.set = TRUE /\ x.size = "block"
    <3>1. CASE a = ptr
      <4>1. h[a] = el
        BY <3>1, <1>6
      <4>2. At(m, el).set = TRUE /\ At(m, el).size = "block"
        BY <4>1, <1>3 DEF HashApart, At
      <4> QED
        BY <4>1, <4>2, <3>1, <1>2, <1>11
    <3>2. CASE a # ptr
      <4>1. /\ a \in DOMAIN m.hash /\ h[a] = m.hash[a] /\ m.hash[a].index # el.index
        BY <3>2, <2>2
      <4>2. r.list[h[a].index] = m.list[m.hash[a].index]
        BY <4>1, <1>10, HashTyped
      <4> QED
        BY <4>1, <4>2, <1>3 DEF HashApart
    <3> QED
      BY <3>1, <3>2
  <2>5. \A a \in DOMAIN h :
          LET x == r.list[h[a].index] IN x.pointer = a /\ x.set = TRUE /\ x.size = "block"
    BY <2>4
  <2> QED
    BY <2>1, <2>3, <2>5, <1>9 DEF HashApart
<1>13. LET x == r.list[el.index] IN
         /\ x.pointer = ptr /\ x.size = m.list[el.index].size /\ x.set = m.list[el.index].set
         /\ x.alloc = m.list[el.index].alloc /\ x.realloc = where
  BY <1>2, <1>11 DEF At
<1>15. ContextInv(r)
  BY <1>8, <1>12 DEF ContextInv, Rehashed
<1>16. Moved(m, ptr, inc, where, r)
  BY <1>9, <1>10, <1>13, <1>15 DEF Moved, h
<1> QED
  BY <1>16, <1>s
------------------------------------------------------------------------------
(* Whatever event comes, its context stays in order: an event of malloc. *)
LEMMA AddMallocInv ==
  ASSUME NEW m, ContextInv(m), NEW ptr \in Addrs, NEW where \in Nat, NEW moves \in BOOLEAN
  PROVE  ContextInv(AddMalloc(m, ptr, where, moves))
BY AddMallocKnown, AddMallocFacts DEF Allocated

(* the same for an event of free *)
LEMMA AddFreeInv ==
  ASSUME NEW m, ContextInv(m), NEW ptr \in Addrs \cup {NULL}, NEW where \in Nat,
         NEW moves \in BOOLEAN
  PROVE  ContextInv(AddFree(m, ptr, where, moves))
<1>1. CASE ptr \in DOMAIN m.hash
  BY <1>1, AddFreeKnown DEF Freed
<1>2. CASE ptr \notin DOMAIN m.hash
  <2>1. ContextInv(AddInvalid(m, ptr, where, NULL, moves))
    BY AddInvalidFacts DEF Charged, NULL
  <2> QED
    BY <1>2, <2>1 DEF AddFree
<1> QED
  BY <1>1, <1>2

(* the same for an event of realloc *)
LEMMA AddReallocInv ==
  ASSUME NEW m, ContextInv(m), NEW ptr \in Addrs \cup {NULL}, NEW inc \in Addrs \cup {NULL},
         NEW where \in Nat, NEW moves \in BOOLEAN
  PROVE  ContextInv(AddRealloc(m, ptr, inc, where, moves))
<1>1. CASE inc \in DOMAIN m.hash
  BY <1>1, AddReallocKnown DEF Moved
<1>2. CASE inc \notin DOMAIN m.hash
  <2>1. ContextInv(AddInvalid(m, inc, NULL, where, moves))
    BY AddInvalidFacts DEF Charged, NULL
  <2> QED
    BY <1>2, <2>1 DEF AddRealloc
<1> QED
  BY <1>1, <1>2

(* The inductive invariant of the contexts' memory. *)
ContextsInv ==
  /\ crashed \in BOOLEAN /\ calls \in 0 .. MaxCalls /\ odd \subseteq Oddities
  /\ DOMAIN mem = Ids /\ mem = [c \in Ids |-> mem[c]]
  /\ \A c \in Ids : ContextInv(mem[c])

(* A call of the program whose treatment keeps the context in order. *)
LEMMA TreatInv ==
  ASSUME ContextsInv, NEW c \in Ids, NEW a, Call(c), NEW added, NEW oddity,
         oddity \subseteq Oddities, Treat(c, a, added, oddity),
         \A moves \in BOOLEAN : ContextInv(added[moves])
  PROVE  ContextsInv'
<1>1. /\ crashed' \in BOOLEAN /\ odd' \subseteq Oddities
      /\ mem' = mem \/ \E moves \in BOOLEAN : mem' = [mem EXCEPT ![c] = added[moves]]
  BY DEF Treat, ContextsInv
<1>2. calls' \in 0 .. MaxCalls
  BY MemoryAssumption DEF Call, ContextsInv
<1>3. DOMAIN mem' = Ids /\ mem' = [d \in Ids |-> mem'[d]]
  BY <1>1 DEF ContextsInv
<1>4. \A d \in Ids : ContextInv(mem'[d])
  BY <1>1 DEF ContextsInv
<1> QED
  BY <1>1, <1>2, <1>3, <1>4 DEF ContextsInv

(* The contexts are created in order. *)
LEMMA ContextsInitially == Init => ContextsInv
<1> SUFFICES ASSUME Init PROVE ContextsInv
  OBVIOUS
<1>0. crashed = FALSE /\ calls = 0 /\ odd = {}
  BY DEF Init
<1>1. crashed \in BOOLEAN
  BY <1>0
<1>5. calls \in 0 .. MaxCalls /\ odd \subseteq Oddities
  BY <1>0, MemoryAssumption
<1>2. mem = [c \in Ids |-> Created]
  BY DEF Init
<1>3. DOMAIN mem = Ids /\ \A c \in Ids : mem[c] = Created
  BY <1>2
<1>4. mem = [c \in Ids |-> mem[c]]
  BY <1>2
<1> QED
  BY <1>1, <1>3, <1>4, <1>5, CreatedInv DEF ContextsInv

(* Whatever the program calls, all contexts stay in order. *)
LEMMA ContextsStep == ContextsInv /\ [Next]_vars => ContextsInv'
<1> SUFFICES ASSUME ContextsInv, [Next]_vars PROVE ContextsInv'
  OBVIOUS
<1>1. Place \in Nat
  BY DEF ContextsInv, Place
<1>2. \A c \in Ids : ContextInv(mem[c])
  BY DEF ContextsInv
<1>3. \A c \in Ids, a \in Addrs : Foreign(c, a) \subseteq {"foreign"}
  BY DEF Foreign
<1>4. ASSUME NEW c \in Ids, NEW a \in Addrs, Malloc(c, a) PROVE ContextsInv'
  <2> DEFINE added == [moves \in BOOLEAN |-> AddMalloc(mem[c], a, Place, moves)]
  <2>1. \A moves \in BOOLEAN : ContextInv(added[moves])
    BY <1>1, <1>2, AddMallocInv
  <2>2. Call(c) /\ Treat(c, a, added, {})
    BY <1>4 DEF Malloc
  <2> HIDE DEF added
  <2> QED
    BY <2>1, <2>2, TreatInv
<1>5. ASSUME NEW c \in Ids, NEW a \in Addrs \cup {NULL}, NEW oddity \in SUBSET Oddities, Call(c),
             Treat(c, a, [moves \in BOOLEAN |-> AddFree(mem[c], a, Place, moves)], oddity)
      PROVE  ContextsInv'
  <2> DEFINE added == [moves \in BOOLEAN |-> AddFree(mem[c], a, Place, moves)]
  <2>1. \A moves \in BOOLEAN : ContextInv(added[moves])
    BY <1>1, <1>2, AddFreeInv
  <2>2. Treat(c, a, added, oddity)
    BY <1>5
  <2> HIDE DEF added
  <2> QED
    BY <1>5, <2>1, <2>2, TreatInv
<1>6. ASSUME NEW c \in Ids, NEW a \in Addrs \cup {NULL}, NEW b \in Addrs \cup {NULL},
             NEW oddity \in SUBSET Oddities, Call(c),
             Treat(c, a, [moves \in BOOLEAN |-> AddRealloc(mem[c], b, a, Place, moves)], oddity)
      PROVE  ContextsInv'
  <2> DEFINE added == [moves \in BOOLEAN |-> AddRealloc(mem[c], b, a, Place, moves)]
  <2>1. \A moves \in BOOLEAN : ContextInv(added[moves])
    BY <1>1, <1>2, AddReallocInv
  <2>2. Treat(c, a, added, oddity)
    BY <1>6
  <2> HIDE DEF added
  <2> QED
    BY <1>6, <2>1, <2>2, TreatInv
<1>7. ASSUME NEW c \in Ids, NEW a \in Addrs, Free(c, a) PROVE ContextsInv'
  BY <1>3, <1>5, <1>7 DEF Free, Oddities
<1>8. ASSUME NEW c \in Ids, NEW a \in Addrs, NEW b \in Addrs, Realloc(c, a, b) PROVE ContextsInv'
  BY <1>3, <1>6, <1>8 DEF Realloc, Oddities
<1>9. ASSUME NEW c \in Ids, NEW a \in Addrs, InvalidFree(c, a) PROVE ContextsInv'
  BY <1>5, <1>9 DEF InvalidFree
<1>10. ASSUME NEW c \in Ids, NEW a \in Addrs, InvalidRealloc(c, a) PROVE ContextsInv'
  BY <1>6, <1>10 DEF InvalidRealloc
<1>11. ASSUME NEW c \in Ids, NEW a \in Addrs, ReallocNull(c, a) PROVE ContextsInv'
  BY <1>6, <1>11 DEF ReallocNull, Oddities
<1>12. ASSUME NEW c \in Ids, NEW a \in Addrs, ReallocZero(c, a) PROVE ContextsInv'
  BY <1>3, <1>6, <1>12 DEF ReallocZero, Oddities
<1>13. ASSUME NEW c \in Ids, NEW a \in Addrs, ReallocFails(c, a) PROVE ContextsInv'
  BY <1>3, <1>6, <1>13 DEF ReallocFails, Oddities
<1>14. ASSUME NEW c \in Ids, FreeNull(c) PROVE ContextsInv'
  BY <1>5, <1>14 DEF FreeNull, Oddities
<1>15. ASSUME NEW c \in Ids, ListLost(c) PROVE ContextsInv'
  BY <1>15, MemoryAssumption DEF ListLost, Call, ContextsInv
<1>16. ASSUME NEW d \in Ids, NEW c \in Ids, Fork(d, c) PROVE ContextsInv'
  BY <1>16 DEF Fork, ContextsInv
<1>17. CASE UNCHANGED vars
  BY <1>17 DEF vars, ContextsInv
<1> QED
  BY <1>4, <1>7, <1>8, <1>9, <1>10, <1>11, <1>12, <1>13, <1>14, <1>15, <1>16, <1>17 DEF Next

(* The invariant says of one context what ElementsApart asks of it. *)
LEMMA ContextIsApart ==
  ASSUME NEW m, ContextInv(m)
  PROVE  /\ m.nb_elements \in 0 .. m.max_elements /\ m.entry \in 0 .. m.max_elements
         /\ DOMAIN m.list = 0 .. m.max_elements - 1
         /\ DOMAIN m.hash \subseteq Addrs
         /\ \A a \in DOMAIN m.hash : m.hash[a].index \in 0 .. m.nb_elements - 1
         /\ \A a, b \in DOMAIN m.hash : m.hash[a].index = m.hash[b].index => a = b
         /\ \A a \in DOMAIN m.hash :
              m.list[m.hash[a].index].pointer = a /\ m.hash[a].index \in SavedLeaks(m)
         /\ m.entry \notin Used(m)
<1>1. IsMemory(m) /\ FreeChained(m) /\ HashApart(m)
  BY DEF ContextInv
<1>2. /\ m.nb_elements \in Nat /\ m.max_elements \in Nat /\ m.entry = m.nb_elements
      /\ m.nb_elements <= m.max_elements
  BY <1>1 DEF IsMemory, FreeChained
<1>3. DOMAIN m.list = 0 .. m.max_elements - 1 /\ DOMAIN m.hash \subseteq Addrs
  BY <1>1 DEF IsMemory
<1>4. \A a \in DOMAIN m.hash : m.hash[a].index \in 0 .. m.nb_elements - 1
  BY HashTyped
<1>5. \A a, b \in DOMAIN m.hash : m.hash[a].index = m.hash[b].index => a = b
  BY <1>1 DEF HashApart
<1>6. ASSUME NEW a \in DOMAIN m.hash
      PROVE  m.list[m.hash[a].index].pointer = a /\ m.hash[a].index \in SavedLeaks(m)
  BY <1>1, <1>4 DEF HashApart, SavedLeaks, Used
<1>7. m.entry \notin Used(m)
  BY <1>2 DEF Used
<1> QED
  BY <1>2, <1>3, <1>4, <1>5, <1>6, <1>7

(* The hash-table and the list of a context stay in step: no two addresses *)
(* lead to one element, one that is led to is a block in use, and an       *)
(* element in use is not given out again, whatever calls come, as long as  *)
(* no pointer into a list that was moved is used (fc_memory_add_malloc,    *)
(* fc_memory_add_free, fc_memory_add_realloc and fc_memory_list_add).      *)
THEOREM ElementsStayApart == Spec => []ElementsApart
<1>1. ContextsInv => ElementsApart
  <2> SUFFICES ASSUME ContextsInv PROVE ElementsApart
    OBVIOUS
  <2>1. \A c \in Ids : ContextInv(mem[c])
    BY DEF ContextsInv
  <2>2. TypeOK
    BY <2>1, ContextIsApart DEF ContextsInv, TypeOK
  <2> QED
    BY <2>1, <2>2, ContextIsApart DEF ElementsApart
<1> QED
  BY <1>1, ContextsInitially, ContextsStep, PTL DEF Spec
------------------------------------------------------------------------------
(* The leaks.  A view is a function from addresses to blocks: those that a *)
(* process or thread has allocated and that are not freed.                 *)

(* the list and the hash-table have the blocks of the view, each once and  *)
(* with its places, and nothing else but invalid calls                     *)
Shows(m, view) ==
  /\ DOMAIN m.hash = DOMAIN view
  /\ \A a \in DOMAIN view :
       /\ m.list[m.hash[a].index].alloc = view[a].alloc
       /\ m.list[m.hash[a].index].realloc = view[a].realloc
  /\ \A i \in SavedLeaks(m) : \E a \in DOMAIN view : m.hash[a].index = i

(* A call that only takes an element of its own leaves the blocks that are *)
(* shown.                                                                  *)
LEMMA InvalidShows ==
  ASSUME NEW m, ContextInv(m), NEW view, Shows(m, view), NEW ptr, NEW alloc,
         NEW realloc, NEW r, Charged(m, ptr, alloc, realloc, r)
  PROVE  Shows(r, view)
<1>1. \A a \in DOMAIN view : r.list[m.hash[a].index] = m.list[m.hash[a].index]
  BY HashTyped DEF Shows, Charged
<1>2. m.nb_elements \in Nat
  BY DEF ContextInv, IsMemory
<1>3. ASSUME NEW i \in SavedLeaks(r) PROVE i \in SavedLeaks(m)
  BY <1>2 DEF SavedLeaks, Used, Charged
<1> QED
  BY <1>1, <1>3 DEF Shows, Charged

(* A new block is shown with the others. *)
LEMMA MallocShows ==
  ASSUME NEW m, ContextInv(m), NEW view, Shows(m, view), NEW a \in Addrs, a \notin DOMAIN view,
         NEW where, NEW r, Allocated(m, a, where, r),
         NEW after, DOMAIN after = DOMAIN view \cup {a},
         after[a].alloc = where, after[a].realloc = NULL,
         \A b \in DOMAIN view : after[b] = view[b]
  PROVE  Shows(r, after)
<1> DEFINE e == m.nb_elements
<1>1. a # NULL /\ DOMAIN m.hash = DOMAIN view /\ e \in Nat
  BY MemoryAssumption DEF NULL, Shows, ContextInv, IsMemory
<1>2. /\ DOMAIN r.hash = DOMAIN view \cup {a}
      /\ r.hash[a] = [block |-> r.block, index |-> e]
      /\ \A b \in DOMAIN view : r.hash[b] = m.hash[b]
  BY <1>1 DEF Allocated, With
<1>3. \A b \in DOMAIN view : r.list[m.hash[b].index] = m.list[m.hash[b].index]
  BY <1>1, HashTyped DEF Allocated
<1>4. /\ r.hash[a].index = e
      /\ r.list[e].alloc = where /\ r.list[e].realloc = NULL
  BY <1>2 DEF Allocated
<1>5. ASSUME NEW b \in DOMAIN after
      PROVE  /\ r.list[r.hash[b].index].alloc = after[b].alloc
             /\ r.list[r.hash[b].index].realloc = after[b].realloc
  <2>1. CASE b = a
    BY <2>1, <1>4
  <2>2. CASE b # a
    BY <2>2, <1>2, <1>3 DEF Shows
  <2> QED
    BY <2>1, <2>2
<1>6. ASSUME NEW i \in SavedLeaks(r) PROVE \E b \in DOMAIN after : r.hash[b].index = i
  <2>1. CASE i = e
    BY <2>1, <1>4
  <2>2. CASE i # e
    <3>1. i \in SavedLeaks(m)
      BY <2>2, <1>1 DEF SavedLeaks, Used, Allocated
    <3> QED
      BY <3>1, <1>2 DEF Shows
  <2> QED
    BY <2>1, <2>2
<1> QED
  BY <1>2, <1>5, <1>6 DEF Shows

(* A block that was freed is not shown any more. *)
LEMMA FreeShows ==
  ASSUME NEW m, ContextInv(m), NEW view, Shows(m, view), NEW a \in DOMAIN view,
         NEW r, Freed(m, a, r), NEW after, DOMAIN after = DOMAIN view \ {a},
         \A b \in DOMAIN after : after[b] = view[b]
  PROVE  Shows(r, after)
<1>1. DOMAIN m.hash = DOMAIN view /\ m.nb_elements \in Nat
  BY DEF Shows, ContextInv, IsMemory
<1>2. DOMAIN r.hash = DOMAIN after /\ \A b \in DOMAIN after : r.hash[b] = m.hash[b]
  BY <1>1 DEF Freed, Without
<1>3. \A b \in DOMAIN after : r.list[m.hash[b].index] = m.list[m.hash[b].index]
  <2> SUFFICES ASSUME NEW b \in DOMAIN after
               PROVE  r.list[m.hash[b].index] = m.list[m.hash[b].index]
    OBVIOUS
  <2>1. m.hash[b].index # m.hash[a].index
    BY <1>1 DEF ContextInv, HashApart
  <2>2. m.hash[b].index \in 0 .. m.nb_elements - 1
    BY <1>1, HashTyped
  <2> QED
    BY <2>1, <2>2 DEF Freed
<1>4. ASSUME NEW i \in SavedLeaks(r) PROVE \E b \in DOMAIN after : r.hash[b].index = i
  <2>1. i \in 0 .. m.nb_elements - 1 /\ r.list[i].set /\ r.list[i].size # "UINT_MAX"
    BY DEF SavedLeaks, Used, Freed
  <2>3. i # m.hash[a].index
    BY <2>1 DEF Freed
  <2>4. i \in SavedLeaks(m)
    BY <2>1, <2>3 DEF SavedLeaks, Used, Freed
  <2>5. PICK b \in DOMAIN view : m.hash[b].index = i
    BY <2>4 DEF Shows
  <2> QED
    BY <2>3, <2>5, <1>2
<1> QED
  BY <1>2, <1>3, <1>4 DEF Shows

(* after is the view with the block inc at ptr, reallocated from where *)
ViewMoved(view, ptr, inc, where, after) ==
  /\ inc \in DOMAIN view /\ ptr \notin DOMAIN view \ {inc}
  /\ DOMAIN after = (DOMAIN view \ {inc}) \cup {ptr}
  /\ after[ptr].alloc = view[inc].alloc /\ after[ptr].realloc = where
  /\ \A b \in DOMAIN view \ {inc} : after[b] = view[b]

(* A block that was moved, or has changed its size in its place, is shown  *)
(* where it is now.                                                        *)
LEMMA ReallocShows ==
  ASSUME NEW m, ContextInv(m), NEW view, Shows(m, view), NEW inc,
         NEW ptr \in Addrs, NEW where, NEW r, Moved(m, ptr, inc, where, r),
         NEW after, ViewMoved(view, ptr, inc, where, after)
  PROVE  Shows(r, after)
<1> USE DEF ViewMoved
<1>1. DOMAIN m.hash = DOMAIN view /\ m.nb_elements \in Nat /\ ptr # NULL
  BY MemoryAssumption DEF Shows, ContextInv, IsMemory, NULL
<1> DEFINE el == m.hash[inc]
<1>2. m.list[el.index].alloc = view[inc].alloc
  BY DEF Shows
<1>3. /\ DOMAIN r.hash = DOMAIN after /\ r.hash[ptr] = el
      /\ \A b \in DOMAIN view \ {inc} : r.hash[b] = m.hash[b]
  <2>1. CASE inc = ptr
    BY <2>1, <1>1 DEF Moved
  <2>2. CASE inc # ptr
    <3>1. r.hash = With(Without(m.hash, inc), ptr, el)
      BY <2>2 DEF Moved
    <3> QED
      BY <2>2, <3>1, <1>1 DEF With, Without
  <2> QED
    BY <2>1, <2>2
<1>4. \A b \in DOMAIN view \ {inc} : r.list[m.hash[b].index] = m.list[m.hash[b].index]
  <2> SUFFICES ASSUME NEW b \in DOMAIN view \ {inc}
               PROVE  r.list[m.hash[b].index] = m.list[m.hash[b].index]
    OBVIOUS
  <2>1. m.hash[b].index # el.index
    BY <1>1 DEF ContextInv, HashApart
  <2>2. m.hash[b].index \in 0 .. m.nb_elements - 1
    BY <1>1, HashTyped
  <2> QED
    BY <2>1, <2>2 DEF Moved
<1>5. /\ r.list[el.index].alloc = view[inc].alloc /\ r.list[el.index].realloc = where
      /\ r.nb_elements = m.nb_elements
  BY <1>2 DEF Moved
<1>6. ASSUME NEW b \in DOMAIN after
      PROVE  /\ r.list[r.hash[b].index].alloc = after[b].alloc
             /\ r.list[r.hash[b].index].realloc = after[b].realloc
  <2>1. CASE b = ptr
    BY <2>1, <1>2, <1>3, <1>5
  <2>2. CASE b # ptr
    BY <2>2, <1>3, <1>4, <1>5 DEF Shows
  <2> QED
    BY <2>1, <2>2
<1>7. ASSUME NEW i \in SavedLeaks(r) PROVE \E b \in DOMAIN after : r.hash[b].index = i
  <2>1. CASE i = el.index
    BY <2>1, <1>3
  <2>2. CASE i # el.index
    <3>1. i \in SavedLeaks(m)
      BY <2>2, <1>5 DEF SavedLeaks, Used, Moved
    <3>2. PICK b \in DOMAIN view : m.hash[b].index = i
      BY <3>1 DEF Shows
    <3> QED
      BY <2>2, <3>2, <1>3
  <2> QED
    BY <2>1, <2>2
<1> QED
  BY <1>3, <1>6, <1>7 DEF Shows

BlockRecords == [alloc : Nat, realloc : Nat, by : Ids \cup {NULL}]
Spaces == [Addrs -> BlockRecords]

(* the blocks of an address space that one has allocated *)
OwnIn(space, c) == {a \in Addrs : space[a] # NoBlock /\ space[a].by = c}
ViewIn(space, c) == [a \in OwnIn(space, c) |-> space[a]]
View(c) == ViewIn(live[Space(c)], c)

(* whoever has allocated a block is alive, or was forked from its owner    *)
ProgramInv ==
  /\ live \in [Ids -> Spaces] /\ alive \in [Ids -> BOOLEAN]
  /\ \A s \in Ids, a \in Addrs :
       live[s][a] # NoBlock => live[s][a].by \in Ids /\ alive[live[s][a].by]

(* nothing has happened that the manager takes wrongly *)
Expected ==
  ~crashed /\ odd \subseteq {"free null"} \cup (IF mode = "FORK" THEN {"foreign"} ELSE {})

(* The inductive invariant of the leaks. *)
LeaksInv == ContextsInv /\ ProgramInv /\ (Expected => \A c \in Ids : Shows(mem[c], View(c)))

(* The address space of a process or thread is one of those there are. *)
LEMMA SpaceTyped ==
  ASSUME ProgramInv, NEW c \in Ids
  PROVE  Space(c) \in Ids /\ live[Space(c)] \in Spaces
BY MemoryAssumption DEF ProgramInv, Space

(* The calls of one change its own address space, and the views of others  *)
(* only as far as they share it.                                           *)
LEMMA SpaceChanged ==
  ASSUME ProgramInv, NEW c \in Ids, NEW new \in Spaces,
         live' = [live EXCEPT ![Space(c)] = new], mode' = mode, alive' = alive,
         \A a \in Addrs : new[a] # NoBlock => new[a].by \in Ids /\ alive[new[a].by]
  PROVE  /\ ProgramInv'
         /\ View(c)' = ViewIn(new, c)
         /\ \A d \in Ids \ {c} :
              mode = "FORK" \/ ViewIn(new, d) = ViewIn(live[Space(c)], d) => View(d)' = View(d)
<1>1. Space(c) \in Ids /\ live \in [Ids -> Spaces] /\ alive \in [Ids -> BOOLEAN]
  BY SpaceTyped DEF ProgramInv
<1>2. live' \in [Ids -> Spaces]
  BY <1>1
<1>3. live'[Space(c)] = new /\ \A s \in Ids \ {Space(c)} : live'[s] = live[s]
  BY <1>1
<1>4. \A d \in Ids : Space(d)' = Space(d)
  BY DEF Space
<1>5. ProgramInv'
  BY <1>1, <1>2, <1>3 DEF ProgramInv
<1>6. \A d \in Ids : View(d)' = ViewIn(live'[Space(d)], d)
  BY <1>4 DEF View, ViewIn, OwnIn
<1>7. ASSUME NEW d \in Ids \ {c},
             mode = "FORK" \/ ViewIn(new, d) = ViewIn(live[Space(c)], d)
      PROVE  View(d)' = View(d)
  <2>1. CASE mode = "FORK"
    <3>1. Space(d) # Space(c) /\ Space(d) \in Ids
      BY <2>1 DEF Space
    <3>2. live'[Space(d)] = live[Space(d)]
      BY <3>1, <1>3
    <3> QED
      BY <3>2, <1>6 DEF View
  <2>2. CASE mode # "FORK"
    <3>1. Space(d) = Space(c)
      BY <2>2 DEF Space
    <3> QED
      BY <2>2, <3>1, <1>3, <1>6, <1>7 DEF View
  <2> QED
    BY <2>1, <2>2
<1> QED
  BY <1>3, <1>5, <1>6, <1>7

(* one's view gains a block, and nobody else's changes *)
Gained(space, new, c, a, b) ==
  /\ new \in Spaces
  /\ DOMAIN ViewIn(new, c) = DOMAIN ViewIn(space, c) \cup {a}
  /\ a \notin DOMAIN ViewIn(space, c) /\ ViewIn(new, c)[a] = b
  /\ \A x \in DOMAIN ViewIn(space, c) : ViewIn(new, c)[x] = ViewIn(space, c)[x]
  /\ \A d \in Ids \ {c} : ViewIn(new, d) = ViewIn(space, d)

(* A block is allocated, or given up. *)
LEMMA BlockAdded ==
  ASSUME NEW space \in Spaces, NEW a \in Addrs, NEW c \in Ids, NEW b \in BlockRecords,
         space[a] = NoBlock, b # NoBlock, b.by = c
  PROVE  Gained(space, [space EXCEPT ![a] = b], c, a, b)
<1> DEFINE new == [space EXCEPT ![a] = b]
<1>1. new \in Spaces /\ new[a] = b /\ \A x \in Addrs \ {a} : new[x] = space[x]
  BY DEF Spaces
<1> HIDE DEF new
<1>2. OwnIn(new, c) = OwnIn(space, c) \cup {a} /\ a \notin OwnIn(space, c)
  BY <1>1 DEF OwnIn
<1>3. \A d \in Ids \ {c} : ViewIn(new, d) = ViewIn(space, d)
  <2> SUFFICES ASSUME NEW d \in Ids \ {c} PROVE ViewIn(new, d) = ViewIn(space, d)
    OBVIOUS
  <2>1. OwnIn(new, d) = OwnIn(space, d) /\ a \notin OwnIn(space, d)
    BY <1>1 DEF OwnIn
  <2>2. \A x \in OwnIn(space, d) : new[x] = space[x]
    BY <2>1, <1>1 DEF OwnIn
  <2> QED
    BY <2>1, <2>2 DEF ViewIn
<1>4. \A x \in OwnIn(space, c) : new[x] = space[x]
  BY <1>1, <1>2 DEF OwnIn
<1>5. /\ DOMAIN ViewIn(new, c) = OwnIn(new, c) /\ DOMAIN ViewIn(space, c) = OwnIn(space, c)
      /\ \A x \in OwnIn(new, c) : ViewIn(new, c)[x] = new[x]
      /\ \A x \in OwnIn(space, c) : ViewIn(space, c)[x] = space[x]
  BY DEF ViewIn
<1>6. /\ new \in Spaces
      /\ DOMAIN ViewIn(new, c) = DOMAIN ViewIn(space, c) \cup {a}
      /\ a \notin DOMAIN ViewIn(space, c) /\ ViewIn(new, c)[a] = b
      /\ \A x \in DOMAIN ViewIn(space, c) : ViewIn(new, c)[x] = ViewIn(space, c)[x]
  BY <1>1, <1>2, <1>4, <1>5
<1> QED
  BY <1>3, <1>6 DEF Gained, new

(* A block given up leaves the view of its owner, and no other. *)
LEMMA BlockGivenUp ==
  ASSUME NEW space \in Spaces, NEW a \in Addrs, NoBlock \in BlockRecords
  PROVE  LET new == [space EXCEPT ![a] = NoBlock] IN
         /\ new \in Spaces
         /\ \A d : /\ DOMAIN ViewIn(new, d) = DOMAIN ViewIn(space, d) \ {a}
                   /\ \A x \in DOMAIN ViewIn(new, d) : ViewIn(new, d)[x] = ViewIn(space, d)[x]
                   /\ a \notin OwnIn(space, d) => ViewIn(new, d) = ViewIn(space, d)
<1> DEFINE new == [space EXCEPT ![a] = NoBlock]
<1>1. new \in Spaces /\ new[a] = NoBlock /\ \A x \in Addrs \ {a} : new[x] = space[x]
  BY DEF Spaces
<1> HIDE DEF new
<1> SUFFICES ASSUME NEW d
             PROVE  /\ DOMAIN ViewIn(new, d) = DOMAIN ViewIn(space, d) \ {a}
                    /\ \A x \in DOMAIN ViewIn(new, d) : ViewIn(new, d)[x] = ViewIn(space, d)[x]
                    /\ a \notin OwnIn(space, d) => ViewIn(new, d) = ViewIn(space, d)
  BY <1>1 DEF new
<1>2. OwnIn(new, d) = OwnIn(space, d) \ {a}
  BY <1>1 DEF OwnIn
<1>3. \A x \in OwnIn(new, d) : new[x] = space[x]
  BY <1>1, <1>2 DEF OwnIn
<1> QED
  BY <1>2, <1>3 DEF ViewIn

(* the view of its owner has a block at a new place, or at its old one,    *)
(* and nobody else's changes                                               *)
Relocated(space, new, inc, ptr, where) ==
  LET by == space[inc].by
      old == ViewIn(space, by)
      now == ViewIn(new, by)
  IN  /\ new \in Spaces
      /\ DOMAIN now = (DOMAIN old \ {inc}) \cup {ptr} /\ ptr \notin DOMAIN old \ {inc}
      /\ inc \in DOMAIN old
      /\ now[ptr].alloc = old[inc].alloc /\ now[ptr].realloc = where
      /\ \A x \in DOMAIN old \ {inc} : now[x] = old[x]
      /\ \A d : d # by => ViewIn(new, d) = ViewIn(space, d)
      /\ \A x \in Addrs : new[x] # NoBlock =>
           \E y \in Addrs : space[y] # NoBlock /\ new[x].by = space[y].by

(* A block is moved, or has changed its size in its place. *)
LEMMA BlockMoved ==
  ASSUME NEW space \in Spaces, NEW inc \in Addrs, NEW ptr \in Addrs, NEW where \in Nat \ {0},
         space[inc] # NoBlock, ptr = inc \/ space[ptr] = NoBlock, NoBlock \in BlockRecords
  PROVE  Relocated(space,
                   [space EXCEPT ![inc] = NoBlock, ![ptr] = [space[inc] EXCEPT !.realloc = where]],
                   inc, ptr, where)
<1> DEFINE by == space[inc].by
           b == [space[inc] EXCEPT !.realloc = where]
           new == [space EXCEPT ![inc] = NoBlock, ![ptr] = b]
           old == ViewIn(space, by)
           now == ViewIn(new, by)
<1>1. space[inc] \in BlockRecords
  BY DEF Spaces
<1>2. b \in BlockRecords /\ b.by = by /\ b.alloc = space[inc].alloc /\ b.realloc = where
  BY <1>1 DEF BlockRecords
<1>3. b # NoBlock
  BY <1>2 DEF NoBlock, NULL
<1> HIDE DEF b
<1>4. /\ new \in Spaces /\ new[ptr] = b /\ (ptr # inc => new[inc] = NoBlock)
      /\ \A x \in Addrs \ {inc, ptr} : new[x] = space[x]
  BY <1>2 DEF Spaces
<1> HIDE DEF new
<1>5. OwnIn(new, by) = (OwnIn(space, by) \ {inc}) \cup {ptr}
  BY <1>2, <1>3, <1>4 DEF OwnIn
<1>6. inc \in OwnIn(space, by) /\ ptr \notin OwnIn(space, by) \ {inc}
  BY DEF OwnIn
<1>7. \A x \in OwnIn(space, by) \ {inc} : new[x] = space[x]
  BY <1>4 DEF OwnIn
<1>8. /\ DOMAIN now = OwnIn(new, by) /\ DOMAIN old = OwnIn(space, by)
      /\ \A x \in OwnIn(new, by) : now[x] = new[x]
      /\ \A x \in OwnIn(space, by) : old[x] = space[x]
  BY DEF ViewIn
<1>9. ASSUME NEW d, d # by PROVE ViewIn(new, d) = ViewIn(space, d)
  <2>1. OwnIn(new, d) = OwnIn(space, d)
    BY <1>2, <1>4, <1>9 DEF OwnIn
  <2>2. \A x \in OwnIn(space, d) : new[x] = space[x]
    BY <1>4, <1>9 DEF OwnIn
  <2> QED
    BY <2>1, <2>2 DEF ViewIn
<1>10. \A x \in Addrs : new[x] # NoBlock =>
         \E y \in Addrs : space[y] # NoBlock /\ new[x].by = space[y].by
  BY <1>2, <1>4
<1> HIDE DEF now, old
<1>11. /\ DOMAIN now = (DOMAIN old \ {inc}) \cup {ptr} /\ ptr \notin DOMAIN old \ {inc}
       /\ inc \in DOMAIN old
       /\ now[ptr].alloc = old[inc].alloc /\ now[ptr].realloc = where
       /\ \A x \in DOMAIN old \ {inc} : now[x] = old[x]
  BY <1>2, <1>4, <1>5, <1>6, <1>7, <1>8
<1> QED
  BY <1>4, <1>9, <1>10, <1>11 DEF Relocated, now, old, new, b

(* NoBlock is a block record too. *)
LEMMA NoBlockTyped == NoBlock \in BlockRecords
BY DEF NoBlock, BlockRecords, NULL

------------------------------------------------------------------------------
(* What the calls of the program make of the views: a malloc adds a block  *)
(* to the view of the caller.                                              *)
LEMMA Allocates ==
  ASSUME ProgramInv, calls \in Nat, NEW c \in Ids, alive[c], NEW a \in Addrs, a \notin Blocks(c),
         live' = [live EXCEPT ![Space(c)][a] = [alloc |-> Place, realloc |-> NULL, by |-> c]],
         mode' = mode, alive' = alive
  PROVE  /\ ProgramInv'
         /\ DOMAIN View(c)' = DOMAIN View(c) \cup {a} /\ a \notin DOMAIN View(c)
         /\ View(c)'[a].alloc = Place /\ View(c)'[a].realloc = NULL
         /\ \A x \in DOMAIN View(c) : View(c)'[x] = View(c)[x]
         /\ \A d \in Ids \ {c} : View(d)' = View(d)
<1> DEFINE space == live[Space(c)]
           b == [alloc |-> Place, realloc |-> NULL, by |-> c]
           new == [space EXCEPT ![a] = b]
<1>1. Space(c) \in Ids /\ space \in Spaces /\ live \in [Ids -> Spaces]
  BY SpaceTyped DEF ProgramInv
<1>2. b \in BlockRecords /\ b # NoBlock /\ b.by = c /\ b.alloc = Place /\ b.realloc = NULL
  BY DEF BlockRecords, NoBlock, Place, NULL
<1>3. space[a] = NoBlock
  BY DEF Blocks
<1>4. live' = [live EXCEPT ![Space(c)] = new]
  BY <1>1
<1> HIDE DEF b, space
<1>5. Gained(space, new, c, a, b)
  BY <1>1, <1>2, <1>3, BlockAdded
<1>6. \A x \in Addrs : new[x] # NoBlock => new[x].by \in Ids /\ alive[new[x].by]
  BY <1>1, <1>2 DEF ProgramInv, Spaces, space
<1> HIDE DEF new
<1>7. /\ ProgramInv' /\ View(c)' = ViewIn(new, c)
      /\ \A d \in Ids \ {c} :
           mode = "FORK" \/ ViewIn(new, d) = ViewIn(live[Space(c)], d) => View(d)' = View(d)
  BY <1>4, <1>5, <1>6, SpaceChanged DEF Gained
<1>8. View(c) = ViewIn(space, c)
  BY DEF View, space
<1>9. \A d \in Ids \ {c} : View(d)' = View(d)
  BY <1>5, <1>7 DEF space, Gained
<1> QED
  BY <1>2, <1>5, <1>7, <1>8, <1>9 DEF Gained

(* A free takes a block out of the view of its owner. *)
LEMMA GivesUp ==
  ASSUME ProgramInv, NEW c \in Ids, NEW a \in Addrs, a \in Blocks(c),
         live' = [live EXCEPT ![Space(c)][a] = NoBlock],
         mode' = mode, alive' = alive
  PROVE  /\ ProgramInv'
         /\ DOMAIN View(c)' = DOMAIN View(c) \ {a}
         /\ a \in DOMAIN View(c) <=> Block(c, a).by = c
         /\ \A x \in DOMAIN View(c)' : View(c)'[x] = View(c)[x]
         /\ Block(c, a).by # c => View(c)' = View(c)
         /\ mode = "FORK" \/ Block(c, a).by = c => \A d \in Ids \ {c} : View(d)' = View(d)
<1> DEFINE space == live[Space(c)]
           new == [space EXCEPT ![a] = NoBlock]
<1>1. Space(c) \in Ids /\ space \in Spaces /\ live \in [Ids -> Spaces]
  BY SpaceTyped DEF ProgramInv
<1>3. space[a] # NoBlock /\ Block(c, a) = space[a]
  BY DEF Blocks, Block
<1>4. live' = [live EXCEPT ![Space(c)] = new]
  BY <1>1
<1>5. /\ new \in Spaces
      /\ \A d : /\ DOMAIN ViewIn(new, d) = DOMAIN ViewIn(space, d) \ {a}
                /\ \A x \in DOMAIN ViewIn(new, d) : ViewIn(new, d)[x] = ViewIn(space, d)[x]
                /\ a \notin OwnIn(space, d) => ViewIn(new, d) = ViewIn(space, d)
  BY <1>1, BlockGivenUp, NoBlockTyped
<1>6. \A x \in Addrs : new[x] # NoBlock => new[x].by \in Ids /\ alive[new[x].by]
  BY <1>1 DEF ProgramInv, Spaces
<1> HIDE DEF new
<1>7. /\ ProgramInv' /\ View(c)' = ViewIn(new, c)
      /\ \A d \in Ids \ {c} :
           mode = "FORK" \/ ViewIn(new, d) = ViewIn(live[Space(c)], d) => View(d)' = View(d)
  BY <1>4, <1>5, <1>6, SpaceChanged
<1>8. /\ View(c) = ViewIn(space, c)
      /\ \A d : a \in OwnIn(space, d) <=> space[a].by = d
      /\ DOMAIN View(c) = OwnIn(space, c)
  BY <1>3 DEF View, ViewIn, OwnIn
<1>9. mode = "FORK" \/ Block(c, a).by = c => \A d \in Ids \ {c} : View(d)' = View(d)
  BY <1>3, <1>5, <1>7, <1>8
<1> HIDE DEF space
<1> QED
  BY <1>3, <1>5, <1>7, <1>8, <1>9

(* A realloc moves a block in the view of its owner. *)
LEMMA Moves ==
  ASSUME ProgramInv, calls \in Nat, NEW c \in Ids, NEW inc \in Addrs, inc \in Blocks(c),
         NEW ptr \in Addrs, ptr \notin Blocks(c) \ {inc},
         live' = [live EXCEPT ![Space(c)] =
                    [@ EXCEPT ![inc] = NoBlock, ![ptr] = [Block(c, inc) EXCEPT !.realloc = Place]]],
         mode' = mode, alive' = alive
  PROVE  /\ ProgramInv'
         /\ Block(c, inc).by # c => inc \notin DOMAIN View(c) /\ View(c)' = View(c)
         /\ Block(c, inc).by = c =>
              /\ inc \in DOMAIN View(c) /\ ptr \notin DOMAIN View(c) \ {inc}
              /\ DOMAIN View(c)' = (DOMAIN View(c) \ {inc}) \cup {ptr}
              /\ View(c)'[ptr].alloc = View(c)[inc].alloc /\ View(c)'[ptr].realloc = Place
              /\ \A x \in DOMAIN View(c) \ {inc} : View(c)'[x] = View(c)[x]
         /\ mode = "FORK" \/ Block(c, inc).by = c => \A d \in Ids \ {c} : View(d)' = View(d)
<1> DEFINE space == live[Space(c)]
           new == [space EXCEPT ![inc] = NoBlock, ![ptr] = [space[inc] EXCEPT !.realloc = Place]]
<1>1. Space(c) \in Ids /\ space \in Spaces /\ live \in [Ids -> Spaces]
  BY SpaceTyped DEF ProgramInv
<1>2. /\ space[inc] # NoBlock /\ Block(c, inc) = space[inc] /\ Place \in Nat \ {0}
      /\ ptr = inc \/ space[ptr] = NoBlock
  BY DEF Blocks, Block, Place
<1>3. live' = [live EXCEPT ![Space(c)] = new]
  BY <1>1, <1>2
<1>4. Relocated(space, new, inc, ptr, Place)
  <2> HIDE DEF space
  <2> QED
    BY <1>1, <1>2, BlockMoved, NoBlockTyped
<1> HIDE DEF new
<1>5. \A y \in Addrs : space[y] # NoBlock => space[y].by \in Ids /\ alive[space[y].by]
  BY <1>1 DEF ProgramInv
<1>6. \A x \in Addrs : new[x] # NoBlock => new[x].by \in Ids /\ alive[new[x].by]
  <2> HIDE DEF space
  <2> QED
    BY <1>4, <1>5 DEF Relocated
<1>7. /\ ProgramInv' /\ View(c)' = ViewIn(new, c)
      /\ \A d \in Ids \ {c} :
           mode = "FORK" \/ ViewIn(new, d) = ViewIn(live[Space(c)], d) => View(d)' = View(d)
  <2>1. new \in Spaces
    BY <1>4 DEF Relocated
  <2> QED
    BY <2>1, <1>3, <1>6, SpaceChanged
<1>8. View(c) = ViewIn(space, c) /\ DOMAIN View(c) = OwnIn(space, c)
  BY DEF View, ViewIn
<1>9. mode = "FORK" \/ Block(c, inc).by = c => \A d \in Ids \ {c} : View(d)' = View(d)
  BY <1>2, <1>4, <1>7 DEF Relocated
<1> HIDE DEF space
<1>10. ASSUME Block(c, inc).by # c PROVE inc \notin DOMAIN View(c) /\ View(c)' = View(c)
  <2>1. inc \notin OwnIn(space, c)
    BY <1>2, <1>10 DEF OwnIn
  <2> QED
    BY <2>1, <1>2, <1>4, <1>7, <1>8, <1>10 DEF Relocated
<1>11. ASSUME Block(c, inc).by = c
       PROVE  /\ inc \in DOMAIN View(c) /\ ptr \notin DOMAIN View(c) \ {inc}
              /\ DOMAIN View(c)' = (DOMAIN View(c) \ {inc}) \cup {ptr}
              /\ View(c)'[ptr].alloc = View(c)[inc].alloc /\ View(c)'[ptr].realloc = Place
              /\ \A x \in DOMAIN View(c) \ {inc} : View(c)'[x] = View(c)[x]
  BY <1>2, <1>4, <1>7, <1>8, <1>11 DEF Relocated
<1> QED
  BY <1>7, <1>9, <1>10, <1>11

(* what may have happened so far *)
Allowed == {"free null"} \cup (IF mode = "FORK" THEN {"foreign"} ELSE {})

(* As long as nothing has gone wrong, an event changes its own context     *)
(* only, through no pointer into a list that was moved.                    *)
LEMMA TreatFacts ==
  ASSUME LeaksInv, NEW c \in Ids, Call(c), NEW a, NEW added, NEW oddity,
         Treat(c, a, added, oddity), Expected'
  PROVE  /\ \A d \in Ids : Shows(mem[d], View(d))
         /\ oddity \subseteq Allowed
         /\ \A d \in Ids \ {c} : mem'[d] = mem[d]
         /\ \E moves \in BOOLEAN : mem'[c] = added[moves]
<1>1. crashed' # TRUE
  BY DEF Expected
<1>2. PICK moves \in BOOLEAN :
        /\ mem' = [mem EXCEPT ![c] = added[moves]]
        /\ odd' = odd \cup oddity
        /\ crashed' = crashed
  BY <1>1 DEF Treat
<1>3. mode' = mode
  BY DEF Call
<1>4. odd' \subseteq Allowed /\ ~crashed
  BY <1>2, <1>3 DEF Expected, Allowed
<1>5. odd \subseteq Allowed /\ oddity \subseteq Allowed
  BY <1>2, <1>4
<1>6. Expected
  BY <1>4, <1>5 DEF Expected, Allowed
<1>7. DOMAIN mem = Ids /\ mem = [d \in Ids |-> mem[d]]
  BY DEF LeaksInv, ContextsInv
<1>8. mem'[c] = added[moves] /\ \A d \in Ids \ {c} : mem'[d] = mem[d]
  BY <1>2, <1>7
<1> QED
  BY <1>5, <1>6, <1>8 DEF LeaksInv

(* The blocks shown in every context, when the acting one and the views    *)
(* are right.                                                              *)
LEMMA OthersShow ==
  ASSUME NEW c \in Ids, \A d \in Ids : Shows(mem[d], View(d)),
         \A d \in Ids \ {c} : mem'[d] = mem[d] /\ View(d)' = View(d),
         Shows(mem'[c], View(c)')
  PROVE  \A d \in Ids : Shows(mem'[d], View(d)')
OBVIOUS

(* An event that gives the context an element for an invalid call. *)
LEMMA InvalidEvent ==
  ASSUME LeaksInv, NEW c \in Ids, Shows(mem[c], View(c)), NEW ptr \in Addrs \cup {NULL},
         NEW alloc \in Nat, NEW realloc \in Nat, NEW moves \in BOOLEAN, NEW r,
         r = AddInvalid(mem[c], ptr, alloc, realloc, moves)
  PROVE  Shows(r, View(c))
<1> DEFINE m == mem[c]
<1>1. ContextInv(m)
  BY DEF LeaksInv, ContextsInv
<1>2. Charged(m, ptr, alloc, realloc, r)
  BY <1>1, AddInvalidFacts
<1> HIDE DEF m
<1>3. Shows(m, View(c))
  BY DEF m
<1> DEFINE v == View(c)
<1> HIDE DEF v
<1>4. Shows(m, v)
  BY <1>3 DEF v
<1>5. Shows(r, v)
  BY <1>1, <1>2, <1>3, <1>4, InvalidShows
<1> QED
  BY <1>5 DEF v

(* At the start nothing is allocated and nothing is listed. *)
LEMMA LeaksInitially == Init => LeaksInv
<1> SUFFICES ASSUME Init PROVE LeaksInv
  OBVIOUS
<1>1. ContextsInv
  BY ContextsInitially
<1>2. live = [c \in Ids |-> [a \in Addrs |-> NoBlock]]
  BY DEF Init
<1>3. [a \in Addrs |-> NoBlock] \in Spaces
  BY NoBlockTyped DEF Spaces
<1>4. live \in [Ids -> Spaces] /\ \A s \in Ids, a \in Addrs : live[s][a] = NoBlock
  BY <1>2, <1>3
<1>5. alive \in [Ids -> BOOLEAN]
  BY DEF Init
<1>6. ProgramInv
  BY <1>4, <1>5 DEF ProgramInv
<1>7. ASSUME NEW c \in Ids PROVE Shows(mem[c], View(c))
  <2>1. Space(c) \in Ids
    BY <1>6, SpaceTyped
  <2>2. DOMAIN View(c) = {}
    BY <2>1, <1>4 DEF View, ViewIn, OwnIn
  <2>3. mem[c] = Created
    BY DEF Init
  <2>4. DOMAIN mem[c].hash = {} /\ SavedLeaks(mem[c]) = {}
    BY <2>3 DEF Created, SavedLeaks, Used
  <2> QED
    BY <2>2, <2>4 DEF Shows
<1> QED
  BY <1>1, <1>6, <1>7 DEF LeaksInv

(* An event of free or realloc for an address that leads to no element. *)
LEMMA UnknownEvents ==
  ASSUME LeaksInv, NEW c \in Ids, Shows(mem[c], View(c)), NEW a \in Addrs \cup {NULL},
         a \notin DOMAIN View(c), NEW moves \in BOOLEAN, NEW b
  PROVE  /\ Shows(AddFree(mem[c], a, Place, moves), View(c))
         /\ Shows(AddRealloc(mem[c], b, a, Place, moves), View(c))
<1>1. a \notin DOMAIN mem[c].hash
  BY DEF Shows
<1>2. Place \in Nat /\ NULL \in Nat
  BY DEF LeaksInv, ContextsInv, Place, NULL
<1>3. /\ AddFree(mem[c], a, Place, moves) = AddInvalid(mem[c], a, Place, NULL, moves)
      /\ AddRealloc(mem[c], b, a, Place, moves) = AddInvalid(mem[c], a, NULL, Place, moves)
  BY <1>1 DEF AddFree, AddRealloc
<1> QED
  BY <1>2, <1>3, InvalidEvent

(* A malloc adds its block to both sides. *)
LEMMA MallocStep ==
  ASSUME LeaksInv, NEW c \in Ids, NEW a \in Addrs, Malloc(c, a)
  PROVE  ProgramInv' /\ (Expected' => \A d \in Ids : Shows(mem'[d], View(d)'))
<1> DEFINE added == [moves \in BOOLEAN |-> AddMalloc(mem[c], a, Place, moves)]
<1>1. /\ Call(c) /\ alive[c] /\ mode' = mode /\ alive' = alive /\ a \notin Blocks(c)
      /\ live' = [live EXCEPT ![Space(c)][a] = [alloc |-> Place, realloc |-> NULL, by |-> c]]
      /\ Treat(c, a, added, {})
  BY DEF Malloc, Call
<1>2. /\ ProgramInv /\ calls \in Nat /\ Place \in Nat /\ ContextInv(mem[c])
  BY DEF LeaksInv, ContextsInv, Place
<1>3. /\ ProgramInv'
      /\ DOMAIN View(c)' = DOMAIN View(c) \cup {a} /\ a \notin DOMAIN View(c)
      /\ View(c)'[a].alloc = Place /\ View(c)'[a].realloc = NULL
      /\ \A x \in DOMAIN View(c) : View(c)'[x] = View(c)[x]
      /\ \A d \in Ids \ {c} : View(d)' = View(d)
  BY <1>1, <1>2, Allocates
<1>4. ASSUME Expected' PROVE \A d \in Ids : Shows(mem'[d], View(d)')
  <2>1. /\ \A d \in Ids : Shows(mem[d], View(d))
        /\ \A d \in Ids \ {c} : mem'[d] = mem[d]
        /\ \E moves \in BOOLEAN : mem'[c] = added[moves]
    BY <1>1, <1>4, TreatFacts
  <2>2. PICK moves \in BOOLEAN : mem'[c] = AddMalloc(mem[c], a, Place, moves)
    BY <2>1
  <2>3. a \notin DOMAIN mem[c].hash
    BY <2>1, <1>3 DEF Shows
  <2>4. Allocated(mem[c], a, Place, mem'[c])
    BY <2>2, <2>3, <1>2, AddMallocFacts
  <2> DEFINE m == mem[c]
             r == mem'[c]
             view == View(c)
             after == View(c)'
  <2>5. /\ ContextInv(m) /\ Shows(m, view) /\ a \notin DOMAIN view /\ Allocated(m, a, Place, r)
        /\ DOMAIN after = DOMAIN view \cup {a}
        /\ after[a].alloc = Place /\ after[a].realloc = NULL
        /\ \A b \in DOMAIN view : after[b] = view[b]
    BY <1>2, <1>3, <2>1, <2>2, <2>4
  <2>6. Shows(r, after)
    <3> HIDE DEF m, r, view, after
    <3> QED
      BY <2>5, MallocShows
  <2> QED
    BY <2>1, <2>6, <1>3, OthersShow
<1> QED
  BY <1>3, <1>4

(* A free takes its block away from both sides. *)
LEMMA FreeStep ==
  ASSUME LeaksInv, NEW c \in Ids, NEW a \in Addrs, Free(c, a)
  PROVE  ProgramInv' /\ (Expected' => \A d \in Ids : Shows(mem'[d], View(d)'))
<1> DEFINE added == [moves \in BOOLEAN |-> AddFree(mem[c], a, Place, moves)]
<1>1. /\ Call(c) /\ mode' = mode /\ alive' = alive /\ a \in Blocks(c)
      /\ live' = [live EXCEPT ![Space(c)][a] = NoBlock]
      /\ Treat(c, a, added, Foreign(c, a))
  BY DEF Free, Call
<1>2. ProgramInv /\ ContextInv(mem[c])
  BY DEF LeaksInv, ContextsInv
<1>3. /\ ProgramInv'
      /\ DOMAIN View(c)' = DOMAIN View(c) \ {a}
      /\ a \in DOMAIN View(c) <=> Block(c, a).by = c
      /\ \A x \in DOMAIN View(c)' : View(c)'[x] = View(c)[x]
      /\ Block(c, a).by # c => View(c)' = View(c)
      /\ mode = "FORK" \/ Block(c, a).by = c => \A d \in Ids \ {c} : View(d)' = View(d)
  BY <1>1, <1>2, GivesUp
<1>4. ASSUME Expected' PROVE \A d \in Ids : Shows(mem'[d], View(d)')
  <2>1. /\ \A d \in Ids : Shows(mem[d], View(d))
        /\ Foreign(c, a) \subseteq Allowed
        /\ \A d \in Ids \ {c} : mem'[d] = mem[d]
        /\ \E moves \in BOOLEAN : mem'[c] = added[moves]
    BY <1>1, <1>4, TreatFacts
  <2>2. PICK moves \in BOOLEAN : mem'[c] = AddFree(mem[c], a, Place, moves)
    BY <2>1
  <2>3. mode = "FORK" \/ Block(c, a).by = c
    BY <2>1 DEF Foreign, Allowed
  <2>4. CASE Block(c, a).by # c
    <3>1. a \notin DOMAIN View(c) /\ View(c)' = View(c)
      BY <2>4, <1>3
    <3>2. Shows(mem'[c], View(c)')
      BY <3>1, <2>1, <2>2, UnknownEvents
    <3> QED
      BY <2>1, <2>3, <3>2, <1>3, OthersShow
  <2>5. CASE Block(c, a).by = c
    <3>1. a \in DOMAIN View(c) /\ DOMAIN mem[c].hash = DOMAIN View(c)
      BY <2>1, <2>5, <1>3 DEF Shows
    <3>2. Freed(mem[c], a, mem'[c])
      BY <2>2, <3>1, <1>2, AddFreeKnown
    <3> DEFINE m == mem[c]
               r == mem'[c]
               view == View(c)
               after == View(c)'
    <3>3. /\ ContextInv(m) /\ Shows(m, view) /\ a \in DOMAIN view /\ Freed(m, a, r)
          /\ DOMAIN after = DOMAIN view \ {a} /\ \A b \in DOMAIN after : after[b] = view[b]
      BY <1>2, <1>3, <2>1, <3>1, <3>2
    <3>4. Shows(r, after)
      <4> HIDE DEF m, r, view, after
      <4> QED
        BY <3>3, FreeShows
    <3> QED
      BY <2>1, <2>3, <3>4, <1>3, OthersShow
  <2> QED
    BY <2>4, <2>5
<1> QED
  BY <1>3, <1>4

(* A realloc moves the block that is shown. *)
LEMMA ReallocStep ==
  ASSUME LeaksInv, NEW c \in Ids, NEW inc \in Addrs, NEW ptr \in Addrs, Realloc(c, inc, ptr)
  PROVE  ProgramInv' /\ (Expected' => \A d \in Ids : Shows(mem'[d], View(d)'))
<1> DEFINE added == [moves \in BOOLEAN |-> AddRealloc(mem[c], ptr, inc, Place, moves)]
<1>1. /\ Call(c) /\ mode' = mode /\ alive' = alive /\ inc \in Blocks(c)
      /\ ptr \notin Blocks(c) \ {inc}
      /\ live' = [live EXCEPT ![Space(c)] =
                     [@ EXCEPT ![inc] = NoBlock, ![ptr] = [Block(c, inc) EXCEPT !.realloc = Place]]]
      /\ Treat(c, inc, added, Foreign(c, inc))
  BY DEF Realloc, Call
<1>2. ProgramInv /\ ContextInv(mem[c]) /\ calls \in Nat /\ Place \in Nat
  BY DEF LeaksInv, ContextsInv, Place
<1>3. /\ ProgramInv'
      /\ Block(c, inc).by # c => inc \notin DOMAIN View(c) /\ View(c)' = View(c)
      /\ Block(c, inc).by = c =>
           inc \in DOMAIN View(c) /\ ViewMoved(View(c), ptr, inc, Place, View(c)')
      /\ mode = "FORK" \/ Block(c, inc).by = c => \A d \in Ids \ {c} : View(d)' = View(d)
  BY <1>1, <1>2, Moves, ZenonT(30) DEF ViewMoved
<1>4. ASSUME Expected' PROVE \A d \in Ids : Shows(mem'[d], View(d)')
  <2>1. /\ \A d \in Ids : Shows(mem[d], View(d))
        /\ Foreign(c, inc) \subseteq Allowed
        /\ \A d \in Ids \ {c} : mem'[d] = mem[d]
        /\ \E moves \in BOOLEAN : mem'[c] = added[moves]
    BY <1>1, <1>4, TreatFacts
  <2>2. PICK moves \in BOOLEAN : mem'[c] = AddRealloc(mem[c], ptr, inc, Place, moves)
    BY <2>1
  <2>3. mode = "FORK" \/ Block(c, inc).by = c
    BY <2>1 DEF Foreign, Allowed
  <2>4. CASE Block(c, inc).by # c
    <3>1. inc \notin DOMAIN View(c) /\ View(c)' = View(c)
      BY <2>4, <1>3
    <3>2. Shows(mem'[c], View(c)')
      BY <3>1, <2>1, <2>2, UnknownEvents
    <3> QED
      BY <2>1, <2>3, <3>2, <1>3, OthersShow
  <2>5. CASE Block(c, inc).by = c
    <3>1. inc \in DOMAIN View(c) /\ DOMAIN mem[c].hash = DOMAIN View(c)
      BY <2>1, <2>5, <1>3 DEF Shows
    <3>2. Moved(mem[c], ptr, inc, Place, mem'[c])
      BY <2>2, <3>1, <1>2, AddReallocKnown
    <3> DEFINE m == mem[c]
               r == mem'[c]
               view == View(c)
               after == View(c)'
    <3>3. /\ ContextInv(m) /\ Shows(m, view) /\ Moved(m, ptr, inc, Place, r)
          /\ ViewMoved(view, ptr, inc, Place, after)
      BY <1>2, <1>3, <2>1, <2>5, <3>1, <3>2
    <3>4. Shows(r, after)
      <4> HIDE DEF m, r, view, after
      <4> QED
        BY <3>3, ReallocShows
    <3> QED
      BY <2>1, <2>3, <3>4, <1>3, OthersShow
  <2> QED
    BY <2>4, <2>5
<1> QED
  BY <1>3, <1>4

(* The views, when the program's blocks stay. *)
LEMMA ViewsStay ==
  ASSUME live' = live, mode' = mode, alive' = alive
  PROVE  /\ ProgramInv => ProgramInv'
         /\ \A d \in Ids : View(d)' = View(d)
BY DEF ProgramInv, View, ViewIn, OwnIn, Space

(* A call for an address that is no block's changes no block. *)
LEMMA InvalidStep ==
  ASSUME LeaksInv, NEW c \in Ids, NEW a \in Addrs \cup {NULL}, Call(c), live' = live,
         a \notin Blocks(c), NEW oddity, NEW b,
         \/ Treat(c, a, [moves \in BOOLEAN |-> AddFree(mem[c], a, Place, moves)], oddity)
         \/ Treat(c, a, [moves \in BOOLEAN |-> AddRealloc(mem[c], b, a, Place, moves)], oddity)
  PROVE  ProgramInv' /\ (Expected' => \A d \in Ids : Shows(mem'[d], View(d)'))
<1>1. ProgramInv' /\ \A d \in Ids : View(d)' = View(d)
  BY ViewsStay DEF LeaksInv, Call
<1>2. a \notin DOMAIN View(c)
  BY DEF View, ViewIn, OwnIn, Blocks
<1>3. ASSUME Expected' PROVE \A d \in Ids : Shows(mem'[d], View(d)')
  <2>1. CASE Treat(c, a, [moves \in BOOLEAN |-> AddFree(mem[c], a, Place, moves)], oddity)
    <3> DEFINE added == [moves \in BOOLEAN |-> AddFree(mem[c], a, Place, moves)]
    <3>1. /\ \A d \in Ids : Shows(mem[d], View(d))
          /\ \A d \in Ids \ {c} : mem'[d] = mem[d]
          /\ \E moves \in BOOLEAN : mem'[c] = added[moves]
      BY <2>1, <1>3, TreatFacts
    <3>2. PICK moves \in BOOLEAN : mem'[c] = AddFree(mem[c], a, Place, moves)
      BY <3>1
    <3>3. Shows(mem'[c], View(c)')
      BY <3>1, <3>2, <1>1, <1>2, UnknownEvents
    <3> QED
      BY <3>1, <3>3, <1>1, OthersShow
  <2>2. CASE Treat(c, a, [moves \in BOOLEAN |-> AddRealloc(mem[c], b, a, Place, moves)], oddity)
    <3> DEFINE added == [moves \in BOOLEAN |-> AddRealloc(mem[c], b, a, Place, moves)]
    <3>1. /\ \A d \in Ids : Shows(mem[d], View(d))
          /\ \A d \in Ids \ {c} : mem'[d] = mem[d]
          /\ \E moves \in BOOLEAN : mem'[c] = added[moves]
      BY <2>2, <1>3, TreatFacts
    <3>2. PICK moves \in BOOLEAN : mem'[c] = AddRealloc(mem[c], b, a, Place, moves)
      BY <3>1
    <3>3. Shows(mem'[c], View(c)')
      BY <3>1, <3>2, <1>1, <1>2, UnknownEvents
    <3> QED
      BY <3>1, <3>3, <1>1, OthersShow
  <2> QED
    BY <2>1, <2>2
<1> QED
  BY <1>1, <1>3

(* realloc of NULL, to 0, or that fails: the manager takes it wrongly.  *)
LEMMA OddStep ==
  ASSUME LeaksInv, NEW c \in Ids, NEW a \in Addrs,
         ReallocNull(c, a) \/ ReallocZero(c, a) \/ ReallocFails(c, a)
  PROVE  ProgramInv' /\ ~Expected'
<1>1. Call(c)
  BY DEF ReallocNull, ReallocZero, ReallocFails
<1>2. alive[c] /\ mode' = mode /\ alive' = alive
  BY <1>1 DEF Call
<1>3. ProgramInv /\ calls \in Nat
  BY DEF LeaksInv, ContextsInv
<1>4. crashed' = TRUE \/ odd' \cap {"realloc null", "zero", "fail"} # {}
  BY DEF ReallocNull, ReallocZero, ReallocFails, Treat
<1>5. ~Expected'
  BY <1>4 DEF Expected
<1>6. CASE ReallocNull(c, a)
  <2>1. /\ a \notin Blocks(c)
        /\ live' = [live EXCEPT ![Space(c)][a] = [alloc |-> Place, realloc |-> NULL, by |-> c]]
    BY <1>6 DEF ReallocNull
  <2> QED
    BY <2>1, <1>2, <1>3, <1>5, Allocates
<1>7. CASE ReallocZero(c, a)
  <2>1. a \in Blocks(c) /\ live' = [live EXCEPT ![Space(c)][a] = NoBlock]
    BY <1>7 DEF ReallocZero
  <2> QED
    BY <2>1, <1>2, <1>3, <1>5, GivesUp
<1>8. CASE ReallocFails(c, a)
  <2>1. live' = live
    BY <1>8 DEF ReallocFails
  <2> QED
    BY <2>1, <1>2, <1>3, <1>5, ViewsStay
<1> QED
  BY <1>6, <1>7, <1>8

(* A child starts with copies of blocks, none of them its own. *)
LEMMA ForkViews ==
  ASSUME ProgramInv, NEW p \in Ids, NEW c \in Ids, Fork(p, c)
  PROVE  ProgramInv' /\ \A d \in Ids : View(d)' = View(d)
<1>1. /\ mode = "FORK" /\ ~alive[c] /\ alive' = [alive EXCEPT ![c] = TRUE]
      /\ live' = [live EXCEPT ![c] = live[p]] /\ mode' = mode
  BY DEF Fork
<1>2. /\ live \in [Ids -> Spaces] /\ alive \in [Ids -> BOOLEAN]
      /\ \A s \in Ids, a \in Addrs :
           live[s][a] # NoBlock => live[s][a].by \in Ids /\ alive[live[s][a].by]
  BY DEF ProgramInv
<1>3. /\ live' \in [Ids -> Spaces] /\ live'[c] = live[p]
      /\ \A s \in Ids \ {c} : live'[s] = live[s]
  BY <1>1, <1>2
<1>4. alive' \in [Ids -> BOOLEAN] /\ \A d \in Ids : alive[d] => alive'[d]
  BY <1>1, <1>2
<1>5. ProgramInv'
  <2>1. ASSUME NEW s \in Ids, NEW a \in Addrs, live'[s][a] # NoBlock
        PROVE  live'[s][a].by \in Ids /\ alive'[live'[s][a].by]
    <3>1. PICK t \in Ids : live'[s] = live[t]
      BY <1>3
    <3> QED
      BY <3>1, <2>1, <1>2, <1>4
  <2> QED
    BY <2>1, <1>3, <1>4 DEF ProgramInv
<1>6. \A s \in Ids : OwnIn(live[s], c) = {}
  BY <1>1, <1>2 DEF OwnIn
<1>7. \A d \in Ids : Space(d) = d /\ Space(d)' = d
  BY <1>1 DEF Space
<1>8. \A d \in Ids : View(d) = ViewIn(live[d], d) /\ View(d)' = ViewIn(live'[d], d)
  BY <1>7 DEF View, ViewIn, OwnIn
<1>9. ASSUME NEW d \in Ids PROVE View(d)' = View(d)
  <2>1. CASE d # c
    BY <2>1, <1>3, <1>8
  <2>2. CASE d = c
    <3>1. OwnIn(live[c], c) = {} /\ OwnIn(live'[c], c) = {}
      BY <1>3, <1>6
    <3>2. ViewIn(live[c], c) = ViewIn(live'[c], c)
      BY <3>1 DEF ViewIn
    <3> QED
      BY <2>2, <3>2, <1>8
  <2> QED
    BY <2>1, <2>2
<1> QED
  BY <1>5, <1>9

(* The contexts stay when a process forks. *)
LEMMA ForkStep ==
  ASSUME LeaksInv, NEW p \in Ids, NEW c \in Ids, Fork(p, c)
  PROVE  ProgramInv' /\ (Expected' => \A d \in Ids : Shows(mem'[d], View(d)'))
<1>1. mem' = mem /\ mode' = mode /\ odd' = odd /\ crashed' = crashed
  BY DEF Fork
<1>2. ProgramInv' /\ \A d \in Ids : View(d)' = View(d)
  BY ForkViews DEF LeaksInv
<1>3. Expected' => Expected
  BY <1>1 DEF Expected
<1> QED
  BY <1>1, <1>2, <1>3 DEF LeaksInv

(* Every step of the program keeps the leaks right. *)
LEMMA LeaksStep == LeaksInv /\ [Next]_vars => LeaksInv'
<1> SUFFICES ASSUME LeaksInv, [Next]_vars PROVE LeaksInv'
  OBVIOUS
<1>1. ContextsInv'
  BY ContextsStep DEF LeaksInv
<1> DEFINE Kept == ProgramInv' /\ (Expected' => \A d \in Ids : Shows(mem'[d], View(d)'))
<1>2. SUFFICES Kept
  BY <1>1 DEF LeaksInv
<1> HIDE DEF Kept
<1>3. ASSUME NEW c \in Ids, NEW a \in Addrs, Malloc(c, a) PROVE Kept
  BY <1>3, MallocStep DEF Kept
<1>4. ASSUME NEW c \in Ids, NEW a \in Addrs, Free(c, a) PROVE Kept
  BY <1>4, FreeStep DEF Kept
<1>5. ASSUME NEW c \in Ids, NEW a \in Addrs, NEW b \in Addrs, Realloc(c, a, b) PROVE Kept
  BY <1>5, ReallocStep DEF Kept
<1>6. ASSUME NEW c \in Ids, NEW a \in Addrs, InvalidFree(c, a) PROVE Kept
  BY <1>6, InvalidStep DEF InvalidFree, Kept
<1>7. ASSUME NEW c \in Ids, NEW a \in Addrs, InvalidRealloc(c, a) PROVE Kept
  BY <1>7, InvalidStep DEF InvalidRealloc, Kept
<1>8. ASSUME NEW c \in Ids, NEW a \in Addrs,
             ReallocNull(c, a) \/ ReallocZero(c, a) \/ ReallocFails(c, a)
      PROVE  Kept
  BY <1>8, OddStep DEF Kept
<1>9. ASSUME NEW c \in Ids, FreeNull(c) PROVE Kept
  <2>1. NULL \notin Blocks(c)
    BY MemoryAssumption DEF Blocks, NULL
  <2> QED
    BY <1>9, <2>1, InvalidStep DEF FreeNull, Kept
<1>10. ASSUME NEW c \in Ids, ListLost(c) PROVE Kept
  <2>1. live' = live /\ mode' = mode /\ alive' = alive /\ crashed' = TRUE
    BY <1>10 DEF ListLost, Call
  <2> QED
    BY <2>1, ViewsStay DEF Kept, LeaksInv, Expected
<1>11. ASSUME NEW p \in Ids, NEW c \in Ids, Fork(p, c) PROVE Kept
  BY <1>11, ForkStep DEF Kept
<1>12. CASE UNCHANGED vars
  <2>1. /\ live' = live /\ mode' = mode /\ alive' = alive /\ mem' = mem
        /\ odd' = odd /\ crashed' = crashed
    BY <1>12 DEF vars
  <2>2. Expected' => Expected
    BY <2>1 DEF Expected
  <2> QED
    BY <2>1, <2>2, ViewsStay DEF Kept, LeaksInv
<1> QED
  BY <1>3, <1>4, <1>5, <1>6, <1>7, <1>8, <1>9, <1>10, <1>11, <1>12 DEF Next

(* A context that shows its view saves as many leaks as there are blocks. *)
LEMMA ShownOnce ==
  ASSUME NEW m, ContextInv(m), NEW view, Shows(m, view)
  PROVE  Cardinality(SavedLeaks(m)) = Cardinality(DOMAIN view)
<1> DEFINE S == SavedLeaks(m)
           T == DOMAIN view
           f == [i \in S |-> m.list[i].pointer]
<1>1. m.nb_elements \in Nat /\ S \subseteq 0 .. m.nb_elements - 1
  BY DEF ContextInv, IsMemory, SavedLeaks, Used
<1>2. IsFiniteSet(0 .. m.nb_elements - 1)
  BY <1>1, FS_Interval
<1>3. IsFiniteSet(S)
  BY <1>1, <1>2, FS_Subset
<1>4. \A a \in T : m.hash[a].index \in S /\ m.list[m.hash[a].index].pointer = a
  BY ContextIsApart DEF Shows
<1>5. \A i \in S : \E a \in T : m.hash[a].index = i
  BY DEF Shows
<1> HIDE DEF S, T
<1>6. \A i \in S : f[i] \in T /\ m.hash[f[i]].index = i
  BY <1>4, <1>5
<1>7. f \in [S -> T]
  BY <1>6
<1>8. f \in Injection(S, T)
  BY <1>6, <1>7, Fun_IsInj
<1>9. f \in Surjection(S, T)
  BY <1>4, <1>7, Fun_IsSurj
<1>10. ExistsBijection(S, T)
  BY <1>8, <1>9 DEF ExistsBijection, Bijection
<1>11. Cardinality(T) = Cardinality(S)
  BY <1>3, <1>10, FS_Bijection
<1> QED
  BY <1>11 DEF S, T

(* The leaks saved (fc_context_save) are the blocks that the process or    *)
(* thread has allocated and not freed, once each and with their places,    *)
(* unless a realloc of NULL, to 0 or that fails or, between threads, a     *)
(* free by another one has come before, and as long as no pointer into a   *)
(* list that was moved is used.                                            *)
THEOREM LeaksAreExact == Spec => []LeaksExact
<1>1. LeaksInv => LeaksExact
  <2> SUFFICES ASSUME LeaksInv, Expected, NEW c \in Ids
               PROVE  LET m == mem[c]
                          own == {a \in Blocks(c) : Block(c, a).by = c}
                      IN  /\ Cardinality(SavedLeaks(m)) = Cardinality(own)
                          /\ \A a \in own : \E i \in SavedLeaks(m) :
                               /\ m.list[i].pointer = a
                               /\ m.list[i].alloc = Block(c, a).alloc
                               /\ m.list[i].realloc = Block(c, a).realloc
    BY DEF LeaksExact, Expected
  <2>1. ContextInv(mem[c]) /\ Shows(mem[c], View(c))
    BY DEF LeaksInv, ContextsInv
  <2> DEFINE own == {a \in Blocks(c) : Block(c, a).by = c}
  <2>2. DOMAIN View(c) = own /\ \A a \in own : View(c)[a] = Block(c, a)
    BY DEF View, ViewIn, OwnIn, Blocks, Block
  <2>3. Cardinality(SavedLeaks(mem[c])) = Cardinality(own)
    BY <2>1, <2>2, ShownOnce
  <2>4. ASSUME NEW a \in own
        PROVE  \E i \in SavedLeaks(mem[c]) :
                 /\ mem[c].list[i].pointer = a
                 /\ mem[c].list[i].alloc = Block(c, a).alloc
                 /\ mem[c].list[i].realloc = Block(c, a).realloc
    <3>1. a \in DOMAIN View(c) /\ a \in DOMAIN mem[c].hash /\ View(c)[a] = Block(c, a)
      BY <2>1, <2>2 DEF Shows
    <3>2. /\ mem[c].list[mem[c].hash[a].index].alloc = View(c)[a].alloc
          /\ mem[c].list[mem[c].hash[a].index].realloc = View(c)[a].realloc
      BY <3>1, <2>1 DEF Shows
    <3>3. /\ mem[c].hash[a].index \in SavedLeaks(mem[c])
          /\ mem[c].list[mem[c].hash[a].index].pointer = a
      BY <3>1, <3>2, <2>1, ContextIsApart
    <3> QED
      BY <3>1, <3>2, <3>3
  <2> QED
    BY <2>3, <2>4
<1> QED
  BY <1>1, LeaksInitially, LeaksStep, PTL DEF Spec

------------------------------------------------------------------------------
(* The invalid calls that the manager reports are those that the program   *)
(* has made.                                                               *)

FaultRecords == [kind : {"free", "realloc"}, pointer : Addrs, place : Nat \ {0}]

Invalids(m) == {i \in 0 .. m.nb_elements - 1 : m.list[i].size = "UINT_MAX"}

(* the call that an element stands for *)
Fits(x, f) ==
  /\ x.set = TRUE /\ x.pointer = f.pointer
  /\ f.kind = "free" => x.alloc = f.place /\ x.realloc = NULL
  /\ f.kind = "realloc" => x.alloc = NULL /\ x.realloc = f.place

(* The elements of the invalid calls are the calls made, in their order,   *)
(* the last one at call n at the latest.                                   *)
Recorded(m, made, n) ==
  /\ made \subseteq FaultRecords /\ \A f \in made : f.place <= n
  /\ \A f \in made : \E i \in Invalids(m) : Fits(m.list[i], f)
  /\ \A i \in Invalids(m) : \E f \in made : Fits(m.list[i], f)
  /\ \A i, j \in Invalids(m), f, g \in made :
       i < j /\ Fits(m.list[i], f) /\ Fits(m.list[j], g) => f.place < g.place

(* An event that touches no element of an invalid call. *)
LEMMA StaysRecorded ==
  ASSUME NEW m, NEW r, NEW made, NEW n \in Nat, Recorded(m, made, n),
         Invalids(r) = Invalids(m), \A i \in Invalids(m) : r.list[i] = m.list[i]
  PROVE  Recorded(r, made, n) /\ Recorded(r, made, n + 1)
<1>1. \A f \in made : f.place \in Nat /\ f.place <= n + 1
  BY DEF Recorded, FaultRecords
<1>2. Recorded(r, made, n)
  BY DEF Recorded
<1> QED
  BY <1>1, <1>2 DEF Recorded

(* An invalid call is recorded after the others. *)
LEMMA FaultRecorded ==
  ASSUME NEW m, ContextInv(m), NEW made, NEW n \in Nat, Recorded(m, made, n),
         NEW f \in FaultRecords, f.place = n + 1,
         NEW r, NEW alloc, NEW realloc, Charged(m, f.pointer, alloc, realloc, r),
         f.kind = "free" => alloc = f.place /\ realloc = NULL,
         f.kind = "realloc" => alloc = NULL /\ realloc = f.place
  PROVE  Recorded(r, made \cup {f}, n + 1)
<1> DEFINE e == m.nb_elements
           all == made \cup {f}
<1>1. e \in Nat
  BY DEF ContextInv, IsMemory
<1>2. /\ r.nb_elements = e + 1 /\ \A i \in 0 .. e - 1 : r.list[i] = m.list[i]
      /\ r.list[e].size = "UINT_MAX" /\ Fits(r.list[e], f)
  BY DEF Charged, Fits
<1>3. Invalids(r) = Invalids(m) \cup {e} /\ e \notin Invalids(m)
  BY <1>1, <1>2 DEF Invalids
<1>4. \A i \in Invalids(m) : r.list[i] = m.list[i] /\ i < e /\ i \in Nat
  BY <1>1, <1>2 DEF Invalids
<1>5. \A g \in made : g \in FaultRecords /\ g.place \in Nat /\ g.place < n + 1
  BY DEF Recorded, FaultRecords
<1>6. all \subseteq FaultRecords /\ \A g \in all : g.place <= n + 1
  BY <1>5
<1>7. \A g \in all : \E i \in Invalids(r) : Fits(r.list[i], g)
  BY <1>2, <1>3, <1>4 DEF Recorded
<1>8. \A i \in Invalids(r) : \E g \in all : Fits(r.list[i], g)
  BY <1>2, <1>3, <1>4 DEF Recorded
(* an element tells the place of its call *)
<1>9. ASSUME NEW x, NEW g \in FaultRecords, NEW h \in FaultRecords, Fits(x, g), Fits(x, h)
      PROVE  g.place = h.place
  BY <1>9 DEF Fits, FaultRecords, NULL
<1>10. ASSUME NEW i \in Invalids(r), NEW j \in Invalids(r), NEW g \in all, NEW h \in all,
              i < j, Fits(r.list[i], g), Fits(r.list[j], h)
       PROVE  g.place < h.place
  <2>1. i \in Invalids(m) /\ r.list[i] = m.list[i]
    BY <1>1, <1>3, <1>4, <1>10
  <2>2. PICK g1 \in made : Fits(m.list[i], g1)
    BY <2>1 DEF Recorded
  <2>3. g.place = g1.place
    BY <2>1, <2>2, <1>5, <1>6, <1>9, <1>10
  <2>4. CASE j = e
    <3>1. h.place = n + 1
      BY <2>4, <1>2, <1>6, <1>9, <1>10
    <3> QED
      BY <3>1, <2>3, <1>5
  <2>5. CASE j # e
    <3>1. j \in Invalids(m) /\ r.list[j] = m.list[j]
      BY <2>5, <1>3, <1>4
    <3>2. PICK h1 \in made : Fits(m.list[j], h1)
      BY <3>1 DEF Recorded
    <3>3. h.place = h1.place
      BY <3>1, <3>2, <1>5, <1>6, <1>9, <1>10
    <3> QED
      BY <2>1, <2>2, <2>3, <3>1, <3>2, <3>3, <1>10 DEF Recorded
  <2> QED
    BY <2>4, <2>5
<1> HIDE DEF all
<1>11. Recorded(r, all, n + 1)
  BY <1>6, <1>7, <1>8, <1>10 DEF Recorded
<1> QED
  BY <1>11 DEF all

(* The other events touch no element of an invalid call. *)
LEMMA OtherEvents ==
  ASSUME NEW m, ContextInv(m), NEW r
  PROVE  LET same == Invalids(r) = Invalids(m) /\ \A i \in Invalids(m) : r.list[i] = m.list[i]
         IN  /\ \A a, where : Allocated(m, a, where, r) => same
             /\ \A a \in DOMAIN m.hash : Freed(m, a, r) => same
             /\ \A a \in DOMAIN m.hash : \A b, where : Moved(m, b, a, where, r) => same
<1>1. m.nb_elements \in Nat
  BY DEF ContextInv, IsMemory
<1>2. \A a \in DOMAIN m.hash : m.list[m.hash[a].index].size = "block"
  BY DEF ContextInv, HashApart
<1>3. ASSUME NEW a, NEW where, Allocated(m, a, where, r)
      PROVE  Invalids(r) = Invalids(m) /\ \A i \in Invalids(m) : r.list[i] = m.list[i]
  BY <1>1, <1>3 DEF Invalids, Allocated
<1>4. ASSUME NEW a \in DOMAIN m.hash, Freed(m, a, r)
      PROVE  Invalids(r) = Invalids(m) /\ \A i \in Invalids(m) : r.list[i] = m.list[i]
  BY <1>2, <1>4 DEF Invalids, Freed
<1>5. ASSUME NEW a \in DOMAIN m.hash, NEW b, NEW where, Moved(m, b, a, where, r)
      PROVE  Invalids(r) = Invalids(m) /\ \A i \in Invalids(m) : r.list[i] = m.list[i]
  BY <1>2, <1>5 DEF Invalids, Moved
<1> QED
  BY <1>3, <1>4, <1>5
------------------------------------------------------------------------------
(* nothing has happened that the manager takes for something else *)
Plain == ~crashed /\ odd \subseteq {"zero"}

(* The addresses a context knows are those of its own blocks, and its      *)
(* invalid calls are recorded.                                             *)
Reported(m, view, made, n) == DOMAIN m.hash = DOMAIN view /\ Recorded(m, made, n)

(* The inductive invariant of the invalid calls. *)
FaultsInv ==
  /\ ContextsInv /\ ProgramInv
  /\ faults \in [Ids -> Seq(FaultRecords)]
  /\ Plain => \A c \in Ids : Reported(mem[c], View(c), Range(faults[c]), calls)

(* what a step has to keep, beside the contexts *)
FaultsKept ==
  /\ ProgramInv' /\ faults' \in [Ids -> Seq(FaultRecords)]
  /\ Plain' => \A c \in Ids : Reported(mem'[c], View(c)', Range(faults'[c]), calls')

(* One more call is made. *)
LEMMA FaultAppended ==
  ASSUME NEW q \in Seq(FaultRecords), NEW f \in FaultRecords
  PROVE  Append(q, f) \in Seq(FaultRecords) /\ Range(Append(q, f)) = Range(q) \cup {f}
<1>1. /\ Append(q, f) \in Seq(FaultRecords) /\ Len(Append(q, f)) = Len(q) + 1
      /\ Append(q, f)[Len(q) + 1] = f
      /\ \A k \in 1 .. Len(q) : Append(q, f)[k] = q[k]
  OBVIOUS
<1>2. /\ DOMAIN q = 1 .. Len(q) /\ DOMAIN Append(q, f) = 1 .. Len(q) + 1 /\ Len(q) \in Nat
  OBVIOUS
<1> DEFINE s == Append(q, f)
<1> HIDE DEF s
<1>3. /\ DOMAIN s = DOMAIN q \cup {Len(q) + 1} /\ s[Len(q) + 1] = f
      /\ \A k \in DOMAIN q : s[k] = q[k]
  BY <1>1, <1>2 DEF s
<1>4. Range(s) = Range(q) \cup {f}
  BY <1>3 DEF Range
<1> QED
  BY <1>1, <1>4 DEF s

(* As long as no call was taken for something else, an event changes its   *)
(* own context only.                                                       *)
LEMMA PlainTreat ==
  ASSUME FaultsInv, NEW c \in Ids, Call(c), NEW a, NEW added, NEW oddity,
         Treat(c, a, added, oddity), Plain'
  PROVE  /\ \A d \in Ids : Reported(mem[d], View(d), Range(faults[d]), calls)
         /\ oddity \subseteq {"zero"}
         /\ \A d \in Ids \ {c} : mem'[d] = mem[d]
         /\ \E moves \in BOOLEAN : mem'[c] = added[moves]
<1>1. crashed' # TRUE
  BY DEF Plain
<1>2. PICK moves \in BOOLEAN :
        /\ mem' = [mem EXCEPT ![c] = added[moves]]
        /\ odd' = odd \cup oddity
        /\ crashed' = crashed
  BY <1>1 DEF Treat
<1>3. odd \subseteq {"zero"} /\ oddity \subseteq {"zero"} /\ ~crashed
  BY <1>2 DEF Plain
<1>4. DOMAIN mem = Ids /\ mem = [d \in Ids |-> mem[d]]
  BY DEF FaultsInv, ContextsInv
<1>5. mem'[c] = added[moves] /\ \A d \in Ids \ {c} : mem'[d] = mem[d]
  BY <1>2, <1>4
<1> QED
  BY <1>3, <1>5 DEF FaultsInv, Plain

(* What is reported of the others stays, and so all is reported when the   *)
(* acting one's is.                                                        *)
LEMMA OthersReported ==
  ASSUME FaultsInv, NEW c \in Ids, Call(c),
         \A d \in Ids : Reported(mem[d], View(d), Range(faults[d]), calls),
         \A d \in Ids \ {c} : mem'[d] = mem[d] /\ View(d)' = View(d) /\ faults'[d] = faults[d],
         Reported(mem'[c], View(c)', Range(faults'[c]), calls')
  PROVE  \A d \in Ids : Reported(mem'[d], View(d)', Range(faults'[d]), calls')
<1>1. calls' = calls + 1 /\ calls \in Nat
  BY DEF Call, FaultsInv, ContextsInv
<1> SUFFICES ASSUME NEW d \in Ids \ {c}
             PROVE  Reported(mem'[d], View(d)', Range(faults'[d]), calls')
  OBVIOUS
<1>2. mem'[d] = mem[d] /\ View(d)' = View(d) /\ faults'[d] = faults[d]
  OBVIOUS
<1>3. Reported(mem[d], View(d), Range(faults[d]), calls)
  OBVIOUS
<1>4. Recorded(mem[d], Range(faults[d]), calls + 1)
  BY <1>1, <1>3, StaysRecorded DEF Reported
<1> QED
  BY <1>1, <1>2, <1>3, <1>4 DEF Reported

(* An event that is no invalid call's: the addresses known have to follow. *)
LEMMA ValidEvent ==
  ASSUME FaultsInv, NEW c \in Ids, Call(c), faults' = faults,
         \A d \in Ids : Reported(mem[d], View(d), Range(faults[d]), calls),
         \A d \in Ids \ {c} : mem'[d] = mem[d] /\ View(d)' = View(d),
         DOMAIN mem'[c].hash = DOMAIN View(c)',
         Invalids(mem'[c]) = Invalids(mem[c]),
         \A i \in Invalids(mem[c]) : mem'[c].list[i] = mem[c].list[i]
  PROVE  \A d \in Ids : Reported(mem'[d], View(d)', Range(faults'[d]), calls')
<1>1. calls' = calls + 1 /\ calls \in Nat
  BY DEF Call, FaultsInv, ContextsInv
<1>2. Recorded(mem[c], Range(faults[c]), calls)
  BY DEF Reported
<1> DEFINE m == mem[c]
           r == mem'[c]
           made == Range(faults[c])
<1>3. /\ Recorded(m, made, calls) /\ Invalids(r) = Invalids(m)
      /\ \A i \in Invalids(m) : r.list[i] = m.list[i]
  BY <1>2
<1>4. Recorded(r, made, calls + 1)
  <2> HIDE DEF m, r, made
  <2> QED
    BY <1>1, <1>3, StaysRecorded
<1>5. Reported(mem'[c], View(c)', Range(faults'[c]), calls')
  BY <1>1, <1>4 DEF Reported
<1> QED
  BY <1>5, OthersReported

(* At the start no call was made and none is listed. *)
LEMMA FaultsInitially == Init => FaultsInv
<1> SUFFICES ASSUME Init PROVE FaultsInv
  OBVIOUS
<1>1. ContextsInv /\ ProgramInv
  BY LeaksInitially DEF LeaksInv
<1>2. faults = [c \in Ids |-> <<>>] /\ calls = 0
  BY DEF Init
<1>3. faults \in [Ids -> Seq(FaultRecords)]
  BY <1>2
<1>4. ASSUME NEW c \in Ids PROVE Reported(mem[c], View(c), Range(faults[c]), calls)
  <2>1. mem[c] = Created
    BY DEF Init
  <2>2. DOMAIN mem[c].hash = {} /\ Invalids(mem[c]) = {}
    BY <2>1 DEF Created, Invalids
  <2>3. \A s \in Ids, a \in Addrs : live[s][a] = NoBlock
    BY DEF Init
  <2>4. DOMAIN View(c) = {}
    BY <2>3, <1>1, SpaceTyped DEF View, ViewIn, OwnIn
  <2>5. Range(faults[c]) = {}
    BY <1>2 DEF Range
  <2> QED
    BY <2>2, <2>4, <2>5 DEF Reported, Recorded
<1> QED
  BY <1>1, <1>3, <1>4 DEF FaultsInv

(* A new block leads a new address to an element. *)
LEMMA MallocReported ==
  ASSUME FaultsInv, NEW c \in Ids, NEW a \in Addrs, Malloc(c, a)
  PROVE  FaultsKept
<1> DEFINE added == [moves \in BOOLEAN |-> AddMalloc(mem[c], a, Place, moves)]
<1>1. /\ Call(c) /\ alive[c] /\ mode' = mode /\ alive' = alive /\ a \notin Blocks(c)
      /\ live' = [live EXCEPT ![Space(c)][a] = [alloc |-> Place, realloc |-> NULL, by |-> c]]
      /\ Treat(c, a, added, {}) /\ faults' = faults
  BY DEF Malloc, Call
<1>2. /\ ProgramInv /\ calls \in Nat /\ Place \in Nat /\ ContextInv(mem[c])
      /\ faults' \in [Ids -> Seq(FaultRecords)]
  BY <1>1 DEF FaultsInv, ContextsInv, Place
<1>3. /\ ProgramInv'
      /\ DOMAIN View(c)' = DOMAIN View(c) \cup {a} /\ a \notin DOMAIN View(c)
      /\ \A d \in Ids \ {c} : View(d)' = View(d)
  BY <1>1, <1>2, Allocates
<1>4. ASSUME Plain' PROVE \A d \in Ids : Reported(mem'[d], View(d)', Range(faults'[d]), calls')
  <2>1. /\ \A d \in Ids : Reported(mem[d], View(d), Range(faults[d]), calls)
        /\ \A d \in Ids \ {c} : mem'[d] = mem[d]
        /\ \E moves \in BOOLEAN : mem'[c] = added[moves]
    BY <1>1, <1>4, PlainTreat
  <2>2. PICK moves \in BOOLEAN : mem'[c] = AddMalloc(mem[c], a, Place, moves)
    BY <2>1
  <2>3. DOMAIN mem[c].hash = DOMAIN View(c) /\ a \notin DOMAIN mem[c].hash
    BY <2>1, <1>3 DEF Reported
  <2>4. Allocated(mem[c], a, Place, mem'[c])
    BY <2>2, <2>3, <1>2, AddMallocFacts
  <2>5. /\ Invalids(mem'[c]) = Invalids(mem[c])
        /\ \A i \in Invalids(mem[c]) : mem'[c].list[i] = mem[c].list[i]
    BY <2>4, <1>2, OtherEvents
  <2>6. DOMAIN mem'[c].hash = DOMAIN View(c)'
    <3>1. a # NULL
      BY MemoryAssumption DEF NULL
    <3>2. mem'[c].hash = With(mem[c].hash, a, [block |-> mem'[c].block, index |-> mem[c].nb_elements])
      BY <2>4 DEF Allocated
    <3>3. DOMAIN mem'[c].hash = DOMAIN mem[c].hash \cup {a}
      BY <3>1, <3>2 DEF With
    <3> QED
      BY <3>3, <2>3, <1>3
  <2> QED
    BY <2>1, <2>5, <2>6, <1>1, <1>3, ValidEvent
<1> QED
  BY <1>2, <1>3, <1>4 DEF FaultsKept

(* A block that is freed, by its owner, is known. *)
LEMMA FreeReported ==
  ASSUME FaultsInv, NEW c \in Ids, NEW a \in Addrs, Free(c, a)
  PROVE  FaultsKept
<1> DEFINE added == [moves \in BOOLEAN |-> AddFree(mem[c], a, Place, moves)]
<1>1. /\ Call(c) /\ mode' = mode /\ alive' = alive /\ a \in Blocks(c)
      /\ live' = [live EXCEPT ![Space(c)][a] = NoBlock]
      /\ Treat(c, a, added, Foreign(c, a)) /\ faults' = faults
  BY DEF Free, Call
<1>2. /\ ProgramInv /\ ContextInv(mem[c]) /\ faults' \in [Ids -> Seq(FaultRecords)]
  BY <1>1 DEF FaultsInv, ContextsInv
<1>3. /\ ProgramInv'
      /\ DOMAIN View(c)' = DOMAIN View(c) \ {a}
      /\ a \in DOMAIN View(c) <=> Block(c, a).by = c
      /\ mode = "FORK" \/ Block(c, a).by = c => \A d \in Ids \ {c} : View(d)' = View(d)
  BY <1>1, <1>2, GivesUp
<1>4. ASSUME Plain' PROVE \A d \in Ids : Reported(mem'[d], View(d)', Range(faults'[d]), calls')
  <2>1. /\ \A d \in Ids : Reported(mem[d], View(d), Range(faults[d]), calls)
        /\ Foreign(c, a) \subseteq {"zero"}
        /\ \A d \in Ids \ {c} : mem'[d] = mem[d]
        /\ \E moves \in BOOLEAN : mem'[c] = added[moves]
    BY <1>1, <1>4, PlainTreat
  <2>2. PICK moves \in BOOLEAN : mem'[c] = AddFree(mem[c], a, Place, moves)
    BY <2>1
  <2>3. Block(c, a).by = c
    BY <2>1 DEF Foreign
  <2>4. DOMAIN mem[c].hash = DOMAIN View(c) /\ a \in DOMAIN mem[c].hash
    BY <2>1, <2>3, <1>3 DEF Reported
  <2>5. Freed(mem[c], a, mem'[c])
    BY <2>2, <2>4, <1>2, AddFreeKnown
  <2>6. /\ Invalids(mem'[c]) = Invalids(mem[c])
        /\ \A i \in Invalids(mem[c]) : mem'[c].list[i] = mem[c].list[i]
    BY <2>4, <2>5, <1>2, OtherEvents
  <2>7. DOMAIN mem'[c].hash = DOMAIN View(c)'
    <3>1. DOMAIN mem'[c].hash = DOMAIN mem[c].hash \ {a}
      BY <2>5 DEF Freed, Without
    <3> QED
      BY <3>1, <2>4, <1>3
  <2> QED
    BY <2>1, <2>3, <2>6, <2>7, <1>1, <1>3, ValidEvent
<1> QED
  BY <1>2, <1>3, <1>4 DEF FaultsKept

(* A block that is moved, by its owner, is known. *)
LEMMA ReallocReported ==
  ASSUME FaultsInv, NEW c \in Ids, NEW inc \in Addrs, NEW ptr \in Addrs, Realloc(c, inc, ptr)
  PROVE  FaultsKept
<1> DEFINE added == [moves \in BOOLEAN |-> AddRealloc(mem[c], ptr, inc, Place, moves)]
<1>1. /\ Call(c) /\ mode' = mode /\ alive' = alive /\ inc \in Blocks(c)
      /\ ptr \notin Blocks(c) \ {inc}
      /\ live' = [live EXCEPT ![Space(c)] =
                     [@ EXCEPT ![inc] = NoBlock, ![ptr] = [Block(c, inc) EXCEPT !.realloc = Place]]]
      /\ Treat(c, inc, added, Foreign(c, inc)) /\ faults' = faults
  BY DEF Realloc, Call
<1>2. /\ ProgramInv /\ ContextInv(mem[c]) /\ calls \in Nat /\ Place \in Nat
      /\ faults' \in [Ids -> Seq(FaultRecords)]
  BY <1>1 DEF FaultsInv, ContextsInv, Place
<1>3. /\ ProgramInv'
      /\ Block(c, inc).by = c =>
           /\ inc \in DOMAIN View(c)
           /\ DOMAIN View(c)' = (DOMAIN View(c) \ {inc}) \cup {ptr}
      /\ mode = "FORK" \/ Block(c, inc).by = c => \A d \in Ids \ {c} : View(d)' = View(d)
  BY <1>1, <1>2, Moves
<1>4. ASSUME Plain' PROVE \A d \in Ids : Reported(mem'[d], View(d)', Range(faults'[d]), calls')
  <2>1. /\ \A d \in Ids : Reported(mem[d], View(d), Range(faults[d]), calls)
        /\ Foreign(c, inc) \subseteq {"zero"}
        /\ \A d \in Ids \ {c} : mem'[d] = mem[d]
        /\ \E moves \in BOOLEAN : mem'[c] = added[moves]
    BY <1>1, <1>4, PlainTreat
  <2>2. PICK moves \in BOOLEAN : mem'[c] = AddRealloc(mem[c], ptr, inc, Place, moves)
    BY <2>1
  <2>3. Block(c, inc).by = c
    BY <2>1 DEF Foreign
  <2>4. DOMAIN mem[c].hash = DOMAIN View(c) /\ inc \in DOMAIN mem[c].hash
    BY <2>1, <2>3, <1>3 DEF Reported
  <2>5. Moved(mem[c], ptr, inc, Place, mem'[c])
    BY <2>2, <2>4, <1>2, AddReallocKnown
  <2>6. /\ Invalids(mem'[c]) = Invalids(mem[c])
        /\ \A i \in Invalids(mem[c]) : mem'[c].list[i] = mem[c].list[i]
    BY <2>4, <2>5, <1>2, OtherEvents
  <2>7. DOMAIN mem'[c].hash = DOMAIN View(c)'
    <3>1. ptr # NULL
      BY MemoryAssumption DEF NULL
    <3>2. DOMAIN mem'[c].hash = (DOMAIN mem[c].hash \ {inc}) \cup {ptr}
      BY <2>4, <2>5, <3>1 DEF Moved, With, Without
    <3> QED
      BY <3>2, <2>3, <2>4, <1>3
  <2> QED
    BY <2>1, <2>3, <2>6, <2>7, <1>1, <1>3, ValidEvent
<1> QED
  BY <1>2, <1>3, <1>4 DEF FaultsKept

(* realloc(a, 0) frees the block and its address is known no more. *)
LEMMA ZeroReported ==
  ASSUME FaultsInv, NEW c \in Ids, NEW a \in Addrs, ReallocZero(c, a)
  PROVE  FaultsKept
<1> DEFINE added == [moves \in BOOLEAN |-> AddRealloc(mem[c], NULL, a, Place, moves)]
<1>1. /\ Call(c) /\ mode' = mode /\ alive' = alive /\ a \in Blocks(c)
      /\ live' = [live EXCEPT ![Space(c)][a] = NoBlock]
      /\ Treat(c, a, added, {"zero"} \cup Foreign(c, a)) /\ faults' = faults
  BY DEF ReallocZero, Call
<1>2. /\ ProgramInv /\ ContextInv(mem[c]) /\ calls \in Nat /\ Place \in Nat
      /\ faults' \in [Ids -> Seq(FaultRecords)]
  BY <1>1 DEF FaultsInv, ContextsInv, Place
<1>3. /\ ProgramInv'
      /\ DOMAIN View(c)' = DOMAIN View(c) \ {a}
      /\ a \in DOMAIN View(c) <=> Block(c, a).by = c
      /\ mode = "FORK" \/ Block(c, a).by = c => \A d \in Ids \ {c} : View(d)' = View(d)
  BY <1>1, <1>2, GivesUp
<1>4. ASSUME Plain' PROVE \A d \in Ids : Reported(mem'[d], View(d)', Range(faults'[d]), calls')
  <2>1. /\ \A d \in Ids : Reported(mem[d], View(d), Range(faults[d]), calls)
        /\ {"zero"} \cup Foreign(c, a) \subseteq {"zero"}
        /\ \A d \in Ids \ {c} : mem'[d] = mem[d]
        /\ \E moves \in BOOLEAN : mem'[c] = added[moves]
    BY <1>1, <1>4, PlainTreat
  <2>2. PICK moves \in BOOLEAN : mem'[c] = AddRealloc(mem[c], NULL, a, Place, moves)
    BY <2>1
  <2>3. Block(c, a).by = c
    BY <2>1 DEF Foreign
  <2>4. DOMAIN mem[c].hash = DOMAIN View(c) /\ a \in DOMAIN mem[c].hash
    BY <2>1, <2>3, <1>3 DEF Reported
  <2>5. Moved(mem[c], NULL, a, Place, mem'[c])
    BY <2>2, <2>4, <1>2, AddReallocKnown
  <2>6. /\ Invalids(mem'[c]) = Invalids(mem[c])
        /\ \A i \in Invalids(mem[c]) : mem'[c].list[i] = mem[c].list[i]
    BY <2>4, <2>5, <1>2, OtherEvents
  <2>7. DOMAIN mem'[c].hash = DOMAIN View(c)'
    <3>1. a # NULL
      BY MemoryAssumption DEF NULL
    <3>2. DOMAIN mem'[c].hash = DOMAIN mem[c].hash \ {a}
      BY <2>5, <3>1 DEF Moved, With, Without
    <3> QED
      BY <3>2, <2>4, <1>3
  <2> QED
    BY <2>1, <2>3, <2>6, <2>7, <1>1, <1>3, ValidEvent
<1> QED
  BY <1>2, <1>3, <1>4 DEF FaultsKept

(* An invalid call, of free or realloc, is recorded: its address is known  *)
(* to no context of the program's owner.                                   *)
LEMMA InvalidReported ==
  ASSUME FaultsInv, NEW c \in Ids, NEW a \in Addrs, InvalidFree(c, a) \/ InvalidRealloc(c, a)
  PROVE  FaultsKept
<1>1. /\ Call(c) /\ mode' = mode /\ alive' = alive /\ live' = live /\ a \notin Blocks(c)
      /\ calls' = calls + 1
  BY DEF InvalidFree, InvalidRealloc, Call
<1>2. /\ ProgramInv /\ ContextInv(mem[c]) /\ calls \in Nat /\ Place = calls + 1
      /\ Place \in Nat /\ NULL \in Nat
      /\ faults \in [Ids -> Seq(FaultRecords)] /\ faults[c] \in Seq(FaultRecords)
  BY DEF FaultsInv, ContextsInv, Place, NULL
<1>3. ProgramInv' /\ \A d \in Ids : View(d)' = View(d)
  BY <1>1, <1>2, ViewsStay
<1>4. a \notin DOMAIN View(c)
  BY <1>1 DEF View, ViewIn, OwnIn, Blocks
(* either call has a record, an event and the places of its element *)
<1>5. \E f \in FaultRecords, alloc, realloc \in Nat : \E added :
        /\ f.pointer = a /\ f.place = Place
        /\ f.kind = "free" => alloc = f.place /\ realloc = NULL
        /\ f.kind = "realloc" => alloc = NULL /\ realloc = f.place
        /\ faults' = [faults EXCEPT ![c] = Append(@, f)]
        /\ Treat(c, a, added, {})
        /\ a \notin DOMAIN mem[c].hash => \A moves \in BOOLEAN :
             added[moves] = AddInvalid(mem[c], a, alloc, realloc, moves)
  <2>1. CASE InvalidFree(c, a)
    <3> DEFINE f == [kind |-> "free", pointer |-> a, place |-> Place]
               added == [moves \in BOOLEAN |-> AddFree(mem[c], a, Place, moves)]
    <3>1. faults' = [faults EXCEPT ![c] = Append(@, f)] /\ Treat(c, a, added, {})
      BY <2>1 DEF InvalidFree, Fault
    <3>2. a \notin DOMAIN mem[c].hash => \A moves \in BOOLEAN :
            added[moves] = AddInvalid(mem[c], a, Place, NULL, moves)
      BY DEF AddFree
    <3>3. /\ f \in FaultRecords /\ f.pointer = a /\ f.place = Place /\ f.kind = "free"
      BY <1>2 DEF FaultRecords
    <3> HIDE DEF f, added
    <3> QED
      BY <3>1, <3>2, <3>3, <1>2
  <2>2. CASE InvalidRealloc(c, a)
    <3> DEFINE f == [kind |-> "realloc", pointer |-> a, place |-> Place]
               added == [moves \in BOOLEAN |-> AddRealloc(mem[c], NULL, a, Place, moves)]
    <3>1. faults' = [faults EXCEPT ![c] = Append(@, f)] /\ Treat(c, a, added, {})
      BY <2>2 DEF InvalidRealloc, Fault
    <3>2. a \notin DOMAIN mem[c].hash => \A moves \in BOOLEAN :
            added[moves] = AddInvalid(mem[c], a, NULL, Place, moves)
      BY DEF AddRealloc
    <3>3. /\ f \in FaultRecords /\ f.pointer = a /\ f.place = Place /\ f.kind = "realloc"
      BY <1>2 DEF FaultRecords
    <3> HIDE DEF f, added
    <3> QED
      BY <3>1, <3>2, <3>3, <1>2
  <2> QED
    BY <2>1, <2>2
<1>a. PICK f \in FaultRecords, alloc, realloc \in Nat : \E added :
        /\ f.pointer = a /\ f.place = Place
        /\ f.kind = "free" => alloc = f.place /\ realloc = NULL
        /\ f.kind = "realloc" => alloc = NULL /\ realloc = f.place
        /\ faults' = [faults EXCEPT ![c] = Append(@, f)]
        /\ Treat(c, a, added, {})
        /\ a \notin DOMAIN mem[c].hash => \A moves \in BOOLEAN :
             added[moves] = AddInvalid(mem[c], a, alloc, realloc, moves)
  BY <1>5
<1>6. PICK added :
        /\ f.pointer = a /\ f.place = Place
        /\ f.kind = "free" => alloc = f.place /\ realloc = NULL
        /\ f.kind = "realloc" => alloc = NULL /\ realloc = f.place
        /\ faults' = [faults EXCEPT ![c] = Append(@, f)]
        /\ Treat(c, a, added, {})
        /\ a \notin DOMAIN mem[c].hash => \A moves \in BOOLEAN :
             added[moves] = AddInvalid(mem[c], a, alloc, realloc, moves)
  BY <1>a
<1>7. /\ Append(faults[c], f) \in Seq(FaultRecords)
      /\ Range(Append(faults[c], f)) = Range(faults[c]) \cup {f}
  BY <1>2, FaultAppended
<1>8. /\ faults' \in [Ids -> Seq(FaultRecords)] /\ faults'[c] = Append(faults[c], f)
      /\ \A d \in Ids \ {c} : faults'[d] = faults[d]
  BY <1>2, <1>6, <1>7
<1>9. ASSUME Plain' PROVE \A d \in Ids : Reported(mem'[d], View(d)', Range(faults'[d]), calls')
  <2>1. /\ \A d \in Ids : Reported(mem[d], View(d), Range(faults[d]), calls)
        /\ \A d \in Ids \ {c} : mem'[d] = mem[d]
        /\ \E moves \in BOOLEAN : mem'[c] = added[moves]
    BY <1>1, <1>6, <1>9, PlainTreat
  <2>2. DOMAIN mem[c].hash = DOMAIN View(c) /\ Recorded(mem[c], Range(faults[c]), calls)
    BY <2>1 DEF Reported
  <2>3. PICK moves \in BOOLEAN : mem'[c] = AddInvalid(mem[c], a, alloc, realloc, moves)
    BY <2>1, <2>2, <1>4, <1>6
  <2>4. Charged(mem[c], f.pointer, alloc, realloc, mem'[c])
    BY <2>3, <1>2, <1>6, AddInvalidFacts
  <2> DEFINE m == mem[c]
             r == mem'[c]
             made == Range(faults[c])
  <2>5. /\ ContextInv(m) /\ Recorded(m, made, calls) /\ f.place = calls + 1
        /\ Charged(m, f.pointer, alloc, realloc, r)
        /\ f.kind = "free" => alloc = f.place /\ realloc = NULL
        /\ f.kind = "realloc" => alloc = NULL /\ realloc = f.place
    BY <2>2, <2>4, <1>2, <1>6
  <2>6. Recorded(r, made \cup {f}, calls + 1)
    <3> HIDE DEF m, r, made
    <3> QED
      BY <2>5, <1>2, FaultRecorded
  <2>7. mem'[c].hash = mem[c].hash
    BY <2>4 DEF Charged
  <2>8. Reported(mem'[c], View(c)', Range(faults'[c]), calls')
    BY <2>2, <2>6, <2>7, <1>1, <1>3, <1>7, <1>8 DEF Reported
  <2> QED
    BY <2>1, <2>8, <1>1, <1>3, <1>8, OthersReported
<1> QED
  BY <1>3, <1>8, <1>9 DEF FaultsKept

(* A child knows no address, and its invalid calls are still to come. *)
LEMMA ForkReported ==
  ASSUME FaultsInv, NEW p \in Ids, NEW c \in Ids, Fork(p, c)
  PROVE  FaultsKept
<1>1. /\ mode = "FORK" /\ ~alive[c] /\ alive' = [alive EXCEPT ![c] = TRUE]
      /\ live' = [live EXCEPT ![c] = live[p]] /\ mode' = mode /\ mem' = mem
      /\ odd' = odd /\ crashed' = crashed /\ faults' = faults /\ calls' = calls
  BY DEF Fork
<1>2. ProgramInv' /\ \A d \in Ids : View(d)' = View(d)
  BY ForkViews DEF FaultsInv
<1>3. Plain' => Plain
  BY <1>1 DEF Plain
<1>4. faults' \in [Ids -> Seq(FaultRecords)]
  BY <1>1 DEF FaultsInv
<1> QED
  BY <1>1, <1>2, <1>3, <1>4 DEF FaultsInv, FaultsKept

(* Every step keeps the record of the invalid calls. *)
LEMMA FaultsStep == FaultsInv /\ [Next]_vars => FaultsInv'
<1> SUFFICES ASSUME FaultsInv, [Next]_vars PROVE FaultsInv'
  OBVIOUS
<1>1. ContextsInv'
  BY ContextsStep DEF FaultsInv
<1>2. SUFFICES FaultsKept
  BY <1>1 DEF FaultsInv, FaultsKept
(* calls that the manager takes for something else *)
<1>3. ASSUME NEW c \in Ids, NEW a \in Addrs, ReallocNull(c, a) PROVE FaultsKept
  <2>1. /\ Call(c) /\ a \notin Blocks(c) /\ faults' = faults
        /\ live' = [live EXCEPT ![Space(c)][a] = [alloc |-> Place, realloc |-> NULL, by |-> c]]
    BY <1>3 DEF ReallocNull
  <2>2. alive[c] /\ mode' = mode /\ alive' = alive
    BY <2>1 DEF Call
  <2>3. ProgramInv /\ calls \in Nat
    BY DEF FaultsInv, ContextsInv
  <2>4. ProgramInv'
    BY <2>1, <2>2, <2>3, Allocates
  <2>5. crashed' = TRUE \/ "realloc null" \in odd'
    BY <1>3 DEF ReallocNull, Treat
  <2> QED
    BY <2>1, <2>4, <2>5 DEF FaultsKept, FaultsInv, Plain
<1>4. ASSUME NEW c \in Ids, NEW oddity, oddity \in {"fail", "free null"},
             crashed' = TRUE \/ oddity \in odd', Call(c), live' = live, faults' = faults
      PROVE  FaultsKept
  <2>1. ProgramInv'
    BY <1>4, ViewsStay DEF FaultsInv, Call
  <2>2. ~Plain'
    BY <1>4 DEF Plain
  <2> QED
    BY <1>4, <2>1, <2>2 DEF FaultsKept, FaultsInv
<1>5. ASSUME NEW c \in Ids, NEW a \in Addrs, ReallocFails(c, a) PROVE FaultsKept
  <2>1. Call(c) /\ live' = live /\ faults' = faults
    BY <1>5 DEF ReallocFails
  <2>2. crashed' = TRUE \/ "fail" \in odd'
    BY <1>5 DEF ReallocFails, Treat
  <2> QED
    BY <2>1, <2>2, <1>4
<1>6. ASSUME NEW c \in Ids, FreeNull(c) PROVE FaultsKept
  <2>1. Call(c) /\ live' = live /\ faults' = faults
        /\ (crashed' = TRUE \/ "free null" \in odd')
    BY <1>6 DEF FreeNull, Treat
  <2> QED
    BY <2>1, <1>4
<1>7. ASSUME NEW c \in Ids, ListLost(c) PROVE FaultsKept
  <2>1. /\ live' = live /\ mode' = mode /\ alive' = alive /\ crashed' = TRUE /\ faults' = faults
    BY <1>7 DEF ListLost, Call
  <2> QED
    BY <2>1, ViewsStay DEF FaultsKept, FaultsInv, Plain
<1>8. CASE UNCHANGED vars
  <2>1. /\ live' = live /\ mode' = mode /\ alive' = alive /\ mem' = mem /\ calls' = calls
        /\ odd' = odd /\ crashed' = crashed /\ faults' = faults
    BY <1>8 DEF vars
  <2>2. Plain' => Plain
    BY <2>1 DEF Plain
  <2> QED
    BY <2>1, <2>2, ViewsStay DEF FaultsKept, FaultsInv
<1> QED
  BY <1>3, <1>5, <1>6, <1>7, <1>8, MallocReported, FreeReported, ReallocReported, ZeroReported,
     InvalidReported, ForkReported DEF Next

(* The elements that fc_context_save takes for invalid calls. *)
LEMMA SavedInvalids ==
  ASSUME NEW m, NEW made, NEW n, Recorded(m, made, n)
  PROVE  /\ SavedFrees(m) = {i \in Invalids(m) : m.list[i].alloc # NULL}
         /\ AnnouncedFrees(m) = {i \in Invalids(m) : m.list[i].realloc = NULL}
         /\ SavedReallocs(m) = {i \in Invalids(m) : m.list[i].realloc # NULL}
         /\ \A i \in Invalids(m), f \in made : Fits(m.list[i], f) =>
              /\ f.kind = "free" <=> m.list[i].alloc # NULL
              /\ f.kind = "free" <=> m.list[i].realloc = NULL
              /\ f.kind = "realloc" <=> m.list[i].realloc # NULL
<1>1. \A i \in Invalids(m) : m.list[i].set
  BY DEF Recorded, Fits
<1>2. \A f \in made : f.kind \in {"free", "realloc"} /\ f.place # NULL
  BY DEF Recorded, FaultRecords, NULL
<1> QED
  BY <1>1, <1>2 DEF SavedFrees, AnnouncedFrees, SavedReallocs, Used, Invalids, Fits

(* The invalid calls saved (fc_context_save) are those that the program    *)
(* has made, once each and in their order, and the number of the invalid   *)
(* frees is announced right, unless a call of another kind was taken for   *)
(* one, also after a realloc to 0, as long as no pointer into a list that  *)
(* was moved is used.                                                      *)
THEOREM InvalidCallsAreExact == Spec => []InvalidExact
<1>1. FaultsInv => InvalidExact
  <2> SUFFICES ASSUME FaultsInv, Plain, NEW c \in Ids
               PROVE  LET list == mem[c].list
                          frees == SavedFrees(mem[c])
                          reallocs == SavedReallocs(mem[c])
                          called(kind) ==
                            {<<f.pointer, f.place>> :
                               f \in {g \in Range(faults[c]) : g.kind = kind}}
                      IN  /\ AnnouncedFrees(mem[c]) = frees
                          /\ {<<list[i].pointer, list[i].alloc>> : i \in frees} = called("free")
                          /\ {<<list[i].pointer, list[i].realloc>> : i \in reallocs}
                               = called("realloc")
                          /\ \A i, j \in frees : i < j => list[i].alloc < list[j].alloc
                          /\ \A i, j \in reallocs : i < j => list[i].realloc < list[j].realloc
    BY DEF InvalidExact, Plain
  <2> DEFINE m == mem[c]
             made == Range(faults[c])
             called(kind) == {<<f.pointer, f.place>> : f \in {g \in made : g.kind = kind}}
  <2>1. Recorded(m, made, calls)
    BY DEF FaultsInv, Reported
  <2> HIDE DEF m, made
  <2>2. /\ SavedFrees(m) = {i \in Invalids(m) : m.list[i].alloc # NULL}
        /\ AnnouncedFrees(m) = {i \in Invalids(m) : m.list[i].realloc = NULL}
        /\ SavedReallocs(m) = {i \in Invalids(m) : m.list[i].realloc # NULL}
        /\ \A i \in Invalids(m), f \in made : Fits(m.list[i], f) =>
             /\ f.kind = "free" <=> m.list[i].alloc # NULL
             /\ f.kind = "free" <=> m.list[i].realloc = NULL
             /\ f.kind = "realloc" <=> m.list[i].realloc # NULL
    BY <2>1, SavedInvalids
  <2>3. \A i \in Invalids(m) : \E f \in made : Fits(m.list[i], f)
    BY <2>1 DEF Recorded
  <2>4. \A f \in made : \E i \in Invalids(m) : Fits(m.list[i], f)
    BY <2>1 DEF Recorded
  <2>5. AnnouncedFrees(m) = SavedFrees(m)
    BY <2>2, <2>3
  (* an element stands for its call *)
  <2>6. ASSUME NEW i \in SavedFrees(m)
        PROVE  \E f \in made : /\ f.kind = "free" /\ Fits(m.list[i], f)
                               /\ m.list[i].pointer = f.pointer /\ m.list[i].alloc = f.place
    BY <2>2, <2>3 DEF Fits
  <2>7. ASSUME NEW i \in SavedReallocs(m)
        PROVE  \E f \in made : /\ f.kind = "realloc" /\ Fits(m.list[i], f)
                               /\ m.list[i].pointer = f.pointer /\ m.list[i].realloc = f.place
    BY <2>2, <2>3 DEF Fits
  (* a call has its element *)
  <2>8. ASSUME NEW f \in made, f.kind = "free"
        PROVE  \E i \in SavedFrees(m) : m.list[i].pointer = f.pointer /\ m.list[i].alloc = f.place
    BY <2>2, <2>4, <2>8 DEF Fits
  <2>9. ASSUME NEW f \in made, f.kind = "realloc"
        PROVE  \E i \in SavedReallocs(m) :
                 m.list[i].pointer = f.pointer /\ m.list[i].realloc = f.place
    BY <2>2, <2>4, <2>9 DEF Fits
  <2>10. {<<m.list[i].pointer, m.list[i].alloc>> : i \in SavedFrees(m)} = called("free")
    BY <2>6, <2>8
  <2>11. {<<m.list[i].pointer, m.list[i].realloc>> : i \in SavedReallocs(m)} = called("realloc")
    BY <2>7, <2>9
  <2>12. \A i, j \in Invalids(m), f, g \in made :
           i < j /\ Fits(m.list[i], f) /\ Fits(m.list[j], g) => f.place < g.place
    BY <2>1 DEF Recorded
  <2>13. SavedFrees(m) \subseteq Invalids(m) /\ SavedReallocs(m) \subseteq Invalids(m)
    BY <2>2
  <2>14. \A i, j \in SavedFrees(m) : i < j => m.list[i].alloc < m.list[j].alloc
    BY <2>6, <2>12, <2>13
  <2>15. \A i, j \in SavedReallocs(m) : i < j => m.list[i].realloc < m.list[j].realloc
    BY <2>7, <2>12, <2>13
  <2> QED
    BY <2>5, <2>10, <2>11, <2>14, <2>15 DEF m, made
<1> QED
  BY <1>1, FaultsInitially, FaultsStep, PTL DEF Spec
=============================================================================

------------------------------ MODULE FcXHash ------------------------------
(***************************************************************************)
(* The hash-table of fc_xhash.c (and of fc_xlhash.c, the same text for     *)
(* other values), where the manager keeps call arcs and memory blocks.     *)
(*                                                                         *)
(* A bucket is a chain of nodes; nodes come from a free list, which grows  *)
(* by blocks, and go back to it; the table is re-hashed when it is loaded. *)
(* A node is its address, a chain or the free list the sequence of its     *)
(* nodes (the fields next and fnext).  Not modelled: nb_rnodes, which      *)
(* nobody reads, and the value's three parts, which move together.         *)
(***************************************************************************)
EXTENDS Integers, SequencesExt

CONSTANTS
  Keys,        \* addresses, NULL left out: it is refused everywhere
  Vals,        \* what is kept with a key
  Primes,      \* fc_primes: sizes of the table, increasing
  FirstBlock,  \* 64 in the code: nodes allocated with the table
  MaxAdd       \* FC_HASH_MAX_ADD: blocks of nodes it may add

ASSUME XHashAssumption ==
  /\ Keys \subseteq Nat \ {0}
  /\ Primes \in Seq(Nat \ {0}) /\ Len(Primes) > 0
  /\ \A i, j \in 1 .. Len(Primes) : i < j => Primes[i] < Primes[j]
  /\ FirstBlock \in Nat \ {0} /\ MaxAdd \in Nat

VARIABLES
  nodes,          \* the chains, one per bucket
  key, value,     \* the contents of the nodes, NULL (0) when free
  free,           \* the free list, from free_entry on
  nb,             \* the number of elements
  max_rnodes,     \* half of the nodes that the next block will have
  nb_add_rnodes,  \* blocks added
  state           \* "ready", or "destroyed"

vars == <<nodes, key, value, free, nb, max_rnodes, nb_add_rnodes, state>>

NULL == 0

(* Each block has twice the nodes of max_rnodes, which doubles: these are  *)
(* the nodes of the first block and of those added to it.                  *)
Allocated == 2 * max_rnodes - FirstBlock

(* fc_hash_new *)
Init ==
  /\ nodes = [b \in 1 .. Primes[1] |-> <<>>]
  /\ key = [n \in 1 .. FirstBlock |-> NULL]
  /\ value = [n \in 1 .. FirstBlock |-> NULL]
  /\ free = [n \in 1 .. FirstBlock |-> n]
  /\ nb = 0 /\ max_rnodes = FirstBlock /\ nb_add_rnodes = 0
  /\ state = "ready"

Index(k, size) == (k % size) + 1
Bucket(k) == Index(k, Len(nodes))

(* fc_hash_lookup_node: the first node of the chain with that key *)
Place(k) == SelectInSeq(nodes[Bucket(k)], LAMBDA n : key[n] = k)
LookupNode(k) == IF Place(k) = 0 THEN NULL ELSE nodes[Bucket(k)][Place(k)]

(* fc_hash_get_a_node: the free list never stays empty *)
NextFree ==
  IF Len(free) > 1 THEN Tail(free)
  ELSE [n \in 1 .. 2 * max_rnodes |-> Allocated + n]

(* the loop of fc_hash_foreach, and the order of the re-hash *)
Foreach(chains) == FlattenSeq(chains)

(* fc_spaced_primes_closest *)
NextSize(size) ==
  LET larger == {i \in 1 .. Len(Primes) : Primes[i] > size}
  IN  Primes[IF larger = {} THEN Len(Primes) ELSE Min(larger)]

(* fc_hash_insert_known: the node goes to the end of its chain *)
AddLast(chains, n, b) == [chains EXCEPT ![b] = Append(@, n)]

(* a bug: the nodes stay where the old size put them *)
IncreaseSize_OldIndex(chains, keys) ==
  LET all == Foreach(chains)
      new_nodes[i \in 0 .. Len(all)] ==
        IF i = 0 THEN [b \in 1 .. NextSize(Len(chains)) |-> <<>>]
        ELSE AddLast(new_nodes[i - 1], all[i], Index(keys[all[i]], Len(chains)))
  IN  new_nodes[Len(all)]

(* fc_hash_increase_size: node after node goes to its chain in the new     *)
(* table                                                                   *)
IncreaseSize(chains, keys) ==
  LET all == Foreach(chains)
      size == NextSize(Len(chains))
      new_nodes[i \in 0 .. Len(all)] ==
        IF i = 0 THEN [b \in 1 .. size |-> <<>>]
        ELSE AddLast(new_nodes[i - 1], all[i], Index(keys[all[i]], size))
  IN  new_nodes[Len(all)]

(* (float) nb / size > 0.85 *)
Loaded(n, size) == 100 * n > 85 * size

------------------------------------------------------------------------------
(* a bug: a key that is there gets one more node *)
InsertKnown_NewNode(k, v) ==
  /\ state = "ready" /\ LookupNode(k) # NULL /\ Len(free) > 1
  /\ nodes' = [nodes EXCEPT ![Bucket(k)] = <<Head(free)>> \o @]
  /\ key' = [key EXCEPT ![Head(free)] = k]
  /\ value' = [value EXCEPT ![Head(free)] = v]
  /\ free' = Tail(free) /\ nb' = nb + 1
  /\ UNCHANGED <<max_rnodes, nb_add_rnodes, state>>

(* fc_hash_insert of a key that is there, and a change of what it holds    *)
(* through the pointers of fc_hash_lookup_modify                           *)
InsertKnown(k, v) ==
  /\ state = "ready" /\ LookupNode(k) # NULL
  /\ value' = [value EXCEPT ![LookupNode(k)] = v]
  /\ UNCHANGED <<nodes, key, free, nb, max_rnodes, nb_add_rnodes, state>>

(* fc_hash_insert of a new key *)
Insert(k, v) ==
  /\ state = "ready" /\ LookupNode(k) = NULL
  /\ Len(free) > 1 \/ nb_add_rnodes < MaxAdd
  /\ LET node == Head(free)
         chains == AddLast(nodes, node, Bucket(k))
     IN  /\ free' = NextFree
         /\ IF Len(free) > 1 THEN UNCHANGED <<max_rnodes, nb_add_rnodes>>
            ELSE max_rnodes' = 2 * max_rnodes /\ nb_add_rnodes' = nb_add_rnodes + 1
         /\ key' = [n \in 1 .. Allocated' |->
                      IF n = node THEN k ELSE IF n <= Allocated THEN key[n] ELSE NULL]
         /\ value' = [n \in 1 .. Allocated' |->
                        IF n = node THEN v ELSE IF n <= Allocated THEN value[n] ELSE NULL]
         /\ nb' = nb + 1
         /\ nodes' = IF Loaded(nb', Len(nodes)) THEN IncreaseSize(chains, key') ELSE chains
  /\ UNCHANGED state

(* No more block, or no memory for it, when the last free node is taken:   *)
(* the table is destroyed, and used all the same by fc_hash_insert.        *)
InsertFails(k) ==
  /\ state = "ready" /\ LookupNode(k) = NULL
  /\ Len(free) = 1
  /\ state' = "destroyed"
  /\ UNCHANGED <<nodes, key, value, free, nb, max_rnodes, nb_add_rnodes>>

(* a bug: the node is lost *)
RemoveKey_Leak(k) ==
  /\ state = "ready" /\ LookupNode(k) # NULL
  /\ LET node == LookupNode(k) IN
       /\ nodes' = [nodes EXCEPT ![Bucket(k)] = RemoveAt(@, Place(k))]
       /\ key' = [key EXCEPT ![node] = NULL]
  /\ nb' = nb - 1
  /\ UNCHANGED <<value, free, max_rnodes, nb_add_rnodes, state>>

(* fc_hash_remove, of a key that is there *)
RemoveKey(k) ==
  /\ state = "ready" /\ LookupNode(k) # NULL
  /\ LET node == LookupNode(k) IN
       /\ nodes' = [nodes EXCEPT ![Bucket(k)] = RemoveAt(@, Place(k))]
       /\ free' = <<node>> \o free
       /\ key' = [key EXCEPT ![node] = NULL]
  /\ nb' = nb - 1
  /\ UNCHANGED <<value, max_rnodes, nb_add_rnodes, state>>

Next == \E k \in Keys :
  \/ RemoveKey(k) \/ InsertFails(k)
  \/ \E v \in Vals : InsertKnown(k, v) \/ Insert(k, v)

Spec == Init /\ [][Next]_vars

------------------------------------------------------------------------------
TypeOK ==
  /\ Len(nodes) \in {Primes[i] : i \in 1 .. Len(Primes)}
  /\ nodes \in Seq(Seq(1 .. Allocated)) /\ free \in Seq(1 .. Allocated)
  /\ key \in [1 .. Allocated -> Keys \cup {NULL}]
  /\ value \in [1 .. Allocated -> Vals \cup {NULL}]
  /\ nb \in Nat /\ max_rnodes \in Nat
  /\ nb_add_rnodes \in 0 .. MaxAdd /\ state \in {"ready", "destroyed"}

(* Through any sequence of inserts, removals and re-hashes, what a lookup  *)
(* finds is what was inserted last and not removed since.                  *)
Map == INSTANCE FcMap WITH
         map <- [k \in {k \in Keys : LookupNode(k) # NULL} |-> value[LookupNode(k)]]
MapImplemented == Map!Spec

(* No node is lost and none is used twice: each one ever allocated is in   *)
(* one chain or in the free list, once; the types are right as well.       *)
(* fc_hash_foreach, with which the profile is saved, comes to every key    *)
(* that a lookup finds, once, and fc_hash_size is their number.            *)
NodesShared ==
  LET every == Foreach(nodes) \o free
      visited == [i \in DOMAIN Foreach(nodes) |-> key[Foreach(nodes)[i]]]
  IN  /\ TypeOK
      /\ Len(every) = Allocated /\ Range(every) = 1 .. Allocated
      /\ Range(visited) = {k \in Keys : LookupNode(k) # NULL}
      /\ Cardinality(Range(visited)) = Len(visited)
      /\ nb = Len(visited)

(* Pointers from fc_hash_lookup_modify stay good as long as their key is   *)
(* in the table: no operation, not even a re-hash, moves a node (more than *)
(* its WARNING promises).                                                  *)
NodesStay ==
  [][\A k \in Keys : LookupNode(k) # NULL /\ LookupNode(k)' # NULL
                       => LookupNode(k)' = LookupNode(k)]_vars
=============================================================================

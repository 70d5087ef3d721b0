----------------------------- MODULE HashTable ------------------------------
(***************************************************************************)
(* src/vm/hash.c: chains of nodes, in an array that grows with them.       *)
(*                                                                         *)
(* A key is a pointer.  Name[k] is what the equal function compares: the   *)
(* text k points to for symbols and natives (string_equal), k itself for   *)
(* old_map and libraries (direct_equal).  Every table of the VM has an     *)
(* equal function.                                                         *)
(*                                                                         *)
(* A lookup and an insertion are one step each.  The resize that an        *)
(* insertion may end with takes one step per node; nobody uses the table   *)
(* meanwhile.                                                              *)
(***************************************************************************)
EXTENDS Integers, FiniteSets, SequencesExt

CONSTANTS
  Keys, Values,
  NULL,               \* what a failed lookup returns; no call yet
  Names, Name, Hash,  \* of the keys
  Primes,             \* sizes of tables, in increasing order
  MinSize, MaxSize    \* HASH_TABLE_MIN_SIZE, HASH_TABLE_MAX_SIZE

\* Keys that are equal have equal hashes.
ASSUME KeysAssumption ==
  /\ Name \in [Keys -> Names] /\ Hash \in [Keys -> Nat]
  /\ \A j, k \in Keys : Name[j] = Name[k] => Hash[j] = Hash[k]

ASSUME ValuesAssumption == NULL \notin Values

\* Each size is less than three times the one before it.
ASSUME PrimesAssumption ==
  /\ Primes \in Seq(Nat \ {0}) /\ Primes # <<>>
  /\ \A i, j \in 1..Len(Primes) : i < j => Primes[i] < Primes[j]
  /\ \A i \in 2..Len(Primes) : Primes[i] < 3 * Primes[i - 1]
  /\ MinSize = Primes[1] /\ MaxSize = Primes[Len(Primes)]

VARIABLES
  size, nnodes, nodes,   \* hash_table_t
  last,                  \* the last call, as in Mapping
  resizing,              \* in hash_table_resize, with its locals
  new_size, new_nodes, i

table == <<size, nnodes, nodes>>
locals == <<resizing, new_size, new_nodes, i>>
vars == <<table, locals, last>>

Node == [key : Keys, val : Values, key_hash : Nat]

Called(op, key, v) == [op |-> op, name |-> Name[key], val |-> v]
Calls == [op : {"lookup", "insert"}, name : Names, val : Values \cup {NULL}]

Empty(n) == [b \in 0 .. n - 1 |-> <<>>]

-----------------------------------------------------------------------------

\* The smallest of the sizes above num, or the largest of all.
spaced_primes_closest(num) ==
  IF \E j \in DOMAIN Primes : Primes[j] > num
  THEN Primes[CHOOSE j \in DOMAIN Primes :
                Primes[j] > num /\ \A m \in 1 .. j - 1 : Primes[m] <= num]
  ELSE Primes[Len(Primes)]

Clamp(x) == IF x > MaxSize THEN MaxSize ELSE IF x < MinSize THEN MinSize ELSE x

\* Mutant: grows one node later.
MaybeResizeLate(s, n) ==
  \/ s >= 3 * n /\ s > MinSize
  \/ 3 * s < n /\ s < MaxSize

MaybeResize(s, n) ==
  \/ s >= 3 * n /\ s > MinSize
  \/ 3 * s <= n /\ s < MaxSize

\* Mutant: an equal hash is enough.
MatchesHash(node, key) == node.key_hash = Hash[key]

Matches(node, key) == node.key_hash = Hash[key] /\ Name[node.key] = Name[key]

Bucket(key) == Hash[key] % size

\* hash_table_lookup_node: the first place in the chain, or 0.
LookupNode(key) ==
  LET chain == nodes[Bucket(key)]
      found == {p \in DOMAIN chain : Matches(chain[p], key)}
  IN  IF found = {} THEN 0 ELSE CHOOSE p \in found : \A q \in found : p <= q

Init ==
  /\ size = MinSize /\ nnodes = 0 /\ nodes = Empty(MinSize)
  /\ resizing = FALSE /\ new_size = MinSize /\ new_nodes = Empty(MinSize) /\ i = 0
  /\ last = NULL

Lookup(key) ==
  /\ ~resizing
  /\ LET p == LookupNode(key)
     IN  last' = Called("lookup", key, IF p = 0 THEN NULL ELSE nodes[Bucket(key)][p].val)
  /\ UNCHANGED <<table, locals>>

\* The key is there: it stays, with another value.
Replace(key, val) ==
  /\ ~resizing
  /\ LookupNode(key) # 0
  /\ nodes' = [nodes EXCEPT ![Bucket(key)][LookupNode(key)].val = val]
  /\ last' = Called("insert", key, val)
  /\ UNCHANGED <<size, nnodes, locals>>

StartResize(n) ==
  /\ resizing' = TRUE /\ i' = 0
  /\ new_size' = Clamp(spaced_primes_closest(n))
  /\ new_nodes' = Empty(new_size')

\* The key is new: a node at the end of the chain.
Add(key, val) ==
  /\ ~resizing
  /\ LookupNode(key) = 0
  /\ nodes' = [nodes EXCEPT ![Bucket(key)] =
                 Append(@, [key |-> key, val |-> val, key_hash |-> Hash[key]])]
  /\ nnodes' = nnodes + 1
  /\ IF MaybeResize(size, nnodes') THEN StartResize(nnodes') ELSE UNCHANGED locals
  /\ last' = Called("insert", key, val)
  /\ UNCHANGED size

-----------------------------------------------------------------------------
(* hash_table_resize.                                                      *)

\* Mutant: the chain of the old size.
MoveNodeOldSize ==
  /\ resizing /\ i < size /\ nodes[i] # <<>>
  /\ LET node == Head(nodes[i])
     IN  new_nodes' = [new_nodes EXCEPT ![(node.key_hash % size) % new_size] = <<node>> \o @]
  /\ nodes' = [nodes EXCEPT ![i] = Tail(@)]
  /\ UNCHANGED <<size, nnodes, resizing, new_size, i, last>>

\* Mutant: the chain that was there is lost.
MoveNodeAlone ==
  /\ resizing /\ i < size /\ nodes[i] # <<>>
  /\ LET node == Head(nodes[i])
     IN  new_nodes' = [new_nodes EXCEPT ![node.key_hash % new_size] = <<node>>]
  /\ nodes' = [nodes EXCEPT ![i] = Tail(@)]
  /\ UNCHANGED <<size, nnodes, resizing, new_size, i, last>>

\* A node goes to the front of its new chain.
MoveNode ==
  /\ resizing /\ i < size /\ nodes[i] # <<>>
  /\ LET node == Head(nodes[i])
     IN  new_nodes' = [new_nodes EXCEPT ![node.key_hash % new_size] = <<node>> \o @]
  /\ nodes' = [nodes EXCEPT ![i] = Tail(@)]
  /\ UNCHANGED <<size, nnodes, resizing, new_size, i, last>>

\* Mutant: only the first node of a chain is moved.
NextChainEarly ==
  /\ resizing /\ i < size
  /\ i' = i + 1
  /\ UNCHANGED <<table, resizing, new_size, new_nodes, last>>

NextChain ==
  /\ resizing /\ i < size /\ nodes[i] = <<>>
  /\ i' = i + 1
  /\ UNCHANGED <<table, resizing, new_size, new_nodes, last>>

NoResize ==
  resizing' = FALSE /\ new_size' = MinSize /\ new_nodes' = Empty(MinSize) /\ i' = 0

\* Mutant: the size stays.
ResizedSizeKept ==
  /\ resizing /\ i = size
  /\ nodes' = new_nodes
  /\ NoResize
  /\ UNCHANGED <<size, nnodes, last>>

Resized ==
  /\ resizing /\ i = size
  /\ nodes' = new_nodes /\ size' = new_size
  /\ NoResize
  /\ UNCHANGED <<nnodes, last>>

\* hash_table_destroy, and hash_table_init of the next old_map.
Destroy ==
  /\ ~resizing
  /\ size' = MinSize /\ nnodes' = 0 /\ nodes' = Empty(MinSize)
  /\ last' = NULL
  /\ UNCHANGED locals

Next ==
  \/ \E key \in Keys : Lookup(key) \/ \E val \in Values : Replace(key, val) \/ Add(key, val)
  \/ MoveNode \/ NextChain \/ Resized
  \/ Destroy

Spec == Init /\ [][Next]_vars

-----------------------------------------------------------------------------

\* An array has a chain for each remainder (src/vm/hash.c:156).
TypeOK ==
  /\ size \in Nat \ {0} /\ nnodes \in Nat
  /\ nodes \in [0 .. size - 1 -> Seq(Node)]
  /\ resizing \in BOOLEAN /\ i \in 0..size
  /\ new_size \in Nat \ {0}
  /\ new_nodes \in [0 .. new_size - 1 -> Seq(Node)]
  /\ last \in Calls \cup {NULL}

\* In an array of n chains a node is in the one that its hash leads to.
InPlace(array, n) ==
  \A b \in 0 .. n - 1 : \A p \in DOMAIN array[b] :
    /\ array[b][p].key_hash = Hash[array[b][p].key]
    /\ array[b][p].key_hash % n = b

\* No two nodes of an array have equal keys.
Distinct(array, n) ==
  \A a, b \in 0 .. n - 1 : \A p \in DOMAIN array[a], q \in DOMAIN array[b] :
    Name[array[a][p].key] = Name[array[b][q].key] => a = b /\ p = q

\* No node of the one array has the key of a node of the other.
Apart(array, n, other, m) ==
  \A a \in 0 .. n - 1, b \in 0 .. m - 1 :
    \A p \in DOMAIN array[a], q \in DOMAIN other[b] :
      Name[array[a][p].key] # Name[other[b][q].key]

\* A key has at most one node, in the chain where a lookup will search for
\* it.  In the middle of a resize this holds of the array that is being
\* emptied and of the one that is being filled, together
\* (src/vm/hash.c:126-134).
Placed ==
  /\ InPlace(nodes, size) /\ Distinct(nodes, size)
  /\ InPlace(new_nodes, new_size) /\ Distinct(new_nodes, new_size)
  /\ Apart(nodes, size, new_nodes, new_size)

\* Where an array of n chains has nodes.
Places(array, n) == UNION {{b} \X DOMAIN array[b] : b \in 0 .. n - 1}

\* No resize loses a node or counts one twice (src/vm/hash.c:204).
Counted ==
  nnodes = Cardinality(Places(nodes, size)) + Cardinality(Places(new_nodes, new_size))

\* Chains hold less than three nodes on average, until the largest size is
\* reached, and a table is never so large that it would shrink: the branch for
\* that in hash_table_maybe_resize is there for removals, which there are none
\* of (src/vm/hash.c:146).
LoadBounded ==
  ~resizing =>
    /\ nnodes < 3 * size \/ size = MaxSize
    /\ size < 3 * nnodes \/ size = MinSize

-----------------------------------------------------------------------------

\* A node of the array maps the name to v.
Binds(array, n, name, v) ==
  \E b \in 0 .. n - 1 : \E p \in DOMAIN array[b] :
    Name[array[b][p].key] = name /\ array[b][p].val = v

\* What two arrays together map every name to.
ContentsOf(array, n, other, m) ==
  LET bound(name, v) == Binds(array, n, name, v) \/ Binds(other, m, name, v)
  IN  [name \in Names |-> IF \E v \in Values : bound(name, v)
                          THEN CHOOSE v \in Values : bound(name, v) ELSE NULL]

Contents == ContentsOf(nodes, size, new_nodes, new_size)

Map == INSTANCE Mapping WITH map <- Contents

\* The table is a map: insertions change one name, resizes none, and a lookup
\* finds what was last inserted under a name, whatever pointers it is given for
\* it (src/vm/hash.c:179-207).
Implements == Map!Spec

-----------------------------------------------------------------------------
(* The inductive invariant.                                                *)

InRange(n) == MinSize <= n /\ n <= MaxSize

\* The load after a resize, be it over or not.
Load(n) ==
  /\ nnodes < 3 * n \/ n = MaxSize
  /\ n < 3 * nnodes \/ n = MinSize

\* Chains before i have been emptied; outside a resize there is no second
\* array.
Control ==
  /\ InRange(size) /\ InRange(new_size)
  /\ IF resizing THEN Load(new_size) /\ \A b \in 0 .. i - 1 : nodes[b] = <<>>
     ELSE Load(size) /\ new_size = MinSize /\ new_nodes = Empty(MinSize) /\ i = 0

IInv == TypeOK /\ Placed /\ Control
=============================================================================

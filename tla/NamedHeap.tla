------------------------------ MODULE NamedHeap ------------------------------
(***************************************************************************)
(* The collector as an implementation of ObjectStore: to the program no    *)
(* object ever moves.  The history variable name gives every block the     *)
(* name of the object in it; a collection carries the names from the       *)
(* blocks that it found to those that it leaves.  No guard reads it.  This *)
(* is Heap as long as it is not tainted.                                   *)
(***************************************************************************)
EXTENDS HeapInv

VARIABLE name

namedVars == <<vars, name>>

Kept(a) == Allocated(a) /\ ~InFrom(a)

\* A name that no block has.
Unused == CHOOSE o \in Addrs : \A a \in Addrs : name[a] # o

\* At the end of a collection a block that is kept has the name of the object
\* that was copied to it; a new block has a new name.
Renamed ==
  IF pc = "finish" THEN [a \in Addrs |-> IF Kept(a) THEN name[id[a]] ELSE 0]
  ELSE IF blocks'["fresh"] > blocks["fresh"]
  THEN [name EXCEPT ![At("fresh", blocks'["fresh"])] = Unused]
  ELSE name

NamedInit == Init /\ name = [a \in Addrs |-> 0]

NamedNext == Next /\ ~tainted' /\ name' = Renamed

NamedSpec == NamedInit /\ [][NamedNext]_namedVars

-----------------------------------------------------------------------------
\* A naming nm makes objects of blocks, and a heap of objects of the words w
\* that the blocks have.
NamedIn(nm) == {a \in Addrs : nm[a] # 0}
NameIn(nm, v) == IF v = 0 THEN 0 ELSE nm[v]
Holder(nm, o) == CHOOSE a \in NamedIn(nm) : nm[a] = o

WordsIn(nm, w) ==
  [o \in {nm[a] : a \in NamedIn(nm)} |->
     [g \in Fields |-> NameIn(nm, w[Holder(nm, o)][g])]]
RootsIn(nm, rs) == [r \in Roots |-> NameIn(nm, rs[r])]

\* The program sees the heap as it is, and during a collection, when it does
\* not run, as it was when the collection began.
Running == pc \in {"run", "resume"}

O == INSTANCE ObjectStore
       WITH Objects <- Addrs,
            words <- WordsIn(name, IF Running THEN fld ELSE graph),
            root <- RootsIn(name, IF Running THEN roots ELSE groots)

\* For the program a collection is nothing but the disappearance of objects
\* that it could not reach: whatever it then creates, loads, stores or
\* compares is what it would be if blocks never moved (heap_alloc, heap_gc).
Implements == O!Spec

\* A name has one block at most.
Naming(nm) ==
  /\ nm \in [Addrs -> Values]
  /\ \A a, b \in NamedIn(nm) : nm[a] = nm[b] => a = b

\* No two blocks have one name, the allocated blocks are those that have one,
\* and in a collection every copy and every recorded word leads to a name
\* (heap_mark).
NameInv ==
  /\ Naming(name)
  /\ Running => NamedIn(name) = {a \in Addrs : Allocated(a)}
  /\ ~Running =>
       /\ \A r \in Roots : groots[r] \in NamedIn(name) \cup {0}
       /\ \A a \in NamedIn(name), g \in Fields : graph[a][g] \in NamedIn(name) \cup {0}
       /\ \A a \in Addrs : id[a] \in NamedIn(name) \cup {0}
=============================================================================

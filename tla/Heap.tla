-------------------------------- MODULE Heap --------------------------------
(***************************************************************************)
(* The generational collector of src/vm/heap.c, one step per slot that     *)
(* heap_mark visits.                                                       *)
(*                                                                         *)
(* Memory is four spaces of unit-size blocks: fresh, the two survived      *)
(* semi-spaces and old.  An address is a positive number, the spaces are   *)
(* adjacent ranges of addresses and 0 stands for any word that is not a    *)
(* heap pointer.  A block is a header (fwd, gen, rem) and NFields payload  *)
(* words (fld), each kept as an array over all addresses; as in the code,  *)
(* the forwarding address of a moved block overwrites its first word.      *)
(*                                                                         *)
(* The registers of the C functions (loop indices, scan_cont_t, the heap   *)
(* flags) are variables, because their values between two visits are what  *)
(* decides whether the collector is right.                                 *)
(*                                                                         *)
(* Ghost state, which no guard reads: a collection begins by naming every  *)
(* object after the block it occupies (id) and by recording the words of   *)
(* every object and every root (graph, groots), so that what it leaves     *)
(* behind can be compared with what it found; tainted records that a full  *)
(* collection has met one of the two defects described at Tainting below.  *)
(***************************************************************************)
EXTENDS Integers, Sequences, FiniteSets

CONSTANTS
  FreshSize,      \* FRESH_SIZE, in blocks
  SurvivedSize,   \* SURVIVED_SIZE, in blocks
  OldSize,        \* OLD_SIZE, in blocks
  PromoteGen,     \* the generation that is moved to old space: 3 in the code
  NFields,        \* pointer words of a block
  NRoots,         \* root slots that thread_get_roots visits
  NULL            \* heap->old_map before and after a full collection

ASSUME SizesAssumption ==
  /\ FreshSize \in Nat \ {0}
  /\ SurvivedSize \in Nat \ {0}
  /\ OldSize \in Nat \ {0}
  /\ OldSize >= SurvivedSize

ASSUME ShapeAssumption ==
  /\ PromoteGen \in Nat \ {0}
  /\ NFields \in Nat \ {0}
  /\ NRoots \in Nat \ {0}

\* NULL is not a map.
ASSUME NullAssumption ==
  \A D \in SUBSET (1..(FreshSize + 2 * SurvivedSize + OldSize)) :
    NULL \notin [D -> 1..(FreshSize + 2 * SurvivedSize + OldSize)]

Fields == 1..NFields
Roots == 1..NRoots

Spaces == {"fresh", "surv0", "surv1", "old"}

\* space_t.size and the address just below space_t.mem.
Size(s) ==
  IF s = "fresh" THEN FreshSize ELSE IF s = "old" THEN OldSize ELSE SurvivedSize

Low(s) ==
  IF s = "fresh" THEN 0
  ELSE IF s = "surv0" THEN FreshSize
  ELSE IF s = "surv1" THEN FreshSize + SurvivedSize
  ELSE FreshSize + 2 * SurvivedSize

HeapSize == FreshSize + 2 * SurvivedSize + OldSize
Addrs == 1..HeapSize
Values == 0..HeapSize

At(s, i) == Low(s) + i

InSpace(s, p) == Low(s) < p /\ p <= Low(s) + Size(s)

NoWords == [g \in Fields |-> 0]

VARIABLES
  fwd,         \* block_hdr_t.forward
  gen,         \* block_hdr_t.generation
  rem,         \* block_hdr_t.remembered
  fld,         \* the payload words
  id,          \* ghost: the address at which the collection found the object
  blocks,      \* space_t.blocks, and so space_t.pos and free_mem
  survived,    \* heap->survived
  old_mem,     \* heap->old.mem # NULL
  full_gc,     \* heap->full_gc
  old_map,     \* heap->old_map
  remembered,  \* heap->remembered_set
  roots,       \* the slots thread_get_roots visits
  pc,          \* where the thread is
  k,           \* index of the root, old block or remembered node visited
  f,           \* the payload word that type->visit is at
  cont,        \* scan_cont_t.i: blocks of future_survived already scanned
  pending,     \* an allocation waits for the collection to end
  graph,       \* ghost: the words of every block when the collection began
  groots,      \* ghost: the roots when the collection began
  tainted      \* ghost: see Tainting

hdrs == <<fwd, gen, rem, id>>
mem == <<hdrs, fld>>
heap == <<blocks, survived, old_mem, full_gc, old_map, remembered>>
regs == <<pc, k, f, cont>>
ghost == <<graph, groots, tainted>>
vars == <<mem, heap, roots, regs, pending, ghost>>

Requests == [dst : Roots, src : [Fields -> 0..NRoots]]

future_survived == IF survived = "surv0" THEN "surv1" ELSE "surv0"

free_mem(s) == IF s = "old" /\ ~old_mem THEN 0 ELSE Size(s) - blocks[s]

Allocated(a) == \E s \in Spaces : InSpace(s, a) /\ a <= At(s, blocks[s])

-----------------------------------------------------------------------------
(***************************************************************************)
(* The mutator.  Its steps are the heap accesses of eval_thread and the    *)
(* natives: the collector never sees a value that is not in a root slot or *)
(* in a block.                                                             *)
(***************************************************************************)

\* heap_init and vm_thread_init.
Init ==
  /\ fwd = [a \in Addrs |-> FALSE]
  /\ gen = [a \in Addrs |-> 0]
  /\ rem = [a \in Addrs |-> FALSE]
  /\ fld = [a \in Addrs |-> NoWords]
  /\ id = [a \in Addrs |-> 0]
  /\ blocks = [s \in Spaces |-> 0]
  /\ survived = "surv0"
  /\ old_mem = FALSE
  /\ full_gc = FALSE
  /\ old_map = NULL
  /\ remembered = <<>>
  /\ roots = [r \in Roots |-> 0]
  /\ pc = "run"
  /\ k = 1
  /\ f = 1
  /\ cont = 0
  /\ pending = FALSE
  /\ graph = [a \in Addrs |-> NoWords]
  /\ groots = [r \in Roots |-> 0]
  /\ tainted = FALSE

\* The value of source operand s: root s, or an immediate.
RootValue(s) == IF s = 0 THEN 0 ELSE roots[s]

\* space_alloc in the fresh space, and the caller's initialisation of the
\* block from root slots, as in OP_CONS and the constructors of the natives.
AllocFresh(q) ==
  /\ free_mem("fresh") > 0
  /\ LET p == At("fresh", blocks["fresh"] + 1)
     IN  /\ fwd' = [fwd EXCEPT ![p] = FALSE]
         /\ gen' = [gen EXCEPT ![p] = 0]
         /\ rem' = [rem EXCEPT ![p] = FALSE]
         /\ fld' = [fld EXCEPT ![p] = [g \in Fields |-> RootValue(q.src[g])]]
         /\ roots' = [roots EXCEPT ![q.dst] = p]
  /\ blocks' = [blocks EXCEPT !["fresh"] = @ + 1]
  /\ UNCHANGED <<survived, old_mem, full_gc, old_map, remembered, id, ghost>>

\* Ghost: old blocks whose remembered bit is set when a collection begins.
StaleRemembered ==
  \E i \in 1..blocks["old"] : rem[At("old", i)]

\* The entry of heap_gc: heap_gc_main starts with the roots.
EnterGc ==
  /\ pc' = "roots"
  /\ k' = 1
  /\ f' = 1
  /\ cont' = 0
  /\ tainted' = (tainted \/ (full_gc /\ StaleRemembered))
  /\ id' = [a \in Addrs |-> IF Allocated(a) THEN a ELSE 0]
  /\ graph' = [a \in Addrs |-> IF Allocated(a) THEN fld[a] ELSE NoWords]
  /\ groots' = roots
  /\ UNCHANGED <<fwd, gen, rem, fld, heap, roots>>

\* heap_alloc when space_alloc succeeds.
New(q) ==
  /\ pc = "run"
  /\ AllocFresh(q)
  /\ UNCHANGED <<regs, pending>>

\* heap_alloc when space_alloc returns NULL.  The operands of the allocation
\* are read only after the collection, in Resume, and are chosen there.
NewFull ==
  /\ pc = "run"
  /\ free_mem("fresh") < 1
  /\ pending' = TRUE
  /\ EnterGc

\* heap_alloc after the collection: the second space_alloc.
Resume(q) ==
  /\ pc = "resume"
  /\ AllocFresh(q)
  /\ pc' = "run"
  /\ pending' = FALSE
  /\ UNCHANGED <<k, f, cont>>

\* heap_require and heap_require_blocks: space_enough is a strict comparison.
Require(n) ==
  /\ pc = "run"
  /\ ~(free_mem("fresh") > n)
  /\ EnterGc
  /\ UNCHANGED pending

\* LOAD_*, CAR and CDR: root d becomes word g of the object in root s.
Load(d, s, g) ==
  /\ pc = "run"
  /\ roots[s] # 0
  /\ roots' = [roots EXCEPT ![d] = fld[roots[s]][g]]
  /\ UNCHANGED <<mem, heap, regs, pending, ghost>>

\* SET_LOCAL, SET_BIND and struct-set!: no write barrier.
Store(d, g, s) ==
  /\ pc = "run"
  /\ roots[d] # 0
  /\ fld' = [fld EXCEPT ![roots[d]][g] = RootValue(s)]
  /\ UNCHANGED <<hdrs, heap, roots, regs, pending, ghost>>

\* A push or a pop: root d becomes root s or an immediate.
Move(d, s) ==
  /\ pc = "run"
  /\ roots' = [roots EXCEPT ![d] = RootValue(s)]
  /\ UNCHANGED <<mem, heap, regs, pending, ghost>>

Mutate ==
  \/ \E q \in Requests : New(q)
  \/ NewFull
  \/ \E n \in 1..FreshSize : Require(n)
  \/ \E d, s \in Roots, g \in Fields : Load(d, s, g)
  \/ \E d \in Roots, s \in 0..NRoots, g \in Fields : Store(d, g, s)
  \/ \E d \in Roots, s \in 0..NRoots : Move(d, s)

-----------------------------------------------------------------------------
(***************************************************************************)
(* heap_mark on the slot that the four loops have reached.                 *)
(***************************************************************************)

\* The loop of the current phase still has a slot to visit.
AtSlot ==
  \/ pc = "roots" /\ k <= NRoots
  \/ pc = "old" /\ k <= blocks["old"]
  \/ pc = "refs" /\ cont < blocks[future_survived]
  \/ pc = "rem" /\ k <= Len(remembered)

\* The block whose words are visited.
CurBlock ==
  IF pc = "old" THEN At("old", k)
  ELSE IF pc = "refs" THEN At(future_survived, cont + 1)
  ELSE remembered[k]

CurValue == IF pc = "roots" THEN roots[k] ELSE fld[CurBlock][f]

\* Write v through obj_t *obj, on top of the payload w that heap_mark left.
PutSlot(w, v) ==
  IF pc = "roots"
  THEN /\ roots' = [roots EXCEPT ![k] = v]
       /\ fld' = w
  ELSE /\ fld' = [w EXCEPT ![CurBlock][f] = v]
       /\ UNCHANGED roots

\* The visit function has another word of the block to visit.
MoreWordsShort == pc # "roots" /\ f < NFields - 1   \* mutant: off by one
MoreWords == pc # "roots" /\ f < NFields

\* The increments of the loops in thread_get_roots, heap_scan_old,
\* heap_scan_references, heap_scan_remebered and the visit functions.
NextSlot ==
  IF MoreWords
  THEN /\ f' = f + 1
       /\ UNCHANGED <<k, cont>>
  ELSE /\ f' = 1
       /\ k' = IF pc = "refs" THEN k ELSE k + 1
       /\ cont' = IF pc = "refs" THEN cont + 1 ELSE cont

\* A pointer into the spaces that the collection evacuates.
InFrom(v) == InSpace("fresh", v) \/ InSpace(survived, v)

\* Not a heap pointer, or already copied: nothing to do.
MarkSkip ==
  /\ AtSlot
  /\ CurValue = 0 \/ InSpace(future_survived, CurValue)
  /\ NextSlot
  /\ UNCHANGED <<mem, heap, roots, pc, pending, ghost>>

\* Mark an old object as reached.
MarkReached ==
  /\ AtSlot
  /\ InSpace("old", CurValue)
  /\ full_gc /\ ~rem[CurValue]
  /\ rem' = [rem EXCEPT ![CurValue] = TRUE]
  /\ remembered' = Append(remembered, CurValue)
  /\ NextSlot
  /\ UNCHANGED <<fwd, gen, fld, id, blocks, survived, old_mem, full_gc, old_map,
                 roots, pc, pending, ghost>>

\* hash_table_lookup in old_map: the old pointer, updated if it has moved.
OldMapped(v) ==
  IF old_map # NULL /\ v \in DOMAIN old_map THEN old_map[v] ELSE v

\* Update a pointer to an old object.
MarkOld ==
  /\ AtSlot
  /\ InSpace("old", CurValue)
  /\ ~(full_gc /\ ~rem[CurValue])
  /\ PutSlot(fld, OldMapped(CurValue))
  /\ NextSlot
  /\ UNCHANGED <<hdrs, heap, pc, pending, ghost>>

\* Use the forward pointer of an object that has moved.
MarkForwarded ==
  /\ AtSlot
  /\ InFrom(CurValue)
  /\ fwd[CurValue]
  /\ PutSlot(fld, fld[CurValue][1])
  /\ NextSlot
  /\ UNCHANGED <<hdrs, heap, pc, pending, ghost>>

\* An object of the last generation that has not moved.
Ripe(v) == InFrom(v) /\ ~fwd[v] /\ gen[v] = PromoteGen

\* First pass of a full collection: postpone copying.
MarkPostpone ==
  /\ AtSlot
  /\ Ripe(CurValue)
  /\ full_gc
  /\ rem' = [rem EXCEPT ![CurValue] = TRUE]
  /\ remembered' = IF rem[CurValue] THEN remembered
                                    ELSE Append(remembered, CurValue)
  /\ NextSlot
  /\ UNCHANGED <<fwd, gen, fld, id, blocks, survived, old_mem, full_gc, old_map,
                 roots, pc, pending, ghost>>

\* hdr->forward of the original, and of its copy at p.
ForwardingLost(p) == [fwd EXCEPT ![p] = FALSE]   \* mutant: original not marked
Forwarding(p) == [fwd EXCEPT ![CurValue] = TRUE, ![p] = FALSE]

\* space_copy of the block in the slot to address p of another space, which
\* the slot and the original's forward pointer then lead to; the copy's
\* generation is a two-bit field, and wraps.
CopyTo(p) ==
  /\ fwd' = Forwarding(p)
  /\ gen' = [gen EXCEPT ![p] = (gen[CurValue] + 1) % (PromoteGen + 1)]
  /\ id' = [id EXCEPT ![p] = id[CurValue]]
  /\ PutSlot([fld EXCEPT ![p] = fld[CurValue], ![CurValue][1] = p], p)

\* The test at the head of space_put.
HasRoomUnchecked(s) == TRUE   \* mutant: no test
HasRoom(s) == blocks[s] < Size(s)

\* Move an object of the last generation to old space and remember the copy.
\* The remembered bit is cleared on the original, after it has been copied.
MarkPromote ==
  /\ AtSlot
  /\ Ripe(CurValue)
  /\ ~full_gc
  /\ HasRoom("old")
  /\ LET p == At("old", blocks["old"] + 1)
     IN  /\ CopyTo(p)
         /\ rem' = [rem EXCEPT ![p] = rem[CurValue], ![CurValue] = FALSE]
         /\ remembered' = Append(remembered, p)
  /\ old_mem' = TRUE
  /\ blocks' = [blocks EXCEPT !["old"] = @ + 1]
  /\ NextSlot
  /\ UNCHANGED <<survived, full_gc, old_map, pc, pending, ghost>>

\* A younger object that has not moved.
Young(v) == InFrom(v) /\ ~fwd[v] /\ gen[v] # PromoteGen

\* Copy a younger object to future_survived.
MarkSurvive ==
  /\ AtSlot
  /\ Young(CurValue)
  /\ HasRoom(future_survived)
  /\ LET p == At(future_survived, blocks[future_survived] + 1)
     IN  /\ CopyTo(p)
         /\ rem' = [rem EXCEPT ![p] = rem[CurValue]]
  /\ blocks' = [blocks EXCEPT ![future_survived] = @ + 1]
  /\ NextSlot
  /\ UNCHANGED <<survived, old_mem, full_gc, old_map, remembered, pc, pending,
                 ghost>>

\* space_put ends the process when the target space is full.
Fatal(where) ==
  /\ pc' = where
  /\ UNCHANGED <<mem, heap, roots, k, f, cont, pending, ghost>>

OldOverflow ==
  /\ AtSlot
  /\ Ripe(CurValue)
  /\ ~full_gc
  /\ ~HasRoom("old")
  /\ Fatal("fatal_old")

SurvivedOverflow ==
  /\ AtSlot
  /\ Young(CurValue)
  /\ ~HasRoom(future_survived)
  /\ Fatal("fatal_survived")

heap_mark ==
  \/ MarkSkip \/ MarkReached \/ MarkOld \/ MarkForwarded
  \/ MarkPostpone \/ MarkPromote \/ MarkSurvive
  \/ OldOverflow \/ SurvivedOverflow

-----------------------------------------------------------------------------
(***************************************************************************)
(* The control of heap_gc_main and heap_gc.                                *)
(***************************************************************************)

\* After thread_get_roots: heap_scan_old only outside the first pass of a
\* full collection, then the scan of future_survived from its start.
AfterRootsNoOld == "refs"   \* mutant: the old space is never scanned
AfterRoots == IF full_gc THEN "refs" ELSE "old"

RootsDone ==
  /\ pc = "roots" /\ k > NRoots
  /\ pc' = AfterRoots
  /\ k' = 1
  /\ f' = 1
  /\ cont' = 0
  /\ UNCHANGED <<mem, heap, roots, pending, ghost>>

ScanOldDone ==
  /\ pc = "old" /\ k > blocks["old"]
  /\ pc' = "refs"
  /\ k' = 1
  /\ UNCHANGED <<mem, heap, roots, f, cont, pending, ghost>>

\* The while loop of heap_gc_main, and the end of the pass.
EndOfPass == IF full_gc THEN "gc_old" ELSE "finish"
AfterRefsNoList == EndOfPass   \* mutant: the remembered set is not scanned
AfterRefs == IF remembered # <<>> THEN "rem" ELSE EndOfPass

ScanRefsDone ==
  /\ pc = "refs" /\ cont >= blocks[future_survived]
  /\ pc' = AfterRefs
  /\ k' = 1
  /\ UNCHANGED <<mem, heap, roots, f, cont, pending, ghost>>

\* The end of heap_scan_remebered: forget the whole list.
ForgottenNothing == remembered   \* mutant: the list is kept
Forgotten == <<>>

ScanRememberedDone ==
  /\ pc = "rem" /\ k > Len(remembered)
  /\ remembered' = Forgotten
  /\ pc' = "refs"
  /\ k' = 1
  /\ UNCHANGED <<mem, blocks, survived, old_mem, full_gc, old_map, roots, f,
                 cont, pending, ghost>>

\* The live set of heap_gc_old, and the place each of it slides to.
LiveOldAll == 1..blocks["old"]   \* mutant: nothing is dropped
LiveOld == {i \in 1..blocks["old"] : rem[At("old", i)]}
Slide(i) == Cardinality({j \in LiveOld : j <= i})

\* The address whose block space_move leaves at address a: block n of the
\* compacted space is the n-th live one.
MovedFrom(a) ==
  IF \E i \in LiveOld : a = At("old", Slide(i))
  THEN At("old", CHOOSE i \in LiveOld : a = At("old", Slide(i)))
  ELSE a

(***************************************************************************)
(* Tainting.  A full collection keeps the heap intact as long as it does   *)
(* not meet two defects of the code: an old object that slides to another  *)
(* address (the second pass visits old objects twice and may forward a     *)
(* pointer through old_map twice), and an old object whose remembered bit  *)
(* was already set when the collection began (heap_mark then takes it for  *)
(* reached and never visits its fields).  tainted is set when a collection *)
(* meets either, in EnterGc and here.                                      *)
(***************************************************************************)
HeapGcOld ==
  /\ pc = "gc_old"
  /\ fwd' = [a \in Addrs |-> fwd[MovedFrom(a)]]
  /\ gen' = [a \in Addrs |-> gen[MovedFrom(a)]]
  /\ rem' = [a \in Addrs |-> rem[a] /\ ~(InSpace("old", a) /\ Allocated(a))]
  /\ fld' = [a \in Addrs |-> fld[MovedFrom(a)]]
  /\ id' = [a \in Addrs |-> id[MovedFrom(a)]]
  /\ blocks' = [blocks EXCEPT !["old"] = Cardinality(LiveOld)]
  /\ old_map' = [a \in {At("old", i) : i \in LiveOld} |->
                   At("old", Slide(a - Low("old")))]
  /\ remembered' = [n \in 1..Cardinality(LiveOld) |-> At("old", n)]
  /\ full_gc' = FALSE
  /\ pc' = "roots"
  /\ k' = 1
  /\ f' = 1
  /\ cont' = 0
  /\ tainted' = (tainted \/ \E i \in LiveOld : Slide(i) # i)
  /\ UNCHANGED <<survived, old_mem, roots, pending, graph, groots>>

\* space_reset of fresh and of the evacuated survived space.
ResetBlocksSwapped ==   \* mutant: after heap_swap_survived instead of before
  [blocks EXCEPT !["fresh"] = 0, ![future_survived] = 0]
ResetBlocks == [blocks EXCEPT !["fresh"] = 0, ![survived] = 0]

\* The old space may not hold what the next collection promotes.
OldIsShortLate == old_mem /\ free_mem("old") + 1 < SurvivedSize   \* mutant
OldIsShort == old_mem /\ free_mem("old") < SurvivedSize

\* The end of heap_gc: drop old_map, clear the evacuated spaces, swap the
\* survived spaces and schedule the next full collection.  The ghosts
\* are dropped.
Finish ==
  /\ pc = "finish"
  /\ old_map' = NULL
  /\ fwd' = [a \in Addrs |-> fwd[a] /\ ~InFrom(a)]
  /\ gen' = [a \in Addrs |-> IF InFrom(a) THEN 0 ELSE gen[a]]
  /\ rem' = [a \in Addrs |-> rem[a] /\ ~InFrom(a)]
  /\ fld' = [a \in Addrs |-> IF InFrom(a) THEN NoWords ELSE fld[a]]
  /\ blocks' = ResetBlocks
  /\ survived' = future_survived
  /\ full_gc' = (full_gc \/ OldIsShort)
  /\ pc' = IF pending THEN "resume" ELSE "run"
  /\ k' = 1
  /\ f' = 1
  /\ cont' = 0
  /\ id' = [a \in Addrs |-> 0]
  /\ graph' = [a \in Addrs |-> NoWords]
  /\ groots' = [r \in Roots |-> 0]
  /\ UNCHANGED <<old_mem, remembered, roots, pending, tainted>>

Collect ==
  \/ heap_mark
  \/ RootsDone \/ ScanOldDone \/ ScanRefsDone \/ ScanRememberedDone
  \/ HeapGcOld \/ Finish

Retry == \E q \in Requests : Resume(q)

Next == Mutate \/ Collect \/ Retry

\* The collector runs on the mutator's own thread: once entered, it goes on.
Spec == Init /\ [][Next]_vars /\ WF_vars(Collect \/ Retry)

-----------------------------------------------------------------------------
PCs == {"run", "resume", "roots", "old", "refs", "rem", "gc_old", "finish",
        "fatal_old", "fatal_survived"}

MemType ==
  /\ fwd \in [Addrs -> BOOLEAN]
  /\ gen \in [Addrs -> 0..PromoteGen]
  /\ rem \in [Addrs -> BOOLEAN]
  /\ fld \in [Addrs -> [Fields -> Values]]
  /\ id \in [Addrs -> Values]

BlocksType ==
  /\ blocks \in [Spaces -> Nat]
  /\ \A s \in Spaces : blocks[s] <= Size(s)
  /\ survived \in {"surv0", "surv1"}

OldMapType ==
  \/ old_map = NULL
  \/ old_map \in [DOMAIN old_map -> Addrs] /\ DOMAIN old_map \subseteq Addrs

RootsType == roots \in [Roots -> Values]

RegsType ==
  /\ pc \in PCs
  /\ k \in Nat \ {0}
  /\ f \in Fields
  /\ cont \in Nat

FlagsType ==
  /\ old_mem \in BOOLEAN
  /\ full_gc \in BOOLEAN
  /\ pending \in BOOLEAN
  /\ tainted \in BOOLEAN

GhostType ==
  /\ graph \in [Addrs -> [Fields -> Values]]
  /\ groots \in [Roots -> Values]

\* The state has the types of the C declarations: in particular no space holds
\* more than its size, and no pointer leaves the heap, so that heap_mark never
\* meets "Trying to mark %p which doesn't belong to this heap".
TypeOK ==
  /\ MemType
  /\ BlocksType
  /\ OldMapType
  /\ remembered \in Seq(Addrs)
  /\ RootsType
  /\ RegsType
  /\ FlagsType
  /\ GhostType

\* Value v is where the collection has left the object that was at i.
Denotes(v, i) ==
  IF i = 0 THEN v = 0
  ELSE v # 0 /\ Allocated(v) /\ ~InFrom(v) /\ id[v] = i

\* When a collection ends, every root and every word of every block that it
\* keeps denotes the object that the slot referred to when the collection
\* began, and none points into the spaces about to be cleared (heap_mark,
\* heap_gc_main, heap_gc_old).
Faithful ==
  (pc = "finish" /\ ~tainted) =>
    /\ \A r \in Roots : Denotes(roots[r], groots[r])
    /\ \A a \in Addrs : (Allocated(a) /\ ~InFrom(a)) =>
         \A g \in Fields : Denotes(fld[a][g], graph[id[a]][g])

\* A collection never copies an object twice: of two blocks that it keeps,
\* none holds the same object, so eq? survives it (hdr->forward).
OneCopy ==
  (pc = "finish" /\ ~tainted) =>
    \A a, b \in Addrs :
      (/\ Allocated(a) /\ ~InFrom(a) /\ Allocated(b) /\ ~InFrom(b)
       /\ id[a] = id[b]) => a = b

\* Whenever the mutator runs, every pointer it can follow leads to a block.
NoDangling ==
  (pc \in {"run", "resume"} /\ ~tainted) =>
    /\ \A r \in Roots : roots[r] = 0 \/ Allocated(roots[r])
    /\ \A a \in Addrs : Allocated(a) =>
         \A g \in Fields : fld[a][g] = 0 \/ Allocated(fld[a][g])

\* The objects that can be reached from the set S of objects in the graph gr,
\* and in the one that the collection started from.
ReachedIn(gr, S) ==
  LET upto[n \in 0..HeapSize] ==
        IF n = 0 THEN S
        ELSE upto[n - 1]
               \cup {gr[a][g] : a \in upto[n - 1] \ {0}, g \in Fields}
  IN  upto[HeapSize] \ {0}

ReachedFrom(S) == ReachedIn(graph, S)

RootObjects == {groots[r] : r \in Roots}

\* heap_scan_old treats every old object as live.
OldObjects == {a \in Addrs : InSpace("old", a) /\ id[a] = a}

\* What the collection has to keep: a full one only what the roots reach.
Live == IF full_gc \/ old_map # NULL THEN ReachedFrom(RootObjects)
        ELSE ReachedFrom(RootObjects \cup OldObjects)

\* A collection keeps no garbage: it keeps exactly the objects that the roots
\* reach or, when it does not compact the old space, that old objects reach.
Precise ==
  (pc = "finish" /\ ~tainted) =>
    {id[a] : a \in {b \in Addrs : Allocated(b) /\ ~InFrom(b)}} = Live

\* space_put ends the process only when the live objects really do not fit:
\* a young survivor beyond SURVIVED_SIZE, or, and only in a full collection,
\* the live old objects and the ripe ones together beyond OLD_SIZE.  A
\* collection that does not compact never runs out of old space, because
\* heap_gc schedules a full one while SURVIVED_SIZE is still free.
OutOfMemoryIsReal ==
  ~tainted =>
    /\ pc = "fatal_survived" =>
         Cardinality({a \in Live : ~InSpace("old", a) /\ gen[a] # PromoteGen})
           > SurvivedSize
    /\ pc = "fatal_old" =>
         /\ old_map # NULL
         /\ Cardinality({a \in Live : InSpace("old", a) \/ gen[a] = PromoteGen})
              > OldSize

\* A collection that has begun ends, or ends the process.
GcEnds == (pc # "run") ~> (pc \in {"run", "fatal_old", "fatal_survived"})

\* Faithful of every full collection, whatever it moves: heap_gc_old is said
\* to move objects "creating mappings", and heap_mark to "update pointer on
\* old object" with them.
FaithfulAlways ==
  pc = "finish" =>
    /\ \A r \in Roots : Denotes(roots[r], groots[r])
    /\ \A a \in Addrs : (Allocated(a) /\ ~InFrom(a)) =>
         \A g \in Fields : Denotes(fld[a][g], graph[id[a]][g])

\* The first pass of a full collection is said to "collect all reached
\* objects": every old object that the roots reach is marked for heap_gc_old.
CollectsReached ==
  pc = "gc_old" =>
    \A a \in ReachedFrom(RootObjects) : InSpace("old", a) => rem[a]
=============================================================================

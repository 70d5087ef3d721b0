------------------------------- MODULE Space --------------------------------
(***************************************************************************)
(* The bytes of the heap (src/vm/heap.c): blocks of different sizes in     *)
(* fresh and old space, the requests for room, the walks from header to    *)
(* header and the compaction that moves blocks over each other.  Heap.tla, *)
(* where blocks have unit size, says which objects a collection keeps; an  *)
(* object may here be kept or not, and comes to old space from elsewhere   *)
(* (from a survived space).                                                *)
(*                                                                         *)
(* Memory is a function on word-aligned offsets.  A word that belongs to a *)
(* block is <<object, its offset in the block, size>>: the first one is    *)
(* the header, from which alone the code reads the size.  index is a       *)
(* ghost: which blocks have been put where.                                *)
(***************************************************************************)
EXTENDS Integers, Sequences

CONSTANTS
  Objects,       \* names for blocks
  FreshSize,     \* FRESH_SIZE
  OldSize,       \* OLD_SIZE
  SurvivedSize,  \* SURVIVED_SIZE
  Sizes,         \* the sizes that are asked for
  Counts         \* how many of them heap_require_blocks is asked for

Word == 8
BHDR_SIZE == 8

ASSUME SpaceAssumption ==
  /\ FreshSize \in Nat /\ OldSize \in Nat /\ SurvivedSize \in Nat
  /\ FreshSize % Word = 0 /\ OldSize % Word = 0
  /\ Sizes \subseteq Nat \ {0} /\ Counts \subseteq Nat

VARIABLES
  fresh, old,   \* the spaces
  full_gc,      \* heap->full_gc
  pc,           \* what the heap does
  asked,        \* the size an allocation waits for, or 0
  room,         \* ghost: bytes that a request has promised
  marked,       \* old objects whose remembered bit is set
  i, hdr,       \* the loop over the blocks of old space
  live          \* live_set, from cur on

walk == <<i, hdr, live>>
vars == <<fresh, old, full_gc, pc, asked, room, marked, walk>>

NoWord == <<>>
Offsets(n) == {Word * k : k \in 0..(n \div Word - 1)}

\* space_init and space_reset0
EmptySpace(n) ==
  [size |-> n, mem |-> [a \in Offsets(n) |-> NoWord], pos |-> 0, free_mem |-> n, blocks |-> 0,
   index |-> <<>>]

\* Mutant: the count of blocks goes on.
SpaceResetMem(space) ==
  [space EXCEPT !.pos = 0, !.free_mem = space.size, !.index = <<>>]

SpaceReset(space) ==
  [size |-> space.size, mem |-> space.mem, pos |-> 0, free_mem |-> space.size, blocks |-> 0,
   index |-> <<>>]

AlignUp(n) == ((n + Word - 1) \div Word) * Word
Need(n) == AlignUp(n) + BHDR_SIZE

\* Mutant: what is free is not reduced by the header.
TakenBare(space, o, n, words) ==
  [space EXCEPT
    !.mem = [a \in DOMAIN @ |-> IF space.pos <= a /\ a < space.pos + n
                                THEN words[a - space.pos] ELSE @[a]],
    !.pos = @ + n, !.free_mem = @ - (n - BHDR_SIZE), !.blocks = @ + 1,
    !.index = Append(@, [object |-> o, at |-> space.pos, size |-> n])]

\* A block of n bytes is put at pos.
Taken(space, o, n, words) ==
  [size |-> space.size,
   mem |-> [a \in DOMAIN space.mem |-> IF space.pos <= a /\ a < space.pos + n
                                       THEN words[a - space.pos] ELSE space.mem[a]],
   pos |-> space.pos + n, free_mem |-> space.free_mem - n, blocks |-> space.blocks + 1,
   index |-> Append(space.index, [object |-> o, at |-> space.pos, size |-> n])]

Block(o, n) == [a \in Offsets(n) |-> <<o, a, n - BHDR_SIZE>>]

Fits(space, n) == n <= space.free_mem

\* space_alloc when there is room, and space_copy of a block from elsewhere
SpaceAlloc(space, o, n) == Taken(space, o, Need(n), Block(o, Need(n)))

\* space_move of a block of the same memory
ObjectAt(space, h) == space.mem[h][1]
SizeAt(space, h) == space.mem[h][3]

\* Mutant: as many bytes are moved as the payload has.
SpaceMoveBare(space, h) ==
  LET n == SizeAt(space, h)
  IN  Taken(space, ObjectAt(space, h), n, [a \in Offsets(n) |-> space.mem[h + a]])

SpaceMove(space, h) ==
  LET n == BHDR_SIZE + SizeAt(space, h)
  IN  Taken(space, ObjectAt(space, h), n, [a \in Offsets(n) |-> space.mem[h + a]])

\* Mutant: there may be room without the header.
SpaceEnoughBare(space, n) == space.free_mem >= n

SpaceEnough(space, n) == space.free_mem > n + BHDR_SIZE

\* Mutant: the header is not counted.
NextHdrBare(space, h) == h + SizeAt(space, h)

NextHdr(space, h) == BHDR_SIZE + SizeAt(space, h) + h

AppendRemembered(set, h) == Append(set, h)

ObjectsIn(space) == {space.index[j].object : j \in DOMAIN space.index}
Unused == Objects \ (ObjectsIn(fresh) \cup ObjectsIn(old))

-----------------------------------------------------------------------------
(* What the thread asks for.                                               *)

\* A collection begins: a full one marks the old objects it reaches.
Collect ==
  /\ i' = 0 /\ hdr' = 0 /\ live' = <<>>
  /\ IF full_gc THEN pc' = "walk" /\ marked' \in SUBSET ObjectsIn(old)
     ELSE pc' = "scan" /\ marked' = {}

Allocated(n) ==
  /\ \E o \in Unused : fresh' = SpaceAlloc(fresh, o, n)
  /\ room' = IF Need(n) <= room THEN room - Need(n) ELSE 0
  /\ pc' = "run" /\ asked' = 0

\* Mutant: there is no collection before the second try.
HeapAllocTwice ==
  /\ pc = "run"
  /\ \E n \in Sizes :
       IF Fits(fresh, Need(n))
       THEN Allocated(n) /\ UNCHANGED <<old, full_gc, marked, walk>>
       ELSE /\ pc' = "retry" /\ asked' = n
            /\ UNCHANGED <<fresh, old, full_gc, room, marked, walk>>

\* heap_alloc
HeapAlloc ==
  /\ pc = "run"
  /\ \E n \in Sizes :
       IF Fits(fresh, Need(n))
       THEN Allocated(n) /\ UNCHANGED <<old, full_gc, marked, walk>>
       ELSE /\ Collect
            /\ asked' = n
            /\ UNCHANGED <<fresh, old, full_gc, room>>

\* heap_alloc after the collection
Retry ==
  /\ pc = "retry"
  /\ UNCHANGED <<old, full_gc, marked, walk>>
  /\ IF Fits(fresh, Need(asked)) THEN Allocated(asked)
     ELSE pc' = "fatal" /\ UNCHANGED <<fresh, asked, room>>

Requiring(checked, promised) ==
  /\ pc = "run"
  /\ room' = IF promised <= FreshSize THEN promised ELSE 0
  /\ UNCHANGED <<fresh, old, full_gc, asked>>
  /\ IF SpaceEnough(fresh, checked) THEN UNCHANGED <<pc, marked, walk>> ELSE Collect

HeapRequire == \E n \in Sizes : Requiring(n, Need(n))

HeapRequireBlocks == \E n \in Sizes, c \in Counts : Requiring(Need(n) * c, Need(n) * c)

-----------------------------------------------------------------------------
(* heap_gc_old.                                                            *)

\* One step of the loop over the blocks.
Walk ==
  /\ pc = "walk" /\ i < old.blocks
  /\ live' = IF ObjectAt(old, hdr) \in marked THEN AppendRemembered(live, hdr) ELSE live
  /\ i' = i + 1 /\ hdr' = NextHdr(old, hdr)
  /\ UNCHANGED <<fresh, old, full_gc, pc, asked, room, marked>>

\* Mutant: the last block is not looked at.
OldResetEarly ==
  /\ pc = "walk" /\ i + 1 >= old.blocks
  /\ old' = SpaceReset(old)
  /\ pc' = "move"
  /\ UNCHANGED <<fresh, full_gc, asked, room, marked, walk>>

OldReset ==
  /\ pc = "walk" /\ i = old.blocks
  /\ old' = SpaceReset(old)
  /\ pc' = "move"
  /\ UNCHANGED <<fresh, full_gc, asked, room, marked, walk>>

Move ==
  /\ pc = "move" /\ live # <<>>
  /\ IF Fits(old, BHDR_SIZE + SizeAt(old, Head(live)))
     THEN /\ old' = SpaceMove(old, Head(live))
          /\ marked' = marked \ {ObjectAt(old, Head(live))}
          /\ live' = Tail(live)
          /\ UNCHANGED pc
     ELSE pc' = "overrun" /\ UNCHANGED <<old, marked, live>>
  /\ UNCHANGED <<fresh, full_gc, asked, room, i, hdr>>

\* The second pass of a full collection is like the only one of another.
Moved ==
  /\ pc = "move" /\ live = <<>>
  /\ pc' = "scan" /\ i' = 0 /\ hdr' = 0 /\ full_gc' = FALSE
  /\ UNCHANGED <<fresh, old, asked, room, marked, live>>

-----------------------------------------------------------------------------
(* heap_gc_main: the blocks of old space are visited, and those that come  *)
(* to it at the same time.                                                 *)

ScanOld ==
  /\ pc = "scan" /\ i < old.blocks
  /\ i' = i + 1 /\ hdr' = NextHdr(old, hdr)
  /\ UNCHANGED <<fresh, old, full_gc, pc, asked, room, marked, live>>

Promote ==
  /\ pc = "scan"
  /\ \E n \in Sizes :
       IF Fits(old, Need(n))
       THEN /\ \E o \in Unused : old' = SpaceAlloc(old, o, n)
            /\ UNCHANGED pc
       ELSE pc' = "out of memory" /\ UNCHANGED old
  /\ UNCHANGED <<fresh, full_gc, asked, room, marked, walk>>

\* The end of heap_gc
GcEnd ==
  /\ pc = "scan" /\ i = old.blocks
  /\ fresh' = EmptySpace(FreshSize)
  /\ full_gc' = (old.free_mem < SurvivedSize)
  /\ pc' = IF asked = 0 THEN "run" ELSE "retry"
  /\ i' = 0 /\ hdr' = 0
  /\ UNCHANGED <<old, asked, room, marked, live>>

Stopped == pc \in {"fatal", "out of memory", "overrun"} /\ UNCHANGED vars

Init ==
  /\ fresh = EmptySpace(FreshSize) /\ old = EmptySpace(OldSize)
  /\ full_gc = FALSE /\ marked = {}
  /\ pc = "run" /\ asked = 0 /\ room = 0
  /\ i = 0 /\ hdr = 0 /\ live = <<>>

Next ==
  \/ HeapAlloc \/ Retry \/ HeapRequire \/ HeapRequireBlocks
  \/ Walk \/ OldReset \/ Move \/ Moved \/ ScanOld \/ Promote \/ GcEnd
  \/ Stopped

Spec == Init /\ [][Next]_vars

-----------------------------------------------------------------------------

SpaceType(space, n) ==
  /\ space.size = n /\ DOMAIN space.mem = Offsets(n)
  /\ space.pos \in 0..n /\ space.free_mem \in 0..n
  /\ space.blocks = Len(space.index)

TypeOK ==
  /\ SpaceType(fresh, FreshSize) /\ SpaceType(old, OldSize)
  /\ full_gc \in BOOLEAN /\ marked \subseteq Objects
  /\ pc \in {"run", "retry", "walk", "move", "scan", "fatal", "out of memory", "overrun"}
  /\ asked \in Sizes \cup {0} /\ room \in 0..FreshSize
  /\ i \in Nat /\ hdr \in Nat

\* What is taken and what is free make up the space, and both are whole words,
\* whatever sizes have been asked for: every payload is aligned
\* (src/vm/heap.c:54-81,85-97).
Accounted ==
  \A space \in {fresh, old} :
    /\ space.pos + space.free_mem = space.size
    /\ space.pos % Word = 0

\* No block overlaps another one or what is free, also when old blocks of
\* different sizes are moved over each other: those that have been moved and
\* those that have not yet are all there, word by word
\* (src/vm/heap.c:58-97,232-240).
IntactAt(space, o, at, n) ==
  /\ at + n <= space.size
  /\ \A k \in Offsets(n) : space.mem[at + k] = <<o, k, n - BHDR_SIZE>>
Intact ==
  /\ \A space \in {fresh, old} : \A j \in DOMAIN space.index :
       LET b == space.index[j]
       IN  IntactAt(space, b.object, b.at, b.size) /\ b.at + b.size <= space.pos
  /\ \A j \in DOMAIN live :
       IntactAt(old, ObjectAt(old, live[j]), live[j], BHDR_SIZE + SizeAt(old, live[j]))

\* The loops over old space stand at the header of the block that their count
\* says, or behind the last one, also when blocks come to it meanwhile
\* (src/vm/heap.c:195-204,217-229).
Walks ==
  pc \in {"walk", "scan"} =>
    /\ i <= old.blocks
    /\ hdr = IF i < old.blocks THEN old.index[i + 1].at ELSE old.pos

\* A compaction keeps every block that was marked, and no other, and never
\* needs more than there is (src/vm/heap.c:85-88,211-243).
Compacted ==
  /\ pc # "overrun"
  /\ pc = "move" =>
    /\ marked = {ObjectAt(old, live[j]) : j \in DOMAIN live}
    /\ marked \cap ObjectsIn(old) = {}

\* Room that has been asked for, and that a space can hold, is there until it
\* is used, although nobody looks again after the collection
\* (src/vm/heap.c:324-335).
RoomKept == pc = "run" => room <= fresh.free_mem

\* An allocation ends the process only when it asks for more than fresh space
\* has when it is empty (src/vm/heap.c:312-322).
FatalIsReal == pc = "fatal" => Need(asked) > FreshSize
=============================================================================

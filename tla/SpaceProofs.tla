---------------------------- MODULE SpaceProofs -----------------------------
(***************************************************************************)
(* Proofs about Space: whatever sizes are asked for, promised room is      *)
(* there, and no allocation fails that an empty fresh space could satisfy. *)
(* Blocks lie one behind the other, none is written over, not even in a    *)
(* compaction, and the loops over old space stand on headers.              *)
(***************************************************************************)
EXTENDS Space, TLAPS

-----------------------------------------------------------------------------
(* Sizes are rounded up to whole words.                                    *)

\* What an allocation takes is a number of whole words that holds a header and
\* the payload, and less than one word more.
LEMMA NeedFacts ==
  ASSUME NEW n \in Nat
  PROVE  /\ Need(n) \in Nat /\ Need(n) % Word = 0
         /\ n + BHDR_SIZE <= Need(n) /\ Need(n) < n + BHDR_SIZE + Word
BY DEF Need, AlignUp, Word, BHDR_SIZE

\* heap_require does not round, but what is free is whole words.
LEMMA EnoughIsRoom ==
  ASSUME NEW n \in Nat, NEW free \in Nat, free % Word = 0, free > n + BHDR_SIZE
  PROVE  Need(n) <= free
BY DEF Need, AlignUp, Word, BHDR_SIZE

\* What is free and whole words stays so when a block is taken.
LEMMA WholeWords ==
  ASSUME NEW a \in Nat, NEW b \in Nat, a % Word = 0, b % Word = 0, b <= a
  PROVE  a - b \in Nat /\ (a - b) % Word = 0
BY DEF Word

-----------------------------------------------------------------------------
(* Spaces are records with these fields, whatever is in them.              *)

IsSpace(space) ==
  space = [size |-> space.size, mem |-> space.mem, pos |-> space.pos,
           free_mem |-> space.free_mem, blocks |-> space.blocks, index |-> space.index]

\* Taking a block changes the free room by its size and no field is lost.
LEMMA TakenIsSpace ==
  ASSUME NEW space, IsSpace(space), NEW o, NEW n, NEW words
  PROVE  IsSpace(Taken(space, o, n, words)) /\ Taken(space, o, n, words).free_mem = space.free_mem - n
BY DEF IsSpace, Taken

\* A space that has been reset is one, and all of it is free.
LEMMA EmptyIsSpace ==
  ASSUME NEW n
  PROVE  IsSpace(EmptySpace(n)) /\ EmptySpace(n).free_mem = n
BY DEF IsSpace, EmptySpace

-----------------------------------------------------------------------------
(* What is free in fresh space, and what it is there for.                  *)

FreshInv ==
  /\ IsSpace(fresh)
  /\ fresh.free_mem \in Nat /\ fresh.free_mem % Word = 0
  /\ asked \in Sizes \cup {0}
  /\ room \in Nat /\ room <= FreshSize
  /\ pc = "run" => room <= fresh.free_mem
  /\ pc = "retry" => fresh.free_mem = FreshSize /\ asked \in Sizes
  /\ pc = "fatal" => Need(asked) > FreshSize

\* heap_init leaves fresh space empty, with no request under way.
LEMMA InitFresh == Init => FreshInv
BY SpaceAssumption, EmptyIsSpace DEF Init, FreshInv, Word

\* An allocation takes what it needs from fresh space, and from the room that
\* has been promised when it lies within.
LEMMA AllocatedFresh ==
  ASSUME FreshInv, pc \in {"run", "retry"},
         NEW n \in Sizes, Fits(fresh, Need(n)), Allocated(n)
  PROVE  FreshInv'
<1>1. n \in Nat
  BY SpaceAssumption
<1>2. Need(n) \in Nat /\ Need(n) % Word = 0 /\ Need(n) <= fresh.free_mem
  BY <1>1, NeedFacts DEF Fits
<1>3. PICK o \in Unused : fresh' = Taken(fresh, o, Need(n), Block(o, Need(n)))
  BY DEF Allocated, SpaceAlloc
<1>4. IsSpace(fresh') /\ fresh'.free_mem = fresh.free_mem - Need(n)
  BY <1>3, TakenIsSpace DEF FreshInv
<1>5. fresh'.free_mem \in Nat /\ fresh'.free_mem % Word = 0
  BY <1>2, <1>4, WholeWords DEF FreshInv
<1>6. room' = (IF Need(n) <= room THEN room - Need(n) ELSE 0) /\ pc' = "run" /\ asked' = 0
  BY DEF Allocated
<1>7. room <= fresh.free_mem
  BY DEF FreshInv
<1>8. room' \in Nat /\ room' <= FreshSize /\ room' <= fresh'.free_mem
  BY <1>2, <1>4, <1>5, <1>6, <1>7, SpaceAssumption DEF FreshInv
<1> QED
  BY <1>4, <1>5, <1>6, <1>8 DEF FreshInv

\* heap_alloc keeps the room promised, or uses it, or collects.
LEMMA HeapAllocFresh == FreshInv /\ HeapAlloc => FreshInv'
<1> SUFFICES ASSUME FreshInv, HeapAlloc PROVE FreshInv'
  OBVIOUS
<1>1. PICK n \in Sizes :
        IF Fits(fresh, Need(n)) THEN Allocated(n) ELSE Collect /\ asked' = n /\ UNCHANGED <<fresh, room>>
  BY Zenon DEF HeapAlloc
<1>2. CASE Fits(fresh, Need(n))
  BY <1>1, <1>2, AllocatedFresh DEF HeapAlloc
<1>3. CASE ~Fits(fresh, Need(n))
  <2>1. pc' \in {"walk", "scan"} /\ asked' = n /\ fresh' = fresh /\ room' = room
    BY <1>1, <1>3 DEF Collect
  <2> QED
    BY <2>1 DEF FreshInv
<1> QED
  BY <1>2, <1>3

\* The second try, after the collection, has the whole of fresh space.
LEMMA RetryFresh == FreshInv /\ Retry => FreshInv'
<1> SUFFICES ASSUME FreshInv, Retry PROVE FreshInv'
  OBVIOUS
<1>1. pc = "retry" /\ asked \in Sizes /\ fresh.free_mem = FreshSize
  BY DEF Retry, FreshInv
<1>2. CASE Fits(fresh, Need(asked))
  <2>1. Allocated(asked)
    BY <1>2 DEF Retry
  <2> QED
    BY <1>1, <1>2, <2>1, AllocatedFresh
<1>3. CASE ~Fits(fresh, Need(asked))
  <2>1. pc' = "fatal" /\ fresh' = fresh /\ asked' = asked /\ room' = room
    BY <1>3 DEF Retry
  <2>2. Need(asked) \in Nat
    BY <1>1, SpaceAssumption, NeedFacts
  <2>3. Need(asked') > FreshSize
    BY <1>1, <1>3, <2>1, <2>2, SpaceAssumption DEF Fits
  <2> QED
    BY <2>1, <2>3, <1>1 DEF FreshInv
<1> QED
  BY <1>2, <1>3

\* A request that is granted without a collection finds the room, one that is
\* not leaves the whole space free.
LEMMA RequiringFresh ==
  ASSUME FreshInv, NEW checked \in Nat, NEW promised \in Nat,
         \A free \in Nat : free % Word = 0 /\ free > checked + BHDR_SIZE => promised <= free,
         Requiring(checked, promised)
  PROVE  FreshInv'
<1>1. room' = (IF promised <= FreshSize THEN promised ELSE 0) /\ fresh' = fresh /\ asked' = asked
  BY DEF Requiring
<1>2. room' \in Nat /\ room' <= FreshSize
  BY <1>1, SpaceAssumption
<1>3. CASE SpaceEnough(fresh, checked)
  <2>1. pc' = "run"
    BY <1>3 DEF Requiring
  <2>2. room' <= fresh'.free_mem
    BY <1>1, <1>3 DEF SpaceEnough, FreshInv
  <2> QED
    BY <1>1, <1>2, <2>1, <2>2 DEF FreshInv
<1>4. CASE ~SpaceEnough(fresh, checked)
  <2>1. pc' \in {"walk", "scan"}
    BY <1>4 DEF Requiring, Collect
  <2> QED
    BY <1>1, <1>2, <2>1 DEF FreshInv
<1> QED
  BY <1>3, <1>4

\* heap_require promises bytes.
LEMMA HeapRequireFresh == FreshInv /\ HeapRequire => FreshInv'
<1> SUFFICES ASSUME FreshInv, NEW n \in Sizes, Requiring(n, Need(n)) PROVE FreshInv'
  BY DEF HeapRequire
<1>1. n \in Nat /\ Need(n) \in Nat
  BY SpaceAssumption, NeedFacts
<1>2. \A free \in Nat : free % Word = 0 /\ free > n + BHDR_SIZE => Need(n) <= free
  BY <1>1, EnoughIsRoom
<1> QED
  BY <1>1, <1>2, RequiringFresh

\* heap_require_blocks promises a number of blocks of one size.
LEMMA HeapRequireBlocksFresh == FreshInv /\ HeapRequireBlocks => FreshInv'
<1> SUFFICES ASSUME FreshInv, NEW n \in Sizes, NEW c \in Counts,
                    Requiring(Need(n) * c, Need(n) * c)
             PROVE  FreshInv'
  BY DEF HeapRequireBlocks
<1>1. Need(n) \in Nat /\ c \in Nat
  BY SpaceAssumption, NeedFacts
<1> DEFINE bytes == Need(n) * c
<1>2. bytes \in Nat
  BY <1>1
<1>3. Requiring(bytes, bytes)
  OBVIOUS
<1> HIDE DEF bytes
<1>4. \A free \in Nat : free % Word = 0 /\ free > bytes + BHDR_SIZE => bytes <= free
  BY <1>2 DEF BHDR_SIZE
<1> QED
  BY <1>2, <1>3, <1>4, RequiringFresh

\* A collection ends with fresh space reset.
LEMMA GcEndFresh == FreshInv /\ GcEnd => FreshInv'
<1> SUFFICES ASSUME FreshInv, GcEnd PROVE FreshInv'
  OBVIOUS
<1>1. IsSpace(fresh') /\ fresh'.free_mem = FreshSize
  BY EmptyIsSpace DEF GcEnd
<1>2. pc' = (IF asked = 0 THEN "run" ELSE "retry") /\ asked' = asked /\ room' = room
  BY DEF GcEnd
<1> QED
  BY <1>1, <1>2, SpaceAssumption DEF FreshInv

\* The other steps of a collection are not about fresh space.
LEMMA CollectionFresh ==
  FreshInv /\ (Walk \/ OldReset \/ Move \/ Moved \/ ScanOld \/ Promote \/ UNCHANGED vars)
    => FreshInv'
<1> SUFFICES ASSUME FreshInv, 
                    Walk \/ OldReset \/ Move \/ Moved \/ ScanOld \/ Promote \/ UNCHANGED vars
             PROVE  FreshInv'
  OBVIOUS
<1>1. fresh' = fresh /\ asked' = asked /\ room' = room
  BY DEF Walk, OldReset, Move, Moved, ScanOld, Promote, vars
<1>2. pc' \notin {"run", "retry", "fatal"} \/ pc' = pc
  BY DEF Walk, OldReset, Move, Moved, ScanOld, Promote, vars
<1> QED
  BY <1>1, <1>2 DEF FreshInv

\* Every step keeps the invariant.
LEMMA NextFresh == FreshInv /\ [Next]_vars => FreshInv'
BY HeapAllocFresh, RetryFresh, HeapRequireFresh, HeapRequireBlocksFresh, GcEndFresh,
   CollectionFresh DEF Next, Stopped

\* The invariant holds for ever.
LEMMA FreshHolds == Spec => []FreshInv
BY InitFresh, NextFresh, PTL DEF Spec

\* Whatever blocks are asked for: promised room is there until it is used
\* (src/vm/heap.c:324-335).
THEOREM RoomKeptHolds == Spec => []RoomKept
<1>1. FreshInv => RoomKept
  BY DEF FreshInv, RoomKept
<1> QED
  BY <1>1, FreshHolds, PTL

\* The process ends in an allocation only when the block fits no empty space
\* (src/vm/heap.c:312-322).
THEOREM FatalIsRealHolds == Spec => []FatalIsReal
<1>1. FreshInv => FatalIsReal
  BY DEF FreshInv, FatalIsReal
<1> QED
  BY <1>1, FreshHolds, PTL

-----------------------------------------------------------------------------
(* Offsets are the multiples of a word below a bound.                      *)

Aligned(a) == a \in Nat /\ a % Word = 0

\* The offsets of a space or a block of whole words.
LEMMA OffsetsFacts ==
  ASSUME NEW n, Aligned(n), NEW a
  PROVE  a \in Offsets(n) <=> Aligned(a) /\ a < n
<1>1. n \in Nat /\ n % 8 = 0
  BY DEF Aligned, Word
<1>2. ASSUME a \in Offsets(n) PROVE a \in Nat /\ a % 8 = 0 /\ a < n
  <2>1. PICK j \in 0..(n \div 8 - 1) : a = 8 * j
    BY <1>2 DEF Offsets, Word
  <2> QED
    BY <1>1, <2>1
<1>3. ASSUME a \in Nat, a % 8 = 0, a < n PROVE a \in Offsets(n)
  <2>1. a \div 8 \in 0..(n \div 8 - 1) /\ a = 8 * (a \div 8)
    BY <1>1, <1>3
  <2> QED
    BY <2>1 DEF Offsets, Word
<1> QED
  BY <1>2, <1>3 DEF Aligned, Word

\* Sums and differences of whole words are whole words.
LEMMA AlignedSum ==
  ASSUME NEW a, NEW b, Aligned(a), Aligned(b)
  PROVE  Aligned(a + b) /\ (b <= a => Aligned(a - b))
BY DEF Aligned, Word

-----------------------------------------------------------------------------
(* The blocks of a space.                                                  *)

Entries == [object : Objects, at : Nat, size : Nat]

\* Words at to at + n - 1 of mem are those of a block of object o.
Written(mem, o, at, n) ==
  /\ Aligned(at) /\ Aligned(n) /\ BHDR_SIZE <= n
  /\ \A a \in Offsets(n) : mem[at + a] = <<o, a, n - BHDR_SIZE>>

\* Where block j begins, or what is free if there is none.
Start(space, j) == IF j <= Len(space.index) THEN space.index[j].at ELSE space.pos

\* The blocks lie one behind the other, and hold different objects.
Tiled(space) ==
  /\ Start(space, 1) = 0
  /\ \A j \in 1..Len(space.index) :
       LET b == space.index[j]
       IN  /\ Written(space.mem, b.object, b.at, b.size)
           /\ Start(space, j + 1) = b.at + b.size
           /\ b.at + b.size <= space.pos
  /\ \A j, m \in 1..Len(space.index) :
       space.index[j].object = space.index[m].object => j = m

Laid(space, n) ==
  /\ IsSpace(space) /\ space.size = n /\ Aligned(n)
  /\ DOMAIN space.mem = Offsets(n)
  /\ Aligned(space.pos) /\ Aligned(space.free_mem)
  /\ space.pos + space.free_mem = n
  /\ space.index \in Seq(Entries) /\ space.blocks = Len(space.index)
  /\ Tiled(space)

\* An empty space, as space_init and space_reset leave it.
LEMMA EmptyLaid ==
  ASSUME NEW n, Aligned(n)
  PROVE  Laid(EmptySpace(n), n) /\ ObjectsIn(EmptySpace(n)) = {}
<1> DEFINE s == EmptySpace(n)
<1>1. /\ IsSpace(s) /\ s.size = n /\ s.pos = 0 /\ s.free_mem = n
      /\ s.index = <<>> /\ s.blocks = 0 /\ DOMAIN s.mem = Offsets(n)
  BY EmptyIsSpace DEF EmptySpace
<1> HIDE DEF s
<1>2. Aligned(0) /\ 0 + n = n
  BY DEF Aligned, Word
<1>3. Tiled(s)
  BY <1>1 DEF Tiled, Start
<1> QED
  BY <1>1, <1>2, <1>3 DEF Laid, ObjectsIn, s

\* space_reset of the old space leaves its memory as it is.
LEMMA ResetLaid ==
  ASSUME NEW space, NEW n, Laid(space, n)
  PROVE  /\ Laid(SpaceReset(space), n)
         /\ ObjectsIn(SpaceReset(space)) = {}
         /\ SpaceReset(space).mem = space.mem /\ SpaceReset(space).pos = 0
<1> DEFINE s == SpaceReset(space)
<1>1. /\ s.size = n /\ s.pos = 0 /\ s.free_mem = n
      /\ s.index = <<>> /\ s.blocks = 0 /\ s.mem = space.mem
  BY DEF SpaceReset, Laid
<1>2. IsSpace(s)
  BY DEF SpaceReset, IsSpace
<1> HIDE DEF s
<1>3. Aligned(0) /\ 0 + n = n
  BY DEF Aligned, Word, Laid
<1>4. Tiled(s)
  BY <1>1 DEF Tiled, Start
<1> QED
  BY <1>1, <1>2, <1>3, <1>4 DEF Laid, ObjectsIn, s

\* space_alloc and space_move put a block behind the others: it is the last one
\* then, no other starts elsewhere, and no word outside of it changes.
LEMMA TakenLaid ==
  ASSUME NEW space, NEW n, Laid(space, n),
         NEW o \in Objects \ ObjectsIn(space),
         NEW sz, Aligned(sz), BHDR_SIZE <= sz, sz <= space.free_mem,
         NEW words, \A a \in Offsets(sz) : words[a] = <<o, a, sz - BHDR_SIZE>>
  PROVE  LET s == Taken(space, o, sz, words)
         IN  /\ Laid(s, n)
             /\ ObjectsIn(s) = ObjectsIn(space) \cup {o}
             /\ s.pos = space.pos + sz
             /\ s.blocks = space.blocks + 1
             /\ \A j \in 1..space.blocks + 1 : Start(s, j) = Start(space, j)
             /\ \A j \in 1..space.blocks : s.index[j] = space.index[j]
             /\ \A a \in Offsets(n) : a < space.pos \/ space.pos + sz <= a => s.mem[a] = space.mem[a]
<1> DEFINE s == Taken(space, o, sz, words)
           b == [object |-> o, at |-> space.pos, size |-> sz]
           L == Len(space.index)
<1>1. /\ s.size = n /\ s.pos = space.pos + sz /\ s.free_mem = space.free_mem - sz
      /\ s.blocks = space.blocks + 1 /\ s.index = Append(space.index, b)
      /\ s.mem = [a \in Offsets(n) |-> IF space.pos <= a /\ a < space.pos + sz
                                        THEN words[a - space.pos] ELSE space.mem[a]]
  BY DEF Taken, Laid
<1>2. IsSpace(s)
  BY TakenIsSpace DEF Laid
<1>3. /\ Aligned(n) /\ Aligned(space.pos) /\ Aligned(space.free_mem) /\ space.pos + space.free_mem = n
      /\ space.index \in Seq(Entries) /\ space.blocks = L /\ Tiled(space)
  BY DEF Laid
<1>4. b \in Entries /\ L \in Nat /\ sz \in Nat /\ space.pos \in Nat /\ space.free_mem \in Nat /\ n \in Nat
  BY <1>3 DEF Entries, Aligned
<1> HIDE DEF s, b
<1>5. /\ s.index \in Seq(Entries) /\ Len(s.index) = L + 1
      /\ s.index[L + 1] = b
      /\ \A j \in 1..L : s.index[j] = space.index[j]
  BY <1>1, <1>3, <1>4
<1>6. Aligned(s.pos) /\ Aligned(s.free_mem) /\ s.pos + s.free_mem = n
  <2>1. Aligned(space.pos + sz) /\ Aligned(space.free_mem - sz)
    BY <1>3, AlignedSum
  <2> QED
    BY <1>1, <1>3, <1>4, <2>1
<1>7. \A j \in 1..(L + 1) : Start(s, j) = Start(space, j)
  <2>1. b.at = space.pos
    BY DEF b
  <2> QED
    BY <1>4, <1>5, <2>1 DEF Start
<1>8. ASSUME NEW a \in Offsets(n), a < space.pos \/ space.pos + sz <= a
      PROVE  s.mem[a] = space.mem[a]
  <2>1. a \in Nat
    BY <1>3, OffsetsFacts DEF Aligned
  <2> QED
    BY <1>1, <1>4, <1>8, <2>1
<1>9. ASSUME NEW j \in 1..L
      PROVE  /\ Written(s.mem, s.index[j].object, s.index[j].at, s.index[j].size)
             /\ Start(s, j + 1) = s.index[j].at + s.index[j].size
             /\ s.index[j].at + s.index[j].size <= s.pos
  <2> DEFINE at == space.index[j].at
             m == space.index[j].size
             c == space.index[j].object
  <2>1. Written(space.mem, c, at, m) /\ Start(space, j + 1) = at + m /\ at + m <= space.pos
    BY <1>3 DEF Tiled
  <2>2. s.index[j] = space.index[j]
    BY <1>5
  <2> HIDE DEF at, m, c
  <2>3. ASSUME NEW a \in Offsets(m) PROVE s.mem[at + a] = space.mem[at + a]
    <3>1. Aligned(at) /\ Aligned(m)
      BY <2>1 DEF Written
    <3>2. Aligned(a) /\ a < m
      BY <3>1, OffsetsFacts
    <3>3. Aligned(at + a) /\ at + a < space.pos /\ at + a < n
      <4>1. Aligned(at + a)
        BY <3>1, <3>2, AlignedSum
      <4>2. at \in Nat /\ m \in Nat /\ a \in Nat
        BY <3>1, <3>2 DEF Aligned
      <4> QED
        BY <1>3, <1>4, <2>1, <3>2, <4>1, <4>2
    <3>4. at + a \in Offsets(n)
      BY <1>3, <3>3, OffsetsFacts
    <3> QED
      BY <1>8, <3>3, <3>4
  <2>4. Written(s.mem, c, at, m)
    BY <2>1, <2>3 DEF Written
  <2>5. at + m <= s.pos
    BY <1>1, <1>4, <2>1 DEF Written, Aligned
  <2>6. Start(s, j + 1) = at + m
    BY <1>4, <1>7, <2>1
  <2> QED
    BY <2>2, <2>4, <2>5, <2>6 DEF at, m, c
<1>10. /\ Written(s.mem, b.object, b.at, b.size)
       /\ Start(s, L + 2) = b.at + b.size /\ b.at + b.size <= s.pos
  <2>1. b.object = o /\ b.at = space.pos /\ b.size = sz
    BY DEF b
  <2>2. ASSUME NEW a \in Offsets(sz) PROVE s.mem[space.pos + a] = words[a]
    <3>1. Aligned(a) /\ a < sz
      BY OffsetsFacts
    <3>2. Aligned(space.pos + a) /\ space.pos + a < n
      BY <1>3, <1>4, <3>1, AlignedSum DEF Aligned
    <3>3. space.pos + a \in Offsets(n)
      BY <1>3, <3>2, OffsetsFacts
    <3>4. (space.pos + a) - space.pos = a /\ space.pos <= space.pos + a /\ space.pos + a < space.pos + sz
      BY <1>4, <3>1 DEF Aligned
    <3> QED
      BY <1>1, <3>3, <3>4
  <2>3. Written(s.mem, o, space.pos, sz)
    BY <1>3, <2>2 DEF Written
  <2>4. Start(s, L + 2) = s.pos
    BY <1>4, <1>5 DEF Start
  <2> QED
    BY <1>1, <1>4, <2>1, <2>3, <2>4
<1>11. Start(s, 1) = 0
  BY <1>3, <1>4, <1>7 DEF Tiled
<1>12. o \notin {space.index[j].object : j \in 1..L}
  BY <1>3, <1>4 DEF ObjectsIn
<1>13. ASSUME NEW j \in 1..(L + 1), NEW m \in 1..(L + 1), s.index[j].object = s.index[m].object
       PROVE  j = m
  <2>1. b.object = o
    BY DEF b
  <2>2. \A x, y \in 1..L : space.index[x].object = space.index[y].object => x = y
    BY <1>3 DEF Tiled
  <2>3. \A x \in 1..L : s.index[x].object = space.index[x].object
                          /\ s.index[x].object # s.index[L + 1].object
    BY <1>4, <1>5, <1>12, <2>1
  <2>4. j = L + 1 \/ j \in 1..L
    BY <1>4
  <2>5. m = L + 1 \/ m \in 1..L
    BY <1>4
  <2> QED
    BY <1>13, <2>2, <2>3, <2>4, <2>5
<1>14. Tiled(s)
  <2>1. ASSUME NEW j \in 1..(L + 1)
        PROVE  /\ Written(s.mem, s.index[j].object, s.index[j].at, s.index[j].size)
               /\ Start(s, j + 1) = s.index[j].at + s.index[j].size
               /\ s.index[j].at + s.index[j].size <= s.pos
    <3>1. CASE j \in 1..L
      BY <1>9, <3>1
    <3>2. CASE j = L + 1
      <4>1. j + 1 = L + 2 /\ s.index[j] = b
        BY <1>4, <1>5, <3>2
      <4> QED
        BY <1>10, <4>1
    <3> QED
      BY <1>4, <3>1, <3>2
  <2> QED
    BY <1>5, <1>11, <1>13, <2>1 DEF Tiled
<1>15. ObjectsIn(s) = ObjectsIn(space) \cup {o}
  <2>1. b.object = o
    BY DEF b
  <2>2. DOMAIN s.index = 1..(L + 1) /\ DOMAIN space.index = 1..L
    BY <1>3, <1>4, <1>5
  <2>3. s.index[L + 1].object = o /\ \A j \in 1..L : s.index[j].object = space.index[j].object
    BY <1>5, <2>1
  <2>4. 1..(L + 1) = 1..L \cup {L + 1}
    BY <1>4
  <2> QED
    BY <2>2, <2>3, <2>4 DEF ObjectsIn
<1>16. DOMAIN s.mem = Offsets(n)
  BY <1>1
<1>17. Laid(s, n)
  BY <1>1, <1>2, <1>3, <1>5, <1>6, <1>14, <1>16 DEF Laid
<1> QED
  BY <1>1, <1>3, <1>5, <1>7, <1>8, <1>15, <1>17 DEF s

-----------------------------------------------------------------------------
(* The invariant.                                                          *)

End(space, h) == h + (BHDR_SIZE + SizeAt(space, h))
LiveObjects == {ObjectAt(old, live[j]) : j \in DOMAIN live}

\* The headers in the live set are those of whole blocks, in the order in which
\* they lie, of different objects.
LiveInv ==
  /\ live \in Seq(Nat)
  /\ \A j \in 1..Len(live) :
       /\ Written(old.mem, ObjectAt(old, live[j]), live[j], BHDR_SIZE + SizeAt(old, live[j]))
       /\ End(old, live[j]) <= OldSize
  /\ \A j, m \in 1..Len(live) :
       j < m => End(old, live[j]) <= live[m] /\ ObjectAt(old, live[j]) # ObjectAt(old, live[m])

\* The loops stand at the header of the block that their count says.
LoopInv ==
  /\ i \in Nat /\ hdr \in Nat
  /\ pc \in {"walk", "scan"} => i <= old.blocks /\ hdr = Start(old, i + 1)

\* The live set has what is marked of the blocks behind which the loop stands.
WalkInv ==
  pc = "walk" =>
    /\ marked \subseteq ObjectsIn(old)
    /\ \A j \in 1..Len(live) : End(old, live[j]) <= hdr
    /\ LiveObjects = marked \cap {old.index[m].object : m \in 1..i}

\* What has been moved ends before what has not.
MoveInv ==
  pc = "move" =>
    /\ LiveObjects = marked /\ marked \cap ObjectsIn(old) = {}
    /\ \A j \in 1..Len(live) : old.pos <= live[j]

PhaseInv ==
  /\ pc \in {"run", "retry", "walk", "move", "scan", "fatal", "out of memory"}
  /\ pc \notin {"walk", "move"} => live = <<>>

LayoutInv ==
  /\ Laid(fresh, FreshSize) /\ Laid(old, OldSize)
  /\ full_gc \in BOOLEAN /\ marked \subseteq Objects
  /\ LiveInv /\ LoopInv /\ WalkInv /\ MoveInv /\ PhaseInv

\* space_alloc of a block that fits, for an object that has none.
LEMMA AllocLaid ==
  ASSUME NEW space, NEW n, Laid(space, n), NEW o \in Objects \ ObjectsIn(space),
         NEW m \in Nat, Fits(space, Need(m))
  PROVE  LET s == SpaceAlloc(space, o, m)
         IN  /\ Laid(s, n) /\ s.blocks = space.blocks + 1
             /\ ObjectsIn(s) = ObjectsIn(space) \cup {o}
             /\ \A j \in 1..space.blocks + 1 : Start(s, j) = Start(space, j)
<1>1. Aligned(Need(m)) /\ BHDR_SIZE <= Need(m)
  BY NeedFacts DEF Aligned, BHDR_SIZE
<1>2. \A a \in Offsets(Need(m)) : Block(o, Need(m))[a] = <<o, a, Need(m) - BHDR_SIZE>>
  BY DEF Block
<1>3. Need(m) <= space.free_mem
  BY DEF Fits
<1> QED
  BY <1>1, <1>2, <1>3, TakenLaid DEF SpaceAlloc

\* The header of a block that is written somewhere says its object and its size.
LEMMA HeaderOf ==
  ASSUME NEW space, NEW o, NEW at, NEW n, Written(space.mem, o, at, n)
  PROVE  ObjectAt(space, at) = o /\ SizeAt(space, at) = n - BHDR_SIZE /\ BHDR_SIZE + SizeAt(space, at) = n
<1>1. Aligned(n) /\ Aligned(at) /\ Aligned(0) /\ 0 < n
  BY DEF Written, Aligned, Word, BHDR_SIZE
<1>2. 0 \in Offsets(n)
  BY <1>1, OffsetsFacts
<1>3. space.mem[at + 0] = <<o, 0, n - BHDR_SIZE>> /\ at + 0 = at
  BY <1>1, <1>2 DEF Written, Aligned
<1> QED
  BY <1>1, <1>3 DEF ObjectAt, SizeAt, Aligned, BHDR_SIZE

\* The step of the loops, from a header to the next one.
LEMMA NextHdrStart ==
  ASSUME NEW space, NEW n, Laid(space, n), NEW j \in Nat, j < space.blocks
  PROVE  LET b == space.index[j + 1]
         IN  /\ Start(space, j + 1) = b.at /\ b.object \in Objects
             /\ Written(space.mem, b.object, b.at, b.size)
             /\ ObjectAt(space, b.at) = b.object
             /\ NextHdr(space, b.at) = Start(space, j + 2)
             /\ Start(space, j + 2) \in Nat
             /\ Start(space, j + 2) = b.at + b.size /\ BHDR_SIZE + SizeAt(space, b.at) = b.size
             /\ Start(space, j + 2) <= n
<1> DEFINE b == space.index[j + 1]
<1>1. space.index \in Seq(Entries) /\ space.blocks = Len(space.index) /\ Tiled(space)
  BY DEF Laid
<1>2. j + 1 \in 1..Len(space.index) /\ (j + 1) + 1 = j + 2
  BY <1>1
<1>3. b \in Entries
  BY <1>1, <1>2
<1>4. /\ Written(space.mem, b.object, b.at, b.size)
      /\ Start(space, j + 2) = b.at + b.size /\ b.at + b.size <= space.pos
  BY <1>1, <1>2 DEF Tiled
<1>5. Start(space, j + 1) = b.at
  BY <1>2 DEF Start
<1>6. b.object \in Objects /\ b.at \in Nat /\ b.size \in Nat
  BY <1>3 DEF Entries
<1> HIDE DEF b
<1>7. ObjectAt(space, b.at) = b.object /\ BHDR_SIZE + SizeAt(space, b.at) = b.size
  BY <1>4, HeaderOf
<1>8. NextHdr(space, b.at) = b.at + b.size
  BY <1>6, <1>7 DEF NextHdr
<1>9. space.pos <= n
  BY DEF Laid, Aligned
<1>10. b.at + b.size \in Nat /\ b.at + b.size <= n
  <2>1. space.pos \in Nat /\ n \in Nat
    BY DEF Laid, Aligned
  <2> QED
    BY <1>4, <1>6, <1>9, <2>1
<1> QED
  BY <1>4, <1>5, <1>6, <1>7, <1>8, <1>10 DEF b

\* Blocks hold objects.
LEMMA KnownObjects ==
  ASSUME NEW space, NEW n, Laid(space, n)
  PROVE  ObjectsIn(space) \subseteq Objects
<1>1. space.index \in Seq(Entries)
  BY DEF Laid
<1>2. ASSUME NEW j \in DOMAIN space.index PROVE space.index[j].object \in Objects
  <2>1. space.index[j] \in Entries
    BY <1>1, <1>2
  <2> QED
    BY <2>1 DEF Entries
<1> QED
  BY <1>2 DEF ObjectsIn

-----------------------------------------------------------------------------
(* The steps keep it.                                                      *)

\* heap_init leaves two empty spaces.
LEMMA InitLayout == Init => LayoutInv
<1> SUFFICES ASSUME Init PROVE LayoutInv
  OBVIOUS
<1>1. Aligned(FreshSize) /\ Aligned(OldSize)
  BY SpaceAssumption DEF Aligned
<1>2. Laid(fresh, FreshSize) /\ Laid(old, OldSize)
  BY <1>1, EmptyLaid DEF Init
<1>3. live = <<>> /\ pc = "run" /\ i = 0 /\ hdr = 0 /\ marked = {} /\ full_gc = FALSE
  BY DEF Init
<1>4. LiveInv
  BY <1>3 DEF LiveInv
<1> QED
  BY <1>2, <1>3, <1>4 DEF LayoutInv, LoopInv, WalkInv, MoveInv, PhaseInv

\* The entry of heap_gc: the loop stands at the first header.
LEMMA CollectLayout ==
  ASSUME LayoutInv, Collect, UNCHANGED <<fresh, old, full_gc>>
  PROVE  LayoutInv'
<1>1. /\ i' = 0 /\ hdr' = 0 /\ live' = <<>> /\ pc' \in {"walk", "scan"}
      /\ marked' \subseteq ObjectsIn(old)
  BY Zenon DEF Collect
<1>2. Laid(fresh', FreshSize) /\ Laid(old', OldSize)
  BY DEF LayoutInv
<1>3. ObjectsIn(old) \subseteq Objects /\ 0 <= old.blocks /\ Start(old, 0 + 1) = 0
  <2>1. old.index \in Seq(Entries) /\ old.blocks = Len(old.index) /\ Start(old, 1) = 0
    BY DEF LayoutInv, Laid, Tiled
  <2> QED
    BY <2>1, KnownObjects DEF LayoutInv
<1>4. LiveObjects' = {} /\ {old'.index[m].object : m \in 1..i'} = {}
  BY <1>1 DEF LiveObjects
<1>5. LiveInv'
  BY <1>1 DEF LiveInv
<1>6. LoopInv'
  BY <1>1, <1>3 DEF LoopInv, Start
<1>7. WalkInv' /\ MoveInv' /\ PhaseInv'
  BY <1>1, <1>4 DEF WalkInv, MoveInv, PhaseInv, ObjectsIn
<1> QED
  BY <1>1, <1>2, <1>3, <1>5, <1>6, <1>7 DEF LayoutInv

\* Steps of the thread do not touch old space.
LEMMA FreshStep ==
  ASSUME LayoutInv, Laid(fresh', FreshSize), UNCHANGED <<old, full_gc, marked, walk>>,
         pc \in {"run", "retry"}, pc' \in {"run", "retry", "fatal"}
  PROVE  LayoutInv'
<1>1. live' = <<>> /\ live = <<>> /\ i' = i /\ hdr' = hdr
  BY DEF LayoutInv, PhaseInv, walk
<1>2. LiveInv'
  BY <1>1 DEF LiveInv
<1>3. LoopInv' /\ WalkInv' /\ MoveInv' /\ PhaseInv'
  BY <1>1 DEF LayoutInv, LoopInv, WalkInv, MoveInv, PhaseInv
<1> QED
  BY <1>2, <1>3 DEF LayoutInv

\* An allocation puts its block behind the others of fresh space.
LEMMA AllocatedLayout ==
  ASSUME LayoutInv, pc \in {"run", "retry"}, NEW n \in Sizes, Fits(fresh, Need(n)),
         Allocated(n), UNCHANGED <<old, full_gc, marked, walk>>
  PROVE  LayoutInv'
<1>1. PICK o \in Unused : fresh' = SpaceAlloc(fresh, o, n)
  BY DEF Allocated
<1>2. o \in Objects \ ObjectsIn(fresh) /\ n \in Nat
  BY <1>1, SpaceAssumption DEF Unused
<1>3. Laid(fresh', FreshSize)
  BY <1>1, <1>2, AllocLaid DEF LayoutInv
<1>4. pc' = "run"
  BY DEF Allocated
<1> QED
  BY <1>3, <1>4, FreshStep

\* heap_alloc
LEMMA HeapAllocLayout == LayoutInv /\ HeapAlloc => LayoutInv'
<1> SUFFICES ASSUME LayoutInv, HeapAlloc PROVE LayoutInv'
  OBVIOUS
<1>1. PICK n \in Sizes :
        IF Fits(fresh, Need(n)) THEN Allocated(n) /\ UNCHANGED <<old, full_gc, marked, walk>>
        ELSE Collect /\ UNCHANGED <<fresh, old, full_gc, room>>
  BY Zenon DEF HeapAlloc
<1>2. pc = "run"
  BY DEF HeapAlloc
<1>3. CASE Fits(fresh, Need(n))
  BY <1>1, <1>2, <1>3, AllocatedLayout
<1>4. CASE ~Fits(fresh, Need(n))
  BY <1>1, <1>4, CollectLayout
<1> QED
  BY <1>3, <1>4

\* heap_alloc after a collection
LEMMA RetryLayout == FreshInv /\ LayoutInv /\ Retry => LayoutInv'
<1> SUFFICES ASSUME FreshInv, LayoutInv, Retry PROVE LayoutInv'
  OBVIOUS
<1>1. pc = "retry" /\ asked \in Sizes /\ UNCHANGED <<old, full_gc, marked, walk>>
  BY DEF Retry, FreshInv
<1>2. CASE Fits(fresh, Need(asked))
  <2>1. Allocated(asked)
    BY <1>2 DEF Retry
  <2> QED
    BY <1>1, <1>2, <2>1, AllocatedLayout
<1>3. CASE ~Fits(fresh, Need(asked))
  <2>1. pc' = "fatal" /\ fresh' = fresh
    BY <1>3 DEF Retry
  <2>2. Laid(fresh', FreshSize)
    BY <2>1 DEF LayoutInv
  <2> QED
    BY <1>1, <2>1, <2>2, FreshStep
<1> QED
  BY <1>2, <1>3

\* heap_require and heap_require_blocks move nothing before the collection.
LEMMA RequiringLayout ==
  ASSUME LayoutInv, NEW checked, NEW promised, Requiring(checked, promised)
  PROVE  LayoutInv'
<1>1. UNCHANGED <<fresh, old, full_gc>> /\ pc = "run"
  BY DEF Requiring
<1>2. CASE SpaceEnough(fresh, checked)
  <2>1. UNCHANGED <<pc, marked, walk>>
    BY <1>2 DEF Requiring
  <2>2. Laid(fresh', FreshSize)
    BY <1>1 DEF LayoutInv
  <2> QED
    BY <1>1, <2>1, <2>2, FreshStep
<1>3. CASE ~SpaceEnough(fresh, checked)
  <2>1. Collect
    BY <1>3 DEF Requiring
  <2> QED
    BY <1>1, <2>1, CollectLayout
<1> QED
  BY <1>2, <1>3

\* Blocks of the live set begin and end at whole words.
LEMMA LiveEnds ==
  ASSUME LiveInv, NEW j \in 1..Len(live)
  PROVE  /\ live[j] \in Nat /\ Aligned(live[j]) /\ Aligned(BHDR_SIZE + SizeAt(old, live[j]))
         /\ BHDR_SIZE <= BHDR_SIZE + SizeAt(old, live[j])
         /\ End(old, live[j]) \in Nat /\ live[j] < End(old, live[j])
<1>1. Written(old.mem, ObjectAt(old, live[j]), live[j], BHDR_SIZE + SizeAt(old, live[j]))
  BY DEF LiveInv
<1> DEFINE n == BHDR_SIZE + SizeAt(old, live[j])
           h == live[j]
<1>2. Aligned(h) /\ Aligned(n) /\ BHDR_SIZE <= n
  BY <1>1 DEF Written
<1>3. End(old, h) = h + n
  BY DEF End
<1> HIDE DEF n, h
<1>4. h \in Nat /\ h + n \in Nat /\ h < h + n
  BY <1>2 DEF Aligned, BHDR_SIZE
<1> QED
  BY <1>2, <1>3, <1>4 DEF n, h

\* One step of the loop of heap_gc_old over the blocks.
LEMMA WalkLayout == LayoutInv /\ Walk => LayoutInv'
<1> SUFFICES ASSUME LayoutInv, Walk PROVE LayoutInv'
  OBVIOUS
<1> DEFINE b == old.index[i + 1]
           L == Len(live)
<1>1. /\ pc = "walk" /\ i < old.blocks /\ i' = i + 1 /\ hdr' = NextHdr(old, hdr)
      /\ UNCHANGED <<fresh, old, full_gc, pc, marked>>
      /\ live' = IF ObjectAt(old, hdr) \in marked THEN Append(live, hdr) ELSE live
  BY DEF Walk, AppendRemembered
<1>2. Laid(old, OldSize) /\ i \in Nat /\ hdr \in Nat /\ hdr = Start(old, i + 1) /\ LiveInv
  BY <1>1 DEF LayoutInv, LoopInv
<1>3. /\ hdr = b.at /\ b.object \in Objects /\ ObjectAt(old, hdr) = b.object
      /\ Written(old.mem, b.object, hdr, b.size) /\ BHDR_SIZE + SizeAt(old, hdr) = b.size
      /\ hdr' = Start(old, i + 2) /\ hdr' = hdr + b.size /\ hdr' \in Nat /\ hdr' <= OldSize
  BY <1>1, <1>2, NextHdrStart
<1>4. /\ marked \subseteq ObjectsIn(old)
      /\ \A j \in 1..L : End(old, live[j]) <= hdr
      /\ LiveObjects = marked \cap {old.index[m].object : m \in 1..i}
  BY <1>1 DEF LayoutInv, WalkInv
<1>5. old.blocks = Len(old.index) /\ old.blocks \in Nat /\ i + 1 \in 1..old.blocks
  <2>1. old.blocks = Len(old.index) /\ old.index \in Seq(Entries)
    BY <1>2 DEF Laid
  <2> QED
    BY <1>1, <1>2, <2>1
<1>6. \A m \in 1..i : old.index[m].object # b.object
  <2>1. \A x, y \in 1..old.blocks : old.index[x].object = old.index[y].object => x = y
    BY <1>2, <1>5 DEF Laid, Tiled
  <2> QED
    BY <1>2, <1>5, <2>1
<1>7. {old.index[m].object : m \in 1..(i + 1)} = {old.index[m].object : m \in 1..i} \cup {b.object}
  <2>1. 1..(i + 1) = 1..i \cup {i + 1}
    BY <1>2
  <2> QED
    BY <2>1
<1>8. hdr <= hdr' /\ i' \in Nat /\ i' <= old'.blocks /\ hdr' = Start(old', i' + 1)
  <2>1. b.size \in Nat /\ (i + 1) + 1 = i + 2
    BY <1>2, <1>3 DEF Written, Aligned
  <2> QED
    BY <1>1, <1>2, <1>3, <1>5, <2>1
<1> HIDE DEF b
<1>9. \A j \in 1..L : End(old, live[j]) <= hdr'
  BY <1>2, <1>3, <1>4, <1>8, LiveEnds
<1>10. live \in Seq(Nat) /\ L \in Nat /\ DOMAIN live = 1..L
  BY <1>2 DEF LiveInv
<1>11. LiveInv' /\ WalkInv'
  <2>1. CASE b.object \notin marked
    <3>1. live' = live /\ LiveObjects' = LiveObjects
      BY <1>1, <1>3, <2>1 DEF LiveObjects
    <3>2. LiveInv'
      BY <1>1, <1>2, <3>1 DEF LiveInv
    <3>3. LiveObjects' = marked' \cap {old'.index[m].object : m \in 1..i'}
      BY <1>1, <1>4, <1>7, <2>1, <3>1
    <3> QED
      BY <1>1, <1>4, <1>9, <3>1, <3>2, <3>3 DEF WalkInv, End
  <2>2. CASE b.object \in marked
    <3>1. live' = Append(live, hdr)
      BY <1>1, <1>3, <2>2
    <3>2. /\ live' \in Seq(Nat) /\ Len(live') = L + 1 /\ live'[L + 1] = hdr
          /\ \A j \in 1..L : live'[j] = live[j]
      BY <1>2, <1>10, <3>1
    <3>3. End(old, hdr) = hdr' /\ hdr' <= OldSize
      BY <1>3 DEF End
    <3>4. ASSUME NEW j \in 1..(L + 1)
          PROVE  /\ Written(old.mem, ObjectAt(old, live'[j]), live'[j], BHDR_SIZE + SizeAt(old, live'[j]))
                 /\ End(old, live'[j]) <= OldSize /\ End(old, live'[j]) <= hdr'
      <4>1. CASE j \in 1..L
        BY <1>2, <1>9, <3>2, <4>1 DEF LiveInv
      <4>2. CASE j = L + 1
        BY <1>3, <3>2, <3>3, <4>2
      <4> QED
        BY <1>10, <4>1, <4>2
    <3>5. ASSUME NEW j \in 1..(L + 1), NEW m \in 1..(L + 1), j < m
          PROVE  End(old, live'[j]) <= live'[m] /\ ObjectAt(old, live'[j]) # ObjectAt(old, live'[m])
      <4>1. j \in 1..L
        BY <1>10, <3>5
      <4>2. CASE m \in 1..L
        BY <1>2, <3>2, <3>5, <4>1, <4>2 DEF LiveInv
      <4>3. CASE m = L + 1
        <5>1. live'[m] = hdr /\ live'[j] = live[j]
          BY <3>2, <4>1, <4>3
        <5>2. ObjectAt(old, live[j]) \in {old.index[x].object : x \in 1..i}
          BY <1>4, <1>10, <4>1 DEF LiveObjects
        <5> QED
          BY <1>3, <1>4, <1>6, <4>1, <5>1, <5>2
      <4> QED
        BY <1>10, <4>2, <4>3
    <3>6. LiveInv'
      <4>1. old' = old /\ Len(live') = L + 1 /\ live' \in Seq(Nat)
        BY <1>1, <3>2
      <4> QED
        BY <3>4, <3>5, <4>1 DEF LiveInv
    <3>7. LiveObjects' = LiveObjects \cup {b.object}
      <4>1. DOMAIN live' = 1..L \cup {L + 1}
        BY <1>10, <3>2
      <4> QED
        BY <1>1, <1>3, <1>10, <3>2, <4>1 DEF LiveObjects, ObjectAt
    <3>8. LiveObjects' = marked' \cap {old'.index[m].object : m \in 1..i'}
      BY <1>1, <1>4, <1>7, <2>2, <3>7
    <3> QED
      BY <1>1, <1>4, <3>2, <3>4, <3>6, <3>8 DEF WalkInv, End
  <2> QED
    BY <2>1, <2>2
<1>12. LoopInv' /\ MoveInv' /\ PhaseInv'
  BY <1>1, <1>3, <1>8 DEF LayoutInv, LoopInv, MoveInv, PhaseInv
<1> QED
  BY <1>1, <1>11, <1>12 DEF LayoutInv

\* space_reset before the compaction: what has been found is all that is marked.
LEMMA OldResetLayout == LayoutInv /\ OldReset => LayoutInv'
<1> SUFFICES ASSUME LayoutInv, OldReset PROVE LayoutInv'
  OBVIOUS
<1>1. /\ pc = "walk" /\ i = old.blocks /\ old' = SpaceReset(old) /\ pc' = "move"
      /\ UNCHANGED <<fresh, full_gc, marked>> /\ live' = live /\ i' = i /\ hdr' = hdr
  BY DEF OldReset, walk
<1>2. /\ Laid(old, OldSize) /\ old.index \in Seq(Entries) /\ old.blocks = Len(old.index)
  BY DEF LayoutInv, Laid
<1>3. Laid(old', OldSize) /\ ObjectsIn(old') = {} /\ old'.mem = old.mem /\ old'.pos = 0
  BY <1>1, <1>2, ResetLaid
<1>4. LiveInv'
  BY <1>1, <1>3 DEF LayoutInv, LiveInv, End, ObjectAt, SizeAt
<1>5. LiveObjects' = marked'
  <2>1. ObjectsIn(old) = {old.index[m].object : m \in 1..i}
    BY <1>1, <1>2 DEF ObjectsIn
  <2>2. LiveObjects = marked
    BY <1>1, <2>1 DEF LayoutInv, WalkInv
  <2> QED
    BY <1>1, <1>3, <2>2 DEF LiveObjects, ObjectAt
<1>6. \A j \in 1..Len(live') : old'.pos <= live'[j]
  BY <1>1, <1>3, LiveEnds DEF LayoutInv
<1> QED
  BY <1>1, <1>3, <1>4, <1>5, <1>6 DEF LayoutInv, LoopInv, WalkInv, MoveInv, PhaseInv

\* space_move of the next block: it goes to where it is or below, so that it
\* fits, and neither the blocks moved before nor those to come are written over.
LEMMA MoveLayout == LayoutInv /\ Move => LayoutInv'
<1> SUFFICES ASSUME LayoutInv, Move PROVE LayoutInv'
  OBVIOUS
<1> DEFINE h == live[1]
           o == ObjectAt(old, h)
           n == BHDR_SIZE + SizeAt(old, h)
           L == Len(live)
           words == [a \in Offsets(n) |-> old.mem[h + a]]
<1>1. pc = "move" /\ live # <<>> /\ UNCHANGED <<fresh, full_gc, i, hdr>>
  BY DEF Move
<1>2. LiveInv /\ Laid(old, OldSize) /\ marked \subseteq Objects
  BY DEF LayoutInv
<1>3. /\ LiveObjects = marked /\ marked \cap ObjectsIn(old) = {}
      /\ \A j \in 1..L : old.pos <= live[j]
  BY <1>1 DEF LayoutInv, MoveInv
<1>4. live \in Seq(Nat) /\ L \in Nat /\ L >= 1 /\ DOMAIN live = 1..L /\ Head(live) = h
  BY <1>1, <1>2 DEF LiveInv
<1>5. Written(old.mem, o, h, n) /\ End(old, h) <= OldSize /\ old.pos <= h /\ o \in marked
  BY <1>2, <1>3, <1>4 DEF LiveInv, LiveObjects
<1>6. Aligned(h) /\ Aligned(n) /\ BHDR_SIZE <= n /\ End(old, h) = h + n
  BY <1>5 DEF Written, End
<1>7. /\ Aligned(old.pos) /\ Aligned(old.free_mem) /\ old.pos + old.free_mem = OldSize
      /\ Aligned(OldSize)
  BY <1>2 DEF Laid
<1>8. \A a \in Offsets(n) : words[a] = <<o, a, n - BHDR_SIZE>>
  BY <1>5 DEF Written
<1>9. SpaceMove(old, h) = Taken(old, o, n, words)
  BY DEF SpaceMove
<1> HIDE DEF h, o, n, words
<1>10. n <= old.free_mem /\ old.pos + n <= h + n /\ h + n <= OldSize
  BY <1>5, <1>6, <1>7 DEF Aligned
<1>11. Fits(old, BHDR_SIZE + SizeAt(old, Head(live)))
  BY <1>4, <1>10 DEF Fits, n
<1>12. /\ old' = Taken(old, o, n, words) /\ marked' = marked \ {o} /\ live' = Tail(live)
       /\ pc' = "move"
  BY <1>1, <1>4, <1>9, <1>11 DEF Move, o, n
<1>13. /\ Laid(old', OldSize) /\ ObjectsIn(old') = ObjectsIn(old) \cup {o}
       /\ old'.pos = old.pos + n
       /\ \A a \in Offsets(OldSize) : old.pos + n <= a => old'.mem[a] = old.mem[a]
  <2>1. o \in Objects \ ObjectsIn(old)
    BY <1>2, <1>3, <1>5
  <2> QED
    BY <1>2, <1>6, <1>8, <1>10, <1>12, <2>1, TakenLaid
<1>14. /\ live' \in Seq(Nat) /\ Len(live') = L - 1 /\ DOMAIN live' = 1..(L - 1)
       /\ \A j \in 1..(L - 1) : live'[j] = live[j + 1]
  BY <1>4, <1>12
<1>15. ASSUME NEW j \in 2..L
       PROVE  /\ Written(old'.mem, ObjectAt(old, live[j]), live[j], BHDR_SIZE + SizeAt(old, live[j]))
              /\ ObjectAt(old', live[j]) = ObjectAt(old, live[j])
              /\ SizeAt(old', live[j]) = SizeAt(old, live[j])
              /\ old'.pos <= live[j] /\ ObjectAt(old, live[j]) # o
  <2> DEFINE at == live[j]
             m == BHDR_SIZE + SizeAt(old, at)
             c == ObjectAt(old, at)
  <2>1. j \in 1..L /\ 1 \in 1..L /\ 1 < j
    BY <1>4
  <2>2. Written(old.mem, c, at, m) /\ End(old, at) <= OldSize /\ End(old, h) <= at /\ c # o
    BY <1>2, <2>1 DEF LiveInv, h, o
  <2>3. Aligned(at) /\ Aligned(m) /\ at + m <= OldSize /\ BHDR_SIZE <= m
    BY <2>2 DEF Written, End
  <2> HIDE DEF at, m, c
  <2>4. old.pos + n <= at
    BY <1>5, <1>6, <1>7, <1>10, <2>2, <2>3 DEF Aligned
  <2>5. ASSUME NEW a \in Offsets(m) PROVE old'.mem[at + a] = old.mem[at + a]
    <3>1. Aligned(a) /\ a < m
      BY <2>3, OffsetsFacts
    <3>2. Aligned(at + a)
      BY <2>3, <3>1, AlignedSum
    <3>3. at + a < OldSize /\ old.pos + n <= at + a
      BY <1>6, <1>7, <2>3, <2>4, <3>1 DEF Aligned
    <3>4. at + a \in Offsets(OldSize)
      BY <1>7, <3>2, <3>3, OffsetsFacts
    <3> QED
      BY <1>13, <3>3, <3>4
  <2>6. Written(old'.mem, c, at, m)
    BY <2>2, <2>5 DEF Written
  <2>7. ObjectAt(old', at) = c /\ SizeAt(old', at) = m - BHDR_SIZE /\ SizeAt(old, at) = m - BHDR_SIZE
    BY <2>2, <2>6, HeaderOf
  <2> QED
    BY <1>13, <2>2, <2>4, <2>6, <2>7 DEF at, m, c
<1>16. LiveInv'
  <2>1. ASSUME NEW j \in 1..(L - 1)
        PROVE  /\ Written(old'.mem, ObjectAt(old', live'[j]), live'[j],
                          BHDR_SIZE + SizeAt(old', live'[j]))
               /\ End(old', live'[j]) <= OldSize
    <3>1. j + 1 \in 2..L /\ j + 1 \in 1..L /\ live'[j] = live[j + 1]
      BY <1>4, <1>14
    <3>2. End(old, live[j + 1]) <= OldSize
      BY <1>2, <3>1 DEF LiveInv
    <3> QED
      BY <1>15, <3>1, <3>2 DEF End
  <2>2. ASSUME NEW j \in 1..(L - 1), NEW m \in 1..(L - 1), j < m
        PROVE  /\ End(old', live'[j]) <= live'[m]
               /\ ObjectAt(old', live'[j]) # ObjectAt(old', live'[m])
    <3>1. /\ j + 1 \in 2..L /\ live'[j] = live[j + 1]
          /\ m + 1 \in 2..L /\ live'[m] = live[m + 1]
          /\ j + 1 \in 1..L /\ m + 1 \in 1..L /\ j + 1 < m + 1
      <4>1. \A x \in 1..(L - 1) : x \in Nat /\ x + 1 \in 2..L /\ x + 1 \in 1..L
        BY <1>4
      <4>2. j + 1 < m + 1
        BY <2>2, <4>1
      <4> QED
        BY <1>14, <4>1, <4>2
    <3>2. End(old, live[j + 1]) <= live[m + 1] /\ ObjectAt(old, live[j + 1]) # ObjectAt(old, live[m + 1])
      BY <1>2, <3>1 DEF LiveInv
    <3> QED
      BY <1>15, <3>1, <3>2 DEF End
  <2> QED
    BY <1>14, <2>1, <2>2 DEF LiveInv
<1>17. LiveObjects' = marked'
  <2>1. LiveObjects = {o} \cup {ObjectAt(old, live[j]) : j \in 2..L}
    <3>1. 1..L = {1} \cup 2..L
      BY <1>4
    <3> QED
      BY <1>4, <3>1 DEF LiveObjects, o, h
  <2>2. LiveObjects' = {ObjectAt(old, live[j]) : j \in 2..L}
    <3>1. LiveObjects' = {ObjectAt(old', live'[j]) : j \in 1..(L - 1)}
      BY <1>14 DEF LiveObjects
    <3>2. ASSUME NEW j \in 1..(L - 1)
          PROVE  j + 1 \in 2..L /\ ObjectAt(old', live'[j]) = ObjectAt(old, live[j + 1])
      <4>1. j + 1 \in 2..L
        BY <1>4
      <4> QED
        BY <1>14, <1>15, <4>1
    <3>3. ASSUME NEW j \in 2..L
          PROVE  j - 1 \in 1..(L - 1) /\ ObjectAt(old', live'[j - 1]) = ObjectAt(old, live[j])
      <4>1. j - 1 \in 1..(L - 1) /\ (j - 1) + 1 = j
        BY <1>4
      <4> QED
        BY <1>14, <1>15, <4>1
    <3> QED
      BY <3>1, <3>2, <3>3
  <2> QED
    BY <1>3, <1>12, <1>15, <2>1, <2>2
<1>18. marked' \cap ObjectsIn(old') = {}
  BY <1>3, <1>12, <1>13
<1>19. ASSUME NEW j \in 1..Len(live') PROVE old'.pos <= live'[j]
  <2>1. j + 1 \in 2..L /\ live'[j] = live[j + 1]
    BY <1>4, <1>14
  <2> QED
    BY <1>15, <2>1
<1>20. LoopInv' /\ WalkInv' /\ MoveInv' /\ PhaseInv'
  BY <1>1, <1>12, <1>17, <1>18, <1>19 DEF LayoutInv, LoopInv, WalkInv, MoveInv, PhaseInv
<1> QED
  BY <1>1, <1>2, <1>12, <1>13, <1>16, <1>20 DEF LayoutInv

\* The second pass, or the only one, begins at the first block.
LEMMA MovedLayout == LayoutInv /\ Moved => LayoutInv'
<1> SUFFICES ASSUME LayoutInv, Moved PROVE LayoutInv'
  OBVIOUS
<1>1. /\ live = <<>> /\ live' = <<>> /\ pc' = "scan" /\ i' = 0 /\ hdr' = 0 /\ full_gc' = FALSE
      /\ UNCHANGED <<fresh, old, marked>>
  BY DEF Moved
<1>2. 0 <= old.blocks /\ Start(old, 0 + 1) = 0
  BY DEF LayoutInv, Laid, Tiled
<1>3. LiveInv'
  BY <1>1 DEF LiveInv
<1>4. LoopInv'
  BY <1>1, <1>2 DEF LoopInv, Start
<1> QED
  BY <1>1, <1>3, <1>4 DEF LayoutInv, WalkInv, MoveInv, PhaseInv

\* One step of the loop of heap_scan_old.
LEMMA ScanOldLayout == LayoutInv /\ ScanOld => LayoutInv'
<1> SUFFICES ASSUME LayoutInv, ScanOld PROVE LayoutInv'
  OBVIOUS
<1>1. /\ pc = "scan" /\ i < old.blocks /\ i' = i + 1 /\ hdr' = NextHdr(old, hdr)
      /\ UNCHANGED <<fresh, old, full_gc, pc, marked, live>>
  BY DEF ScanOld
<1>2. /\ Laid(old, OldSize) /\ i \in Nat /\ hdr = Start(old, i + 1) /\ live = <<>>
      /\ old.blocks \in Nat
  BY <1>1 DEF LayoutInv, LoopInv, PhaseInv, Laid
<1>3. hdr' = Start(old, i + 2) /\ hdr' \in Nat
  BY <1>1, <1>2, NextHdrStart
<1>4. LoopInv'
  <2>1. (i + 1) + 1 = i + 2 /\ i + 1 \in Nat /\ i + 1 <= old.blocks
    BY <1>1, <1>2
  <2> QED
    BY <1>1, <1>3, <2>1 DEF LoopInv, Start
<1>5. LiveInv'
  BY <1>1, <1>2 DEF LiveInv
<1> QED
  BY <1>1, <1>2, <1>4, <1>5 DEF LayoutInv, WalkInv, MoveInv, PhaseInv

\* A block that comes to old space during the loop: it still stands on a header,
\* which is that of the new block when it stood behind the last one.
LEMMA PromoteLayout == LayoutInv /\ Promote => LayoutInv'
<1> SUFFICES ASSUME LayoutInv, Promote PROVE LayoutInv'
  OBVIOUS
<1>1. pc = "scan" /\ UNCHANGED <<fresh, full_gc, marked, i, hdr, live>>
  BY DEF Promote, walk
<1>2. /\ Laid(old, OldSize) /\ i \in Nat /\ hdr \in Nat /\ hdr = Start(old, i + 1) /\ live = <<>>
      /\ old.blocks \in Nat /\ i <= old.blocks
  BY <1>1 DEF LayoutInv, LoopInv, PhaseInv, Laid
<1>3. LiveInv'
  BY <1>1, <1>2 DEF LiveInv
<1>4. PICK n \in Sizes :
        IF Fits(old, Need(n))
        THEN (\E o \in Unused : old' = SpaceAlloc(old, o, n)) /\ pc' = pc
        ELSE pc' = "out of memory" /\ old' = old
  BY Zenon DEF Promote
<1>5. CASE Fits(old, Need(n))
  <2>1. PICK o \in Unused : old' = SpaceAlloc(old, o, n)
    BY <1>4, <1>5
  <2>2. o \in Objects \ ObjectsIn(old) /\ n \in Nat
    BY SpaceAssumption DEF Unused
  <2>3. /\ Laid(old', OldSize) /\ old'.blocks = old.blocks + 1
        /\ \A j \in 1..old.blocks + 1 : Start(old', j) = Start(old, j)
    BY <1>2, <1>5, <2>1, <2>2, AllocLaid
  <2>4. i + 1 \in 1..old.blocks + 1 /\ i <= old.blocks + 1
    BY <1>2
  <2>5. LoopInv'
    <3>1. Start(old', i + 1) = Start(old, i + 1)
      BY <2>3, <2>4
    <3> QED
      BY <1>1, <1>2, <2>3, <2>4, <3>1 DEF LoopInv, Start
  <2> QED
    BY <1>1, <1>2, <1>3, <1>4, <1>5, <2>3, <2>5 DEF LayoutInv, WalkInv, MoveInv, PhaseInv
<1>6. CASE ~Fits(old, Need(n))
  <2>1. old' = old /\ pc' = "out of memory" /\ Laid(old', OldSize)
    BY <1>2, <1>4, <1>6
  <2> QED
    BY <1>1, <1>2, <1>3, <2>1 DEF LayoutInv, LoopInv, WalkInv, MoveInv, PhaseInv
<1> QED
  BY <1>5, <1>6

\* The end of heap_gc.
LEMMA GcEndLayout == LayoutInv /\ GcEnd => LayoutInv'
<1> SUFFICES ASSUME LayoutInv, GcEnd PROVE LayoutInv'
  OBVIOUS
<1>1. /\ pc = "scan" /\ fresh' = EmptySpace(FreshSize) /\ pc' \in {"run", "retry"}
      /\ i' = 0 /\ hdr' = 0 /\ UNCHANGED <<old, marked, live>>
      /\ full_gc' = (old.free_mem < SurvivedSize)
  BY DEF GcEnd
<1>2. Laid(fresh', FreshSize)
  <2>1. Aligned(FreshSize)
    BY SpaceAssumption DEF Aligned
  <2> QED
    BY <1>1, <2>1, EmptyLaid
<1>3. live = <<>>
  BY <1>1 DEF LayoutInv, PhaseInv
<1>4. LiveInv'
  BY <1>1, <1>3 DEF LiveInv
<1>5. full_gc' \in BOOLEAN
  BY <1>1
<1> QED
  BY <1>1, <1>2, <1>3, <1>4, <1>5 DEF LayoutInv, LoopInv, WalkInv, MoveInv, PhaseInv

\* Every step keeps the invariant.
LEMMA NextLayout == FreshInv /\ LayoutInv /\ [Next]_vars => LayoutInv'
<1> SUFFICES ASSUME FreshInv, LayoutInv, [Next]_vars PROVE LayoutInv'
  OBVIOUS
<1>1. CASE HeapRequire \/ HeapRequireBlocks
  BY <1>1, RequiringLayout DEF HeapRequire, HeapRequireBlocks
<1>2. CASE UNCHANGED vars
  <2>1. UNCHANGED <<fresh, old, full_gc, pc, marked, i, hdr, live>>
    BY <1>2 DEF vars, walk
  <2>2. LiveInv' /\ LiveObjects' = LiveObjects
    BY <2>1 DEF LayoutInv, LiveInv, LiveObjects
  <2> QED
    BY <2>1, <2>2 DEF LayoutInv, LoopInv, WalkInv, MoveInv, PhaseInv
<1>3. CASE HeapAlloc \/ Retry
  BY <1>3, HeapAllocLayout, RetryLayout
<1>4. CASE Walk \/ OldReset \/ Move \/ Moved
  BY <1>4, WalkLayout, OldResetLayout, MoveLayout, MovedLayout
<1>5. CASE ScanOld \/ Promote \/ GcEnd
  BY <1>5, ScanOldLayout, PromoteLayout, GcEndLayout
<1> QED
  BY <1>1, <1>2, <1>3, <1>4, <1>5 DEF Next, Stopped

-----------------------------------------------------------------------------
(* What follows from it.                                                   *)

\* Both invariants hold for ever.
LEMMA LayoutHolds == Spec => [](FreshInv /\ LayoutInv)
BY InitFresh, NextFresh, InitLayout, NextLayout, PTL DEF Spec

\* The spaces, the registers of the collector and the requests have the types
\* of their declarations; no space holds more than its size
\* (src/vm/heap.h, src/vm/heap.c:27-52).
THEOREM TypeCorrect == Spec => []TypeOK
<1>1. FreshInv /\ LayoutInv => TypeOK
  <2> SUFFICES ASSUME FreshInv, LayoutInv PROVE TypeOK
    OBVIOUS
  <2>1. ASSUME NEW space, NEW n, Laid(space, n) PROVE SpaceType(space, n)
    <3>1. space.pos \in Nat /\ space.free_mem \in Nat /\ space.pos + space.free_mem = n
      BY <2>1 DEF Laid, Aligned
    <3>2. space.pos \in 0..n /\ space.free_mem \in 0..n
      BY <3>1
    <3> QED
      BY <2>1, <3>2 DEF SpaceType, Laid
  <2>2. asked \in Sizes \cup {0} /\ room \in 0..FreshSize
    BY SpaceAssumption DEF FreshInv
  <2> QED
    BY <2>1, <2>2 DEF TypeOK, LayoutInv, LoopInv, PhaseInv
<1> QED
  BY <1>1, LayoutHolds, PTL

\* Whatever sizes are asked for: what is taken and what is free make up each
\* space, and both are whole words (src/vm/heap.c:54-97).
THEOREM AccountedHolds == Spec => []Accounted
<1>1. LayoutInv => Accounted
  <2> SUFFICES ASSUME LayoutInv, NEW space \in {fresh, old}
               PROVE  space.pos + space.free_mem = space.size /\ space.pos % Word = 0
    BY DEF Accounted
  <2>1. PICK n : Laid(space, n)
    BY DEF LayoutInv
  <2> QED
    BY <2>1 DEF Laid, Aligned
<1> QED
  BY <1>1, LayoutHolds, PTL

\* No block is ever written over: not by an allocation, not by a promotion and
\* not while a compaction moves blocks of any sizes over each other in place
\* (src/vm/heap.c:58-97,232-240).
THEOREM IntactHolds == Spec => []Intact
<1>1. LayoutInv => Intact
  <2> SUFFICES ASSUME LayoutInv PROVE Intact
    OBVIOUS
  <2>1. ASSUME NEW space \in {fresh, old}, NEW j \in DOMAIN space.index
        PROVE  LET b == space.index[j]
               IN  IntactAt(space, b.object, b.at, b.size) /\ b.at + b.size <= space.pos
    <3> DEFINE b == space.index[j]
    <3>1. PICK n : Laid(space, n)
      BY DEF LayoutInv
    <3>2. space.index \in Seq(Entries) /\ space.size = n /\ Tiled(space)
      BY <3>1 DEF Laid
    <3>3. j \in 1..Len(space.index)
      BY <3>2
    <3>4. Written(space.mem, b.object, b.at, b.size) /\ b.at + b.size <= space.pos
      BY <3>2, <3>3 DEF Tiled
    <3> HIDE DEF b
    <3>5. b.at + b.size \in Nat /\ space.pos \in Nat /\ space.pos <= n /\ n \in Nat
      BY <3>1, <3>4 DEF Laid, Written, Aligned
    <3>6. b.at + b.size <= space.size
      BY <3>2, <3>4, <3>5
    <3> QED
      BY <3>4, <3>6 DEF IntactAt, Written, b
  <2>2. ASSUME NEW j \in DOMAIN live
        PROVE  IntactAt(old, ObjectAt(old, live[j]), live[j], BHDR_SIZE + SizeAt(old, live[j]))
    <3>1. LiveInv /\ old.size = OldSize
      BY DEF LayoutInv, Laid
    <3>2. j \in 1..Len(live)
      BY <3>1 DEF LiveInv
    <3> QED
      BY <3>1, <3>2 DEF LiveInv, IntactAt, Written, End
  <2> QED
    BY <2>1, <2>2 DEF Intact
<1> QED
  BY <1>1, LayoutHolds, PTL

\* The loops over old space read the size of the next block where a header is,
\* whatever has come to the space meanwhile (src/vm/heap.c:195-204,217-229).
THEOREM WalksHolds == Spec => []Walks
<1>1. LayoutInv => Walks
  <2> SUFFICES ASSUME LayoutInv, pc \in {"walk", "scan"}
               PROVE  /\ i <= old.blocks
                      /\ hdr = IF i < old.blocks THEN old.index[i + 1].at ELSE old.pos
    BY DEF Walks
  <2>1. i \in Nat /\ i <= old.blocks /\ hdr = Start(old, i + 1)
    BY DEF LayoutInv, LoopInv
  <2>2. old.blocks = Len(old.index) /\ old.blocks \in Nat
    BY DEF LayoutInv, Laid
  <2> QED
    BY <2>1, <2>2 DEF Start
<1> QED
  BY <1>1, LayoutHolds, PTL

\* A compaction keeps what was marked and nothing else, and never runs out of
\* the space that it compacts (src/vm/heap.c:85-88,211-243).
THEOREM CompactedHolds == Spec => []Compacted
<1>1. LayoutInv => Compacted
  BY DEF LayoutInv, PhaseInv, MoveInv, LiveObjects, Compacted
<1> QED
  BY <1>1, LayoutHolds, PTL
=============================================================================

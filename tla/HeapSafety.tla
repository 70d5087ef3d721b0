----------------------------- MODULE HeapSafety -----------------------------
(***************************************************************************)
(* The collector keeps the object graph: IInv is inductive, and Faithful,  *)
(* NoDangling and OneCopy follow from it, for every size of the spaces.    *)
(* It keeps no garbage, and it ends the process only when what is live     *)
(* does not fit: Precise and OutOfMemoryIsReal.                            *)
(***************************************************************************)
EXTENDS HeapProofs

-----------------------------------------------------------------------------
(* The steps from one phase of a collection to the next. *)

\* A step between two loops: a loop has ended and the next has not begun.
BetweenLoops ==
  /\ ~AtSlot
  /\ UNCHANGED <<mem, blocks, survived, full_gc, old_map, roots, graph, groots>>
  /\ pc = "roots" => k > NRoots
  /\ pc' # "roots"
  /\ cont' \in {0, cont} /\ f' \in {1, f}
  /\ remembered' \in {<<>>, remembered}
  /\ \A a \in Addrs : Must(a) /\ Waiting(a) => Waiting(a)'

LEMMA BetweenStep ==
  ASSUME TypeOK, TypeOK', GcInv, BetweenLoops, Control'
  PROVE  GcInv'
<1>1. /\ UNCHANGED <<fwd, gen, rem, id, fld, blocks, survived, full_gc, old_map,
                     roots, graph, groots>>
      /\ future_survived' = future_survived
  BY DEF BetweenLoops, mem, hdrs, future_survived
<1>2. /\ \A a : Allocated(a)' <=> Allocated(a)
      /\ \A a : InFrom(a)' <=> InFrom(a)
  BY <1>1 DEF Allocated, InFrom
<1>3. \A a : Usable(a)' <=> Usable(a)
  BY <1>1, <1>2 DEF Usable, SecondPass
<1>4. \A x, i : Refers(x, i)' <=> Refers(x, i)
  BY <1>1, <1>3 DEF Refers
<1>5. \A x : Visited(x)' <=> Visited(x)
  BY <1>1 DEF Visited
<1>6. \A a : Must(a)' <=> Must(a)
  BY <1>1, <1>2 DEF Must
<1>7. Contents'
  BY <1>1, <1>3, <1>4 DEF GcInv, Contents
<1>8. Forwards' /\ Bits'
  BY <1>1, <1>2 DEF GcInv, Forwards, Bits
<1>9. Listed'
  <2>1. CASE remembered' = <<>>
    BY <2>1 DEF Listed
  <2>2. CASE remembered' = remembered
    BY <1>6, <2>2 DEF GcInv, Listed
  <2>3. QED
    BY <2>1, <2>2 DEF BetweenLoops
<1>10. Scanned'
  <2>1. \A r \in Roots : Visited(roots[r])'
    <3>1. \A r \in Roots : pc = "roots" => r < k
      BY ShapeAssumption DEF BetweenLoops, Roots, TypeOK, RegsType
    <3>2. \A r \in Roots : Visited(roots[r])
      BY <3>1 DEF GcInv, Scanned
    <3>3. QED
      BY <1>1, <1>5, <3>2
  <2>2. \A i \in 1..cont', g \in Fields :
          Visited(fld[At(future_survived, i)][g])'
    <3>1. cont' = 0 \/ cont' = cont
      BY DEF BetweenLoops
    <3>2. ASSUME NEW i \in 1..cont', NEW g \in Fields
          PROVE  Visited(fld[At(future_survived, i)][g])'
      <4>1. Visited(fld[At(future_survived, i)][g])
        BY <3>1 DEF GcInv, Scanned
      <4>2. At(future_survived, i)' = At(future_survived, i)
        BY <1>1 DEF At
      <4>3. QED
        BY <1>1, <1>5, <4>1, <4>2
    <3>3. QED
      BY <3>2
  <2>3. \A g \in Fields : ~(g < f')
    BY ShapeAssumption DEF GcInv, Scanned, BetweenLoops, Fields, TypeOK, RegsType
  <2>4. ASSUME NEW a \in Addrs, Must(a)', ~Waiting(a)', NEW g \in Fields
        PROVE  Visited(fld[a][g])'
    <3>1. Must(a) /\ ~Waiting(a)
      BY <1>6, <2>4 DEF BetweenLoops
    <3>2. Visited(fld[a][g])
      BY <3>1 DEF GcInv, Scanned
    <3>3. QED
      BY <1>1, <1>5, <3>2
  <2>5. QED
    BY <2>1, <2>2, <2>3, <2>4 DEF Scanned
<1>11. QED
  BY <1>7, <1>8, <1>9, <1>10 DEF GcInv

LEMMA RootsDoneStep ==
  ASSUME TypeOK, TypeOK', GcInv, RootsDone
  PROVE  GcInv'
<1>1. /\ pc = "roots" /\ k > NRoots /\ k' = 1 /\ f' = 1 /\ cont' = 0
      /\ pc' = IF full_gc THEN "refs" ELSE "old"
      /\ UNCHANGED <<mem, blocks, survived, full_gc, old_map, roots, graph,
                     groots, remembered>>
  BY DEF RootsDone, AfterRoots, heap, ghost
<1>2. ~AtSlot
  BY <1>1, ShapeAssumption DEF AtSlot, TypeOK, RegsType
<1>3. ASSUME NEW a \in Addrs, Must(a), Waiting(a)
      PROVE  Waiting(a)'
  <2>1. CASE \E j \in 1..Len(remembered) : remembered[j] = a
    BY <1>1, <2>1 DEF Waiting
  <2>2. CASE ~full_gc /\ InSpace("old", a)
    <3>1. a >= At("old", 1)
      BY <2>2, Layout DEF InSpace, At, Addrs, Spaces
    <3>2. QED
      BY <1>1, <2>2, <3>1 DEF Waiting, At
  <2>3. QED
    BY <1>1, <1>3, <2>1, <2>2 DEF Waiting
<1>4. Control'
  BY <1>1 DEF GcInv, Control, SecondPass, TypeOK, TypeOK, BlocksType,
     future_survived, Spaces
<1>5. BetweenLoops
  BY <1>1, <1>2, <1>3 DEF BetweenLoops
<1>6. QED
  BY <1>4, <1>5, BetweenStep

LEMMA ScanOldDoneStep ==
  ASSUME TypeOK, TypeOK', GcInv, ScanOldDone
  PROVE  GcInv'
<1>1. /\ pc = "old" /\ k > blocks["old"] /\ k' = 1 /\ pc' = "refs"
      /\ UNCHANGED <<mem, blocks, survived, full_gc, old_map, roots, graph,
                     groots, remembered, f, cont>>
  BY DEF ScanOldDone, heap, ghost
<1>2. ~AtSlot
  BY <1>1 DEF AtSlot, TypeOK, RegsType, BlocksType, Spaces
<1>3. ASSUME NEW a \in Addrs, Must(a), Waiting(a)
      PROVE  Waiting(a)'
  <2>1. CASE \E j \in 1..Len(remembered) : remembered[j] = a
    BY <1>1, <2>1 DEF Waiting
  <2>2. CASE InSpace("old", a) /\ a >= At("old", k)
    <3>1. a <= At("old", blocks["old"])
      BY <1>3, <2>2, AllocatedIn DEF Must, Spaces
    <3>2. PICK n \in Nat, i \in Nat, low \in Nat : n = blocks["old"] /\ i = k /\ low = Low("old")
      BY Layout DEF Spaces, TypeOK, RegsType, BlocksType
    <3>3. i > n
      BY <1>1, <3>2
    <3>4. a \in Nat /\ a >= low + i /\ a <= low + n
      BY <2>2, <3>1, <3>2 DEF At, Addrs
    <3>5. FALSE
      BY <3>2, <3>3, <3>4
    <3>6. QED
      BY <3>5
  <2>3. QED
    BY <1>1, <1>3, <2>1, <2>2 DEF Waiting
<1>4. Control'
  BY <1>1 DEF GcInv, Control, SecondPass, future_survived
<1>5. BetweenLoops
  BY <1>1, <1>2, <1>3 DEF BetweenLoops
<1>6. QED
  BY <1>4, <1>5, BetweenStep

LEMMA ScanRefsDoneStep ==
  ASSUME TypeOK, TypeOK', GcInv, ScanRefsDone
  PROVE  GcInv'
<1>1. /\ pc = "refs" /\ cont >= blocks[future_survived] /\ k' = 1
      /\ pc' = IF remembered # <<>> THEN "rem"
               ELSE IF full_gc THEN "gc_old" ELSE "finish"
      /\ UNCHANGED <<mem, blocks, survived, full_gc, old_map, roots, graph,
                     groots, remembered, f, cont>>
  BY DEF ScanRefsDone, AfterRefs, EndOfPass, heap, ghost
<1>2. ~AtSlot
  BY <1>1, SpaceNames DEF AtSlot, TypeOK, RegsType, BlocksType
<1>3. ASSUME NEW a \in Addrs, Must(a), Waiting(a)
      PROVE  Waiting(a)'
  BY <1>1, <1>3 DEF Waiting
<1>4. cont = blocks[future_survived]
  BY <1>1, SpaceNames DEF GcInv, Control, TypeOK, RegsType, BlocksType
<1>5. Control'
  BY <1>1, <1>4 DEF GcInv, Control, SecondPass, future_survived
<1>6. BetweenLoops
  BY <1>1, <1>2, <1>3 DEF BetweenLoops
<1>7. QED
  BY <1>5, <1>6, BetweenStep

LEMMA ScanRememberedDoneStep ==
  ASSUME TypeOK, TypeOK', GcInv, ScanRememberedDone
  PROVE  GcInv'
<1>1. /\ pc = "rem" /\ k > Len(remembered) /\ k' = 1 /\ pc' = "refs"
      /\ remembered' = <<>>
      /\ UNCHANGED <<mem, blocks, survived, full_gc, old_map, roots, graph,
                     groots, f, cont>>
  BY DEF ScanRememberedDone, Forgotten, ghost
<1>2. ~AtSlot
  BY <1>1 DEF AtSlot, TypeOK, RegsType
<1>3. ASSUME NEW a \in Addrs, Must(a)
      PROVE  ~Waiting(a)
  BY <1>1 DEF Waiting, TypeOK, RegsType
<1>4. Control'
  BY <1>1 DEF GcInv, Control, SecondPass, future_survived
<1>5. BetweenLoops
  BY <1>1, <1>2, <1>3 DEF BetweenLoops
<1>6. QED
  BY <1>4, <1>5, BetweenStep

\* heap_gc begins on a heap in which every pointer leads to a block.
LEMMA EnterGcStep ==
  ASSUME TypeOK, TypeOK', RunInv, EnterGc, ~tainted'
  PROVE  GcInv'
<1>1. /\ pc' = "roots" /\ k' = 1 /\ f' = 1 /\ cont' = 0
      /\ groots' = roots
      /\ UNCHANGED <<fwd, gen, rem, fld, blocks, survived, full_gc, old_map,
                     remembered, roots>>
  BY DEF EnterGc, heap
<1>2. /\ \A a \in Addrs : id'[a] = IF Allocated(a) THEN a ELSE 0
      /\ \A a \in Addrs : Allocated(a) => graph'[a] = fld[a]
  BY DEF EnterGc
<1>3. /\ \A a : Allocated(a)' <=> Allocated(a)
      /\ \A a : InFrom(a)' <=> InFrom(a)
      /\ future_survived' = future_survived
  BY <1>1 DEF Allocated, InFrom, future_survived
<1>4. old_map' = NULL /\ remembered' = <<>>
  BY <1>1 DEF RunInv
<1>5. Control'
  <2>1. cont' <= blocks'[future_survived']
    BY <1>1, <1>3, SpaceNames DEF TypeOK, BlocksType
  <2>2. QED
    BY <1>1, <1>4, <2>1 DEF Control, SecondPass
<1>6. \A a \in Addrs : Usable(a)' <=> Allocated(a)
  BY <1>3, <1>4 DEF Usable, SecondPass
<1>7. ASSUME NEW v \in Values, v = 0 \/ Allocated(v)
      PROVE  Refers(v, v)'
  BY <1>2, <1>6, <1>7 DEF Refers, Values, Addrs
<1>8. Contents'
  <2>1. ASSUME NEW r \in Roots
        PROVE  Refers(roots[r], groots[r])'
    <3>1. PICK v : v = roots[r]
      OBVIOUS
    <3>2. v \in Values /\ (v = 0 \/ Allocated(v))
      BY <3>1 DEF TypeOK, RootsType, RunInv
    <3>3. Refers(v, v)'
      BY <1>7, <3>2
    <3>4. roots'[r] = v /\ groots'[r] = v
      BY <1>1, <3>1
    <3>5. QED
      BY <3>3, <3>4
  <2>2. ASSUME NEW a \in Addrs, Usable(a)'
        PROVE  /\ id'[a] \in Addrs
               /\ \A g \in Fields : Refers(fld[a][g], graph[id[a]][g])'
    <3>1. Allocated(a) /\ id'[a] = a /\ graph'[a] = fld[a]
      BY <1>2, <1>6, <2>2
    <3>2. ASSUME NEW g \in Fields
          PROVE  Refers(fld[a][g], graph[id[a]][g])'
      <4>1. PICK v : v = fld[a][g]
        OBVIOUS
      <4>2. v \in Values /\ (v = 0 \/ Allocated(v))
        BY <3>1, <4>1 DEF TypeOK, MemType, RunInv
      <4>3. Refers(v, v)'
        BY <1>7, <4>2
      <4>4. fld'[a][g] = v /\ graph'[id'[a]][g] = v
        BY <1>1, <3>1, <4>1
      <4>5. QED
        BY <4>3, <4>4
    <3>3. QED
      BY <3>1, <3>2
  <2>3. QED
    BY <2>1, <2>2 DEF Contents
<1>9. Forwards' /\ Bits'
  BY <1>1, <1>3 DEF RunInv, Forwards, Bits
<1>10. Listed'
  BY <1>4 DEF Listed
<1>11. Scanned'
  <2>1. ASSUME NEW a \in Addrs, Must(a)'
        PROVE  Waiting(a)'
    <3>1. Allocated(a) /\ IF full_gc THEN rem[a] ELSE InSpace("old", a)
      BY <1>1, <1>3, <2>1 DEF Must
    <3>2. ~full_gc
      <4>1. SUFFICES ASSUME full_gc PROVE FALSE
        OBVIOUS
      <4>2. InSpace("old", a)
        BY <3>1, <4>1 DEF RunInv
      <4>3. \E i \in 1..blocks["old"] : a = At("old", i)
        BY <3>1, <4>2, AtOfAllocated DEF TypeOK, Spaces
      <4>4. StaleRemembered
        BY <3>1, <4>1, <4>3 DEF StaleRemembered
      <4>5. QED
        BY <4>1, <4>4 DEF EnterGc
    <3>3. QED
      BY <1>1, <3>1, <3>2 DEF Waiting
  <2>2. /\ \A r \in Roots : ~(r < k')
        /\ \A g \in Fields : ~(g < f')
        /\ ~ \E i \in 1..cont' : TRUE
    BY <1>1 DEF Roots, Fields
  <2>3. QED
    BY <1>1, <2>1, <2>2 DEF Scanned
<1>12. QED
  BY <1>5, <1>8, <1>9, <1>10, <1>11 DEF GcInv

\* At the end of a pass nothing that the pass keeps is left unvisited.
LEMMA PassDone ==
  ASSUME TypeOK, GcInv, pc \in {"gc_old", "finish"}
  PROVE  /\ \A r \in Roots : Visited(roots[r])
         /\ \A a \in Addrs :
              (Allocated(a) /\ InSpace(future_survived, a)) \/ Must(a) =>
                \A g \in Fields : Visited(fld[a][g])
<1>1. remembered = <<>> /\ cont = blocks[future_survived]
  BY DEF GcInv, Control
<1>2. \A r \in Roots : Visited(roots[r])
  BY DEF GcInv, Scanned
<1>3. ASSUME NEW a \in Addrs, Allocated(a), InSpace(future_survived, a),
             NEW g \in Fields
      PROVE  Visited(fld[a][g])
  <2>1. \E i \in 1..cont : a = At(future_survived, i)
    BY <1>1, <1>3, AtOfAllocated, SpaceNames DEF TypeOK
  <2>2. QED
    BY <2>1 DEF GcInv, Scanned
<1>4. ASSUME NEW a \in Addrs, Must(a), NEW g \in Fields
      PROVE  Visited(fld[a][g])
  <2>1. ~Waiting(a)
    BY <1>1 DEF Waiting
  <2>2. QED
    BY <1>4, <2>1 DEF GcInv, Scanned
<1>5. QED
  BY <1>2, <1>3, <1>4

\* Old blocks that all stay where they are fill the start of the space.
LEMMA StillOld ==
  ASSUME TypeOK, \A i \in LiveOld : Slide(i) = i
  PROVE  /\ Cardinality(LiveOld) \in Nat
         /\ LiveOld = 1..Cardinality(LiveOld)
<1>1. blocks["old"] \in Nat
  BY DEF TypeOK, BlocksType, Spaces
<1>2. IsFiniteSet(1..blocks["old"])
  BY <1>1, FS_Interval
<1>3. LiveOld \subseteq 1..blocks["old"]
  BY DEF LiveOld
<1>4. IsFiniteSet(LiveOld)
  BY <1>2, <1>3, FS_Subset
<1>5. PICK m : m = Cardinality(LiveOld)
  OBVIOUS
<1>6. m \in Nat
  BY <1>4, <1>5, FS_CardinalityType
<1>7. LiveOld \subseteq 1..m
  <2>1. ASSUME NEW i \in LiveOld
        PROVE  i \in 1..m
    <3>1. PICK S : S = {j \in LiveOld : j <= i}
      OBVIOUS
    <3>2. S \subseteq LiveOld
      BY <3>1
    <3>3. Cardinality(S) <= m
      BY <1>4, <1>5, <3>2, FS_Subset
    <3>4. Cardinality(S) = i
      BY <3>1 DEF Slide
    <3>5. QED
      BY <1>1, <1>3, <1>6, <3>3, <3>4
  <2>2. QED
    BY <2>1
<1>8. IsFiniteSet(1..m) /\ Cardinality(1..m) = m
  BY <1>6, FS_Interval
<1>9. QED
  BY <1>5, <1>6, <1>7, <1>8, FS_Subset

\* heap_gc_old when no old block moves: the dead ones are dropped, the live
\* ones are unmarked and listed, and nothing else changes.
LEMMA GcOldEffect ==
  ASSUME TypeOK, TypeOK', GcInv, HeapGcOld, ~tainted'
  PROVE  /\ UNCHANGED <<fwd, gen, fld, id, survived, roots, graph, groots>>
         /\ pc' = "roots" /\ k' = 1 /\ f' = 1 /\ cont' = 0 /\ ~full_gc'
         /\ \A a \in Addrs :
              Allocated(a)' <=> Allocated(a) /\ (InSpace("old", a) => rem[a])
         /\ \A a \in Addrs : rem'[a] <=>
              rem[a] /\ ~(InSpace("old", a) /\ Allocated(a))
         /\ SecondPass' /\ \A a \in DOMAIN old_map' : old_map'[a] = a
         /\ \A j \in 1..Len(remembered') :
              \E a \in Addrs : a = remembered'[j] /\ Allocated(a)'
                                /\ InSpace("old", a)
<1>1. \A i \in LiveOld : Slide(i) = i
  BY DEF HeapGcOld
<1>2. PICK m \in Nat : m = Cardinality(LiveOld) /\ LiveOld = 1..m
  BY <1>1, StillOld
<1>3. LiveOld \subseteq 1..blocks["old"] /\ "old" \in Spaces
  BY DEF LiveOld, Spaces
<1>4. ASSUME NEW a \in Addrs
      PROVE  MovedFrom(a) = a
  BY <1>1 DEF MovedFrom
<1>5. fwd' = fwd /\ gen' = gen /\ fld' = fld /\ id' = id
  <2>1. fwd' = [a \in Addrs |-> fwd[a]] /\ gen' = [a \in Addrs |-> gen[a]]
    BY <1>4 DEF HeapGcOld
  <2>2. fld' = [a \in Addrs |-> fld[a]] /\ id' = [a \in Addrs |-> id[a]]
    BY <1>4 DEF HeapGcOld
  <2>3. QED
    BY <2>1, <2>2 DEF TypeOK, MemType
<1>6. /\ UNCHANGED <<survived, roots, graph, groots>>
      /\ pc' = "roots" /\ k' = 1 /\ f' = 1 /\ cont' = 0 /\ ~full_gc'
      /\ \A a \in Addrs : rem'[a] <=>
           rem[a] /\ ~(InSpace("old", a) /\ Allocated(a))
  BY DEF HeapGcOld
<1>7. ASSUME NEW a \in Addrs
      PROVE  Allocated(a)' <=> Allocated(a) /\ (InSpace("old", a) => rem[a])
  <2>1. PICK t \in Spaces : InSpace(t, a)
    BY Cover
  <2>2. \A x \in Spaces : InSpace(x, a) => x = t
    BY <2>1, Layout
  <2>3. Allocated(a) <=> a <= At(t, blocks[t])
    BY <2>1, AllocatedIn
  <2>4. Allocated(a)' <=> a <= At(t, blocks'[t])
    BY <2>1, <2>2 DEF Allocated, At
  <2>5. /\ blocks'["old"] = m
        /\ \A x \in Spaces : x # "old" => blocks'[x] = blocks[x]
    BY <1>2, <1>3 DEF HeapGcOld, TypeOK, BlocksType
  <2>6. CASE t # "old"
    BY <1>3, <2>2, <2>3, <2>4, <2>5, <2>6
  <2>7. CASE t = "old"
    <3>1. PICK i \in Int : a = At("old", i) /\ i >= 1
      <4>1. Low("old") \in Int /\ a \in Int
        BY <1>3, Layout DEF Addrs
      <4>2. a - Low("old") \in Int /\ a = At("old", a - Low("old"))
            /\ a - Low("old") >= 1
        BY <2>1, <2>7, <4>1 DEF InSpace, At
      <4>3. QED
        BY <4>2
    <3>2. blocks["old"] \in Nat /\ Low("old") \in Nat
      BY <1>3, Layout DEF TypeOK, BlocksType
    <3>3. Allocated(a) <=> i <= blocks["old"]
      BY <2>3, <2>7, <3>1, <3>2 DEF At
    <3>4. Allocated(a)' <=> i <= m
      BY <2>4, <2>5, <2>7, <3>1, <3>2 DEF At
    <3>5. i \in LiveOld <=> i <= m
      <4>1. i \in 1..m <=> i <= m
        BY <3>1
      <4>2. QED
        BY <1>2, <4>1
    <3>6. i \in LiveOld <=> i <= blocks["old"] /\ rem[a]
      BY <3>1, <3>2 DEF LiveOld
    <3>7. QED
      BY <2>1, <2>7, <3>3, <3>4, <3>5, <3>6
  <2>8. QED
    BY <2>6, <2>7
<1>8. SecondPass' /\ \A a \in DOMAIN old_map' : old_map'[a] = a
  <2>1. PICK D : D = {At("old", i) : i \in LiveOld}
    OBVIOUS
  <2>2. old_map' = [a \in D |-> At("old", Slide(a - Low("old")))]
    BY <2>1 DEF HeapGcOld
  <2>3. ASSUME NEW a \in D
        PROVE  a \in Addrs /\ At("old", Slide(a - Low("old"))) = a
    <3>1. PICK i \in LiveOld : a = At("old", i)
      BY <2>1
    <3>2. Low("old") \in Nat /\ i \in Int
      BY <1>2, <1>3, Layout
    <3>3. a - Low("old") = i
      BY <3>1, <3>2 DEF At
    <3>4. a \in Addrs
      BY <1>3, <3>1, BlockAddr DEF TypeOK
    <3>5. QED
      BY <1>1, <3>1, <3>3, <3>4
  <2>4. old_map' \in [D -> Addrs] /\ D \in SUBSET Addrs
    BY <2>2, <2>3
  <2>5. old_map' # NULL
    BY <2>4, NullAssumption DEF Addrs, HeapSize
  <2>6. DOMAIN old_map' = D /\ \A a \in D : old_map'[a] = a
    BY <2>2, <2>3
  <2>7. QED
    BY <2>5, <2>6 DEF SecondPass
<1>9. ASSUME NEW j \in 1..Len(remembered')
      PROVE  \E a \in Addrs : a = remembered'[j] /\ Allocated(a)'
                               /\ InSpace("old", a)
  <2>1. remembered' = [n \in 1..m |-> At("old", n)]
    BY <1>2 DEF HeapGcOld
  <2>2. j \in 1..m /\ remembered'[j] = At("old", j)
    <3>1. DOMAIN remembered' = 1..m
      BY <2>1
    <3>2. DOMAIN remembered' = 1..Len(remembered')
      BY DEF TypeOK
    <3>3. QED
      BY <2>1, <3>1, <3>2
  <2>3. j \in 1..blocks["old"] /\ rem[At("old", j)]
    BY <1>2, <2>2 DEF LiveOld
  <2>4. /\ At("old", j) \in Addrs /\ InSpace("old", At("old", j))
        /\ Allocated(At("old", j))
    BY <1>3, <2>3, AllocatedAt DEF TypeOK
  <2>5. PICK a : a = At("old", j)
    OBVIOUS
  <2>6. Allocated(a)'
    BY <1>7, <2>3, <2>4, <2>5
  <2>7. QED
    BY <2>2, <2>4, <2>5, <2>6
<1>10. QED
  BY <1>5, <1>6, <1>7, <1>8, <1>9

LEMMA GcOldStep ==
  ASSUME TypeOK, TypeOK', GcInv, HeapGcOld, ~tainted'
  PROVE  GcInv'
<1>1. /\ UNCHANGED <<fwd, gen, fld, id, survived, roots, graph, groots>>
      /\ pc' = "roots" /\ k' = 1 /\ f' = 1 /\ cont' = 0 /\ ~full_gc'
      /\ \A a \in Addrs :
           Allocated(a)' <=> Allocated(a) /\ (InSpace("old", a) => rem[a])
      /\ \A a \in Addrs : rem'[a] <=>
           rem[a] /\ ~(InSpace("old", a) /\ Allocated(a))
      /\ SecondPass' /\ \A a \in DOMAIN old_map' : old_map'[a] = a
      /\ \A j \in 1..Len(remembered') :
           \E a \in Addrs : a = remembered'[j] /\ Allocated(a)'
                             /\ InSpace("old", a)
  BY GcOldEffect
<1>2. pc = "gc_old" /\ full_gc
  BY DEF HeapGcOld, GcInv, Control
<1>3. /\ future_survived' = future_survived
      /\ \A a : InFrom(a)' <=> InFrom(a)
  BY <1>1 DEF future_survived, InFrom
<1>4. Control'
  <2>1. cont' <= blocks'[future_survived']
    BY <1>1, <1>3, SpaceNames DEF TypeOK, BlocksType
  <2>2. QED
    BY <1>1, <2>1 DEF Control
\* A visited word is still good: what it leads to is kept.
<1>5. ASSUME NEW v, NEW i, Refers(v, i), Visited(v)
      PROVE  Refers(v, i)'
  <2>1. CASE i = 0
    BY <1>5, <2>1 DEF Refers
  <2>2. CASE i # 0
    <3>1. v \in Addrs /\ Usable(v) /\ id[v] = i
      BY <1>5, <2>2 DEF Refers
    <3>2. v # 0
      BY <3>1, Layout DEF Addrs
    <3>3. InSpace(future_survived, v) \/ rem[v]
      BY <1>2, <1>5, <3>2 DEF Visited
    <3>4. Allocated(v)'
      BY <1>1, <3>1, <3>3, Parts DEF Usable, TypeOK
    <3>5. InFrom(v) => rem'[v]
      BY <1>1, <3>1, <3>3, Parts DEF TypeOK
    <3>6. Usable(v)'
      BY <1>3, <3>4, <3>5 DEF Usable
    <3>7. QED
      BY <1>1, <2>2, <3>1, <3>6 DEF Refers
  <2>3. QED
    BY <2>1, <2>2
<1>6. Contents'
  <2>1. ASSUME NEW r \in Roots
        PROVE  Refers(roots[r], groots[r])'
    <3>1. Refers(roots[r], groots[r]) /\ Visited(roots[r])
      BY <1>2, PassDone DEF GcInv, Contents
    <3>2. QED
      BY <1>1, <1>5, <3>1
  <2>2. ASSUME NEW a \in Addrs, Usable(a)', ~fwd'[a]
        PROVE  /\ id'[a] \in Addrs
               /\ \A g \in Fields : Refers(fld[a][g], graph[id[a]][g])'
    <3>1. /\ Allocated(a) /\ ~fwd[a]
          /\ InSpace("old", a) => rem[a]
          /\ InFrom(a) => rem[a]
      BY <1>1, <1>3, <2>2 DEF Usable
    <3>2. Usable(a)
      BY <3>1 DEF Usable
    <3>3. InSpace(future_survived, a) \/ Must(a)
      BY <1>2, <3>1, Parts DEF Must, TypeOK
    <3>4. id[a] \in Addrs
      BY <3>1, <3>2 DEF GcInv, Contents
    <3>5. ASSUME NEW g \in Fields
          PROVE  Refers(fld[a][g], graph[id[a]][g])'
      <4>1. Refers(fld[a][g], graph[id[a]][g])
        BY <3>1, <3>2 DEF GcInv, Contents
      <4>2. Visited(fld[a][g])
        BY <1>2, <3>1, <3>3, PassDone
      <4>3. QED
        BY <1>1, <1>5, <4>1, <4>2
    <3>6. QED
      BY <1>1, <3>4, <3>5
  <2>3. QED
    BY <2>1, <2>2 DEF Contents
<1>7. Forwards'
  <2>1. ASSUME NEW a \in Addrs, Allocated(a)', fwd'[a]
        PROVE  /\ InFrom(a)
               /\ fld'[a][1] \in Addrs
               /\ Allocated(fld[a][1])'
               /\ InSpace(future_survived, fld'[a][1])
               /\ id'[fld'[a][1]] = id'[a]
    <3>1. PICK n : n = fld[a][1]
      OBVIOUS
    <3>2. /\ InFrom(a) /\ n \in Addrs /\ Allocated(n)
          /\ InSpace(future_survived, n) /\ id[n] = id[a]
      BY <1>1, <1>2, <2>1, <3>1 DEF GcInv, Forwards
    <3>3. Allocated(n)'
      BY <1>1, <3>2, Parts DEF TypeOK
    <3>4. QED
      BY <1>1, <3>1, <3>2, <3>3
  <2>2. QED
    BY <1>3, <2>1 DEF Forwards
<1>8. Bits'
  BY <1>1, <1>3 DEF GcInv, Bits
<1>9. Listed'
  <2>1. \A a \in Addrs : Allocated(a)' /\ InSpace("old", a) => Must(a)'
    BY <1>1 DEF Must
  <2>2. QED
    BY <1>1, <2>1 DEF Listed
<1>10. Scanned'
  <2>1. ASSUME NEW a \in Addrs, Must(a)'
        PROVE  Waiting(a)'
    BY <1>1, <2>1 DEF Must, Waiting
  <2>2. /\ \A r \in Roots : ~(r < k')
        /\ \A g \in Fields : ~(g < f')
        /\ ~ \E i \in 1..cont' : TRUE
    BY <1>1 DEF Roots, Fields
  <2>3. QED
    BY <1>1, <2>1, <2>2 DEF Scanned
<1>11. QED
  BY <1>4, <1>6, <1>7, <1>8, <1>9, <1>10 DEF GcInv

\* At the end of heap_gc the evacuated spaces are empty and the others stay.
LEMMA FinishKeeps ==
  ASSUME TypeOK, Finish
  PROVE  \A a \in Addrs : Allocated(a)' <=> Allocated(a) /\ ~InFrom(a)
<1>1. /\ blocks'["fresh"] = 0 /\ blocks'[survived] = 0
      /\ \A t \in Spaces \ {"fresh", survived} : blocks'[t] = blocks[t]
  BY SpaceNames DEF Finish, ResetBlocks, TypeOK, BlocksType, Spaces
<1>2. ASSUME NEW a \in Addrs
      PROVE  Allocated(a)' <=> Allocated(a) /\ ~InFrom(a)
  <2>1. PICK t \in Spaces : InSpace(t, a)
    BY Cover
  <2>2. \A x \in Spaces : InSpace(x, a) => x = t
    BY <2>1, Layout
  <2>3. Allocated(a) <=> a <= At(t, blocks[t])
    BY <2>1, AllocatedIn
  <2>4. Allocated(a)' <=> a <= At(t, blocks'[t])
    BY <2>1, <2>2 DEF Allocated, At
  <2>5. CASE t \in {"fresh", survived}
    <3>1. ~(a <= At(t, blocks'[t]))
      BY <1>1, <2>1, <2>5, Layout DEF InSpace, At, Addrs
    <3>2. QED
      BY <2>1, <2>4, <2>5, <3>1 DEF InFrom
  <2>6. CASE t \notin {"fresh", survived}
    <3>1. ~InFrom(a)
      BY <2>2, <2>6, SpaceNames DEF InFrom, TypeOK, Spaces
    <3>2. QED
      BY <1>1, <2>3, <2>4, <2>6, <3>1
  <2>7. QED
    BY <2>5, <2>6
<1>3. QED
  BY <1>2

\* The end of heap_gc leaves a heap in which every pointer leads to a block.
LEMMA FinishStep ==
  ASSUME TypeOK, TypeOK', GcInv, Finish
  PROVE  RunInv'
<1>1. /\ pc = "finish" /\ ~full_gc /\ remembered = <<>>
      /\ old_map' = NULL /\ survived' = future_survived
      /\ UNCHANGED <<roots, remembered>>
      /\ blocks' = [blocks EXCEPT !["fresh"] = 0, ![survived] = 0]
  BY DEF Finish, ResetBlocks, GcInv, Control
<1>2. \A a \in Addrs : ~InFrom(a) =>
        fwd'[a] = fwd[a] /\ rem'[a] = rem[a] /\ fld'[a] = fld[a]
  BY DEF Finish, TypeOK, MemType
<1>3. future_survived' = survived
  BY <1>1 DEF future_survived, TypeOK, BlocksType
<1>4. /\ blocks'["fresh"] = 0 /\ blocks'[survived] = 0
      /\ \A t \in Spaces \ {"fresh", survived} : blocks'[t] = blocks[t]
  BY <1>1, SpaceNames DEF TypeOK, BlocksType, Spaces
<1>5. \A a \in Addrs : Allocated(a)' <=> Allocated(a) /\ ~InFrom(a)
  BY FinishKeeps
\* A visited word leads to a block that is kept.
<1>6. ASSUME NEW v, NEW i, Refers(v, i), Visited(v)
      PROVE  v = 0 \/ Allocated(v)'
  <2>1. CASE i = 0
    BY <1>6, <2>1 DEF Refers
  <2>2. CASE i # 0
    <3>1. v \in Addrs /\ Allocated(v) /\ v # 0
      BY <1>6, <2>2, Layout DEF Refers, Usable, Addrs
    <3>2. ~InFrom(v)
      BY <1>1, <1>6, <3>1, Parts DEF Visited, TypeOK
    <3>3. QED
      BY <1>5, <3>1, <3>2
  <2>3. QED
    BY <2>1, <2>2
<1>7. ASSUME NEW r \in Roots
      PROVE  roots'[r] = 0 \/ Allocated(roots[r])'
  <2>1. PICK v : v = roots[r]
    OBVIOUS
  <2>2. Refers(v, groots[r]) /\ Visited(v)
    BY <1>1, <2>1, PassDone DEF GcInv, Contents
  <2>3. v = 0 \/ Allocated(v)'
    BY <1>6, <2>2
  <2>4. roots'[r] = v
    BY <1>1, <2>1
  <2>5. QED
    BY <2>3, <2>4 DEF Allocated
<1>8. ASSUME NEW a \in Addrs, Allocated(a)'
      PROVE  /\ \A g \in Fields : fld'[a][g] = 0 \/ Allocated(fld[a][g])'
             /\ ~fwd'[a]
             /\ rem'[a] => InSpace("old", a)
  <2>1. Allocated(a) /\ ~InFrom(a)
    BY <1>5, <1>8
  <2>2. ~fwd[a] /\ Usable(a) /\ (rem[a] => InSpace("old", a))
    BY <2>1 DEF GcInv, Forwards, Bits, Usable
  <2>3. InSpace(future_survived, a) \/ Must(a)
    BY <1>1, <2>1, Parts DEF Must, TypeOK
  <2>4. ASSUME NEW g \in Fields
        PROVE  fld'[a][g] = 0 \/ Allocated(fld[a][g])'
    <3>1. PICK v : v = fld[a][g]
      OBVIOUS
    <3>2. Refers(v, graph[id[a]][g]) /\ Visited(v)
      BY <1>1, <2>1, <2>2, <2>3, <3>1, PassDone DEF GcInv, Contents
    <3>3. v = 0 \/ Allocated(v)'
      BY <1>6, <3>2
    <3>4. fld'[a][g] = v
      BY <1>2, <2>1, <3>1
    <3>5. QED
      BY <3>3, <3>4 DEF Allocated
  <2>5. QED
    BY <1>2, <2>1, <2>2, <2>4
<1>9. QED
  BY <1>1, <1>3, <1>4, <1>7, <1>8 DEF RunInv

-----------------------------------------------------------------------------
(* The mutator. *)

\* Writing values that lead to blocks into slots of blocks keeps RunInv.
LEMMA WriteStep ==
  ASSUME TypeOK, TypeOK', RunInv,
         UNCHANGED <<fwd, rem, blocks, survived, remembered, old_map>>,
         \A r \in Roots : roots'[r] = 0 \/ Allocated(roots'[r]),
         \A a \in Addrs, g \in Fields : Allocated(a) =>
           fld'[a][g] = 0 \/ Allocated(fld'[a][g])
  PROVE  RunInv'
<1>1. \A a : Allocated(a)' <=> Allocated(a)
  BY DEF Allocated
<1>2. blocks'[future_survived'] = 0
  BY DEF RunInv, future_survived
<1>3. ASSUME NEW r \in Roots
      PROVE  roots'[r] = 0 \/ Allocated(roots[r])'
  BY DEF Allocated
<1>4. ASSUME NEW a \in Addrs, Allocated(a)'
      PROVE  /\ \A g \in Fields : fld'[a][g] = 0 \/ Allocated(fld[a][g])'
             /\ ~fwd'[a] /\ (rem'[a] => InSpace("old", a))
  <2>1. Allocated(a)
    BY <1>1, <1>4
  <2>2. \A g \in Fields : fld'[a][g] = 0 \/ Allocated(fld'[a][g])
    BY <2>1
  <2>3. \A g \in Fields : fld'[a][g] = 0 \/ Allocated(fld[a][g])'
    BY <2>2 DEF Allocated
  <2>4. QED
    BY <2>1, <2>3 DEF RunInv
<1>5. QED
  BY <1>2, <1>3, <1>4 DEF RunInv

LEMMA AllocStep ==
  ASSUME TypeOK, TypeOK', RunInv, NEW q \in Requests, AllocFresh(q)
  PROVE  RunInv'
<1>1. PICK p : p = At("fresh", blocks["fresh"] + 1)
  OBVIOUS
<1>2. /\ fwd' = [fwd EXCEPT ![p] = FALSE]
      /\ rem' = [rem EXCEPT ![p] = FALSE]
      /\ fld' = [fld EXCEPT ![p] = [g \in Fields |-> RootValue(q.src[g])]]
      /\ roots' = [roots EXCEPT ![q.dst] = p]
      /\ blocks' = [blocks EXCEPT !["fresh"] = blocks["fresh"] + 1]
      /\ UNCHANGED <<survived, old_map, remembered>>
  BY <1>1 DEF AllocFresh
<1>3. "fresh" \in Spaces /\ blocks["fresh"] < Size("fresh")
  BY Layout DEF AllocFresh, free_mem, Spaces, TypeOK, BlocksType
<1>4. /\ p \in Addrs /\ InSpace("fresh", p) /\ ~Allocated(p)
      /\ \A a \in Addrs : Allocated(a)' <=> Allocated(a) \/ a = p
  BY <1>1, <1>2, <1>3, NextBlock DEF TypeOK
<1>5. ASSUME NEW v \in Values, v = 0 \/ Allocated(v)
      PROVE  v = 0 \/ Allocated(v)'
  BY <1>4, <1>5 DEF Values, Addrs
<1>6. ASSUME NEW s \in 0..NRoots
      PROVE  RootValue(s) \in Values
             /\ (RootValue(s) = 0 \/ Allocated(RootValue(s)))
  BY Layout DEF RootValue, RunInv, TypeOK, RootsType, Roots, Values
<1>7. ASSUME NEW r \in Roots
      PROVE  roots'[r] = 0 \/ Allocated(roots[r])'
  <2>1. PICK v : v = roots'[r]
    OBVIOUS
  <2>2. v = p \/ v = roots[r]
    BY <1>2, <2>1 DEF TypeOK, RootsType
  <2>3. v = 0 \/ Allocated(v)'
    BY <1>4, <1>5, <2>2 DEF RunInv, TypeOK, RootsType
  <2>4. QED
    BY <2>1, <2>3 DEF Allocated
<1>8. ASSUME NEW a \in Addrs, Allocated(a)', NEW g \in Fields
      PROVE  fld'[a][g] = 0 \/ Allocated(fld[a][g])'
  <2>1. PICK v : v = fld'[a][g]
    OBVIOUS
  <2>2. v \in Values /\ (v = 0 \/ Allocated(v))
    <3>1. CASE a = p
      <4>1. v = RootValue(q.src[g]) /\ q.src[g] \in 0..NRoots
        BY <1>2, <1>4, <2>1, <3>1 DEF TypeOK, MemType, Requests
      <4>2. QED
        BY <1>6, <4>1
    <3>2. CASE a # p
      <4>1. v = fld[a][g] /\ Allocated(a)
        BY <1>2, <1>4, <1>8, <2>1, <3>2 DEF TypeOK, MemType
      <4>2. QED
        BY <4>1 DEF RunInv, TypeOK, MemType
    <3>3. QED
      BY <3>1, <3>2
  <2>3. v = 0 \/ Allocated(v)'
    BY <1>5, <2>2
  <2>4. QED
    BY <2>1, <2>3 DEF Allocated
<1>9. ASSUME NEW a \in Addrs, Allocated(a)'
      PROVE  ~fwd'[a] /\ (rem'[a] => InSpace("old", a))
  BY <1>2, <1>4, <1>9 DEF RunInv, TypeOK, MemType
<1>10. blocks'[future_survived'] = 0
  <2>1. future_survived' = future_survived /\ future_survived # "fresh"
    BY <1>2, SpaceNames DEF future_survived, TypeOK
  <2>2. QED
    BY <1>2, <2>1, SpaceNames DEF RunInv, TypeOK, BlocksType
<1>11. QED
  BY <1>2, <1>7, <1>8, <1>9, <1>10 DEF RunInv

LEMMA AccessStep ==
  ASSUME TypeOK, TypeOK', RunInv,
         \/ \E d, s \in Roots, g \in Fields : Load(d, s, g)
         \/ \E d \in Roots, s \in 0..NRoots, g \in Fields : Store(d, g, s)
         \/ \E d \in Roots, s \in 0..NRoots : Move(d, s)
  PROVE  RunInv'
<1>1. /\ \A r \in Roots : roots[r] = 0 \/ Allocated(roots[r])
      /\ \A a \in Addrs, g \in Fields : Allocated(a) =>
           fld[a][g] = 0 \/ Allocated(fld[a][g])
  BY DEF RunInv
<1>2. \A s \in 0..NRoots : RootValue(s) = 0 \/ Allocated(RootValue(s))
  BY <1>1, Layout DEF RootValue, Roots
<1>3. CASE \E d, s \in Roots, g \in Fields : Load(d, s, g)
  <2>1. PICK d \in Roots, s \in Roots, g \in Fields : Load(d, s, g)
    BY <1>3
  <2>2. /\ UNCHANGED <<fwd, rem, fld, blocks, survived, remembered, old_map>>
        /\ roots[s] # 0
        /\ roots' = [roots EXCEPT ![d] = fld[roots[s]][g]]
    BY <2>1 DEF Load, mem, hdrs, heap
  <2>3. roots[s] \in Addrs /\ Allocated(roots[s])
    BY <1>1, <2>2 DEF TypeOK, RootsType, Values, Addrs
  <2>4. \A r \in Roots : roots'[r] = 0 \/ Allocated(roots'[r])
    BY <1>1, <2>2, <2>3 DEF TypeOK, RootsType
  <2>5. QED
    BY <1>1, <2>2, <2>4, WriteStep
<1>4. CASE \E d \in Roots, s \in 0..NRoots, g \in Fields : Store(d, g, s)
  <2>1. PICK d \in Roots, s \in 0..NRoots, g \in Fields : Store(d, g, s)
    BY <1>4
  <2>2. /\ UNCHANGED <<fwd, rem, roots, blocks, survived, remembered, old_map>>
        /\ roots[d] # 0
        /\ fld' = [fld EXCEPT ![roots[d]][g] = RootValue(s)]
    BY <2>1 DEF Store, hdrs, heap
  <2>3. roots[d] \in Addrs
    BY <2>2 DEF TypeOK, RootsType, Values, Addrs
  <2>4. \A a \in Addrs, h \in Fields : Allocated(a) =>
          fld'[a][h] = 0 \/ Allocated(fld'[a][h])
    <3>1. \A a \in Addrs, h \in Fields :
            fld'[a][h] = IF a = roots[d] /\ h = g THEN RootValue(s) ELSE fld[a][h]
      BY <2>2, <2>3 DEF TypeOK, MemType
    <3>2. QED
      BY <1>1, <1>2, <3>1
  <2>5. QED
    BY <1>1, <2>2, <2>4, WriteStep
<1>5. CASE \E d \in Roots, s \in 0..NRoots : Move(d, s)
  <2>1. PICK d \in Roots, s \in 0..NRoots : Move(d, s)
    BY <1>5
  <2>2. /\ UNCHANGED <<fwd, rem, fld, blocks, survived, remembered, old_map>>
        /\ roots' = [roots EXCEPT ![d] = RootValue(s)]
    BY <2>1 DEF Move, mem, hdrs, heap
  <2>3. \A r \in Roots : roots'[r] = 0 \/ Allocated(roots'[r])
    BY <1>1, <1>2, <2>2 DEF TypeOK, RootsType
  <2>4. QED
    BY <1>1, <2>2, <2>3, WriteStep
<1>6. QED
  BY <1>3, <1>4, <1>5

-----------------------------------------------------------------------------
(* The theorems. *)

LEMMA InitIInv ==
  ASSUME Init
  PROVE  IInv
<1>1. \A a \in Addrs : ~Allocated(a)
  <2>1. ASSUME NEW a \in Addrs, NEW s \in Spaces, InSpace(s, a)
        PROVE  ~(a <= At(s, blocks[s]))
    BY <2>1, Layout DEF Init, InSpace, At, Addrs
  <2>2. QED
    BY <2>1 DEF Allocated
<1>2. RunInv
  BY <1>1 DEF Init, RunInv, future_survived, Spaces
<1>3. QED
  BY <1>2 DEF Init, IInv, GcPCs

\* No step takes the taint away.
LEMMA StaysTainted ==
  ASSUME [Next]_vars, ~tainted'
  PROVE  ~tainted
<1>1. CASE Mutate
  BY <1>1 DEF Mutate, New, NewFull, Require, Load, Store, Move, AllocFresh,
     EnterGc, ghost
<1>2. CASE heap_mark
  BY <1>2 DEF heap_mark, MarkSkip, MarkReached, MarkOld, MarkForwarded,
     MarkPostpone, MarkPromote, MarkSurvive, OldOverflow, SurvivedOverflow,
     Fatal, ghost
<1>3. CASE RootsDone \/ ScanOldDone \/ ScanRefsDone \/ ScanRememberedDone
  BY <1>3 DEF RootsDone, ScanOldDone, ScanRefsDone, ScanRememberedDone,
     ghost
<1>4. CASE HeapGcOld \/ Finish
  BY <1>4 DEF HeapGcOld, Finish
<1>5. CASE Retry
  BY <1>5 DEF Retry, Resume, AllocFresh, ghost
<1>6. CASE UNCHANGED vars
  BY <1>6 DEF vars, ghost
<1>7. QED
  BY <1>1, <1>2, <1>3, <1>4, <1>5, <1>6 DEF Next, Collect

LEMMA NextIInv ==
  ASSUME TypeOK, TypeOK', IInv, [Next]_vars
  PROVE  IInv'
<1>1. SUFFICES ASSUME ~tainted'
               PROVE  /\ pc' \in {"run", "resume"} => RunInv'
                      /\ pc' \in GcPCs => GcInv'
  BY DEF IInv
<1>2. ~tainted
  BY <1>1, StaysTainted
<1>3. /\ pc \in {"run", "resume"} => RunInv
      /\ pc \in GcPCs => GcInv
  BY <1>2 DEF IInv
<1>4. CASE \E q \in Requests : New(q)
  <2>1. PICK q \in Requests : New(q)
    BY <1>4
  <2>2. pc = "run" /\ pc' = pc /\ AllocFresh(q)
    BY <2>1 DEF New, regs
  <2>3. QED
    BY <1>3, <2>2, AllocStep DEF GcPCs
<1>5. CASE NewFull \/ \E n \in 1..FreshSize : Require(n)
  <2>1. pc = "run" /\ EnterGc
    BY <1>5 DEF NewFull, Require
  <2>2. pc' = "roots"
    BY <2>1 DEF EnterGc
  <2>3. QED
    BY <1>1, <1>3, <2>1, <2>2, EnterGcStep
<1>6. CASE \/ \E d, s \in Roots, g \in Fields : Load(d, s, g)
           \/ \E d \in Roots, s \in 0..NRoots, g \in Fields : Store(d, g, s)
           \/ \E d \in Roots, s \in 0..NRoots : Move(d, s)
  <2>1. pc = "run" /\ pc' = pc
    BY <1>6 DEF Load, Store, Move, regs
  <2>2. QED
    BY <1>3, <1>6, <2>1, AccessStep DEF GcPCs
<1>7. CASE heap_mark
  <2>1. pc \in GcPCs /\ (pc' = pc \/ pc' \in {"fatal_old", "fatal_survived"})
    BY <1>7 DEF heap_mark, MarkSkip, MarkReached, MarkOld, MarkForwarded,
       MarkPostpone, MarkPromote, MarkSurvive, OldOverflow, SurvivedOverflow,
       Fatal, AtSlot, GcPCs
  <2>2. pc' \notin {"run", "resume"}
    BY <2>1 DEF GcPCs
  <2>3. QED
    BY <1>3, <1>7, <2>1, <2>2, MarkStep
<1>8. CASE RootsDone
  <2>1. pc \in GcPCs /\ pc' \in GcPCs
    BY <1>8 DEF RootsDone, AfterRoots, GcPCs
  <2>2. QED
    BY <1>3, <1>8, <2>1, RootsDoneStep DEF GcPCs
<1>9. CASE ScanOldDone
  <2>1. pc \in GcPCs /\ pc' \in GcPCs
    BY <1>9 DEF ScanOldDone, GcPCs
  <2>2. QED
    BY <1>3, <1>9, <2>1, ScanOldDoneStep DEF GcPCs
<1>10. CASE ScanRefsDone
  <2>1. pc \in GcPCs /\ pc' \in GcPCs
    BY <1>10 DEF ScanRefsDone, AfterRefs, EndOfPass, GcPCs
  <2>2. QED
    BY <1>3, <1>10, <2>1, ScanRefsDoneStep DEF GcPCs
<1>11. CASE ScanRememberedDone
  <2>1. pc \in GcPCs /\ pc' \in GcPCs
    BY <1>11 DEF ScanRememberedDone, GcPCs
  <2>2. QED
    BY <1>3, <1>11, <2>1, ScanRememberedDoneStep DEF GcPCs
<1>12. CASE HeapGcOld
  <2>1. pc \in GcPCs /\ pc' \in GcPCs
    BY <1>12 DEF HeapGcOld, GcPCs
  <2>2. QED
    BY <1>1, <1>3, <1>12, <2>1, GcOldStep DEF GcPCs
<1>13. CASE Finish
  <2>1. pc \in GcPCs /\ pc' \in {"run", "resume"}
    BY <1>13 DEF Finish, GcPCs
  <2>2. QED
    BY <1>3, <1>13, <2>1, FinishStep DEF GcPCs
<1>14. CASE Retry
  <2>1. PICK q \in Requests : Resume(q)
    BY <1>14 DEF Retry
  <2>2. pc = "resume" /\ pc' = "run" /\ AllocFresh(q)
    BY <2>1 DEF Resume
  <2>3. QED
    BY <1>3, <2>2, AllocStep DEF GcPCs
<1>15. CASE UNCHANGED vars
  <2>1. RunInv => RunInv'
    BY <1>15 DEF vars, mem, hdrs, heap, regs, ghost, RunInv, Allocated,
       future_survived
  <2>2. GcInv => GcInv'
    <3>1. UNCHANGED <<fwd, gen, rem, fld, id, blocks, survived, full_gc, old_map,
                     remembered, roots, pc, k, f, cont, graph, groots>>
      BY <1>15 DEF vars, mem, hdrs, heap, regs, ghost
    <3>2. /\ future_survived' = future_survived
          /\ \A a : Allocated(a)' <=> Allocated(a)
          /\ \A a : InFrom(a)' <=> InFrom(a)
      BY <3>1 DEF future_survived, Allocated, InFrom
    <3>3. /\ \A a : Usable(a)' <=> Usable(a)
          /\ \A a : Must(a)' <=> Must(a)
          /\ \A a : Waiting(a)' <=> Waiting(a)
          /\ \A x : Visited(x)' <=> Visited(x)
          /\ AtSlot' <=> AtSlot
          /\ CurBlock' = CurBlock
      BY <3>1, <3>2 DEF Usable, Must, Waiting, Visited, SecondPass, AtSlot, CurBlock
    <3>4. \A x, i : Refers(x, i)' <=> Refers(x, i)
      BY <3>1, <3>3 DEF Refers
    <3>5. /\ Contents => Contents'
          /\ Forwards => Forwards'
      BY <3>1, <3>2, <3>3, <3>4 DEF Contents, Forwards
    <3>6. /\ Control => Control'
          /\ Bits => Bits'
          /\ Listed => Listed'
      BY <3>1, <3>2, <3>3 DEF Control, SecondPass, Bits, Listed
    <3>7. Scanned => Scanned'
      BY <3>1, <3>2, <3>3 DEF Scanned
    <3>8. QED
      BY <3>5, <3>6, <3>7 DEF GcInv
  <2>3. QED
    BY <1>3, <1>15, <2>1, <2>2 DEF vars, regs
<1>16. QED
  BY <1>4, <1>5, <1>6, <1>7, <1>8, <1>9, <1>10, <1>11, <1>12, <1>13, <1>14, <1>15
     DEF Next, Mutate, Collect

\* The inductive invariant of the collector (heap_gc) holds in every state.
THEOREM InvariantHolds == Spec => []IInv
<1>1. Init => IInv
  BY InitIInv
<1>2. TypeOK /\ TypeOK' /\ IInv /\ [Next]_vars => IInv'
  BY NextIInv
<1>3. QED
  BY <1>1, <1>2, TypeCorrect, PTL DEF Spec

\* What a slot refers to at the end is where the collection has left its object.
LEMMA DenotesVisited ==
  ASSUME TypeOK, GcInv, ~full_gc, NEW v, NEW i, Refers(v, i), Visited(v)
  PROVE  Denotes(v, i)
<1>1. CASE i = 0
  BY <1>1 DEF Refers, Denotes
<1>2. CASE i # 0
  <2>1. v \in Addrs /\ Allocated(v) /\ id[v] = i
    BY <1>2 DEF Refers, Usable
  <2>2. v # 0
    BY <2>1, Layout DEF Addrs
  <2>3. ~InFrom(v)
    BY <2>1, <2>2, Parts DEF Visited, TypeOK
  <2>4. QED
    BY <1>2, <2>1, <2>2, <2>3 DEF Denotes
<1>3. QED
  BY <1>1, <1>2

\* No collection that is not tainted loses, mixes up or half-moves an object:
\* When all slots are visited the heap is what it was.
LEMMA FaithfulEnd == TypeOK /\ IInv => Faithful
<1>1. ASSUME TypeOK, IInv
      PROVE  Faithful
  <2>1. SUFFICES ASSUME pc = "finish", ~tainted
                 PROVE  /\ \A r \in Roots : Denotes(roots[r], groots[r])
                        /\ \A a \in Addrs : Allocated(a) /\ ~InFrom(a) =>
                             \A g \in Fields : Denotes(fld[a][g], graph[id[a]][g])
    BY DEF Faithful
  <2>2. GcInv /\ ~full_gc
    BY <1>1, <2>1 DEF IInv, GcPCs, GcInv, Control
  <2>3. \A r \in Roots : Denotes(roots[r], groots[r])
    BY <1>1, <2>1, <2>2, PassDone, DenotesVisited DEF GcInv, Contents
  <2>4. ASSUME NEW a \in Addrs, Allocated(a), ~InFrom(a), NEW g \in Fields
        PROVE  Denotes(fld[a][g], graph[id[a]][g])
    <3>1. Usable(a) /\ ~fwd[a]
      BY <2>2, <2>4 DEF Usable, GcInv, Forwards
    <3>2. Refers(fld[a][g], graph[id[a]][g])
      BY <2>2, <3>1 DEF GcInv, Contents
    <3>3. InSpace(future_survived, a) \/ Must(a)
      BY <1>1, <2>2, <2>4, Parts DEF Must, TypeOK
    <3>4. Visited(fld[a][g])
      BY <1>1, <2>1, <2>2, <2>4, <3>3, PassDone
    <3>5. QED
      BY <1>1, <2>2, <3>2, <3>4, DenotesVisited
  <2>5. QED
    BY <2>3, <2>4
<1>2. QED
  BY <1>1

\* heap_gc leaves every root and every word of every block that it keeps with
\* the object that it had.
THEOREM FaithfulHolds == Spec => []Faithful
BY FaithfulEnd, TypeCorrect, InvariantHolds, PTL

\* As long as no collection was tainted, the mutator meets no dangling pointer.
THEOREM NoDanglingHolds == Spec => []NoDangling
<1>1. IInv => NoDangling
  BY DEF IInv, NoDangling, RunInv
<1>2. QED
  BY <1>1, InvariantHolds, PTL

\* Steps that neither add blocks nor unmark moved ones keep Unique.
LEMMA FewerBlocks ==
  ASSUME Unique, ~tainted, pc \in GcPCs, UNCHANGED <<fwd, id>>,
         \A a \in Addrs : Allocated(a)' => Allocated(a)
  PROVE  Unique'
<1>1. ASSUME NEW a \in Addrs, NEW b \in Addrs,
             Allocated(a)', ~fwd'[a], Allocated(b)', ~fwd'[b], id'[a] = id'[b]
      PROVE  a = b
  BY <1>1 DEF Unique
<1>2. QED
  BY <1>1 DEF Unique

LEMMA NextUnique ==
  ASSUME TypeOK, TypeOK', IInv, Unique, [Next]_vars
  PROVE  Unique'
<1>1. SUFFICES ASSUME ~tainted', pc' \in GcPCs
               PROVE  Unique'
  BY DEF Unique
<1>2. ~tainted
  BY <1>1, StaysTainted
<1>3. CASE NewFull \/ \E n \in 1..FreshSize : Require(n)
  <2>1. EnterGc
    BY <1>3 DEF NewFull, Require
  <2>2. \A a \in Addrs : Allocated(a)' <=> Allocated(a)
    BY <2>1 DEF EnterGc, heap, Allocated
  <2>3. \A a \in Addrs : Allocated(a) => id'[a] = a
    BY <2>1 DEF EnterGc
  <2>4. QED
    BY <2>2, <2>3 DEF Unique
<1>4. CASE heap_mark
  <2>1. GcInv /\ pc \in GcPCs
    BY <1>2, <1>4 DEF IInv, heap_mark, MarkSkip, MarkReached, MarkOld,
       MarkForwarded, MarkPostpone, MarkPromote, MarkSurvive, OldOverflow,
       SurvivedOverflow, AtSlot, GcPCs
  <2>2. CASE MarkSkip \/ MarkReached \/ MarkOld \/ MarkForwarded \/ MarkPostpone
    <3>1. PICK nv \in Values : NoCopy(nv)
      BY <2>1, <2>2, NoCopyCases
    <3>2. UNCHANGED <<fwd, id>> /\ \A a \in Addrs : Allocated(a)' <=> Allocated(a)
      BY <3>1 DEF NoCopy, Allocated
    <3>3. QED
      BY <1>2, <2>1, <3>2, FewerBlocks
  <2>3. CASE MarkPromote \/ MarkSurvive
    <3>1. PICK v, p : Copying(v, p)
      BY <2>1, <2>3, CopyCases
    <3>2. Allocated(v) /\ ~fwd[v] /\ v \in Addrs /\ p \in Addrs /\ p # v
          /\ ~Allocated(p)
      BY <2>1, <3>1, CopyBlocks DEF Copying, Usable
    <3>3. \A a, b \in Addrs :
            (/\ Allocated(a) /\ ~fwd[a] /\ Allocated(b) /\ ~fwd[b]
             /\ id[a] = id[b]) => a = b
      BY <1>2, <2>1 DEF Unique
    <3>4. ASSUME NEW a \in Addrs, Allocated(a)', ~fwd'[a], a # p
          PROVE  Allocated(a) /\ ~fwd[a] /\ a # v /\ id'[a] = id[a]
      BY <3>1, <3>4 DEF Copying
    <3>5. id'[p] = id[v]
      BY <3>1, <3>2 DEF Copying
    <3>6. ASSUME NEW a \in Addrs, NEW b \in Addrs,
                 Allocated(a)', ~fwd'[a], Allocated(b)', ~fwd'[b], id'[a] = id'[b]
          PROVE  a = b
      BY <3>2, <3>3, <3>4, <3>5, <3>6
    <3>7. QED
      BY <3>6 DEF Unique
  <2>4. CASE OldOverflow \/ SurvivedOverflow
    BY <1>1, <2>4 DEF OldOverflow, SurvivedOverflow, Fatal, GcPCs
  <2>5. QED
    BY <1>4, <2>2, <2>3, <2>4 DEF heap_mark
<1>5. CASE RootsDone \/ ScanOldDone \/ ScanRefsDone \/ ScanRememberedDone
  <2>1. pc \in GcPCs /\ UNCHANGED <<fwd, id, blocks>>
    BY <1>5 DEF RootsDone, ScanOldDone, ScanRefsDone, ScanRememberedDone, mem, hdrs,
       heap, GcPCs
  <2>2. QED
    BY <1>2, <2>1, FewerBlocks DEF Allocated
<1>6. CASE HeapGcOld
  <2>1. pc \in GcPCs /\ GcInv
    BY <1>2, <1>6 DEF HeapGcOld, GcPCs, IInv
  <2>2. UNCHANGED <<fwd, id>> /\ \A a \in Addrs : Allocated(a)' => Allocated(a)
    BY <1>1, <1>6, <2>1, GcOldEffect
  <2>3. QED
    BY <1>2, <2>1, <2>2, FewerBlocks
<1>7. CASE UNCHANGED vars
  <2>1. pc \in GcPCs /\ UNCHANGED <<fwd, id, blocks>>
    BY <1>1, <1>7 DEF vars, mem, hdrs, heap, regs
  <2>2. QED
    BY <1>2, <2>1, FewerBlocks DEF Allocated
<1>8. CASE \/ \E q \in Requests : New(q) \/ Resume(q)
           \/ \E d, s \in Roots, g \in Fields : Load(d, s, g)
           \/ \E d \in Roots, s \in 0..NRoots, g \in Fields : Store(d, g, s)
           \/ \E d \in Roots, s \in 0..NRoots : Move(d, s)
           \/ Finish
  <2>1. pc' \in {"run", "resume"}
    BY <1>8 DEF New, Resume, Load, Store, Move, Finish, regs
  <2>2. QED
    BY <1>1, <2>1 DEF GcPCs
<1>9. QED
  BY <1>3, <1>4, <1>5, <1>6, <1>7, <1>8 DEF Next, Mutate, Collect, Retry

\* When a collection ends no object is there twice.
LEMMA OneCopyEnd ==
  ASSUME TypeOK, IInv, Unique
  PROVE  OneCopy
<1>1. SUFFICES ASSUME pc = "finish", ~tainted,
                      NEW a \in Addrs, NEW b \in Addrs,
                      Allocated(a), ~InFrom(a), Allocated(b), ~InFrom(b),
                      id[a] = id[b]
               PROVE  a = b
  BY DEF OneCopy
<1>2. GcInv /\ pc \in GcPCs
  BY <1>1 DEF IInv, GcPCs
<1>3. ~fwd[a] /\ ~fwd[b]
  BY <1>1, <1>2 DEF GcInv, Forwards
<1>4. QED
  BY <1>1, <1>2, <1>3 DEF Unique

\* A collection copies each object once (hdr->forward), and heap_gc_old drops or
\* keeps it once.
THEOREM OneCopyHolds == Spec => []OneCopy
<1>1. Init => Unique
  BY DEF Init, Unique, GcPCs
<1>2. Spec => []Unique
  BY <1>1, NextUnique, TypeCorrect, InvariantHolds, PTL DEF Spec
<1>3. TypeOK /\ IInv /\ Unique => OneCopy
  BY OneCopyEnd
<1>4. QED
  BY <1>2, <1>3, TypeCorrect, InvariantHolds, PTL

-----------------------------------------------------------------------------
(* What can be reached: the least set that is closed under the graph.      *)

LEMMA LeastExists ==
  ASSUME NEW T \in SUBSET Nat, T # {}
  PROVE  \E x \in T : \A y \in T : x <= y
<1> DEFINE R == {ss \in Nat \X Nat : ss[1] < ss[2]}
<1>1. R = OpToRel(<, Nat)
  BY DEF OpToRel
<1>2. IsWellFoundedOn(R, Nat)
  BY <1>1, NatLessThanWellFounded, Zenon
<1> HIDE DEF R
<1>3. PICK x \in T : \A y \in T : ~ (<<y, x>> \in R)
  BY <1>2, WFMin
<1>4. \A y \in T : <<y, x>> \in R <=> y < x
  BY DEF R
<1>5. \A y \in T : ~ (y < x)
  BY <1>3, <1>4, Zenon
<1>6. \A y \in T : x <= y
  BY <1>5
<1> QED
  BY <1>6

\* C contains all that the words of its objects lead to.
Closed(gr, C) ==
  \A a \in C \cap Addrs, g \in Fields : gr[a][g] = 0 \/ gr[a][g] \in C

GraphType(gr) == gr \in [Addrs -> [Fields -> Values]]

\* One step further along the words of the graph.
Further(gr, T) == T \cup {gr[a][g] : a \in T \ {0}, g \in Fields}

\* The first m steps from S.
Chain(gr, u, S, m) ==
  /\ u \in [0..m -> SUBSET Values]
  /\ u[0] = S
  /\ \A n \in 1..m : u[n] = Further(gr, u[n - 1])

LEMMA FurtherType ==
  ASSUME NEW gr, GraphType(gr), NEW T \in SUBSET Values
  PROVE  Further(gr, T) \in SUBSET Values
<1>1. T \ {0} \subseteq Addrs
  BY Layout DEF Values, Addrs
<1>2. \A a \in Addrs, g \in Fields : gr[a][g] \in Values
  BY DEF GraphType
<1>3. QED
  BY <1>1, <1>2 DEF Further

LEMMA ChainExists ==
  ASSUME NEW gr, GraphType(gr), NEW S \in SUBSET Values, NEW m \in Nat
  PROVE  \E u : Chain(gr, u, S, m)
<1> DEFINE T == {n \in Nat : ~ \E u : Chain(gr, u, S, n)}
<1>1. SUFFICES ASSUME T # {} PROVE FALSE
  OBVIOUS
<1>2. PICK n \in T : \A l \in T : n <= l
  BY <1>1, LeastExists
<1>3. n # 0
  <2>1. Chain(gr, [l \in 0..0 |-> S], S, 0)
    BY DEF Chain
  <2>2. QED
    BY <2>1
<1>4. n - 1 \in Nat /\ n - 1 \notin T
  BY <1>2, <1>3
<1>5. PICK u : Chain(gr, u, S, n - 1)
  BY <1>4
<1> DEFINE v == [l \in 0..n |-> IF l = n THEN Further(gr, u[n - 1]) ELSE u[l]]
<1>6. u \in [0 .. n - 1 -> SUBSET Values] /\ u[0] = S
      /\ \A l \in 1 .. n - 1 : u[l] = Further(gr, u[l - 1])
  BY <1>5 DEF Chain
<1>7. Further(gr, u[n - 1]) \in SUBSET Values
  BY <1>4, <1>6, FurtherType
<1>8. v \in [0..n -> SUBSET Values]
  BY <1>4, <1>6, <1>7
<1>9. v[n] = Further(gr, u[n - 1]) /\ \A l \in 0 .. n - 1 : v[l] = u[l]
  BY <1>4
<1>10. ASSUME NEW l \in 1..n
       PROVE  v[l] = Further(gr, v[l - 1])
  BY <1>4, <1>6, <1>9
<1>11. v[0] = S
  BY <1>4, <1>6, <1>9
<1>12. Chain(gr, v, S, n)
  BY <1>8, <1>10, <1>11 DEF Chain
<1>13. QED
  BY <1>12

LEMMA ReachedChain ==
  ASSUME NEW gr, GraphType(gr), NEW S \in SUBSET Values
  PROVE  \E u : Chain(gr, u, S, HeapSize) /\ ReachedIn(gr, S) = u[HeapSize] \ {0}
<1> DEFINE e(u, n) == IF n = 0 THEN S
                      ELSE u[n - 1] \cup {gr[a][g] : a \in u[n - 1] \ {0}, g \in Fields}
           Upto(u) == [n \in 0..HeapSize |-> e(u, n)]
<1>1. PICK w : Chain(gr, w, S, HeapSize)
  BY ChainExists, Layout
<1>2. w = Upto(w)
  <2>1. w = [n \in 0..HeapSize |-> w[n]]
    BY <1>1 DEF Chain
  <2>2. ASSUME NEW n \in 0..HeapSize
        PROVE  w[n] = e(w, n)
    <3>1. CASE n = 0
      BY <1>1, <3>1 DEF Chain
    <3>2. CASE n # 0
      <4>1. n \in 1..HeapSize
        BY <3>2, Layout
      <4>2. w[n] = Further(gr, w[n - 1])
        BY <1>1, <4>1 DEF Chain
      <4>3. QED
        BY <3>2, <4>2 DEF Further
    <3>3. QED
      BY <3>1, <3>2
  <2> HIDE DEF e
  <2>3. QED
    BY <2>1, <2>2
<1>3. PICK u : u = (CHOOSE x : x = Upto(x))
  OBVIOUS
<1>4. ReachedIn(gr, S) = u[HeapSize] \ {0}
  BY <1>3 DEF ReachedIn
<1>5. u = Upto(u)
  <2> HIDE DEF Upto
  <2>1. QED
    BY <1>2, <1>3, Zenon
<1>6. \A n \in 0..HeapSize : u[n] = w[n]
  <2> DEFINE T == {n \in 0..HeapSize : u[n] # w[n]}
  <2>1. SUFFICES ASSUME T # {} PROVE FALSE
    OBVIOUS
  <2>2. PICK n \in T : \A l \in T : n <= l
    <3>1. T \in SUBSET Nat
      OBVIOUS
    <3>2. QED
      BY <2>1, <3>1, LeastExists
  <2>3. /\ u[0] = S /\ w[0] = S
        /\ \A l \in 1..HeapSize : u[l] = Further(gr, u[l - 1])
        /\ \A l \in 1..HeapSize : w[l] = Further(gr, w[l - 1])
    <3>1. \A x, l : x = Upto(x) /\ l \in 1..HeapSize => x[l] = Further(gr, x[l - 1])
      <4>1. \A l \in 1..HeapSize : l \in 0..HeapSize /\ l # 0
        BY Layout
      <4>2. \A x, l : l # 0 => e(x, l) = Further(gr, x[l - 1])
        BY DEF Further
      <4> HIDE DEF e
      <4>3. QED
        BY <4>1, <4>2
    <3>2. \A x : x = Upto(x) => x[0] = S
      BY Layout
    <3> HIDE DEF Upto
    <3>3. QED
      BY <1>2, <1>5, <3>1, <3>2
  <2>4. n # 0
    BY <2>3
  <2>5. n \in 1..HeapSize /\ n - 1 \in 0..HeapSize /\ ~(n <= n - 1)
    BY <2>4, Layout
  <2>6. n - 1 \notin T
    BY <2>2, <2>5
  <2>7. u[n - 1] = w[n - 1]
    BY <2>5, <2>6
  <2>8. u[n] = w[n]
    BY <2>3, <2>5, <2>7
  <2>9. QED
    BY <2>8
<1>7. u[HeapSize] = w[HeapSize]
  BY <1>6, Layout
<1>8. QED
  BY <1>1, <1>4, <1>7

\* The steps from S lead to more and more, but never to more than S and all that
\* is closed and contains it.
LEMMA ChainGrows ==
  ASSUME NEW gr, GraphType(gr), NEW S, NEW m \in Nat, NEW u, Chain(gr, u, S, m)
  PROVE  /\ \A n \in 0..m : S \subseteq u[n] /\ u[n] \ {0} \subseteq Addrs
         /\ \A C : S \ {0} \subseteq C /\ Closed(gr, C) => \A n \in 0..m : u[n] \ {0} \subseteq C
<1>1. ASSUME NEW n \in 0..m
      PROVE  u[n] \ {0} \subseteq Addrs
  BY Layout DEF Chain, Values, Addrs
<1>2. ASSUME NEW n \in 0..m, n # 0
      PROVE  n \in 1..m /\ n - 1 \in 0..m /\ ~(n <= n - 1) /\ u[n] = Further(gr, u[n - 1])
  BY <1>2 DEF Chain
<1>3. \A n \in 0..m : S \subseteq u[n]
  <2> DEFINE T == {n \in 0..m : ~(S \subseteq u[n])}
  <2>1. SUFFICES ASSUME T # {} PROVE FALSE
    OBVIOUS
  <2>2. PICK n \in T : \A l \in T : n <= l
    <3>1. T \in SUBSET Nat
      OBVIOUS
    <3>2. QED
      BY <2>1, <3>1, LeastExists
  <2>3. n # 0
    BY DEF Chain
  <2>4. n - 1 \in 0..m /\ n - 1 \notin T /\ u[n] = Further(gr, u[n - 1])
    BY <1>2, <2>2, <2>3
  <2>5. QED
    BY <2>4 DEF Further
<1>4. ASSUME NEW C, S \ {0} \subseteq C,
             Closed(gr, C)
      PROVE  \A n \in 0..m : u[n] \ {0} \subseteq C
  <2> DEFINE T == {n \in 0..m : ~(u[n] \ {0} \subseteq C)}
  <2>1. SUFFICES ASSUME T # {} PROVE FALSE
    OBVIOUS
  <2>2. PICK n \in T : \A l \in T : n <= l
    <3>1. T \in SUBSET Nat
      OBVIOUS
    <3>2. QED
      BY <2>1, <3>1, LeastExists
  <2>3. n # 0
    BY <1>4 DEF Chain
  <2>4. n - 1 \in 0..m /\ n - 1 \notin T /\ u[n] = Further(gr, u[n - 1])
    BY <1>2, <2>2, <2>3
  <2>5. u[n - 1] \ {0} \subseteq C \cap Addrs
    BY <1>1, <2>4
  <2>6. QED
    BY <1>4, <2>4, <2>5 DEF Further, Closed
<1>5. QED
  BY <1>1, <1>3, <1>4

\* Within as many steps as there are addresses all is reached.
LEMMA ChainCloses ==
  ASSUME NEW gr, GraphType(gr), NEW S, NEW u, Chain(gr, u, S, HeapSize)
  PROVE  \A a \in u[HeapSize] \ {0}, g \in Fields :
           gr[a][g] = 0 \/ gr[a][g] \in u[HeapSize]
<1> DEFINE R(n) == u[n] \ {0}
<1>1. /\ HeapSize \in Nat
      /\ \A n \in 0..HeapSize : R(n) \subseteq Addrs
  BY ChainGrows, Layout
<1>2. /\ IsFiniteSet(Addrs) /\ Cardinality(Addrs) = HeapSize
  BY <1>1, FS_Interval DEF Addrs
<1>3. \A n \in 0..HeapSize : IsFiniteSet(R(n)) /\ Cardinality(R(n)) \in Nat
  BY <1>1, <1>2, FS_Subset, FS_CardinalityType
<1>4. ASSUME NEW n \in 0..HeapSize, n # 0
      PROVE  n \in 1..HeapSize /\ n - 1 \in 0..HeapSize /\ u[n] = Further(gr, u[n - 1])
  BY <1>4, <1>1 DEF Chain
<1>5. ASSUME NEW n \in 0..HeapSize, NEW l \in 0..HeapSize, R(n) = R(l)
      PROVE  Further(gr, u[n]) \ {0} = Further(gr, u[l]) \ {0}
  BY <1>5 DEF Further
<1>6. CASE \A n \in 1..HeapSize : R(n) # R(n - 1)
  <2> DEFINE T == {n \in 0..HeapSize : Cardinality(R(n)) < n}
  <2>1. T = {}
    <3>1. SUFFICES ASSUME T # {} PROVE FALSE
      OBVIOUS
    <3>2. PICK n \in T : \A l \in T : n <= l
      <4>1. T \in SUBSET Nat
        OBVIOUS
      <4>2. QED
        BY <3>1, <4>1, LeastExists
    <3>3. n # 0
      BY <1>1, <1>3
    <3>4. n - 1 \in 0..HeapSize /\ n - 1 \notin T /\ u[n] = Further(gr, u[n - 1])
      BY <1>4, <3>2, <3>3
    <3>5. R(n - 1) \subseteq R(n) /\ R(n - 1) # R(n)
      BY <1>4, <1>6, <3>3, <3>4 DEF Further
    <3>6. Cardinality(R(n - 1)) < Cardinality(R(n))
      <4>1. /\ Cardinality(R(n - 1)) <= Cardinality(R(n))
            /\ Cardinality(R(n - 1)) # Cardinality(R(n))
        BY <1>3, <3>4, <3>5, FS_Subset
      <4>2. QED
        BY <1>3, <3>4, <4>1
    <3>7. ~(Cardinality(R(n - 1)) < n - 1)
      BY <3>4
    <3>8. n \in Int /\ Cardinality(R(n)) < n /\ n \in 0..HeapSize
      BY <1>1, <3>2
    <3> HIDE DEF R
    <3>9. Cardinality(R(n)) \in Int /\ Cardinality(R(n - 1)) \in Int
      BY <1>3, <3>4, <3>8
    <3>10. QED
      BY <3>6, <3>7, <3>8, <3>9
  <2>2. Cardinality(R(HeapSize)) = HeapSize
    <3>1. Cardinality(R(HeapSize)) <= HeapSize
      BY <1>1, <1>2, FS_Subset
    <3>2. ~(Cardinality(R(HeapSize)) < HeapSize)
      BY <1>1, <2>1
    <3>3. QED
      BY <1>1, <1>3, <3>1, <3>2
  <2>3. R(HeapSize) = Addrs
    BY <1>1, <1>2, <2>2, FS_Subset
  <2>4. \A a \in Addrs, g \in Fields : gr[a][g] = 0 \/ gr[a][g] \in Addrs
    BY <1>1 DEF GraphType, Values, Addrs
  <2>5. QED
    BY <2>3, <2>4
<1>7. CASE \E n \in 1..HeapSize : R(n) = R(n - 1)
  <2>1. PICK n \in 1..HeapSize : R(n) = R(n - 1)
    BY <1>7
  <2>2. n - 1 \in 0..HeapSize /\ n \in 0..HeapSize /\ n # 0 /\ n <= HeapSize
    BY <1>1
  <2>3. Further(gr, u[n - 1]) \ {0} = R(n - 1)
    BY <1>4, <2>1, <2>2
  <2> DEFINE T == {l \in n..HeapSize : R(l) # R(n - 1)}
  <2>4. T = {}
    <3>1. SUFFICES ASSUME T # {} PROVE FALSE
      OBVIOUS
    <3>2. PICK l \in T : \A j \in T : l <= j
      <4>1. T \in SUBSET Nat
        BY <2>2
      <4>2. QED
        BY <3>1, <4>1, LeastExists
    <3>3. l # n
      BY <2>1
    <3>4. l - 1 \in n..HeapSize /\ l - 1 \notin T /\ l \in 0..HeapSize /\ l # 0
      BY <1>1, <2>2, <3>2, <3>3
    <3>5. R(l - 1) = R(n - 1) /\ u[l] = Further(gr, u[l - 1]) /\ l - 1 \in 0..HeapSize
      BY <1>4, <3>4
    <3>6. R(l) = R(n - 1)
      BY <1>5, <2>2, <2>3, <3>5
    <3>7. QED
      BY <3>6
  <2>5. R(HeapSize) = R(n - 1)
    BY <1>1, <2>2, <2>4
  <2>6. Further(gr, u[HeapSize]) \ {0} = R(HeapSize)
    <3>1. HeapSize \in 0..HeapSize
      BY <1>1
    <3>2. QED
      BY <1>5, <2>2, <2>3, <2>5, <3>1
  <2>7. QED
    BY <2>6 DEF Further
<1>8. QED
  BY <1>6, <1>7

LEMMA ReachedInIs ==
  ASSUME NEW gr, GraphType(gr), NEW S \in SUBSET Values
  PROVE  /\ ReachedIn(gr, S) \subseteq Addrs
         /\ S \ {0} \subseteq ReachedIn(gr, S)
         /\ \A a \in ReachedIn(gr, S), g \in Fields :
              gr[a][g] = 0 \/ gr[a][g] \in ReachedIn(gr, S)
         /\ \A C : S \ {0} \subseteq C /\ Closed(gr, C) => ReachedIn(gr, S) \subseteq C
<1>1. PICK u : Chain(gr, u, S, HeapSize) /\ ReachedIn(gr, S) = u[HeapSize] \ {0}
  BY ReachedChain
<1>2. HeapSize \in Nat /\ HeapSize \in 0..HeapSize
  BY Layout
<1>3. \A a \in u[HeapSize] \ {0}, g \in Fields :
        gr[a][g] = 0 \/ gr[a][g] \in u[HeapSize]
  BY <1>1, ChainCloses
<1>4. /\ S \subseteq u[HeapSize] /\ u[HeapSize] \ {0} \subseteq Addrs
      /\ \A C : S \ {0} \subseteq C /\ Closed(gr, C) => u[HeapSize] \ {0} \subseteq C
  BY <1>1, <1>2, ChainGrows
<1>5. QED
  BY <1>1, <1>3, <1>4, Zenon

-----------------------------------------------------------------------------
(* The live objects of the collection.                                     *)

Seeds == IF Whole THEN RootObjects ELSE RootObjects \cup OldObjects

LEMMA LiveReached ==
  /\ Live = ReachedIn(graph, Seeds)
  /\ Live' = ReachedIn(graph', Seeds')
<1>1. Live = ReachedFrom(Seeds)
  BY DEF Live, Seeds, Whole, SecondPass
<1>2. ASSUME NEW S
      PROVE  ReachedFrom(S) = ReachedIn(graph, S)
  BY DEF ReachedFrom
<1>3. Live' = ReachedFrom(Seeds)'
  BY DEF Live, Seeds, Whole, SecondPass
<1>4. ReachedFrom(Seeds)' = ReachedIn(graph', Seeds')
  BY DEF ReachedFrom
<1>5. QED
  BY <1>1, <1>2, <1>3, <1>4

LEMMA SeedsAre ==
  ASSUME GhostType
  PROVE  /\ Seeds \in SUBSET Values
         /\ \A r \in Roots : groots[r] \in Seeds
         /\ ~Whole => OldObjects \subseteq Seeds
         /\ \A x \in Seeds : (\E r \in Roots : x = groots[r]) \/ (~Whole /\ x \in OldObjects)
<1>1. RootObjects \in SUBSET Values /\ OldObjects \in SUBSET Values
  BY DEF GhostType, RootObjects, OldObjects, Values, Addrs
<1>2. QED
  BY <1>1 DEF Seeds, RootObjects

LEMMA LiveIs ==
  ASSUME GhostType
  PROVE  /\ Live \subseteq Addrs
         /\ \A r \in Roots : groots[r] = 0 \/ groots[r] \in Live
         /\ ~Whole => OldObjects \subseteq Live
         /\ \A a \in Live, g \in Fields : graph[a][g] = 0 \/ graph[a][g] \in Live
         /\ \A C : Seeds \ {0} \subseteq C /\ Closed(graph, C) => Live \subseteq C
<1>1. GraphType(graph)
  BY DEF GhostType, GraphType
<1>2. /\ Live \subseteq Addrs
      /\ Seeds \ {0} \subseteq Live
      /\ \A a \in Live, g \in Fields : graph[a][g] = 0 \/ graph[a][g] \in Live
      /\ \A C : Seeds \ {0} \subseteq C /\ Closed(graph, C) => Live \subseteq C
  BY <1>1, LiveReached, SeedsAre, ReachedInIs, Zenon
<1>3. 0 \notin OldObjects
  BY Layout DEF OldObjects, Addrs
<1>4. QED
  BY <1>2, <1>3, SeedsAre

LEMMA LiveSame ==
  ASSUME UNCHANGED <<graph, groots>>, Whole' <=> Whole, ~Whole => OldObjects' = OldObjects
  PROVE  Live' = Live
<1>1. RootObjects' = RootObjects
  BY DEF RootObjects
<1>2. Seeds' = Seeds
  <2>1. CASE Whole
    BY <1>1, <2>1 DEF Seeds
  <2>2. CASE ~Whole
    BY <1>1, <2>2 DEF Seeds
  <2>3. QED
    BY <2>1, <2>2
<1>3. QED
  BY <1>2, LiveReached

\* The object in the slot that is visited is live.
LEMMA CurLive ==
  ASSUME TypeOK, GcInv, OnlyLive, AtSlot, CurValue # 0
  PROVE  id[CurValue] \in Live
<1>1. Refers(CurValue, CurRef)
  BY CurFacts
<1>2. CurRef # 0 /\ id[CurValue] = CurRef
  BY <1>1 DEF Refers
<1>3. CASE pc = "roots"
  <2>1. k \in Roots /\ CurRef = groots[k]
    BY <1>3, SlotType DEF CurRef
  <2>2. QED
    BY <1>2, <2>1, LiveIs DEF TypeOK
<1>4. CASE pc # "roots"
  <2>1. /\ CurBlock \in Addrs /\ f \in Fields /\ CurRef = graph[id[CurBlock]][f]
        /\ Usable(CurBlock)
    BY <1>4, SlotType, CurFacts DEF CurRef
  <2>2. (Allocated(CurBlock) /\ InSpace(future_survived, CurBlock)) \/ Must(CurBlock)
    <3>1. CASE pc = "old"
      <4>1. k \in 1..blocks["old"] /\ CurBlock = At("old", k) /\ "old" \in Spaces
        BY <3>1 DEF TypeOK, RegsType, BlocksType, Spaces, AtSlot, CurBlock
      <4>2. InSpace("old", CurBlock) /\ Allocated(CurBlock)
        BY <4>1, AllocatedAt DEF TypeOK
      <4>3. ~full_gc
        BY <3>1 DEF GcInv, Control
      <4>4. QED
        BY <4>2, <4>3 DEF Must
    <3>2. CASE pc = "refs"
      <4>1. /\ cont + 1 \in 1..blocks[future_survived]
            /\ CurBlock = At(future_survived, cont + 1) /\ future_survived \in Spaces
        BY <3>2, SpaceNames DEF TypeOK, RegsType, BlocksType, AtSlot, CurBlock
      <4>2. QED
        BY <4>1, AllocatedAt DEF TypeOK
    <3>3. CASE pc = "rem"
      <4>1. k \in 1..Len(remembered) /\ CurBlock = remembered[k]
        BY <3>3 DEF TypeOK, RegsType, AtSlot, CurBlock
      <4>2. QED
        BY <4>1 DEF GcInv, Listed
    <3>4. QED
      BY <1>4, <3>1, <3>2, <3>3 DEF AtSlot
  <2>3. id[CurBlock] \in Live
    BY <2>1, <2>2 DEF OnlyLive
  <2>4. QED
    BY <1>2, <2>1, <2>3, LiveIs DEF TypeOK
<1>5. QED
  BY <1>3, <1>4

-----------------------------------------------------------------------------
(* The visits.                                                             *)

GcLive == Origins /\ OldKept /\ OnlyLive

LEMMA SameOld ==
  ASSUME UNCHANGED id
  PROVE  OldObjects' = OldObjects
BY DEF OldObjects

\* Nothing of it changes.
LEMMA SameStep ==
  ASSUME GcLive, UNCHANGED <<gen, rem, id, blocks, survived, full_gc, old_map, graph, groots>>
  PROVE  GcLive'
<1>1. /\ future_survived' = future_survived /\ (Whole' <=> Whole)
      /\ \A a : Allocated(a)' <=> Allocated(a)
      /\ \A a : InFrom(a)' <=> InFrom(a)
      /\ \A a : Must(a)' <=> Must(a)
  BY DEF future_survived, Whole, SecondPass, Allocated, InFrom, Must
<1>2. OldObjects' = OldObjects /\ Live' = Live
  BY <1>1, SameOld, LiveSame
<1>3. Origins'
  BY <1>1 DEF GcLive, Origins
<1>4. OldKept'
  BY <1>1, <1>2 DEF GcLive, OldKept
<1>5. OnlyLive'
  BY <1>1, <1>2 DEF GcLive, OnlyLive
<1>6. QED
  BY <1>3, <1>4, <1>5 DEF GcLive

LEMMA NoCopyLive ==
  ASSUME TypeOK, GcInv, GcLive, NEW nv \in Values, NoCopy(nv)
  PROVE  GcLive'
<1>1. UNCHANGED <<gen, id, blocks, survived, full_gc, old_map, graph, groots>>
  BY DEF NoCopy
<1>2. /\ future_survived' = future_survived /\ (Whole' <=> Whole)
      /\ \A a : Allocated(a)' <=> Allocated(a)
      /\ \A a : InFrom(a)' <=> InFrom(a)
  BY <1>1 DEF future_survived, Whole, SecondPass, Allocated, InFrom
<1>3. OldObjects' = OldObjects /\ Live' = Live
  BY <1>1, <1>2, SameOld, LiveSame
<1>4. Origins'
  BY <1>1, <1>2 DEF GcLive, Origins
<1>5. OldKept'
  BY <1>1, <1>2, <1>3 DEF GcLive, OldKept
<1>6. ASSUME NEW a \in Addrs, (Allocated(a) /\ InSpace(future_survived, a)) \/ Must(a)'
      PROVE  id[a] \in Live
  <2>1. CASE (Allocated(a) /\ InSpace(future_survived, a)) \/ Must(a)
    BY <2>1 DEF GcLive, OnlyLive
  <2>2. CASE Must(a)' /\ ~Must(a)
    <3>1. rem'[a] /\ ~rem[a]
      BY <1>1, <1>2, <2>2 DEF Must
    <3>2. a = CurValue /\ a # 0 /\ AtSlot
      BY <3>1, Layout DEF NoCopy, Addrs
    <3>3. QED
      BY <3>2, CurLive DEF GcLive
  <2>3. QED
    BY <1>6, <2>1, <2>2
<1>7. OnlyLive'
  BY <1>1, <1>2, <1>3, <1>6 DEF OnlyLive
<1>8. QED
  BY <1>4, <1>5, <1>7 DEF GcLive

\* Ripe objects go to the old space, and only they.
LEMMA CopyKind ==
  ASSUME TypeOK, MarkPromote \/ MarkSurvive, NEW v, NEW p, Copying(v, p)
  PROVE  /\ InSpace("old", p) => gen[v] = PromoteGen
         /\ InSpace(future_survived, p) => gen[v] # PromoteGen
<1>1. CASE MarkPromote
  <2>1. remembered' # remembered
    <3>1. PICK x \in Addrs : remembered' = Append(remembered, x)
      <4>1. PICK x : x = At("old", blocks["old"] + 1) /\ remembered' = Append(remembered, x)
        BY <1>1 DEF MarkPromote
      <4>2. blocks["old"] + 1 \in 1..Size("old") /\ "old" \in Spaces
        <5>1. "old" \in Spaces
          BY DEF Spaces
        <5>2. PICK b, size : b = blocks["old"] /\ size = Size("old")
          OBVIOUS
        <5>3. b \in Nat /\ size \in Nat
          BY <5>1, <5>2, Layout DEF TypeOK, BlocksType
        <5>4. b < size
          BY <1>1, <5>2 DEF MarkPromote, HasRoom
        <5>5. b + 1 \in 1..size
          BY <5>3, <5>4
        <5>6. QED
          BY <5>1, <5>2, <5>5
      <4>3. QED
        BY <4>1, <4>2, Layout
    <3>2. Len(remembered') = Len(remembered) + 1 /\ Len(remembered) \in Nat
      BY <3>1 DEF TypeOK
    <3>3. QED
      BY <3>2
  <2>2. InSpace("old", p) /\ p \in Addrs
    BY <2>1 DEF Copying
  <2>3. ~InSpace(future_survived, p)
    BY <2>2, Parts DEF TypeOK
  <2>4. QED
    BY <1>1, <2>3 DEF MarkPromote, Ripe, Copying
<1>2. CASE MarkSurvive
  <2>1. remembered' = remembered /\ gen[v] # PromoteGen
    BY <1>2 DEF MarkSurvive, Young, Copying
  <2>2. ~(InSpace("old", p) /\ remembered' = Append(remembered, p))
    <3>1. p \in Addrs => Len(Append(remembered, p)) = Len(remembered) + 1 /\ Len(remembered) \in Nat
      BY DEF TypeOK
    <3>2. QED
      BY <2>1, <3>1 DEF Copying
  <2>3. InSpace(future_survived, p) /\ p \in Addrs
    BY <2>2 DEF Copying
  <2>4. ~InSpace("old", p)
    BY <2>3, Parts DEF TypeOK
  <2>5. QED
    BY <2>1, <2>4
<1>3. QED
  BY <1>1, <1>2

LEMMA CopyLive ==
  ASSUME TypeOK, TypeOK', GcInv, GcLive, MarkPromote \/ MarkSurvive,
         NEW v, NEW p, Copying(v, p)
  PROVE  GcLive'
<1>1. /\ UNCHANGED <<survived, full_gc, old_map, graph, groots>> /\ AtSlot /\ v = CurValue
      /\ v \in Addrs /\ InFrom(v) /\ p \in Addrs /\ ~Allocated(p)
      /\ \A a \in Addrs : Allocated(a)' <=> Allocated(a) \/ a = p
      /\ \A a \in Addrs : id'[a] = IF a = p THEN id[v] ELSE id[a]
      /\ \A a \in Addrs : a # p => gen'[a] = gen[a]
  BY DEF Copying
<1>2. Allocated(v) /\ p # v /\ ~InFrom(p)
  BY CopyBlocks DEF Usable
<1>3. /\ future_survived' = future_survived /\ (Whole' <=> Whole)
      /\ \A a : InFrom(a)' <=> InFrom(a)
  BY <1>1 DEF future_survived, Whole, SecondPass, InFrom
<1>4. id[v] = v /\ id[v] \in Live
  <2>1. id[v] = v
    BY <1>1, <1>2 DEF GcLive, Origins
  <2>2. v # 0
    BY <1>1, Layout DEF Addrs
  <2>3. QED
    BY <1>1, <2>1, <2>2, CurLive DEF GcLive
<1>5. ~Whole => OldObjects' = OldObjects
  <2>1. SUFFICES ASSUME ~Whole, NEW a \in Addrs, InSpace("old", a)
                 PROVE  id'[a] = a <=> id[a] = a
    BY DEF OldObjects
  <2>2. CASE a = p
    <3>1. id'[a] # a
      BY <1>1, <1>2, <1>4, <2>2
    <3>2. id[a] # a
      BY <1>1, <2>1, <2>2 DEF GcLive, OldKept, OldObjects
    <3>3. QED
      BY <3>1, <3>2
  <2>3. CASE a # p
    BY <1>1, <2>3
  <2>4. QED
    BY <2>2, <2>3
<1>6. Live' = Live
  BY <1>1, <1>3, <1>5, LiveSame
<1>7. Origins'
  <2>1. \A x \in Addrs : InFrom(x) => gen'[x] = gen[x]
    BY <1>1, <1>2
  <2>2. \A x \in Values : InFrom(x) => x \in Addrs
    BY SpaceNames, Layout DEF InFrom, InSpace, Addrs, Values, Spaces, TypeOK
  <2>3. ASSUME NEW a \in Addrs, Allocated(a)'
        PROVE  /\ InFrom(a) => id'[a] = a
               /\ InSpace("old", a) =>
                    id'[a] = a \/ (InFrom(id'[a]) /\ gen'[id'[a]] = PromoteGen)
               /\ InSpace(future_survived, a) =>
                    InFrom(id'[a]) /\ gen'[id'[a]] # PromoteGen
    <3>1. CASE a = p
      <4>1. id'[a] = v /\ gen'[v] = gen[v]
        BY <1>1, <1>2, <1>4, <3>1
      <4>2. QED
        BY <1>1, <1>2, <3>1, <4>1, CopyKind
    <3>2. CASE a # p
      <4>1. Allocated(a) /\ id'[a] = id[a]
        BY <1>1, <2>3, <3>2
      <4>2. InFrom(id[a]) => gen'[id[a]] = gen[id[a]]
        BY <2>1, <2>2 DEF TypeOK, MemType
      <4>3. QED
        BY <4>1, <4>2 DEF GcLive, Origins
    <3>3. QED
      BY <3>1, <3>2
  <2>4. QED
    BY <1>3, <2>3 DEF Origins
<1>8. OldKept'
  <2>1. ~Whole => (\A a \in OldObjects : Allocated(a)')
                  /\ Cardinality(OldObjects) + SurvivedSize <= OldSize
    BY <1>1 DEF GcLive, OldKept, OldObjects
  <2>2. QED
    BY <1>3, <1>5, <2>1 DEF OldKept
<1>9. OnlyLive'
  <2>1. ASSUME NEW a \in Addrs, (Allocated(a)' /\ InSpace(future_survived, a)) \/ Must(a)'
        PROVE  id'[a] \in Live
    <3>1. CASE a = p
      BY <1>1, <1>4, <3>1
    <3>2. CASE a # p
      <4>1. Allocated(a) /\ id'[a] = id[a]
        BY <1>1, <2>1, <3>2 DEF Must
      <4>2. Must(a)' => Must(a)
        BY <1>1, <3>2, <4>1 DEF Must, Copying
      <4>3. QED
        BY <2>1, <4>1, <4>2 DEF GcLive, OnlyLive
    <3>3. QED
      BY <3>1, <3>2
  <2>2. QED
    BY <1>3, <1>6, <2>1 DEF OnlyLive
<1>10. QED
  BY <1>7, <1>8, <1>9 DEF GcLive

-----------------------------------------------------------------------------
(* The beginning of a collection, its two passes and its end.              *)

LEMMA EnterGcLive ==
  ASSUME TypeOK, TypeOK', RunInv, EnterGc, ~tainted',
         ~full_gc => blocks["old"] + SurvivedSize <= OldSize
  PROVE  GcLive'
<1>1. /\ UNCHANGED <<fwd, gen, rem, blocks, survived, full_gc, old_map>>
      /\ id' = [a \in Addrs |-> IF Allocated(a) THEN a ELSE 0]
      /\ ~(full_gc /\ StaleRemembered)
  BY DEF EnterGc, heap
<1>2. /\ future_survived' = future_survived
      /\ \A a : Allocated(a)' <=> Allocated(a)
      /\ \A a : InFrom(a)' <=> InFrom(a)
  BY <1>1 DEF future_survived, Allocated, InFrom
<1>3. \A a \in Addrs : Allocated(a) => ~InSpace(future_survived, a)
  <2>1. ASSUME NEW a \in Addrs, Allocated(a), InSpace(future_survived, a)
        PROVE  FALSE
    <3>1. future_survived \in Spaces /\ blocks[future_survived] = 0
      BY SpaceNames DEF TypeOK, RunInv
    <3>2. PICK i \in 1..blocks[future_survived] : TRUE
      BY <2>1, <3>1, AtOfAllocated DEF TypeOK
    <3>3. QED
      BY <3>1, <3>2
  <2>2. QED
    BY <2>1
<1>4. Origins'
  BY <1>1, <1>2, <1>3 DEF Origins
<1>5. OldObjects' = {a \in Addrs : InSpace("old", a) /\ Allocated(a)}
  <2>1. \A a \in Addrs : id'[a] = a <=> Allocated(a)
    BY <1>1, Layout DEF Addrs
  <2>2. QED
    BY <2>1 DEF OldObjects
<1>6. Cardinality(OldObjects') = blocks["old"]
  <2>1. /\ Low("old") \in Nat /\ blocks["old"] \in Nat /\ blocks["old"] <= Size("old")
        /\ "old" \in Spaces
    BY Layout DEF TypeOK, BlocksType, Spaces
  <2>2. OldObjects' = (Low("old") + 1)..(Low("old") + blocks["old"])
    <3>1. ASSUME NEW a \in OldObjects'
          PROVE  a \in (Low("old") + 1)..(Low("old") + blocks["old"])
      <4>1. a \in Addrs /\ InSpace("old", a) /\ a <= At("old", blocks["old"])
        BY <1>5, <2>1, <3>1, AllocatedIn
      <4>2. QED
        BY <2>1, <4>1 DEF InSpace, At, Addrs
    <3>2. ASSUME NEW a \in (Low("old") + 1)..(Low("old") + blocks["old"])
          PROVE  a \in OldObjects'
      <4>1. a - Low("old") \in 1..blocks["old"] /\ a = At("old", a - Low("old"))
        BY <2>1, <3>2 DEF At
      <4>2. a \in Addrs /\ InSpace("old", a) /\ Allocated(a)
        BY <2>1, <4>1, AllocatedAt DEF TypeOK
      <4>3. QED
        BY <1>5, <4>2
    <3>3. QED
      BY <3>1, <3>2
  <2>3. PICK low \in Int, high \in Int : low = Low("old") + 1 /\ high = Low("old") + blocks["old"]
    BY <2>1
  <2>4. Cardinality(low .. high) = IF low > high THEN 0 ELSE high - low + 1
    BY FS_Interval
  <2>5. OldObjects' = low .. high
    BY <2>2, <2>3
  <2>6. blocks["old"] = IF low > high THEN 0 ELSE high - low + 1
    BY <2>1, <2>3
  <2>7. QED
    BY <2>4, <2>5, <2>6
<1>7. Whole' <=> full_gc
  BY <1>1 DEF Whole, SecondPass, RunInv
<1>8. OldKept'
  BY <1>2, <1>5, <1>6, <1>7 DEF OldKept
<1>9. ~full_gc => OldObjects' \subseteq Live'
  <2>1. GraphType(graph') /\ OldObjects' \subseteq Values /\ RootObjects' \subseteq Values
    BY <1>5 DEF TypeOK, GhostType, GraphType, RootObjects, Values, Addrs
  <2>2. Seeds' \in SUBSET Values /\ (~full_gc => OldObjects' \subseteq Seeds')
    BY <1>7, <2>1 DEF Seeds
  <2>3. Seeds' \ {0} \subseteq Live'
    BY <2>1, <2>2, LiveReached, ReachedInIs
  <2>4. 0 \notin OldObjects'
    BY <1>5, Layout DEF Addrs
  <2>5. QED
    BY <2>2, <2>3, <2>4
<1>10. OnlyLive'
  <2>1. ASSUME NEW a \in Addrs, Must(a)'
        PROVE  id'[a] \in Live'
    <3>1. CASE full_gc
      <4>1. Allocated(a) /\ rem[a]
        BY <1>1, <1>2, <2>1, <3>1 DEF Must
      <4>2. InSpace("old", a) /\ "old" \in Spaces
        BY <4>1 DEF RunInv, Spaces
      <4>3. PICK i \in 1..blocks["old"] : a = At("old", i)
        BY <4>1, <4>2, AtOfAllocated DEF TypeOK
      <4>4. QED
        BY <1>1, <3>1, <4>1, <4>3 DEF StaleRemembered
    <3>2. CASE ~full_gc
      <4>1. Allocated(a) /\ InSpace("old", a)
        BY <1>1, <1>2, <2>1, <3>2 DEF Must
      <4>2. id'[a] = a
        BY <1>1, <4>1
      <4>3. QED
        BY <1>5, <1>9, <3>2, <4>1, <4>2
    <3>3. QED
      BY <3>1, <3>2
  <2>2. QED
    BY <1>2, <1>3, <2>1 DEF OnlyLive
<1>11. QED
  BY <1>4, <1>8, <1>10 DEF GcLive

LEMMA GcOldLive ==
  ASSUME TypeOK, TypeOK', GcInv, GcLive, HeapGcOld, ~tainted'
  PROVE  GcLive'
<1>1. /\ UNCHANGED <<gen, id, survived, graph, groots>> /\ ~full_gc'
      /\ \A a \in Addrs :
           Allocated(a)' <=> Allocated(a) /\ (InSpace("old", a) => rem[a])
      /\ SecondPass'
  BY GcOldEffect
<1>2. /\ future_survived' = future_survived /\ Whole /\ Whole'
      /\ \A a : InFrom(a)' <=> InFrom(a)
  BY <1>1 DEF future_survived, Whole, InFrom, HeapGcOld, GcInv, Control
<1>3. Live' = Live
  BY <1>1, <1>2, LiveSame
<1>4. Origins'
  BY <1>1, <1>2 DEF GcLive, Origins
<1>5. OldKept'
  BY <1>2 DEF OldKept
<1>6. \A a \in Addrs : Must(a)' => Must(a)
  <2>1. full_gc
    BY DEF HeapGcOld, GcInv, Control
  <2>2. QED
    BY <1>1, <2>1 DEF Must
<1>7. OnlyLive'
  BY <1>1, <1>2, <1>3, <1>6 DEF GcLive, OnlyLive
<1>8. QED
  BY <1>4, <1>5, <1>7 DEF GcLive

LEMMA FinishLive ==
  ASSUME TypeOK, TypeOK', GcInv, Young0, Finish
  PROVE  Young0' /\ (~full_gc' => blocks'["old"] + SurvivedSize <= OldSize)
<1>1. /\ blocks' = [blocks EXCEPT !["fresh"] = 0, ![survived] = 0]
      /\ old_mem' = old_mem /\ full_gc' = (full_gc \/ OldIsShort)
  BY DEF Finish, ResetBlocks
<1>2. /\ blocks'["fresh"] = 0 /\ blocks'["old"] = blocks["old"]
      /\ "fresh" \in Spaces /\ "old" \in Spaces
  BY <1>1 DEF TypeOK, BlocksType, Spaces
<1>3. ASSUME NEW a \in Addrs, InSpace("fresh", a)
      PROVE  gen'[a] # PromoteGen
  <2>1. gen'[a] = 0
    BY <1>3 DEF Finish, InFrom
  <2>2. QED
    BY <2>1, ShapeAssumption
<1>4. ~full_gc' => blocks'["old"] + SurvivedSize <= OldSize
  <2>1. ASSUME ~OldIsShort
        PROVE  blocks["old"] + SurvivedSize <= OldSize
    <3>1. CASE ~old_mem
      BY <3>1, SizesAssumption DEF Young0
    <3>2. CASE old_mem
      <4>1. ~(Size("old") - blocks["old"] < SurvivedSize)
        BY <2>1, <3>2 DEF OldIsShort, free_mem
      <4>2. Size("old") = OldSize /\ blocks["old"] \in Nat
        BY <1>2 DEF Size, TypeOK, BlocksType
      <4>3. QED
        BY <4>1, <4>2, SizesAssumption
    <3>3. QED
      BY <3>1, <3>2
  <2>2. QED
    BY <1>1, <1>2, <2>1
<1>5. QED
  BY <1>1, <1>2, <1>3, <1>4 DEF Young0

LEMMA AllocYoung ==
  ASSUME TypeOK, TypeOK', Young0, NEW q \in Requests, AllocFresh(q)
  PROVE  Young0' /\ blocks'["old"] = blocks["old"] /\ full_gc' = full_gc
<1>1. PICK p : p = At("fresh", blocks["fresh"] + 1)
  OBVIOUS
<1>2. /\ gen' = [gen EXCEPT ![p] = 0] /\ blocks' = [blocks EXCEPT !["fresh"] = @ + 1]
      /\ free_mem("fresh") > 0 /\ UNCHANGED <<old_mem, full_gc>>
  BY <1>1 DEF AllocFresh
<1>3. /\ blocks["fresh"] \in Nat /\ blocks["fresh"] < Size("fresh") /\ "fresh" \in Spaces
      /\ blocks'["old"] = blocks["old"]
      /\ blocks' = [blocks EXCEPT !["fresh"] = blocks["fresh"] + 1]
  <2>1. blocks["fresh"] \in Nat /\ "fresh" \in Spaces
    BY DEF TypeOK, BlocksType, Spaces
  <2>2. blocks["fresh"] < Size("fresh")
    BY <1>2, <2>1, Layout DEF free_mem
  <2>3. QED
    BY <1>2, <2>1, <2>2 DEF TypeOK, BlocksType, Spaces
<1>4. \A a \in Addrs : Allocated(a)' <=> Allocated(a) \/ a = p
  BY <1>1, <1>3, NextBlock DEF TypeOK
<1>5. \A a \in Addrs : gen'[a] = IF a = p THEN 0 ELSE gen[a]
  BY <1>2 DEF TypeOK, MemType
<1>6. QED
  BY <1>2, <1>3, <1>4, <1>5, ShapeAssumption DEF Young0

LEMMA MarkYoung ==
  ASSUME TypeOK, TypeOK', GcInv, Young0, heap_mark
  PROVE  Young0'
<1>1. CASE MarkSkip \/ MarkReached \/ MarkOld \/ MarkForwarded \/ MarkPostpone
           \/ OldOverflow \/ SurvivedOverflow
  <2>1. UNCHANGED <<gen, blocks, old_mem>>
    BY <1>1 DEF MarkSkip, MarkReached, MarkOld, MarkForwarded, MarkPostpone,
       OldOverflow, SurvivedOverflow, Fatal, mem, hdrs, heap
  <2>2. QED
    BY <2>1 DEF Young0, Allocated
<1>2. CASE MarkPromote \/ MarkSurvive
  <2>1. PICK v, p : Copying(v, p)
    BY <1>2, CopyCases
  <2>2. p \in Addrs /\ ~InSpace("fresh", p)
    <3>1. p \in Addrs /\ (InSpace(future_survived, p) \/ InSpace("old", p))
      BY <2>1 DEF Copying
    <3>2. QED
      BY <3>1, Parts DEF InFrom, TypeOK
  <2>3. \A a \in Addrs : InSpace("fresh", a) => gen'[a] # PromoteGen
    BY <2>1, <2>2 DEF Copying, Young0
  <2>4. ~old_mem' => old_mem' = old_mem /\ blocks'["old"] = blocks["old"]
    <3>1. CASE MarkPromote
      BY <3>1 DEF MarkPromote
    <3>2. CASE MarkSurvive
      <4>1. future_survived # "old" /\ "old" \in Spaces
        BY SpaceNames DEF TypeOK, Spaces
      <4>2. QED
        BY <3>2, <4>1 DEF MarkSurvive, TypeOK, BlocksType
    <3>3. QED
      BY <1>2, <3>1, <3>2
  <2>5. QED
    BY <2>3, <2>4 DEF Young0
<1>3. QED
  BY <1>1, <1>2 DEF heap_mark

LEMMA GcOldYoung ==
  ASSUME TypeOK, TypeOK', GcInv, Young0, HeapGcOld, ~tainted'
  PROVE  Young0'
<1>1. /\ gen' = gen /\ old_mem' = old_mem
      /\ \A a \in Addrs : Allocated(a)' => Allocated(a)
  BY GcOldEffect DEF HeapGcOld
<1>2. blocks["old"] = 0 => blocks'["old"] = 0
  <2>1. Cardinality(LiveOld) \in 0..blocks["old"]
    BY LiveOldType DEF TypeOK
  <2>2. blocks'["old"] = Cardinality(LiveOld)
    BY DEF HeapGcOld, TypeOK, BlocksType, Spaces
  <2>3. QED
    BY <2>1, <2>2
<1>3. QED
  BY <1>1, <1>2 DEF Young0

LEMMA NextLiveInv ==
  ASSUME TypeOK, TypeOK', IInv, LiveInv, [Next]_vars
  PROVE  LiveInv'
<1> DEFINE RunRoom == ~full_gc => blocks["old"] + SurvivedSize <= OldSize
<1>1. SUFFICES ASSUME ~tainted'
               PROVE  /\ Young0'
                      /\ pc' \in {"run", "resume"} => RunRoom'
                      /\ pc' \in GcPCs => GcLive'
  BY DEF LiveInv, GcLive
<1>2. /\ Young0
      /\ pc \in {"run", "resume"} => RunRoom /\ RunInv
      /\ pc \in GcPCs => GcLive /\ GcInv
  BY <1>1, StaysTainted DEF LiveInv, GcLive, IInv
<1>3. CASE \E q \in Requests : New(q) \/ Resume(q)
  <2>1. PICK q \in Requests : AllocFresh(q)
    BY <1>3 DEF New, Resume
  <2>2. pc \in {"run", "resume"} /\ pc' \notin GcPCs
    BY <1>3 DEF New, Resume, regs, GcPCs
  <2>3. QED
    BY <1>2, <2>1, <2>2, AllocYoung
<1>4. CASE NewFull \/ \E n \in 1..FreshSize : Require(n)
  <2>1. pc = "run" /\ EnterGc /\ pc' = "roots"
    BY <1>4 DEF NewFull, Require, EnterGc
  <2>2. GcLive'
    BY <1>1, <1>2, <2>1, EnterGcLive
  <2>3. UNCHANGED <<gen, blocks, old_mem>>
    BY <2>1 DEF EnterGc, heap
  <2>4. Young0'
    BY <1>2, <2>3 DEF Young0, Allocated
  <2>5. QED
    BY <2>1, <2>2, <2>4
<1>5. CASE \/ \E d, s \in Roots, g \in Fields : Load(d, s, g)
           \/ \E d \in Roots, s \in 0..NRoots, g \in Fields : Store(d, g, s)
           \/ \E d \in Roots, s \in 0..NRoots : Move(d, s)
           \/ UNCHANGED vars
  <2>1. UNCHANGED <<gen, blocks, old_mem, full_gc, pc>>
    BY <1>5 DEF Load, Store, Move, vars, mem, hdrs, heap, regs
  <2>2. Young0' /\ (RunRoom => RunRoom')
    BY <1>2, <2>1 DEF Young0, Allocated
  <2>3. pc \in GcPCs =>
          UNCHANGED <<gen, rem, id, blocks, survived, full_gc, old_map, graph, groots>>
    BY <1>5 DEF Load, Store, Move, vars, mem, hdrs, heap, ghost, GcPCs
  <2>4. pc \in GcPCs => GcLive'
    BY <1>2, <2>3, SameStep
  <2> HIDE DEF RunRoom
  <2>5. QED
    BY <1>2, <2>1, <2>2, <2>4
<1>6. CASE heap_mark
  <2>1. pc \in GcPCs /\ (pc' = pc \/ pc' \in {"fatal_old", "fatal_survived"})
    BY <1>6 DEF heap_mark, MarkSkip, MarkReached, MarkOld, MarkForwarded,
       MarkPostpone, MarkPromote, MarkSurvive, OldOverflow, SurvivedOverflow,
       Fatal, AtSlot, GcPCs
  <2>2. pc' \notin {"run", "resume"}
    BY <2>1 DEF GcPCs
  <2>3. GcLive' \/ pc' \notin GcPCs
    <3>1. CASE MarkSkip \/ MarkReached \/ MarkOld \/ MarkForwarded \/ MarkPostpone
      <4>1. PICK nv \in Values : NoCopy(nv)
        BY <1>2, <2>1, <3>1, NoCopyCases
      <4>2. QED
        BY <1>2, <2>1, <4>1, NoCopyLive
    <3>2. CASE MarkPromote \/ MarkSurvive
      <4>1. PICK v, p : Copying(v, p)
        BY <1>2, <2>1, <3>2, CopyCases
      <4>2. QED
        BY <1>2, <2>1, <3>2, <4>1, CopyLive
    <3>3. CASE OldOverflow \/ SurvivedOverflow
      BY <3>3 DEF OldOverflow, SurvivedOverflow, Fatal, GcPCs
    <3>4. QED
      BY <1>6, <3>1, <3>2, <3>3 DEF heap_mark
  <2>4. QED
    BY <1>2, <1>6, <2>1, <2>2, <2>3, MarkYoung
<1>7. CASE RootsDone \/ ScanOldDone \/ ScanRefsDone \/ ScanRememberedDone
  <2>1. /\ pc \in GcPCs /\ pc' \notin {"run", "resume"}
        /\ UNCHANGED <<gen, rem, id, blocks, survived, full_gc, old_map, old_mem, graph,
                       groots>>
    BY <1>7 DEF RootsDone, ScanOldDone, ScanRefsDone, ScanRememberedDone, GcPCs,
       AfterRoots, AfterRefs, EndOfPass, mem, hdrs, heap, ghost
  <2>2. GcLive'
    BY <1>2, <2>1, SameStep
  <2>3. Young0'
    BY <1>2, <2>1 DEF Young0, Allocated
  <2>4. QED
    BY <2>1, <2>2, <2>3
<1>8. CASE HeapGcOld
  <2>1. pc \in GcPCs /\ pc' = "roots"
    BY <1>8 DEF HeapGcOld, GcPCs
  <2>2. QED
    BY <1>1, <1>2, <1>8, <2>1, GcOldLive, GcOldYoung
<1>9. CASE Finish
  <2>1. pc \in GcPCs /\ pc' \in {"run", "resume"}
    BY <1>9 DEF Finish, GcPCs
  <2>2. QED
    BY <1>2, <1>9, <2>1, FinishLive DEF GcPCs
<1>10. QED
  BY <1>3, <1>4, <1>5, <1>6, <1>7, <1>8, <1>9 DEF Next, Mutate, Collect, Retry

\* What has been copied or marked is live, where objects come from, and that a
\* minor collection finds room in the old space (heap_mark, heap_gc).
THEOREM LiveHolds == Spec => []LiveInv
<1>1. Init => LiveInv
  <2>1. ASSUME Init
        PROVE  /\ Young0 /\ pc \notin GcPCs
               /\ blocks["old"] + SurvivedSize <= OldSize
    <3>1. blocks["old"] = 0 /\ \A a \in Addrs : gen[a] = 0
      BY <2>1 DEF Init, Spaces
    <3>2. QED
      BY <2>1, <3>1, SizesAssumption, ShapeAssumption DEF Init, Young0, GcPCs
  <2>2. QED
    BY <2>1 DEF LiveInv
<1>2. TypeOK /\ TypeOK' /\ IInv /\ LiveInv /\ [Next]_vars => LiveInv'
  BY NextLiveInv
<1>3. QED
  BY <1>1, <1>2, TypeCorrect, InvariantHolds, PTL DEF Spec

-----------------------------------------------------------------------------
(* What a collection keeps.                                                *)

\* It keeps exactly the live objects (heap_mark, heap_gc_main, heap_gc_old).
THEOREM PreciseHolds == Spec => []Precise
<1>1. ASSUME TypeOK, IInv, LiveInv, Faithful
      PROVE  Precise
  <2> DEFINE K == {id[a] : a \in {b \in Addrs : Allocated(b) /\ ~InFrom(b)}}
  <2>1. SUFFICES ASSUME pc = "finish", ~tainted
                 PROVE  K = Live
    BY DEF Precise
  <2>2. GcInv /\ GcLive /\ ~full_gc
    BY <1>1, <2>1 DEF IInv, LiveInv, GcLive, GcPCs, GcInv, Control
  <2>3. /\ \A r \in Roots : Denotes(roots[r], groots[r])
        /\ \A a \in Addrs : (Allocated(a) /\ ~InFrom(a)) =>
             \A g \in Fields : Denotes(fld[a][g], graph[id[a]][g])
    BY <1>1, <2>1 DEF Faithful
  <2>4. ASSUME NEW v \in Values, NEW x, Denotes(v, x), x # 0
        PROVE  x \in K
    <3>1. v # 0 /\ Allocated(v) /\ ~InFrom(v) /\ id[v] = x
      BY <2>4 DEF Denotes
    <3>2. v \in Addrs
      BY <3>1, Layout DEF Values, Addrs
    <3>3. QED
      BY <3>1, <3>2
  <2>5. K \subseteq Live
    <3>1. ASSUME NEW a \in Addrs, Allocated(a), ~InFrom(a)
          PROVE  id[a] \in Live
      <4>1. InSpace("old", a) \/ InSpace(future_survived, a)
        BY <1>1, <3>1, Parts DEF TypeOK
      <4>2. QED
        BY <2>2, <3>1, <4>1 DEF GcLive, OnlyLive, Must
    <3>2. QED
      BY <3>1
  <2>6. Seeds \ {0} \subseteq K
    <3>1. ASSUME NEW r \in Roots, groots[r] # 0
          PROVE  groots[r] \in K
      <4>1. roots[r] \in Values
        BY <1>1 DEF TypeOK, RootsType
      <4>2. QED
        BY <2>3, <2>4, <3>1, <4>1
    <3>2. ASSUME NEW a \in OldObjects, ~Whole
          PROVE  a \in K
      <4>1. a \in Addrs /\ InSpace("old", a) /\ id[a] = a /\ Allocated(a)
        BY <2>2, <3>2 DEF GcLive, OldKept, OldObjects
      <4>2. ~InFrom(a)
        BY <1>1, <4>1, Parts DEF TypeOK
      <4>3. QED
        BY <4>1, <4>2
    <3> HIDE DEF K
    <3>3. QED
      BY <1>1, <3>1, <3>2, SeedsAre DEF TypeOK
  <2>7. Closed(graph, K)
    <3>1. ASSUME NEW a \in Addrs, Allocated(a), ~InFrom(a), NEW g \in Fields,
                 graph[id[a]][g] # 0
          PROVE  graph[id[a]][g] \in K
      <4>1. fld[a][g] \in Values
        BY <1>1 DEF TypeOK, MemType
      <4>2. QED
        BY <2>3, <2>4, <3>1, <4>1
    <3>2. ASSUME NEW c \in K, NEW g \in Fields
          PROVE  graph[c][g] = 0 \/ graph[c][g] \in K
      <4>1. PICK a \in Addrs : Allocated(a) /\ ~InFrom(a) /\ c = id[a]
        BY <3>2
      <4>2. QED
        BY <3>1, <4>1
    <3>3. QED
      BY <3>2 DEF Closed
  <2> HIDE DEF K
  <2>8. Live \subseteq K
    BY <1>1, <2>6, <2>7, LiveIs DEF TypeOK
  <2>9. QED
    BY <2>5, <2>8
<1>2. QED
  BY <1>1, TypeCorrect, InvariantHolds, LiveHolds, FaithfulHolds, PTL

-----------------------------------------------------------------------------
(* The end of the process.                                                 *)

LEMMA SpaceCount ==
  ASSUME NEW s \in Spaces
  PROVE  /\ IsFiniteSet({a \in Addrs : InSpace(s, a)})
         /\ Cardinality({a \in Addrs : InSpace(s, a)}) = Size(s)
<1>1. Low(s) \in Nat /\ Size(s) \in Nat
  BY Layout
<1>2. {a \in Addrs : InSpace(s, a)} = (Low(s) + 1)..(Low(s) + Size(s))
  <2>1. ASSUME NEW a \in (Low(s) + 1)..(Low(s) + Size(s))
        PROVE  a \in Addrs /\ InSpace(s, a)
    <3>1. a - Low(s) \in 1..Size(s) /\ a = At(s, a - Low(s))
      BY <1>1, <2>1 DEF At
    <3>2. QED
      BY <3>1, Layout
  <2>2. ASSUME NEW a \in Addrs, InSpace(s, a)
        PROVE  a \in (Low(s) + 1)..(Low(s) + Size(s))
    BY <1>1, <2>2 DEF InSpace, Addrs
  <2>3. QED
    BY <2>1, <2>2
<1>3. /\ IsFiniteSet((Low(s) + 1)..(Low(s) + Size(s)))
      /\ Cardinality((Low(s) + 1)..(Low(s) + Size(s))) = Size(s)
  <2>1. \A l, z \in Nat : IsFiniteSet((l + 1)..(l + z)) /\ Cardinality((l + 1)..(l + z)) = z
    <3>1. \A l, z \in Nat : l + 1 \in Int /\ l + z \in Int
                            /\ (IF l + 1 > l + z THEN 0 ELSE (l + z) - (l + 1) + 1) = z
      OBVIOUS
    <3>2. QED
      BY <3>1, FS_Interval, Zenon
  <2>2. QED
    BY <1>1, <2>1
<1>4. QED
  BY <1>2, <1>3

\* In a full space every block is allocated.
LEMMA FullSpace ==
  ASSUME TypeOK, NEW s \in Spaces, ~HasRoom(s), NEW a \in Addrs, InSpace(s, a)
  PROVE  Allocated(a)
<1>1. blocks[s] = Size(s)
  BY Layout DEF HasRoom, TypeOK, BlocksType
<1>2. QED
  BY <1>1 DEF Allocated, InSpace, At

\* The block in the slot when there is no room to copy it.
LEMMA Uncopied ==
  ASSUME TypeOK, GcInv, GcLive, AtSlot, InFrom(CurValue), ~fwd[CurValue]
  PROVE  /\ CurValue \in Addrs /\ Allocated(CurValue)
         /\ id[CurValue] = CurValue /\ CurValue \in Live
<1>1. CurValue # 0
  BY Layout, SpaceNames DEF InFrom, InSpace, Spaces, TypeOK
<1>2. CurValue \in Addrs /\ Allocated(CurValue)
  BY <1>1, CurFacts
<1>3. QED
  BY <1>1, <1>2, CurLive DEF GcLive, Origins

\* Of two blocks that have not moved none holds the object of the other.
Singles ==
  \A a, b \in Addrs :
    (Allocated(a) /\ ~fwd[a] /\ Allocated(b) /\ ~fwd[b] /\ id[a] = id[b]) => a = b

\* A set of unmoved blocks, seen as the objects they hold.
LEMMA BlocksAsObjects ==
  ASSUME Singles, NEW B \in SUBSET Addrs, NEW Y, IsFiniteSet(Y),
         \A a \in B : Allocated(a) /\ ~fwd[a] /\ id[a] \in Y
  PROVE  IsFiniteSet(B) /\ Cardinality(B) <= Cardinality(Y)
<1> DEFINE h == [a \in B |-> id[a]]
<1>1. h \in [B -> Y] /\ \A a, b \in B : h[a] = h[b] => a = b
  BY DEF Singles
<1> HIDE DEF h
<1>2. h \in Injection(B, Y)
  BY <1>1 DEF Injection, IsInjective
<1>3. QED
  BY <1>2, FS_Injection

LEMMA AddrsFinite == IsFiniteSet(Addrs)
BY Layout, FS_Interval DEF Addrs

LEMMA SurvivedFull ==
  ASSUME TypeOK, GcInv, GcLive, Singles, SurvivedOverflow
  PROVE  Cardinality({a \in Live : ~InSpace("old", a) /\ gen[a] # PromoteGen})
           > SurvivedSize
<1> DEFINE A == {a \in Addrs : InSpace(future_survived, a)}
           Y == {a \in Live : ~InSpace("old", a) /\ gen[a] # PromoteGen}
           v == CurValue
<1>1. /\ v \in Addrs /\ Allocated(v) /\ id[v] = v /\ v \in Live
      /\ InFrom(v) /\ ~fwd[v] /\ gen[v] # PromoteGen /\ ~HasRoom(future_survived)
  BY Uncopied DEF SurvivedOverflow, Young
<1>2. future_survived \in Spaces /\ Size(future_survived) = SurvivedSize
  BY SpaceNames DEF TypeOK
<1>3. IsFiniteSet(A) /\ Cardinality(A) = SurvivedSize
  BY <1>2, SpaceCount
<1>4. v \notin A
  BY <1>1, Parts DEF TypeOK
<1>5. Cardinality(A \cup {v}) = SurvivedSize + 1
  BY <1>3, <1>4, FS_AddElement
<1>6. IsFiniteSet(Y)
  <2>1. Y \in SUBSET Addrs
    BY LiveIs DEF TypeOK
  <2>2. QED
    BY <2>1, AddrsFinite, FS_Subset
<1>7. ASSUME NEW a \in A \cup {v}
      PROVE  Allocated(a) /\ ~fwd[a] /\ id[a] \in Y
  <2>1. \A x \in Addrs : InFrom(x) => ~InSpace("old", x)
    BY Parts DEF TypeOK
  <2>2. CASE a = v
    BY <1>1, <2>1, <2>2
  <2>3. CASE a \in A
    <3>1. Allocated(a) /\ a \in Addrs /\ InSpace(future_survived, a)
      BY <1>1, <1>2, <2>3, FullSpace
    <3>2. ~fwd[a]
      BY <3>1, Parts DEF TypeOK, GcInv, Forwards
    <3>3. id[a] \in Live /\ InFrom(id[a]) /\ gen[id[a]] # PromoteGen
      BY <3>1 DEF GcLive, OnlyLive, Origins
    <3>4. id[a] \in Addrs
      BY <3>3, LiveIs DEF TypeOK
    <3>5. QED
      BY <2>1, <3>1, <3>2, <3>3, <3>4
  <2>4. QED
    BY <1>7, <2>2, <2>3
<1>8. Cardinality(A \cup {v}) <= Cardinality(Y)
  <2>1. A \cup {v} \in SUBSET Addrs
    BY <1>1
  <2> HIDE DEF A, v, Y
  <2>2. QED
    BY <1>6, <1>7, <2>1, BlocksAsObjects
<1>9. Cardinality(Y) \in Nat
  BY <1>6, FS_CardinalityType
<1> HIDE DEF A, v, Y
<1>10. Cardinality(Y) > SurvivedSize
  BY <1>5, <1>8, <1>9, SizesAssumption
<1>11. QED
  BY <1>10 DEF Y

\* What is in a full old space, in any collection but the first pass of one that
\* compacts it.
LEMMA OldFull ==
  ASSUME TypeOK, GcInv, GcLive, Singles, OldOverflow
  PROVE  Cardinality({a \in Live : InSpace("old", a) \/ gen[a] = PromoteGen}) > OldSize
<1> DEFINE A == {a \in Addrs : InSpace("old", a)}
           Y == {a \in Live : InSpace("old", a) \/ gen[a] = PromoteGen}
           v == CurValue
<1>1. /\ v \in Addrs /\ Allocated(v) /\ id[v] = v /\ v \in Live
      /\ InFrom(v) /\ ~fwd[v] /\ gen[v] = PromoteGen /\ ~HasRoom("old") /\ ~full_gc
  BY Uncopied DEF OldOverflow, Ripe
<1>2. "old" \in Spaces /\ Size("old") = OldSize
  BY DEF Spaces, Size
<1>3. IsFiniteSet(A) /\ Cardinality(A) = OldSize
  BY <1>2, SpaceCount
<1>4. v \notin A
  BY <1>1, Parts DEF TypeOK
<1>5. Cardinality(A \cup {v}) = OldSize + 1
  BY <1>3, <1>4, FS_AddElement
<1>6. IsFiniteSet(Y)
  <2>1. Y \in SUBSET Addrs
    BY LiveIs DEF TypeOK
  <2>2. QED
    BY <2>1, AddrsFinite, FS_Subset
<1>7. ASSUME NEW a \in A \cup {v}
      PROVE  Allocated(a) /\ ~fwd[a] /\ id[a] \in Y
  <2>1. CASE a = v
    BY <1>1, <2>1
  <2>2. CASE a \in A
    <3>1. Allocated(a) /\ a \in Addrs /\ InSpace("old", a)
      BY <1>1, <1>2, <2>2, FullSpace
    <3>2. ~fwd[a]
      BY <3>1, Parts DEF TypeOK, GcInv, Forwards
    <3>3. id[a] \in Live
      BY <1>1, <3>1 DEF GcLive, OnlyLive, Must
    <3>4. id[a] = a \/ gen[id[a]] = PromoteGen
      BY <3>1 DEF GcLive, Origins
    <3>5. QED
      BY <3>1, <3>2, <3>3, <3>4
  <2>3. QED
    BY <1>7, <2>1, <2>2
<1>8. Cardinality(A \cup {v}) <= Cardinality(Y)
  <2>1. A \cup {v} \in SUBSET Addrs
    BY <1>1
  <2> HIDE DEF A, v, Y
  <2>2. QED
    BY <1>6, <1>7, <2>1, BlocksAsObjects
<1>9. Cardinality(Y) \in Nat
  BY <1>6, FS_CardinalityType
<1> HIDE DEF A, v, Y
<1>10. Cardinality(Y) > OldSize
  BY <1>5, <1>8, <1>9, SizesAssumption
<1>11. QED
  BY <1>10 DEF Y

\* A minor collection never fills the old space: it has room for a survived
\* space, which is where all ripe objects are, and one of them has not moved.
LEMMA MinorFits ==
  ASSUME TypeOK, GcInv, GcLive, Young0, Singles, OldOverflow
  PROVE  SecondPass
<1> DEFINE A == {a \in Addrs : InSpace("old", a)}
           B == A \ OldObjects
           X == {a \in Addrs : InSpace(survived, a)}
           v == CurValue
<1>1. SUFFICES ASSUME ~SecondPass PROVE FALSE
  OBVIOUS
<1>2. /\ v \in Addrs /\ Allocated(v) /\ id[v] = v
      /\ InFrom(v) /\ ~fwd[v] /\ gen[v] = PromoteGen /\ ~HasRoom("old") /\ ~full_gc
  BY Uncopied DEF OldOverflow, Ripe
<1>3. /\ OldObjects \subseteq A
      /\ Cardinality(OldObjects) + SurvivedSize <= OldSize
  BY <1>1, <1>2 DEF GcLive, OldKept, Whole, OldObjects
<1>4. "old" \in Spaces /\ Size("old") = OldSize /\ survived \in Spaces
      /\ Size(survived) = SurvivedSize
  BY SpaceNames DEF TypeOK, BlocksType, Spaces, Size
<1>5. /\ IsFiniteSet(A) /\ Cardinality(A) = OldSize
      /\ IsFiniteSet(X) /\ Cardinality(X) = SurvivedSize
  BY <1>4, SpaceCount
<1>6. /\ IsFiniteSet(OldObjects) /\ Cardinality(OldObjects) \in Nat
      /\ IsFiniteSet(B) /\ Cardinality(B) = OldSize - Cardinality(OldObjects)
  <2>1. IsFiniteSet(OldObjects) /\ Cardinality(OldObjects) \in Nat
    BY <1>3, <1>5, FS_Subset, FS_CardinalityType
  <2>2. A \cap OldObjects = OldObjects
    BY <1>3
  <2>3. IsFiniteSet(B) /\ Cardinality(B) = Cardinality(A) - Cardinality(A \cap OldObjects)
    BY <1>5, FS_Difference
  <2>4. QED
    BY <1>5, <2>1, <2>2, <2>3
<1>7. v \in X
  BY <1>2 DEF InFrom, Young0
<1>8. IsFiniteSet(X \ {v}) /\ Cardinality(X \ {v}) = SurvivedSize - 1
  BY <1>5, <1>7, FS_RemoveElement
<1>9. ASSUME NEW a \in B
      PROVE  Allocated(a) /\ ~fwd[a] /\ id[a] \in X \ {v}
  <2>1. a \in Addrs /\ InSpace("old", a) /\ id[a] # a
    BY <1>9 DEF OldObjects
  <2>2. Allocated(a)
    BY <1>2, <1>4, <2>1, FullSpace
  <2>3. ~fwd[a]
    BY <2>1, <2>2, Parts DEF TypeOK, GcInv, Forwards
  <2>4. InFrom(id[a]) /\ gen[id[a]] = PromoteGen
    BY <2>1, <2>2 DEF GcLive, Origins
  <2>5. id[a] \in Addrs
    BY <1>2, <2>1, <2>2, LiveIs DEF GcLive, OnlyLive, Must, TypeOK
  <2>6. id[a] \in X
    BY <2>4, <2>5 DEF InFrom, Young0
  <2>7. a # v
    BY <1>2, <2>1, Parts DEF TypeOK
  <2>8. id[a] # v
    BY <1>2, <2>1, <2>2, <2>3, <2>7 DEF Singles
  <2>9. QED
    BY <2>2, <2>3, <2>6, <2>8
<1>10. Cardinality(B) <= Cardinality(X \ {v})
  <2>1. B \in SUBSET Addrs
    OBVIOUS
  <2> HIDE DEF A, B, X, v
  <2>2. QED
    BY <1>8, <1>9, <2>1, BlocksAsObjects
<1> HIDE DEF A, B, X, v
<1>11. QED
  BY <1>3, <1>6, <1>8, <1>10, SizesAssumption

\* The process ends only when the live objects do not fit (space_put,
\* heap_gc): a minor collection never runs out of old space.
THEOREM OutOfMemoryIsRealHolds == Spec => []OutOfMemoryIsReal
<1>1. Init => OutOfMemoryIsReal
  BY DEF Init, OutOfMemoryIsReal
<1>2. Init => Unique
  BY DEF Init, Unique, GcPCs
<1>3. TypeOK /\ TypeOK' /\ IInv /\ Unique /\ [Next]_vars => Unique'
  BY NextUnique
<1>4. ASSUME TypeOK, IInv, LiveInv, Unique, OutOfMemoryIsReal, [Next]_vars
      PROVE  OutOfMemoryIsReal'
  <2> DEFINE Y == {a \in Live : ~InSpace("old", a) /\ gen[a] # PromoteGen}
             O == {a \in Live : InSpace("old", a) \/ gen[a] = PromoteGen}
  <2>1. ASSUME UNCHANGED <<gen, id, full_gc, old_map, graph, groots>>
        PROVE  Y' = Y /\ O' = O
    <3>1. Whole' <=> Whole
      BY <2>1 DEF Whole, SecondPass
    <3>2. Live' = Live
      BY <2>1, <3>1, SameOld, LiveSame
    <3>3. QED
      BY <2>1, <3>2
  <2>2. CASE OldOverflow \/ SurvivedOverflow
    <3>1. SUFFICES ASSUME ~tainted'
                   PROVE  OutOfMemoryIsReal'
      BY DEF OutOfMemoryIsReal
    <3>2. UNCHANGED <<gen, id, full_gc, old_map, graph, groots>>
      BY <2>2 DEF OldOverflow, SurvivedOverflow, Fatal, mem, hdrs, heap, ghost
    <3>3. ~tainted /\ pc \in GcPCs
      BY <1>4, <2>2, <3>1, StaysTainted DEF OldOverflow, SurvivedOverflow, AtSlot, GcPCs
    <3>4. GcInv /\ GcLive /\ Young0 /\ Singles
      BY <1>4, <3>3 DEF IInv, LiveInv, GcLive, Unique, Singles
    <3>5. CASE SurvivedOverflow
      <4>1. pc' = "fatal_survived" /\ Cardinality(Y) > SurvivedSize
        BY <1>4, <3>4, <3>5, SurvivedFull DEF SurvivedOverflow, Fatal
      <4>2. Cardinality(Y') > SurvivedSize
        BY <2>1, <3>2, <4>1
      <4>3. QED
        BY <4>1, <4>2 DEF OutOfMemoryIsReal
    <3>6. CASE OldOverflow
      <4>1. /\ pc' = "fatal_old" /\ SecondPass
            /\ Cardinality(O) > OldSize
        BY <1>4, <3>4, <3>6, OldFull, MinorFits DEF OldOverflow, Fatal
      <4>2. Cardinality(O') > OldSize /\ old_map' # NULL
        BY <2>1, <3>2, <4>1 DEF SecondPass
      <4>3. QED
        BY <4>1, <4>2 DEF OutOfMemoryIsReal
    <3>7. QED
      BY <2>2, <3>5, <3>6
  <2>3. CASE UNCHANGED vars
    <3>1. UNCHANGED <<gen, id, full_gc, old_map, graph, groots, pc, tainted>>
      BY <2>3 DEF vars, mem, hdrs, heap, regs, ghost
    <3>2. Y' = Y /\ O' = O
      BY <2>1, <3>1
    <3>3. Cardinality(Y') = Cardinality(Y) /\ Cardinality(O') = Cardinality(O)
      BY <3>2
    <3>4. \/ tainted
          \/ /\ pc = "fatal_survived" => Cardinality(Y) > SurvivedSize
             /\ pc = "fatal_old" => old_map # NULL /\ Cardinality(O) > OldSize
      BY <1>4 DEF OutOfMemoryIsReal
    <3>5. \/ tainted'
          \/ /\ pc' = "fatal_survived" => Cardinality(Y') > SurvivedSize
             /\ pc' = "fatal_old" => old_map' # NULL /\ Cardinality(O') > OldSize
      <4> HIDE DEF Y, O
      <4>1. QED
        BY <3>1, <3>3, <3>4
    <3>6. QED
      BY <3>5 DEF OutOfMemoryIsReal
  <2>4. CASE Next /\ ~(OldOverflow \/ SurvivedOverflow)
    <3>1. pc' \notin {"fatal_old", "fatal_survived"}
      BY <2>4 DEF Next, Mutate, Collect, Retry, New, NewFull, Require, Load, Store, Move,
         Resume, EnterGc, heap_mark, MarkSkip, MarkReached, MarkOld, MarkForwarded,
         MarkPostpone, MarkPromote, MarkSurvive, AtSlot, RootsDone, AfterRoots,
         ScanOldDone, ScanRefsDone, AfterRefs, EndOfPass, ScanRememberedDone, HeapGcOld,
         Finish, regs
    <3>2. QED
      BY <3>1 DEF OutOfMemoryIsReal
  <2>5. QED
    BY <1>4, <2>2, <2>3, <2>4
<1>5. QED
  BY <1>1, <1>2, <1>3, <1>4, TypeCorrect, InvariantHolds, LiveHolds, PTL DEF Spec
=============================================================================

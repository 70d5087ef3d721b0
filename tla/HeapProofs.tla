----------------------------- MODULE HeapProofs -----------------------------
(***************************************************************************)
(* The collector, for every size of the spaces: types, and that every      *)
(* visit of heap_mark keeps GcInv, the invariant of a collection, first    *)
(* the visits that copy nothing, then those that copy an object.           *)
(***************************************************************************)
EXTENDS HeapInv, FiniteSetTheorems, TLAPS

\* The spaces are disjoint and inside the heap.
LEMMA Layout ==
  /\ HeapSize \in Nat
  /\ \A s \in Spaces : Size(s) \in Nat \ {0} /\ Low(s) \in Nat
  /\ \A s \in Spaces : \A i \in 1..Size(s) :
       /\ At(s, i) \in Addrs
       /\ InSpace(s, At(s, i))
  /\ \A s, t \in Spaces : \A a \in Addrs : InSpace(s, a) /\ InSpace(t, a) => s = t
<1> USE SizesAssumption DEF HeapSize
<1>1. Low("fresh") = 0 /\ Low("surv0") = FreshSize
      /\ Low("surv1") = FreshSize + SurvivedSize
      /\ Low("old") = FreshSize + 2 * SurvivedSize
  BY DEF Low
<1>2. Size("fresh") = FreshSize /\ Size("surv0") = SurvivedSize
      /\ Size("surv1") = SurvivedSize /\ Size("old") = OldSize
  BY DEF Size
<1>3. QED
  BY <1>1, <1>2 DEF Spaces, At, InSpace, Addrs

\* Every address lies in a space.
LEMMA Cover ==
  ASSUME NEW a \in Addrs
  PROVE  \E s \in Spaces : InSpace(s, a)
<1> USE SizesAssumption DEF HeapSize
<1>1. Low("fresh") = 0 /\ Low("surv0") = FreshSize
      /\ Low("surv1") = FreshSize + SurvivedSize
      /\ Low("old") = FreshSize + 2 * SurvivedSize
  BY DEF Low
<1>2. Size("fresh") = FreshSize /\ Size("surv0") = SurvivedSize
      /\ Size("surv1") = SurvivedSize /\ Size("old") = OldSize
  BY DEF Size
<1>3. QED
  BY <1>1, <1>2 DEF Spaces, InSpace, Addrs

-----------------------------------------------------------------------------
(* Type correctness. *)

\* The names of the spaces a collection copies from and to.
LEMMA SpaceNames ==
  ASSUME BlocksType
  PROVE  /\ future_survived \in Spaces /\ survived \in Spaces
         /\ future_survived \in {"surv0", "surv1"}
         /\ future_survived # survived
         /\ Size(future_survived) = SurvivedSize
         /\ Size("old") = OldSize /\ Size("fresh") = FreshSize
BY DEF BlocksType, future_survived, Spaces, Size

\* An allocated block has an address.
LEMMA BlockAddr ==
  ASSUME BlocksType, NEW s \in Spaces, NEW i \in 1..blocks[s]
  PROVE  At(s, i) \in Addrs
<1>1. i \in 1..Size(s)
  BY Layout DEF BlocksType
<1>2. QED
  BY <1>1, Layout

\* The slot that a loop has reached exists and holds a value.
LEMMA SlotType ==
  ASSUME TypeOK, AtSlot
  PROVE  /\ pc # "roots" => CurBlock \in Addrs
         /\ pc = "roots" => k \in Roots
         /\ f \in Fields
         /\ CurValue \in Values
         /\ CurValue # 0 => CurValue \in Addrs
<1>1. pc = "roots" => k \in Roots
  BY ShapeAssumption DEF TypeOK, RegsType, AtSlot, Roots
<1>2. pc # "roots" => CurBlock \in Addrs
  <2>1. CASE pc = "old"
    <3>1. k \in 1..blocks["old"]
      BY <2>1 DEF TypeOK, RegsType, BlocksType, Spaces, AtSlot
    <3>2. QED
      BY <2>1, <3>1, BlockAddr DEF CurBlock, Spaces, TypeOK
  <2>2. CASE pc = "refs"
    <3>1. cont + 1 \in 1..blocks[future_survived]
      BY <2>2, SpaceNames DEF TypeOK, RegsType, BlocksType, AtSlot
    <3>2. QED
      BY <2>2, <3>1, BlockAddr, SpaceNames DEF CurBlock, TypeOK
  <2>3. CASE pc = "rem"
    BY <2>3 DEF CurBlock, TypeOK, RegsType, AtSlot
  <2>4. QED
    BY <2>1, <2>2, <2>3 DEF AtSlot
<1>3. f \in Fields
  BY DEF TypeOK, RegsType
<1>4. CurValue \in Values
  BY <1>1, <1>2, <1>3 DEF CurValue, TypeOK, MemType, RootsType
<1>5. QED
  BY <1>1, <1>2, <1>3, <1>4, Layout DEF Values, Addrs

\* Writing a value through the slot keeps the types.
LEMMA PutSlotType ==
  ASSUME TypeOK, AtSlot, NEW w \in [Addrs -> [Fields -> Values]],
         NEW v \in Values, PutSlot(w, v)
  PROVE  fld' \in [Addrs -> [Fields -> Values]] /\ RootsType'
<1>1. CASE pc = "roots"
  BY <1>1, SlotType DEF PutSlot, TypeOK, RootsType
<1>2. CASE pc # "roots"
  <2>1. CurBlock \in Addrs /\ f \in Fields
    BY <1>2, SlotType
  <2>2. fld' = [w EXCEPT ![CurBlock][f] = v]
    BY <1>2 DEF PutSlot
  <2>3. fld' \in [Addrs -> [Fields -> Values]]
    BY <2>1, <2>2
  <2>4. RootsType'
    BY <1>2 DEF PutSlot, TypeOK, RootsType
  <2>5. QED
    BY <2>3, <2>4
<1>3. QED
  BY <1>1, <1>2

\* Advancing the loops keeps the types.
LEMMA NextSlotType ==
  ASSUME RegsType, NextSlot, pc' \in PCs
  PROVE  RegsType'
BY ShapeAssumption DEF RegsType, NextSlot, MoreWords, Fields

\* So does copying a block.
LEMMA CopyToType ==
  ASSUME TypeOK, AtSlot, CurValue # 0, NEW p \in Addrs, CopyTo(p)
  PROVE  /\ fwd' \in [Addrs -> BOOLEAN]
         /\ gen' \in [Addrs -> 0..PromoteGen]
         /\ id' \in [Addrs -> Values]
         /\ fld' \in [Addrs -> [Fields -> Values]]
         /\ RootsType'
<1>1. CurValue \in Addrs
  BY SlotType
<1>2. fwd' \in [Addrs -> BOOLEAN]
  BY DEF CopyTo, Forwarding, TypeOK, MemType
<1>3. id' \in [Addrs -> Values]
  BY <1>1 DEF CopyTo, TypeOK, MemType
<1>4. gen' \in [Addrs -> 0..PromoteGen]
  <2>1. (gen[CurValue] + 1) % (PromoteGen + 1) \in 0..PromoteGen
    BY <1>1, ShapeAssumption DEF TypeOK, MemType
  <2>2. QED
    BY <2>1 DEF CopyTo, TypeOK, MemType
<1>5. p \in Values /\ 1 \in Fields
  BY Layout, ShapeAssumption DEF Values, Addrs, Fields
<1> DEFINE w == [fld EXCEPT ![p] = fld[CurValue], ![CurValue][1] = p]
<1>6. w \in [Addrs -> [Fields -> Values]]
  BY <1>1, <1>5 DEF TypeOK, MemType
<1>7. PutSlot(w, p)
  BY DEF CopyTo
<1> HIDE DEF w
<1>8. fld' \in [Addrs -> [Fields -> Values]] /\ RootsType'
  BY <1>5, <1>6, <1>7, PutSlotType
<1>9. QED
  BY <1>2, <1>3, <1>4, <1>8

\* The live old blocks are no more than the old blocks, and slide downwards.
LEMMA LiveOldType ==
  ASSUME BlocksType
  PROVE  /\ IsFiniteSet(LiveOld)
         /\ Cardinality(LiveOld) \in 0..blocks["old"]
         /\ LiveOld \subseteq 1..blocks["old"]
         /\ \A i \in LiveOld : Slide(i) \in 1..i
<1>1. blocks["old"] \in Nat
  BY DEF BlocksType, Spaces
<1>2. ASSUME NEW n \in Nat
      PROVE  IsFiniteSet(1..n) /\ Cardinality(1..n) = n
  <2>1. 1 \in Int /\ n \in Int
    OBVIOUS
  <2>2. IsFiniteSet(1..n) /\ Cardinality(1..n) = IF 1 > n THEN 0 ELSE n - 1 + 1
    BY <2>1, FS_Interval
  <2>3. QED
    BY <2>2
<1>3. LiveOld \subseteq 1..blocks["old"]
  BY DEF LiveOld
<1>4. IsFiniteSet(LiveOld) /\ Cardinality(LiveOld) <= blocks["old"]
  <2>1. IsFiniteSet(1..blocks["old"])
        /\ Cardinality(1..blocks["old"]) = blocks["old"]
    BY <1>1, <1>2
  <2>2. LiveOld \in SUBSET (1..blocks["old"])
    BY <1>3
  <2>3. IsFiniteSet(LiveOld)
        /\ Cardinality(LiveOld) <= Cardinality(1..blocks["old"])
    BY <2>1, <2>2, FS_Subset
  <2>4. QED
    BY <2>1, <2>3
<1>5. Cardinality(LiveOld) \in Nat
  BY <1>4, FS_CardinalityType
<1>6. ASSUME NEW i \in LiveOld
      PROVE  Slide(i) \in 1..i
  <2> DEFINE L == {j \in LiveOld : j <= i}
  <2>1. i \in Nat /\ 1 <= i
    BY <1>1, <1>3
  <2>2. IsFiniteSet(1..i) /\ Cardinality(1..i) = i
    BY <1>2, <2>1
  <2>3. \A j \in L : j \in 1..i
    BY <1>1, <1>3, <2>1
  <2>4. i \in L
    BY <2>1
  <2> HIDE DEF L
  <2>5. L \subseteq 1..i
    BY <2>3
  <2>6. IsFiniteSet(L) /\ Cardinality(L) <= i
    BY <2>2, <2>5, FS_Subset
  <2>7. Cardinality(L) \in Nat
    BY <2>6, FS_CardinalityType
  <2>8. Cardinality(L) # 0
    BY <2>4, <2>6, FS_EmptySet
  <2>9. Slide(i) = Cardinality(L)
    BY DEF Slide, L
  <2>10. QED
    BY <2>1, <2>6, <2>7, <2>8, <2>9
<1>7. QED
  BY <1>1, <1>3, <1>4, <1>5, <1>6

\* Block moves stay inside the heap.
LEMMA MovedFromType ==
  ASSUME BlocksType, NEW a \in Addrs
  PROVE  MovedFrom(a) \in Addrs
<1>1. CASE \E i \in LiveOld : a = At("old", Slide(i))
  <2> DEFINE c == CHOOSE i \in LiveOld : a = At("old", Slide(i))
  <2>1. c \in LiveOld
    BY <1>1
  <2>2. MovedFrom(a) = At("old", c)
    BY <1>1 DEF MovedFrom
  <2> HIDE DEF c
  <2>3. c \in 1..blocks["old"]
    BY <2>1, LiveOldType
  <2>4. QED
    BY <2>2, <2>3, BlockAddr DEF Spaces
<1>2. CASE ~ \E i \in LiveOld : a = At("old", Slide(i))
  BY <1>2 DEF MovedFrom
<1>3. QED
  BY <1>1, <1>2

\* A step of heap_mark keeps the types of what every one of its cases touches.
LEMMA MarkTypeOK ==
  ASSUME TypeOK, heap_mark
  PROVE  TypeOK'
<1>1. /\ CurValue \in Values
      /\ CurValue # 0 => CurValue \in Addrs
  BY SlotType DEF heap_mark, MarkSkip, MarkReached, MarkOld, MarkForwarded,
     MarkPostpone, MarkPromote, MarkSurvive, OldOverflow, SurvivedOverflow
<1>2. /\ \A s \in Spaces : InSpace(s, CurValue) => CurValue # 0
      /\ InFrom(CurValue) => CurValue # 0
  BY Layout, SpaceNames DEF InSpace, InFrom, TypeOK, Spaces
<1>3. CASE MarkSkip
  <2>1. RegsType'
    BY <1>3, NextSlotType DEF MarkSkip, TypeOK, RegsType
  <2>2. UNCHANGED <<mem, heap, roots, pending, ghost>>
    BY <1>3 DEF MarkSkip
  <2>3. QED
    BY <2>1, <2>2 DEF TypeOK, MemType, BlocksType, OldMapType, RootsType,
       FlagsType, GhostType, mem, hdrs, heap, ghost
<1>4. CASE MarkReached
  <2>1. RegsType'
    BY <1>4, NextSlotType DEF MarkReached, TypeOK, RegsType
  <2>2. CurValue \in Addrs
    BY <1>1, <1>2, <1>4 DEF MarkReached, Spaces
  <2>3. rem' \in [Addrs -> BOOLEAN] /\ remembered' \in Seq(Addrs)
    BY <1>4, <2>2 DEF MarkReached, TypeOK, MemType
  <2>4. UNCHANGED <<fwd, gen, fld, id, blocks, survived, old_mem, full_gc,
                    old_map, roots, pending, ghost>>
    BY <1>4 DEF MarkReached
  <2>5. QED
    BY <2>1, <2>3, <2>4 DEF TypeOK, MemType, BlocksType, OldMapType, RootsType,
       FlagsType, GhostType, ghost
<1>5. CASE MarkOld
  <2>1. RegsType'
    BY <1>5, NextSlotType DEF MarkOld, TypeOK, RegsType
  <2>2. OldMapped(CurValue) \in Values
    BY <1>1, Layout DEF OldMapped, TypeOK, OldMapType, Addrs, Values
  <2>3. fld' \in [Addrs -> [Fields -> Values]] /\ RootsType'
    BY <1>5, <2>2, PutSlotType DEF MarkOld, TypeOK, MemType
  <2>4. UNCHANGED <<hdrs, heap, pending, ghost>>
    BY <1>5 DEF MarkOld
  <2>5. QED
    BY <2>1, <2>3, <2>4 DEF TypeOK, MemType, BlocksType, OldMapType,
       FlagsType, GhostType, hdrs, heap, ghost
<1>6. CASE MarkForwarded
  <2>1. RegsType'
    BY <1>6, NextSlotType DEF MarkForwarded, TypeOK, RegsType
  <2>2. fld[CurValue][1] \in Values
    BY <1>1, <1>2, <1>6, ShapeAssumption DEF MarkForwarded, TypeOK, MemType,
       Fields
  <2>3. fld' \in [Addrs -> [Fields -> Values]] /\ RootsType'
    BY <1>6, <2>2, PutSlotType DEF MarkForwarded, TypeOK, MemType
  <2>4. UNCHANGED <<hdrs, heap, pending, ghost>>
    BY <1>6 DEF MarkForwarded
  <2>5. QED
    BY <2>1, <2>3, <2>4 DEF TypeOK, MemType, BlocksType, OldMapType,
       FlagsType, GhostType, hdrs, heap, ghost
<1>7. CASE MarkPostpone
  <2>1. RegsType'
    BY <1>7, NextSlotType DEF MarkPostpone, TypeOK, RegsType
  <2>2. CurValue \in Addrs
    BY <1>1, <1>2, <1>7 DEF MarkPostpone, Ripe
  <2>3. rem' \in [Addrs -> BOOLEAN] /\ remembered' \in Seq(Addrs)
    BY <1>7, <2>2 DEF MarkPostpone, TypeOK, MemType
  <2>4. UNCHANGED <<fwd, gen, fld, id, blocks, survived, old_mem, full_gc,
                    old_map, roots, pending, ghost>>
    BY <1>7 DEF MarkPostpone
  <2>5. QED
    BY <2>1, <2>3, <2>4 DEF TypeOK, MemType, BlocksType, OldMapType, RootsType,
       FlagsType, GhostType, ghost
<1>8. CASE MarkPromote
  <2> DEFINE p == At("old", blocks["old"] + 1)
  <2>1. RegsType'
    BY <1>8, NextSlotType DEF MarkPromote, TypeOK, RegsType
  <2>2. CurValue \in Addrs
    BY <1>1, <1>2, <1>8 DEF MarkPromote, Ripe
  <2>3. blocks["old"] + 1 \in 1..Size("old")
    BY <1>8, SpaceNames, SizesAssumption
       DEF MarkPromote, HasRoom, TypeOK, BlocksType, Spaces
  <2>4. p \in Addrs
    BY <2>3, Layout DEF Spaces
  <2>5. /\ AtSlot /\ CurValue # 0 /\ CopyTo(p)
        /\ rem' = [rem EXCEPT ![p] = rem[CurValue], ![CurValue] = FALSE]
        /\ remembered' = Append(remembered, p)
        /\ blocks' = [blocks EXCEPT !["old"] = @ + 1]
        /\ old_mem' = TRUE
        /\ UNCHANGED <<survived, full_gc, old_map, pending, ghost>>
    BY <1>1, <1>2, <1>8 DEF MarkPromote, Ripe
  <2>6. BlocksType'
    <3>1. blocks' \in [Spaces -> Nat]
      <4>1. blocks["old"] + 1 \in Nat
        BY <2>3
      <4>2. blocks' = [blocks EXCEPT !["old"] = blocks["old"] + 1]
        BY <2>5
      <4>3. blocks \in [Spaces -> Nat]
        BY DEF TypeOK, BlocksType
      <4>4. QED
        BY <4>1, <4>2, <4>3
    <3>2. ASSUME NEW s \in Spaces
          PROVE  blocks'[s] <= Size(s)
      <4>1. CASE s = "old"
        BY <2>3, <2>5, <4>1 DEF TypeOK, BlocksType
      <4>2. CASE s # "old"
        <5>1. blocks'[s] = blocks[s]
          BY <2>5, <4>2 DEF TypeOK, BlocksType
        <5>2. QED
          BY <5>1 DEF TypeOK, BlocksType
      <4>3. QED
        BY <4>1, <4>2
    <3>3. QED
      BY <2>5, <3>1, <3>2 DEF TypeOK, BlocksType
  <2> HIDE DEF p
  <2>7. /\ fwd' \in [Addrs -> BOOLEAN]
        /\ gen' \in [Addrs -> 0..PromoteGen]
        /\ id' \in [Addrs -> Values]
        /\ fld' \in [Addrs -> [Fields -> Values]]
        /\ RootsType'
    BY <2>4, <2>5, CopyToType
  <2>8. rem' \in [Addrs -> BOOLEAN]
    BY <2>2, <2>4, <2>5 DEF TypeOK, MemType
  <2>9. remembered' \in Seq(Addrs)
    BY <2>4, <2>5 DEF TypeOK
  <2>10. QED
    BY <2>1, <2>5, <2>6, <2>7, <2>8, <2>9 DEF TypeOK, MemType, OldMapType,
       FlagsType, GhostType, ghost
<1>9. CASE MarkSurvive
  <2> DEFINE s == future_survived
             p == At(s, blocks[s] + 1)
  <2>1. RegsType'
    BY <1>9, NextSlotType DEF MarkSurvive, TypeOK, RegsType
  <2>2. CurValue \in Addrs
    BY <1>1, <1>2, <1>9 DEF MarkSurvive, Young
  <2>3. s \in Spaces /\ blocks[s] + 1 \in 1..Size(s)
    BY <1>9, SpaceNames, SizesAssumption
       DEF MarkSurvive, HasRoom, TypeOK, BlocksType
  <2>4. p \in Addrs
    BY <2>3, Layout
  <2>5. /\ AtSlot /\ CurValue # 0 /\ CopyTo(p)
        /\ rem' = [rem EXCEPT ![p] = rem[CurValue]]
        /\ blocks' = [blocks EXCEPT ![s] = @ + 1]
        /\ UNCHANGED <<survived, old_mem, full_gc, old_map, remembered,
                       pending, ghost>>
    BY <1>1, <1>2, <1>9 DEF MarkSurvive, Young
  <2> HIDE DEF s, p
  <2>6. BlocksType'
    <3>1. blocks' \in [Spaces -> Nat]
      <4>1. blocks[s] + 1 \in Nat
        BY <2>3
      <4>2. blocks' = [blocks EXCEPT ![s] = blocks[s] + 1]
        BY <2>5
      <4>3. blocks \in [Spaces -> Nat]
        BY DEF TypeOK, BlocksType
      <4>4. QED
        BY <4>1, <4>2, <4>3
    <3>2. ASSUME NEW t \in Spaces
          PROVE  blocks'[t] <= Size(t)
      <4>1. CASE t = s
        <5>1. blocks'[t] = blocks[s] + 1
          BY <2>3, <2>5, <4>1 DEF TypeOK, BlocksType
        <5>2. QED
          BY <2>3, <4>1, <5>1, Layout
      <4>2. CASE t # s
        <5>1. blocks'[t] = blocks[t]
          BY <2>5, <4>2 DEF TypeOK, BlocksType
        <5>2. QED
          BY <5>1 DEF TypeOK, BlocksType
      <4>3. QED
        BY <4>1, <4>2
    <3>3. QED
      BY <2>5, <3>1, <3>2 DEF TypeOK, BlocksType
  <2>7. /\ fwd' \in [Addrs -> BOOLEAN]
        /\ gen' \in [Addrs -> 0..PromoteGen]
        /\ id' \in [Addrs -> Values]
        /\ fld' \in [Addrs -> [Fields -> Values]]
        /\ RootsType'
    BY <2>4, <2>5, CopyToType
  <2>8. rem' \in [Addrs -> BOOLEAN]
    BY <2>2, <2>4, <2>5 DEF TypeOK, MemType
  <2>9. QED
    BY <2>1, <2>5, <2>6, <2>7, <2>8 DEF TypeOK, MemType, OldMapType,
       FlagsType, GhostType, ghost
<1>10. CASE OldOverflow \/ SurvivedOverflow
  BY <1>10 DEF OldOverflow, SurvivedOverflow, Fatal, PCs, TypeOK, MemType,
     BlocksType, OldMapType, RootsType, RegsType, FlagsType, GhostType, mem,
     hdrs, heap, ghost
<1>11. QED
  BY <1>3, <1>4, <1>5, <1>6, <1>7, <1>8, <1>9, <1>10 DEF heap_mark

LEMMA InitTypeOK == Init => TypeOK
<1> SUFFICES ASSUME Init PROVE TypeOK
  OBVIOUS
<1>1. 0 \in Values /\ 0 \in 0..PromoteGen /\ 1 \in Fields
  BY Layout, ShapeAssumption DEF Values, Fields
<1>2. NoWords \in [Fields -> Values]
  BY <1>1 DEF NoWords
<1>3. MemType
  BY <1>1, <1>2 DEF Init, MemType
<1>4. BlocksType
  BY Layout DEF Init, BlocksType
<1>5. OldMapType /\ RootsType /\ FlagsType
  BY <1>1 DEF Init, OldMapType, RootsType, FlagsType
<1>6. RegsType
  BY <1>1 DEF Init, RegsType, PCs
<1>7. GhostType
  BY <1>1, <1>2 DEF Init, GhostType
<1>8. remembered \in Seq(Addrs)
  BY DEF Init
<1>9. QED
  BY <1>3, <1>4, <1>5, <1>6, <1>7, <1>8 DEF TypeOK

\* An allocation keeps the types of what it touches.
LEMMA AllocTypeOK ==
  ASSUME TypeOK, NEW q \in Requests, AllocFresh(q)
  PROVE  /\ MemType' /\ BlocksType' /\ RootsType' /\ OldMapType' /\ GhostType'
         /\ UNCHANGED <<old_mem, full_gc, remembered, tainted>>
<1> DEFINE p == At("fresh", blocks["fresh"] + 1)
           w == [g \in Fields |-> RootValue(q.src[g])]
<1>1. blocks["fresh"] + 1 \in 1..Size("fresh")
  BY SpaceNames, SizesAssumption
     DEF AllocFresh, free_mem, TypeOK, BlocksType, Spaces
<1>2. p \in Addrs /\ p \in Values
  BY <1>1, Layout DEF Spaces, Addrs, Values
<1>3. \A s \in 0..NRoots : RootValue(s) \in Values
  BY Layout DEF RootValue, TypeOK, RootsType, Roots, Values
<1>4. w \in [Fields -> Values]
  BY <1>3 DEF Requests
<1>5. /\ fwd' = [fwd EXCEPT ![p] = FALSE]
      /\ gen' = [gen EXCEPT ![p] = 0]
      /\ rem' = [rem EXCEPT ![p] = FALSE]
      /\ fld' = [fld EXCEPT ![p] = w]
      /\ roots' = [roots EXCEPT ![q.dst] = p]
      /\ UNCHANGED <<survived, old_mem, full_gc, old_map, remembered, id, ghost>>
  BY DEF AllocFresh
<1>6. blocks' = [blocks EXCEPT !["fresh"] = blocks["fresh"] + 1]
  BY DEF AllocFresh
<1> HIDE DEF p, w
<1>7. MemType'
  <2>1. fwd' \in [Addrs -> BOOLEAN]
    BY <1>5 DEF TypeOK, MemType
  <2>2. gen' \in [Addrs -> 0..PromoteGen]
    <3>1. 0 \in 0..PromoteGen
      BY ShapeAssumption
    <3>2. QED
      BY <1>5, <3>1 DEF TypeOK, MemType
  <2>3. rem' \in [Addrs -> BOOLEAN]
    BY <1>5 DEF TypeOK, MemType
  <2>4. fld' \in [Addrs -> [Fields -> Values]]
    BY <1>4, <1>5 DEF TypeOK, MemType
  <2>5. QED
    BY <1>5, <2>1, <2>2, <2>3, <2>4 DEF TypeOK, MemType
<1>8. BlocksType'
  <2>1. blocks["fresh"] + 1 \in Nat /\ blocks \in [Spaces -> Nat]
    BY <1>1 DEF TypeOK, BlocksType
  <2>2. blocks' \in [Spaces -> Nat]
    BY <1>6, <2>1
  <2>3. ASSUME NEW s \in Spaces
        PROVE  blocks'[s] <= Size(s)
    <3>1. CASE s = "fresh"
      BY <1>1, <1>6, <2>1, <3>1
    <3>2. CASE s # "fresh"
      BY <1>6, <2>1, <3>2 DEF TypeOK, BlocksType
    <3>3. QED
      BY <3>1, <3>2
  <2>4. QED
    BY <1>5, <2>2, <2>3 DEF TypeOK, BlocksType
<1>9. RootsType'
  BY <1>2, <1>5 DEF TypeOK, RootsType
<1>10. QED
  BY <1>5, <1>7, <1>8, <1>9 DEF TypeOK, OldMapType, GhostType, ghost

\* Entering a collection keeps the types.
LEMMA EnterGcTypeOK ==
  ASSUME TypeOK, EnterGc, pending' \in BOOLEAN
  PROVE  TypeOK'
<1>1. MemType'
  BY Layout DEF EnterGc, TypeOK, MemType, Addrs, Values
<1>2. GhostType'
  BY Layout DEF EnterGc, TypeOK, MemType, RootsType, GhostType, NoWords, Values
<1>3. RegsType'
  BY ShapeAssumption DEF EnterGc, RegsType, PCs, Fields
<1>4. FlagsType'
  BY DEF EnterGc, TypeOK, FlagsType, heap, StaleRemembered
<1>5. UNCHANGED <<heap, roots>>
  BY DEF EnterGc
<1>6. QED
  BY <1>1, <1>2, <1>3, <1>4, <1>5 DEF TypeOK, BlocksType, OldMapType, RootsType,
     heap

\* The compaction of old space keeps the types.
LEMMA GcOldTypeOK ==
  ASSUME TypeOK, HeapGcOld
  PROVE  TypeOK'
<1> DEFINE n == Cardinality(LiveOld)
<1>1. \A a \in Addrs : MovedFrom(a) \in Addrs
  BY MovedFromType DEF TypeOK
<1>2. n \in 0..blocks["old"] /\ blocks["old"] \in Nat
  BY LiveOldType DEF TypeOK, BlocksType, Spaces
<1>3. MemType'
  <2>1. fwd' \in [Addrs -> BOOLEAN]
    BY <1>1 DEF HeapGcOld, TypeOK, MemType
  <2>2. gen' \in [Addrs -> 0..PromoteGen]
    BY <1>1 DEF HeapGcOld, TypeOK, MemType
  <2>3. rem' \in [Addrs -> BOOLEAN]
    BY DEF HeapGcOld, TypeOK, MemType
  <2>4. fld' \in [Addrs -> [Fields -> Values]]
    BY <1>1 DEF HeapGcOld, TypeOK, MemType
  <2>5. id' \in [Addrs -> Values]
    BY <1>1 DEF HeapGcOld, TypeOK, MemType
  <2>6. QED
    BY <2>1, <2>2, <2>3, <2>4, <2>5 DEF MemType
<1>4. BlocksType'
  <2>1. blocks' = [blocks EXCEPT !["old"] = n] /\ survived' = survived
    BY DEF HeapGcOld
  <2> HIDE DEF n
  <2>2. n \in Nat /\ n <= blocks["old"] /\ blocks \in [Spaces -> Nat]
    BY <1>2 DEF TypeOK, BlocksType
  <2>3. blocks' \in [Spaces -> Nat]
    BY <2>1, <2>2
  <2>4. ASSUME NEW s \in Spaces
        PROVE  blocks'[s] <= Size(s)
    <3>1. blocks[s] \in Nat /\ blocks[s] <= Size(s) /\ Size(s) \in Nat
      BY Layout DEF TypeOK, BlocksType
    <3>2. CASE s = "old"
      BY <1>2, <2>1, <2>2, <3>1, <3>2
    <3>3. CASE s # "old"
      BY <2>1, <2>2, <3>1, <3>3
    <3>4. QED
      BY <3>2, <3>3
  <2>5. QED
    BY <2>1, <2>3, <2>4 DEF TypeOK, BlocksType
<1>5. \A i \in 1..blocks["old"] : At("old", i) \in Addrs
  BY BlockAddr DEF TypeOK, Spaces
<1>6. OldMapType'
  <2> DEFINE D == {At("old", i) : i \in LiveOld}
  <2>1. D \subseteq Addrs
    BY <1>5, LiveOldType DEF TypeOK
  <2>2. ASSUME NEW a \in D
        PROVE  At("old", Slide(a - Low("old"))) \in Addrs
    <3>1. PICK i \in LiveOld : a = At("old", i)
      OBVIOUS
    <3>2. i \in 1..blocks["old"] /\ Slide(i) \in 1..i
      BY LiveOldType DEF TypeOK
    <3>3. a - Low("old") = i
      BY <1>2, <3>1, <3>2, Layout DEF At, Spaces
    <3>4. Slide(i) \in 1..blocks["old"]
      BY <1>2, <3>2
    <3>5. QED
      BY <1>5, <3>3, <3>4
  <2>3. old_map' = [a \in D |-> At("old", Slide(a - Low("old")))]
    BY DEF HeapGcOld
  <2> HIDE DEF D
  <2>4. QED
    BY <2>1, <2>2, <2>3 DEF OldMapType
<1>7. remembered' \in Seq(Addrs)
  <2>1. remembered' = [m \in 1..n |-> At("old", m)]
    BY DEF HeapGcOld
  <2>2. \A m \in 1..n : At("old", m) \in Addrs
    BY <1>2, <1>5
  <2> HIDE DEF n
  <2>3. n \in Nat
    BY <1>2
  <2>4. QED
    BY <2>1, <2>2, <2>3
<1>8. RegsType'
  BY ShapeAssumption DEF HeapGcOld, RegsType, PCs, Fields
<1>9. FlagsType'
  BY DEF HeapGcOld, TypeOK, FlagsType
<1>10. UNCHANGED <<roots, graph, groots>>
  BY DEF HeapGcOld
<1>11. QED
  BY <1>3, <1>4, <1>6, <1>7, <1>8, <1>9, <1>10 DEF TypeOK, RootsType, GhostType

\* The end of a collection keeps the types.
LEMMA FinishTypeOK ==
  ASSUME TypeOK, Finish
  PROVE  TypeOK'
<1>1. MemType'
  <2>1. fwd' \in [Addrs -> BOOLEAN]
    BY DEF Finish, TypeOK, MemType
  <2>2. gen' \in [Addrs -> 0..PromoteGen]
    BY ShapeAssumption DEF Finish, TypeOK, MemType
  <2>3. rem' \in [Addrs -> BOOLEAN]
    BY DEF Finish, TypeOK, MemType
  <2>4. fld' \in [Addrs -> [Fields -> Values]]
    BY Layout DEF Finish, TypeOK, MemType, NoWords, Values
  <2>5. id' \in [Addrs -> Values]
    BY Layout DEF Finish, Values
  <2>6. QED
    BY <2>1, <2>2, <2>3, <2>4, <2>5 DEF MemType
<1>2. BlocksType'
  <2>1. blocks' = [blocks EXCEPT !["fresh"] = 0, ![survived] = 0]
    BY DEF Finish, ResetBlocks
  <2>2. blocks \in [Spaces -> Nat]
    BY DEF TypeOK, BlocksType
  <2>3. blocks' \in [Spaces -> Nat]
    BY <2>1, <2>2
  <2>4. ASSUME NEW s \in Spaces
        PROVE  blocks'[s] <= Size(s)
    <3>1. blocks[s] <= Size(s) /\ 0 <= Size(s)
      BY Layout DEF TypeOK, BlocksType
    <3>2. blocks'[s] = blocks[s] \/ blocks'[s] = 0
      BY <2>1, <2>2
    <3>3. QED
      BY <3>1, <3>2
  <2>5. survived' \in {"surv0", "surv1"}
    BY SpaceNames DEF Finish, TypeOK
  <2>6. QED
    BY <2>3, <2>4, <2>5 DEF BlocksType
<1>3. RegsType'
  BY ShapeAssumption DEF Finish, RegsType, PCs, Fields
<1>4. FlagsType'
  BY DEF Finish, TypeOK, FlagsType
<1>5. GhostType'
  BY Layout DEF Finish, GhostType, NoWords, Values
<1>6. OldMapType' /\ remembered' \in Seq(Addrs) /\ RootsType'
  BY DEF Finish, TypeOK, OldMapType, RootsType
<1>7. QED
  BY <1>1, <1>2, <1>3, <1>4, <1>5, <1>6 DEF TypeOK

\* The mutator's other steps keep the types.
LEMMA MutateTypeOK ==
  ASSUME TypeOK, Mutate
  PROVE  TypeOK'
<1>1. ASSUME NEW q \in Requests, New(q)
      PROVE  TypeOK'
  BY <1>1, AllocTypeOK DEF New, TypeOK, RegsType, FlagsType, regs
<1>2. CASE NewFull
  BY <1>2, EnterGcTypeOK DEF NewFull
<1>3. ASSUME NEW n \in 1..FreshSize, Require(n)
      PROVE  TypeOK'
  BY <1>3, EnterGcTypeOK DEF Require, TypeOK, FlagsType
<1>4. \A r \in Roots : roots[r] # 0 => roots[r] \in Addrs
  BY Layout DEF TypeOK, RootsType, Values, Addrs
<1>5. ASSUME NEW d \in Roots, NEW s \in Roots, NEW g \in Fields, Load(d, s, g)
      PROVE  TypeOK'
  <2>1. fld[roots[s]][g] \in Values
    BY <1>4, <1>5 DEF Load, TypeOK, MemType
  <2>2. RootsType'
    BY <1>5, <2>1 DEF Load, TypeOK, RootsType
  <2>3. UNCHANGED <<mem, heap, regs, pending, ghost>>
    BY <1>5 DEF Load
  <2>4. QED
    BY <2>2, <2>3 DEF TypeOK, MemType, BlocksType, OldMapType, RegsType,
       FlagsType, GhostType, mem, hdrs, heap, regs, ghost
<1>6. \A s \in 0..NRoots : RootValue(s) \in Values
  BY Layout DEF RootValue, TypeOK, RootsType, Roots, Values
<1>7. ASSUME NEW d \in Roots, NEW s \in 0..NRoots, NEW g \in Fields,
             Store(d, g, s)
      PROVE  TypeOK'
  <2>1. fld' = [fld EXCEPT ![roots[d]][g] = RootValue(s)]
    BY <1>7 DEF Store
  <2>2. RootValue(s) \in Values /\ roots[d] \in Addrs
    BY <1>4, <1>6, <1>7 DEF Store
  <2>3. fld' \in [Addrs -> [Fields -> Values]]
    BY <2>1, <2>2 DEF TypeOK, MemType
  <2>4. UNCHANGED <<hdrs, heap, roots, regs, pending, ghost>>
    BY <1>7 DEF Store
  <2>5. QED
    BY <2>3, <2>4 DEF TypeOK, MemType, BlocksType, OldMapType, RootsType,
       RegsType, FlagsType, GhostType, hdrs, heap, regs, ghost
<1>8. ASSUME NEW d \in Roots, NEW s \in 0..NRoots, Move(d, s)
      PROVE  TypeOK'
  <2>1. RootsType'
    BY <1>6, <1>8 DEF Move, TypeOK, RootsType
  <2>2. UNCHANGED <<mem, heap, regs, pending, ghost>>
    BY <1>8 DEF Move
  <2>3. QED
    BY <2>1, <2>2 DEF TypeOK, MemType, BlocksType, OldMapType, RegsType,
       FlagsType, GhostType, mem, hdrs, heap, regs, ghost
<1>9. QED
  BY <1>1, <1>2, <1>3, <1>5, <1>7, <1>8 DEF Mutate

\* Every step keeps the types.
LEMMA NextTypeOK ==
  ASSUME TypeOK, [Next]_vars
  PROVE  TypeOK'
<1>1. CASE UNCHANGED vars
  BY <1>1 DEF TypeOK, MemType, BlocksType, OldMapType, RootsType, RegsType,
     FlagsType, GhostType, vars, mem, hdrs, heap, regs, ghost
<1>2. CASE Mutate
  BY <1>2, MutateTypeOK
<1>3. CASE heap_mark
  BY <1>3, MarkTypeOK
<1>4. CASE RootsDone \/ ScanOldDone \/ ScanRefsDone
  <2>1. RegsType'
    BY <1>4, ShapeAssumption DEF RootsDone, ScanOldDone, ScanRefsDone,
       AfterRoots, AfterRefs, EndOfPass, TypeOK, RegsType, PCs, Fields
  <2>2. UNCHANGED <<mem, heap, roots, pending, ghost>>
    BY <1>4 DEF RootsDone, ScanOldDone, ScanRefsDone
  <2>3. QED
    BY <2>1, <2>2 DEF TypeOK, MemType, BlocksType, OldMapType, RootsType,
       FlagsType, GhostType, mem, hdrs, heap, ghost
<1>5. CASE ScanRememberedDone
  <2>1. RegsType'
    BY <1>5 DEF ScanRememberedDone, TypeOK, RegsType, PCs
  <2>2. remembered' \in Seq(Addrs)
    BY <1>5 DEF ScanRememberedDone, Forgotten
  <2>3. UNCHANGED <<mem, blocks, survived, old_mem, full_gc, old_map, roots,
                    pending, ghost>>
    BY <1>5 DEF ScanRememberedDone
  <2>4. QED
    BY <2>1, <2>2, <2>3 DEF TypeOK, MemType, BlocksType, OldMapType, RootsType,
       FlagsType, GhostType, mem, hdrs, ghost
<1>6. CASE HeapGcOld
  BY <1>6, GcOldTypeOK
<1>7. CASE Finish
  BY <1>7, FinishTypeOK
<1>8. CASE Retry
  <2>1. PICK q \in Requests : Resume(q)
    BY <1>8 DEF Retry
  <2>2. AllocFresh(q) /\ RegsType' /\ pending' \in BOOLEAN
    BY <2>1 DEF Resume, TypeOK, RegsType, PCs
  <2>3. QED
    BY <2>2, AllocTypeOK DEF TypeOK, FlagsType
<1>9. QED
  BY <1>1, <1>2, <1>3, <1>4, <1>5, <1>6, <1>7, <1>8 DEF Next, Collect

\* The state always has the types of the C declarations: no space overflows,
\* and every slot the collector visits (heap_mark) holds an address of the heap.
THEOREM TypeCorrect == Spec => []TypeOK
<1>1. Init => TypeOK
  BY InitTypeOK
<1>2. TypeOK /\ [Next]_vars => TypeOK'
  BY NextTypeOK
<1>3. QED
  BY <1>1, <1>2, PTL DEF Spec

-----------------------------------------------------------------------------
(* Where blocks are. *)

LEMMA AllocatedIn ==
  ASSUME NEW s \in Spaces, NEW a \in Addrs, InSpace(s, a)
  PROVE  Allocated(a) <=> a <= At(s, blocks[s])
<1>1. \A t \in Spaces : InSpace(t, a) => t = s
  BY Layout
<1>2. QED
  BY <1>1 DEF Allocated

LEMMA AllocatedAt ==
  ASSUME BlocksType, NEW s \in Spaces, NEW i \in 1..blocks[s]
  PROVE  /\ At(s, i) \in Addrs /\ InSpace(s, At(s, i)) /\ Allocated(At(s, i))
<1>1. i \in 1..Size(s) /\ blocks[s] \in Nat
  BY Layout DEF BlocksType
<1>2. At(s, i) \in Addrs /\ InSpace(s, At(s, i))
  BY <1>1, Layout
<1>3. At(s, i) <= At(s, blocks[s])
  BY <1>1, Layout DEF At
<1>4. QED
  BY <1>2, <1>3 DEF Allocated

LEMMA AtOfAllocated ==
  ASSUME BlocksType, NEW s \in Spaces, NEW a \in Addrs, InSpace(s, a),
         Allocated(a)
  PROVE  \E i \in 1..blocks[s] : a = At(s, i)
<1>1. a <= At(s, blocks[s])
  BY AllocatedIn
<1>2. a - Low(s) \in 1..blocks[s] /\ a = At(s, a - Low(s))
  BY <1>1, Layout DEF At, InSpace, BlocksType, Addrs
<1>3. QED
  BY <1>2

\* An address is in old space, in future_survived or in the spaces that the
\* collection evacuates, and in one of them only.
LEMMA Parts ==
  ASSUME BlocksType, NEW a \in Addrs
  PROVE  /\ InSpace("old", a) \/ InSpace(future_survived, a) \/ InFrom(a)
         /\ ~(InSpace("old", a) /\ InSpace(future_survived, a))
         /\ ~(InSpace("old", a) /\ InFrom(a))
         /\ ~(InSpace(future_survived, a) /\ InFrom(a))
<1>1. {"old", "fresh", survived, future_survived} \subseteq Spaces
      /\ Spaces = {"old", "fresh", survived, future_survived}
      /\ future_survived # survived /\ future_survived # "old"
      /\ future_survived # "fresh" /\ survived # "old"
  BY DEF BlocksType, future_survived, Spaces
<1>2. QED
  BY <1>1, Layout, Cover DEF InFrom

-----------------------------------------------------------------------------
(* What no step of a collection undoes. *)

Growth ==
  /\ UNCHANGED <<survived, full_gc, old_map, graph, groots>>
  /\ \A s \in Spaces : blocks[s] <= blocks'[s]
  /\ \A a \in Addrs : Allocated(a) =>
       /\ id'[a] = id[a]
       /\ fwd[a] => fwd'[a]
       /\ rem[a] => rem'[a] \/ (fwd'[a] /\ ~full_gc)

LEMMA Stable ==
  ASSUME TypeOK, TypeOK', Growth
  PROVE  /\ \A a \in Addrs : Allocated(a) => Allocated(a)'
         /\ \A a \in Addrs : InFrom(a)' <=> InFrom(a)
         /\ future_survived' = future_survived
         /\ \A a \in Addrs : Usable(a) => Usable(a)'
         /\ \A x, i : Refers(x, i) => Refers(x, i)'
         /\ \A x : Visited(x) /\ (x = 0 \/ (x \in Addrs /\ Allocated(x)))
                     => Visited(x)'
<1>1. \A a \in Addrs : Allocated(a) => Allocated(a)'
  <2>1. \A s \in Spaces : At(s, blocks[s]) <= At(s, blocks'[s])
    BY Layout DEF At, Growth, TypeOK, BlocksType
  <2>2. \A s \in Spaces : At(s, blocks[s]) \in Int /\ At(s, blocks'[s]) \in Int
    BY Layout DEF At, TypeOK, BlocksType
  <2>3. QED
    BY <2>1, <2>2 DEF Allocated, Addrs
<1>2. (\A a \in Addrs : InFrom(a)' <=> InFrom(a))
      /\ future_survived' = future_survived
  BY DEF Growth, InFrom, future_survived
<1>3. ASSUME NEW a \in Addrs, Usable(a)
      PROVE  Usable(a)'
  BY <1>1, <1>2, <1>3 DEF Usable, Growth, SecondPass
<1>4. \A x, i : Refers(x, i) => Refers(x, i)'
  BY <1>3 DEF Refers, Usable, Growth
<1>5. \A x : Visited(x) /\ (x = 0 \/ (x \in Addrs /\ Allocated(x)))
                     => Visited(x)'
  BY <1>2 DEF Visited, Growth
<1>6. QED
  BY <1>1, <1>2, <1>3, <1>4, <1>5

-----------------------------------------------------------------------------
(* The slot being visited. *)

\* Ghost: the object that the slot referred to when the collection began.
CurRef == IF pc = "roots" THEN groots[k] ELSE graph[id[CurBlock]][f]

LEMMA CurFacts ==
  ASSUME TypeOK, GcInv, AtSlot
  PROVE  /\ pc # "roots" => /\ CurBlock \in Addrs
                            /\ Usable(CurBlock)
                            /\ ~fwd[CurBlock]
                            /\ InFrom(CurBlock) => full_gc /\ rem[CurBlock]
         /\ Refers(CurValue, CurRef)
         /\ CurValue # 0 => CurValue \in Addrs /\ Allocated(CurValue)
<1>1. ASSUME pc # "roots"
      PROVE  /\ CurBlock \in Addrs
             /\ Usable(CurBlock)
             /\ ~fwd[CurBlock]
             /\ InFrom(CurBlock) => full_gc /\ rem[CurBlock]
  <2>1. CurBlock \in Addrs
    BY <1>1, SlotType
  <2>2. ASSUME NEW s \in {"old", future_survived}, NEW i \in 1..blocks[s],
               CurBlock = At(s, i)
        PROVE  Allocated(CurBlock) /\ ~InFrom(CurBlock)
    <3>1. s \in Spaces
      BY SpaceNames DEF TypeOK, Spaces
    <3>2. InSpace(s, CurBlock) /\ Allocated(CurBlock)
      BY <2>2, <3>1, AllocatedAt DEF TypeOK
    <3>3. QED
      BY <2>1, <3>2, Parts DEF TypeOK
  <2>3. ASSUME Allocated(CurBlock), ~InFrom(CurBlock)
        PROVE  Usable(CurBlock) /\ ~fwd[CurBlock]
    BY <2>1, <2>3 DEF Usable, GcInv, Forwards
  <2>4. CASE pc = "old"
    <3>1. k \in 1..blocks["old"]
      BY <2>4 DEF AtSlot, TypeOK, RegsType, BlocksType, Spaces
    <3>2. QED
      BY <2>1, <2>2, <2>3, <2>4, <3>1 DEF CurBlock
  <2>5. CASE pc = "refs"
    <3>1. cont + 1 \in 1..blocks[future_survived]
      BY <2>5, SpaceNames DEF AtSlot, TypeOK, RegsType, BlocksType
    <3>2. QED
      BY <2>1, <2>2, <2>3, <2>5, <3>1 DEF CurBlock
  <2>6. CASE pc = "rem"
    <3>1. k \in 1..Len(remembered) /\ CurBlock = remembered[k]
      BY <2>6 DEF AtSlot, CurBlock, TypeOK, RegsType
    <3>2. Must(CurBlock)
      BY <3>1 DEF GcInv, Listed
    <3>3. CASE full_gc
      BY <2>1, <3>2, <3>3 DEF Must, GcInv, Bits, Control, Usable
    <3>4. CASE ~full_gc
      <4>1. Allocated(CurBlock) /\ ~InFrom(CurBlock)
        BY <2>1, <3>2, <3>4, Parts DEF Must, TypeOK
      <4>2. QED
        BY <2>1, <2>3, <4>1
    <3>5. QED
      BY <3>3, <3>4
  <2>7. QED
    BY <1>1, <2>4, <2>5, <2>6 DEF AtSlot
<1>2. Refers(CurValue, CurRef)
  <2>1. CASE pc = "roots"
    BY <2>1, SlotType DEF CurValue, CurRef, GcInv, Contents
  <2>2. CASE pc # "roots"
    BY <1>1, <2>2, SlotType DEF CurValue, CurRef, GcInv, Contents
  <2>3. QED
    BY <2>1, <2>2
<1>3. QED
  BY <1>1, <1>2 DEF Refers, Usable

-----------------------------------------------------------------------------
(* The visits of heap_mark that copy nothing. *)

\* Writing back the value that is there changes nothing.
LEMMA SameSlot ==
  ASSUME TypeOK, AtSlot, UNCHANGED <<fld, roots>>
  PROVE  PutSlot(fld, CurValue)
<1>1. CASE pc = "roots"
  BY <1>1, SlotType DEF PutSlot, CurValue, TypeOK, RootsType
<1>2. CASE pc # "roots"
  <2>1. CurBlock \in Addrs /\ f \in Fields /\ CurValue = fld[CurBlock][f]
    BY <1>2, SlotType DEF CurValue
  <2>2. [fld EXCEPT ![CurBlock][f] = CurValue] = fld
    BY <2>1 DEF TypeOK, MemType
  <2>3. QED
    BY <1>2, <2>2 DEF PutSlot
<1>3. QED
  BY <1>1, <1>2

\* What writing nv through the slot does to every slot of the memory.
LEMMA SlotEffect ==
  ASSUME TypeOK, AtSlot, NEW w \in [Addrs -> [Fields -> Values]], NEW nv \in Values,
         PutSlot(w, nv)
  PROVE  /\ \A r \in Roots : roots'[r] = IF pc = "roots" /\ r = k THEN nv
                                         ELSE roots[r]
         /\ \A a \in Addrs, g \in Fields :
              fld'[a][g] = IF pc # "roots" /\ a = CurBlock /\ g = f THEN nv
                           ELSE w[a][g]
<1>1. CASE pc = "roots"
  BY <1>1, SlotType DEF PutSlot, TypeOK, RootsType
<1>2. CASE pc # "roots"
  <2>1. CurBlock \in Addrs /\ f \in Fields
    BY <1>2, SlotType
  <2>2. fld' = [w EXCEPT ![CurBlock][f] = nv] /\ roots' = roots
    BY <1>2 DEF PutSlot
  <2>3. QED
    BY <1>2, <2>1, <2>2
<1>3. QED
  BY <1>1, <1>2

\* The effect of such a visit: at most the slot, and the bit and the list entry
\* of the block that it marks.
NoCopy(nv) ==
  /\ AtSlot
  /\ NextSlot
  /\ PutSlot(fld, nv)
  /\ UNCHANGED <<fwd, gen, id, blocks, survived, full_gc, old_map, pc, graph,
                 groots>>
  /\ \A a \in Addrs : rem[a] => rem'[a]
  /\ \A a \in Addrs : rem'[a] /\ ~rem[a] =>
       /\ full_gc /\ a = CurValue /\ ~fwd[a]
       /\ InSpace("old", a) \/ (InFrom(a) /\ gen[a] = PromoteGen)
       /\ remembered' = Append(remembered, a)
  /\ \/ remembered' = remembered
     \/ /\ remembered' = Append(remembered, CurValue)
        /\ CurValue \in Addrs /\ full_gc /\ rem'[CurValue]
  /\ Refers(CurValue, CurRef) => Refers(nv, CurRef)
  /\ Visited(nv)'

\* Such a visit puts its value in the slot that it is at, and nowhere else.
LEMMA NoCopySlot ==
  ASSUME TypeOK, NEW nv \in Values, NoCopy(nv)
  PROVE  /\ \A r \in Roots : roots'[r] = IF pc = "roots" /\ r = k THEN nv
                                         ELSE roots[r]
         /\ \A a \in Addrs, g \in Fields :
              fld'[a][g] = IF pc # "roots" /\ a = CurBlock /\ g = f THEN nv
                           ELSE fld[a][g]
<1>1. AtSlot /\ PutSlot(fld, nv)
  BY DEF NoCopy
<1>2. fld \in [Addrs -> [Fields -> Values]]
  BY DEF TypeOK, MemType
<1>3. QED
  BY <1>1, <1>2, SlotEffect

\* What the lemmas below use of it.
LEMMA NoCopyFacts ==
  ASSUME TypeOK, TypeOK', GcInv, NEW nv \in Values, NoCopy(nv)
  PROVE  /\ Growth
         /\ \A a \in Addrs : Allocated(a)' <=> Allocated(a)
         /\ Refers(nv, CurRef)
         /\ Visited(nv)'
<1>1. Growth
  BY DEF NoCopy, Growth, TypeOK, BlocksType
<1>2. \A a \in Addrs : Allocated(a)' <=> Allocated(a)
  BY DEF NoCopy, Allocated
<1>3. Refers(nv, CurRef)
  BY CurFacts DEF NoCopy
<1>4. Visited(nv)'
  BY DEF NoCopy
<1>5. QED
  BY <1>1, <1>2, <1>3, <1>4

LEMMA NoCopyContents ==
  ASSUME TypeOK, TypeOK', GcInv, NEW nv \in Values, NoCopy(nv)
  PROVE  Contents'
<1>1. Growth /\ Refers(nv, CurRef)
      /\ (\A a \in Addrs : Allocated(a)' <=> Allocated(a))
  BY NoCopyFacts
<1>2. \A x, i : Refers(x, i) => Refers(x, i)'
  BY <1>1, Stable
<1>3. /\ \A r \in Roots : roots'[r] = IF pc = "roots" /\ r = k THEN nv
                                      ELSE roots[r]
      /\ \A a \in Addrs, g \in Fields :
           fld'[a][g] = IF pc # "roots" /\ a = CurBlock /\ g = f THEN nv
                        ELSE fld[a][g]
  BY NoCopySlot
<1>4. UNCHANGED <<fwd, id, survived, old_map, graph, groots>>
  BY DEF NoCopy
<1>5. ASSUME NEW r \in Roots
      PROVE  Refers(roots[r], groots[r])'
  <2>1. Refers(roots[r], groots[r])
    BY DEF GcInv, Contents
  <2>2. CASE pc = "roots" /\ r = k
    BY <1>1, <1>2, <1>3, <1>4, <2>2 DEF CurRef
  <2>3. CASE ~(pc = "roots" /\ r = k)
    BY <1>2, <1>3, <1>4, <2>1, <2>3
  <2>4. QED
    BY <2>2, <2>3
<1>6. ASSUME NEW a \in Addrs, Usable(a)', ~fwd'[a]
      PROVE  /\ id'[a] \in Addrs
             /\ \A g \in Fields : Refers(fld[a][g], graph[id[a]][g])'
  <2>1. Usable(a) \/ (~Usable(a) /\ SecondPass /\ InFrom(a) /\ rem'[a] /\ ~rem[a])
    BY <1>1, <1>4, <1>6 DEF Usable, SecondPass, InFrom
  <2>2. Usable(a)
    BY <2>1 DEF NoCopy, GcInv, Control
  <2>3. id[a] \in Addrs /\ \A g \in Fields : Refers(fld[a][g], graph[id[a]][g])
    BY <1>4, <1>6, <2>2 DEF GcInv, Contents
  <2>4. ASSUME NEW g \in Fields
        PROVE  Refers(fld[a][g], graph[id[a]][g])'
    <3>1. CASE pc # "roots" /\ a = CurBlock /\ g = f
      BY <1>1, <1>2, <1>3, <1>4, <3>1 DEF CurRef
    <3>2. CASE ~(pc # "roots" /\ a = CurBlock /\ g = f)
      BY <1>2, <1>3, <1>4, <2>3, <3>2
    <3>3. QED
      BY <3>1, <3>2
  <2>5. QED
    BY <1>4, <2>3, <2>4
<1>7. QED
  BY <1>5, <1>6 DEF Contents

LEMMA NoCopyForwards ==
  ASSUME TypeOK, TypeOK', GcInv, NEW nv \in Values, NoCopy(nv)
  PROVE  Forwards'
<1>1. /\ Growth
      /\ \A a \in Addrs : Allocated(a)' <=> Allocated(a)
  BY NoCopyFacts
<1>2. \A a \in Addrs, g \in Fields :
        fld'[a][g] = IF pc # "roots" /\ a = CurBlock /\ g = f THEN nv
                     ELSE fld[a][g]
  BY NoCopySlot
<1>3. UNCHANGED <<fwd, id, survived, full_gc>>
  BY DEF NoCopy
<1>4. ASSUME NEW a \in Addrs, Allocated(a), fwd[a]
      PROVE  fld'[a][1] = fld[a][1]
  <2>1. pc # "roots" => a # CurBlock
    BY <1>4, CurFacts DEF NoCopy
  <2>2. 1 \in Fields
    BY ShapeAssumption DEF Fields
  <2>3. QED
    BY <1>2, <2>1, <2>2
<1>5. QED
  BY <1>1, <1>3, <1>4 DEF GcInv, Forwards, InFrom, future_survived

LEMMA NoCopyBits ==
  ASSUME TypeOK, TypeOK', GcInv, NEW nv \in Values, NoCopy(nv)
  PROVE  Bits' /\ Listed'
<1>1. \A a \in Addrs : Allocated(a)' <=> Allocated(a)
  BY NoCopyFacts
<1>2. /\ UNCHANGED <<fwd, gen, survived, full_gc>>
      /\ \A a \in Addrs : rem[a] => rem'[a]
      /\ \A a \in Addrs : rem'[a] /\ ~rem[a] =>
           /\ ~fwd[a]
           /\ InSpace("old", a) \/ (InFrom(a) /\ gen[a] = PromoteGen)
      /\ \/ remembered' = remembered
         \/ /\ remembered' = Append(remembered, CurValue)
            /\ CurValue \in Addrs /\ full_gc /\ rem'[CurValue]
      /\ AtSlot
  BY DEF NoCopy
<1>3. Bits'
  BY <1>1, <1>2 DEF GcInv, Bits, InFrom
<1>4. ASSUME NEW a \in Addrs, Must(a)
      PROVE  Must(a)'
  BY <1>1, <1>2, <1>4 DEF Must
<1>5. PICK v : v = CurValue
  OBVIOUS
<1>6. ASSUME NEW j \in 1..Len(remembered)
      PROVE  \E a \in Addrs : a = remembered[j] /\ Must(a) /\ Must(a)'
  <2>1. remembered[j] \in Addrs
    BY DEF TypeOK
  <2>2. Must(remembered[j])
    BY DEF GcInv, Listed
  <2>3. QED
    BY <1>4, <2>1, <2>2
<1>7. CASE remembered' = remembered
  BY <1>3, <1>6, <1>7 DEF Listed, Must, Allocated
<1>8. CASE /\ remembered' = Append(remembered, v)
           /\ v \in Addrs /\ full_gc /\ rem'[v]
  <2>1. v # 0
    BY <1>8, Layout DEF Addrs
  <2>2. Allocated(v)'
    BY <1>1, <1>2, <1>5, <1>8, <2>1, CurFacts
  <2>3. Must(v)'
    BY <1>2, <1>8, <2>2 DEF Must
  <2>4. ASSUME NEW j \in 1..Len(remembered')
        PROVE  \E a \in Addrs : a = remembered'[j] /\ Must(a)'
    <3>1. remembered \in Seq(Addrs) /\ remembered' = Append(remembered, v)
      BY <1>8 DEF TypeOK
    <3>2. CASE j = Len(remembered) + 1
      BY <1>8, <2>3, <3>1, <3>2
    <3>3. CASE j # Len(remembered) + 1
      <4>1. j \in 1..Len(remembered) /\ remembered'[j] = remembered[j]
        BY <3>1, <3>3
      <4>2. QED
        BY <1>6, <4>1
    <3>4. QED
      BY <3>2, <3>3
  <2>5. QED
    BY <1>3, <2>4 DEF Listed, Must, Allocated
<1>9. QED
  BY <1>2, <1>3, <1>5, <1>7, <1>8

LEMMA NoCopyControl ==
  ASSUME TypeOK, TypeOK', GcInv, NEW nv \in Values, NoCopy(nv)
  PROVE  Control'
<1>1. UNCHANGED <<blocks, survived, full_gc, old_map, pc>> /\ AtSlot
  BY DEF NoCopy
<1>2. cont' = IF pc = "refs" /\ f >= NFields THEN cont + 1 ELSE cont
  BY ShapeAssumption DEF NoCopy, NextSlot, MoreWords, AtSlot, TypeOK, RegsType, Fields
<1>3. future_survived' = future_survived
  BY <1>1 DEF future_survived
<1>4. cont' <= blocks'[future_survived']
  BY <1>1, <1>2, <1>3, SpaceNames
     DEF GcInv, Control, AtSlot, TypeOK, RegsType, BlocksType
<1>5. pc \notin {"gc_old", "finish"}
  BY <1>1 DEF AtSlot
<1>6. QED
  BY <1>1, <1>2, <1>4, <1>5 DEF GcInv, Control, SecondPass

\* Where the loops are after a visit, and so what they have passed.
LEMMA Progress ==
  ASSUME TypeOK, AtSlot, NextSlot, pc' = pc
  PROVE  /\ pc = "roots" => k' = k + 1 /\ f' = 1 /\ cont' = cont
         /\ pc # "roots" /\ f < NFields => f' = f + 1 /\ k' = k /\ cont' = cont
         /\ pc # "roots" /\ ~(f < NFields) =>
              /\ f = NFields /\ f' = 1
              /\ k' = IF pc = "refs" THEN k ELSE k + 1
              /\ cont' = IF pc = "refs" THEN cont + 1 ELSE cont
BY ShapeAssumption DEF NextSlot, MoreWords, AtSlot, TypeOK, RegsType, Fields

\* What a pass has to scan holds words that it can trust.
LEMMA MustUsable ==
  ASSUME TypeOK, Control, Forwards, Bits, NEW a \in Addrs, Must(a)
  PROVE  Usable(a) /\ ~fwd[a]
<1>1. CASE full_gc
  BY <1>1 DEF Must, Bits, Control, Usable
<1>2. CASE ~full_gc
  <2>1. Allocated(a) /\ InSpace("old", a)
    BY <1>2 DEF Must
  <2>2. ~InFrom(a)
    BY <2>1, Parts DEF TypeOK
  <2>3. QED
    BY <2>1, <2>2 DEF Usable, Forwards
<1>3. QED
  BY <1>1, <1>2

\* A visit of heap_mark, as the loops see it: the slot gets a visited value, no
\* word of a block that has not moved changes otherwise, and what has to be
\* scanned from now on is put on the list.
Visit(nv) ==
  /\ AtSlot /\ NextSlot /\ UNCHANGED pc
  /\ Growth
  /\ Visited(nv)'
  /\ \A r \in Roots : roots'[r] = IF pc = "roots" /\ r = k THEN nv ELSE roots[r]
  /\ \A a \in Addrs, g \in Fields : Allocated(a) /\ ~fwd'[a] =>
       fld'[a][g] = IF pc # "roots" /\ a = CurBlock /\ g = f THEN nv
                    ELSE fld[a][g]
  /\ pc # "roots" => ~fwd'[CurBlock]
  /\ remembered' = remembered \/ \E v : remembered' = Append(remembered, v)
  /\ \A a \in Addrs : Must(a)' /\ ~Must(a) => remembered' = Append(remembered, a)

LEMMA VisitScanned ==
  ASSUME TypeOK, TypeOK', GcInv, Control', Forwards', Bits',
         NEW nv \in Values, Visit(nv)
  PROVE  Scanned'
<1>1. /\ Growth /\ Visited(nv)'
      /\ AtSlot /\ NextSlot /\ pc' = pc
      /\ UNCHANGED <<survived, full_gc>>
  BY DEF Visit, Growth
<1>2. /\ \A r \in Roots : roots'[r] = IF pc = "roots" /\ r = k THEN nv
                                      ELSE roots[r]
      /\ \A a \in Addrs, g \in Fields : Allocated(a) /\ ~fwd'[a] =>
           fld'[a][g] = IF pc # "roots" /\ a = CurBlock /\ g = f THEN nv
                        ELSE fld[a][g]
  BY DEF Visit
<1>3. AtSlot /\ NextSlot /\ pc' = pc /\ UNCHANGED <<survived, full_gc>>
  BY <1>1
<1>4. future_survived' = future_survived
  BY <1>3 DEF future_survived
<1>5. ASSUME NEW x, Visited(x), x = 0 \/ (x \in Addrs /\ Allocated(x))
      PROVE  Visited(x)'
  BY <1>1, <1>5, Stable
<1>6. ASSUME NEW r \in Roots, pc' = "roots" => r < k'
      PROVE  Visited(roots[r])'
  <2>1. CASE pc = "roots" /\ r = k
    BY <1>1, <1>2, <2>1 DEF Visited, future_survived
  <2>2. CASE ~(pc = "roots" /\ r = k)
    <3>1. pc = "roots" => r < k
      BY <1>3, <1>6, <2>2, Progress DEF Roots, TypeOK, RegsType
    <3>2. PICK x : x = roots[r]
      OBVIOUS
    <3>3. Visited(x) /\ Refers(x, groots[r])
      BY <3>1, <3>2 DEF GcInv, Scanned, Contents
    <3>4. Visited(x)'
      BY <1>5, <3>3 DEF Refers, Usable
    <3>5. roots'[r] = x
      BY <1>2, <2>2, <3>2
    <3>6. QED
      BY <3>4, <3>5 DEF Visited, future_survived
  <2>3. QED
    BY <2>1, <2>2
\* Words that were visited before, in blocks that hold what they held.
<1>7. ASSUME NEW a \in Addrs, NEW g \in Fields, Visited(fld[a][g]),
             Usable(a), ~fwd[a], ~fwd'[a]
      PROVE  Visited(fld[a][g])'
  <2>1. PICK x : x = fld[a][g]
    OBVIOUS
  <2>2. Visited(x)'
    <3>1. Refers(x, graph[id[a]][g])
      BY <1>7, <2>1 DEF GcInv, Contents
    <3>2. QED
      BY <1>5, <1>7, <2>1, <3>1 DEF Refers, Usable
  <2>3. PICK y : y = fld'[a][g]
    OBVIOUS
  <2>4. y = x \/ y = nv
    BY <1>2, <1>7, <2>1, <2>3 DEF Usable
  <2>5. Visited(y)'
    BY <1>1, <2>2, <2>4
  <2>6. QED
    BY <2>3, <2>5 DEF Visited, future_survived
<1>8. PICK b : b = CurBlock
  OBVIOUS
<1>9. ASSUME pc # "roots", NEW g \in Fields, g <= f
      PROVE  Visited(fld[b][g])'
  <2>1. b \in Addrs /\ Usable(b) /\ ~fwd[b] /\ ~fwd'[b]
    BY <1>3, <1>8, <1>9, CurFacts DEF Visit
  <2>2. CASE g < f
    <3>1. Visited(fld[b][g])
      BY <1>8, <2>2 DEF GcInv, Scanned
    <3>2. QED
      BY <1>7, <2>1, <3>1
  <2>3. CASE g = f
    <3>1. fld'[b][g] = nv
      BY <1>2, <1>8, <1>9, <2>1, <2>3 DEF Usable
    <3>2. QED
      BY <1>1, <3>1 DEF Visited, future_survived
  <2>4. QED
    BY <1>9, <2>2, <2>3 DEF TypeOK, RegsType, Fields
<1>10. ASSUME NEW i \in 1..cont', NEW g \in Fields
       PROVE  Visited(fld[At(future_survived, i)][g])'
  <2>1. CASE i \in 1..cont
    <3>1. PICK a : a = At(future_survived, i)
      OBVIOUS
    <3>2. i \in 1..blocks[future_survived] /\ future_survived \in Spaces
      BY <2>1, SpaceNames DEF GcInv, Control, TypeOK, RegsType, BlocksType
    <3>3. a \in Addrs /\ InSpace(future_survived, a) /\ Allocated(a)
      BY <3>1, <3>2, AllocatedAt DEF TypeOK
    <3>4. Usable(a) /\ ~fwd[a]
      BY <3>3, Parts DEF TypeOK, Usable, GcInv, Forwards
    <3>5. ~fwd'[a]
      BY <1>1, <3>3, Parts, Stable DEF TypeOK, Forwards
    <3>6. Visited(fld[a][g])
      BY <2>1, <3>1 DEF GcInv, Scanned
    <3>7. Visited(fld[a][g])'
      BY <1>7, <3>3, <3>4, <3>5, <3>6
    <3>8. At(future_survived, i)' = a
      BY <1>4, <3>1 DEF At
    <3>9. QED
      BY <3>7, <3>8 DEF Visited, future_survived
  <2>2. CASE i \notin 1..cont
    <3>1. pc = "refs" /\ f = NFields /\ i = cont + 1
      BY <1>3, <2>2, Progress DEF TypeOK, RegsType
    <3>2. b = At(future_survived, i)
      BY <1>8, <3>1 DEF CurBlock
    <3>3. Visited(fld[b][g])'
      BY <1>9, <3>1 DEF Fields
    <3>4. At(future_survived, i)' = b
      BY <1>4, <3>2 DEF At
    <3>5. QED
      BY <3>3, <3>4 DEF Visited, future_survived
  <2>3. QED
    BY <2>1, <2>2
<1>11. /\ \A j \in 1..Len(remembered) :
            j \in 1..Len(remembered') /\ remembered'[j] = remembered[j]
       /\ Len(remembered) \in Nat
  <2>1. remembered' = remembered \/ \E v : remembered' = Append(remembered, v)
    BY DEF Visit
  <2>2. remembered \in Seq(Addrs)
    BY DEF TypeOK
  <2>3. QED
    BY <2>1, <2>2
<1>12. ASSUME NEW g \in Fields, g < f'
       PROVE  (AtSlot /\ pc # "roots" /\ Visited(fld[CurBlock][g]))'
  <2>1. pc # "roots" /\ f' = f + 1 /\ k' = k /\ cont' = cont
    BY <1>3, <1>12, Progress DEF Fields, TypeOK, RegsType
  <2>2. AtSlot'
    <3>1. pc = "rem" => k \in 1..Len(remembered) /\ k \in 1..Len(remembered')
      BY <1>3, <1>11 DEF AtSlot, TypeOK, RegsType
    <3>2. blocks[future_survived] <= blocks'[future_survived]
          /\ blocks["old"] <= blocks'["old"]
      BY <1>1, SpaceNames DEF Growth, Spaces, TypeOK
    <3>3. CASE pc = "old"
      <4>1. blocks["old"] \in Nat /\ blocks'["old"] \in Nat /\ k \in Nat
        BY DEF TypeOK, BlocksType, RegsType, Spaces
      <4>2. QED
        BY <1>3, <2>1, <3>2, <3>3, <4>1 DEF AtSlot
    <3>4. CASE pc = "refs"
      <4>1. /\ blocks[future_survived] \in Nat /\ cont \in Nat
            /\ blocks'[future_survived] \in Nat
        BY SpaceNames DEF TypeOK, BlocksType, RegsType
      <4>2. cont' < blocks'[future_survived']
        BY <1>3, <1>4, <2>1, <3>2, <3>4, <4>1 DEF AtSlot
      <4>3. QED
        BY <1>3, <3>4, <4>2 DEF AtSlot
    <3>5. CASE pc = "rem"
      BY <1>3, <1>11, <2>1, <3>1, <3>5 DEF AtSlot
    <3>6. QED
      BY <1>3, <2>1, <3>3, <3>4, <3>5 DEF AtSlot
  <2>3. CurBlock' = b
    <3>1. CASE pc = "rem"
      <4>1. k \in 1..Len(remembered)
        BY <1>3, <3>1 DEF AtSlot, TypeOK, RegsType
      <4>2. remembered'[k'] = remembered[k]
        BY <1>11, <2>1, <4>1
      <4>3. QED
        BY <1>3, <1>8, <3>1, <4>2 DEF CurBlock
    <3>2. CASE pc = "old"
      BY <1>3, <1>8, <2>1, <3>2 DEF CurBlock, At
    <3>3. CASE pc = "refs"
      <4>1. b = Low(future_survived) + (cont + 1)
        BY <1>8, <3>3 DEF CurBlock, At
      <4>2. CurBlock' = Low(future_survived') + (cont' + 1)
        BY <1>3, <3>3 DEF CurBlock, At
      <4>3. QED
        BY <1>4, <2>1, <4>1, <4>2
    <3>4. QED
      BY <1>3, <2>1, <3>1, <3>2, <3>3 DEF AtSlot
  <2>4. g <= f
    BY <1>12, <2>1 DEF TypeOK, RegsType, Fields
  <2>5. Visited(fld[b][g])'
    BY <1>9, <2>1, <2>4
  <2>6. QED
    BY <1>3, <2>1, <2>2, <2>3, <2>5 DEF Visited, future_survived
\* What this pass has to scan, and no loop has still to finish.
<1>13. ASSUME NEW a \in Addrs, Must(a)', ~Waiting(a)', NEW g \in Fields
       PROVE  Visited(fld[a][g])'
  <2>1. Must(a)
    <3>1. SUFFICES ASSUME ~Must(a)
                   PROVE  Waiting(a)'
      BY <1>13
    <3>3. remembered' = Append(remembered, a)
      BY <1>13, <3>1 DEF Visit
    <3>4. Len(remembered) + 1 \in 1..Len(remembered')
          /\ remembered'[Len(remembered) + 1] = a
      BY <1>11, <3>3 DEF TypeOK
    <3>5. pc' = "rem" => Len(remembered) + 1 >= k'
      BY <1>3, <1>11, Progress DEF AtSlot, TypeOK, RegsType
    <3>6. QED
      BY <3>4, <3>5 DEF Waiting
  <2>2. Usable(a) /\ ~fwd[a] /\ ~fwd'[a]
    <3>1. Usable(a) /\ ~fwd[a]
      BY <2>1, MustUsable DEF GcInv
    <3>2. (full_gc' => rem'[a]) /\ Allocated(a)'
          /\ (~full_gc' => InSpace("old", a))
      BY <1>13 DEF Must
    <3>3. ~full_gc' => ~InFrom(a)'
      BY <1>1, <3>2, Parts, Stable DEF TypeOK
    <3>4. QED
      BY <3>1, <3>2, <3>3 DEF Bits, Forwards
  <2>3. CASE ~Waiting(a)
    BY <1>7, <2>1, <2>2, <2>3 DEF GcInv, Scanned
  <2>4. CASE Waiting(a)
    <3>1. a = b /\ pc # "roots" /\ f = NFields
      <4>1. CASE \E j \in 1..Len(remembered) :
                   remembered[j] = a /\ (pc = "rem" => j >= k)
        <5>1. PICK j \in 1..Len(remembered) :
                     remembered[j] = a /\ (pc = "rem" => j >= k)
          BY <4>1
        <5>2. j \in 1..Len(remembered') /\ remembered'[j] = a
          BY <1>11, <5>1
        <5>3. pc = "rem" /\ ~(j >= k')
          BY <1>3, <1>13, <5>2 DEF Waiting
        <5>4. j = k /\ f = NFields
          BY <1>3, <5>1, <5>3, Progress DEF TypeOK, RegsType
        <5>5. QED
          BY <1>8, <5>1, <5>3, <5>4 DEF CurBlock
      <4>2. CASE ~full_gc /\ pc = "roots" /\ InSpace("old", a)
        BY <1>3, <1>13, <4>2 DEF Waiting
      <4>3. CASE ~full_gc /\ pc = "old" /\ InSpace("old", a)
                 /\ a >= At("old", k)
        <5>1. ~(a >= At("old", k'))
          BY <1>3, <1>13, <4>3 DEF Waiting, At
        <5>2. k' # k
          BY <4>3, <5>1
        <5>3. k' = k + 1 /\ f = NFields
          BY <1>3, <4>3, <5>2, Progress
        <5>4. Low("old") \in Int /\ k \in Int /\ a \in Int
          BY Layout DEF TypeOK, RegsType, Addrs, Spaces
        <5>5. a = At("old", k)
          BY <4>3, <5>1, <5>3, <5>4 DEF At
        <5>6. QED
          BY <1>8, <4>3, <5>3, <5>5 DEF CurBlock
      <4>4. QED
        BY <2>4, <4>1, <4>2, <4>3 DEF Waiting
    <3>2. QED
      BY <1>9, <3>1 DEF Fields
  <2>5. QED
    BY <2>3, <2>4
<1>14. QED
  BY <1>6, <1>10, <1>12, <1>13 DEF Scanned

LEMMA NoCopyVisit ==
  ASSUME TypeOK, TypeOK', GcInv, NEW nv \in Values, NoCopy(nv)
  PROVE  Visit(nv)
<1>1. /\ Growth /\ Visited(nv)'
      /\ \A a \in Addrs : Allocated(a)' <=> Allocated(a)
  BY NoCopyFacts
<1>2. /\ \A r \in Roots : roots'[r] = IF pc = "roots" /\ r = k THEN nv
                                      ELSE roots[r]
      /\ \A a \in Addrs, g \in Fields :
           fld'[a][g] = IF pc # "roots" /\ a = CurBlock /\ g = f THEN nv
                        ELSE fld[a][g]
  BY NoCopySlot
<1>3. AtSlot /\ NextSlot /\ UNCHANGED <<fwd, pc, full_gc>>
  BY DEF NoCopy
<1>4. pc # "roots" => ~fwd'[CurBlock]
  BY <1>3, CurFacts
<1>5. remembered' = remembered \/ \E v : remembered' = Append(remembered, v)
  BY DEF NoCopy
<1>6. ASSUME NEW a \in Addrs, Must(a)', ~Must(a)
      PROVE  remembered' = Append(remembered, a)
  <2>1. rem'[a] /\ ~rem[a]
    BY <1>1, <1>3, <1>6 DEF Must
  <2>2. QED
    BY <2>1 DEF NoCopy
<1>7. QED
  BY <1>1, <1>2, <1>3, <1>4, <1>5, <1>6 DEF Visit

LEMMA NoCopyStep ==
  ASSUME TypeOK, TypeOK', GcInv, NEW nv \in Values, NoCopy(nv)
  PROVE  GcInv'
<1>1. Contents' /\ Forwards' /\ Bits' /\ Listed' /\ Control'
  BY NoCopyContents, NoCopyForwards, NoCopyBits, NoCopyControl
<1>2. Scanned'
  BY <1>1, NoCopyVisit, VisitScanned
<1>3. QED
  BY <1>1, <1>2 DEF GcInv

\* The five cases of heap_mark that copy nothing are such visits.
LEMMA NoCopyCases ==
  ASSUME TypeOK, TypeOK', GcInv,
         MarkSkip \/ MarkReached \/ MarkOld \/ MarkForwarded \/ MarkPostpone
  PROVE  \E nv \in Values : NoCopy(nv)
<1>1. AtSlot /\ NextSlot
      /\ UNCHANGED <<fwd, gen, id, blocks, survived, full_gc, old_map, pc, graph,
                     groots>>
  BY DEF MarkSkip, MarkReached, MarkOld, MarkForwarded, MarkPostpone, mem, heap,
         hdrs, ghost
<1>2. PICK v : v = CurValue
  OBVIOUS
<1>3. /\ v \in Values
      /\ v # 0 => v \in Addrs /\ Allocated(v)
  BY <1>1, <1>2, SlotType, CurFacts
<1>4. ~InSpace("old", 0) /\ ~InFrom(0)
  BY Layout, SpaceNames DEF InSpace, InFrom, Spaces, TypeOK
<1>5. future_survived' = future_survived
  BY <1>1 DEF future_survived
<1>6. ASSUME UNCHANGED <<fld, roots>>
      PROVE  PutSlot(fld, v)
  BY <1>1, <1>2, <1>6, SameSlot
<1>7. InSpace("old", v) => ~fwd[v]
  BY <1>3, <1>4, Parts DEF TypeOK, GcInv, Forwards
<1>8. CASE MarkSkip
  <2>1. UNCHANGED <<fld, roots, rem, remembered>>
    BY <1>8 DEF MarkSkip, mem, hdrs, heap
  <2>2. Visited(v)'
    BY <1>2, <1>5, <1>8 DEF MarkSkip, Visited
  <2>3. QED
    BY <1>1, <1>2, <1>3, <1>6, <2>1, <2>2 DEF NoCopy
<1>9. CASE MarkReached
  <2>1. /\ UNCHANGED <<fld, roots>>
        /\ InSpace("old", v) /\ full_gc /\ ~rem[v]
        /\ rem' = [rem EXCEPT ![v] = TRUE]
        /\ remembered' = Append(remembered, v)
    BY <1>2, <1>9 DEF MarkReached
  <2>2. v \in Addrs
    BY <1>3, <1>4, <2>1
  <2>3. rem'[v] /\ \A a \in Addrs : a # v => rem'[a] = rem[a]
    BY <2>1, <2>2 DEF TypeOK, MemType
  <2>4. Visited(v)'
    BY <1>1, <2>1, <2>3 DEF Visited
  <2>5. QED
    BY <1>1, <1>2, <1>3, <1>6, <1>7, <2>1, <2>2, <2>3, <2>4 DEF NoCopy
<1>10. CASE MarkOld
  <2>1. /\ PutSlot(fld, OldMapped(v)) /\ UNCHANGED <<rem, remembered>>
        /\ InSpace("old", v) /\ ~(full_gc /\ ~rem[v])
    BY <1>2, <1>10 DEF MarkOld, hdrs, heap
  <2>2. OldMapped(v) = v
    BY DEF OldMapped, GcInv, Control, SecondPass
  <2>3. Visited(v)'
    BY <1>1, <2>1 DEF Visited
  <2>4. QED
    BY <1>1, <1>2, <1>3, <2>1, <2>2, <2>3 DEF NoCopy
<1>11. CASE MarkForwarded
  <2>1. /\ PutSlot(fld, fld[v][1]) /\ UNCHANGED <<rem, remembered>>
        /\ InFrom(v) /\ fwd[v]
    BY <1>2, <1>11 DEF MarkForwarded, hdrs, heap
  <2>2. PICK n : n = fld[v][1]
    OBVIOUS
  <2>3. v \in Addrs /\ Allocated(v)
    BY <1>3, <1>4, <2>1
  <2>4. /\ n \in Addrs /\ Allocated(n) /\ id[n] = id[v]
        /\ \/ InSpace(future_survived, n)
           \/ ~full_gc /\ InSpace("old", n)
    BY <2>1, <2>2, <2>3 DEF GcInv, Forwards
  <2>5. Usable(n)
    BY <2>4, Parts DEF Usable, TypeOK
  <2>6. Refers(v, CurRef) => Refers(n, CurRef)
    BY <2>3, <2>4, <2>5, Layout DEF Refers, Addrs
  <2>7. Visited(n)'
    BY <1>1, <1>5, <2>4 DEF Visited
  <2>8. n \in Values
    BY <2>4 DEF Values, Addrs
  <2>9. QED
    BY <1>1, <1>2, <2>1, <2>2, <2>6, <2>7, <2>8 DEF NoCopy
<1>12. CASE MarkPostpone
  <2>1. /\ UNCHANGED <<fld, roots>>
        /\ Ripe(v) /\ full_gc
        /\ rem' = [rem EXCEPT ![v] = TRUE]
        /\ rem[v] => remembered' = remembered
        /\ ~rem[v] => remembered' = Append(remembered, v)
    BY <1>2, <1>12 DEF MarkPostpone
  <2>2. v \in Addrs /\ InFrom(v) /\ ~fwd[v] /\ gen[v] = PromoteGen
    BY <1>3, <1>4, <2>1 DEF Ripe
  <2>3. rem'[v] /\ \A a \in Addrs : a # v => rem'[a] = rem[a]
    BY <2>1, <2>2 DEF TypeOK, MemType
  <2>4. Visited(v)'
    BY <1>1, <2>1, <2>3 DEF Visited
  <2>5. QED
    BY <1>1, <1>2, <1>3, <1>6, <2>1, <2>2, <2>3, <2>4 DEF NoCopy
<1>13. QED
  BY <1>8, <1>9, <1>10, <1>11, <1>12

-----------------------------------------------------------------------------
(* The visits of heap_mark that copy an object. *)

\* The effect of copying the object at v, which is in the slot, to p.
Copying(v, p) ==
  /\ AtSlot /\ NextSlot
  /\ v = CurValue
  /\ v \in Addrs /\ InFrom(v) /\ ~fwd[v] /\ (full_gc => ~rem[v])
  /\ p \in Addrs /\ ~Allocated(p)
  /\ \A a \in Addrs : Allocated(a)' <=> Allocated(a) \/ a = p
  /\ \A s \in Spaces : blocks[s] <= blocks'[s]
  /\ \/ InSpace(future_survived, p) /\ ~rem[v] /\ remembered' = remembered
     \/ InSpace("old", p) /\ ~full_gc /\ remembered' = Append(remembered, p)
  /\ \A a \in Addrs : fwd'[a] <=> a = v \/ (fwd[a] /\ a # p)
  /\ \A a \in Addrs : id'[a] = IF a = p THEN id[v] ELSE id[a]
  /\ \A a \in Addrs : rem'[a] <=> IF a = p THEN rem[v] ELSE rem[a] /\ a # v
  /\ \A a \in Addrs : a # p => gen'[a] = gen[a]
  /\ PutSlot([fld EXCEPT ![p] = fld[v], ![v][1] = p], p)
  /\ UNCHANGED <<survived, full_gc, old_map, pc, graph, groots>>

\* The object and its copy.
LEMMA CopyBlocks ==
  ASSUME TypeOK, TypeOK', GcInv, NEW v, NEW p, Copying(v, p)
  PROVE  /\ Usable(v) /\ id[v] = CurRef /\ CurRef # 0 /\ p # v
         /\ ~InFrom(p)
         /\ pc # "roots" => CurBlock # p /\ CurBlock # v /\ ~fwd'[CurBlock]
<1>1. v \in Addrs /\ p \in Addrs /\ v # 0
  BY Layout DEF Copying, Addrs
<1>2. Refers(v, CurRef) /\ Allocated(v)
  BY <1>1, CurFacts DEF Copying
<1>3. Usable(v) /\ id[v] = CurRef /\ CurRef # 0
  BY <1>1, <1>2 DEF Refers
<1>4. p # v
  BY <1>2 DEF Copying
<1>5. ~InFrom(p)
  BY <1>1, Parts DEF TypeOK, Copying
<1>6. ASSUME pc # "roots"
      PROVE  CurBlock # p /\ CurBlock # v /\ ~fwd'[CurBlock]
  <2>1. /\ CurBlock \in Addrs /\ Allocated(CurBlock) /\ ~fwd[CurBlock]
        /\ InFrom(CurBlock) => full_gc /\ rem[CurBlock]
    BY <1>6, CurFacts DEF Copying, Usable
  <2>2. CurBlock # p /\ CurBlock # v
    BY <2>1 DEF Copying
  <2>3. QED
    BY <2>1, <2>2 DEF Copying
<1>7. QED
  BY <1>3, <1>4, <1>5, <1>6

\* What copying does to every word.
LEMMA CopyWords ==
  ASSUME TypeOK, TypeOK', GcInv, NEW v, NEW p, Copying(v, p)
  PROVE  /\ \A r \in Roots : roots'[r] = IF pc = "roots" /\ r = k THEN p
                                         ELSE roots[r]
         /\ \A g \in Fields : fld'[p][g] = fld[v][g]
         /\ pc = "roots" \/ CurBlock # v => fld'[v][1] = p
         /\ \A a \in Addrs, g \in Fields : a # v /\ a # p =>
              fld'[a][g] = IF pc # "roots" /\ a = CurBlock /\ g = f THEN p
                           ELSE fld[a][g]
<1>1. /\ v \in Addrs /\ p \in Addrs /\ p # v /\ 1 \in Fields
      /\ pc # "roots" => CurBlock # p /\ CurBlock # v
  BY CopyBlocks, ShapeAssumption DEF Copying, Fields
<1>2. PICK w : w = [fld EXCEPT ![p] = fld[v], ![v][1] = p]
  OBVIOUS
<1>3. p \in Values /\ fld \in [Addrs -> [Fields -> Values]]
  BY <1>1 DEF TypeOK, MemType, Values, Addrs
<1>4. w \in [Addrs -> [Fields -> Values]]
  BY <1>1, <1>2, <1>3
<1>5. /\ \A g \in Fields : w[p][g] = fld[v][g]
      /\ w[v][1] = p
      /\ \A a \in Addrs : a # v /\ a # p => w[a] = fld[a]
  BY <1>1, <1>2, <1>3
<1>6. AtSlot /\ PutSlot(w, p)
  BY <1>2 DEF Copying
<1>7. /\ \A r \in Roots : roots'[r] = IF pc = "roots" /\ r = k THEN p
                                      ELSE roots[r]
      /\ \A a \in Addrs, g \in Fields :
           fld'[a][g] = IF pc # "roots" /\ a = CurBlock /\ g = f THEN p
                        ELSE w[a][g]
  BY <1>3, <1>4, <1>6, SlotEffect
<1>8. QED
  BY <1>1, <1>5, <1>7

\* Copying undoes nothing, and the slot then leads to the copy.
LEMMA CopyFacts ==
  ASSUME TypeOK, TypeOK', GcInv, NEW v, NEW p, Copying(v, p)
  PROVE  /\ Growth
         /\ \A i : i = CurRef => Refers(p, i)'
         /\ Visited(p)'
<1>1. Growth
  <2>1. ASSUME NEW a \in Addrs, Allocated(a)
        PROVE  /\ id'[a] = id[a]
               /\ fwd[a] => fwd'[a]
               /\ rem[a] => rem'[a] \/ (fwd'[a] /\ ~full_gc)
    BY <2>1 DEF Copying
  <2>2. QED
    BY <2>1 DEF Growth, Copying
<1>2. future_survived' = future_survived
  BY DEF Copying, future_survived
<1>3. /\ p \in Addrs /\ Allocated(p)' /\ id'[p] = CurRef /\ CurRef # 0
      /\ ~InFrom(p)'
  BY <1>1, CopyBlocks, Stable DEF Copying
<1>4. ASSUME NEW i, i = CurRef
      PROVE  Refers(p, i)'
  BY <1>3, <1>4 DEF Refers, Usable
<1>5. Visited(p)'
  BY <1>2 DEF Copying, Visited
<1>6. QED
  BY <1>1, <1>4, <1>5

LEMMA CopyContents ==
  ASSUME TypeOK, TypeOK', GcInv, NEW v, NEW p, Copying(v, p)
  PROVE  Contents'
<1>1. Growth /\ (\A i : i = CurRef => Refers(p, i)')
  BY CopyFacts
<1>2. \A x, i : Refers(x, i) => Refers(x, i)'
  BY <1>1, Stable
<1>3. /\ \A r \in Roots : roots'[r] = IF pc = "roots" /\ r = k THEN p
                                      ELSE roots[r]
      /\ \A g \in Fields : fld'[p][g] = fld[v][g]
      /\ \A a \in Addrs, g \in Fields : a # v /\ a # p =>
           fld'[a][g] = IF pc # "roots" /\ a = CurBlock /\ g = f THEN p
                        ELSE fld[a][g]
  BY CopyWords
<1>4. UNCHANGED <<survived, old_map, graph, groots>>
  BY DEF Copying
<1>5. ASSUME NEW r \in Roots
      PROVE  Refers(roots[r], groots[r])'
  <2>1. Refers(roots[r], groots[r])
    BY DEF GcInv, Contents
  <2>2. CASE pc = "roots" /\ r = k
    <3>1. groots'[r] = CurRef
      BY <1>4, <2>2 DEF CurRef
    <3>2. PICK i : i = CurRef
      OBVIOUS
    <3>3. Refers(p, i)'
      BY <1>1, <3>2
    <3>4. roots'[r] = p /\ groots'[r] = i
      BY <1>3, <2>2, <3>1, <3>2
    <3>5. QED
      BY <3>3, <3>4
  <2>3. CASE ~(pc = "roots" /\ r = k)
    BY <1>2, <1>3, <1>4, <2>1, <2>3
  <2>4. QED
    BY <2>2, <2>3
<1>6. ASSUME NEW a \in Addrs, Usable(a)', ~fwd'[a]
      PROVE  /\ id'[a] \in Addrs
             /\ \A g \in Fields : Refers(fld[a][g], graph[id[a]][g])'
  <2>1. CASE a = p
    <3>1. Usable(v) /\ ~fwd[v] /\ v \in Addrs
      BY CopyBlocks DEF Copying
    <3>2. /\ id[v] \in Addrs
          /\ \A g \in Fields : Refers(fld[v][g], graph[id[v]][g])
      BY <3>1 DEF GcInv, Contents
    <3>3. id'[a] = id[v]
      BY <2>1 DEF Copying
    <3>4. QED
      BY <1>2, <1>3, <1>4, <2>1, <3>2, <3>3
  <2>2. CASE a # p
    <3>1. a # v /\ ~fwd[a] /\ id'[a] = id[a] /\ (rem'[a] => rem[a])
          /\ Allocated(a)
      BY <1>6, <2>2 DEF Copying, Usable
    <3>2. Usable(a)
      BY <1>4, <1>6, <3>1 DEF Usable, SecondPass, InFrom
    <3>3. id[a] \in Addrs /\ \A g \in Fields : Refers(fld[a][g], graph[id[a]][g])
      BY <3>1, <3>2 DEF GcInv, Contents
    <3>4. ASSUME NEW g \in Fields
          PROVE  Refers(fld[a][g], graph[id[a]][g])'
      <4>1. CASE pc # "roots" /\ a = CurBlock /\ g = f
        <5>1. PICK i : i = CurRef
          OBVIOUS
        <5>2. Refers(p, i)'
          BY <1>1, <5>1
        <5>3. fld'[a][g] = p /\ graph'[id'[a]][g] = i
          BY <1>3, <1>4, <2>2, <3>1, <4>1, <5>1 DEF CurRef
        <5>4. QED
          BY <5>2, <5>3
      <4>2. CASE ~(pc # "roots" /\ a = CurBlock /\ g = f)
        BY <1>2, <1>3, <1>4, <2>2, <3>1, <3>3, <4>2
      <4>3. QED
        BY <4>1, <4>2
    <3>5. QED
      BY <3>1, <3>3, <3>4
  <2>3. QED
    BY <2>1, <2>2
<1>7. QED
  BY <1>5, <1>6 DEF Contents

LEMMA CopyForwards ==
  ASSUME TypeOK, TypeOK', GcInv, NEW v, NEW p, Copying(v, p)
  PROVE  Forwards'
<1>1. Growth
  BY CopyFacts
<1>2. /\ \A a \in Addrs : Allocated(a) => Allocated(a)'
      /\ \A a \in Addrs : InFrom(a)' <=> InFrom(a)
      /\ future_survived' = future_survived
  BY <1>1, Stable
<1>3. /\ v \in Addrs /\ p \in Addrs /\ p # v /\ 1 \in Fields
      /\ pc # "roots" => CurBlock # p /\ CurBlock # v /\ ~fwd[CurBlock]
  BY CopyBlocks, CurFacts, ShapeAssumption DEF Copying, Fields
<1>4. fld'[v][1] = p
  BY <1>3, CopyWords
<1>5. ASSUME NEW a \in Addrs, Allocated(a)', fwd'[a]
      PROVE  /\ InFrom(a)
             /\ fld'[a][1] \in Addrs
             /\ Allocated(fld[a][1])'
             /\ \/ InSpace(future_survived, fld'[a][1])
                \/ ~full_gc /\ InSpace("old", fld'[a][1])
             /\ id'[fld'[a][1]] = id'[a]
  <2>1. CASE a = v
    <3>1. Allocated(p)' /\ id'[p] = id'[v]
      BY <1>3 DEF Copying
    <3>2. InFrom(v) /\ (InSpace(future_survived, p) \/ (~full_gc /\ InSpace("old", p)))
      BY DEF Copying
    <3>3. fld'[a][1] = p
      BY <1>4, <2>1
    <3>4. Allocated(fld[a][1])'
      BY <3>1, <3>3
    <3>5. QED
      BY <1>3, <2>1, <3>1, <3>2, <3>3, <3>4
  <2>2. CASE a # v
    <3>1. fwd[a] /\ a # p /\ Allocated(a)
      BY <1>5, <2>2 DEF Copying
    <3>2. PICK n : n = fld[a][1]
      OBVIOUS
    <3>3. fld'[a][1] = n
      BY <1>3, <2>2, <3>1, <3>2, CopyWords
    <3>4. /\ InFrom(a) /\ n \in Addrs /\ Allocated(n)
          /\ \/ InSpace(future_survived, n)
             \/ ~full_gc /\ InSpace("old", n)
          /\ id[n] = id[a]
      BY <3>1, <3>2 DEF GcInv, Forwards
    <3>5. id'[n] = id[n] /\ id'[a] = id[a] /\ Allocated(n)'
      BY <1>2, <3>1, <3>4 DEF Copying
    <3>6. QED
      BY <3>3, <3>4, <3>5
  <2>3. QED
    BY <2>1, <2>2
<1>6. full_gc' = full_gc
  BY DEF Copying
<1>7. QED
  BY <1>2, <1>5, <1>6 DEF Forwards

LEMMA CopyBits ==
  ASSUME TypeOK, TypeOK', GcInv, NEW v, NEW p, Copying(v, p)
  PROVE  Bits' /\ Listed'
<1>1. Growth
  BY CopyFacts
<1>2. /\ \A a \in Addrs : Allocated(a) => Allocated(a)'
      /\ \A a \in Addrs : InFrom(a)' <=> InFrom(a)
  BY <1>1, Stable
<1>3. Bits'
  <2>1. ASSUME NEW a \in Addrs, Allocated(a)', rem'[a]
        PROVE  /\ ~fwd'[a]
               /\ InSpace("old", a) \/ (InFrom(a) /\ gen'[a] = PromoteGen)
    <3>1. CASE a = p
      BY <2>1, <3>1, CopyBlocks DEF Copying
    <3>2. CASE a # p
      BY <2>1, <3>2 DEF Copying, GcInv, Bits
    <3>3. QED
      BY <3>1, <3>2
  <2>2. QED
    BY <1>2, <2>1 DEF Bits
<1>4. ASSUME NEW a \in Addrs, Must(a)
      PROVE  Must(a)'
  <2>1. Allocated(a)' /\ full_gc' = full_gc
    BY <1>2, <1>4 DEF Must, Copying
  <2>2. full_gc => rem'[a]
    BY <1>4 DEF Must, Copying
  <2>3. QED
    BY <1>4, <2>1, <2>2 DEF Must
<1>5. Listed'
  <2>1. ASSUME NEW j \in 1..Len(remembered')
        PROVE  \E a \in Addrs : a = remembered'[j] /\ Must(a)'
    <3>1. CASE j \in 1..Len(remembered) /\ remembered'[j] = remembered[j]
      <4>1. PICK a \in Addrs : a = remembered[j]
        BY <3>1 DEF TypeOK
      <4>2. Must(a)
        BY <3>1, <4>1 DEF GcInv, Listed
      <4>3. QED
        BY <1>4, <3>1, <4>1, <4>2
    <3>2. CASE remembered' = Append(remembered, p) /\ j = Len(remembered) + 1
      <4>1. remembered'[j] = p
        BY <3>2 DEF TypeOK
      <4>2. remembered' # remembered
        BY <3>2 DEF TypeOK
      <4>3. p \in Addrs /\ Must(p)'
        BY <4>2 DEF Copying, Must
      <4>4. QED
        BY <4>1, <4>3
    <3>3. QED
      BY <3>1, <3>2 DEF Copying, TypeOK
  <2>2. QED
    BY <2>1 DEF Listed
<1>6. QED
  BY <1>3, <1>5

LEMMA CopyControl ==
  ASSUME TypeOK, TypeOK', GcInv, NEW v, NEW p, Copying(v, p)
  PROVE  Control'
<1>1. /\ UNCHANGED <<survived, full_gc, old_map, pc>> /\ AtSlot /\ NextSlot
      /\ \A s \in Spaces : blocks[s] <= blocks'[s]
  BY DEF Copying
<1>2. cont' = IF pc = "refs" /\ f >= NFields THEN cont + 1 ELSE cont
  BY <1>1, ShapeAssumption
     DEF NextSlot, MoreWords, AtSlot, TypeOK, RegsType, Fields
<1>3. future_survived' = future_survived
  BY <1>1 DEF future_survived
<1>4. cont' <= blocks'[future_survived']
  BY <1>1, <1>2, <1>3, SpaceNames
     DEF GcInv, Control, AtSlot, TypeOK, RegsType, BlocksType
<1>5. pc \notin {"gc_old", "finish"}
  BY <1>1 DEF AtSlot
<1>6. QED
  BY <1>1, <1>2, <1>4, <1>5 DEF GcInv, Control, SecondPass

LEMMA CopyVisit ==
  ASSUME TypeOK, TypeOK', GcInv, NEW v, NEW p, Copying(v, p)
  PROVE  Visit(p)
<1>1. Growth /\ Visited(p)'
  BY CopyFacts
<1>2. /\ \A r \in Roots : roots'[r] = IF pc = "roots" /\ r = k THEN p
                                      ELSE roots[r]
      /\ \A a \in Addrs, g \in Fields : a # v /\ a # p =>
           fld'[a][g] = IF pc # "roots" /\ a = CurBlock /\ g = f THEN p
                        ELSE fld[a][g]
  BY CopyWords
<1>3. ASSUME NEW a \in Addrs, Allocated(a), ~fwd'[a]
      PROVE  a # v /\ a # p
  BY <1>3 DEF Copying
<1>4. AtSlot /\ NextSlot /\ UNCHANGED <<pc, full_gc>>
  BY DEF Copying
<1>5. pc # "roots" => ~fwd'[CurBlock]
  BY CopyBlocks
<1>6. remembered' = remembered \/ \E x : remembered' = Append(remembered, x)
  BY DEF Copying
<1>7. ASSUME NEW a \in Addrs, Must(a)', ~Must(a)
      PROVE  remembered' = Append(remembered, a)
  <2>1. a = p
    BY <1>4, <1>7 DEF Must, Copying
  <2>2. QED
    BY <1>4, <1>7, <2>1, Parts DEF Must, Copying, TypeOK
<1>8. QED
  BY <1>1, <1>2, <1>3, <1>4, <1>5, <1>6, <1>7 DEF Visit

LEMMA CopyStep ==
  ASSUME TypeOK, TypeOK', GcInv, NEW v, NEW p, Copying(v, p)
  PROVE  GcInv'
<1>1. Contents' /\ Forwards' /\ Bits' /\ Listed' /\ Control'
  BY CopyContents, CopyForwards, CopyBits, CopyControl
<1>2. p \in Values
  BY DEF Copying, Values, Addrs
<1>3. Scanned'
  BY <1>1, <1>2, CopyVisit, VisitScanned
<1>4. QED
  BY <1>1, <1>3 DEF GcInv

\* space_put takes the next address of its space.
LEMMA NextBlock ==
  ASSUME BlocksType, BlocksType', NEW s \in Spaces, blocks[s] < Size(s),
         blocks' = [blocks EXCEPT ![s] = blocks[s] + 1],
         NEW p, p = At(s, blocks[s] + 1)
  PROVE  /\ p \in Addrs /\ InSpace(s, p) /\ ~Allocated(p)
         /\ \A a \in Addrs : Allocated(a)' <=> Allocated(a) \/ a = p
         /\ \A t \in Spaces : blocks[t] <= blocks'[t]
<1>1. /\ blocks[s] \in Nat /\ Size(s) \in Nat /\ Low(s) \in Nat
      /\ blocks[s] + 1 \in 1..Size(s)
  BY Layout DEF BlocksType
<1>2. p \in Addrs /\ InSpace(s, p)
  BY <1>1, Layout
<1>3. ~(p <= At(s, blocks[s]))
  BY <1>1 DEF At
<1>4. ~Allocated(p)
  BY <1>2, <1>3, AllocatedIn
<1>5. /\ blocks'[s] = blocks[s] + 1
      /\ \A t \in Spaces : t # s => blocks'[t] = blocks[t]
  BY DEF BlocksType
<1>6. \A t \in Spaces : blocks[t] <= blocks'[t]
  BY <1>5 DEF BlocksType
<1>7. ASSUME NEW a \in Addrs
      PROVE  Allocated(a)' <=> Allocated(a) \/ a = p
  <2>1. PICK t \in Spaces : InSpace(t, a)
    BY Cover
  <2>2. Allocated(a) <=> a <= At(t, blocks[t])
    BY <2>1, AllocatedIn
  <2>3. Allocated(a)' <=> a <= At(t, blocks'[t])
    <3>1. \A x \in Spaces : InSpace(x, a) => x = t
      BY <2>1, Layout
    <3>2. QED
      BY <2>1, <3>1 DEF Allocated, At
  <2>4. CASE t = s
    <3>1. At(s, blocks'[s]) = p /\ p = At(s, blocks[s]) + 1
      BY <1>1, <1>5 DEF At
    <3>2. At(s, blocks[s]) \in Int /\ a \in Int
      BY <1>1 DEF At, Addrs
    <3>3. QED
      BY <2>2, <2>3, <2>4, <3>1, <3>2
  <2>5. CASE t # s
    <3>1. a # p
      BY <1>2, <2>1, <2>5, Layout
    <3>2. QED
      BY <1>5, <2>2, <2>3, <2>5, <3>1
  <2>6. QED
    BY <2>4, <2>5
<1>8. QED
  BY <1>2, <1>4, <1>6, <1>7

\* The two cases of heap_mark that copy an object.
LEMMA CopyCases ==
  ASSUME TypeOK, TypeOK', GcInv, MarkPromote \/ MarkSurvive
  PROVE  \E v, p : Copying(v, p)
<1>1. AtSlot /\ NextSlot
      /\ UNCHANGED <<survived, full_gc, old_map, pc, graph, groots>>
  BY DEF MarkPromote, MarkSurvive, ghost
<1>2. PICK v : v = CurValue
  OBVIOUS
<1>3. InFrom(v) /\ ~fwd[v]
  BY <1>2 DEF MarkPromote, MarkSurvive, Ripe, Young
<1>4. v \in Addrs /\ Allocated(v)
  <2>1. ~InFrom(0)
    BY Layout, SpaceNames DEF InSpace, InFrom, Spaces, TypeOK
  <2>2. QED
    BY <1>1, <1>2, <1>3, <2>1, CurFacts
<1>5. ASSUME NEW p \in Addrs, p # v, CopyTo(p)
      PROVE  /\ \A a \in Addrs : fwd'[a] <=> a = v \/ (fwd[a] /\ a # p)
             /\ \A a \in Addrs : id'[a] = IF a = p THEN id[v] ELSE id[a]
             /\ \A a \in Addrs : a # p => gen'[a] = gen[a]
             /\ PutSlot([fld EXCEPT ![p] = fld[v], ![v][1] = p], p)
  <2>1. /\ fwd' = [fwd EXCEPT ![v] = TRUE, ![p] = FALSE]
        /\ gen' = [gen EXCEPT ![p] = (gen[v] + 1) % (PromoteGen + 1)]
        /\ id' = [id EXCEPT ![p] = id[v]]
        /\ PutSlot([fld EXCEPT ![p] = fld[v], ![v][1] = p], p)
    BY <1>2, <1>5 DEF CopyTo, Forwarding
  <2>2. \A a \in Addrs : fwd'[a] <=> a = v \/ (fwd[a] /\ a # p)
    BY <1>4, <1>5, <2>1 DEF TypeOK, MemType
  <2>3. \A a \in Addrs : id'[a] = IF a = p THEN id[v] ELSE id[a]
    BY <2>1 DEF TypeOK, MemType
  <2>4. \A a \in Addrs : a # p => gen'[a] = gen[a]
    BY <2>1 DEF TypeOK, MemType
  <2>5. QED
    BY <2>1, <2>2, <2>3, <2>4
<1>6. CASE MarkPromote
  <2>1. PICK p : p = At("old", blocks["old"] + 1)
    OBVIOUS
  <2>2. /\ CopyTo(p) /\ ~full_gc /\ blocks["old"] < Size("old")
        /\ rem' = [rem EXCEPT ![p] = rem[v], ![v] = FALSE]
        /\ remembered' = Append(remembered, p)
        /\ blocks' = [blocks EXCEPT !["old"] = blocks["old"] + 1]
    BY <1>2, <1>6, <2>1 DEF MarkPromote, HasRoom
  <2>3. "old" \in Spaces /\ BlocksType /\ BlocksType'
    BY DEF Spaces, TypeOK
  <2>4. /\ p \in Addrs /\ InSpace("old", p) /\ ~Allocated(p)
        /\ \A a \in Addrs : Allocated(a)' <=> Allocated(a) \/ a = p
        /\ \A t \in Spaces : blocks[t] <= blocks'[t]
    BY <2>1, <2>2, <2>3, NextBlock
  <2>5. p # v
    BY <1>4, <2>4
  <2>6. \A a \in Addrs : rem'[a] <=> IF a = p THEN rem[v] ELSE rem[a] /\ a # v
    BY <1>4, <2>2, <2>4, <2>5 DEF TypeOK, MemType
  <2>7. Copying(v, p)
    BY <1>1, <1>2, <1>3, <1>4, <1>5, <2>2, <2>4, <2>5, <2>6 DEF Copying
  <2>8. QED
    BY <2>7
<1>7. CASE MarkSurvive
  <2>0. PICK s : s = future_survived
    OBVIOUS
  <2>1. PICK p : p = At(s, blocks[s] + 1)
    OBVIOUS
  <2>2. /\ CopyTo(p) /\ blocks[s] < Size(s) /\ gen[v] # PromoteGen
        /\ rem' = [rem EXCEPT ![p] = rem[v]]
        /\ remembered' = remembered
        /\ blocks' = [blocks EXCEPT ![s] = blocks[s] + 1]
    BY <1>2, <1>7, <2>0, <2>1 DEF MarkSurvive, HasRoom, Young
  <2>3. s \in Spaces /\ BlocksType /\ BlocksType'
    BY <2>0, SpaceNames DEF TypeOK
  <2>4. /\ p \in Addrs /\ InSpace(s, p) /\ ~Allocated(p)
        /\ \A a \in Addrs : Allocated(a)' <=> Allocated(a) \/ a = p
        /\ \A t \in Spaces : blocks[t] <= blocks'[t]
    BY <2>1, <2>2, <2>3, NextBlock
  <2>5. p # v
    BY <1>4, <2>4
  <2>6. ~rem[v]
    BY <1>3, <1>4, <2>2, Parts DEF GcInv, Bits, TypeOK
  <2>7. \A a \in Addrs : rem'[a] <=> IF a = p THEN rem[v] ELSE rem[a] /\ a # v
    BY <1>4, <2>2, <2>4, <2>5, <2>6 DEF TypeOK, MemType
  <2>8. Copying(v, p)
    BY <1>1, <1>2, <1>3, <1>4, <1>5, <2>0, <2>2, <2>4, <2>5, <2>6, <2>7 DEF Copying
  <2>9. QED
    BY <2>8
<1>8. QED
  BY <1>6, <1>7

\* heap_mark keeps the invariant, or ends the process.
LEMMA MarkStep ==
  ASSUME TypeOK, TypeOK', GcInv, heap_mark, pc' \in GcPCs
  PROVE  GcInv'
<1>1. CASE MarkSkip \/ MarkReached \/ MarkOld \/ MarkForwarded \/ MarkPostpone
  BY <1>1, NoCopyCases, NoCopyStep
<1>2. CASE MarkPromote \/ MarkSurvive
  BY <1>2, CopyCases, CopyStep
<1>3. CASE OldOverflow \/ SurvivedOverflow
  BY <1>3 DEF OldOverflow, SurvivedOverflow, Fatal, GcPCs
<1>4. QED
  BY <1>1, <1>2, <1>3 DEF heap_mark
=============================================================================

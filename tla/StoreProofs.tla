----------------------------- MODULE StoreProofs -----------------------------
(***************************************************************************)
(* The collector implements a heap in which objects do not move: NameInv   *)
(* is inductive, and every step of NamedHeap is one of ObjectStore or      *)
(* none.                                                                   *)
(***************************************************************************)
EXTENDS NamedHeap, HeapSafety, FiniteSetTheorems

-----------------------------------------------------------------------------
(* Namings, and the heaps of objects that they make. *)

\* While an address has no name there is a name that no address has.
LEMMA UnusedIs ==
  ASSUME Naming(name), NEW p \in Addrs, name[p] = 0
  PROVE  Unused \in Addrs /\ \A a \in Addrs : name[a] # Unused
<1>1. SUFFICES ASSUME \A o \in Addrs : \E a \in Addrs : name[a] = o
               PROVE  FALSE
  BY DEF Unused
<1> DEFINE T == Addrs \ {p}
           h == [o \in Addrs |-> CHOOSE a \in T : name[a] = o]
<1>2. ASSUME NEW o \in Addrs
      PROVE  \E a \in T : name[a] = o
  <2>1. PICK a \in Addrs : name[a] = o
    BY <1>1
  <2>2. a # p
    BY <2>1 DEF Addrs
  <2>3. QED
    BY <2>1, <2>2
<1>3. \A o \in Addrs : h[o] \in T /\ name[h[o]] = o
  BY <1>2
<1>4. h \in [Addrs -> T]
  BY <1>3
<1>5. IsFiniteSet(Addrs)
  BY Layout, FS_Interval DEF Addrs
<1>6. IsFiniteSet(T) /\ Cardinality(T) = Cardinality(Addrs) - 1 /\ Cardinality(Addrs) \in Nat
  BY <1>5, FS_RemoveElement, FS_CardinalityType
<1>7. Cardinality(T) < Cardinality(Addrs)
  BY <1>6
<1> HIDE DEF h, T
<1>8. PICK x \in Addrs, y \in Addrs : x # y /\ h[x] = h[y]
  BY <1>4, <1>5, <1>6, <1>7, FS_PigeonHole
<1>9. QED
  BY <1>3, <1>8

\* The holder of a name is the block that has it.
LEMMA HolderIs ==
  ASSUME NEW nm, Naming(nm), NEW a \in NamedIn(nm)
  PROVE  Holder(nm, nm[a]) = a
<1> DEFINE c == CHOOSE b \in NamedIn(nm) : nm[b] = nm[a]
<1>1. c \in NamedIn(nm) /\ nm[c] = nm[a]
  OBVIOUS
<1>2. c = a
  BY <1>1 DEF Naming
<1>3. QED
  BY <1>2 DEF Holder

Names(nm) == {nm[a] : a \in NamedIn(nm)}
Objct(nm, w, a) == [g \in Fields |-> NameIn(nm, w[a][g])]

\* What the words are of the object in a block.
LEMMA WordsAre ==
  ASSUME NEW nm, Naming(nm), NEW w
  PROVE  /\ DOMAIN WordsIn(nm, w) = Names(nm)
         /\ \A a \in NamedIn(nm) : nm[a] \in Names(nm) /\ WordsIn(nm, w)[nm[a]] = Objct(nm, w, a)
<1>1. DOMAIN WordsIn(nm, w) = Names(nm)
  BY DEF WordsIn, Names
<1>2. ASSUME NEW a \in NamedIn(nm)
      PROVE  nm[a] \in Names(nm) /\ WordsIn(nm, w)[nm[a]] = Objct(nm, w, a)
  <2>1. nm[a] \in Names(nm)
    BY DEF Names
  <2>2. WordsIn(nm, w)[nm[a]] = [g \in Fields |-> NameIn(nm, w[Holder(nm, nm[a])][g])]
    BY <2>1 DEF WordsIn, Names
  <2>3. QED
    BY <2>1, <2>2, HolderIs DEF Objct
<1>3. QED
  BY <1>1, <1>2

\* Nothing else is.
LEMMA WordsOnly ==
  ASSUME NEW nm, Naming(nm), NEW w, NEW D, NEW F, F = [o \in D |-> F[o]], D = Names(nm),
         \A a \in NamedIn(nm) : F[nm[a]] = Objct(nm, w, a)
  PROVE  WordsIn(nm, w) = F
<1>1. ASSUME NEW o \in D
      PROVE  WordsIn(nm, w)[o] = F[o]
  <2>1. PICK a \in NamedIn(nm) : o = nm[a]
    BY DEF Names
  <2>2. QED
    BY <2>1, WordsAre
<1> DEFINE W == WordsIn(nm, w)
<1>2. W = [o \in D |-> W[o]]
  BY DEF WordsIn, Names
<1> HIDE DEF W
<1>3. \A o \in D : W[o] = F[o]
  BY <1>1 DEF W
<1>4. W = F
  BY <1>2, <1>3
<1>5. QED
  BY <1>4 DEF W

\* Only the words of named blocks count.
LEMMA SameWords ==
  ASSUME NEW nm, Naming(nm), NEW w, NEW u,
         \A a \in NamedIn(nm), g \in Fields : u[a][g] = w[a][g]
  PROVE  WordsIn(nm, u) = WordsIn(nm, w)
<1>1. \A a \in NamedIn(nm) : Objct(nm, u, a) = Objct(nm, w, a)
  BY DEF Objct
<1> DEFINE W == WordsIn(nm, w)
<1>2. W = [o \in Names(nm) |-> W[o]]
  BY DEF WordsIn, Names
<1>3. \A a \in NamedIn(nm) : W[nm[a]] = Objct(nm, u, a)
  BY <1>1, WordsAre
<1> HIDE DEF W
<1>4. WordsIn(nm, u) = W
  BY <1>2, <1>3, WordsOnly
<1>5. QED
  BY <1>4 DEF W

-----------------------------------------------------------------------------
(* What the program does. *)

\* In a running program roots and words lead to named blocks.
LEMMA RunNames ==
  ASSUME TypeOK, RunInv, NameInv, Running
  PROVE  /\ Naming(name)
         /\ \A a \in Addrs : a \in NamedIn(name) <=> Allocated(a)
         /\ \A r \in Roots : roots[r] \in NamedIn(name) \cup {0}
         /\ \A a \in NamedIn(name), g \in Fields : fld[a][g] \in NamedIn(name) \cup {0}
         /\ \A s \in 0..NRoots : RootValue(s) \in NamedIn(name) \cup {0}
<1>1. Naming(name) /\ NamedIn(name) = {a \in Addrs : Allocated(a)}
  BY DEF NameInv
<1>2. ASSUME NEW v \in Values, v = 0 \/ Allocated(v)
      PROVE  v \in NamedIn(name) \cup {0}
  BY <1>1, <1>2 DEF Values, Addrs
<1>3. \A r \in Roots : roots[r] \in NamedIn(name) \cup {0}
  BY <1>2 DEF RunInv, TypeOK, RootsType
<1>4. \A a \in NamedIn(name), g \in Fields : fld[a][g] \in NamedIn(name) \cup {0}
  BY <1>1, <1>2 DEF RunInv, TypeOK, MemType
<1>5. \A s \in 0..NRoots : RootValue(s) \in NamedIn(name) \cup {0}
  BY <1>3 DEF RootValue, Roots
<1>6. QED
  BY <1>1, <1>3, <1>4, <1>5

\* The view of a running program.
LEMMA RunView ==
  /\ Running => /\ (IF Running THEN fld ELSE graph) = fld
                /\ (IF Running THEN roots ELSE groots) = roots
  /\ Running' => /\ (IF Running' THEN fld' ELSE graph') = fld'
                 /\ (IF Running' THEN roots' ELSE groots') = roots'
OBVIOUS

\* The root slots of the view.
LEMMA RootsAre ==
  ASSUME NEW nm, NEW rs
  PROVE  /\ RootsIn(nm, rs) = [r \in Roots |-> NameIn(nm, rs[r])]
         /\ \A r \in Roots : RootsIn(nm, rs)[r] = NameIn(nm, rs[r])
BY DEF RootsIn

\* An operand is the name of the operand.
LEMMA OperandIs ==
  ASSUME Running, NEW s \in 0..NRoots
  PROVE  O!Operand(s) = NameIn(name, RootValue(s)) /\ s \in Roots \cup {0}
<1>1. s = 0 \/ s \in Roots
  BY DEF Roots
<1>2. O!Operand(s) = IF s = 0 THEN 0 ELSE RootsIn(name, roots)[s]
  BY DEF O!Operand
<1>3. CASE s = 0
  BY <1>2, <1>3 DEF RootValue, NameIn
<1>4. CASE s # 0
  BY <1>1, <1>2, <1>4, RootsAre DEF RootValue
<1>5. QED
  BY <1>1, <1>3, <1>4

\* An allocation makes an object of the name that it takes.
LEMMA AllocRefines ==
  ASSUME TypeOK, TypeOK', RunInv, NameInv, Running, pc' = "run",
         NEW q \in Requests, AllocFresh(q), name' = Renamed
  PROVE  NameInv' /\ O!Next
<1>1. PICK p : p = At("fresh", blocks["fresh"] + 1)
  OBVIOUS
<1>2. /\ fld' = [fld EXCEPT ![p] = [g \in Fields |-> RootValue(q.src[g])]]
      /\ roots' = [roots EXCEPT ![q.dst] = p]
      /\ blocks' = [blocks EXCEPT !["fresh"] = blocks["fresh"] + 1]
  BY <1>1 DEF AllocFresh
<1>3. "fresh" \in Spaces /\ blocks["fresh"] < Size("fresh") /\ blocks["fresh"] \in Nat
  BY Layout DEF AllocFresh, free_mem, Spaces, TypeOK, BlocksType
<1>4. /\ p \in Addrs /\ ~Allocated(p)
      /\ \A a \in Addrs : Allocated(a)' <=> Allocated(a) \/ a = p
  <2>1. UNCHANGED survived
    BY DEF AllocFresh
  <2>2. QED
    BY <1>1, <1>2, <1>3, <2>1, NextBlock DEF TypeOK
<1>5. /\ Naming(name)
      /\ \A a \in Addrs : a \in NamedIn(name) <=> Allocated(a)
      /\ \A r \in Roots : roots[r] \in NamedIn(name) \cup {0}
      /\ \A a \in NamedIn(name), g \in Fields : fld[a][g] \in NamedIn(name) \cup {0}
      /\ \A s \in 0..NRoots : RootValue(s) \in NamedIn(name) \cup {0}
  BY RunNames
<1>6. p \notin NamedIn(name) /\ name[p] = 0
  BY <1>4, <1>5 DEF NamedIn
<1>7. PICK o : o = Unused
  OBVIOUS
<1>8. o \in Addrs /\ o # 0 /\ \A a \in Addrs : name[a] # o
  BY <1>4, <1>5, <1>6, <1>7, UnusedIs DEF Addrs
<1>9. name' = [name EXCEPT ![p] = o]
  <2>1. blocks'["fresh"] = blocks["fresh"] + 1
    BY <1>2, <1>3 DEF TypeOK, BlocksType
  <2>2. blocks'["fresh"] > blocks["fresh"] /\ p = At("fresh", blocks'["fresh"])
    BY <1>1, <1>3, <2>1
  <2>3. QED
    BY <1>7, <2>2 DEF Renamed, Running
<1>10. /\ NamedIn(name') = NamedIn(name) \cup {p}
       /\ name'[p] = o
       /\ \A a \in NamedIn(name) : name'[a] = name[a]
  BY <1>4, <1>5, <1>6, <1>8, <1>9 DEF Naming, NamedIn
<1>11. Naming(name')
  <2>1. name' \in [Addrs -> Values]
    <3>1. o \in Values /\ name \in [Addrs -> Values]
      BY <1>5, <1>8 DEF Naming, Values, Addrs
    <3>2. QED
      BY <1>9, <3>1
  <2>2. ASSUME NEW a \in NamedIn(name'), NEW b \in NamedIn(name'), name'[a] = name'[b]
        PROVE  a = b
    BY <1>5, <1>8, <1>10, <2>2 DEF Naming, NamedIn
  <2>3. QED
    BY <2>1, <2>2 DEF Naming
<1>12. Running' /\ NameInv'
  <2>1. Running'
    BY DEF Running
  <2>2. NamedIn(name') = {a \in Addrs : Allocated(a)'}
    BY <1>4, <1>5, <1>10 DEF NamedIn
  <2>3. QED
    BY <1>11, <2>1, <2>2 DEF NameInv
<1>13. \A v \in NamedIn(name) \cup {0} : NameIn(name', v) = NameIn(name, v)
  BY <1>10 DEF NameIn
<1>14. \A s \in Roots \cup {0} : s \in 0..NRoots
  BY ShapeAssumption DEF Roots
<1>15. q.dst \in Roots /\ q.src \in [Fields -> 0..NRoots]
  BY DEF Requests
<1> DEFINE W == WordsIn(name, fld)
           F == [x \in DOMAIN W \cup {o} |->
                   IF x = o THEN [g \in Fields |-> O!Operand(q.src[g])] ELSE W[x]]
           D == DOMAIN W \cup {o}
<1>16. DOMAIN W = Names(name) /\ \A a \in NamedIn(name) : W[name[a]] = Objct(name, fld, a)
  BY <1>5, WordsAre
<1>17. o \notin DOMAIN W
  BY <1>8, <1>16 DEF Names, NamedIn
<1>18. Names(name') = DOMAIN W \cup {o}
  BY <1>10, <1>16 DEF Names
<1>19. ASSUME NEW a \in NamedIn(name')
       PROVE  F[name'[a]] = Objct(name', fld', a)
  <2>1. CASE a = p
    <3>1. F[name'[a]] = [g \in Fields |-> O!Operand(q.src[g])]
      BY <1>10, <2>1
    <3>2. \A g \in Fields : O!Operand(q.src[g]) = NameIn(name', RootValue(q.src[g]))
      BY <1>5, <1>13, <1>15, OperandIs
    <3>3. \A g \in Fields : fld'[a][g] = RootValue(q.src[g])
      BY <1>2, <1>4, <2>1 DEF TypeOK, MemType
    <3>4. Objct(name', fld', a) = [g \in Fields |-> O!Operand(q.src[g])]
      BY <3>2, <3>3 DEF Objct
    <3>5. QED
      BY <3>1, <3>4
  <2>2. CASE a # p
    <3>1. a \in NamedIn(name) /\ name'[a] = name[a] /\ name[a] # o
      BY <1>8, <1>10, <2>2 DEF NamedIn
    <3>2. name[a] \in DOMAIN W
      BY <1>16, <3>1 DEF Names
    <3>3. F[name'[a]] = Objct(name, fld, a)
      BY <1>16, <3>1, <3>2
    <3>4. \A g \in Fields : fld'[a][g] = fld[a][g]
      BY <1>2, <2>2, <3>1 DEF TypeOK, MemType, NamedIn
    <3>5. \A g \in Fields : NameIn(name', fld'[a][g]) = NameIn(name, fld[a][g])
      BY <1>5, <1>13, <3>1, <3>4
    <3>6. QED
      BY <3>3, <3>5 DEF Objct
  <2>3. QED
    BY <2>1, <2>2
<1>20. F = [x \in D |-> F[x]]
  OBVIOUS
<1> HIDE DEF F, W
<1>21. WordsIn(name', fld') = F
  BY <1>11, <1>18, <1>19, <1>20, WordsOnly
<1>22. RootsIn(name', roots') = [RootsIn(name, roots) EXCEPT ![q.dst] = o]
  <2>1. ASSUME NEW r \in Roots
        PROVE  NameIn(name', roots'[r]) = IF r = q.dst THEN o ELSE NameIn(name, roots[r])
    <3>1. CASE r = q.dst
      <4>1. roots'[r] = p /\ p # 0
        BY <1>2, <1>4, <1>15, <3>1 DEF TypeOK, RootsType, Addrs
      <4>2. QED
        BY <1>10, <3>1, <4>1 DEF NameIn
    <3>2. CASE r # q.dst
      <4>1. roots'[r] = roots[r]
        BY <1>2, <3>2 DEF TypeOK, RootsType
      <4>2. QED
        BY <1>5, <1>13, <3>2, <4>1
    <3>3. QED
      BY <3>1, <3>2
  <2>2. QED
    BY <2>1 DEF RootsIn
<1>23. O!New(o, q.dst, q.src)
  <2>1. o \in Addrs \ DOMAIN W
    BY <1>8, <1>17
  <2>2. QED
    BY <1>12, <1>21, <1>22, <2>1, RunView DEF O!New, F, W
<1>24. q.src \in [Fields -> Roots \cup {0}]
  <2>1. 0..NRoots = Roots \cup {0}
    BY ShapeAssumption DEF Roots
  <2>2. QED
    BY <1>15, <2>1
<1>25. O!Next
  BY <1>8, <1>15, <1>23, <1>24 DEF O!Next
<1>26. QED
  BY <1>12, <1>25

\* What the view of a root slot is after a change of one.
LEMMA PutRoot ==
  ASSUME TypeOK, NEW nm, NEW d \in Roots, NEW v, roots' = [roots EXCEPT ![d] = v]
  PROVE  RootsIn(nm, roots') = [RootsIn(nm, roots) EXCEPT ![d] = NameIn(nm, v)]
<1>1. \A r \in Roots : roots'[r] = IF r = d THEN v ELSE roots[r]
  BY DEF TypeOK, RootsType
<1> DEFINE R == RootsIn(nm, roots)
<1>2. [R EXCEPT ![d] = NameIn(nm, v)] = [r \in Roots |-> IF r = d THEN NameIn(nm, v) ELSE R[r]]
  BY DEF RootsIn
<1>3. \A r \in Roots : NameIn(nm, roots'[r]) = IF r = d THEN NameIn(nm, v) ELSE R[r]
  BY <1>1, RootsAre
<1> HIDE DEF R
<1>4. RootsIn(nm, roots') = [r \in Roots |-> IF r = d THEN NameIn(nm, v) ELSE R[r]]
  BY <1>3 DEF RootsIn
<1>5. QED
  BY <1>2, <1>4 DEF R

\* The object in a root slot.
LEMMA RootObject ==
  ASSUME TypeOK, RunInv, NameInv, Running, NEW s \in Roots, roots[s] # 0
  PROVE  /\ roots[s] \in NamedIn(name)
         /\ RootsIn(name, roots)[s] = name[roots[s]]
         /\ name[roots[s]] \in DOMAIN WordsIn(name, fld)
         /\ \A g \in Fields :
              WordsIn(name, fld)[name[roots[s]]][g] = NameIn(name, fld[roots[s]][g])
<1>1. Naming(name) /\ roots[s] \in NamedIn(name)
  BY RunNames
<1>2. RootsIn(name, roots)[s] = name[roots[s]]
  BY RootsAre DEF NameIn
<1>3. /\ name[roots[s]] \in DOMAIN WordsIn(name, fld)
      /\ WordsIn(name, fld)[name[roots[s]]] = Objct(name, fld, roots[s])
  BY <1>1, WordsAre
<1>4. QED
  BY <1>1, <1>2, <1>3 DEF Objct

\* While blocks keep their names the names are right.
LEMMA SameNames ==
  ASSUME NameInv, Running, Running', UNCHANGED <<name, blocks>>
  PROVE  NameInv'
<1>1. \A a : Allocated(a)' <=> Allocated(a)
  BY DEF Allocated
<1>2. QED
  BY <1>1 DEF NameInv

LEMMA LoadRefines ==
  ASSUME TypeOK, RunInv, NameInv, Running, name' = name,
         NEW d \in Roots, NEW s \in Roots, NEW g \in Fields, Load(d, s, g)
  PROVE  NameInv' /\ O!Next
<1>1. /\ roots[s] # 0 /\ roots' = [roots EXCEPT ![d] = fld[roots[s]][g]]
      /\ UNCHANGED <<fld, blocks, pc>>
  BY DEF Load, mem, heap, regs
<1>2. Running' /\ NameInv'
  BY <1>1, SameNames DEF Running
<1>3. RootsIn(name, roots') = [RootsIn(name, roots) EXCEPT ![d] = NameIn(name, fld[roots[s]][g])]
  <2>1. PICK v : v = fld[roots[s]][g]
    OBVIOUS
  <2>2. roots' = [roots EXCEPT ![d] = v]
    BY <1>1, <2>1
  <2>3. RootsIn(name, roots') = [RootsIn(name, roots) EXCEPT ![d] = NameIn(name, v)]
    BY <2>2, PutRoot
  <2>4. QED
    BY <2>1, <2>3
<1> DEFINE W == WordsIn(name, fld)
           R == RootsIn(name, roots)
<1>4. R[s] \in DOMAIN W /\ W[R[s]][g] = NameIn(name, fld[roots[s]][g])
  BY <1>1, RootObject
<1>5. RootsIn(name, roots') = [R EXCEPT ![d] = W[R[s]][g]]
  BY <1>3, <1>4
<1>6. O!Load(d, s, g)
  BY <1>1, <1>2, <1>4, <1>5, RunView DEF O!Load
<1>7. QED
  BY <1>2, <1>6 DEF O!Next

LEMMA MoveRefines ==
  ASSUME TypeOK, RunInv, NameInv, Running, name' = name,
         NEW d \in Roots, NEW s \in 0..NRoots, Move(d, s)
  PROVE  NameInv' /\ O!Next
<1>1. /\ roots' = [roots EXCEPT ![d] = RootValue(s)]
      /\ UNCHANGED <<fld, blocks, pc>>
  BY DEF Move, mem, heap, regs
<1>2. Running' /\ NameInv'
  BY <1>1, SameNames DEF Running
<1>3. RootsIn(name, roots') = [RootsIn(name, roots) EXCEPT ![d] = O!Operand(s)]
  <2>1. O!Operand(s) = NameIn(name, RootValue(s))
    BY OperandIs
  <2>2. RootsIn(name, roots') = [RootsIn(name, roots) EXCEPT ![d] = NameIn(name, RootValue(s))]
    BY <1>1, PutRoot
  <2>3. QED
    BY <2>1, <2>2
<1>4. O!Move(d, s)
  BY <1>1, <1>2, <1>3, RunView DEF O!Move
<1>5. QED
  BY <1>2, <1>4, OperandIs DEF O!Next

LEMMA StoreRefines ==
  ASSUME TypeOK, RunInv, NameInv, Running, name' = name,
         NEW d \in Roots, NEW s \in 0..NRoots, NEW g \in Fields, Store(d, g, s)
  PROVE  NameInv' /\ O!Next
<1>1. /\ roots[d] # 0 /\ fld' = [fld EXCEPT ![roots[d]][g] = RootValue(s)]
      /\ UNCHANGED <<roots, blocks, pc>>
  BY DEF Store, heap, regs
<1>2. Running' /\ NameInv'
  BY <1>1, SameNames DEF Running
<1> DEFINE W == WordsIn(name, fld)
           x == name[roots[d]]
           F == [W EXCEPT ![x][g] = O!Operand(s)]
           D == DOMAIN W
<1>3. Naming(name) /\ roots[d] \in NamedIn(name)
  BY <1>1, RunNames, RootObject
<1>4. D = Names(name) /\ \A a \in NamedIn(name) : name[a] \in D /\ W[name[a]] = Objct(name, fld, a)
  BY <1>3, WordsAre
<1>5. ASSUME NEW a \in NamedIn(name)
      PROVE  F[name[a]] = Objct(name, fld', a)
  <2>1. \A h \in Fields : fld'[a][h] = IF a = roots[d] /\ h = g THEN RootValue(s) ELSE fld[a][h]
    BY <1>1, <1>3 DEF TypeOK, MemType, NamedIn
  <2>2. CASE a = roots[d]
    <3>1. F[name[a]] = [Objct(name, fld, a) EXCEPT ![g] = NameIn(name, RootValue(s))]
      BY <1>4, <2>2, OperandIs
    <3>2. QED
      BY <2>1, <2>2, <3>1 DEF Objct
  <2>3. CASE a # roots[d]
    <3>1. name[a] # x
      BY <1>3, <2>3 DEF Naming
    <3>2. F[name[a]] = Objct(name, fld, a)
      BY <1>4, <3>1
    <3>3. QED
      BY <2>1, <2>3, <3>2 DEF Objct
  <2>4. QED
    BY <2>2, <2>3
<1>6. F = [y \in D |-> F[y]]
  OBVIOUS
<1> HIDE DEF F, W
<1>7. WordsIn(name, fld') = F
  BY <1>3, <1>4, <1>5, <1>6, WordsOnly
<1>8. O!Store(d, g, s)
  BY <1>1, <1>2, <1>7, RunView, RootObject DEF O!Store, F, W
<1>9. QED
  BY <1>2, <1>8, OperandIs DEF O!Next

-----------------------------------------------------------------------------
(* What the collector does. *)

\* When a collection begins the program's heap is recorded.
LEMMA EnterRefines ==
  ASSUME TypeOK, TypeOK', RunInv, NameInv, Running, EnterGc, name' = name
  PROVE  NameInv' /\ UNCHANGED O!store
<1>1. /\ pc' = "roots" /\ groots' = roots
      /\ graph' = [a \in Addrs |-> IF Allocated(a) THEN fld[a] ELSE NoWords]
      /\ id' = [a \in Addrs |-> IF Allocated(a) THEN a ELSE 0]
  BY DEF EnterGc
<1>2. ~Running'
  BY <1>1 DEF Running
<1>3. /\ Naming(name)
      /\ \A a \in Addrs : a \in NamedIn(name) <=> Allocated(a)
      /\ \A r \in Roots : roots[r] \in NamedIn(name) \cup {0}
      /\ \A a \in NamedIn(name), g \in Fields : fld[a][g] \in NamedIn(name) \cup {0}
  BY RunNames
<1>4. \A a \in NamedIn(name), g \in Fields : graph'[a][g] = fld[a][g]
  BY <1>1, <1>3 DEF NamedIn
<1>5. NameInv'
  <2>1. \A a \in Addrs : id'[a] \in NamedIn(name) \cup {0}
    BY <1>1, <1>3
  <2>2. QED
    BY <1>1, <1>2, <1>3, <1>4, <2>1 DEF NameInv
<1>6. WordsIn(name', graph') = WordsIn(name, fld)
  BY <1>3, <1>4, SameWords
<1>7. RootsIn(name', groots') = RootsIn(name, roots)
  BY <1>1
<1>8. QED
  BY <1>2, <1>5, <1>6, <1>7 DEF O!store

\* While it lasts the program sees the record.
LEMMA GcRefines ==
  ASSUME NameInv, ~Running, ~Running', UNCHANGED <<name, graph, groots>>,
         \A a \in Addrs : id'[a] = 0 \/ \E b \in Addrs : id'[a] = id[b]
  PROVE  NameInv' /\ UNCHANGED O!store
<1>1. \A a \in Addrs : id'[a] \in NamedIn(name) \cup {0}
  BY DEF NameInv
<1>2. NameInv'
  BY <1>1 DEF NameInv
<1>3. QED
  BY <1>2 DEF O!store

\* A visit copies what a block holds, or nothing.
LEMMA MarkRefines ==
  ASSUME TypeOK, NameInv, ~Running, heap_mark, name' = name
  PROVE  NameInv' /\ UNCHANGED O!store
<1>1. UNCHANGED <<graph, groots>> /\ ~Running'
  BY DEF heap_mark, MarkSkip, MarkReached, MarkOld, MarkForwarded, MarkPostpone,
     MarkPromote, MarkSurvive, OldOverflow, SurvivedOverflow, Fatal, ghost, Running
<1>2. CASE UNCHANGED id
  BY <1>1, <1>2, GcRefines
<1>3. CASE MarkPromote \/ MarkSurvive
  <2>1. PICK p : CopyTo(p)
    BY <1>3 DEF MarkPromote, MarkSurvive
  <2>2. id' = [id EXCEPT ![p] = id[CurValue]]
    BY <2>1 DEF CopyTo
  <2>3. CurValue \in Addrs
    <3>1. AtSlot /\ InFrom(CurValue)
      BY <1>3 DEF MarkPromote, MarkSurvive, Ripe, Young
    <3>2. CurValue # 0
      BY <3>1, Layout, SpaceNames DEF InFrom, InSpace, TypeOK, Spaces
    <3>3. QED
      BY <3>1, <3>2, SlotType
  <2>4. \A a \in Addrs : \E b \in Addrs : id'[a] = id[b]
    BY <2>2, <2>3 DEF TypeOK, MemType
  <2>5. QED
    BY <1>1, <2>4, GcRefines
<1>4. QED
  BY <1>2, <1>3 DEF heap_mark, MarkSkip, MarkReached, MarkOld, MarkForwarded,
     MarkPostpone, OldOverflow, SurvivedOverflow, Fatal, mem, hdrs

\* The end of a collection drops objects and changes none: what a block that is
\* kept refers to is kept, and is what its object referred to.
LEMMA FinishRefines ==
  ASSUME TypeOK, TypeOK', IInv, Unique, NameInv, ~tainted, Finish, name' = Renamed
  PROVE  NameInv' /\ O!Next
<1>1. pc = "finish" /\ roots' = roots /\ pc' \in {"run", "resume"}
  BY DEF Finish
<1>2. ~Running /\ Running' /\ Naming(name)
  BY <1>1 DEF Running, NameInv
<1> DEFINE KA == {a \in Addrs : Kept(a)}
           K == {name[id[a]] : a \in KA}
           W == WordsIn(name, graph)
           F == [o \in K |-> W[o]]
<1>3. name' = [a \in Addrs |-> IF Kept(a) THEN name[id[a]] ELSE 0]
  BY <1>1 DEF Renamed
<1>4. ASSUME NEW a \in KA
      PROVE  id[a] \in NamedIn(name) /\ name[id[a]] # 0
  <2>1. GcInv
    BY <1>1 DEF IInv, GcPCs
  <2>2. Usable(a) /\ ~fwd[a]
    BY <2>1 DEF Usable, GcInv, Forwards, Kept
  <2>3. id[a] \in Addrs
    BY <2>1, <2>2 DEF GcInv, Contents
  <2>4. id[a] # 0
    BY <2>3 DEF Addrs
  <2>5. QED
    BY <1>2, <2>4 DEF NameInv, NamedIn
<1>5. NamedIn(name') = KA /\ \A a \in KA : name'[a] = name[id[a]]
  BY <1>3, <1>4 DEF NamedIn
<1>6. \A a, b \in KA : id[a] = id[b] => a = b
  BY <1>1, OneCopyEnd DEF OneCopy, Kept
<1>7. Naming(name')
  <2>1. name' \in [Addrs -> Values]
    <3>1. \A a \in Addrs : name'[a] \in Values
      <4>1. \A b \in NamedIn(name) : name[b] \in Values
        BY <1>2 DEF Naming, NamedIn
      <4>2. 0 \in Values
        BY Layout DEF Values
      <4>3. QED
        BY <1>3, <1>4, <4>1, <4>2
    <3>2. QED
      BY <1>3, <3>1
  <2>2. ASSUME NEW a \in KA, NEW b \in KA, name'[a] = name'[b]
        PROVE  a = b
    <3>1. id[a] \in NamedIn(name) /\ id[b] \in NamedIn(name) /\ name[id[a]] = name[id[b]]
      BY <1>4, <1>5, <2>2
    <3>2. id[a] = id[b]
      BY <1>2, <3>1 DEF Naming
    <3>3. QED
      BY <1>6, <3>2
  <2>3. QED
    BY <1>5, <2>1, <2>2 DEF Naming
<1>8. NameInv'
  <2>1. KA = {a \in Addrs : Allocated(a)'}
    BY FinishKeeps DEF Kept
  <2>2. QED
    BY <1>2, <1>5, <1>7, <2>1 DEF NameInv
\* A value that denotes an object keeps its name.
<1>9. ASSUME NEW v \in Values, NEW i, Denotes(v, i)
      PROVE  NameIn(name', v) = NameIn(name, i) /\ NameIn(name, i) \in K \cup {0}
  <2>1. CASE i = 0
    BY <1>9, <2>1 DEF Denotes, NameIn
  <2>2. CASE i # 0
    <3>1. v # 0 /\ Kept(v) /\ id[v] = i /\ v \in Addrs
      BY <1>9, <2>2 DEF Denotes, Kept, Values, Addrs
    <3>2. v \in KA /\ name'[v] = name[i] /\ name[i] \in K
      BY <1>5, <3>1
    <3>3. QED
      BY <2>2, <3>1, <3>2 DEF NameIn
  <2>3. QED
    BY <2>1, <2>2
<1>10. Faithful
  BY FaithfulEnd
<1>11. \A r \in Roots : /\ NameIn(name', roots'[r]) = NameIn(name, groots[r])
                        /\ NameIn(name, groots[r]) \in K \cup {0}
  BY <1>1, <1>9, <1>10 DEF Faithful, TypeOK, RootsType
<1>12. ASSUME NEW a \in KA, NEW g \in Fields
       PROVE  /\ NameIn(name', fld'[a][g]) = NameIn(name, graph[id[a]][g])
              /\ NameIn(name, graph[id[a]][g]) \in K \cup {0}
  <2>1. fld'[a][g] = fld[a][g] /\ fld[a][g] \in Values
    BY DEF Finish, Kept, TypeOK, MemType
  <2>2. Denotes(fld[a][g], graph[id[a]][g])
    BY <1>1, <1>10 DEF Faithful, Kept
  <2>3. QED
    BY <1>9, <2>1, <2>2
<1>13. DOMAIN W = Names(name) /\ \A a \in NamedIn(name) : name[a] \in DOMAIN W /\ W[name[a]] = Objct(name, graph, a)
  BY <1>2, WordsAre
<1>14. K \in SUBSET DOMAIN W
  BY <1>4, <1>13
<1>15. K = Names(name')
  BY <1>5 DEF Names
<1>16. ASSUME NEW a \in NamedIn(name')
       PROVE  F[name'[a]] = Objct(name', fld', a)
  <2>1. a \in KA /\ name'[a] = name[id[a]] /\ name[id[a]] \in K
    BY <1>5
  <2>2. F[name'[a]] = Objct(name, graph, id[a])
    BY <1>4, <1>13, <2>1
  <2>3. QED
    BY <1>12, <2>1, <2>2 DEF Objct
<1>17. F = [o \in K |-> F[o]]
  OBVIOUS
<1>18. ASSUME NEW o \in K, NEW g \in Fields
       PROVE  W[o][g] \in K \cup {0}
  <2>1. PICK a \in KA : o = name[id[a]]
    OBVIOUS
  <2>2. W[o] = Objct(name, graph, id[a])
    BY <1>4, <1>13, <2>1
  <2>3. QED
    BY <1>12, <2>1, <2>2 DEF Objct
<1> HIDE DEF F, W, K
<1>19. WordsIn(name', fld') = F
  BY <1>7, <1>15, <1>16, <1>17, WordsOnly
<1>20. /\ RootsIn(name', roots') = RootsIn(name, groots)
       /\ \A r \in Roots : RootsIn(name, groots)[r] \in K \cup {0}
  BY <1>11, RootsAre DEF RootsIn
<1>21. O!Drop(K)
  <2>1. WordsIn(name', fld') = [o \in K |-> W[o]]
    BY <1>19 DEF F
  <2>2. QED
    BY <1>2, <1>18, <1>20, <2>1 DEF O!Drop, W
<1>22. O!Next
  BY <1>2, <1>14, <1>21 DEF O!Next, W
<1>23. QED
  BY <1>8, <1>22

-----------------------------------------------------------------------------
(* The theorems. *)

\* Only allocations and ends of collections change names.
LEMMA NamesStay ==
  ASSUME TypeOK, pc # "finish", blocks'["fresh"] = blocks["fresh"], name' = Renamed
  PROVE  name' = name
<1>1. ~(blocks'["fresh"] > blocks["fresh"])
  BY DEF TypeOK, BlocksType, Spaces
<1>2. QED
  BY <1>1 DEF Renamed

\* The mutator: it acts on the objects.
LEMMA MutateRefines ==
  ASSUME TypeOK, TypeOK', IInv, NameInv, ~tainted, Mutate \/ Retry, name' = Renamed
  PROVE  NameInv' /\ [O!Next]_(O!store)
<1>1. Running /\ pc # "finish" /\ RunInv
  <2>1. pc \in {"run", "resume"}
    BY DEF Mutate, Retry, New, NewFull, Resume, Require, Load, Store, Move
  <2>2. QED
    BY <2>1 DEF Running, IInv
<1>2. CASE \E q \in Requests : New(q)
  <2>1. PICK q \in Requests : New(q)
    BY <1>2
  <2>2. pc' = "run" /\ AllocFresh(q)
    BY <2>1 DEF New, regs
  <2>3. QED
    BY <1>1, <2>2, AllocRefines
<1>3. CASE NewFull \/ \E n \in 1..FreshSize : Require(n)
  <2>1. EnterGc
    BY <1>3 DEF NewFull, Require
  <2>2. name' = name
    BY <1>1, <2>1, NamesStay DEF EnterGc, heap
  <2>3. QED
    BY <1>1, <2>1, <2>2, EnterRefines
<1>4. CASE \E d, s \in Roots, g \in Fields : Load(d, s, g)
  <2>1. PICK d \in Roots, s \in Roots, g \in Fields : Load(d, s, g)
    BY <1>4
  <2>2. name' = name
    BY <1>1, <2>1, NamesStay DEF Load, heap
  <2>3. QED
    BY <1>1, <2>1, <2>2, LoadRefines
<1>5. CASE \E d \in Roots, s \in 0..NRoots, g \in Fields : Store(d, g, s)
  <2>1. PICK d \in Roots, s \in 0..NRoots, g \in Fields : Store(d, g, s)
    BY <1>5
  <2>2. name' = name
    BY <1>1, <2>1, NamesStay DEF Store, heap
  <2>3. QED
    BY <1>1, <2>1, <2>2, StoreRefines
<1>6. CASE \E d \in Roots, s \in 0..NRoots : Move(d, s)
  <2>1. PICK d \in Roots, s \in 0..NRoots : Move(d, s)
    BY <1>6
  <2>2. name' = name
    BY <1>1, <2>1, NamesStay DEF Move, heap
  <2>3. QED
    BY <1>1, <2>1, <2>2, MoveRefines
<1>7. CASE Retry
  <2>1. PICK q \in Requests : Resume(q)
    BY <1>7 DEF Retry
  <2>2. pc' = "run" /\ AllocFresh(q)
    BY <2>1 DEF Resume
  <2>3. QED
    BY <1>1, <2>2, AllocRefines
<1>8. QED
  BY <1>2, <1>3, <1>4, <1>5, <1>6, <1>7 DEF Mutate

\* The collector: until it ends it changes nothing, and then it drops objects.
LEMMA CollectRefines ==
  ASSUME TypeOK, TypeOK', IInv, Unique, NameInv, ~tainted, ~tainted', Collect,
         name' = Renamed
  PROVE  NameInv' /\ [O!Next]_(O!store)
<1>1. CASE heap_mark
  <2>1. pc \in {"roots", "old", "refs", "rem"}
    BY <1>1 DEF heap_mark, MarkSkip, MarkReached, MarkOld, MarkForwarded,
       MarkPostpone, MarkPromote, MarkSurvive, OldOverflow, SurvivedOverflow, AtSlot
  <2>2. blocks'["fresh"] = blocks["fresh"]
    <3>1. future_survived # "fresh"
      BY SpaceNames DEF TypeOK
    <3>2. \/ blocks' = blocks
          \/ \E s \in Spaces \ {"fresh"} : blocks' = [blocks EXCEPT ![s] = @ + 1]
      <4>1. future_survived \in Spaces \ {"fresh"} /\ "old" \in Spaces \ {"fresh"}
        BY <3>1, SpaceNames DEF TypeOK, Spaces
      <4>2. QED
        BY <1>1, <4>1 DEF heap_mark, MarkSkip, MarkReached, MarkOld, MarkForwarded,
           MarkPostpone, MarkPromote, MarkSurvive, OldOverflow, SurvivedOverflow,
           Fatal, heap
    <3>3. QED
      BY <3>2 DEF TypeOK, BlocksType, Spaces
  <2>3. ~Running /\ name' = name
    BY <2>1, <2>2, NamesStay DEF Running
  <2>4. QED
    BY <1>1, <2>3, MarkRefines
<1>2. CASE RootsDone \/ ScanOldDone \/ ScanRefsDone \/ ScanRememberedDone
  <2>1. /\ pc \notin {"run", "resume", "finish"} /\ pc' \notin {"run", "resume"}
        /\ UNCHANGED <<blocks, id, graph, groots>>
    BY <1>2 DEF RootsDone, ScanOldDone, ScanRefsDone, ScanRememberedDone,
       AfterRoots, AfterRefs, EndOfPass, mem, hdrs, heap, ghost
  <2>2. name' = name
    BY <2>1, NamesStay
  <2>3. QED
    BY <2>1, <2>2, GcRefines DEF Running
<1>3. CASE HeapGcOld
  <2>1. pc = "gc_old" /\ GcInv
    BY <1>3 DEF HeapGcOld, IInv, GcPCs
  <2>2. pc' = "roots" /\ UNCHANGED <<id, graph, groots>>
    BY <1>3, <2>1, GcOldEffect
  <2>3. blocks'["fresh"] = blocks["fresh"]
    BY <1>3 DEF HeapGcOld, TypeOK, BlocksType
  <2>4. name' = name
    BY <2>1, <2>3, NamesStay
  <2>5. QED
    BY <2>1, <2>2, <2>4, GcRefines DEF Running
<1>4. CASE Finish
  BY <1>4, FinishRefines
<1>5. QED
  BY <1>1, <1>2, <1>3, <1>4 DEF Collect

Inductive == TypeOK /\ IInv /\ Unique /\ NameInv /\ ~tainted

LEMMA NextRefines ==
  ASSUME Inductive, [NamedNext]_namedVars
  PROVE  Inductive' /\ [O!Next]_(O!store)
<1>1. [Next]_vars
  BY DEF NamedNext, namedVars
<1>2. ~tainted'
  BY DEF NamedNext, namedVars, vars, ghost, Inductive
<1>3. TypeOK' /\ IInv' /\ Unique'
  BY <1>1, NextTypeOK, NextIInv, NextUnique DEF Inductive
<1>4. CASE NamedNext
  BY <1>2, <1>3, <1>4, MutateRefines, CollectRefines DEF NamedNext, Next, Inductive
<1>5. CASE UNCHANGED namedVars
  <2>1. UNCHANGED <<name, pc, fld, graph, roots, groots, blocks, id>>
    BY <1>5 DEF namedVars, vars, mem, hdrs, heap, regs, ghost
  <2>2. (\A a : Allocated(a)' <=> Allocated(a)) /\ (Running' <=> Running)
    BY <2>1 DEF Allocated, Running
  <2>3. NameInv'
    BY <2>1, <2>2 DEF NameInv, Inductive
  <2>4. UNCHANGED O!store
    BY <2>1, <2>2 DEF O!store
  <2>5. QED
    BY <1>2, <1>3, <2>3, <2>4 DEF Inductive
<1>6. QED
  BY <1>2, <1>3, <1>4, <1>5 DEF Inductive

\* The heap is empty at first, and so is the view.
LEMMA InitRefines ==
  ASSUME NamedInit
  PROVE  Inductive /\ O!Init
<1>1. TypeOK /\ IInv /\ Unique /\ ~tainted /\ Running
  BY InitTypeOK, InitIInv DEF NamedInit, Init, Unique, GcPCs, Running
<1>2. name = [a \in Addrs |-> 0] /\ NamedIn(name) = {}
  BY DEF NamedInit, NamedIn
<1>3. Naming(name)
  BY <1>2, Layout DEF Naming, Values
<1>4. \A a \in Addrs : ~Allocated(a)
  <2>1. ASSUME NEW a \in Addrs, NEW s \in Spaces, InSpace(s, a)
        PROVE  ~(a <= At(s, blocks[s]))
    BY <2>1, Layout DEF NamedInit, Init, InSpace, At, Addrs
  <2>2. QED
    BY <2>1 DEF Allocated
<1>5. NameInv
  BY <1>1, <1>2, <1>3, <1>4 DEF NameInv
<1>6. WordsIn(name, fld) = [o \in {} |-> 0]
  BY <1>2 DEF WordsIn
<1>7. RootsIn(name, roots) = [r \in Roots |-> 0]
  BY DEF RootsIn, NameIn, NamedInit, Init
<1>8. O!Init
  BY <1>1, <1>6, <1>7 DEF O!Init
<1>9. QED
  BY <1>1, <1>5, <1>8 DEF Inductive

\* Names follow the objects through every collection (heap_mark, heap_gc).
THEOREM NamesHold == NamedSpec => []NameInv
<1>1. NamedInit => Inductive
  BY InitRefines
<1>2. Inductive /\ [NamedNext]_namedVars => Inductive'
  BY NextRefines
<1>3. Inductive => NameInv
  BY DEF Inductive
<1>4. QED
  BY <1>1, <1>2, <1>3, PTL DEF NamedSpec

\* As long as no collection is tainted, the heap of heap.c is one in which no
\* object moves, for every program (heap_alloc, heap_gc).
THEOREM CollectionsAreInvisible == NamedSpec => Implements
<1>1. NamedInit => Inductive /\ O!Init
  BY InitRefines
<1>2. Inductive /\ [NamedNext]_namedVars => Inductive' /\ [O!Next]_(O!store)
  BY NextRefines
<1>3. QED
  BY <1>1, <1>2, PTL DEF NamedSpec, Implements, O!Spec
=============================================================================

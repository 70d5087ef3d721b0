------------------------------ MODULE VmProofs ------------------------------
(***************************************************************************)
(* Proofs about Vm: a collection, a push and an instruction keep the       *)
(* invariant of VmInv, for every module whose bytecode is in order and     *)
(* every size of the operand stack.                                        *)
(***************************************************************************)
EXTENDS VmInv, FiniteSetTheorems, WellFoundedInduction, TLAPS

-----------------------------------------------------------------------------
(* Repeating a step.                                                       *)

LEMMA LeastNat ==
  ASSUME NEW T \in SUBSET Nat, T # {}
  PROVE  \E x \in T : \A y \in T : x <= y
<1> DEFINE R == {ss \in Nat \X Nat : ss[1] < ss[2]}
<1>1. R = OpToRel(<, Nat)
  BY DEF OpToRel
<1>2. IsWellFoundedOn(R, Nat)
  BY <1>1, NatLessThanWellFounded, Zenon
<1> HIDE DEF R
<1>3. PICK x \in T : \A y \in T : ~ (<<y, x>> \in R)
  BY <1>2, WFMin
<1>4. \A y \in T : <<y, x>> \in R <=> y < x
  BY DEF R
<1>5. \A y \in T : ~ (y < x)
  BY <1>3, <1>4, Zenon
<1>6. \A y \in T : x <= y
  BY <1>5
<1> QED
  BY <1>6

\* The steps that Walk takes, as a relation.
Steps(step, x, n, at) ==
  /\ DOMAIN at = 0..n
  /\ at[0] = x
  /\ \A k \in 1..n : at[k] = step[at[k - 1]]

LEMMA StepsExist ==
  ASSUME NEW D, NEW step \in [D -> D], NEW x \in D, NEW m \in Nat
  PROVE  \E at \in [0..m -> D] : Steps(step, x, m, at)
<1> DEFINE T == {n \in Nat : ~ \E at \in [0..n -> D] : Steps(step, x, n, at)}
<1>1. SUFFICES ASSUME T # {} PROVE FALSE
  OBVIOUS
<1>2. PICK n \in T : \A l \in T : n <= l
  BY <1>1, LeastNat
<1>3. n # 0
  <2>1. Steps(step, x, 0, [l \in 0..0 |-> x]) /\ [l \in 0..0 |-> x] \in [0..0 -> D]
    BY DEF Steps
  <2>2. QED
    BY <2>1, Zenon
<1>4. n - 1 \in Nat /\ n - 1 \notin T
  BY <1>2, <1>3
<1>5. PICK at \in [0 .. n - 1 -> D] : Steps(step, x, n - 1, at)
  BY <1>4
<1> DEFINE v == [l \in 0..n |-> IF l = n THEN step[at[n - 1]] ELSE at[l]]
<1>6. at[0] = x /\ \A l \in 1 .. n - 1 : at[l] = step[at[l - 1]]
  BY <1>5 DEF Steps
<1>7. step[at[n - 1]] \in D
  BY <1>4, <1>5
<1>8. v \in [0..n -> D]
  BY <1>4, <1>5, <1>7
<1>9. v[n] = step[at[n - 1]] /\ \A l \in 0 .. n - 1 : v[l] = at[l]
  BY <1>4
<1>10. ASSUME NEW l \in 1..n
       PROVE  v[l] = step[v[l - 1]]
  BY <1>4, <1>6, <1>9
<1>11. v[0] = x
  BY <1>4, <1>6, <1>9
<1>12. Steps(step, x, n, v)
  BY <1>8, <1>10, <1>11 DEF Steps
<1>13. QED
  BY <1>8, <1>12

LEMMA StepsUnique ==
  ASSUME NEW step, NEW x, NEW m \in Nat, NEW u, NEW w,
         Steps(step, x, m, u), Steps(step, x, m, w)
  PROVE  \A n \in 0..m : u[n] = w[n]
<1> DEFINE T == {n \in 0..m : u[n] # w[n]}
<1>1. SUFFICES ASSUME T # {} PROVE FALSE
  OBVIOUS
<1>2. PICK n \in T : \A l \in T : n <= l
  <2>1. T \in SUBSET Nat
    OBVIOUS
  <2>2. QED
    BY <1>1, <2>1, LeastNat
<1>3. n # 0
  BY DEF Steps
<1>4. n \in 1..m /\ n - 1 \in 0..m /\ n - 1 \notin T
  BY <1>2, <1>3
<1>5. u[n - 1] = w[n - 1]
  BY <1>4
<1>6. u[n] = w[n]
  BY <1>4, <1>5 DEF Steps
<1>7. QED
  BY <1>6

LEMMA WalkIs ==
  ASSUME NEW D, NEW step \in [D -> D], NEW x \in D, NEW m \in Nat
  PROVE  /\ Steps(step, x, m, Walk(step, x, m))
         /\ Walk(step, x, m) \in [0..m -> D]
<1> DEFINE e(u, k) == IF k = 0 THEN x ELSE step[u[k - 1]]
           Upto(u) == [k \in 0..m |-> e(u, k)]
<1>1. PICK w \in [0..m -> D] : Steps(step, x, m, w)
  BY StepsExist
<1>2. \A k \in 1..m : k \in 0..m /\ k # 0
  OBVIOUS
<1>3. \A u : u = Upto(u) => Steps(step, x, m, u)
  BY <1>2 DEF Steps
<1>4. w = Upto(w)
  <2>1. w = [n \in 0..m |-> w[n]]
    OBVIOUS
  <2>2. \A n \in 0..m : w[n] = e(w, n)
    BY <1>1 DEF Steps
  <2> HIDE DEF e
  <2>3. QED
    BY <2>1, <2>2
<1>5. PICK u : u = (CHOOSE y : y = Upto(y))
  OBVIOUS
<1>6. Walk(step, x, m) = u
  BY <1>5 DEF Walk
<1>7. u = Upto(u)
  <2> HIDE DEF Upto
  <2>1. QED
    BY <1>4, <1>5, Zenon
<1>8. Steps(step, x, m, u) /\ u = [n \in 0..m |-> u[n]]
  <2>1. u = [n \in 0..m |-> u[n]]
    <3> DEFINE f(n) == e(u, n)
    <3>1. u = [n \in 0..m |-> f(n)]
      BY <1>7
    <3> HIDE DEF f
    <3>2. QED
      BY <3>1
  <2>2. QED
    BY <1>3, <1>7, <2>1
<1>9. \A n \in 0..m : u[n] \in D
  BY <1>1, <1>8, StepsUnique
<1>10. QED
  BY <1>6, <1>8, <1>9

Adds(step, D) == step \in [SUBSET D -> SUBSET D] /\ \A s \in SUBSET D : s \subseteq step[s]

\* A step that only ever adds to a subset of D comes to rest within as many
\* repetitions as D has elements, or more.
LEMMA WalkCloses ==
  ASSUME NEW D, NEW m \in Nat, IsFiniteSet(D), Cardinality(D) <= m,
         NEW step, Adds(step, D), NEW S \in SUBSET D
  PROVE  /\ Walk(step, S, m)[m] \subseteq D
         /\ S \subseteq Walk(step, S, m)[m]
         /\ step[Walk(step, S, m)[m]] = Walk(step, S, m)[m]
<1>0. step \in [SUBSET D -> SUBSET D] /\ \A s \in SUBSET D : s \subseteq step[s]
  BY DEF Adds
<1>1. PICK u : u = Walk(step, S, m)
  OBVIOUS
<1>2. u \in [0..m -> SUBSET D] /\ u[0] = S /\ \A k \in 1..m : u[k] = step[u[k - 1]]
  <2> DEFINE E == SUBSET D
  <2>1. step \in [E -> E] /\ S \in E
    BY <1>0
  <2> HIDE DEF E
  <2>2. Steps(step, S, m, Walk(step, S, m)) /\ Walk(step, S, m) \in [0..m -> E]
    BY <2>1, WalkIs
  <2>3. QED
    BY <1>1, <2>2 DEF Steps, E
<1>3. \A n \in 0..m : u[n] \in SUBSET D /\ IsFiniteSet(u[n]) /\ Cardinality(u[n]) \in Nat
  BY <1>2, FS_Subset, FS_CardinalityType
<1>4. ASSUME NEW n \in 0..m, n # 0
      PROVE  n \in 1..m /\ n - 1 \in 0..m /\ u[n] = step[u[n - 1]] /\ u[n - 1] \subseteq u[n]
  <2>1. n \in 1..m /\ n - 1 \in 0..m
    BY <1>4
  <2>2. u[n] = step[u[n - 1]] /\ u[n - 1] \in SUBSET D
    BY <1>2, <1>3, <2>1
  <2>3. QED
    BY <1>0, <2>1, <2>2
<1>5. S \subseteq u[m]
  <2> DEFINE T == {n \in 0..m : ~(S \subseteq u[n])}
  <2>1. SUFFICES ASSUME T # {} PROVE FALSE
    OBVIOUS
  <2>2. PICK n \in T : \A l \in T : n <= l
    <3>1. T \in SUBSET Nat
      OBVIOUS
    <3>2. QED
      BY <2>1, <3>1, LeastNat
  <2>3. n # 0
    BY <1>2
  <2>4. n - 1 \in 0..m /\ n - 1 \notin T
    BY <1>4, <2>2, <2>3
  <2>5. QED
    BY <1>4, <2>3, <2>4
<1>6. CASE \A n \in 1..m : u[n] # u[n - 1]
  <2> DEFINE T == {n \in 0..m : Cardinality(u[n]) < n}
  <2>1. T = {}
    <3>1. SUFFICES ASSUME T # {} PROVE FALSE
      OBVIOUS
    <3>2. PICK n \in T : \A l \in T : n <= l
      <4>1. T \in SUBSET Nat
        OBVIOUS
      <4>2. QED
        BY <3>1, <4>1, LeastNat
    <3>3. n # 0
      BY <1>3
    <3>4. n - 1 \in 0..m /\ n - 1 \notin T /\ u[n - 1] \subseteq u[n] /\ u[n - 1] # u[n]
      <4>1. n \in 0..m /\ n - 1 \notin T
        BY <3>2, <3>3
      <4>2. n \in 1..m /\ n - 1 \in 0..m /\ u[n - 1] \subseteq u[n]
        BY <1>4, <3>3, <4>1
      <4>3. QED
        BY <1>6, <4>1, <4>2
    <3>5. /\ Cardinality(u[n - 1]) <= Cardinality(u[n])
          /\ Cardinality(u[n - 1]) # Cardinality(u[n])
      BY <1>3, <3>4, FS_Subset
    <3>6. ~(Cardinality(u[n - 1]) < n - 1)
      BY <3>4
    <3>7. Cardinality(u[n]) \in Nat /\ Cardinality(u[n - 1]) \in Nat /\ n \in Nat
          /\ Cardinality(u[n]) < n
      BY <1>3, <3>2, <3>4
    <3>8. QED
      BY <3>5, <3>6, <3>7
  <2>2. Cardinality(u[m]) = Cardinality(D)
    <3>1. Cardinality(u[m]) <= Cardinality(D) /\ Cardinality(D) \in Nat
      BY <1>3, FS_Subset, FS_CardinalityType
    <3>2. ~(Cardinality(u[m]) < m)
      BY <2>1
    <3>3. QED
      BY <1>3, <3>1, <3>2
  <2>3. u[m] = D
    BY <1>3, <2>2, FS_Subset
  <2>4. QED
    BY <1>0, <1>1, <1>5, <2>3
<1>7. CASE \E n \in 1..m : u[n] = u[n - 1]
  <2>1. PICK n \in 1..m : u[n] = u[n - 1]
    BY <1>7
  <2>2. step[u[n]] = u[n]
    BY <1>4, <2>1
  <2> DEFINE T == {l \in n..m : u[l] # u[n]}
  <2>3. T = {}
    <3>1. SUFFICES ASSUME T # {} PROVE FALSE
      OBVIOUS
    <3>2. PICK l \in T : \A j \in T : l <= j
      <4>1. T \in SUBSET Nat
        OBVIOUS
      <4>2. QED
        BY <3>1, <4>1, LeastNat
    <3>3. l - 1 \in n..m /\ l - 1 \notin T /\ l \in 0..m /\ l # 0
      BY <3>2
    <3>4. u[l - 1] = u[n] /\ u[l] = step[u[l - 1]]
      BY <1>4, <3>3
    <3>5. QED
      BY <2>2, <3>2, <3>4
  <2>4. u[m] = u[n]
    BY <2>3
  <2>5. QED
    BY <1>1, <1>3, <1>5, <2>2, <2>4
<1>8. QED
  BY <1>6, <1>7

-----------------------------------------------------------------------------
(* Sequences of anything.                                                  *)

LEMMA SeqIs ==
  ASSUME NEW s, IsSeq(s)
  PROVE  Len(s) \in Nat /\ DOMAIN s = 1 .. Len(s)
BY DEF IsSeq

LEMMA SeqIn ==
  ASSUME NEW S, NEW s \in Seq(S)
  PROVE  IsSeq(s) /\ \A i \in DOMAIN s : s[i] \in S
<1>1. Len(s) \in Nat /\ DOMAIN s = 1 .. Len(s) /\ s = [i \in 1 .. Len(s) |-> s[i]]
  OBVIOUS
<1>2. \A i \in 1 .. Len(s) : s[i] \in ToSet(s)
  BY <1>1 DEF ToSet
<1>3. s \in [1 .. Len(s) -> ToSet(s)]
  BY <1>1, <1>2
<1>4. s \in Seq(ToSet(s))
  BY <1>1, <1>3
<1>5. QED
  BY <1>4 DEF IsSeq

LEMMA SeqMade ==
  ASSUME NEW n \in Nat, NEW S, NEW s \in [1..n -> S]
  PROVE  IsSeq(s) /\ Len(s) = n /\ DOMAIN s = 1..n
<1>1. s \in Seq(S) /\ Len(s) = n /\ DOMAIN s = 1..n
  OBVIOUS
<1>2. QED
  BY <1>1, SeqIn

LEMMA AppendIs ==
  ASSUME NEW s, IsSeq(s), NEW x
  PROVE  /\ IsSeq(Append(s, x))
         /\ Len(Append(s, x)) = Len(s) + 1
         /\ DOMAIN Append(s, x) = 1 .. Len(s) + 1
         /\ \A i \in DOMAIN s : Append(s, x)[i] = s[i]
         /\ Append(s, x)[Len(s) + 1] = x
<1> DEFINE S == ToSet(s) \cup {x}
<1>1. s \in Seq(S) /\ x \in S
  BY DEF IsSeq
<1> HIDE DEF S
<1>2. /\ Append(s, x) \in Seq(S)
      /\ Len(Append(s, x)) = Len(s) + 1
      /\ DOMAIN Append(s, x) = 1 .. Len(s) + 1
      /\ \A i \in DOMAIN s : Append(s, x)[i] = s[i]
      /\ Append(s, x)[Len(s) + 1] = x
  BY <1>1
<1>3. IsSeq(Append(s, x))
  BY <1>2, SeqIn
<1>4. QED
  BY <1>2, <1>3

LEMMA ToSetAppend ==
  ASSUME NEW S, NEW s \in Seq(S), NEW x \in S
  PROVE  ToSet(Append(s, x)) = ToSet(s) \cup {x}
<1>1. /\ Len(s) \in Nat /\ DOMAIN s = 1 .. Len(s)
      /\ DOMAIN Append(s, x) = 1 .. Len(s) + 1
      /\ \A i \in 1 .. Len(s) : Append(s, x)[i] = s[i]
      /\ Append(s, x)[Len(s) + 1] = x
  OBVIOUS
<1>2. ToSet(Append(s, x)) \subseteq ToSet(s) \cup {x}
  <2>1. \A i \in 1 .. Len(s) + 1 : i \in 1 .. Len(s) \/ i = Len(s) + 1
    BY <1>1
  <2>2. QED
    BY <1>1, <2>1 DEF ToSet
<1>3. ToSet(s) \cup {x} \subseteq ToSet(Append(s, x))
  <2>1. \A i \in 1 .. Len(s) : i \in 1 .. Len(s) + 1
    BY <1>1
  <2>2. Len(s) + 1 \in 1 .. Len(s) + 1
    BY <1>1
  <2>3. QED
    BY <1>1, <2>1, <2>2 DEF ToSet
<1>4. QED
  BY <1>2, <1>3

-----------------------------------------------------------------------------
(* What is reached.                                                        *)

LEMMA ReachableIs ==
  ASSUME NEW heap, IsSeq(heap), NEW found \in SUBSET DOMAIN heap,
         \A a \in DOMAIN heap : Addresses(Fields(heap[a])) \subseteq DOMAIN heap
  PROVE  /\ found \subseteq Reachable(heap, found)
         /\ Reachable(heap, found) \subseteq DOMAIN heap
         /\ \A a \in Reachable(heap, found) :
              Addresses(Fields(heap[a])) \subseteq Reachable(heap, found)
<1> DEFINE D == DOMAIN heap
           next(some) == some \cup UNION {Addresses(Fields(heap[a])) : a \in some}
           step == [some \in SUBSET D |-> next(some)]
<1>1. D = 1 .. Len(heap) /\ Len(heap) \in Nat
  BY SeqIs
<1>2. IsFiniteSet(D) /\ Cardinality(D) <= Len(heap)
  <2>1. PICK m : m = Len(heap)
    OBVIOUS
  <2>2. m \in Nat /\ 1 \in Int
    BY <1>1, <2>1
  <2>3. IsFiniteSet(1..m) /\ Cardinality(1..m) = IF 1 > m THEN 0 ELSE m - 1 + 1
    BY <2>2, FS_Interval
  <2>4. Cardinality(1..m) <= m
    BY <2>2, <2>3
  <2>5. QED
    BY <1>1, <2>1, <2>3, <2>4
<1>3. \A some \in SUBSET D : next(some) \in SUBSET D /\ some \subseteq next(some)
  OBVIOUS
<1>4. Adds(step, D)
  <2> HIDE DEF next
  <2>1. QED
    BY <1>3 DEF Adds
<1>5. PICK r : r = Walk(step, found, Len(heap))[Len(heap)]
  OBVIOUS
<1>6. Reachable(heap, found) = r
  BY <1>5 DEF Reachable
<1>7. r \subseteq D /\ found \subseteq r /\ step[r] = r
  <2> HIDE DEF D, step
  <2>1. found \in SUBSET D
    BY DEF D
  <2>2. QED
    BY <1>1, <1>2, <1>4, <1>5, <2>1, WalkCloses
<1>8. next(r) = r
  <2> HIDE DEF next
  <2>1. QED
    BY <1>7
<1>9. \A a \in r : Addresses(Fields(heap[a])) \subseteq r
  BY <1>8
<1>10. QED
  BY <1>6, <1>7, <1>9

-----------------------------------------------------------------------------
(* The blocks that a collection copies, and where it copies them to.       *)

LEMMA LiveSetIs ==
  ASSUME NEW t, IsSeq(t.heap),
         NEW reached, reached = Reachable(t.heap, Addresses(Roots(t))),
         reached \subseteq DOMAIN t.heap
  PROVE  LiveSet(t) \in Seq(Nat) /\ ToSet(LiveSet(t)) = reached
<1> DEFINE D == [next : Nat, live : Seq(Nat)]
           more(s) == [next |-> s.next + 1,
                       live |-> IF s.next \in reached THEN Append(s.live, s.next) ELSE s.live]
           copy == [s \in D |-> more(s)]
           m == Len(t.heap)
           start == [next |-> 1, live |-> <<>>]
<1>1. m \in Nat /\ DOMAIN t.heap = 1..m
  BY SeqIs
<1>2. start \in D
  OBVIOUS
<1>3. ASSUME NEW s \in D
      PROVE  more(s) \in D
  OBVIOUS
<1>4. copy \in [D -> D] /\ \A s \in D : copy[s] = more(s)
  <2> HIDE DEF D, more
  <2>1. QED
    BY <1>3
<1>5. PICK at : at = Walk(copy, start, m)
  OBVIOUS
<1>6. LiveSet(t) = at[m].live
  BY <1>5 DEF LiveSet
<1>7. Steps(copy, start, m, at) /\ at \in [0..m -> D]
  <2> HIDE DEF D, copy, start, m
  <2>1. QED
    BY <1>1, <1>2, <1>4, <1>5, WalkIs
<1>8. /\ at[0] = start
      /\ \A k \in 0..m : at[k] \in D
      /\ \A k \in 1..m : k - 1 \in 0..m /\ at[k] = more(at[k - 1])
  <2> HIDE DEF D, copy, start, more, m
  <2>1. \A k \in 1..m : k - 1 \in 0..m
    BY <1>1
  <2>2. QED
    BY <1>4, <1>7, <2>1 DEF Steps
<1> DEFINE Good(k) == at[k].next = k + 1 /\ ToSet(at[k].live) = {a \in reached : a <= k}
           T == {k \in 0..m : ~Good(k)}
<1>9. T = {}
  <2>1. SUFFICES ASSUME T # {} PROVE FALSE
    OBVIOUS
  <2>2. PICK k \in T : \A l \in T : k <= l
    <3>1. T \in SUBSET Nat
      BY <1>1
    <3>2. QED
      BY <2>1, <3>1, LeastNat
  <2>3. k # 0
    <3>1. ToSet(<<>>) = {}
      BY DEF ToSet
    <3>2. {a \in reached : a <= 0} = {}
      BY <1>1
    <3>3. Good(0)
      BY <1>8, <3>1, <3>2
    <3>4. QED
      BY <3>3
  <2>4. k \in 1..m /\ k - 1 \in 0..m /\ k - 1 \notin T
    BY <1>1, <2>2, <2>3
  <2>5. Good(k - 1)
    BY <2>4
  <2>6. PICK p : p = at[k - 1]
    OBVIOUS
  <2>7. p \in D /\ p.next = k /\ ToSet(p.live) = {a \in reached : a <= k - 1}
    BY <1>8, <2>4, <2>5, <2>6
  <2>8. at[k] = [next |-> k + 1, live |-> IF k \in reached THEN Append(p.live, k) ELSE p.live]
    <3>1. at[k] = more(p)
      <4> HIDE DEF D, copy, start, more, m, T, Good
      <4>1. QED
        BY <1>8, <2>4, <2>6
    <3>2. QED
      BY <2>7, <3>1
  <2>9. CASE k \in reached
    <3>1. p.live \in Seq(Nat) /\ k \in Nat
      BY <2>4, <2>7
    <3>2. ToSet(Append(p.live, k)) = ToSet(p.live) \cup {k}
      BY <3>1, ToSetAppend
    <3>3. {a \in reached : a <= k} = {a \in reached : a <= k - 1} \cup {k}
      BY <1>1, <2>4, <2>9
    <3>4. Good(k)
      BY <2>7, <2>8, <2>9, <3>2, <3>3
    <3>5. QED
      BY <2>2, <3>4
  <2>10. CASE k \notin reached
    <3>1. {a \in reached : a <= k} = {a \in reached : a <= k - 1}
      BY <1>1, <2>4, <2>10
    <3>2. Good(k)
      BY <2>7, <2>8, <2>10, <3>1
    <3>3. QED
      BY <2>2, <3>2
  <2>11. QED
    BY <2>9, <2>10
<1>10. m \in 0..m /\ Good(m)
  BY <1>1, <1>9
<1>11. {a \in reached : a <= m} = reached
  BY <1>1
<1>12. at[m].live \in Seq(Nat)
  BY <1>8, <1>10
<1>13. QED
  BY <1>6, <1>10, <1>11, <1>12

-----------------------------------------------------------------------------
(* The module never changes, and with it what is said about values.        *)

LEMMA FixedFunctions ==
  ASSUME module' = module
  PROVE  /\ Loadable' = Loadable
         /\ \A f : Function(f)' = Function(f)
         /\ \A f : Slots(f)' = Slots(f)
BY DEF Loadable, Function, Slots

LEMMA FixedValues ==
  ASSUME module' = module
  PROVE  \A barred, heap, v : Value(barred, heap, v)' = Value(barred, heap, v)
BY FixedFunctions DEF Value

LEMMA FixedObjects ==
  ASSUME module' = module
  PROVE  \A barred, heap, o : ObjectOK(barred, heap, o)' = ObjectOK(barred, heap, o)
BY FixedFunctions, FixedValues DEF ObjectOK, DataOK, IsPtr

LEMMA FixedCode ==
  ASSUME module' = module
  PROVE  \A f : FunctionOK(f)' = FunctionOK(f)
<1>1. \A f, ins : InBounds(f, ins)' = InBounds(f, ins)
  BY FixedFunctions DEF InBounds
<1>2. \A f : CodeOK(f)' = CodeOK(f)
  BY <1>1, FixedFunctions DEF CodeOK
<1>3. QED
  BY <1>2, FixedFunctions DEF FunctionOK

LEMMA FixedModule ==
  ASSUME module' = module
  PROVE  ModuleOK' = ModuleOK
<1>1. \A v : Constant(v)' = Constant(v)
  BY FixedValues DEF Constant
<1>2. \A barred, heap, o : DataOK(barred, heap, o)' = DataOK(barred, heap, o)
  BY FixedValues DEF DataOK
<1>3. ConstantsOK' = ConstantsOK
  BY <1>1, <1>2 DEF ConstantsOK
<1>4. QED
  BY <1>3, FixedCode DEF ModuleOK

LEMMA FixedState ==
  ASSUME module' = module, NEW barred, NEW t, NEW at, NEW c, StateOK(barred, t, at, c)
  PROVE  StateOK(barred, t, at, c)'
<1>1. HeapOK(barred, t)' = HeapOK(barred, t)
  BY FixedObjects, FixedValues DEF HeapOK
<1>2. Base(t)' = Base(t)
  BY FixedFunctions DEF Base
<1>3. FrameOK(t, at)' = FrameOK(t, at)
  BY <1>2, FixedFunctions DEF FrameOK
<1>4. CallOK(barred, t, c)' = CallOK(barred, t, c)
  BY FixedValues DEF CallOK
<1>5. QED
  BY <1>1, <1>3, <1>4 DEF StateOK, ThreadOK

LEMMA NewState ==
  ASSUME module' = module, NEW barred, NEW t, NEW at, NEW c,
         thread' = t, pc' = at, call' = c, StateOK(barred, t, at, c)
  PROVE  MachineOK(barred)'
<1>1. StateOK(barred, t, at, c)'
  BY FixedState
<1>2. QED
  BY <1>1 DEF MachineOK, StateOK

-----------------------------------------------------------------------------
(* Growing heaps.                                                          *)

\* Every object is still there, with as many slots when it has some.
Extends(old, new) ==
  /\ IsSeq(new)
  /\ \A a \in DOMAIN old :
       /\ a \in DOMAIN new
       /\ new[a].ty = old[a].ty
       /\ new[a].ty = "env" => Len(new[a].objects) = Len(old[a].objects)

LEMMA ExtendsTrans ==
  ASSUME NEW h1, NEW h2, NEW h3, Extends(h1, h2), Extends(h2, h3)
  PROVE  Extends(h1, h3)
BY DEF Extends

LEMMA ValueGrows ==
  ASSUME NEW old, NEW new, Extends(old, new), NEW barred, NEW v
  PROVE  /\ Value(barred, old, v) => Value(barred, new, v)
         /\ EnvValue(old, v) => EnvValue(new, v) /\ Len(new[v.a].objects) = Len(old[v.a].objects)
BY DEF Extends, Value, EnvValue

LEMMA ObjectGrows ==
  ASSUME NEW old, NEW new, Extends(old, new), NEW barred, NEW o, ObjectOK(barred, old, o)
  PROVE  ObjectOK(barred, new, o)
BY ValueGrows DEF ObjectOK, DataOK, IsPtr

\* The registers that say what the current function and its place are.
SameFrame(t, p) ==
  /\ p.env = t.env /\ p.objects = t.objects /\ p.bindmap = t.bindmap
  /\ p.func = t.func /\ p.heap_env = t.heap_env
  /\ p.local_roots = t.local_roots /\ p.status = t.status
SameRegisters(t, p) ==
  /\ SameFrame(t, p) /\ p.closure = t.closure /\ p.lib_cache = t.lib_cache
  /\ p.exception_handlers = t.exception_handlers
SameStack(t, p) == p.idx = t.idx /\ p.opstack = t.opstack

LEMMA HeapKept ==
  ASSUME NEW barred, NEW t, HeapOK(barred, t), NEW p, AllRegisters(p), SameRegisters(t, p),
         p.opstack = t.opstack, p.idx \in 0 .. t.idx, Extends(t.heap, p.heap),
         \A a \in DOMAIN p.heap : ObjectOK(barred, p.heap, p.heap[a])
  PROVE  HeapOK(barred, p)
<1>1. IsSeq(p.heap) /\ DOMAIN p.opstack = 1..StackSize /\ p.idx \in 0..StackSize
  BY VmAssumption DEF HeapOK, Extends
<1>2. \A i \in 1 .. p.idx : Value(barred, p.heap, p.opstack[i])
  <2>1. \A i \in 1 .. p.idx : i \in 1 .. t.idx
    BY DEF HeapOK
  <2>2. QED
    BY <2>1, ValueGrows DEF HeapOK
<1>3. \A v \in {p.closure, p.lib_cache, p.exception_handlers} : Value(barred, p.heap, v)
  BY ValueGrows DEF HeapOK, SameRegisters
<1>4. EnvValue(p.heap, p.env)
  BY ValueGrows DEF HeapOK, SameRegisters, SameFrame
<1>5. /\ p.heap_env \in BOOLEAN
      /\ IF p.heap_env THEN EnvValue(p.heap, p.objects) ELSE p.objects.k = "slot"
  BY ValueGrows DEF HeapOK, SameRegisters, SameFrame
<1>6. QED
  BY <1>1, <1>2, <1>3, <1>4, <1>5 DEF HeapOK

LEMMA PlaceIs ==
  ASSUME NEW t, AllRegisters(t), IsSeq(t.heap), NEW o,
         NEW p, p = Place(t, o)
  PROVE  /\ AllRegisters(p) /\ SameRegisters(t, p) /\ SameStack(t, p)
         /\ Extends(t.heap, p.heap)
         /\ New(p) = Ptr(Len(t.heap) + 1)
         /\ DOMAIN p.heap = 1 .. Len(t.heap) + 1
         /\ \A a \in DOMAIN t.heap : p.heap[a] = t.heap[a]
         /\ p.heap[Len(t.heap) + 1] = o
<1>1. /\ AllRegisters(p) /\ SameRegisters(t, p) /\ SameStack(t, p)
      /\ p.heap = Append(t.heap, o)
  BY DEF Place, AllRegisters, SameRegisters, SameFrame, SameStack
<1>2. Len(t.heap) \in Nat /\ DOMAIN t.heap = 1 .. Len(t.heap)
  BY SeqIs
<1>3. /\ IsSeq(p.heap) /\ Len(p.heap) = Len(t.heap) + 1
      /\ DOMAIN p.heap = 1 .. Len(t.heap) + 1
      /\ \A a \in DOMAIN t.heap : p.heap[a] = t.heap[a]
      /\ p.heap[Len(t.heap) + 1] = o
  BY <1>1, AppendIs
<1>4. Extends(t.heap, p.heap)
  BY <1>2, <1>3 DEF Extends
<1>5. New(p) = Ptr(Len(t.heap) + 1)
  BY <1>3 DEF New
<1>6. QED
  BY <1>1, <1>3, <1>4, <1>5

LEMMA PlaceKeeps ==
  ASSUME NEW barred, "ptr" \notin barred, NEW t, HeapOK(barred, t),
         NEW o, ObjectOK(barred, t.heap, o), NEW p, p = Place(t, o)
  PROVE  /\ HeapOK(barred, p) /\ Value(barred, p.heap, New(p))
         /\ o.ty = "env" => EnvValue(p.heap, New(p))
<1>1. AllRegisters(t) /\ IsSeq(t.heap)
  BY DEF HeapOK
<1>2. /\ AllRegisters(p) /\ SameRegisters(t, p) /\ SameStack(t, p)
      /\ Extends(t.heap, p.heap) /\ New(p) = Ptr(Len(t.heap) + 1)
      /\ DOMAIN p.heap = 1 .. Len(t.heap) + 1
      /\ \A a \in DOMAIN t.heap : p.heap[a] = t.heap[a]
      /\ p.heap[Len(t.heap) + 1] = o
  BY <1>1, PlaceIs
<1>3. Len(t.heap) \in Nat /\ DOMAIN t.heap = 1 .. Len(t.heap)
  BY <1>1, SeqIs
<1>4. \A a \in DOMAIN p.heap : ObjectOK(barred, p.heap, p.heap[a])
  <2>1. \A a \in DOMAIN p.heap : a \in DOMAIN t.heap \/ a = Len(t.heap) + 1
    BY <1>2, <1>3
  <2>2. \A a \in DOMAIN t.heap : ObjectOK(barred, t.heap, t.heap[a])
    BY DEF HeapOK
  <2>3. QED
    BY <1>2, <2>1, <2>2, ObjectGrows
<1>5. HeapOK(barred, p)
  <2>1. p.opstack = t.opstack /\ p.idx \in 0 .. t.idx
    BY <1>2 DEF SameStack, HeapOK
  <2>2. QED
    BY <1>2, <1>4, <2>1, HeapKept
<1>6. Value(barred, p.heap, New(p))
  BY <1>2, <1>3 DEF Value, Ptr
<1>7. o.ty = "env" => EnvValue(p.heap, New(p))
  BY <1>2, <1>3 DEF EnvValue, Ptr
<1>8. QED
  BY <1>5, <1>6, <1>7

-----------------------------------------------------------------------------
(* The operand stack.                                                      *)

LEMMA PushAllIs ==
  ASSUME NEW t, AllRegisters(t), DOMAIN t.opstack = 1..StackSize, t.idx \in 0..StackSize,
         NEW values, IsSeq(values), NEW p, p = PushAll(t, values)
  PROVE  \/ p.status # "run"
         \/ /\ AllRegisters(p) /\ SameRegisters(t, p)
            /\ p.heap = t.heap
            /\ DOMAIN p.opstack = 1..StackSize
            /\ p.idx = t.idx + Len(values) /\ p.idx \in 0..StackSize
            /\ \A i \in 1 .. t.idx : p.opstack[i] = t.opstack[i]
            /\ \A i \in 1 .. Len(values) : p.opstack[t.idx + i] = values[i]
<1>1. Len(values) \in Nat
  BY SeqIs
<1>2. CASE t.idx + Len(values) < StackSize
  <2> DEFINE n == Len(values)
             stack == [i \in DOMAIN t.opstack |-> IF i \in t.idx + 1 .. t.idx + n
                                                  THEN values[i - t.idx] ELSE t.opstack[i]]
  <2>1. p = [t EXCEPT !.opstack = stack, !.idx = t.idx + n]
    BY <1>2 DEF PushAll
  <2> HIDE DEF stack
  <2>2. /\ AllRegisters(p) /\ SameRegisters(t, p) /\ p.heap = t.heap
        /\ p.opstack = stack /\ p.idx = t.idx + n
    BY <2>1 DEF AllRegisters, SameRegisters, SameFrame
  <2>3. DOMAIN stack = 1..StackSize /\ p.idx \in 0..StackSize
    BY <1>1, <1>2, <2>2, VmAssumption DEF stack
  <2>4. \A i \in 1 .. t.idx : stack[i] = t.opstack[i]
    BY VmAssumption DEF stack
  <2>5. \A i \in 1..n : stack[t.idx + i] = values[i]
    <3>1. ASSUME NEW i \in 1..n
          PROVE  /\ t.idx + i \in 1..StackSize /\ t.idx + i \in t.idx + 1 .. t.idx + n
                 /\ t.idx + i - t.idx = i
      BY <1>1, <1>2, VmAssumption
    <3>2. QED
      BY <3>1 DEF stack
  <2>6. QED
    BY <2>2, <2>3, <2>4, <2>5
<1>3. CASE ~(t.idx + Len(values) < StackSize)
  <2>1. PICK why \in {"fatal", "undefined"} : p = [t EXCEPT !.status = why]
    BY <1>3 DEF PushAll, Stop
  <2>2. p.status = why
    BY <2>1 DEF AllRegisters
  <2>3. QED
    BY <2>2
<1>4. QED
  BY <1>2, <1>3

LEMMA PushAllKeeps ==
  ASSUME NEW barred, NEW t, HeapOK(barred, t),
         NEW values, IsSeq(values), \A i \in 1 .. Len(values) : Value(barred, t.heap, values[i]),
         NEW p, p = PushAll(t, values), p.status = "run"
  PROVE  HeapOK(barred, p)
<1>1. /\ AllRegisters(p) /\ SameRegisters(t, p)
      /\ p.heap = t.heap
      /\ DOMAIN p.opstack = 1..StackSize
      /\ p.idx = t.idx + Len(values) /\ p.idx \in 0..StackSize
      /\ \A i \in 1 .. t.idx : p.opstack[i] = t.opstack[i]
      /\ \A i \in 1 .. Len(values) : p.opstack[t.idx + i] = values[i]
  <2>1. AllRegisters(t) /\ DOMAIN t.opstack = 1..StackSize /\ t.idx \in 0..StackSize
    BY DEF HeapOK
  <2>2. QED
    BY <2>1, PushAllIs
<1>2. \A i \in 1 .. p.idx : Value(barred, p.heap, p.opstack[i])
  <2>1. SUFFICES ASSUME NEW i \in 1 .. p.idx
                 PROVE  Value(barred, p.heap, p.opstack[i])
    OBVIOUS
  <2>2. t.idx \in Nat /\ Len(values) \in Nat
    BY SeqIs, VmAssumption DEF HeapOK
  <2>3. CASE i <= t.idx
    BY <1>1, <2>2, <2>3 DEF HeapOK
  <2>4. CASE i > t.idx
    <3>1. i - t.idx \in 1 .. Len(values) /\ t.idx + (i - t.idx) = i
      BY <1>1, <2>2, <2>4
    <3>2. p.opstack[i] = values[i - t.idx]
      BY <1>1, <3>1
    <3>3. QED
      BY <1>1, <3>1, <3>2
  <2>5. QED
    BY <2>2, <2>3, <2>4
<1>3. \A v \in {p.closure, p.lib_cache, p.exception_handlers} : Value(barred, p.heap, v)
  BY <1>1 DEF HeapOK, SameRegisters
<1>4. EnvValue(p.heap, p.env)
  BY <1>1 DEF HeapOK, SameRegisters, SameFrame
<1>5. /\ p.heap_env \in BOOLEAN
      /\ IF p.heap_env THEN EnvValue(p.heap, p.objects) ELSE p.objects.k = "slot"
  BY <1>1 DEF HeapOK, SameRegisters, SameFrame
<1>6. IsSeq(p.heap) /\ \A a \in DOMAIN p.heap : ObjectOK(barred, p.heap, p.heap[a])
  BY <1>1 DEF HeapOK
<1>7. QED
  BY <1>1, <1>2, <1>3, <1>4, <1>5, <1>6 DEF HeapOK

LEMMA OneIsSeq ==
  ASSUME NEW v
  PROVE  IsSeq(<<v>>) /\ Len(<<v>>) = 1 /\ <<v>>[1] = v
<1>1. <<v>> \in Seq({v}) /\ Len(<<v>>) = 1 /\ <<v>>[1] = v
  OBVIOUS
<1>2. QED
  BY <1>1, SeqIn

LEMMA PushIs ==
  ASSUME NEW barred, NEW t, HeapOK(barred, t), NEW v, Value(barred, t.heap, v)
  PROVE  \A p : p = Push(t, v) /\ p.status = "run" =>
           /\ HeapOK(barred, p) /\ SameRegisters(t, p) /\ p.heap = t.heap
           /\ p.idx = t.idx + 1
           /\ \A i \in 1 .. t.idx : p.opstack[i] = t.opstack[i]
           /\ p.opstack[t.idx + 1] = v
<1>1. PICK s : s = <<v>>
  OBVIOUS
<1>2. IsSeq(s) /\ Len(s) = 1 /\ s[1] = v
  BY <1>1, OneIsSeq
<1>3. SUFFICES ASSUME NEW p, p = PushAll(t, s), p.status = "run"
               PROVE  /\ HeapOK(barred, p) /\ SameRegisters(t, p) /\ p.heap = t.heap
                      /\ p.idx = t.idx + 1
                      /\ \A i \in 1 .. t.idx : p.opstack[i] = t.opstack[i]
                      /\ p.opstack[t.idx + 1] = v
  BY <1>1, <1>3 DEF Push
<1>4. \A i \in 1 .. Len(s) : Value(barred, t.heap, s[i])
  BY <1>2
<1>5. HeapOK(barred, p)
  BY <1>2, <1>3, <1>4, PushAllKeeps
<1>6. AllRegisters(t) /\ DOMAIN t.opstack = 1..StackSize /\ t.idx \in 0..StackSize
  BY DEF HeapOK
<1>7. /\ SameRegisters(t, p) /\ p.heap = t.heap /\ p.idx = t.idx + Len(s)
      /\ \A i \in 1 .. t.idx : p.opstack[i] = t.opstack[i]
      /\ \A i \in 1 .. Len(s) : p.opstack[t.idx + i] = s[i]
  <2>1. IsSeq(s)
    BY <1>2
  <2>2. QED
    BY <2>1, <1>3, <1>6, PushAllIs
<1>8. p.opstack[t.idx + 1] = v
  BY <1>2, <1>7
<1>9. QED
  BY <1>2, <1>5, <1>7, <1>8

LEMMA PopIs ==
  ASSUME NEW barred, NEW t, HeapOK(barred, t), NEW n \in Nat, n <= t.idx,
         NEW p, p = Pop(t, n)
  PROVE  /\ HeapOK(barred, p) /\ SameRegisters(t, p) /\ p.heap = t.heap
         /\ p.idx = t.idx - n /\ p.opstack = t.opstack
<1>1. /\ AllRegisters(p) /\ SameRegisters(t, p) /\ p.heap = t.heap
      /\ p.idx = t.idx - n /\ p.opstack = t.opstack
  BY DEF Pop, HeapOK, AllRegisters, SameRegisters, SameFrame
<1>2. p.idx \in 0 .. t.idx
  BY <1>1, VmAssumption DEF HeapOK
<1>3. Extends(t.heap, p.heap) /\ \A a \in DOMAIN p.heap : ObjectOK(barred, p.heap, p.heap[a])
  BY <1>1 DEF Extends, HeapOK
<1>4. QED
  BY <1>1, <1>2, <1>3, HeapKept

LEMMA CatIs ==
  ASSUME NEW a, IsSeq(a), NEW b, IsSeq(b)
  PROVE  /\ IsSeq(a \o b)
         /\ Len(a \o b) = Len(a) + Len(b)
         /\ DOMAIN (a \o b) = 1 .. Len(a) + Len(b)
         /\ \A i \in 1 .. Len(a) : (a \o b)[i] = a[i]
         /\ \A i \in Len(a) + 1 .. Len(a) + Len(b) : (a \o b)[i] = b[i - Len(a)]
<1> DEFINE S == ToSet(a) \cup ToSet(b)
<1>1. a \in Seq(S) /\ b \in Seq(S)
  BY DEF IsSeq
<1> HIDE DEF S
<1>2. /\ a \o b \in Seq(S)
      /\ Len(a \o b) = Len(a) + Len(b)
      /\ DOMAIN (a \o b) = 1 .. Len(a) + Len(b)
      /\ \A i \in 1 .. Len(a) : (a \o b)[i] = a[i]
      /\ \A i \in Len(a) + 1 .. Len(a) + Len(b) : (a \o b)[i] = b[i - Len(a)]
  BY <1>1
<1>3. IsSeq(a \o b)
  BY <1>2, SeqIn
<1>4. QED
  BY <1>2, <1>3

LEMMA ToSetCat ==
  ASSUME NEW a, IsSeq(a), NEW b, IsSeq(b)
  PROVE  IsSeq(a \o b) /\ ToSet(a \o b) = ToSet(a) \cup ToSet(b)
<1>1. /\ IsSeq(a \o b)
      /\ DOMAIN (a \o b) = 1 .. Len(a) + Len(b)
      /\ \A i \in 1 .. Len(a) : (a \o b)[i] = a[i]
      /\ \A i \in Len(a) + 1 .. Len(a) + Len(b) : (a \o b)[i] = b[i - Len(a)]
  BY CatIs
<1>2. /\ Len(a) \in Nat /\ DOMAIN a = 1 .. Len(a)
      /\ Len(b) \in Nat /\ DOMAIN b = 1 .. Len(b)
  BY SeqIs
<1>3. PICK c : c = a \o b
  OBVIOUS
<1>4. /\ DOMAIN c = 1 .. Len(a) + Len(b)
      /\ \A i \in 1 .. Len(a) : c[i] = a[i]
      /\ \A i \in Len(a) + 1 .. Len(a) + Len(b) : c[i] = b[i - Len(a)]
  BY <1>1, <1>3
<1>5. \A i \in DOMAIN c : c[i] \in ToSet(a) \cup ToSet(b)
  <2>1. SUFFICES ASSUME NEW i \in DOMAIN c PROVE c[i] \in ToSet(a) \cup ToSet(b)
    OBVIOUS
  <2>2. CASE i <= Len(a)
    <3>1. i \in 1 .. Len(a)
      BY <1>2, <1>4, <2>2
    <3>2. QED
      BY <1>2, <1>4, <3>1 DEF ToSet
  <2>3. CASE i > Len(a)
    <3>1. i \in Len(a) + 1 .. Len(a) + Len(b) /\ i - Len(a) \in 1 .. Len(b)
      BY <1>2, <1>4, <2>3
    <3>2. QED
      BY <1>2, <1>4, <3>1 DEF ToSet
  <2>4. QED
    BY <1>2, <1>4, <2>2, <2>3
<1>6. \A i \in DOMAIN a : a[i] \in ToSet(c)
  <2>1. \A i \in 1 .. Len(a) : i \in 1 .. Len(a) + Len(b)
    BY <1>2
  <2>2. QED
    BY <1>2, <1>4, <2>1 DEF ToSet
<1>7. \A i \in DOMAIN b : b[i] \in ToSet(c)
  <2>1. \A i \in 1 .. Len(b) : /\ i + Len(a) \in Len(a) + 1 .. Len(a) + Len(b)
                               /\ i + Len(a) \in 1 .. Len(a) + Len(b)
                               /\ i + Len(a) - Len(a) = i
    BY <1>2
  <2>2. \A i \in 1 .. Len(b) : c[i + Len(a)] = b[i]
    BY <1>4, <2>1
  <2>3. SUFFICES ASSUME NEW i \in DOMAIN b PROVE b[i] \in ToSet(c)
    OBVIOUS
  <2>4. PICK j : j = i + Len(a)
    OBVIOUS
  <2>5. j \in DOMAIN c /\ c[j] = b[i]
    BY <1>2, <1>4, <2>1, <2>2, <2>4
  <2>6. QED
    BY <2>5 DEF ToSet
<1>8. ToSet(c) = ToSet(a) \cup ToSet(b)
  <2>1. ToSet(c) \subseteq ToSet(a) \cup ToSet(b)
    BY <1>5 DEF ToSet
  <2>2. ToSet(a) \subseteq ToSet(c) /\ ToSet(b) \subseteq ToSet(c)
    BY <1>6, <1>7 DEF ToSet
  <2>3. QED
    BY <2>1, <2>2
<1>9. QED
  BY <1>1, <1>3, <1>8

-----------------------------------------------------------------------------
(* Collections.                                                            *)

\* The local roots of C code that allocates are values too.
RootsOK(barred, t) ==
  /\ IsSeq(t.local_roots)
  /\ \A i \in DOMAIN t.local_roots : Value(barred, t.heap, t.local_roots[i])

LEMMA RootsAre ==
  ASSUME NEW barred, NEW t, HeapOK(barred, t), IsSeq(t.local_roots)
  PROVE  ToSet(Roots(t)) = {t.env, t.closure, t.lib_cache, t.exception_handlers}
                             \cup {t.opstack[i] : i \in 1 .. t.idx} \cup ToSet(t.local_roots)
<1>1. PICK u, w, e, x : /\ u = <<t.env>> /\ w = <<t.closure, t.lib_cache, t.exception_handlers>>
                        /\ e = [i \in 1 .. t.idx |-> t.opstack[i]] /\ x = t.local_roots
  OBVIOUS
<1>2. IsSeq(u) /\ ToSet(u) = {t.env}
  <2>1. u \in Seq({t.env}) /\ DOMAIN u = 1..1 /\ u[1] = t.env
    BY <1>1
  <2>2. QED
    BY <2>1, SeqIn DEF ToSet
<1>3. IsSeq(w) /\ ToSet(w) = {t.closure, t.lib_cache, t.exception_handlers}
  <2>1. /\ w \in Seq({t.closure, t.lib_cache, t.exception_handlers})
        /\ DOMAIN w = 1..3 /\ w[1] = t.closure /\ w[2] = t.lib_cache
        /\ w[3] = t.exception_handlers
    BY <1>1
  <2>2. \A i : i \in 1..3 <=> i = 1 \/ i = 2 \/ i = 3
    OBVIOUS
  <2>3. ToSet(w) = {t.closure, t.lib_cache, t.exception_handlers}
    BY <2>1, <2>2 DEF ToSet
  <2>4. QED
    BY <2>1, <2>3, SeqIn
<1>4. IsSeq(e) /\ ToSet(e) = {t.opstack[i] : i \in 1 .. t.idx}
  <2>1. t.idx \in Nat
    BY VmAssumption DEF HeapOK
  <2>2. e \in [1 .. t.idx -> {t.opstack[i] : i \in 1 .. t.idx}]
    BY <1>1
  <2>3. IsSeq(e) /\ DOMAIN e = 1 .. t.idx
    BY <2>1, <2>2, SeqMade
  <2>4. QED
    BY <1>1, <2>3 DEF ToSet
<1>5. Roots(t) = u \o e \o w \o x
  BY <1>1 DEF Roots
<1>6. IsSeq(x)
  BY <1>1
<1>7. IsSeq(u \o e) /\ ToSet(u \o e) = ToSet(u) \cup ToSet(e)
  BY <1>2, <1>4, ToSetCat
<1>8. IsSeq(u \o e \o w) /\ ToSet(u \o e \o w) = ToSet(u \o e) \cup ToSet(w)
  BY <1>3, <1>7, ToSetCat
<1>9. ToSet(u \o e \o w \o x) = ToSet(u \o e \o w) \cup ToSet(x)
  BY <1>6, <1>8, ToSetCat
<1>10. ToSet(Roots(t)) = {t.env} \cup {t.opstack[i] : i \in 1 .. t.idx}
                          \cup {t.closure, t.lib_cache, t.exception_handlers} \cup ToSet(x)
  BY <1>2, <1>3, <1>4, <1>5, <1>7, <1>8, <1>9
<1>11. QED
  BY <1>1, <1>10

\* What an object holds in its fields.
LEMMA FieldsAre ==
  ASSUME NEW barred, NEW heap, NEW o, ObjectOK(barred, heap, o)
  PROVE  /\ o.ty = "env" => ToSet(Fields(o)) = {o.prev} \cup {o.objects[i] : i \in DOMAIN o.objects}
         /\ o.ty = "closure" => ToSet(Fields(o)) = {o.env}
         /\ o.ty = "cont" => ToSet(Fields(o)) = {o.func}
         /\ o.ty = "pair" => ToSet(Fields(o)) = {o.car, o.cdr}
         /\ o.ty = "struct" => ToSet(Fields(o)) = {o.fields[i] : i \in DOMAIN o.fields}
         /\ o.ty \in {"string", "bytevector"} => ToSet(Fields(o)) = {}
<1>1. ASSUME NEW v
      PROVE  IsSeq(<<v>>) /\ ToSet(<<v>>) = {v}
  <2>1. PICK u : u = <<v>>
    OBVIOUS
  <2>2. u \in Seq({v}) /\ DOMAIN u = 1..1 /\ u[1] = v
    BY <2>1
  <2>3. IsSeq(u) /\ ToSet(u) = {v}
    BY <2>2, SeqIn DEF ToSet
  <2>4. QED
    BY <2>1, <2>3
<1>2. CASE o.ty = "env"
  <2>1. Fields(o) = <<o.prev>> \o o.objects
    BY <1>2 DEF Fields
  <2>2. IsSeq(o.objects)
    BY <1>2 DEF ObjectOK
  <2>3. ToSet(Fields(o)) = {o.prev} \cup ToSet(o.objects)
    BY <1>1, <2>1, <2>2, ToSetCat
  <2>4. QED
    BY <1>2, <2>3 DEF ToSet
<1>3. CASE o.ty = "closure"
  BY <1>1, <1>3 DEF Fields
<1>4. CASE o.ty = "cont"
  BY <1>1, <1>4 DEF Fields
<1>5. CASE o.ty = "pair"
  <2>1. PICK u : u = <<o.car, o.cdr>>
    OBVIOUS
  <2>2. DOMAIN u = 1..2 /\ u[1] = o.car /\ u[2] = o.cdr
    BY <2>1
  <2>3. \A i : i \in 1..2 <=> i = 1 \/ i = 2
    OBVIOUS
  <2>4. ToSet(u) = {o.car, o.cdr}
    BY <2>2, <2>3 DEF ToSet
  <2>5. Fields(o) = u
    BY <1>5, <2>1 DEF Fields
  <2>6. QED
    BY <1>5, <2>4, <2>5
<1>6. CASE o.ty = "struct"
  BY <1>6 DEF Fields, ToSet
<1>7. CASE o.ty \in {"string", "bytevector"}
  <2>1. Fields(o) = <<>>
    BY <1>7 DEF Fields
  <2>2. ToSet(<<>>) = {}
    BY DEF ToSet
  <2>3. QED
    BY <1>7, <2>1, <2>2
<1>8. QED
  BY <1>2, <1>3, <1>4, <1>5, <1>6, <1>7

LEMMA Reaches ==
  ASSUME NEW barred, NEW t, HeapOK(barred, t), RootsOK(barred, t)
  PROVE  /\ LiveSet(t) \in Seq(Nat)
         /\ ToSet(LiveSet(t)) \subseteq DOMAIN t.heap
         /\ \A v \in ToSet(Roots(t)) : IsPtr(v) => v.a \in ToSet(LiveSet(t))
         /\ \A a \in ToSet(LiveSet(t)) : \A v \in ToSet(Fields(t.heap[a])) :
              IsPtr(v) => v.a \in ToSet(LiveSet(t))
<1>1. IsSeq(t.heap) /\ \A a \in DOMAIN t.heap : ObjectOK(barred, t.heap, t.heap[a])
  BY DEF HeapOK
<1>2. \A v \in ToSet(Roots(t)) : IsPtr(v) => v.a \in DOMAIN t.heap
  <2>1. SUFFICES ASSUME NEW v \in ToSet(Roots(t)), IsPtr(v)
                 PROVE  v.a \in DOMAIN t.heap
    OBVIOUS
  <2>2. \/ v \in {t.env, t.closure, t.lib_cache, t.exception_handlers}
        \/ \E i \in 1 .. t.idx : v = t.opstack[i]
        \/ v \in ToSet(t.local_roots)
    BY RootsAre DEF RootsOK
  <2>3. Value(barred, t.heap, v) \/ EnvValue(t.heap, v)
    BY <2>2 DEF HeapOK, RootsOK, ToSet
  <2>4. QED
    BY <2>1, <2>3 DEF Value, EnvValue, IsPtr
<1>3. \A a \in DOMAIN t.heap : \A v \in ToSet(Fields(t.heap[a])) :
        IsPtr(v) => v.a \in DOMAIN t.heap
  <2>1. SUFFICES ASSUME NEW a \in DOMAIN t.heap, NEW v \in ToSet(Fields(t.heap[a])), IsPtr(v)
                 PROVE  v.a \in DOMAIN t.heap
    OBVIOUS
  <2>2. PICK o : o = t.heap[a]
    OBVIOUS
  <2>3. ObjectOK(barred, t.heap, o)
    BY <1>1, <2>2
  <2>4. EnvValue(t.heap, v) \/ Value(barred, t.heap, v)
    <3>1. v \in ToSet(Fields(o))
      BY <2>2
    <3>2. CASE o.ty = "env"
      <4>1. v = o.prev \/ \E i \in DOMAIN o.objects : v = o.objects[i]
        BY <2>3, <3>1, <3>2, FieldsAre
      <4>2. QED
        BY <2>1, <2>3, <3>2, <4>1 DEF ObjectOK
    <3>3. CASE o.ty = "closure" \/ o.ty = "cont"
      BY <2>3, <3>1, <3>3, FieldsAre DEF ObjectOK
    <3>4. CASE o.ty = "pair"
      <4>1. v = o.car \/ v = o.cdr
        BY <2>3, <3>1, <3>4, FieldsAre
      <4>2. QED
        BY <2>3, <3>4, <4>1 DEF ObjectOK, DataOK
    <3>5. CASE o.ty = "struct"
      <4>1. \E i \in DOMAIN o.fields : v = o.fields[i]
        BY <2>3, <3>1, <3>5, FieldsAre
      <4>2. QED
        BY <2>3, <3>5, <4>1 DEF ObjectOK, DataOK
    <3>6. CASE o.ty \in {"string", "bytevector"}
      BY <2>3, <3>1, <3>6, FieldsAre
    <3>7. QED
      BY <2>3, <3>2, <3>3, <3>4, <3>5, <3>6 DEF ObjectOK
  <2>5. QED
    BY <2>1, <2>4 DEF Value, EnvValue, IsPtr
<1> DEFINE found == Addresses(Roots(t))
<1>4. found \in SUBSET DOMAIN t.heap
  BY <1>2 DEF Addresses
<1>5. \A a \in DOMAIN t.heap : Addresses(Fields(t.heap[a])) \subseteq DOMAIN t.heap
  BY <1>3 DEF Addresses
<1>6. PICK reached : reached = Reachable(t.heap, found)
  OBVIOUS
<1>7. /\ found \subseteq reached
      /\ reached \subseteq DOMAIN t.heap
      /\ \A a \in reached : Addresses(Fields(t.heap[a])) \subseteq reached
  <2> HIDE DEF found
  <2>1. QED
    BY <1>1, <1>4, <1>5, <1>6, ReachableIs
<1>8. LiveSet(t) \in Seq(Nat) /\ ToSet(LiveSet(t)) = reached
  BY <1>1, <1>6, <1>7, LiveSetIs
<1>9. \A v \in ToSet(Roots(t)) : IsPtr(v) => v.a \in reached
  BY <1>7 DEF Addresses
<1>10. \A a \in reached : \A v \in ToSet(Fields(t.heap[a])) : IsPtr(v) => v.a \in reached
  BY <1>7 DEF Addresses
<1>11. QED
  BY <1>7, <1>8, <1>9, <1>10

\* What an object becomes when it is copied.
Copy(live, o) ==
  CASE o.ty = "env" -> [o EXCEPT !.prev = HeapMark(live, @),
                                 !.objects = [i \in DOMAIN @ |-> HeapMark(live, @[i])]]
    [] o.ty = "closure" -> [o EXCEPT !.env = HeapMark(live, @)]
    [] o.ty = "cont" -> [o EXCEPT !.func = HeapMark(live, @)]
    [] o.ty = "pair" -> [o EXCEPT !.car = HeapMark(live, @), !.cdr = HeapMark(live, @)]
    [] o.ty = "struct" -> [o EXCEPT !.fields = [i \in DOMAIN @ |-> HeapMark(live, @[i])]]
    [] o.ty = "string" -> StringVisit(o)
    [] OTHER -> o

LEMMA CopiedIs ==
  ASSUME NEW t, AllRegisters(t), NEW live
  PROVE  \A c : c = CopiedTo(t, live) =>
           /\ AllRegisters(c)
           /\ c.heap = [i \in DOMAIN live |-> Copy(live, t.heap[live[i]])]
           /\ c.env = HeapMark(live, t.env) /\ c.closure = HeapMark(live, t.closure)
           /\ c.lib_cache = HeapMark(live, t.lib_cache)
           /\ c.exception_handlers = HeapMark(live, t.exception_handlers)
           /\ c.opstack = [i \in DOMAIN t.opstack |->
                             IF i <= t.idx THEN HeapMark(live, t.opstack[i])
                             ELSE IF IsPtr(t.opstack[i]) THEN Stale ELSE t.opstack[i]]
           /\ c.local_roots = [i \in DOMAIN t.local_roots |-> HeapMark(live, t.local_roots[i])]
           /\ c.objects = AfterGc(t, HeapMark(live, t.env),
                                  IF IsPtr(t.objects) THEN Stale ELSE t.objects)
           /\ c.idx = t.idx /\ c.func = t.func /\ c.bindmap = t.bindmap
           /\ c.heap_env = t.heap_env /\ c.status = t.status
<1>1. SUFFICES ASSUME NEW c, c = CopiedTo(t, live)
               PROVE  /\ AllRegisters(c)
                      /\ c.heap = [i \in DOMAIN live |-> Copy(live, t.heap[live[i]])]
                      /\ c.env = HeapMark(live, t.env) /\ c.closure = HeapMark(live, t.closure)
                      /\ c.lib_cache = HeapMark(live, t.lib_cache)
                      /\ c.exception_handlers = HeapMark(live, t.exception_handlers)
                      /\ c.opstack = [i \in DOMAIN t.opstack |->
                                        IF i <= t.idx THEN HeapMark(live, t.opstack[i])
                                        ELSE IF IsPtr(t.opstack[i]) THEN Stale ELSE t.opstack[i]]
                      /\ c.local_roots =
                           [i \in DOMAIN t.local_roots |-> HeapMark(live, t.local_roots[i])]
                      /\ c.objects = AfterGc(t, HeapMark(live, t.env),
                                             IF IsPtr(t.objects) THEN Stale ELSE t.objects)
                      /\ c.idx = t.idx /\ c.func = t.func /\ c.bindmap = t.bindmap
                      /\ c.heap_env = t.heap_env /\ c.status = t.status
  OBVIOUS
<1>2. AllRegisters(c)
  BY <1>1 DEF CopiedTo, AllRegisters
<1>3. c.heap = [i \in DOMAIN live |-> Copy(live, t.heap[live[i]])]
  BY <1>1 DEF CopiedTo, Copy, AllRegisters
<1>4. /\ c.env = HeapMark(live, t.env) /\ c.closure = HeapMark(live, t.closure)
      /\ c.lib_cache = HeapMark(live, t.lib_cache)
      /\ c.exception_handlers = HeapMark(live, t.exception_handlers)
  BY <1>1 DEF CopiedTo, AllRegisters
<1>5. c.opstack = [i \in DOMAIN t.opstack |->
                     IF i <= t.idx THEN HeapMark(live, t.opstack[i])
                     ELSE IF IsPtr(t.opstack[i]) THEN Stale ELSE t.opstack[i]]
  BY <1>1 DEF CopiedTo, AllRegisters
<1>6. /\ c.local_roots = [i \in DOMAIN t.local_roots |-> HeapMark(live, t.local_roots[i])]
      /\ c.objects = AfterGc(t, HeapMark(live, t.env),
                             IF IsPtr(t.objects) THEN Stale ELSE t.objects)
  BY <1>1 DEF CopiedTo, AllRegisters
<1>7. /\ c.idx = t.idx /\ c.func = t.func /\ c.bindmap = t.bindmap
      /\ c.heap_env = t.heap_env /\ c.status = t.status
  BY <1>1 DEF CopiedTo, AllRegisters
<1>8. QED
  BY <1>2, <1>3, <1>4, <1>5, <1>6, <1>7

\* w is in c what v was in t.
Moves(t, c, v, w) ==
  IF IsPtr(v)
  THEN LET old == t.heap[v.a]
           new == c.heap[w.a]
       IN  /\ IsPtr(w) /\ w.a \in DOMAIN c.heap /\ new.ty = old.ty
           /\ old.ty = "string" => new.s = old.s
           /\ old.ty = "env" => Len(new.objects) = Len(old.objects)
  ELSE w = v

LEMMA MovesKeeps ==
  ASSUME NEW barred, "ptr" \notin barred, NEW t, NEW c, NEW v, NEW w, Moves(t, c, v, w)
  PROVE  /\ Value(barred, t.heap, v) => Value(barred, c.heap, w)
         /\ EnvValue(t.heap, v) => EnvValue(c.heap, w) /\ Len(c.heap[w.a].objects) = Len(t.heap[v.a].objects)
BY DEF Moves, Value, EnvValue, IsPtr

LEMMA CopyKeeps ==
  ASSUME NEW barred, "ptr" \notin barred, NEW t, NEW live, NEW c,
         \A v : (IsPtr(v) => v.a \in ToSet(live)) => Moves(t, c, v, HeapMark(live, v)),
         NEW o, ObjectOK(barred, t.heap, o),
         \A v \in ToSet(Fields(o)) : IsPtr(v) => v.a \in ToSet(live)
  PROVE  ObjectOK(barred, c.heap, Copy(live, o))
<1> DEFINE Mark(v) == HeapMark(live, v)
<1>1. \A v \in ToSet(Fields(o)) : Moves(t, c, v, Mark(v))
  OBVIOUS
<1>2. PICK n : n = Copy(live, o)
  OBVIOUS
<1> HIDE DEF Mark
<1>3. CASE o.ty = "env"
  <2>1. /\ DOMAIN o = {"ty", "prev", "depth", "fn", "objects"}
        /\ IsPtr(o.prev) => EnvValue(t.heap, o.prev)
        /\ o.prev.k \in {"ptr", "none"}
        /\ \A i \in DOMAIN o.objects : Value(barred, t.heap, o.objects[i])
        /\ IsSeq(o.objects)
    BY <1>3 DEF ObjectOK
  <2>2. n = [o EXCEPT !.prev = Mark(@), !.objects = [i \in DOMAIN @ |-> Mark(@[i])]]
    BY <1>2, <1>3 DEF Copy, Mark
  <2>3. /\ DOMAIN n = DOMAIN o /\ n.ty = "env" /\ n.prev = Mark(o.prev)
        /\ n.objects = [i \in DOMAIN o.objects |-> Mark(o.objects[i])]
    BY <1>3, <2>1, <2>2
  <2>4. Moves(t, c, o.prev, n.prev) /\ \A i \in DOMAIN o.objects : Moves(t, c, o.objects[i], n.objects[i])
    BY <1>1, <1>3, <2>3, FieldsAre
  <2>5. /\ IsPtr(n.prev) => EnvValue(c.heap, n.prev)
        /\ n.prev.k \in {"ptr", "none"}
    BY <2>1, <2>4, MovesKeeps DEF Moves, IsPtr
  <2>6. \A i \in DOMAIN n.objects : Value(barred, c.heap, n.objects[i])
    BY <2>1, <2>3, <2>4, MovesKeeps
  <2>7. IsSeq(n.objects)
    <3>1. Len(o.objects) \in Nat /\ DOMAIN o.objects = 1 .. Len(o.objects)
      BY <2>1, SeqIs
    <3>2. n.objects \in [1 .. Len(o.objects) -> {Mark(o.objects[i]) : i \in DOMAIN o.objects}]
      BY <2>3, <3>1
    <3>3. QED
      BY <3>1, <3>2, SeqMade
  <2>8. QED
    BY <1>2, <2>1, <2>3, <2>5, <2>6, <2>7 DEF ObjectOK, DataOK
<1>4. CASE o.ty = "closure"
  <2>1. DOMAIN o = {"ty", "env", "func"} /\ EnvValue(t.heap, o.env) /\ o.func \in Loadable
    BY <1>4 DEF ObjectOK
  <2>2. n = [o EXCEPT !.env = Mark(@)]
    BY <1>2, <1>4 DEF Copy, Mark
  <2>3. DOMAIN n = DOMAIN o /\ n.ty = "closure" /\ n.env = Mark(o.env) /\ n.func = o.func
    BY <1>4, <2>1, <2>2
  <2>4. Moves(t, c, o.env, n.env)
    BY <1>1, <1>4, <2>3, FieldsAre
  <2>5. EnvValue(c.heap, n.env)
    BY <2>1, <2>4, MovesKeeps
  <2>6. QED
    BY <1>2, <2>1, <2>3, <2>5 DEF ObjectOK, DataOK
<1>5. CASE o.ty = "cont"
  <2>1. DOMAIN o = {"ty", "func"} /\ Value(barred, t.heap, o.func)
    BY <1>5 DEF ObjectOK
  <2>2. n = [o EXCEPT !.func = Mark(@)]
    BY <1>2, <1>5 DEF Copy, Mark
  <2>3. DOMAIN n = DOMAIN o /\ n.ty = "cont" /\ n.func = Mark(o.func)
    BY <1>5, <2>1, <2>2
  <2>4. Moves(t, c, o.func, n.func)
    BY <1>1, <1>5, <2>3, FieldsAre
  <2>5. Value(barred, c.heap, n.func)
    BY <2>1, <2>4, MovesKeeps
  <2>6. QED
    BY <1>2, <2>1, <2>3, <2>5 DEF ObjectOK, DataOK
<1>6. CASE o.ty = "pair"
  <2>1. /\ DOMAIN o = {"ty", "car", "cdr", "len"}
        /\ Value(barred, t.heap, o.car) /\ Value(barred, t.heap, o.cdr)
        /\ o.len \in Int
    BY <1>6 DEF ObjectOK, DataOK
  <2>2. n = [o EXCEPT !.car = Mark(@), !.cdr = Mark(@)]
    BY <1>2, <1>6 DEF Copy, Mark
  <2>3. DOMAIN n = DOMAIN o /\ n.ty = "pair" /\ n.car = Mark(o.car) /\ n.cdr = Mark(o.cdr) /\ n.len = o.len
    BY <1>6, <2>1, <2>2
  <2>4. Moves(t, c, o.car, n.car) /\ Moves(t, c, o.cdr, n.cdr)
    BY <1>1, <1>6, <2>3, FieldsAre
  <2>5. Value(barred, c.heap, n.car) /\ Value(barred, c.heap, n.cdr)
    BY <2>1, <2>4, MovesKeeps
  <2>6. QED
    BY <1>2, <2>1, <2>3, <2>5 DEF ObjectOK, DataOK
<1>7. CASE o.ty = "struct"
  <2>1. /\ DOMAIN o = {"ty", "type", "fields"}
        /\ \A i \in DOMAIN o.fields : Value(barred, t.heap, o.fields[i])
        /\ IsSeq(o.fields)
        /\ o.type.k = "symbol" /\ o.type.s \in Seq(Int)
    BY <1>7 DEF ObjectOK, DataOK
  <2>2. n = [o EXCEPT !.fields = [i \in DOMAIN @ |-> Mark(@[i])]]
    BY <1>2, <1>7 DEF Copy, Mark
  <2>3. /\ DOMAIN n = DOMAIN o /\ n.ty = "struct" /\ n.type = o.type
        /\ n.fields = [i \in DOMAIN o.fields |-> Mark(o.fields[i])]
    BY <1>7, <2>1, <2>2
  <2>4. \A i \in DOMAIN o.fields : Moves(t, c, o.fields[i], n.fields[i])
    BY <1>1, <1>7, <2>3, FieldsAre
  <2>5. \A i \in DOMAIN n.fields : Value(barred, c.heap, n.fields[i])
    BY <2>1, <2>3, <2>4, MovesKeeps
  <2>6. IsSeq(n.fields)
    <3>1. Len(o.fields) \in Nat /\ DOMAIN o.fields = 1 .. Len(o.fields)
      BY <2>1, SeqIs
    <3>2. n.fields \in [1 .. Len(o.fields) -> {Mark(o.fields[i]) : i \in DOMAIN o.fields}]
      BY <2>3, <3>1
    <3>3. QED
      BY <3>1, <3>2, SeqMade
  <2>7. QED
    BY <1>2, <2>1, <2>3, <2>5, <2>6 DEF ObjectOK, DataOK
<1>8. CASE o.ty = "string"
  <2>1. DOMAIN o = {"ty", "s", "at", "allocated", "zero"} /\ o.s \in Seq(Int)
    BY <1>8 DEF ObjectOK, DataOK
  <2>2. n = o \/ n = [o EXCEPT !.at = "lost"]
    BY <1>2, <1>8 DEF Copy, StringVisit
  <2>3. DOMAIN n = DOMAIN o /\ n.ty = "string" /\ n.s = o.s
    BY <1>8, <2>1, <2>2
  <2>4. QED
    BY <1>2, <2>1, <2>3 DEF ObjectOK, DataOK
<1>9. CASE o.ty = "bytevector"
  BY <1>9 DEF ObjectOK, DataOK, Copy
<1>10. QED
  BY <1>3, <1>4, <1>5, <1>6, <1>7, <1>8, <1>9 DEF ObjectOK

\* What an allocation, which may collect, makes of a thread.
CollectedTo(barred, t, c) ==
  /\ HeapOK(barred, c) /\ RootsOK(barred, c)
  /\ c.idx = t.idx /\ c.func = t.func /\ c.bindmap = t.bindmap
  /\ c.heap_env = t.heap_env /\ c.status = t.status
  /\ Moves(t, c, t.env, c.env)
  /\ IF t.heap_env THEN c = t \/ c.objects = c.env ELSE c.objects = t.objects
  /\ \A i \in 1 .. t.idx : Moves(t, c, t.opstack[i], c.opstack[i])
  /\ \A i \in t.idx + 1 .. StackSize :
       \/ c.opstack[i] = t.opstack[i] /\ (c = t \/ ~IsPtr(t.opstack[i]))
       \/ c.opstack[i] = Stale /\ IsPtr(t.opstack[i])
  /\ DOMAIN c.local_roots = DOMAIN t.local_roots
  /\ \A i \in DOMAIN t.local_roots : Moves(t, c, t.local_roots[i], c.local_roots[i])

LEMMA MarkMoves ==
  ASSUME NEW barred, NEW t, HeapOK(barred, t), NEW live \in Seq(Nat), ToSet(live) \subseteq DOMAIN t.heap,
         NEW c, c.heap = [i \in DOMAIN live |-> Copy(live, t.heap[live[i]])],
         NEW v, IsPtr(v) => v.a \in ToSet(live)
  PROVE  Moves(t, c, v, HeapMark(live, v))
<1>1. CASE IsPtr(v)
  <2>1. \E i \in DOMAIN live : live[i] = v.a
    BY <1>1 DEF ToSet
  <2>2. PICK i \in DOMAIN live : live[i] = v.a /\ HeapMark(live, v) = Ptr(i)
    BY <1>1, <2>1 DEF HeapMark
  <2>3. PICK o : o = t.heap[v.a]
    OBVIOUS
  <2>4. PICK n : n = Copy(live, o)
    OBVIOUS
  <2>5. ObjectOK(barred, t.heap, o)
    BY <1>1, <2>3 DEF HeapOK
  <2>6. n.ty = o.ty /\ (o.ty = "string" => n.s = o.s) /\ (o.ty = "env" => DOMAIN n.objects = DOMAIN o.objects)
    BY <2>4, <2>5 DEF ObjectOK, DataOK, Copy, StringVisit
  <2>7. o.ty = "env" => Len(n.objects) = Len(o.objects)
    <3>1. SUFFICES ASSUME o.ty = "env" PROVE Len(n.objects) = Len(o.objects)
      OBVIOUS
    <3>2. IsSeq(o.objects)
      BY <2>5, <3>1 DEF ObjectOK
    <3>3. Len(o.objects) \in Nat /\ DOMAIN o.objects = 1 .. Len(o.objects)
      BY <3>2, SeqIs
    <3>4. n.objects = [j \in DOMAIN o.objects |-> HeapMark(live, o.objects[j])]
      BY <2>4, <2>5, <3>1 DEF ObjectOK, Copy
    <3>5. n.objects \in [1 .. Len(o.objects) -> {HeapMark(live, o.objects[j]) : j \in DOMAIN o.objects}]
      BY <3>3, <3>4
    <3>6. QED
      BY <3>3, <3>5, SeqMade
  <2>8. c.heap[i] = n /\ i \in DOMAIN c.heap
    BY <2>2, <2>3, <2>4
  <2>9. QED
    BY <1>1, <2>2, <2>3, <2>6, <2>7, <2>8 DEF Moves, IsPtr, Ptr
<1>2. CASE ~IsPtr(v)
  BY <1>2 DEF Moves, HeapMark
<1>3. QED
  BY <1>1, <1>2

LEMMA CollectedKeeps ==
  ASSUME NEW barred, "ptr" \notin barred, NEW t, HeapOK(barred, t), RootsOK(barred, t)
  PROVE  CollectedTo(barred, t, Collected(t))
<1>1. PICK live : live = LiveSet(t)
  OBVIOUS
<1>2. /\ live \in Seq(Nat)
      /\ ToSet(live) \subseteq DOMAIN t.heap
      /\ \A v \in ToSet(Roots(t)) : IsPtr(v) => v.a \in ToSet(live)
      /\ \A a \in ToSet(live) : \A v \in ToSet(Fields(t.heap[a])) :
           IsPtr(v) => v.a \in ToSet(live)
  BY <1>1, Reaches
<1>3. PICK c : c = Collected(t)
  OBVIOUS
<1>4. AllRegisters(t)
  BY DEF HeapOK
<1>5. /\ AllRegisters(c)
      /\ c.heap = [i \in DOMAIN live |-> Copy(live, t.heap[live[i]])]
      /\ c.env = HeapMark(live, t.env) /\ c.closure = HeapMark(live, t.closure)
      /\ c.lib_cache = HeapMark(live, t.lib_cache)
      /\ c.exception_handlers = HeapMark(live, t.exception_handlers)
      /\ c.opstack = [i \in DOMAIN t.opstack |->
                        IF i <= t.idx THEN HeapMark(live, t.opstack[i])
                        ELSE IF IsPtr(t.opstack[i]) THEN Stale ELSE t.opstack[i]]
      /\ c.local_roots = [i \in DOMAIN t.local_roots |-> HeapMark(live, t.local_roots[i])]
      /\ c.objects = AfterGc(t, HeapMark(live, t.env),
                             IF IsPtr(t.objects) THEN Stale ELSE t.objects)
      /\ c.idx = t.idx /\ c.func = t.func /\ c.bindmap = t.bindmap
      /\ c.heap_env = t.heap_env /\ c.status = t.status
  BY <1>1, <1>3, <1>4, CopiedIs DEF Collected
<1>6. \A v : (IsPtr(v) => v.a \in ToSet(live)) => Moves(t, c, v, HeapMark(live, v))
  <2>1. c.heap = [i \in DOMAIN live |-> Copy(live, t.heap[live[i]])]
    BY <1>5
  <2>2. QED
    BY <1>2, <2>1, MarkMoves
<1>7. /\ \A v \in {t.env, t.closure, t.lib_cache, t.exception_handlers} :
           Moves(t, c, v, HeapMark(live, v))
      /\ \A i \in 1 .. t.idx : Moves(t, c, t.opstack[i], HeapMark(live, t.opstack[i]))
      /\ \A i \in DOMAIN t.local_roots : Moves(t, c, t.local_roots[i], HeapMark(live, t.local_roots[i]))
  <2>1. /\ \A v \in {t.env, t.closure, t.lib_cache, t.exception_handlers} : v \in ToSet(Roots(t))
        /\ \A i \in 1 .. t.idx : t.opstack[i] \in ToSet(Roots(t))
        /\ \A i \in DOMAIN t.local_roots : t.local_roots[i] \in ToSet(Roots(t))
    <3>1. ToSet(Roots(t)) = {t.env, t.closure, t.lib_cache, t.exception_handlers}
                              \cup {t.opstack[i] : i \in 1 .. t.idx} \cup ToSet(t.local_roots)
      BY RootsAre DEF RootsOK
    <3>2. \A i \in DOMAIN t.local_roots : t.local_roots[i] \in ToSet(t.local_roots)
      BY DEF ToSet
    <3>3. QED
      BY <3>1, <3>2
  <2>2. QED
    BY <1>2, <1>6, <2>1
<1>8. IsSeq(c.heap) /\ \A a \in DOMAIN c.heap : ObjectOK(barred, c.heap, c.heap[a])
  <2>1. IsSeq(c.heap)
    <3>1. Len(live) \in Nat /\ DOMAIN live = 1 .. Len(live)
      BY <1>2
    <3>2. c.heap \in [1 .. Len(live) -> {Copy(live, t.heap[live[i]]) : i \in DOMAIN live}]
      BY <1>5, <3>1
    <3>3. QED
      BY <3>1, <3>2, SeqMade
  <2>2. ASSUME NEW a \in DOMAIN live
        PROVE  ObjectOK(barred, c.heap, Copy(live, t.heap[live[a]]))
    <3>1. live[a] \in ToSet(live)
      BY DEF ToSet
    <3>2. ObjectOK(barred, t.heap, t.heap[live[a]])
      BY <1>2, <3>1 DEF HeapOK
    <3>3. \A v \in ToSet(Fields(t.heap[live[a]])) : IsPtr(v) => v.a \in ToSet(live)
      BY <1>2, <3>1
    <3>4. QED
      BY <1>6, <3>2, <3>3, CopyKeeps
  <2>3. QED
    BY <1>5, <2>1, <2>2
<1>9. DOMAIN t.opstack = 1..StackSize /\ t.idx \in 0..StackSize /\ StackSize \in Nat
  BY VmAssumption DEF HeapOK
<1>10. /\ \A i \in 1 .. t.idx : c.opstack[i] = HeapMark(live, t.opstack[i])
       /\ \A i \in t.idx + 1 .. StackSize :
            c.opstack[i] = IF IsPtr(t.opstack[i]) THEN Stale ELSE t.opstack[i]
       /\ DOMAIN c.opstack = 1..StackSize
  <2>1. /\ \A i \in 1 .. t.idx : i \in 1..StackSize /\ i <= t.idx
        /\ \A i \in t.idx + 1 .. StackSize : i \in 1..StackSize /\ ~(i <= t.idx)
    BY <1>9
  <2>2. QED
    BY <1>5, <1>9, <2>1
<1>11. /\ Moves(t, c, t.env, c.env)
       /\ \A i \in 1 .. t.idx : Moves(t, c, t.opstack[i], c.opstack[i])
       /\ DOMAIN c.local_roots = DOMAIN t.local_roots
       /\ \A i \in DOMAIN t.local_roots : Moves(t, c, t.local_roots[i], c.local_roots[i])
  BY <1>5, <1>7, <1>10
<1>12. EnvValue(c.heap, c.env)
  BY <1>11, MovesKeeps DEF HeapOK
<1>13. c.objects = IF t.heap_env THEN c.env ELSE t.objects
  <2>1. ~t.heap_env => ~IsPtr(t.objects)
    BY DEF HeapOK, IsPtr
  <2>2. QED
    BY <1>5, <2>1 DEF AfterGc
<1>14. HeapOK(barred, c)
  <2>1. \A i \in 1 .. c.idx : Value(barred, c.heap, c.opstack[i])
    <3>1. \A i \in 1 .. t.idx : Value(barred, t.heap, t.opstack[i])
      BY DEF HeapOK
    <3>2. \A i \in 1 .. t.idx : Value(barred, c.heap, c.opstack[i])
      BY <1>11, <3>1, MovesKeeps
    <3>3. QED
      BY <1>5, <3>2
  <2>2. \A v \in {c.closure, c.lib_cache, c.exception_handlers} : Value(barred, c.heap, v)
    BY <1>5, <1>7, MovesKeeps DEF HeapOK
  <2>3. /\ c.heap_env \in BOOLEAN
        /\ IF c.heap_env THEN EnvValue(c.heap, c.objects) ELSE c.objects.k = "slot"
    BY <1>5, <1>12, <1>13 DEF HeapOK
  <2>4. c.idx \in 0..StackSize
    BY <1>5, <1>9
  <2>5. QED
    BY <1>5, <1>8, <1>10, <1>12, <2>1, <2>2, <2>3, <2>4 DEF HeapOK
<1>15. RootsOK(barred, c)
  <2>1. \A i \in DOMAIN c.local_roots : Value(barred, c.heap, c.local_roots[i])
    BY <1>11, MovesKeeps DEF RootsOK
  <2>2. Len(t.local_roots) \in Nat /\ DOMAIN t.local_roots = 1 .. Len(t.local_roots)
    BY SeqIs DEF RootsOK
  <2>3. c.local_roots \in [1 .. Len(t.local_roots) ->
                             {HeapMark(live, t.local_roots[i]) : i \in DOMAIN t.local_roots}]
    BY <1>5, <2>2
  <2>4. IsSeq(c.local_roots)
    BY <2>2, <2>3, SeqMade
  <2>5. QED
    BY <2>1, <2>4 DEF RootsOK
<1>16. CollectedTo(barred, t, c)
  BY <1>5, <1>10, <1>11, <1>13, <1>14, <1>15 DEF CollectedTo
<1>17. QED
  BY <1>3, <1>16

-----------------------------------------------------------------------------
(* Frames.                                                                 *)

LEMMA FunctionIs ==
  ASSUME ModuleOK, NEW f \in 0 .. Len(module.functions) - 1
  PROVE  /\ FunctionOK(f)
         /\ Arguments(Function(f)) \in Nat
         /\ Len(Function(f).bindmap) \in Nat
         /\ DOMAIN Function(f).bindmap = 1 .. Len(Function(f).bindmap)
<1>1. FunctionOK(f)
  BY DEF ModuleOK
<1>2. Arguments(Function(f)) \in Nat
  BY <1>1 DEF FunctionOK, Arguments, ArgsEntered
<1>3. IsSeq(Function(f).bindmap)
  BY <1>1 DEF FunctionOK
<1>4. QED
  BY <1>1, <1>2, <1>3, SeqIs

\* The instruction at a place, the height of the operands there, and where the
\* operands start.
Ins(t, at) == Function(t.func).code[at + 1]
Height(t, at) == module.heights[t.func + 1][at + 1]
Bottom(t) == Base(t) + Len(Function(t.func).bindmap)

LEMMA FrameIs ==
  ASSUME ModuleOK, NEW barred, NEW t, HeapOK(barred, t), NEW at, FrameOK(t, at)
  PROVE  /\ t.func \in 0 .. Len(module.functions) - 1
         /\ Base(t) \in Nat /\ Bottom(t) \in Nat /\ Base(t) <= Bottom(t)
         /\ at \in Nat /\ Height(t, at) \in 0 .. at
         /\ t.idx \in 0..StackSize /\ t.idx = Bottom(t) + Height(t, at)
         /\ Needs(Ins(t, at)) <= Height(t, at)
         /\ InBounds(t.func, Ins(t, at))
         /\ \A j \in Successors(Function(t.func).code, at + 1) :
              /\ j \in DOMAIN Function(t.func).code
              /\ module.heights[t.func + 1][j] = Height(t, at) + Grows(Ins(t, at))
<1>1. /\ t.func \in 0 .. Len(module.functions) - 1
      /\ at + 1 \in DOMAIN Function(t.func).code /\ at \in Nat
      /\ Height(t, at) # Unreached /\ t.idx = Bottom(t) + Height(t, at)
      /\ ~t.heap_env => t.objects.i \in 0 .. Arguments(Function(t.func))
  BY DEF FrameOK, Height, Bottom
<1>2. /\ FunctionOK(t.func) /\ Arguments(Function(t.func)) \in Nat
      /\ Len(Function(t.func).bindmap) \in Nat
  BY <1>1, FunctionIs
<1>3. Base(t) \in Nat
  BY <1>1, <1>2 DEF Base
<1>4. Bottom(t) \in Nat /\ Base(t) <= Bottom(t)
  BY <1>2, <1>3 DEF Bottom
<1>5. /\ Height(t, at) \in 0 .. at + 1 - 1
      /\ Needs(Ins(t, at)) <= Height(t, at)
      /\ InBounds(t.func, Ins(t, at))
      /\ \A j \in Successors(Function(t.func).code, at + 1) :
           /\ j \in DOMAIN Function(t.func).code
           /\ module.heights[t.func + 1][j] = Height(t, at) + Grows(Ins(t, at))
  BY <1>1, <1>2 DEF FunctionOK, CodeOK, Ins, Height
<1>6. t.idx \in 0..StackSize
  BY DEF HeapOK
<1>7. QED
  BY <1>1, <1>3, <1>4, <1>5, <1>6

\* The same activation, with as many operands as the place to needs.
LEMMA FrameMoved ==
  ASSUME ModuleOK, NEW barred, NEW t, HeapOK(barred, t), NEW at, FrameOK(t, at),
         NEW p, NEW to \in Nat, to + 1 \in DOMAIN Function(t.func).code,
         Height(t, to) # Unreached,
         p.idx = Bottom(t) + Height(t, to),
         p.func = t.func, p.heap_env = t.heap_env, p.bindmap = t.bindmap,
         IF t.heap_env
         THEN p.objects = p.env /\ Len(p.heap[p.env.a].objects) = Len(t.heap[t.env.a].objects)
         ELSE p.objects = t.objects,
         \A i \in 1 .. Len(Function(t.func).bindmap) : EnvValue(p.heap, p.opstack[Base(t) + i])
  PROVE  FrameOK(p, to)
<1>1. Base(p) = Base(t)
  BY DEF Base
<1>2. /\ t.func \in 0 .. Len(module.functions) - 1
      /\ IF t.heap_env THEN /\ t.objects = t.env
                            /\ Len(t.heap[t.env.a].objects) = Function(t.func).env_size
         ELSE /\ t.objects.i \in 0 .. Arguments(Function(t.func))
              /\ Slots(t.func) = Arguments(Function(t.func))
      /\ Function(t.func).bindings # <<>> => t.bindmap = Slot(Base(t))
  BY DEF FrameOK
<1>3. p.idx = Base(t) + Len(Function(t.func).bindmap) + module.heights[t.func + 1][to + 1]
  BY DEF Bottom, Height
<1>4. QED
  BY <1>1, <1>2, <1>3 DEF FrameOK, Height

LEMMA FrameCollected ==
  ASSUME ModuleOK, NEW barred, "ptr" \notin barred, NEW t, HeapOK(barred, t),
         NEW at, FrameOK(t, at), NEW c, CollectedTo(barred, t, c)
  PROVE  FrameOK(c, at)
<1>1. /\ Base(t) \in Nat /\ Bottom(t) \in Nat
      /\ at \in Nat /\ Height(t, at) \in 0 .. at /\ t.idx = Bottom(t) + Height(t, at)
  BY FrameIs
<1>2. /\ c.idx = t.idx /\ c.func = t.func /\ c.bindmap = t.bindmap /\ c.heap_env = t.heap_env
      /\ Moves(t, c, t.env, c.env)
      /\ IF t.heap_env THEN c.objects = c.env ELSE c.objects = t.objects
      /\ \A i \in 1 .. t.idx : Moves(t, c, t.opstack[i], c.opstack[i])
  BY DEF CollectedTo, FrameOK
<1>3. \A i \in 1 .. Len(Function(t.func).bindmap) : EnvValue(c.heap, c.opstack[Base(t) + i])
  <2>1. SUFFICES ASSUME NEW i \in 1 .. Len(Function(t.func).bindmap)
                 PROVE  EnvValue(c.heap, c.opstack[Base(t) + i])
    OBVIOUS
  <2>2. EnvValue(t.heap, t.opstack[Base(t) + i])
    BY DEF FrameOK
  <2>3. Base(t) + i \in 1 .. t.idx
    <3>1. Len(Function(t.func).bindmap) \in Nat
      BY FunctionIs DEF FrameOK
    <3>2. Base(t) + i <= Bottom(t)
      BY <1>1, <3>1 DEF Bottom
    <3>3. QED
      BY <1>1, <3>1, <3>2
  <2>4. QED
    BY <1>2, <2>2, <2>3, MovesKeeps
<1>4. Len(c.heap[c.env.a].objects) = Len(t.heap[t.env.a].objects)
  <2>1. EnvValue(t.heap, t.env)
    BY DEF HeapOK
  <2>2. Moves(t, c, t.env, c.env)
    BY <1>2
  <2>3. QED
    BY <2>1, <2>2 DEF Moves, EnvValue, IsPtr
<1>5. at + 1 \in DOMAIN Function(t.func).code /\ Height(t, at) # Unreached
  BY DEF FrameOK, Height
<1>6. QED
  BY <1>1, <1>2, <1>3, <1>4, <1>5, FrameMoved

-----------------------------------------------------------------------------
(* Values that no heap is needed for.                                      *)

LEMMA Immediates ==
  ASSUME NEW barred \in SUBSET {"stale"}, NEW heap
  PROVE  /\ \A v \in {Null, Void, Eof, NoPtr} : Value(barred, heap, v)
         /\ \A b : Value(barred, heap, CIf(b))
         /\ \A n \in Int : Value(barred, heap, Fix(n)) /\ Value(barred, heap, Char(n))
         /\ \A n : Value(barred, heap, Native(n))
         /\ \A f \in Loadable : Value(barred, heap, Func(f))
<1>1. \A v \in {Null, Void, Eof, NoPtr} : Value(barred, heap, v)
  BY DEF Value, Null, Void, Eof, NoPtr
<1>2. \A b : Value(barred, heap, CIf(b))
  BY DEF Value, CIf
<1>3. \A n \in Int : Value(barred, heap, Fix(n)) /\ Value(barred, heap, Char(n))
  BY DEF Value, Fix, Char
<1>4. \A n : Value(barred, heap, Native(n))
  BY DEF Value, Native
<1>5. \A f \in Loadable : Value(barred, heap, Func(f))
  BY DEF Value, Func
<1>6. QED
  BY <1>1, <1>2, <1>3, <1>4, <1>5

LEMMA Constants ==
  ASSUME NEW barred \in SUBSET {"stale"}, NEW heap, NEW v, Constant(v)
  PROVE  Value(barred, heap, v)
BY DEF Constant, Value

LEMMA StaleValue ==
  ASSUME NEW barred, "stale" \notin barred, NEW heap
  PROVE  Value(barred, heap, Stale)
BY DEF Value, Stale

\* What a value leads to is in order, and what is in it too.
LEMMA Leads ==
  ASSUME NEW barred \in SUBSET {"stale"}, ModuleOK, NEW t, HeapOK(barred, t),
         NEW v, Value(barred, t.heap, v)
  PROVE  LET o == Object(t, v) IN
         /\ o.ty \in {"pair", "struct", "string"} => DataOK(barred, t.heap, o)
         /\ IsPtr(v) => v.a \in DOMAIN t.heap /\ o = t.heap[v.a] /\ ObjectOK(barred, t.heap, o)
         /\ o.ty \in {"env", "closure", "cont"} => IsPtr(v)
         /\ o.ty = "symbol" => v.k = "symbol" /\ v.s \in Seq(Int)
<1>1. PICK o : o = Object(t, v)
  OBVIOUS
<1>2. CASE v.k = "ptr"
  <2>1. v.a \in DOMAIN t.heap /\ o = t.heap[v.a]
    BY <1>1, <1>2 DEF Object, Value
  <2>2. ObjectOK(barred, t.heap, o)
    BY <2>1 DEF HeapOK
  <2>3. DataOK(barred, t.heap, o) /\ o.ty # "symbol"
    BY <2>2 DEF ObjectOK
  <2>4. QED
    BY <1>1, <1>2, <2>1, <2>2, <2>3 DEF IsPtr
<1>3. CASE v.k = "const"
  <2>1. v.a \in DOMAIN module.objects /\ o = module.objects[v.a]
    BY <1>1, <1>3 DEF Object, Value
  <2>2. /\ o.ty \in {"pair", "struct", "string", "bytevector"}
        /\ DataOK({"stale"}, <<>>, o)
        /\ o.ty = "pair" => Constant(o.car) /\ Constant(o.cdr)
        /\ o.ty = "struct" => \A i \in DOMAIN o.fields : Constant(o.fields[i])
    BY <2>1 DEF ModuleOK, ConstantsOK
  <2>3. DataOK(barred, t.heap, o)
    BY <2>2, Constants DEF DataOK
  <2>4. QED
    BY <1>1, <1>3, <2>2, <2>3 DEF IsPtr
<1>4. CASE v.k = "symbol"
  BY <1>4 DEF Object, Value, IsPtr
<1>5. CASE v.k \notin {"ptr", "const", "symbol"}
  BY <1>5 DEF Object, NoObject, IsPtr
<1>6. QED
  BY <1>2, <1>3, <1>4, <1>5

-----------------------------------------------------------------------------
(* Instructions.                                                           *)

LEMMA AtInstruction ==
  ASSUME NEW barred, MachineOK(barred), Running, call = NoCall
  PROVE  /\ HeapOK(barred, thread) /\ thread.local_roots = <<>> /\ FrameOK(thread, pc)
         /\ AllRegisters(thread) /\ Instruction = Ins(thread, pc) /\ thread.status = "run"
BY DEF MachineOK, StateOK, ThreadOK, HeapOK, Running, Instruction, Ins, Fn

LEMMA EnvGrows ==
  ASSUME NEW old, NEW new, Extends(old, new), NEW v, EnvValue(old, v)
  PROVE  EnvValue(new, v) /\ Len(new[v.a].objects) = Len(old[v.a].objects)
BY DEF Extends, EnvValue

\* An instruction that leads from t to p; t is the thread or what a collection
\* has made of it.
LEMMA Advances ==
  ASSUME ModuleOK, NEW barred, NEW t, HeapOK(barred, t), NEW at, FrameOK(t, at),
         t.local_roots = <<>>, NEW p, HeapOK(barred, p), SameFrame(t, p), Extends(t.heap, p.heap),
         p.idx = t.idx + Grows(Ins(t, at)),
         \A i \in Base(t) + 1 .. Bottom(t) : p.opstack[i] = t.opstack[i],
         NEW to \in Nat, to + 1 \in Successors(Function(t.func).code, at + 1)
  PROVE  StateOK(barred, p, to, NoCall)
<1>1. /\ Base(t) \in Nat /\ Bottom(t) \in Nat
      /\ t.idx \in 0..StackSize /\ t.idx = Bottom(t) + Height(t, at)
      /\ Height(t, at) \in 0 .. at /\ at \in Nat
      /\ to + 1 \in DOMAIN Function(t.func).code
      /\ Height(t, to) = Height(t, at) + Grows(Ins(t, at))
      /\ Needs(Ins(t, at)) <= Height(t, at)
      /\ t.func \in 0 .. Len(module.functions) - 1
  BY FrameIs DEF Height
<1>2. Height(t, to) # Unreached /\ p.idx = Bottom(t) + Height(t, to)
  <2>1. Height(t, to) >= 0 /\ Grows(Ins(t, at)) \in {-1, 0, 1}
    <3>1. Grows(Ins(t, at)) \in {-1, 0, 1}
      BY DEF Grows
    <3>2. Grows(Ins(t, at)) = -1 => Needs(Ins(t, at)) >= 1
      BY DEF Grows, Needs, Pushing, Joining, Popping, Replacing
    <3>3. CASE Grows(Ins(t, at)) = -1
      <4>1. Needs(Ins(t, at)) \in {1, 2}
        BY <3>3 DEF Grows, Needs, Pushing, Joining, Popping, Replacing
      <4>2. QED
        BY <1>1, <3>3, <4>1
    <3>4. QED
      BY <1>1, <3>1, <3>3
  <2>2. PICK h, b, grows : h = Height(t, to) /\ b = Bottom(t) /\ grows = Grows(Ins(t, at))
    OBVIOUS
  <2>3. h # Unreached
    BY <2>1, <2>2 DEF Unreached
  <2>4. p.idx = b + h
    BY <1>1, <2>1, <2>2
  <2>5. QED
    BY <2>2, <2>3, <2>4
<1>3. \A i \in 1 .. Len(Function(t.func).bindmap) : EnvValue(p.heap, p.opstack[Base(t) + i])
  <2>1. SUFFICES ASSUME NEW i \in 1 .. Len(Function(t.func).bindmap)
                 PROVE  EnvValue(p.heap, p.opstack[Base(t) + i])
    OBVIOUS
  <2>2. Base(t) + i \in Base(t) + 1 .. Bottom(t)
    <3>1. PICK b \in Nat, n \in Nat : b = Base(t) /\ n = Len(Function(t.func).bindmap)
      BY <1>1, FunctionIs
    <3>2. b + i \in b + 1 .. b + n
      BY <3>1
    <3>3. QED
      BY <3>1, <3>2 DEF Bottom
  <2>3. EnvValue(t.heap, t.opstack[Base(t) + i])
    BY DEF FrameOK
  <2>4. QED
    BY <2>2, <2>3, ValueGrows
<1>4. p.func = t.func /\ p.heap_env = t.heap_env /\ p.bindmap = t.bindmap
  BY DEF SameFrame
<1>5. IF t.heap_env
      THEN p.objects = p.env /\ Len(p.heap[p.env.a].objects) = Len(t.heap[t.env.a].objects)
      ELSE p.objects = t.objects
  <2>1. p.objects = t.objects /\ p.env = t.env
    BY DEF SameFrame
  <2>2. Len(p.heap[t.env.a].objects) = Len(t.heap[t.env.a].objects)
    <3>1. EnvValue(t.heap, t.env)
      BY DEF HeapOK
    <3>2. QED
      BY <3>1, EnvGrows
  <2>3. t.heap_env => t.objects = t.env
    BY DEF FrameOK
  <2>4. QED
    BY <2>1, <2>2, <2>3
<1>6. FrameOK(p, to)
  <2>1. Height(t, to) # Unreached /\ p.idx = Bottom(t) + Height(t, to)
    BY <1>2
  <2>2. to + 1 \in DOMAIN Function(t.func).code
    BY <1>1
  <2>3. QED
    BY <1>3, <1>4, <1>5, <2>1, <2>2, FrameMoved
<1>7. QED
  BY <1>6 DEF StateOK, ThreadOK, SameFrame

LEMMA InstructionDone ==
  ASSUME NEW barred, ModuleOK, MachineOK(barred), Running, call = NoCall,
         NEW t, HeapOK(barred, t), FrameOK(t, pc), t.local_roots = <<>>, t.func = thread.func,
         Instruction[1] \notin {"FUNC_CALL", "JUMP_FORWARD"},
         NEW p, Next1(p),
         p.status = "run" =>
           /\ HeapOK(barred, p) /\ SameFrame(t, p) /\ Extends(t.heap, p.heap)
           /\ p.idx = t.idx + Grows(Instruction)
           /\ \A i \in Base(t) + 1 .. Bottom(t) : p.opstack[i] = t.opstack[i]
  PROVE  MachineOK(barred)'
<1>1. thread' = p /\ pc' = pc + 1 /\ call' = NoCall /\ module' = module
  BY DEF Next1
<1>2. Instruction = Ins(t, pc)
  BY DEF Instruction, Ins, Fn
<1>3. pc \in Nat
  BY DEF FrameOK
<1>4. (pc + 1) + 1 \in Successors(Function(t.func).code, pc + 1)
  BY <1>2, <1>3 DEF Successors, Ins
<1>5. ASSUME p.status = "run"
      PROVE  StateOK(barred, p, pc + 1, NoCall)
  <2>1. /\ HeapOK(barred, p) /\ SameFrame(t, p) /\ Extends(t.heap, p.heap)
        /\ p.idx = t.idx + Grows(Ins(t, pc))
        /\ \A i \in Base(t) + 1 .. Bottom(t) : p.opstack[i] = t.opstack[i]
    BY <1>2, <1>5
  <2>2. pc + 1 \in Nat
    BY <1>3
  <2>3. QED
    BY <1>4, <2>1, <2>2, Advances
<1>6. StateOK(barred, p, pc + 1, NoCall)
  BY <1>5 DEF StateOK
<1>7. QED
  BY <1>1, <1>6, NewState

LEMMA LocalIs ==
  ASSUME NEW barred, ModuleOK, NEW t, HeapOK(barred, t), NEW at, FrameOK(t, at),
         NEW i \in 0 .. Slots(t.func) - 1
  PROVE  /\ Value(barred, t.heap, Local(t, i))
         /\ t.heap_env => /\ IsPtr(t.objects) /\ EnvValue(t.heap, t.objects)
                          /\ i + 1 \in DOMAIN t.heap[t.objects.a].objects
         /\ ~t.heap_env => /\ ~IsPtr(t.objects)
                           /\ t.objects.i + i + 1 \in 1 .. Base(t)
                           /\ t.objects.i + i + 1 \in 1 .. t.idx
<1>1. /\ Base(t) \in Nat /\ Bottom(t) \in Nat /\ Base(t) <= Bottom(t) /\ t.idx \in 0..StackSize
      /\ t.idx = Bottom(t) + Height(t, at) /\ Height(t, at) \in 0 .. at /\ at \in Nat
      /\ t.func \in 0 .. Len(module.functions) - 1
  BY FrameIs
<1>2. /\ FunctionOK(t.func) /\ Arguments(Function(t.func)) \in Nat
      /\ Arguments(Function(t.func)) <= Function(t.func).env_size /\ Function(t.func).env_size \in Nat
  BY <1>1, FunctionIs DEF FunctionOK
<1>3. CASE t.heap_env
  <2>1. /\ t.objects = t.env /\ EnvValue(t.heap, t.objects)
        /\ Len(t.heap[t.objects.a].objects) = Function(t.func).env_size
    BY <1>3 DEF FrameOK, HeapOK
  <2>2. PICK o : o = t.heap[t.objects.a]
    OBVIOUS
  <2>3. ObjectOK(barred, t.heap, o) /\ o.ty = "env"
    BY <2>1, <2>2 DEF HeapOK, EnvValue
  <2>4. IsSeq(o.objects) /\ \A j \in DOMAIN o.objects : Value(barred, t.heap, o.objects[j])
    BY <2>3 DEF ObjectOK
  <2>5. DOMAIN o.objects = 1 .. Function(t.func).env_size
    BY <2>1, <2>2, <2>4, SeqIs
  <2>6. i + 1 \in DOMAIN o.objects
    BY <1>2, <2>5 DEF Slots
  <2>7. IsPtr(t.objects)
    BY <2>1 DEF EnvValue, IsPtr
  <2>8. Local(t, i) = o.objects[i + 1]
    BY <2>2, <2>7 DEF Local
  <2>9. QED
    BY <1>3, <2>1, <2>2, <2>4, <2>6, <2>7, <2>8
<1>4. CASE ~t.heap_env
  <2>1. /\ ~IsPtr(t.objects) /\ t.objects.i \in 0 .. Arguments(Function(t.func))
        /\ Slots(t.func) = Arguments(Function(t.func))
        /\ Base(t) = t.objects.i + Arguments(Function(t.func))
    BY <1>4 DEF FrameOK, HeapOK, IsPtr, Base
  <2>2. t.objects.i + i + 1 \in 1 .. Base(t) /\ t.objects.i + i + 1 \in 1 .. t.idx
    <3>1. PICK x, n : x = t.objects.i /\ n = Arguments(Function(t.func))
      OBVIOUS
    <3>2. x \in Nat /\ n \in Nat /\ i \in 0 .. n - 1 /\ Base(t) = x + n
      BY <1>2, <2>1, <3>1
    <3>3. Base(t) <= t.idx /\ t.idx \in Int
      BY <1>1
    <3>4. x + i + 1 \in 1 .. Base(t) /\ x + i + 1 \in 1 .. t.idx
      BY <3>2, <3>3
    <3>5. QED
      BY <3>1, <3>4
  <2>3. Local(t, i) = t.opstack[t.objects.i + i + 1]
    BY <2>1 DEF Local
  <2>4. QED
    BY <1>4, <2>1, <2>2, <2>3 DEF HeapOK
<1>5. QED
  BY <1>3, <1>4

LEMMA ExtendsSelf ==
  ASSUME NEW barred, NEW t, HeapOK(barred, t)
  PROVE  Extends(t.heap, t.heap)
BY DEF HeapOK, Extends

\* An instruction that pushes a value.
LEMMA Pushes ==
  ASSUME NEW barred, ModuleOK, MachineOK(barred), Running, call = NoCall,
         NEW v, Value(barred, thread.heap, v), Instruction[1] \in Pushing,
         Next1(Push(thread, v))
  PROVE  MachineOK(barred)'
<1>1. /\ HeapOK(barred, thread) /\ thread.local_roots = <<>> /\ FrameOK(thread, pc)
      /\ Instruction = Ins(thread, pc)
  BY AtInstruction
<1>2. PICK p : p = Push(thread, v)
  OBVIOUS
<1>3. Next1(p)
  BY <1>2
<1>4. Grows(Instruction) = 1 /\ Instruction[1] \notin {"FUNC_CALL", "JUMP_FORWARD"}
  BY DEF Grows, Pushing, Joining, Popping
<1>5. /\ thread.idx \in 0..StackSize /\ Base(thread) \in Nat
      /\ Bottom(thread) \in Nat /\ Bottom(thread) <= thread.idx
  BY <1>1, FrameIs
<1>6. ASSUME p.status = "run"
      PROVE  /\ HeapOK(barred, p) /\ SameFrame(thread, p) /\ Extends(thread.heap, p.heap)
             /\ p.idx = thread.idx + Grows(Instruction)
             /\ \A i \in Base(thread) + 1 .. Bottom(thread) : p.opstack[i] = thread.opstack[i]
  <2>1. /\ HeapOK(barred, p) /\ SameRegisters(thread, p) /\ p.heap = thread.heap
        /\ p.idx = thread.idx + 1
        /\ \A i \in 1 .. thread.idx : p.opstack[i] = thread.opstack[i]
    BY <1>1, <1>2, <1>6, PushIs
  <2>2. \A i \in Base(thread) + 1 .. Bottom(thread) : i \in 1 .. thread.idx
    BY <1>5, VmAssumption
  <2>3. Extends(thread.heap, p.heap)
    BY <1>1, <2>1, ExtendsSelf
  <2>4. QED
    BY <1>4, <2>1, <2>2, <2>3 DEF SameRegisters
<1>7. QED
  BY <1>1, <1>3, <1>4, <1>6, InstructionDone

LEMMA LoadStep ==
  ASSUME NEW barred \in SUBSET {"stale"}, ModuleOK, MachineOK(barred), Load
  PROVE  MachineOK(barred)'
<1>1. /\ Running /\ call = NoCall
      /\ Instruction[1] \in {"LOAD_LOCAL", "LOAD_CONST", "LOAD_FUNC", "PUSH_BOOL", "PUSH_NULL"}
  BY DEF Load, Fetching
<1>2. /\ HeapOK(barred, thread) /\ FrameOK(thread, pc) /\ Instruction = Ins(thread, pc)
  BY <1>1, AtInstruction
<1>3. InBounds(thread.func, Instruction)
  BY <1>2, FrameIs
<1>4. PICK v : v = CASE Instruction[1] = "LOAD_LOCAL" -> Local(thread, Arg)
                     [] Instruction[1] = "LOAD_CONST" -> module.consts[Arg + 1]
                     [] Instruction[1] = "LOAD_FUNC" -> Func(Arg)
                     [] Instruction[1] = "PUSH_BOOL" -> CIf(Arg = 1)
                     [] Instruction[1] = "PUSH_NULL" -> Null
  OBVIOUS
<1>5. Value(barred, thread.heap, v)
  <2>1. CASE Instruction[1] = "LOAD_LOCAL"
    BY <1>2, <1>3, <1>4, <2>1, LocalIs DEF InBounds, Arg
  <2>2. CASE Instruction[1] = "LOAD_CONST"
    BY <1>3, <1>4, <2>2, Constants DEF InBounds, Arg, ModuleOK, ConstantsOK
  <2>3. CASE Instruction[1] = "LOAD_FUNC"
    BY <1>3, <1>4, <2>3, Immediates DEF InBounds, Arg
  <2>4. CASE Instruction[1] = "PUSH_BOOL"
    <3>1. \A b : Value(barred, thread.heap, CIf(b))
      BY Immediates
    <3>2. v = CIf(Arg = 1)
      BY <1>4, <2>4
    <3>3. QED
      BY <3>1, <3>2
  <2>5. CASE Instruction[1] = "PUSH_NULL"
    BY <1>4, <2>5, Immediates
  <2>6. QED
    BY <1>1, <2>1, <2>2, <2>3, <2>4, <2>5
<1>6. Next1(Push(thread, v))
  BY <1>4 DEF Load
<1>7. Instruction[1] \in Pushing
  BY <1>1 DEF Pushing
<1>8. QED
  BY <1>1, <1>5, <1>6, <1>7, Pushes

LEMMA SetIs ==
  ASSUME NEW s, IsSeq(s), NEW i \in DOMAIN s, NEW x
  PROVE  LET u == [s EXCEPT ![i] = x] IN
         /\ IsSeq(u) /\ Len(u) = Len(s) /\ DOMAIN u = DOMAIN s
         /\ u[i] = x /\ \A j \in DOMAIN s : j # i => u[j] = s[j]
<1> DEFINE S == ToSet(s) \cup {x}
<1>1. s \in Seq(S) /\ x \in S
  BY DEF IsSeq
<1>2. PICK u : u = [s EXCEPT ![i] = x]
  OBVIOUS
<1>3. /\ DOMAIN u = DOMAIN s /\ u[i] = x /\ \A j \in DOMAIN s : j # i => u[j] = s[j]
  BY <1>2
<1>4. Len(s) \in Nat /\ DOMAIN s = 1 .. Len(s)
  BY SeqIs
<1>5. \A j \in 1 .. Len(s) : s[j] \in S
  BY <1>4 DEF ToSet
<1> HIDE DEF S
<1>6. u \in [1 .. Len(s) -> S]
  BY <1>1, <1>2, <1>4, <1>5
<1>7. IsSeq(u) /\ Len(u) = Len(s)
  BY <1>4, <1>6, SeqMade
<1>8. QED
  BY <1>2, <1>3, <1>7

\* An object is written to.
LEMMA HeapSet ==
  ASSUME NEW barred, NEW t, HeapOK(barred, t), NEW a \in DOMAIN t.heap,
         NEW o, ObjectOK(barred, t.heap, o), o.ty = t.heap[a].ty,
         o.ty = "env" => Len(o.objects) = Len(t.heap[a].objects)
  PROVE  \A p : /\ AllRegisters(p) /\ SameRegisters(t, p) /\ p.idx \in 0 .. t.idx
                /\ p.opstack = t.opstack /\ p.heap = [t.heap EXCEPT ![a] = o]
                => HeapOK(barred, p) /\ Extends(t.heap, p.heap)
<1>1. PICK h : h = [t.heap EXCEPT ![a] = o]
  OBVIOUS
<1>2. IsSeq(h) /\ DOMAIN h = DOMAIN t.heap /\ h[a] = o /\ \A b \in DOMAIN t.heap : b # a => h[b] = t.heap[b]
  BY <1>1, SetIs DEF HeapOK
<1>3. Extends(t.heap, h)
  BY <1>2 DEF Extends
<1>4. \A b \in DOMAIN h : ObjectOK(barred, h, h[b])
  <2>1. \A b \in DOMAIN t.heap : ObjectOK(barred, t.heap, t.heap[b])
    BY DEF HeapOK
  <2>2. QED
    BY <1>2, <1>3, <2>1, ObjectGrows
<1>5. QED
  BY <1>1, <1>3, <1>4, HeapKept

LEMMA SlotSet ==
  ASSUME NEW barred, NEW t, HeapOK(barred, t), NEW a \in DOMAIN t.heap, t.heap[a].ty = "env",
         NEW i \in DOMAIN t.heap[a].objects, NEW v, Value(barred, t.heap, v)
  PROVE  \A p : p = [t EXCEPT !.heap[a].objects[i] = v] =>
           HeapOK(barred, p) /\ Extends(t.heap, p.heap) /\ SameRegisters(t, p) /\ SameStack(t, p)
<1>1. PICK old : old = t.heap[a]
  OBVIOUS
<1>2. PICK s : s = [old.objects EXCEPT ![i] = v]
  OBVIOUS
<1>3. PICK o : o = [old EXCEPT !.objects = s]
  OBVIOUS
<1>4. ObjectOK(barred, t.heap, old) /\ old.ty = "env"
  BY <1>1 DEF HeapOK
<1>5. /\ DOMAIN old = {"ty", "prev", "depth", "fn", "objects"}
      /\ IsSeq(old.objects) /\ \A j \in DOMAIN old.objects : Value(barred, t.heap, old.objects[j])
      /\ IsPtr(old.prev) => EnvValue(t.heap, old.prev)
      /\ old.prev.k \in {"ptr", "none"}
  BY <1>4 DEF ObjectOK
<1>6. /\ IsSeq(s) /\ Len(s) = Len(old.objects) /\ DOMAIN s = DOMAIN old.objects
      /\ s[i] = v /\ \A j \in DOMAIN s : j # i => s[j] = old.objects[j]
  BY <1>1, <1>2, <1>5, SetIs
<1>7. /\ DOMAIN o = DOMAIN old /\ o.objects = s /\ o.ty = "env" /\ o.prev = old.prev
  BY <1>3, <1>4, <1>5
<1>8. ObjectOK(barred, t.heap, o)
  BY <1>5, <1>6, <1>7 DEF ObjectOK, DataOK
<1>9. SUFFICES ASSUME NEW p, p = [t EXCEPT !.heap[a].objects[i] = v]
               PROVE  HeapOK(barred, p) /\ Extends(t.heap, p.heap) /\ SameRegisters(t, p) /\ SameStack(t, p)
  OBVIOUS
<1>10. p = [t EXCEPT !.heap = [t.heap EXCEPT ![a] = o]]
  BY <1>1, <1>2, <1>3, <1>9
<1>11. /\ AllRegisters(p) /\ SameRegisters(t, p) /\ SameStack(t, p)
       /\ p.heap = [t.heap EXCEPT ![a] = o]
  BY <1>10 DEF HeapOK, AllRegisters, SameRegisters, SameFrame, SameStack
<1>12. p.idx \in 0 .. t.idx /\ p.opstack = t.opstack
  BY <1>11 DEF SameStack, HeapOK
<1>13. o.ty = t.heap[a].ty /\ Len(o.objects) = Len(t.heap[a].objects)
  BY <1>1, <1>4, <1>6, <1>7
<1>14. HeapOK(barred, p) /\ Extends(t.heap, p.heap)
  BY <1>8, <1>11, <1>12, <1>13, HeapSet
<1>15. QED
  BY <1>11, <1>14

LEMMA BoundIs ==
  ASSUME NEW barred, ModuleOK, NEW t, HeapOK(barred, t), NEW at, FrameOK(t, at),
         NEW i \in DOMAIN Function(t.func).bindings
  PROVE  EnvValue(t.heap, BoundEnv(t, Function(t.func).bindings[i]))
<1>1. PICK fn, b : fn = Function(t.func) /\ b = Function(t.func).bindings[i]
  OBVIOUS
<1>2. FunctionOK(t.func) /\ Len(fn.bindmap) \in Nat
  BY <1>1, FunctionIs DEF FrameOK
<1>3. b[1] \in 0 .. Len(fn.bindmap) - 1 /\ fn.bindings # <<>>
  BY <1>1, <1>2 DEF FunctionOK
<1>4. t.bindmap = Slot(Base(t)) /\ \A j \in 1 .. Len(fn.bindmap) : EnvValue(t.heap, t.opstack[Base(t) + j])
  BY <1>1, <1>3 DEF FrameOK
<1>5. b[1] + 1 \in 1 .. Len(fn.bindmap) /\ Base(t) \in Nat
  BY <1>2, <1>3, FrameIs
<1>6. Base(t) + b[1] + 1 = Base(t) + (b[1] + 1)
  BY <1>2, <1>3, <1>5
<1>7. BoundEnv(t, b) = t.opstack[Base(t) + (b[1] + 1)]
  BY <1>4, <1>6 DEF BoundEnv, Slot
<1>8. QED
  BY <1>1, <1>4, <1>5, <1>7

\* A step to a thread that has stopped.
LEMMA StoppedIs ==
  ASSUME NEW barred, NEW p, thread' = p, p.status # "run"
  PROVE  MachineOK(barred)'
BY DEF MachineOK, StateOK

LEMMA StopIs ==
  ASSUME NEW t, AllRegisters(t), NEW why, why # "run"
  PROVE  Stop(t, why).status # "run"
BY DEF Stop, AllRegisters

LEMMA LoadBindStep ==
  ASSUME NEW barred \in SUBSET {"stale"}, ModuleOK, MachineOK(barred), LoadBind
  PROVE  MachineOK(barred)'
<1>1. Running /\ call = NoCall /\ Instruction[1] = "LOAD_BIND"
  BY DEF LoadBind, Fetching
<1>2. /\ HeapOK(barred, thread) /\ FrameOK(thread, pc) /\ Instruction = Ins(thread, pc)
      /\ AllRegisters(thread)
  BY <1>1, AtInstruction
<1>3. InBounds(thread.func, Instruction)
  BY <1>2, FrameIs
<1>4. PICK env : env = BoundEnv(thread, Binding)
  OBVIOUS
<1>5. CASE HasSlot(env, Binding[2])
  <2>1. PICK v : v = thread.heap[env.a].objects[Binding[2] + 1]
    OBVIOUS
  <2>2. Next1(Push(thread, v))
    BY <1>4, <1>5, <2>1 DEF LoadBind
  <2>3. EnvValue(thread.heap, env)
    BY <1>1, <1>2, <1>3, <1>4, BoundIs DEF InBounds, Arg, Binding, Fn
  <2>4. ObjectOK(barred, thread.heap, thread.heap[env.a]) /\ thread.heap[env.a].ty = "env"
    BY <1>2, <2>3 DEF EnvValue, HeapOK
  <2>5. Value(barred, thread.heap, v)
    BY <1>5, <2>1, <2>4 DEF ObjectOK, HasSlot
  <2>6. Instruction[1] \in Pushing
    BY <1>1 DEF Pushing
  <2>7. QED
    BY <1>1, <2>2, <2>5, <2>6, Pushes
<1>6. CASE ~HasSlot(env, Binding[2])
  <2>1. Next1(Stop(thread, "undefined"))
    BY <1>4, <1>6 DEF LoadBind
  <2>2. QED
    BY <1>2, <2>1, StopIs, StoppedIs DEF Next1
<1>7. QED
  BY <1>5, <1>6

LEMMA SetLocalStep ==
  ASSUME NEW barred \in SUBSET {"stale"}, ModuleOK, MachineOK(barred), SetLocalSlot
  PROVE  MachineOK(barred)'
<1>1. Running /\ call = NoCall /\ Instruction[1] = "SET_LOCAL"
  BY DEF SetLocalSlot, Fetching
<1>2. /\ HeapOK(barred, thread) /\ FrameOK(thread, pc) /\ Instruction = Ins(thread, pc)
      /\ thread.local_roots = <<>>
  BY <1>1, AtInstruction
<1>3. /\ InBounds(thread.func, Instruction)
      /\ Base(thread) \in Nat /\ Bottom(thread) \in Nat /\ Base(thread) <= Bottom(thread)
      /\ thread.idx \in 0..StackSize /\ thread.idx = Bottom(thread) + Height(thread, pc)
      /\ Needs(Instruction) <= Height(thread, pc) /\ Height(thread, pc) \in 0 .. pc /\ pc \in Nat
  BY <1>2, FrameIs
<1>4. Needs(Instruction) = 1 /\ Grows(Instruction) = -1
  BY <1>1 DEF Needs, Grows, Pushing, Joining, Replacing, Popping
<1>5. Bottom(thread) <= thread.idx - 1 /\ 1 <= thread.idx
  BY <1>3, <1>4
<1>6. PICK v : v = Top(thread, 1)
  OBVIOUS
<1>7. Value(barred, thread.heap, v)
  <2>1. thread.idx + 1 - 1 \in 1 .. thread.idx
    BY <1>3, <1>5
  <2>2. QED
    BY <1>2, <1>6, <2>1 DEF Top, HeapOK
<1>8. PICK q : q = Pop(thread, 1)
  OBVIOUS
<1>9. /\ HeapOK(barred, q) /\ SameRegisters(thread, q) /\ q.heap = thread.heap
      /\ q.idx = thread.idx - 1 /\ q.opstack = thread.opstack
  <2>1. 1 \in Nat /\ 1 <= thread.idx
    BY <1>5
  <2>2. QED
    BY <1>2, <1>8, <2>1, PopIs
<1>10. Arg \in 0 .. Slots(thread.func) - 1
  BY <1>1, <1>3 DEF InBounds, Arg
<1>11. PICK p : p = SetLocal(q, Arg, v)
  OBVIOUS
<1>12. Next1(p)
  BY <1>6, <1>8, <1>11 DEF SetLocalSlot
<1>13. /\ HeapOK(barred, p) /\ SameFrame(thread, p) /\ Extends(thread.heap, p.heap)
       /\ p.idx = thread.idx - 1
       /\ \A i \in Base(thread) + 1 .. Bottom(thread) : p.opstack[i] = thread.opstack[i]
  <2>1. CASE thread.heap_env
    <3>1. PICK a, i : a = thread.objects.a /\ i = Arg + 1
      OBVIOUS
    <3>2. /\ IsPtr(thread.objects) /\ EnvValue(thread.heap, thread.objects)
          /\ i \in DOMAIN thread.heap[a].objects
      BY <1>2, <1>10, <2>1, <3>1, LocalIs
    <3>3. a \in DOMAIN q.heap /\ q.heap[a].ty = "env" /\ i \in DOMAIN q.heap[a].objects
      BY <1>9, <3>1, <3>2 DEF EnvValue
    <3>4. p = [q EXCEPT !.heap[a].objects[i] = v]
      BY <1>9, <1>11, <3>1, <3>2 DEF SetLocal, SameRegisters, SameFrame
    <3>5. HeapOK(barred, p) /\ Extends(q.heap, p.heap) /\ SameRegisters(q, p) /\ SameStack(q, p)
      <4>1. Value(barred, q.heap, v)
        BY <1>7, <1>9
      <4>2. QED
        BY <1>9, <3>3, <3>4, <4>1, SlotSet
    <3>6. QED
      BY <1>9, <3>5 DEF SameRegisters, SameFrame, SameStack
  <2>2. CASE ~thread.heap_env
    <3>1. PICK k : k = thread.objects.i + Arg + 1
      OBVIOUS
    <3>2. ~IsPtr(thread.objects) /\ k \in 1 .. Base(thread)
      BY <1>2, <1>10, <2>2, <3>1, LocalIs
    <3>3. p = [q EXCEPT !.opstack[k] = v]
      BY <1>9, <1>11, <3>1, <3>2 DEF SetLocal, SameRegisters, SameFrame
    <3>4. /\ AllRegisters(p) /\ SameRegisters(q, p) /\ p.heap = q.heap /\ p.idx = q.idx
          /\ p.opstack = [q.opstack EXCEPT ![k] = v]
      BY <1>9, <3>3 DEF HeapOK, AllRegisters, SameRegisters, SameFrame
    <3>5. HeapOK(barred, p)
      <4>1. k \in 1 .. q.idx /\ q.idx \in 0..StackSize /\ DOMAIN q.opstack = 1..StackSize
        BY <1>3, <1>5, <1>9, <3>2 DEF HeapOK
      <4>2. DOMAIN p.opstack = 1..StackSize /\ p.opstack[k] = v
            /\ \A i \in 1..StackSize : i # k => p.opstack[i] = q.opstack[i]
        BY <3>4, <4>1, VmAssumption
      <4>3. \A i \in 1 .. q.idx : i \in 1..StackSize
        BY <4>1, VmAssumption
      <4>4. \A i \in 1 .. q.idx : Value(barred, q.heap, q.opstack[i])
        BY <1>9 DEF HeapOK
      <4>5. \A i \in 1 .. p.idx : Value(barred, p.heap, p.opstack[i])
        BY <1>7, <1>9, <3>4, <4>2, <4>3, <4>4
      <4>6. \A w \in {p.closure, p.lib_cache, p.exception_handlers} : Value(barred, p.heap, w)
        BY <1>9, <3>4 DEF HeapOK, SameRegisters
      <4>7. /\ EnvValue(p.heap, p.env) /\ p.heap_env \in BOOLEAN
            /\ IF p.heap_env THEN EnvValue(p.heap, p.objects) ELSE p.objects.k = "slot"
            /\ IsSeq(p.heap) /\ \A a \in DOMAIN p.heap : ObjectOK(barred, p.heap, p.heap[a])
        BY <1>9, <3>4 DEF HeapOK, SameRegisters, SameFrame
      <4>8. QED
        BY <3>4, <4>1, <4>2, <4>5, <4>6, <4>7 DEF HeapOK
    <3>6. \A i \in Base(thread) + 1 .. Bottom(thread) : p.opstack[i] = thread.opstack[i]
      <4>1. \A i \in Base(thread) + 1 .. Bottom(thread) : i # k
        BY <1>3, <3>2
      <4>2. \A i : i # k => [q.opstack EXCEPT ![k] = v][i] = q.opstack[i] \/ i \notin DOMAIN q.opstack
        OBVIOUS
      <4>3. \A i \in Base(thread) + 1 .. Bottom(thread) : i \in DOMAIN q.opstack
        <5>1. DOMAIN q.opstack = 1..StackSize
          BY <1>9 DEF HeapOK
        <5>2. QED
          BY <1>3, <1>5, <5>1, VmAssumption
      <4>4. QED
        BY <1>9, <3>4, <4>1, <4>2, <4>3
    <3>7. QED
      BY <1>2, <1>9, <3>4, <3>5, <3>6, ExtendsSelf DEF SameRegisters, SameFrame
  <2>3. QED
    BY <2>1, <2>2
<1>14. p.idx = thread.idx + Grows(Instruction) /\ Instruction[1] \notin {"FUNC_CALL", "JUMP_FORWARD"}
  BY <1>1, <1>3, <1>4, <1>13
<1>15. QED
  BY <1>1, <1>2, <1>12, <1>13, <1>14, InstructionDone

\* The operands of an instruction, and what is left without them.
LEMMA Operands ==
  ASSUME NEW barred, ModuleOK, MachineOK(barred), Running, call = NoCall,
         NEW n \in Nat, n <= Needs(Instruction)
  PROVE  /\ n <= thread.idx /\ Base(thread) \in Nat /\ Bottom(thread) \in Nat
         /\ Bottom(thread) <= thread.idx - n /\ thread.idx \in 0..StackSize
         /\ \A i \in 1..n : Value(barred, thread.heap, Top(thread, i))
         /\ \A p : p = Pop(thread, n) =>
              /\ HeapOK(barred, p) /\ SameRegisters(thread, p) /\ p.heap = thread.heap
              /\ p.idx = thread.idx - n /\ p.opstack = thread.opstack
<1>1. /\ HeapOK(barred, thread) /\ FrameOK(thread, pc) /\ Instruction = Ins(thread, pc)
  BY AtInstruction
<1>2. /\ Base(thread) \in Nat /\ Bottom(thread) \in Nat
      /\ thread.idx \in 0..StackSize /\ thread.idx = Bottom(thread) + Height(thread, pc)
      /\ Needs(Instruction) <= Height(thread, pc) /\ Height(thread, pc) \in 0 .. pc /\ pc \in Nat
  BY <1>1, FrameIs
<1>3. Needs(Instruction) \in Int
  <2>1. InBounds(thread.func, Instruction)
    BY <1>1, FrameIs
  <2>2. CASE Instruction[1] = "FUNC_CALL"
    BY <2>1, <2>2 DEF InBounds, Needs, Joining, Replacing, Popping
  <2>3. CASE Instruction[1] # "FUNC_CALL"
    BY <2>3 DEF Needs
  <2>4. QED
    BY <2>2, <2>3
<1>4. n <= thread.idx /\ Bottom(thread) <= thread.idx - n
  BY <1>2, <1>3
<1>5. \A i \in 1..n : thread.idx + 1 - i \in 1 .. thread.idx
  BY <1>2, <1>4
<1>6. \A i \in 1..n : Value(barred, thread.heap, Top(thread, i))
  BY <1>1, <1>5 DEF Top, HeapOK
<1>7. \A p : p = Pop(thread, n) =>
              /\ HeapOK(barred, p) /\ SameRegisters(thread, p) /\ p.heap = thread.heap
              /\ p.idx = thread.idx - n /\ p.opstack = thread.opstack
  BY <1>1, <1>4, PopIs
<1>8. QED
  BY <1>2, <1>4, <1>6, <1>7

\* An instruction that has a value in place of its operands.
LEMMA Replaces ==
  ASSUME NEW barred, ModuleOK, MachineOK(barred), Running, call = NoCall,
         NEW n \in Nat, n <= Needs(Instruction), 1 - n = Grows(Instruction),
         Instruction[1] \notin {"FUNC_CALL", "JUMP_FORWARD"},
         NEW v, Value(barred, thread.heap, v), Next1(Push(Pop(thread, n), v))
  PROVE  MachineOK(barred)'
<1>1. /\ HeapOK(barred, thread) /\ thread.local_roots = <<>> /\ FrameOK(thread, pc)
  BY AtInstruction
<1>2. PICK q : q = Pop(thread, n)
  OBVIOUS
<1>3. /\ n <= thread.idx /\ Base(thread) \in Nat /\ Bottom(thread) \in Nat
      /\ Bottom(thread) <= thread.idx - n /\ thread.idx \in 0..StackSize
      /\ HeapOK(barred, q) /\ SameRegisters(thread, q) /\ q.heap = thread.heap
      /\ q.idx = thread.idx - n /\ q.opstack = thread.opstack
  BY <1>2, Operands
<1>4. PICK p : p = Push(q, v)
  OBVIOUS
<1>5. Next1(p)
  BY <1>2, <1>4
<1>6. ASSUME p.status = "run"
      PROVE  /\ HeapOK(barred, p) /\ SameFrame(thread, p) /\ Extends(thread.heap, p.heap)
             /\ p.idx = thread.idx + Grows(Instruction)
             /\ \A i \in Base(thread) + 1 .. Bottom(thread) : p.opstack[i] = thread.opstack[i]
  <2>1. /\ HeapOK(barred, p) /\ SameRegisters(q, p) /\ p.heap = q.heap
        /\ p.idx = q.idx + 1
        /\ \A i \in 1 .. q.idx : p.opstack[i] = q.opstack[i]
    BY <1>3, <1>4, <1>6, PushIs
  <2>2. \A i \in Base(thread) + 1 .. Bottom(thread) : i \in 1 .. q.idx
    BY <1>3, VmAssumption
  <2>3. Extends(thread.heap, p.heap)
    BY <1>1, <1>3, <2>1, ExtendsSelf
  <2>4. p.idx = thread.idx + Grows(Instruction)
    BY <1>3, <2>1
  <2>5. \A i \in Base(thread) + 1 .. Bottom(thread) : p.opstack[i] = thread.opstack[i]
    BY <1>3, <2>1, <2>2
  <2>6. SameFrame(thread, p)
    BY <1>3, <2>1 DEF SameRegisters, SameFrame
  <2>7. QED
    BY <2>1, <2>3, <2>4, <2>5, <2>6
<1>7. QED
  BY <1>1, <1>5, <1>6, InstructionDone

LEMMA OpEqPtrStep ==
  ASSUME NEW barred \in SUBSET {"stale"}, ModuleOK, MachineOK(barred), OpEqPtr
  PROVE  MachineOK(barred)'
<1>1. Running /\ call = NoCall /\ Instruction[1] = "$eq?"
  BY DEF OpEqPtr, Fetching
<1>2. PICK v : v = CIf(Top(thread, 2) = Top(thread, 1))
  OBVIOUS
<1>3. Value(barred, thread.heap, v)
  <2>1. \A b : Value(barred, thread.heap, CIf(b))
    BY Immediates
  <2>2. QED
    BY <1>2, <2>1
<1>4. Next1(Push(Pop(thread, 2), v))
  BY <1>2 DEF OpEqPtr
<1>5. 2 <= Needs(Instruction) /\ 1 - 2 = Grows(Instruction)
  BY <1>1 DEF Needs, Grows, Replacing, Joining, Popping, Pushing
<1>6. QED
  BY <1>1, <1>3, <1>4, <1>5, Replaces

LEMMA OpNotStep ==
  ASSUME NEW barred \in SUBSET {"stale"}, ModuleOK, MachineOK(barred), OpNot
  PROVE  MachineOK(barred)'
<1>1. Running /\ call = NoCall /\ Instruction[1] = "$!"
  BY DEF OpNot, Fetching
<1>2. PICK v : v = CIf(Top(thread, 1) = CIf(FALSE))
  OBVIOUS
<1>3. Value(barred, thread.heap, v)
  <2>1. \A b : Value(barred, thread.heap, CIf(b))
    BY Immediates
  <2>2. QED
    BY <1>2, <2>1
<1>4. Next1(Push(Pop(thread, 1), v))
  BY <1>2 DEF OpNot
<1>5. 1 <= Needs(Instruction) /\ 1 - 1 = Grows(Instruction)
  BY <1>1 DEF Needs, Grows, Replacing, Joining, Popping, Pushing
<1>6. QED
  BY <1>1, <1>3, <1>4, <1>5, Replaces

LEMMA OpTypeTestStep ==
  ASSUME NEW barred \in SUBSET {"stale"}, ModuleOK, MachineOK(barred), OpTypeTest
  PROVE  MachineOK(barred)'
<1>1. Running /\ call = NoCall /\ Instruction[1] = "$type-test"
  BY DEF OpTypeTest, Fetching
<1>2. PICK yes \in TestOf(Arg, Top(thread, 1)) : Next1(Push(Pop(thread, 1), CIf(yes)))
  BY DEF OpTypeTest
<1>3. PICK v : v = CIf(yes)
  OBVIOUS
<1>4. Value(barred, thread.heap, v)
  BY <1>3, Immediates
<1>5. Next1(Push(Pop(thread, 1), v))
  BY <1>2, <1>3
<1>6. 1 <= Needs(Instruction) /\ 1 - 1 = Grows(Instruction)
  BY <1>1 DEF Needs, Grows, Replacing, Joining, Popping, Pushing
<1>7. QED
  BY <1>1, <1>4, <1>5, <1>6, Replaces

LEMMA BitAndIs ==
  ASSUME NEW a \in Int, NEW b \in Int
  PROVE  BitAnd(a, b) \in Int
<1> DEFINE D == [a : Int, b : Int, weight : Int, sum : Int]
           more(s) == [a |-> s.a \div 2, b |-> s.b \div 2, weight |-> 2 * s.weight,
                       sum |-> s.sum + (IF s.a % 2 = 1 /\ s.b % 2 = 1 THEN s.weight ELSE 0)]
           bit == [s \in D |-> more(s)]
           start == [a |-> a, b |-> b, weight |-> 1, sum |-> 0]
<1>1. start \in D
  OBVIOUS
<1>2. ASSUME NEW s \in D
      PROVE  more(s) \in D
  <2>1. s.a \in Int /\ s.b \in Int /\ s.weight \in Int /\ s.sum \in Int
    OBVIOUS
  <2>2. s.a \div 2 \in Int /\ s.b \div 2 \in Int /\ 2 * s.weight \in Int
    BY <2>1
  <2>3. s.sum + (IF s.a % 2 = 1 /\ s.b % 2 = 1 THEN s.weight ELSE 0) \in Int
    BY <2>1
  <2>4. QED
    BY <2>2, <2>3
<1>3. bit \in [D -> D]
  <2> HIDE DEF D, more
  <2>1. QED
    BY <1>2
<1>4. PICK at : at = Walk(bit, start, NumberBits)
  OBVIOUS
<1>5. at \in [0..NumberBits -> D] /\ NumberBits \in 0..NumberBits
  <2>1. NumberBits \in Nat
    BY DEF NumberBits
  <2> HIDE DEF D, bit, start
  <2>2. QED
    BY <1>1, <1>3, <1>4, <2>1, WalkIs
<1>6. PICK end : end = at[NumberBits]
  OBVIOUS
<1>7. end.sum \in Int /\ end.weight \in Int
  BY <1>5, <1>6
<1>8. BitAnd(a, b) = end.sum - (IF a < 0 /\ b < 0 THEN end.weight ELSE 0)
  BY <1>4, <1>6 DEF BitAnd
<1>9. QED
  BY <1>7, <1>8

LEMMA ComputeIs ==
  ASSUME NEW barred \in SUBSET {"stale"}, NEW heap, NEW a \in Int, NEW b \in Int,
         NEW op \in {"$+", "$-", "$*", "$/", "$%", "$<", "$>", "$=", "$and", "$ior", "$xor"},
         op \in {"$/", "$%"} => b # 0
  PROVE  Value(barred, heap, Compute(op, a, b))
<1>1. /\ \A n \in Int : Value(barred, heap, Fix(n))
      /\ \A x : Value(barred, heap, CIf(x))
  BY Immediates
<1>2. CASE op \in {"$+", "$-", "$*"}
  <2>1. a + b \in Int /\ a - b \in Int /\ a * b \in Int
    OBVIOUS
  <2>2. QED
    BY <1>1, <1>2, <2>1 DEF Compute
<1>3. CASE op \in {"$/", "$%"}
  <2>1. Abs(a) \in Nat /\ Abs(b) \in Nat \ {0}
    BY <1>3 DEF Abs
  <2>2. Abs(a) \div Abs(b) \in Int
    BY <2>1
  <2>3. PICK q : q = Abs(a) \div Abs(b)
    OBVIOUS
  <2>4. Div(a, b) \in Int
    BY <2>2, <2>3 DEF Div
  <2>5. PICK d : d = Div(a, b)
    OBVIOUS
  <2>6. d \in Int /\ a - b * d \in Int
    BY <2>4, <2>5
  <2>7. Compute(op, a, b) = IF op = "$/" THEN Fix(d) ELSE Fix(a - b * d)
    BY <1>3, <2>5 DEF Compute
  <2>8. QED
    BY <1>1, <2>6, <2>7
<1>4. CASE op \in {"$<", "$>", "$="}
  <2>1. Compute(op, a, b) \in {CIf(a < b), CIf(a > b), CIf(a = b)}
    BY <1>4 DEF Compute
  <2>2. QED
    BY <1>1, <2>1
<1>5. CASE op \in {"$and", "$ior", "$xor"}
  <2>1. \A x, y \in Int : BitAnd(x, y) \in Int
    BY BitAndIs
  <2>2. \A x \in Int : BitNot(x) \in Int
    BY DEF BitNot
  <2>3. \A x, y \in Int : BitIor(x, y) \in Int
    BY <2>1, <2>2 DEF BitIor
  <2>4. \A x, y \in Int : BitXor(x, y) \in Int
    BY <2>1, <2>3 DEF BitXor
  <2>5. Compute(op, a, b) \in {Fix(BitAnd(a, b)), Fix(BitIor(a, b)), Fix(BitXor(a, b))}
    BY <1>5 DEF Compute
  <2>6. QED
    BY <1>1, <2>1, <2>3, <2>4, <2>5
<1>6. QED
  BY <1>2, <1>3, <1>4, <1>5

LEMMA ArithmeticStep ==
  ASSUME NEW barred \in SUBSET {"stale"}, ModuleOK, MachineOK(barred), Arithmetic
  PROVE  MachineOK(barred)'
<1> DEFINE Ops == {"$+", "$-", "$*", "$/", "$%", "$<", "$>", "$=", "$and", "$ior", "$xor"}
<1>1. Running /\ call = NoCall /\ Instruction[1] \in Ops
  BY DEF Arithmetic, Fetching
<1>2. PICK op, a, b, t : /\ op = Instruction[1] /\ a = Top(thread, 2) /\ b = Top(thread, 1)
                         /\ t = Pop(thread, 2)
  OBVIOUS
<1>3. Next1(IF a.k # "fix" \/ b.k # "fix" THEN Stop(t, "undefined")
            ELSE IF op \in {"$/", "$%"} /\ b.v = 0 THEN Stop(t, "fatal")
            ELSE Push(t, Compute(op, a.v, b.v)))
  BY <1>2 DEF Arithmetic
<1>4. 2 <= Needs(Instruction) /\ 1 - 2 = Grows(Instruction)
      /\ Instruction[1] \notin {"FUNC_CALL", "JUMP_FORWARD"}
  BY <1>1 DEF Needs, Grows, Replacing, Joining, Popping, Pushing
<1>5. /\ HeapOK(barred, t)
      /\ Value(barred, thread.heap, a) /\ Value(barred, thread.heap, b)
  BY <1>1, <1>2, <1>4, Operands
<1>6. CASE a.k # "fix" \/ b.k # "fix" \/ (op \in {"$/", "$%"} /\ b.v = 0)
  <2>1. PICK why \in {"undefined", "fatal"} : Next1(Stop(t, why))
    BY <1>3, <1>6
  <2>2. QED
    BY <1>5, <2>1, StopIs, StoppedIs DEF Next1, HeapOK
<1>7. CASE a.k = "fix" /\ b.k = "fix" /\ ~(op \in {"$/", "$%"} /\ b.v = 0)
  <2>1. a.v \in Int /\ b.v \in Int
    BY <1>5, <1>7 DEF Value
  <2>2. PICK v : v = Compute(op, a.v, b.v)
    OBVIOUS
  <2>3. Value(barred, thread.heap, v)
    BY <1>1, <1>2, <1>7, <2>1, <2>2, ComputeIs
  <2>4. Next1(Push(Pop(thread, 2), v))
    BY <1>2, <1>3, <1>7, <2>2
  <2>5. QED
    BY <1>1, <1>4, <2>3, <2>4, Replaces
<1>8. QED
  BY <1>6, <1>7

LEMMA OpBitNotStep ==
  ASSUME NEW barred \in SUBSET {"stale"}, ModuleOK, MachineOK(barred), OpBitNot
  PROVE  MachineOK(barred)'
<1>1. Running /\ call = NoCall /\ Instruction[1] = "$not"
  BY DEF OpBitNot, Fetching
<1>2. PICK a, t : a = Top(thread, 1) /\ t = Pop(thread, 1)
  OBVIOUS
<1>3. 1 <= Needs(Instruction) /\ 1 - 1 = Grows(Instruction)
  BY <1>1 DEF Needs, Grows, Replacing, Joining, Popping, Pushing
<1>4. HeapOK(barred, t) /\ Value(barred, thread.heap, a)
  BY <1>1, <1>2, <1>3, Operands
<1>5. Next1(IF a.k # "fix" THEN Stop(t, "undefined") ELSE PushUntagged(t, BitNot(a.v)))
  BY <1>2 DEF OpBitNot
<1>6. \/ Next1(Stop(t, "undefined"))
      \/ a.k = "fix" /\ \E v \in {Fix(BitNot(a.v) \div 8), Char(BitNot(a.v) \div 8)} : Next1(Push(t, v))
  BY <1>5 DEF PushUntagged
<1>7. CASE Next1(Stop(t, "undefined"))
  BY <1>4, <1>7, StopIs, StoppedIs DEF Next1, HeapOK
<1>8. CASE a.k = "fix" /\ \E v \in {Fix(BitNot(a.v) \div 8), Char(BitNot(a.v) \div 8)} : Next1(Push(t, v))
  <2>1. PICK v \in {Fix(BitNot(a.v) \div 8), Char(BitNot(a.v) \div 8)} : Next1(Push(t, v))
    BY <1>8
  <2>2. BitNot(a.v) \div 8 \in Int
    <3>1. a.v \in Int
      BY <1>4, <1>8 DEF Value
    <3>2. QED
      BY <3>1 DEF BitNot
  <2>3. Value(barred, thread.heap, v)
    BY <2>1, <2>2, Immediates
  <2>4. Next1(Push(Pop(thread, 1), v))
    BY <1>2, <2>1
  <2>5. QED
    BY <1>1, <1>3, <2>3, <2>4, Replaces
<1>9. QED
  BY <1>6, <1>7, <1>8

LEMMA SetBindStep ==
  ASSUME NEW barred \in SUBSET {"stale"}, ModuleOK, MachineOK(barred), SetBind
  PROVE  MachineOK(barred)'
<1>1. Running /\ call = NoCall /\ Instruction[1] = "SET_BIND"
  BY DEF SetBind, Fetching
<1>2. /\ HeapOK(barred, thread) /\ FrameOK(thread, pc) /\ Instruction = Ins(thread, pc)
      /\ AllRegisters(thread) /\ thread.local_roots = <<>>
  BY <1>1, AtInstruction
<1>3. InBounds(thread.func, Instruction)
  BY <1>2, FrameIs
<1>4. PICK env, v, q, i : /\ env = BoundEnv(thread, Binding) /\ v = Top(thread, 1)
                          /\ q = Pop(thread, 1) /\ i = Binding[2] + 1
  OBVIOUS
<1>5. 1 <= Needs(Instruction) /\ Grows(Instruction) = -1
      /\ Instruction[1] \notin {"FUNC_CALL", "JUMP_FORWARD"}
  BY <1>1 DEF Needs, Grows, Replacing, Joining, Popping, Pushing
<1>6. /\ Base(thread) \in Nat /\ Bottom(thread) \in Nat
      /\ Bottom(thread) <= thread.idx - 1 /\ thread.idx \in 0..StackSize
      /\ Value(barred, thread.heap, v)
      /\ HeapOK(barred, q) /\ SameRegisters(thread, q) /\ q.heap = thread.heap
      /\ q.idx = thread.idx - 1 /\ q.opstack = thread.opstack
  BY <1>1, <1>4, <1>5, Operands
<1>7. CASE HasSlot(env, Binding[2])
  <2>1. PICK p : p = [q EXCEPT !.heap[env.a].objects[i] = v]
    OBVIOUS
  <2>2. Next1(p)
    BY <1>4, <1>7, <2>1 DEF SetBind
  <2>3. EnvValue(thread.heap, env)
    BY <1>1, <1>2, <1>3, <1>4, BoundIs DEF InBounds, Arg, Binding, Fn
  <2>4. /\ env.a \in DOMAIN q.heap /\ q.heap[env.a].ty = "env"
        /\ i \in DOMAIN q.heap[env.a].objects /\ Value(barred, q.heap, v)
    BY <1>4, <1>6, <1>7, <2>3 DEF EnvValue, HasSlot
  <2>5. HeapOK(barred, p) /\ Extends(q.heap, p.heap) /\ SameRegisters(q, p) /\ SameStack(q, p)
    BY <1>6, <2>1, <2>4, SlotSet
  <2>6. SameFrame(thread, p) /\ Extends(thread.heap, p.heap)
    BY <1>6, <2>5 DEF SameRegisters, SameFrame
  <2>7. p.idx = thread.idx + Grows(Instruction) /\ p.opstack = thread.opstack
    BY <1>5, <1>6, <2>5 DEF SameStack
  <2>8. QED
    BY <1>1, <1>2, <1>5, <2>2, <2>5, <2>6, <2>7, InstructionDone
<1>8. CASE ~HasSlot(env, Binding[2])
  <2>1. Next1(Stop(thread, "undefined"))
    BY <1>4, <1>8 DEF SetBind
  <2>2. QED
    BY <1>2, <2>1, StopIs, StoppedIs DEF Next1
<1>9. QED
  BY <1>7, <1>8

LEMMA JumpStep ==
  ASSUME NEW barred \in SUBSET {"stale"}, ModuleOK, MachineOK(barred), Jump
  PROVE  MachineOK(barred)'
<1>1. Running /\ call = NoCall /\ Instruction[1] \in {"JUMP_IF_FALSE", "JUMP_FORWARD"}
  BY DEF Jump, Fetching
<1>2. /\ HeapOK(barred, thread) /\ FrameOK(thread, pc) /\ Instruction = Ins(thread, pc)
      /\ thread.local_roots = <<>>
  BY <1>1, AtInstruction
<1>3. InBounds(thread.func, Instruction) /\ pc \in Nat
  BY <1>2, FrameIs
<1>4. Arg \in Nat
  BY <1>1, <1>3 DEF InBounds, Arg
<1>5. PICK p, to : thread' = p /\ pc' = to /\ call' = NoCall /\ module' = module
  BY <1>1 DEF Jump
<1>6. to \in Nat /\ to + 1 \in Successors(Function(thread.func).code, pc + 1)
  <2>1. to = pc + 1 + Arg \/ (to = pc + 1 /\ Instruction[1] = "JUMP_IF_FALSE")
    <3>1. PICK d : d = IF Instruction[1] = "JUMP_IF_FALSE" => Top(thread, 1) = CIf(FALSE)
                       THEN Arg ELSE 0
      OBVIOUS
    <3>2. to = pc + 1 + d
      BY <1>5, <3>1 DEF Jump
    <3>3. d = Arg \/ (d = 0 /\ Instruction[1] = "JUMP_IF_FALSE")
      BY <3>1
    <3>4. QED
      BY <1>3, <3>2, <3>3
  <2>2. Instruction = Function(thread.func).code[pc + 1]
    BY DEF Instruction, Fn
  <2>3. CASE to = pc + 1 + Arg
    <3>1. to + 1 = (pc + 1) + 1 + Arg
      BY <1>3, <1>4, <2>3
    <3>2. QED
      BY <1>1, <1>3, <1>4, <2>2, <2>3, <3>1 DEF Successors, Arg
  <2>4. CASE to = pc + 1 /\ Instruction[1] = "JUMP_IF_FALSE"
    <3>1. Instruction[1] \notin {"FUNC_CALL", "JUMP_FORWARD"}
      BY <2>4
    <3>2. QED
      BY <1>3, <2>2, <2>4, <3>1 DEF Successors
  <2>5. QED
    BY <2>1, <2>3, <2>4
<1>7. CASE Instruction[1] = "JUMP_FORWARD"
  <2>1. p = thread
    BY <1>5, <1>7 DEF Jump
  <2>2. Grows(Instruction) = 0
    BY <1>7 DEF Grows, Joining, Popping, Pushing
  <2>3. thread.idx \in Nat
    BY <1>2, VmAssumption DEF HeapOK
  <2>4. p.idx = thread.idx + Grows(Ins(thread, pc))
    BY <1>2, <2>1, <2>2, <2>3
  <2>5. SameFrame(thread, p) /\ Extends(thread.heap, p.heap)
    BY <1>2, <2>1, ExtendsSelf DEF SameFrame
  <2>6. StateOK(barred, p, to, NoCall)
    BY <1>2, <1>6, <2>1, <2>4, <2>5, Advances
  <2>7. QED
    BY <1>5, <2>6, NewState
<1>8. CASE Instruction[1] = "JUMP_IF_FALSE"
  <2>1. p = Pop(thread, 1)
    BY <1>5, <1>8 DEF Jump
  <2>2. 1 <= Needs(Instruction) /\ Grows(Instruction) = -1
    BY <1>8 DEF Needs, Grows, Replacing, Joining, Popping, Pushing
  <2>3. /\ thread.idx \in 0..StackSize
        /\ HeapOK(barred, p) /\ SameRegisters(thread, p) /\ p.heap = thread.heap
        /\ p.idx = thread.idx - 1 /\ p.opstack = thread.opstack
    BY <1>1, <2>1, <2>2, Operands
  <2>4. p.idx = thread.idx + Grows(Ins(thread, pc))
    BY <1>2, <2>2, <2>3
  <2>5. SameFrame(thread, p) /\ Extends(thread.heap, p.heap)
    BY <1>2, <2>3, ExtendsSelf DEF SameRegisters
  <2>6. StateOK(barred, p, to, NoCall)
    BY <1>2, <1>6, <2>3, <2>4, <2>5, Advances
  <2>7. QED
    BY <1>5, <2>6, NewState
<1>9. QED
  BY <1>1, <1>7, <1>8

LEMMA FuncCallStep ==
  ASSUME NEW barred \in SUBSET {"stale"}, ModuleOK, MachineOK(barred), FuncCall
  PROVE  MachineOK(barred)'
<1>1. Running /\ call = NoCall /\ Instruction[1] = "FUNC_CALL"
  BY DEF FuncCall, Fetching
<1>2. /\ FrameOK(thread, pc) /\ Instruction = Ins(thread, pc) /\ thread.local_roots = <<>>
      /\ HeapOK(barred, thread)
  BY <1>1, AtInstruction
<1>3. InBounds(thread.func, Instruction)
  BY <1>2, FrameIs
<1>4. Arg \in Nat /\ Needs(Instruction) = 1 + Arg
  BY <1>1, <1>3 DEF InBounds, Arg, Needs, Replacing, Joining, Popping
<1>5. PICK p, c : p = Pop(thread, 1) /\ c = <<Top(thread, 1), Arg>>
  OBVIOUS
<1>6. thread' = p /\ call' = c /\ module' = module /\ pc' = pc
  BY <1>5 DEF FuncCall, Calling
<1>7. /\ 1 + Arg <= thread.idx /\ thread.idx \in 0..StackSize
  BY <1>1, <1>4, Operands
<1>8. /\ HeapOK(barred, p) /\ SameRegisters(thread, p) /\ p.heap = thread.heap
      /\ p.idx = thread.idx - 1
      /\ \A i \in 1..1 : Value(barred, thread.heap, Top(thread, i))
  BY <1>1, <1>4, <1>5, Operands
<1>9. CallOK(barred, p, c)
  BY <1>4, <1>5, <1>7, <1>8 DEF CallOK
<1>10. c # NoCall
  BY <1>5 DEF NoCall
<1>11. StateOK(barred, p, pc, c)
  BY <1>2, <1>8, <1>9, <1>10 DEF StateOK, ThreadOK, SameRegisters, SameFrame
<1>12. QED
  BY <1>6, <1>11, NewState

LEMMA Allocates ==
  ASSUME NEW barred \in SUBSET {"stale"}, NEW t, HeapOK(barred, t), RootsOK(barred, t),
         NEW c \in MayCollect(t)
  PROVE  CollectedTo(barred, t, c)
<1>1. CASE c = t
  <2>1. \A v : Value(barred, t.heap, v) \/ EnvValue(t.heap, v) => Moves(t, t, v, v)
    BY DEF Moves, Value, EnvValue, IsPtr
  <2>2. /\ Moves(t, t, t.env, t.env)
        /\ \A i \in 1 .. t.idx : Moves(t, t, t.opstack[i], t.opstack[i])
    BY <2>1 DEF HeapOK
  <2>3. \A i \in DOMAIN t.local_roots : Moves(t, t, t.local_roots[i], t.local_roots[i])
    BY <2>1 DEF RootsOK
  <2>4. QED
    BY <1>1, <2>2, <2>3 DEF CollectedTo
<1>2. CASE c = Collected(t)
  BY <1>2, CollectedKeeps
<1>3. QED
  BY <1>1, <1>2 DEF MayCollect

LEMMA NoRoots ==
  ASSUME NEW barred, NEW t, t.local_roots = <<>>
  PROVE  RootsOK(barred, t)
<1>1. IsSeq(<<>>) /\ DOMAIN <<>> = {}
  BY DEF IsSeq
<1>2. QED
  BY <1>1 DEF RootsOK

\* Nothing is there that has no place.
LEMMA NoRootsKept ==
  ASSUME NEW barred, NEW t, NEW c, CollectedTo(barred, t, c), t.local_roots = <<>>
  PROVE  c.local_roots = <<>>
<1>1. IsSeq(c.local_roots) /\ DOMAIN c.local_roots = {}
  BY DEF CollectedTo, RootsOK
<1>2. Len(c.local_roots) = 0
  <2>1. Len(c.local_roots) \in Nat /\ DOMAIN c.local_roots = 1 .. Len(c.local_roots)
    BY <1>1, SeqIs
  <2>2. 1 \notin 1 .. Len(c.local_roots)
    BY <1>1, <2>1
  <2>3. QED
    BY <2>1, <2>2
<1>3. QED
  BY <1>1, <1>2 DEF IsSeq

LEMMA LoadClosureStep ==
  ASSUME NEW barred \in SUBSET {"stale"}, ModuleOK, MachineOK(barred), LoadClosure
  PROVE  MachineOK(barred)'
<1>1. Running /\ call = NoCall /\ Instruction[1] = "LOAD_CLOSURE"
  BY DEF LoadClosure, Fetching
<1>2. /\ HeapOK(barred, thread) /\ FrameOK(thread, pc) /\ Instruction = Ins(thread, pc)
      /\ thread.local_roots = <<>>
  BY <1>1, AtInstruction
<1>3. InBounds(thread.func, Instruction)
  BY <1>2, FrameIs
<1>4. PICK t \in MayCollect(thread) :
        LET p == Place(t, [ty |-> "closure", env |-> t.env, func |-> Arg])
        IN  Next1(Push(p, New(p)))
  BY DEF LoadClosure
<1>5. CollectedTo(barred, thread, t)
  BY <1>2, NoRoots, Allocates
<1>6. HeapOK(barred, t) /\ t.func = thread.func /\ t.local_roots = <<>>
  BY <1>2, <1>5, NoRootsKept DEF CollectedTo
<1>7. FrameOK(t, pc)
  BY <1>2, <1>5, FrameCollected
<1>8. PICK o : o = [ty |-> "closure", env |-> t.env, func |-> Arg]
  OBVIOUS
<1>9. ObjectOK(barred, t.heap, o)
  <2>1. EnvValue(t.heap, t.env)
    BY <1>6 DEF HeapOK
  <2>2. Arg \in Loadable
    BY <1>1, <1>3 DEF InBounds, Arg
  <2>3. QED
    BY <1>8, <2>1, <2>2 DEF ObjectOK, DataOK
<1>10. PICK q : q = Place(t, o)
  OBVIOUS
<1>11. HeapOK(barred, q) /\ Value(barred, q.heap, New(q))
  BY <1>6, <1>9, <1>10, PlaceKeeps
<1>12. SameRegisters(t, q) /\ SameStack(t, q) /\ Extends(t.heap, q.heap)
  BY <1>6, <1>10, PlaceIs DEF HeapOK
<1>13. PICK v, p : v = New(q) /\ p = Push(q, v)
  OBVIOUS
<1>14. Next1(p)
  BY <1>4, <1>8, <1>10, <1>13
<1>15. Grows(Instruction) = 1 /\ Instruction[1] \notin {"FUNC_CALL", "JUMP_FORWARD"}
  BY <1>1 DEF Grows, Pushing, Joining, Popping
<1>16. /\ t.idx \in 0..StackSize /\ Base(t) \in Nat
       /\ Bottom(t) \in Nat /\ Bottom(t) <= t.idx
  BY <1>6, <1>7, FrameIs
<1>17. ASSUME p.status = "run"
       PROVE  /\ HeapOK(barred, p) /\ SameFrame(t, p) /\ Extends(t.heap, p.heap)
              /\ p.idx = t.idx + Grows(Instruction)
              /\ \A i \in Base(t) + 1 .. Bottom(t) : p.opstack[i] = t.opstack[i]
  <2>1. /\ HeapOK(barred, p) /\ SameRegisters(q, p) /\ p.heap = q.heap
        /\ p.idx = q.idx + 1
        /\ \A i \in 1 .. q.idx : p.opstack[i] = q.opstack[i]
    BY <1>11, <1>13, <1>17, PushIs
  <2>2. q.idx = t.idx /\ q.opstack = t.opstack
    BY <1>12 DEF SameStack
  <2>3. \A i \in Base(t) + 1 .. Bottom(t) : i \in 1 .. t.idx
    BY <1>16, VmAssumption
  <2>4. SameFrame(t, p)
    BY <1>12, <2>1 DEF SameRegisters, SameFrame
  <2>5. QED
    BY <1>12, <1>15, <2>1, <2>2, <2>3, <2>4
<1>18. QED
  BY <1>1, <1>6, <1>7, <1>14, <1>15, <1>17, InstructionDone

LEMMA RootsSet ==
  ASSUME NEW barred, NEW t, HeapOK(barred, t), NEW r
  PROVE  \A p : p = [t EXCEPT !.local_roots = r] =>
           /\ HeapOK(barred, p) /\ SameStack(t, p) /\ p.heap = t.heap /\ p.local_roots = r
           /\ p.env = t.env /\ p.objects = t.objects /\ p.bindmap = t.bindmap
           /\ p.func = t.func /\ p.heap_env = t.heap_env /\ p.status = t.status
<1>1. SUFFICES ASSUME NEW p, p = [t EXCEPT !.local_roots = r]
               PROVE  /\ HeapOK(barred, p) /\ SameStack(t, p) /\ p.heap = t.heap /\ p.local_roots = r
                      /\ p.env = t.env /\ p.objects = t.objects /\ p.bindmap = t.bindmap
                      /\ p.func = t.func /\ p.heap_env = t.heap_env /\ p.status = t.status
  OBVIOUS
<1>2. /\ AllRegisters(p) /\ SameStack(t, p) /\ p.heap = t.heap /\ p.local_roots = r
      /\ p.env = t.env /\ p.objects = t.objects /\ p.bindmap = t.bindmap
      /\ p.func = t.func /\ p.heap_env = t.heap_env /\ p.status = t.status
      /\ p.closure = t.closure /\ p.lib_cache = t.lib_cache
      /\ p.exception_handlers = t.exception_handlers
  BY <1>1 DEF HeapOK, AllRegisters, SameStack
<1>3. HeapOK(barred, p)
  BY <1>2 DEF HeapOK, SameStack
<1>4. QED
  BY <1>2, <1>3

LEMMA PairIs ==
  ASSUME NEW barred \in SUBSET {"stale"}, ModuleOK, NEW t, HeapOK(barred, t),
         NEW car, Value(barred, t.heap, car), NEW cdr, Value(barred, t.heap, cdr)
  PROVE  ObjectOK(barred, t.heap, PairOf(car, cdr, Object(t, cdr)))
<1>1. PICK rest, o : rest = Object(t, cdr) /\ o = PairOf(car, cdr, rest)
  OBVIOUS
<1>2. rest.ty = "pair" => rest.len \in Int
  BY <1>1, Leads DEF DataOK
<1>3. ListLength(cdr, rest) \in Int
  BY <1>2 DEF ListLength, Unset
<1>4. PICK n : n = ListLength(cdr, rest)
  OBVIOUS
<1>5. o = [ty |-> "pair", car |-> car, cdr |-> cdr, len |-> n]
  BY <1>1, <1>4 DEF PairOf
<1>6. ObjectOK(barred, t.heap, o)
  BY <1>3, <1>4, <1>5 DEF ObjectOK, DataOK
<1>7. QED
  BY <1>1, <1>6

LEMMA OpConsStep ==
  ASSUME NEW barred \in SUBSET {"stale"}, ModuleOK, MachineOK(barred), OpCons
  PROVE  MachineOK(barred)'
<1>1. Running /\ call = NoCall /\ Instruction[1] = "$cons"
  BY DEF OpCons, Fetching
<1>2. /\ HeapOK(barred, thread) /\ FrameOK(thread, pc) /\ Instruction = Ins(thread, pc)
      /\ thread.local_roots = <<>>
  BY <1>1, AtInstruction
<1>3. 2 <= Needs(Instruction) /\ Grows(Instruction) = -1
      /\ Instruction[1] \notin {"FUNC_CALL", "JUMP_FORWARD"}
  BY <1>1 DEF Needs, Grows, Replacing, Joining, Popping, Pushing
<1>4. PICK q, a, b : q = Pop(thread, 2) /\ a = Top(thread, 2) /\ b = Top(thread, 1)
  OBVIOUS
<1>5. /\ Base(thread) \in Nat /\ Bottom(thread) \in Nat
      /\ Bottom(thread) <= thread.idx - 2 /\ thread.idx \in 0..StackSize
      /\ Value(barred, thread.heap, a) /\ Value(barred, thread.heap, b)
      /\ HeapOK(barred, q) /\ SameRegisters(thread, q) /\ q.heap = thread.heap
      /\ q.idx = thread.idx - 2 /\ q.opstack = thread.opstack
  BY <1>1, <1>3, <1>4, Operands
<1>6. PICK r : r = [q EXCEPT !.local_roots = <<a, b>>]
  OBVIOUS
<1>7. /\ HeapOK(barred, r) /\ SameStack(q, r) /\ r.heap = q.heap /\ r.local_roots = <<a, b>>
      /\ r.env = q.env /\ r.objects = q.objects /\ r.bindmap = q.bindmap
      /\ r.func = q.func /\ r.heap_env = q.heap_env /\ r.status = q.status
  BY <1>5, <1>6, RootsSet
<1>8. RootsOK(barred, r) /\ DOMAIN r.local_roots = 1..2
  <2>1. PICK s : s = <<a, b>>
    OBVIOUS
  <2>2. s \in Seq({a, b}) /\ DOMAIN s = 1..2
    BY <2>1
  <2>3. IsSeq(s) /\ \A i \in DOMAIN s : s[i] \in {a, b}
    BY <2>2, SeqIn
  <2>4. QED
    BY <1>5, <1>7, <2>1, <2>2, <2>3 DEF RootsOK
<1>9. PICK t \in MayCollect(r) :
        LET p == PlacePair(t, t.local_roots[1], t.local_roots[2])
        IN  Next1([Push(p, New(p)) EXCEPT !.local_roots = <<>>])
  BY <1>4, <1>6 DEF OpCons
<1>10. CollectedTo(barred, r, t)
  BY <1>7, <1>8, Allocates
<1>11. PICK o, u, v, w, p :
         /\ o = PairOf(t.local_roots[1], t.local_roots[2], Object(t, t.local_roots[2]))
         /\ u = Place(t, o) /\ v = New(u) /\ w = Push(u, v) /\ p = [w EXCEPT !.local_roots = <<>>]
  OBVIOUS
<1>12. Next1(p)
  BY <1>9, <1>11 DEF PlacePair
<1>13. HeapOK(barred, t) /\ ObjectOK(barred, t.heap, o)
  <2>1. /\ HeapOK(barred, t)
        /\ Value(barred, t.heap, t.local_roots[1]) /\ Value(barred, t.heap, t.local_roots[2])
    BY <1>8, <1>10 DEF CollectedTo, RootsOK
  <2>2. QED
    BY <1>11, <2>1, PairIs
<1>14. /\ HeapOK(barred, u) /\ Value(barred, u.heap, v)
       /\ SameRegisters(t, u) /\ SameStack(t, u) /\ Extends(t.heap, u.heap)
  <2>1. HeapOK(barred, u) /\ Value(barred, u.heap, v)
    BY <1>11, <1>13, PlaceKeeps
  <2>2. SameRegisters(t, u) /\ SameStack(t, u) /\ Extends(t.heap, u.heap)
    BY <1>11, <1>13, PlaceIs DEF HeapOK
  <2>3. QED
    BY <2>1, <2>2
<1>15. thread' = p /\ pc' = pc + 1 /\ call' = NoCall /\ module' = module
  BY <1>1, <1>12 DEF Next1
<1>16. CASE w.status # "run"
  <2>1. w.status # "run" => p.status # "run"
    BY <1>11
  <2>2. QED
    BY <1>15, <1>16, <2>1, StoppedIs
<1>17. CASE w.status = "run"
  <2>1. /\ HeapOK(barred, w) /\ SameRegisters(u, w) /\ w.heap = u.heap
        /\ w.idx = u.idx + 1
        /\ \A i \in 1 .. u.idx : w.opstack[i] = u.opstack[i]
    <3>1. w = Push(u, v) /\ HeapOK(barred, u) /\ Value(barred, u.heap, v)
      BY <1>11, <1>14
    <3>2. QED
      BY <1>17, <3>1, PushIs
  <2>2. /\ HeapOK(barred, p) /\ SameStack(w, p) /\ p.heap = w.heap /\ p.local_roots = <<>>
        /\ p.env = w.env /\ p.objects = w.objects /\ p.bindmap = w.bindmap
        /\ p.func = w.func /\ p.heap_env = w.heap_env /\ p.status = w.status
    <3>1. p = [w EXCEPT !.local_roots = <<>>] /\ HeapOK(barred, w)
      BY <1>11, <2>1
    <3>2. QED
      BY <3>1, RootsSet
  <2>3. /\ p.idx = t.idx + 1 /\ Extends(t.heap, p.heap)
        /\ \A i \in 1 .. t.idx : p.opstack[i] = t.opstack[i]
        /\ p.env = t.env /\ p.objects = t.objects /\ p.bindmap = t.bindmap
        /\ p.func = t.func /\ p.heap_env = t.heap_env
    BY <1>14, <2>1, <2>2 DEF SameRegisters, SameFrame, SameStack
  <2>4. t.idx = thread.idx - 2 /\ t.func = thread.func /\ t.bindmap = thread.bindmap
        /\ t.heap_env = thread.heap_env
    BY <1>5, <1>7, <1>10 DEF CollectedTo, SameRegisters, SameFrame, SameStack
  <2>5. \A i \in 1 .. Len(Function(thread.func).bindmap) : EnvValue(p.heap, p.opstack[Base(thread) + i])
    <3>1. SUFFICES ASSUME NEW i \in 1 .. Len(Function(thread.func).bindmap)
                   PROVE  EnvValue(p.heap, p.opstack[Base(thread) + i])
      OBVIOUS
    <3>2. EnvValue(r.heap, r.opstack[Base(thread) + i])
      BY <1>2, <1>5, <1>7 DEF FrameOK, SameStack
    <3>3. Base(thread) + i \in 1 .. t.idx
      <4>1. Len(Function(thread.func).bindmap) \in Nat
        BY <1>2, FunctionIs DEF FrameOK
      <4>2. Base(thread) + i <= Bottom(thread)
        BY <1>5, <4>1 DEF Bottom
      <4>3. QED
        BY <1>5, <2>4, <4>1, <4>2
    <3>4. r.idx = t.idx
      BY <1>10 DEF CollectedTo
    <3>5. Moves(r, t, r.opstack[Base(thread) + i], t.opstack[Base(thread) + i])
      BY <1>10, <3>3, <3>4 DEF CollectedTo
    <3>6. EnvValue(t.heap, t.opstack[Base(thread) + i])
      BY <3>2, <3>5, MovesKeeps
    <3>7. QED
      BY <2>3, <3>3, <3>6, EnvGrows
  <2>6. IF thread.heap_env
        THEN p.objects = p.env /\ Len(p.heap[p.env.a].objects) = Len(thread.heap[thread.env.a].objects)
        ELSE p.objects = thread.objects
    <3>1. /\ Moves(r, t, r.env, t.env)
          /\ IF r.heap_env THEN t = r \/ t.objects = t.env ELSE t.objects = r.objects
      BY <1>10 DEF CollectedTo
    <3>2. /\ r.env = thread.env /\ r.objects = thread.objects /\ r.heap_env = thread.heap_env
          /\ r.heap = thread.heap
      BY <1>5, <1>7 DEF SameRegisters, SameFrame
    <3>3. thread.heap_env => thread.objects = thread.env
      BY <1>2 DEF FrameOK
    <3>4. EnvValue(r.heap, r.env)
      BY <1>7 DEF HeapOK
    <3>5. EnvValue(t.heap, t.env) /\ Len(t.heap[t.env.a].objects) = Len(r.heap[r.env.a].objects)
      <4>1. Moves(r, t, r.env, t.env)
        BY <3>1
      <4>2. "ptr" \notin barred
        OBVIOUS
      <4>3. QED
        BY <3>4, <4>1, <4>2, MovesKeeps
    <3>6. Len(p.heap[t.env.a].objects) = Len(t.heap[t.env.a].objects)
      BY <2>3, <3>5, EnvGrows
    <3>7. QED
      BY <2>3, <3>1, <3>2, <3>3, <3>5, <3>6
  <2>7. /\ pc + 1 \in Nat /\ pc + 1 + 1 \in DOMAIN Function(thread.func).code
        /\ Height(thread, pc + 1) = Height(thread, pc) + Grows(Instruction)
        /\ Height(thread, pc) >= 2 /\ Height(thread, pc) \in Int
        /\ thread.idx = Bottom(thread) + Height(thread, pc)
    <3>1. pc \in Nat /\ Height(thread, pc) \in 0 .. pc /\ Needs(Instruction) <= Height(thread, pc)
          /\ thread.idx = Bottom(thread) + Height(thread, pc)
      BY <1>2, FrameIs
    <3>2. Instruction = Function(thread.func).code[pc + 1]
      BY DEF Instruction, Fn
    <3>3. pc + 1 + 1 \in Successors(Function(thread.func).code, pc + 1)
      BY <1>3, <3>1, <3>2 DEF Successors
    <3>4. /\ pc + 1 + 1 \in DOMAIN Function(thread.func).code
          /\ module.heights[thread.func + 1][pc + 1 + 1] = Height(thread, pc) + Grows(Instruction)
      BY <1>2, <3>3, FrameIs
    <3>5. Needs(Instruction) = 2
      BY <1>1 DEF Needs, Joining, Replacing, Popping
    <3>6. QED
      BY <3>1, <3>4, <3>5 DEF Height
  <2>8. p.idx = Bottom(thread) + Height(thread, pc + 1) /\ Height(thread, pc + 1) # Unreached
    BY <1>3, <1>5, <2>3, <2>4, <2>7 DEF Unreached
  <2>9. p.func = thread.func /\ p.heap_env = thread.heap_env /\ p.bindmap = thread.bindmap
    BY <2>3, <2>4
  <2>10. FrameOK(p, pc + 1)
    BY <1>2, <2>5, <2>6, <2>7, <2>8, <2>9, FrameMoved
  <2>11. StateOK(barred, p, pc + 1, NoCall)
    BY <2>2, <2>10 DEF StateOK, ThreadOK
  <2>12. QED
    BY <1>15, <2>11, NewState
<1>18. QED
  BY <1>16, <1>17

-----------------------------------------------------------------------------
(* What a step leaves to be called, and exceptions.                        *)

LEMMA HeapSame ==
  ASSUME NEW barred, NEW t, HeapOK(barred, t), NEW p, AllRegisters(p), p.heap = t.heap,
         SameStack(t, p), EnvValue(t.heap, p.env), p.objects = t.objects, p.heap_env = t.heap_env,
         Value(barred, t.heap, p.closure), Value(barred, t.heap, p.lib_cache),
         Value(barred, t.heap, p.exception_handlers)
  PROVE  HeapOK(barred, p)
<1>1. /\ IsSeq(p.heap)
      /\ \A a \in DOMAIN p.heap : ObjectOK(barred, p.heap, p.heap[a])
  BY DEF HeapOK
<1>2. /\ DOMAIN p.opstack = 1..StackSize
      /\ p.idx \in 0..StackSize
      /\ \A i \in 1 .. p.idx : Value(barred, p.heap, p.opstack[i])
  BY DEF HeapOK, SameStack
<1>3. /\ EnvValue(p.heap, p.env)
      /\ \A v \in {p.closure, p.lib_cache, p.exception_handlers} : Value(barred, p.heap, v)
      /\ p.heap_env \in BOOLEAN
      /\ IF p.heap_env THEN EnvValue(p.heap, p.objects) ELSE p.objects.k = "slot"
  BY DEF HeapOK
<1>4. QED
  BY <1>1, <1>2, <1>3 DEF HeapOK

LEMMA Calls ==
  ASSUME NEW barred, module' = module,
         NEW p, NEW v, NEW n \in Int, thread' = p, call' = Calling(v, n),
         p.status = "run" =>
           HeapOK(barred, p) /\ p.local_roots = <<>> /\ Value(barred, p.heap, v) /\ n <= p.idx
  PROVE  MachineOK(barred)'
<1>1. PICK at : pc' = at
  OBVIOUS
<1>2. PICK c : c = Calling(v, n)
  OBVIOUS
<1>3. c # NoCall /\ c[1] = v /\ c[2] = n /\ c = <<c[1], c[2]>>
  BY <1>2 DEF Calling, NoCall
<1>4. CASE p.status = "run"
  <2>1. CallOK(barred, p, c)
    BY <1>3, <1>4 DEF CallOK
  <2>2. StateOK(barred, p, at, c)
    BY <1>3, <1>4, <2>1 DEF StateOK, ThreadOK
  <2>3. call' = c
    BY <1>2
  <2>4. QED
    BY <1>1, <2>2, <2>3, NewState
<1>5. CASE p.status # "run"
  BY <1>5, StoppedIs
<1>6. QED
  BY <1>4, <1>5

LEMMA MessageIs ==
  ASSUME NEW barred, NEW heap
  PROVE  ObjectOK(barred, heap, StringOf(Message))
<1>1. Message \in Seq(Int)
  BY DEF Message
<1>2. PICK m : m = Message
  OBVIOUS
<1>3. PICK o : o = StringOf(m)
  OBVIOUS
<1>4. /\ o.ty = "string" /\ DOMAIN o = {"ty", "s", "at", "allocated", "zero"} /\ o.s \in Seq(Int)
  BY <1>1, <1>2, <1>3 DEF StringOf
<1>5. ObjectOK(barred, heap, o)
  BY <1>4 DEF ObjectOK, DataOK
<1>6. QED
  BY <1>2, <1>3, <1>5

LEMMA HandlerCalled ==
  ASSUME NEW barred \in SUBSET {"stale"}, module' = module,
         NEW t, HeapOK(barred, t), t.local_roots = <<>>,
         NEW handler, Value(barred, t.heap, handler), NEW rest, Value(barred, t.heap, rest),
         thread' = CallHandler(t, handler, rest).thread,
         call' = CallHandler(t, handler, rest).call
  PROVE  MachineOK(barred)'
<1>1. PICK o, p, q, v, w :
        /\ o = StringOf(Message) /\ p = Place(t, o) /\ v = New(p)
        /\ q = [p EXCEPT !.exception_handlers = rest]
        /\ w = PushAll(q, <<Native("__exit"), v>>)
  OBVIOUS
<1>2. thread' = w /\ call' = Calling(handler, 2)
  BY <1>1 DEF CallHandler
<1>3. ObjectOK(barred, t.heap, o)
  BY <1>1, MessageIs
<1>4. HeapOK(barred, p) /\ Value(barred, p.heap, v)
  BY <1>1, <1>3, PlaceKeeps
<1>5. SameRegisters(t, p) /\ SameStack(t, p) /\ Extends(t.heap, p.heap)
  BY <1>1, PlaceIs DEF HeapOK
<1>6. Value(barred, p.heap, handler) /\ Value(barred, p.heap, rest)
  BY <1>5, ValueGrows
<1>7. /\ AllRegisters(q) /\ q.heap = p.heap /\ SameStack(p, q) /\ q.env = p.env
      /\ q.objects = p.objects /\ q.heap_env = p.heap_env /\ q.closure = p.closure
      /\ q.lib_cache = p.lib_cache /\ q.exception_handlers = rest
      /\ q.local_roots = p.local_roots /\ q.status = p.status
  BY <1>1, <1>4 DEF HeapOK, AllRegisters, SameStack
<1>8. HeapOK(barred, q)
  <2>1. /\ EnvValue(p.heap, p.env) /\ Value(barred, p.heap, p.closure)
        /\ Value(barred, p.heap, p.lib_cache)
    BY <1>4 DEF HeapOK
  <2>2. QED
    BY <1>4, <1>6, <1>7, <2>1, HeapSame
<1>9. PICK s : s = <<Native("__exit"), v>>
  OBVIOUS
<1>10. IsSeq(s) /\ Len(s) = 2 /\ \A i \in 1 .. Len(s) : Value(barred, q.heap, s[i])
  <2>1. s \in Seq({Native("__exit"), v}) /\ Len(s) = 2 /\ DOMAIN s = 1..2
    BY <1>9
  <2>2. IsSeq(s) /\ \A i \in DOMAIN s : s[i] \in {Native("__exit"), v}
    BY <2>1, SeqIn
  <2>3. Value(barred, q.heap, Native("__exit"))
    BY Immediates
  <2>4. Value(barred, q.heap, v)
    BY <1>4, <1>7
  <2>5. QED
    BY <2>1, <2>2, <2>3, <2>4
<1>11. w = PushAll(q, s)
  BY <1>1, <1>9
<1>12. w.status = "run" =>
         HeapOK(barred, w) /\ w.local_roots = <<>> /\ Value(barred, w.heap, handler) /\ 2 <= w.idx
  <2>1. SUFFICES ASSUME w.status = "run"
                 PROVE  HeapOK(barred, w) /\ w.local_roots = <<>> /\ Value(barred, w.heap, handler) /\ 2 <= w.idx
    OBVIOUS
  <2>2. HeapOK(barred, w)
    BY <1>8, <1>10, <1>11, <2>1, PushAllKeeps
  <2>3. SameRegisters(q, w) /\ w.heap = q.heap /\ w.idx = q.idx + Len(s) /\ q.idx \in 0..StackSize
    <3>1. AllRegisters(q) /\ DOMAIN q.opstack = 1..StackSize /\ q.idx \in 0..StackSize
      BY <1>8 DEF HeapOK
    <3>2. IsSeq(s)
      BY <1>10
    <3>3. QED
      BY <1>11, <2>1, <3>1, <3>2, PushAllIs
  <2>4. w.local_roots = <<>>
    BY <1>5, <1>7, <2>3 DEF SameRegisters, SameFrame
  <2>5. QED
    BY <1>6, <1>7, <1>10, <2>2, <2>3, <2>4, VmAssumption
<1>13. QED
  BY <1>2, <1>12, Calls

LEMMA RaiseStep ==
  ASSUME NEW barred \in SUBSET {"stale"}, ModuleOK, module' = module,
         NEW t, HeapOK(barred, t), t.local_roots = <<>>, Raise(t),
         "stale" \in barred =>
           ~(HasHandler(t) /\ Collecting /\ thread' = CallHandler(Collected(t), Stale, Stale).thread)
  PROVE  MachineOK(barred)'
<1>1. PICK r \in Raised(t) : thread' = r.thread /\ call' = r.call
  BY DEF Raise
<1>2. CASE ~HasHandler(t)
  <2>1. r = [thread |-> Stop(t, "killed"), call |-> NoCall]
    BY <1>1, <1>2 DEF Raised, HasHandler
  <2>2. PICK p : p = Stop(t, "killed")
    OBVIOUS
  <2>3. thread' = p /\ p.status # "run"
    BY <1>1, <2>1, <2>2, StopIs DEF HeapOK
  <2>4. QED
    BY <2>3, StoppedIs
<1>3. CASE HasHandler(t)
  <2>1. PICK o : o = Object(t, t.exception_handlers)
    OBVIOUS
  <2>2. o.ty = "pair"
    BY <1>3, <2>1 DEF HasHandler, IsType
  <2>3. Value(barred, t.heap, o.car) /\ Value(barred, t.heap, o.cdr)
    <3>1. Value(barred, t.heap, t.exception_handlers)
      BY DEF HeapOK
    <3>2. DataOK(barred, t.heap, o)
      BY <2>1, <2>2, <3>1, Leads
    <3>3. QED
      BY <2>2, <3>2 DEF DataOK
  <2>4. \/ r = CallHandler(t, o.car, o.cdr)
        \/ Collecting /\ r = CallHandler(Collected(t), Stale, Stale)
    BY <1>1, <1>3, <2>1 DEF Raised, HasHandler
  <2>5. CASE r = CallHandler(t, o.car, o.cdr)
    BY <1>1, <2>3, <2>5, HandlerCalled
  <2>6. CASE Collecting /\ r = CallHandler(Collected(t), Stale, Stale)
    <3>1. "stale" \notin barred
      BY <1>1, <1>3, <2>6
    <3>2. CollectedTo(barred, t, Collected(t))
      BY CollectedKeeps, NoRoots
    <3>3. PICK c : c = Collected(t)
      OBVIOUS
    <3>4. HeapOK(barred, c) /\ c.local_roots = <<>>
      BY <3>2, <3>3, NoRootsKept DEF CollectedTo
    <3>5. Value(barred, c.heap, Stale)
      BY <3>1, StaleValue
    <3>6. QED
      BY <1>1, <2>6, <3>3, <3>4, <3>5, HandlerCalled
  <2>7. QED
    BY <2>4, <2>5, <2>6
<1>4. QED
  BY <1>2, <1>3

LEMMA PairFieldStep ==
  ASSUME NEW barred \in SUBSET {"stale"}, ModuleOK, MachineOK(barred), PairField,
         "stale" \in barred => ~Losing
  PROVE  MachineOK(barred)'
<1>1. Running /\ call = NoCall /\ Instruction[1] \in {"$car", "$cdr"}
  BY DEF PairField, Fetching
<1>2. /\ HeapOK(barred, thread) /\ thread.local_roots = <<>>
  BY <1>1, AtInstruction
<1>3. Needs(Instruction) = 1 /\ Grows(Instruction) = 0
      /\ Instruction[1] \notin {"FUNC_CALL", "JUMP_FORWARD"}
  BY <1>1 DEF Needs, Grows, Replacing, Joining, Popping, Pushing
<1>4. PICK t, a, o : t = Pop(thread, 1) /\ a = Top(thread, 1) /\ o = Object(thread, a)
  OBVIOUS
<1>5. /\ Value(barred, thread.heap, a) /\ HeapOK(barred, t) /\ SameRegisters(thread, t)
  BY <1>1, <1>3, <1>4, Operands
<1>6. CASE a = Stale
  <2>1. Next1(Stop(t, "undefined"))
    BY <1>4, <1>6 DEF PairField
  <2>2. PICK p : p = Stop(t, "undefined")
    OBVIOUS
  <2>3. thread' = p
    BY <2>1, <2>2 DEF Next1
  <2>4. p.status # "run"
    BY <1>5, <2>2, StopIs DEF HeapOK
  <2>5. QED
    BY <2>3, <2>4, StoppedIs
<1>7. CASE a # Stale /\ o.ty = "pair"
  <2>1. DataOK(barred, thread.heap, o)
    BY <1>2, <1>4, <1>5, <1>7, Leads
  <2>2. PICK v : v = IF Instruction[1] = "$car" THEN o.car ELSE o.cdr
    OBVIOUS
  <2>3. Value(barred, thread.heap, v)
    BY <1>7, <2>1, <2>2 DEF DataOK
  <2>4. Next1(Push(Pop(thread, 1), v))
    BY <1>4, <1>7, <2>2 DEF PairField, IsType
  <2>5. QED
    BY <1>1, <1>3, <2>3, <2>4, Replaces
<1>8. CASE a # Stale /\ o.ty # "pair"
  <2>1. Raise(t) /\ module' = module
    BY <1>4, <1>8 DEF PairField, IsType
  <2>2. t.local_roots = <<>>
    BY <1>2, <1>5 DEF SameRegisters, SameFrame
  <2>3. "stale" \in barred =>
           ~(HasHandler(t) /\ Collecting /\ thread' = CallHandler(Collected(t), Stale, Stale).thread)
    BY <1>4 DEF Losing, LosesHandler
  <2>4. QED
    BY <1>5, <2>1, <2>2, <2>3, RaiseStep
<1>9. QED
  BY <1>6, <1>7, <1>8
=============================================================================

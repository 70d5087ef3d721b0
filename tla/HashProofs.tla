----------------------------- MODULE HashProofs -----------------------------
(***************************************************************************)
(* Proofs about HashTable: a table implements a map, whatever the keys,    *)
(* their hashes and the sizes.                                             *)
(***************************************************************************)
EXTENDS HashTable, FiniteSetTheorems, WellFoundedInduction, TLAPS

-----------------------------------------------------------------------------
(* Chains: one node more at the end, one more in front, one less.          *)

LEMMA AppendElements ==
  ASSUME NEW S, NEW s \in Seq(S), NEW x \in S
  PROVE  /\ Append(s, x) \in Seq(S)
         /\ DOMAIN Append(s, x) = 1 .. Len(s) + 1
         /\ \A p \in DOMAIN s : Append(s, x)[p] = s[p]
         /\ Append(s, x)[Len(s) + 1] = x
OBVIOUS

LEMMA ConsElements ==
  ASSUME NEW S, NEW s \in Seq(S), NEW x \in S
  PROVE  /\ <<x>> \o s \in Seq(S)
         /\ DOMAIN (<<x>> \o s) = 1 .. Len(s) + 1
         /\ \A p \in DOMAIN s : (<<x>> \o s)[p + 1] = s[p]
         /\ (<<x>> \o s)[1] = x
OBVIOUS

LEMMA TailElements ==
  ASSUME NEW S, NEW s \in Seq(S), s # <<>>
  PROVE  /\ Head(s) \in S /\ Head(s) = s[1] /\ 1 \in DOMAIN s
         /\ Tail(s) \in Seq(S)
         /\ DOMAIN Tail(s) = 1 .. Len(s) - 1
         /\ \A p \in DOMAIN Tail(s) : p + 1 \in DOMAIN s /\ Tail(s)[p] = s[p + 1]
         /\ \A p \in DOMAIN s : p # 1 => p - 1 \in DOMAIN Tail(s) /\ Tail(s)[p - 1] = s[p]
OBVIOUS

LEMMA LeastExists ==
  ASSUME NEW T \in SUBSET Nat, T # {}
  PROVE  \E x \in T : \A y \in T : x <= y
<1> DEFINE R == {ss \in Nat \X Nat : ss[1] < ss[2]}
<1>1. R = OpToRel(<, Nat)
  BY DEF OpToRel
<1>2. IsWellFoundedOn(R, Nat)
  BY <1>1, NatLessThanWellFounded, Zenon
<1> HIDE DEF R
<1>3. PICK x \in T : \A y \in T : ~ (<<y, x>> \in R)
  BY <1>2, WFMin
<1>4. \A y \in T : <<y, x>> \in R <=> y < x
  BY DEF R
<1>5. \A y \in T : ~ (y < x)
  BY <1>3, <1>4, Zenon
<1>6. \A y \in T : x <= y
  BY <1>5
<1> QED
  BY <1>6

-----------------------------------------------------------------------------
(* Arrays.  To append a node to a chain, to put it in front, and, seen      *)
(* backwards, to take away the first, are insertions at some place.         *)

Array(n) == [0 .. n - 1 -> Seq(Node)]

\* Where the q-th node of chain e is after an insertion at place k of chain c.
Shifted(e, q, c, k) == IF e = c /\ q >= k THEN q + 1 ELSE q

\* The array t is a with the node inserted at place k of chain c.
Inserted(a, t, n, c, k, node) ==
  /\ a \in Array(n) /\ t \in Array(n) /\ node \in Node
  /\ c \in 0 .. n - 1 /\ k \in DOMAIN t[c] /\ t[c][k] = node
  /\ \A e \in 0 .. n - 1 : \A q \in DOMAIN a[e] :
       Shifted(e, q, c, k) \in DOMAIN t[e] /\ t[e][Shifted(e, q, c, k)] = a[e][q]
  /\ \A e \in 0 .. n - 1 : \A r \in DOMAIN t[e] :
       (e = c /\ r = k) \/ \E q \in DOMAIN a[e] : r = Shifted(e, q, c, k)

\* The node has the name of no node of the array.
Fresh(array, n, node) ==
  \A b \in 0 .. n - 1 : \A p \in DOMAIN array[b] : Name[array[b][p].key] # Name[node.key]

LEMMA AppendInserts ==
  ASSUME NEW n \in Nat \ {0}, NEW a \in Array(n), NEW c \in 0 .. n - 1, NEW node \in Node
  PROVE  Inserted(a, [a EXCEPT ![c] = Append(@, node)], n, c, Len(a[c]) + 1, node)
<1> DEFINE t == [a EXCEPT ![c] = Append(@, node)]
<1>1. /\ a[c] \in Seq(Node) /\ t \in Array(n)
      /\ \A b \in 0 .. n - 1 : b # c => t[b] = a[b]
      /\ t[c] = Append(a[c], node)
  BY AppendElements DEF Array
<1>2. /\ DOMAIN t[c] = 1 .. Len(a[c]) + 1 /\ DOMAIN a[c] = 1 .. Len(a[c])
      /\ \A p \in DOMAIN a[c] : t[c][p] = a[c][p]
      /\ t[c][Len(a[c]) + 1] = node /\ Len(a[c]) \in Nat
  BY <1>1, AppendElements
<1> HIDE DEF t
<1>3. ASSUME NEW e \in 0 .. n - 1, NEW q \in DOMAIN a[e]
      PROVE  /\ Shifted(e, q, c, Len(a[c]) + 1) = q
             /\ q \in DOMAIN t[e] /\ t[e][q] = a[e][q]
  BY <1>1, <1>2 DEF Shifted
<1>4. ASSUME NEW e \in 0 .. n - 1, NEW r \in DOMAIN t[e], ~ (e = c /\ r = Len(a[c]) + 1)
      PROVE  \E q \in DOMAIN a[e] : r = Shifted(e, q, c, Len(a[c]) + 1)
  <2>1. r \in DOMAIN a[e]
    BY <1>1, <1>2, <1>4
  <2> QED
    BY <1>3, <2>1
<1>5. Inserted(a, t, n, c, Len(a[c]) + 1, node)
  BY <1>1, <1>2, <1>3, <1>4 DEF Inserted
<1> QED
  BY <1>5 DEF t

LEMMA ConsInserts ==
  ASSUME NEW n \in Nat \ {0}, NEW a \in Array(n), NEW c \in 0 .. n - 1, NEW node \in Node
  PROVE  Inserted(a, [a EXCEPT ![c] = <<node>> \o @], n, c, 1, node)
<1> DEFINE t == [a EXCEPT ![c] = <<node>> \o @]
<1>1. /\ a[c] \in Seq(Node) /\ t \in Array(n)
      /\ \A b \in 0 .. n - 1 : b # c => t[b] = a[b]
      /\ t[c] = <<node>> \o a[c]
  BY ConsElements DEF Array
<1>2. /\ DOMAIN t[c] = 1 .. Len(a[c]) + 1 /\ DOMAIN a[c] = 1 .. Len(a[c])
      /\ \A p \in DOMAIN a[c] : t[c][p + 1] = a[c][p]
      /\ t[c][1] = node /\ Len(a[c]) \in Nat
  BY <1>1, ConsElements
<1> HIDE DEF t
<1>3. ASSUME NEW e \in 0 .. n - 1, NEW q \in DOMAIN a[e]
      PROVE  /\ Shifted(e, q, c, 1) = IF e = c THEN q + 1 ELSE q
             /\ Shifted(e, q, c, 1) \in DOMAIN t[e] /\ t[e][Shifted(e, q, c, 1)] = a[e][q]
  <2>1. CASE e = c
    <3>1. Shifted(e, q, c, 1) = q + 1
      BY <1>2, <2>1 DEF Shifted
    <3> QED
      BY <1>2, <2>1, <3>1
  <2>2. CASE e # c
    <3>1. Shifted(e, q, c, 1) = q
      BY <2>2 DEF Shifted
    <3> QED
      BY <1>1, <2>2, <3>1
  <2> QED
    BY <2>1, <2>2
<1>4. ASSUME NEW e \in 0 .. n - 1, NEW r \in DOMAIN t[e], ~ (e = c /\ r = 1)
      PROVE  \E q \in DOMAIN a[e] : r = Shifted(e, q, c, 1)
  <2>1. CASE e = c
    <3>1. r - 1 \in DOMAIN a[e] /\ r = (r - 1) + 1
      BY <1>2, <1>4, <2>1
    <3> QED
      BY <1>3, <2>1, <3>1
  <2>2. CASE e # c
    BY <1>1, <1>3, <2>2
  <2> QED
    BY <2>1, <2>2
<1>5. Inserted(a, t, n, c, 1, node)
  BY <1>1, <1>2, <1>3, <1>4 DEF Inserted
<1> QED
  BY <1>5 DEF t

\* Backwards: the array with the node is the one before.
LEMMA TailInserts ==
  ASSUME NEW n \in Nat \ {0}, NEW t \in Array(n), NEW c \in 0 .. n - 1, t[c] # <<>>
  PROVE  Inserted([t EXCEPT ![c] = Tail(@)], t, n, c, 1, Head(t[c]))
<1> DEFINE a == [t EXCEPT ![c] = Tail(@)]
<1>1. /\ t[c] \in Seq(Node) /\ a \in Array(n)
      /\ \A b \in 0 .. n - 1 : b # c => a[b] = t[b]
      /\ a[c] = Tail(t[c])
  BY TailElements DEF Array
<1>2. /\ Head(t[c]) \in Node /\ 1 \in DOMAIN t[c] /\ t[c][1] = Head(t[c])
      /\ \A p \in DOMAIN a[c] : p + 1 \in DOMAIN t[c] /\ a[c][p] = t[c][p + 1]
      /\ \A p \in DOMAIN t[c] : p # 1 => p - 1 \in DOMAIN a[c] /\ a[c][p - 1] = t[c][p]
      /\ DOMAIN a[c] = 1 .. Len(t[c]) - 1 /\ DOMAIN t[c] = 1 .. Len(t[c]) /\ Len(t[c]) \in Nat
  <2>1. DOMAIN t[c] = 1 .. Len(t[c]) /\ Len(t[c]) \in Nat
    BY <1>1
  <2>2. /\ Head(t[c]) \in Node /\ Head(t[c]) = t[c][1] /\ 1 \in DOMAIN t[c]
        /\ DOMAIN Tail(t[c]) = 1 .. Len(t[c]) - 1
        /\ \A p \in DOMAIN Tail(t[c]) : p + 1 \in DOMAIN t[c] /\ Tail(t[c])[p] = t[c][p + 1]
        /\ \A p \in DOMAIN t[c] :
             p # 1 => p - 1 \in DOMAIN Tail(t[c]) /\ Tail(t[c])[p - 1] = t[c][p]
    BY <1>1, TailElements, Zenon
  <2> QED
    BY <1>1, <2>1, <2>2, Zenon
<1> HIDE DEF a
<1>3. ASSUME NEW e \in 0 .. n - 1, NEW q \in DOMAIN a[e]
      PROVE  /\ Shifted(e, q, c, 1) = IF e = c THEN q + 1 ELSE q
             /\ Shifted(e, q, c, 1) \in DOMAIN t[e] /\ t[e][Shifted(e, q, c, 1)] = a[e][q]
  <2>1. CASE e = c
    <3>1. Shifted(e, q, c, 1) = q + 1
      BY <1>2, <2>1 DEF Shifted
    <3> QED
      BY <1>2, <2>1, <3>1
  <2>2. CASE e # c
    <3>1. Shifted(e, q, c, 1) = q
      BY <2>2 DEF Shifted
    <3> QED
      BY <1>1, <2>2, <3>1
  <2> QED
    BY <2>1, <2>2
<1>4. ASSUME NEW e \in 0 .. n - 1, NEW r \in DOMAIN t[e], ~ (e = c /\ r = 1)
      PROVE  \E q \in DOMAIN a[e] : r = Shifted(e, q, c, 1)
  <2>1. CASE e = c
    <3>1. r - 1 \in DOMAIN a[e] /\ r = (r - 1) + 1
      BY <1>2, <1>4, <2>1
    <3> QED
      BY <1>3, <2>1, <3>1
  <2>2. CASE e # c
    BY <1>1, <1>3, <2>2
  <2> QED
    BY <2>1, <2>2
<1>5. Inserted(a, t, n, c, 1, Head(t[c]))
  BY <1>1, <1>2, <1>3, <1>4 DEF Inserted
<1> QED
  BY <1>5 DEF a

-----------------------------------------------------------------------------
(* What an insertion does to an array.                                     *)

\* One binding more.
LEMMA InsertedBinds ==
  ASSUME NEW n, NEW a, NEW t, NEW c, NEW k, NEW node, Inserted(a, t, n, c, k, node),
         NEW name \in Names, NEW v \in Values
  PROVE  Binds(t, n, name, v) <=>
           Binds(a, n, name, v) \/ (Name[node.key] = name /\ node.val = v)
<1>1. ASSUME Binds(t, n, name, v)
      PROVE  Binds(a, n, name, v) \/ (Name[node.key] = name /\ node.val = v)
  <2>1. PICK e \in 0 .. n - 1 : \E r \in DOMAIN t[e] :
           Name[t[e][r].key] = name /\ t[e][r].val = v
    BY <1>1 DEF Binds
  <2>2. PICK r \in DOMAIN t[e] : Name[t[e][r].key] = name /\ t[e][r].val = v
    BY <2>1
  <2>3. CASE e = c /\ r = k
    BY <2>2, <2>3 DEF Inserted
  <2>4. CASE \E q \in DOMAIN a[e] : r = Shifted(e, q, c, k)
    BY <2>2, <2>4 DEF Inserted, Binds
  <2> QED
    BY <2>3, <2>4 DEF Inserted
<1>2. ASSUME Binds(a, n, name, v)
      PROVE  Binds(t, n, name, v)
  <2>1. PICK e \in 0 .. n - 1 : \E q \in DOMAIN a[e] :
           Name[a[e][q].key] = name /\ a[e][q].val = v
    BY <1>2 DEF Binds
  <2> QED
    BY <2>1 DEF Inserted, Binds
<1>3. ASSUME Name[node.key] = name /\ node.val = v
      PROVE  Binds(t, n, name, v)
  BY <1>3 DEF Inserted, Binds
<1> QED
  BY <1>1, <1>2, <1>3

\* No other name.
LEMMA InsertedFresh ==
  ASSUME NEW n, NEW a, NEW t, NEW c, NEW k, NEW node, Inserted(a, t, n, c, k, node),
         NEW other
  PROVE  Fresh(t, n, other) <=> Fresh(a, n, other) /\ Name[node.key] # Name[other.key]
<1>1. ASSUME Fresh(t, n, other)
      PROVE  Fresh(a, n, other) /\ Name[node.key] # Name[other.key]
  BY <1>1 DEF Inserted, Fresh
<1>2. ASSUME Fresh(a, n, other), Name[node.key] # Name[other.key],
             NEW e \in 0 .. n - 1, NEW r \in DOMAIN t[e]
      PROVE  Name[t[e][r].key] # Name[other.key]
  <2>1. CASE e = c /\ r = k
    BY <1>2, <2>1 DEF Inserted
  <2>2. CASE \E q \in DOMAIN a[e] : r = Shifted(e, q, c, k)
    BY <1>2, <2>2 DEF Inserted, Fresh
  <2> QED
    BY <2>1, <2>2 DEF Inserted
<1> QED
  BY <1>1, <1>2 DEF Fresh

\* A node that belongs into chain c.
Fits(node, c, n) == node.key_hash = Hash[node.key] /\ node.key_hash % n = c

LEMMA InsertedInPlace ==
  ASSUME NEW n, NEW a, NEW t, NEW c, NEW k, NEW node, Inserted(a, t, n, c, k, node)
  PROVE  InPlace(t, n) <=> InPlace(a, n) /\ Fits(node, c, n)
<1>1. ASSUME InPlace(t, n)
      PROVE  InPlace(a, n) /\ Fits(node, c, n)
  BY <1>1 DEF Inserted, InPlace, Fits
<1>2. ASSUME InPlace(a, n), Fits(node, c, n), NEW e \in 0 .. n - 1, NEW r \in DOMAIN t[e]
      PROVE  t[e][r].key_hash = Hash[t[e][r].key] /\ t[e][r].key_hash % n = e
  <2>1. CASE e = c /\ r = k
    BY <1>2, <2>1 DEF Inserted, Fits
  <2>2. CASE \E q \in DOMAIN a[e] : r = Shifted(e, q, c, k)
    BY <1>2, <2>2 DEF Inserted, InPlace
  <2> QED
    BY <2>1, <2>2 DEF Inserted
<1> QED
  BY <1>1, <1>2 DEF InPlace

LEMMA InsertedDistinct ==
  ASSUME NEW n, NEW a, NEW t, NEW c, NEW k, NEW node, Inserted(a, t, n, c, k, node),
         k \in Nat
  PROVE  Distinct(t, n) <=> Distinct(a, n) /\ Fresh(a, n, node)
<1>0. ASSUME NEW e \in 0 .. n - 1, NEW q \in DOMAIN a[e]
      PROVE  /\ q \in Nat
             /\ Shifted(e, q, c, k) \in DOMAIN t[e] /\ t[e][Shifted(e, q, c, k)] = a[e][q]
             /\ ~ (e = c /\ Shifted(e, q, c, k) = k)
  <2>1. a[e] \in Seq(Node)
    BY DEF Inserted, Array
  <2>2. q \in Nat
    BY <2>1
  <2> QED
    BY <2>2 DEF Inserted, Shifted
<1>1. ASSUME Distinct(t, n)
      PROVE  Distinct(a, n)
  <2> SUFFICES ASSUME NEW d \in 0 .. n - 1, NEW e \in 0 .. n - 1,
                      NEW p \in DOMAIN a[d], NEW q \in DOMAIN a[e],
                      Name[a[d][p].key] = Name[a[e][q].key]
               PROVE  d = e /\ p = q
    BY DEF Distinct
  <2>1. d = e /\ Shifted(d, p, c, k) = Shifted(e, q, c, k)
    BY <1>0, <1>1 DEF Distinct
  <2> QED
    BY <1>0, <2>1 DEF Shifted
<1>2. ASSUME Distinct(t, n), NEW e \in 0 .. n - 1, NEW q \in DOMAIN a[e]
      PROVE  Name[a[e][q].key] # Name[node.key]
  BY <1>0, <1>2 DEF Distinct, Inserted
<1>3. ASSUME Distinct(a, n), Fresh(a, n, node)
      PROVE  Distinct(t, n)
  <2> SUFFICES ASSUME NEW d \in 0 .. n - 1, NEW e \in 0 .. n - 1,
                      NEW p \in DOMAIN t[d], NEW q \in DOMAIN t[e],
                      Name[t[d][p].key] = Name[t[e][q].key]
               PROVE  d = e /\ p = q
    BY DEF Distinct
  <2>1. CASE (d = c /\ p = k) /\ (e = c /\ q = k)
    BY <2>1
  <2>2. CASE (d = c /\ p = k) /\ \E s \in DOMAIN a[e] : q = Shifted(e, s, c, k)
    BY <1>3, <2>2 DEF Inserted, Fresh
  <2>3. CASE (e = c /\ q = k) /\ \E r \in DOMAIN a[d] : p = Shifted(d, r, c, k)
    BY <1>3, <2>3 DEF Inserted, Fresh
  <2>4. CASE /\ \E r \in DOMAIN a[d] : p = Shifted(d, r, c, k)
             /\ \E s \in DOMAIN a[e] : q = Shifted(e, s, c, k)
    BY <1>0, <1>3, <2>4 DEF Distinct
  <2> QED
    BY <2>1, <2>2, <2>3, <2>4 DEF Inserted
<1> QED
  BY <1>1, <1>2, <1>3 DEF Fresh

-----------------------------------------------------------------------------
(* Another value for the p-th node of chain c.                             *)

Revalued(a, t, n, c, p, val) ==
  /\ t \in Array(n)
  /\ \A e \in 0 .. n - 1 :
       /\ DOMAIN t[e] = DOMAIN a[e]
       /\ \A r \in DOMAIN a[e] :
            /\ t[e][r].key = a[e][r].key
            /\ t[e][r].key_hash = a[e][r].key_hash
            /\ t[e][r].val = IF e = c /\ r = p THEN val ELSE a[e][r].val

LEMMA ExceptRevalues ==
  ASSUME NEW n \in Nat \ {0}, NEW a \in Array(n), NEW c \in 0 .. n - 1,
         NEW p \in DOMAIN a[c], NEW val \in Values
  PROVE  Revalued(a, [a EXCEPT ![c][p].val = val], n, c, p, val)
<1> DEFINE t == [a EXCEPT ![c][p].val = val]
<1>1. /\ a[c] \in Seq(Node) /\ a[c][p] \in Node
      /\ DOMAIN a[c] = 1 .. Len(a[c]) /\ Len(a[c]) \in Nat
  BY DEF Array
<1>2. [a[c][p] EXCEPT !.val = val] \in Node
  BY <1>1 DEF Node
<1>3. [a[c] EXCEPT ![p].val = val] \in Seq(Node)
  <2>1. [a[c] EXCEPT ![p].val = val] \in [1 .. Len(a[c]) -> Node]
    BY <1>1, <1>2
  <2> QED
    BY <1>1, <2>1
<1>4. /\ t \in Array(n) /\ t[c] = [a[c] EXCEPT ![p].val = val]
      /\ \A e \in 0 .. n - 1 : e # c => t[e] = a[e]
  BY <1>3 DEF Array
<1>5. ASSUME NEW r \in DOMAIN a[c]
      PROVE  /\ t[c][r].key = a[c][r].key
             /\ t[c][r].key_hash = a[c][r].key_hash
             /\ t[c][r].val = IF r = p THEN val ELSE a[c][r].val
  BY <1>1, <1>4 DEF Node
<1>6. DOMAIN t[c] = DOMAIN a[c]
  BY <1>4
<1> HIDE DEF t
<1>7. Revalued(a, t, n, c, p, val)
  BY <1>4, <1>5, <1>6 DEF Revalued
<1> QED
  BY <1>7 DEF t

-----------------------------------------------------------------------------
(* What two arrays map names to.                                           *)

Either(a, n, b, m, name, v) == Binds(a, n, name, v) \/ Binds(b, m, name, v)

LEMMA BoundOnce ==
  ASSUME NEW a, NEW n, NEW b, NEW m, Distinct(a, n), Distinct(b, m), Apart(a, n, b, m),
         NEW name, NEW v, NEW w, Either(a, n, b, m, name, v), Either(a, n, b, m, name, w)
  PROVE  v = w
<1>1. CASE Binds(a, n, name, v) /\ Binds(a, n, name, w)
  BY <1>1 DEF Binds, Distinct
<1>2. CASE Binds(b, m, name, v) /\ Binds(b, m, name, w)
  BY <1>2 DEF Binds, Distinct
<1>3. CASE Binds(a, n, name, v) /\ Binds(b, m, name, w)
  BY <1>3 DEF Binds, Apart
<1>4. CASE Binds(b, m, name, v) /\ Binds(a, n, name, w)
  BY <1>4 DEF Binds, Apart
<1> QED
  BY <1>1, <1>2, <1>3, <1>4 DEF Either

LEMMA ContentsIs ==
  ASSUME NEW a, NEW n, NEW b, NEW m, Distinct(a, n), Distinct(b, m), Apart(a, n, b, m),
         NEW name \in Names
  PROVE  /\ \A v \in Values : Either(a, n, b, m, name, v) =>
              ContentsOf(a, n, b, m)[name] = v
         /\ (\A v \in Values : ~Either(a, n, b, m, name, v)) =>
              ContentsOf(a, n, b, m)[name] = NULL
<1>1. ContentsOf(a, n, b, m)[name] =
        IF \E v \in Values : Either(a, n, b, m, name, v)
        THEN CHOOSE v \in Values : Either(a, n, b, m, name, v) ELSE NULL
  BY Zenon DEF ContentsOf, Either
<1>2. ASSUME NEW v \in Values, Either(a, n, b, m, name, v)
      PROVE  ContentsOf(a, n, b, m)[name] = v
  <2> DEFINE w == CHOOSE u \in Values : Either(a, n, b, m, name, u)
  <2>1. w \in Values /\ Either(a, n, b, m, name, w)
    BY <1>2, Zenon
  <2>2. ContentsOf(a, n, b, m)[name] = w
    BY <1>1, <1>2, Zenon
  <2> HIDE DEF w
  <2> QED
    BY <1>2, <2>1, <2>2, BoundOnce
<1> QED
  BY <1>1, <1>2, Zenon

LEMMA ContentsDomain ==
  ASSUME NEW a, NEW n, NEW b, NEW m
  PROVE  ContentsOf(a, n, b, m) = [name \in Names |-> ContentsOf(a, n, b, m)[name]]
BY DEF ContentsOf

\* A pair of arrays in which every name has at most one node.
Proper(a, n, b, m) == Distinct(a, n) /\ Distinct(b, m) /\ Apart(a, n, b, m)

\* Of two pairs of arrays the second binds k to val and agrees with the first
\* on every other name.
Rebinds(a, n, b, m, a2, n2, b2, m2, k, val) ==
  \A name \in Names, v \in Values :
    Either(a2, n2, b2, m2, name, v) <=>
      (name = k /\ v = val) \/ (name # k /\ Either(a, n, b, m, name, v))

\* Arrays with the same bindings have the same contents.
LEMMA SameContents ==
  ASSUME NEW a, NEW n, NEW b, NEW m, Proper(a, n, b, m),
         NEW a2, NEW n2, NEW b2, NEW m2, Proper(a2, n2, b2, m2),
         \A name \in Names, v \in Values :
           Either(a2, n2, b2, m2, name, v) <=> Either(a, n, b, m, name, v)
  PROVE  ContentsOf(a2, n2, b2, m2) = ContentsOf(a, n, b, m)
<1>1. ASSUME NEW name \in Names
      PROVE  ContentsOf(a2, n2, b2, m2)[name] = ContentsOf(a, n, b, m)[name]
  <2>1. CASE \E v \in Values : Either(a, n, b, m, name, v)
    BY <2>1, ContentsIs DEF Proper
  <2>2. CASE \A v \in Values : ~Either(a, n, b, m, name, v)
    BY <2>2, ContentsIs DEF Proper
  <2> QED
    BY <2>1, <2>2
<1> QED
  BY <1>1, ContentsDomain

\* An array with one name bound anew has contents with one name bound anew.
LEMMA OneMoreContents ==
  ASSUME NEW a, NEW n, NEW b, NEW m, Proper(a, n, b, m),
         NEW a2, NEW n2, NEW b2, NEW m2, Proper(a2, n2, b2, m2),
         NEW k \in Names, NEW val \in Values,
         Rebinds(a, n, b, m, a2, n2, b2, m2, k, val)
  PROVE  ContentsOf(a2, n2, b2, m2) = [ContentsOf(a, n, b, m) EXCEPT ![k] = val]
<1>1. ContentsOf(a2, n2, b2, m2)[k] = val
  BY ContentsIs DEF Proper, Rebinds
<1>2. ASSUME NEW name \in Names, name # k
      PROVE  ContentsOf(a2, n2, b2, m2)[name] = ContentsOf(a, n, b, m)[name]
  <2>1. CASE \E v \in Values : Either(a, n, b, m, name, v)
    BY <1>2, <2>1, ContentsIs DEF Proper, Rebinds
  <2>2. CASE \A v \in Values : ~Either(a, n, b, m, name, v)
    BY <1>2, <2>2, ContentsIs DEF Proper, Rebinds
  <2> QED
    BY <2>1, <2>2
<1> QED
  BY <1>1, <1>2, ContentsDomain

LEMMA EmptyArray ==
  ASSUME NEW n \in Nat \ {0}
  PROVE  /\ Empty(n) \in Array(n) /\ InPlace(Empty(n), n) /\ Distinct(Empty(n), n)
         /\ \A a, m : Apart(a, m, Empty(n), n) /\ Apart(Empty(n), n, a, m)
         /\ \A name, v : ~Binds(Empty(n), n, name, v)
<1>1. \A c \in 0 .. n - 1 : Empty(n)[c] = <<>> /\ DOMAIN Empty(n)[c] = {}
  BY DEF Empty
<1>2. Empty(n) \in Array(n)
  BY DEF Empty, Array
<1> QED
  BY <1>1, <1>2 DEF InPlace, Distinct, Apart, Binds

-----------------------------------------------------------------------------
(* Sizes.                                                                  *)

LEMMA SizesSorted ==
  /\ MinSize \in Nat \ {0} /\ MaxSize \in Nat \ {0} /\ InRange(MinSize)
  /\ \A j \in DOMAIN Primes : Primes[j] \in Nat \ {0} /\ InRange(Primes[j])
<1>1. DOMAIN Primes = 1 .. Len(Primes) /\ Len(Primes) \in Nat \ {0}
  BY PrimesAssumption
<1>2. \A j \in DOMAIN Primes : Primes[j] \in Nat \ {0}
  BY PrimesAssumption
<1>3. ASSUME NEW j \in DOMAIN Primes
      PROVE  InRange(Primes[j])
  <2>1. CASE j = 1
    BY <1>1, <1>2, <2>1, PrimesAssumption DEF InRange
  <2>2. CASE j = Len(Primes)
    BY <1>1, <1>2, <2>2, PrimesAssumption DEF InRange
  <2>3. CASE 1 < j /\ j < Len(Primes)
    <3>1. Primes[1] < Primes[j] /\ Primes[j] < Primes[Len(Primes)]
      BY <1>1, <2>3, PrimesAssumption
    <3> QED
      BY <1>1, <1>2, <3>1, PrimesAssumption DEF InRange
  <2> QED
    BY <1>1, <2>1, <2>2, <2>3
<1>4. 1 \in DOMAIN Primes /\ Len(Primes) \in DOMAIN Primes
  BY <1>1
<1> QED
  BY <1>2, <1>3, <1>4, PrimesAssumption

\* The size that is chosen for num nodes is above num and below three times
\* num, as far as there is one.
LEMMA NewSize ==
  ASSUME NEW num \in Nat \ {0}
  PROVE  LET s == Clamp(spaced_primes_closest(num))
         IN  /\ s \in Nat \ {0} /\ InRange(s)
             /\ num < s \/ s = MaxSize
             /\ s < 3 * num \/ s = MinSize
<1> DEFINE above == {j \in DOMAIN Primes : Primes[j] > num}
           first(j) == Primes[j] > num /\ \A m \in 1 .. j - 1 : Primes[m] <= num
<1>1. DOMAIN Primes = 1 .. Len(Primes) /\ Len(Primes) \in Nat \ {0}
  BY PrimesAssumption
<1>2. \A j \in DOMAIN Primes : Clamp(Primes[j]) = Primes[j]
  BY SizesSorted DEF Clamp, InRange
<1>3. CASE above # {}
  <2>1. \E j \in DOMAIN Primes : first(j)
    <3>0. above \in SUBSET Nat
      BY <1>1
    <3> HIDE DEF above
    <3>1. PICK j \in above : \A y \in above : j <= y
      BY <1>3, <3>0, LeastExists
    <3> USE DEF above
    <3>2. ASSUME NEW m \in 1 .. j - 1
          PROVE  Primes[m] <= num
      BY <1>1, <3>1, SizesSorted
    <3> QED
      BY <3>1, <3>2
  <2> DEFINE j == CHOOSE k \in DOMAIN Primes : first(k)
  <2>2. j \in DOMAIN Primes /\ first(j)
    BY <2>1, Zenon
  <2>3. spaced_primes_closest(num) = Primes[j]
    BY <1>3, Zenon DEF spaced_primes_closest
  <2> HIDE DEF j
  <2>4. CASE j = 1
    BY <1>2, <2>2, <2>3, <2>4, SizesSorted, PrimesAssumption
  <2>5. CASE j # 1
    <3>1. j \in 2 .. Len(Primes) /\ j - 1 \in 1 .. j - 1 /\ j - 1 \in DOMAIN Primes
      BY <1>1, <2>2, <2>5
    <3>2. Primes[j - 1] <= num /\ Primes[j] < 3 * Primes[j - 1]
      BY <2>2, <3>1, PrimesAssumption
    <3>3. /\ Primes[j] \in Nat \ {0} /\ Primes[j - 1] \in Nat /\ InRange(Primes[j])
          /\ Clamp(spaced_primes_closest(num)) = Primes[j] /\ Primes[j] > num
      BY <1>2, <2>2, <2>3, <3>1, SizesSorted
    <3> HIDE DEF first
    <3>4. Primes[j] < 3 * num
      BY <3>2, <3>3
    <3> QED
      BY <3>3, <3>4
  <2> QED
    BY <2>4, <2>5
<1>4. CASE above = {}
  <2>1. spaced_primes_closest(num) = Primes[Len(Primes)] /\ Len(Primes) \in DOMAIN Primes
    BY <1>1, <1>4 DEF spaced_primes_closest
  <2>2. ~ (Primes[Len(Primes)] > num)
    BY <1>4, <2>1
  <2> QED
    BY <1>2, <2>1, <2>2, SizesSorted, PrimesAssumption
<1> QED
  BY <1>3, <1>4

-----------------------------------------------------------------------------
(* Lookup.                                                                 *)

LEMMA LookupFinds ==
  ASSUME IInv, ~resizing, NEW key \in Keys
  PROVE  /\ Bucket(key) \in 0 .. size - 1
         /\ LookupNode(key) = 0 =>
              /\ \A b \in 0 .. size - 1 : \A p \in DOMAIN nodes[b] :
                   Name[nodes[b][p].key] # Name[key]
              /\ \A v \in Values : ~Binds(nodes, size, Name[key], v)
         /\ LookupNode(key) # 0 =>
              /\ LookupNode(key) \in DOMAIN nodes[Bucket(key)]
              /\ Name[nodes[Bucket(key)][LookupNode(key)].key] = Name[key]
<1> DEFINE c == Bucket(key)
           found == {p \in DOMAIN nodes[c] : Matches(nodes[c][p], key)}
<1>1. c \in 0 .. size - 1
  BY KeysAssumption DEF IInv, TypeOK, Bucket
<1>2. nodes[c] \in Seq(Node) /\ found \in SUBSET Nat
  <2>1. nodes[c] \in Seq(Node)
    BY <1>1 DEF IInv, TypeOK
  <2>2. DOMAIN nodes[c] \in SUBSET Nat
    BY <2>1
  <2> QED
    BY <2>1, <2>2
<1>3. LookupNode(key) = IF found = {} THEN 0
                        ELSE CHOOSE p \in found : \A q \in found : p <= q
  BY DEF LookupNode
<1>4. CASE found # {}
  <2> HIDE DEF found
  <2>1. LookupNode(key) \in found
    <3>1. \E p \in found : \A q \in found : p <= q
      BY <1>2, <1>4, LeastExists
    <3> QED
      BY <1>3, <1>4, <3>1, Zenon
  <2>2. LookupNode(key) \in DOMAIN nodes[c] /\ Matches(nodes[c][LookupNode(key)], key)
    BY <2>1 DEF found
  <2>3. LookupNode(key) # 0
    BY <1>2, <2>2
  <2> QED
    BY <1>1, <2>2, <2>3 DEF Matches
<1>5. CASE found = {}
  <2>1. LookupNode(key) = 0
    BY <1>3, <1>5
  <2>2. ASSUME NEW b \in 0 .. size - 1, NEW p \in DOMAIN nodes[b],
               Name[nodes[b][p].key] = Name[key]
        PROVE  FALSE
    <3>1. nodes[b][p] \in Node
      BY DEF IInv, TypeOK
    <3>2. nodes[b][p].key_hash = Hash[key]
      BY <2>2, <3>1, KeysAssumption DEF IInv, Placed, InPlace, Node
    <3>3. b = c
      BY <3>2 DEF IInv, Placed, InPlace, Bucket
    <3> QED
      BY <1>5, <2>2, <3>2, <3>3 DEF Matches
  <2>3. ASSUME NEW v \in Values, Binds(nodes, size, Name[key], v)
        PROVE  FALSE
    BY <2>2, <2>3 DEF Binds
  <2> QED
    BY <1>1, <2>1, <2>2, <2>3
<1> QED
  BY <1>4, <1>5

-----------------------------------------------------------------------------
(* The steps: what each does to the invariant and to the contents.         *)

LEMMA InitStep ==
  ASSUME Init
  PROVE  IInv /\ Contents = [name \in Names |-> NULL]
<1>1. /\ Empty(MinSize) \in Array(MinSize) /\ InPlace(Empty(MinSize), MinSize)
      /\ Distinct(Empty(MinSize), MinSize)
      /\ Apart(Empty(MinSize), MinSize, Empty(MinSize), MinSize)
      /\ \A name, v : ~Binds(Empty(MinSize), MinSize, name, v)
  BY EmptyArray, SizesSorted
<1>2. TypeOK
  BY <1>1, SizesSorted DEF Init, TypeOK, Array
<1>3. Placed
  BY <1>1 DEF Init, Placed
<1>4. Control
  BY SizesSorted DEF Init, Control, InRange, Load
<1>5. \A name \in Names : Contents[name] = NULL
  BY <1>1, ContentsIs DEF Init, Contents, Either
<1> QED
  BY <1>2, <1>3, <1>4, <1>5, ContentsDomain DEF IInv, Contents

LEMMA LookupStep ==
  ASSUME IInv, NEW key \in Keys, Lookup(key)
  PROVE  IInv' /\ Contents' = Contents /\ last' = Called("lookup", key, Contents[Name[key]])
<1>1. UNCHANGED <<size, nnodes, nodes, resizing, new_size, new_nodes, i>>
  BY DEF Lookup, table, locals
<1> DEFINE found == IF LookupNode(key) = 0 THEN NULL ELSE nodes[Bucket(key)][LookupNode(key)].val
<1>2. found = Contents[Name[key]] /\ found \in Values \cup {NULL}
  <2>0. Name[key] \in Names
    BY KeysAssumption
  <2>1. \A name, v : ~Binds(new_nodes, new_size, name, v)
    BY EmptyArray, SizesSorted DEF IInv, Control, Lookup
  <2>2. CASE LookupNode(key) = 0
    <3>1. \A v \in Values : ~Either(nodes, size, new_nodes, new_size, Name[key], v)
      BY <2>1, <2>2, LookupFinds DEF Either, Lookup
    <3>2. Contents[Name[key]] = NULL
      BY <2>0, <3>1, ContentsIs DEF Contents, IInv, Placed
    <3> QED
      BY <2>2, <3>2
  <2>3. CASE LookupNode(key) # 0
    <3> DEFINE node == nodes[Bucket(key)][LookupNode(key)]
    <3>1. /\ Bucket(key) \in 0 .. size - 1 /\ LookupNode(key) \in DOMAIN nodes[Bucket(key)]
          /\ Name[node.key] = Name[key]
      BY <2>3, LookupFinds DEF Lookup
    <3>2. node \in Node
      BY <3>1 DEF IInv, TypeOK
    <3>3. Either(nodes, size, new_nodes, new_size, Name[key], node.val)
      BY <3>1 DEF Either, Binds
    <3>4. Contents[Name[key]] = node.val /\ node.val \in Values
      BY <2>0, <3>2, <3>3, ContentsIs DEF Contents, IInv, Placed, Node
    <3> QED
      BY <2>3, <3>4
  <2> QED
    BY <2>2, <2>3
<1>2a. last' = Called("lookup", key, found)
  BY DEF Lookup
<1> HIDE DEF found
<1>2b. last' \in Calls
  BY <1>2, <1>2a, KeysAssumption DEF Called, Calls
<1>3. IInv'
  BY <1>1, <1>2b DEF IInv, TypeOK, Placed, Control, Load
<1>4. Contents' = Contents
  BY <1>1 DEF Contents
<1> QED
  BY <1>2, <1>2a, <1>3, <1>4

LEMMA ReplaceStep ==
  ASSUME IInv, NEW key \in Keys, NEW val \in Values, Replace(key, val)
  PROVE  IInv' /\ Contents' = [Contents EXCEPT ![Name[key]] = val]
<1> DEFINE c == Bucket(key)
           p == LookupNode(key)
<1>1. /\ UNCHANGED <<size, nnodes, resizing, new_size, new_nodes, i>>
      /\ last' \in Calls
  BY KeysAssumption DEF Replace, locals, Called, Calls
<1>2. c \in 0 .. size - 1 /\ p \in DOMAIN nodes[c] /\ Name[nodes[c][p].key] = Name[key]
  BY LookupFinds DEF Replace
<1>3. nodes' = [nodes EXCEPT ![c][p].val = val]
  BY DEF Replace
<1> HIDE DEF c, p
<1>4. Revalued(nodes, nodes', size, c, p, val)
  <2>1. size \in Nat \ {0} /\ nodes \in Array(size)
    BY DEF IInv, TypeOK, Array
  <2>2. Revalued(nodes, [nodes EXCEPT ![c][p].val = val], size, c, p, val)
    BY <1>2, <2>1, ExceptRevalues
  <2> QED
    BY <1>3, <2>2
<1>5. TypeOK'
  BY <1>1, <1>4 DEF IInv, TypeOK, Array, Revalued
<1>6. Placed'
  <2>1. InPlace(nodes', size)
    BY <1>4 DEF IInv, Placed, InPlace, Revalued
  <2>2. Distinct(nodes', size)
    BY <1>4 DEF IInv, Placed, Distinct, Revalued
  <2>3. Apart(nodes', size, new_nodes, new_size)
    BY <1>4 DEF IInv, Placed, Apart, Revalued
  <2> QED
    BY <1>1, <2>1, <2>2, <2>3 DEF IInv, Placed
<1>7. Control'
  BY <1>1 DEF IInv, Control, Replace, Load
<1>8. ASSUME NEW name \in Names, NEW v \in Values
      PROVE  Binds(nodes', size, name, v) <=>
               (name = Name[key] /\ v = val) \/ (name # Name[key] /\ Binds(nodes, size, name, v))
  <2>1. CASE name = Name[key]
    <3>1. \A e \in 0 .. size - 1 : \A r \in DOMAIN nodes[e] :
             Name[nodes[e][r].key] = name => e = c /\ r = p
      BY <1>2, <2>1 DEF IInv, Placed, Distinct
    <3> QED
      BY <1>2, <1>4, <2>1, <3>1 DEF Binds, Revalued
  <2>2. CASE name # Name[key]
    <3>1. \A e \in 0 .. size - 1 : \A r \in DOMAIN nodes[e] :
             Name[nodes[e][r].key] = name => ~ (e = c /\ r = p)
      BY <1>2, <2>2
    <3> QED
      BY <1>4, <2>2, <3>1 DEF Binds, Revalued
  <2> QED
    BY <2>1, <2>2
<1>9. \A name, v : ~Binds(new_nodes, new_size, name, v)
  BY EmptyArray, SizesSorted DEF IInv, Control, Replace
<1>10. Name[key] \in Names
  BY KeysAssumption
<1>11. Contents' = [Contents EXCEPT ![Name[key]] = val]
  <2>1. Rebinds(nodes, size, new_nodes, new_size,
                nodes', size', new_nodes', new_size', Name[key], val)
    BY <1>1, <1>8, <1>9 DEF Either, Rebinds
  <2>2. Proper(nodes, size, new_nodes, new_size) /\ Proper(nodes', size', new_nodes', new_size')
    BY <1>6 DEF IInv, Placed, Proper
  <2>3. ContentsOf(nodes', size', new_nodes', new_size') =
          [ContentsOf(nodes, size, new_nodes, new_size) EXCEPT ![Name[key]] = val]
    BY <1>10, <2>1, <2>2, OneMoreContents
  <2> QED
    BY <2>3 DEF Contents
<1> QED
  BY <1>5, <1>6, <1>7, <1>11 DEF IInv

LEMMA AddStep ==
  ASSUME IInv, NEW key \in Keys, NEW val \in Values, Add(key, val)
  PROVE  IInv' /\ Contents' = [Contents EXCEPT ![Name[key]] = val]
<1> DEFINE c == Bucket(key)
           node == [key |-> key, val |-> val, key_hash |-> Hash[key]]
           k == Len(nodes[c]) + 1
<1>0. last' \in Calls
  BY KeysAssumption DEF Add, Called, Calls
<1>1. /\ size' = size /\ nnodes' = nnodes + 1
      /\ nodes' = [nodes EXCEPT ![c] = Append(@, node)]
  BY DEF Add
<1>2. /\ size \in Nat \ {0} /\ nodes \in Array(size) /\ nnodes \in Nat
      /\ InRange(size) /\ Load(size)
  BY DEF IInv, TypeOK, Control, Array, Add
<1>3. /\ c \in 0 .. size - 1 /\ node \in Node /\ Fits(node, c, size)
      /\ Fresh(nodes, size, node) /\ Name[key] \in Names
  <2>1. c \in 0 .. size - 1 /\ Fresh(nodes, size, node)
    BY LookupFinds DEF Add, Fresh
  <2> QED
    BY <2>1, KeysAssumption DEF Node, Fits, Bucket
<1>4. k \in Nat
  BY <1>2, <1>3 DEF Array
<1>5. node.key = key /\ node.val = val
  OBVIOUS
<1> HIDE DEF c, node, k
<1>6. Inserted(nodes, nodes', size, c, k, node)
  BY <1>1, <1>2, <1>3, AppendInserts DEF k
<1>7. /\ new_size' \in Nat \ {0} /\ new_nodes' = Empty(new_size')
      /\ i' = 0 \/ i' = i
      /\ Control'
  <2>1. CASE MaybeResize(size, nnodes')
    <3>1. /\ resizing' = TRUE /\ i' = 0 /\ new_nodes' = Empty(new_size')
          /\ new_size' = Clamp(spaced_primes_closest(nnodes'))
      BY <2>1 DEF Add, StartResize
    <3>2. /\ new_size' \in Nat \ {0} /\ InRange(new_size')
          /\ nnodes' < new_size' \/ new_size' = MaxSize
          /\ new_size' < 3 * nnodes' \/ new_size' = MinSize
      BY <1>1, <1>2, <3>1, NewSize
    <3>3. nnodes' < 3 * new_size' \/ new_size' = MaxSize
      <4>1. nnodes' \in Nat /\ MaxSize \in Nat /\ MinSize \in Nat
        BY <1>1, <1>2, SizesSorted
      <4>2. \A n, m \in Nat : n < m => n < 3 * m
        OBVIOUS
      <4> QED
        BY <3>2, <4>1, <4>2
    <3> QED
      BY <1>1, <1>2, <3>1, <3>2, <3>3 DEF Control, Load, InRange
  <2>2. CASE ~MaybeResize(size, nnodes')
    <3>1. /\ resizing' = FALSE /\ new_size' = MinSize /\ new_nodes' = Empty(MinSize)
          /\ i' = i /\ i = 0
      BY <2>2 DEF Add, locals, IInv, Control
    <3>2. Load(size)'
      BY <1>1, <1>2, <2>2, SizesSorted DEF MaybeResize, Load, InRange
    <3> QED
      BY <1>1, <1>2, <3>1, <3>2, SizesSorted DEF Control
  <2> QED
    BY <2>1, <2>2
<1>8. /\ Empty(new_size') \in Array(new_size') /\ InPlace(Empty(new_size'), new_size')
      /\ Distinct(Empty(new_size'), new_size')
      /\ \A a, m : Apart(a, m, Empty(new_size'), new_size')
      /\ \A name, v : ~Binds(Empty(new_size'), new_size', name, v)
  BY <1>7, EmptyArray
<1>9. TypeOK'
  <2>1. nodes' \in Array(size)
    BY <1>6 DEF Inserted
  <2>2. resizing' \in BOOLEAN /\ i' \in 0..size
    <3>1. resizing' \in BOOLEAN
      BY DEF IInv, TypeOK, Add, StartResize, locals
    <3>2. i \in 0..size
      BY DEF IInv, TypeOK
    <3>3. i' \in 0..size
      BY <1>2, <1>7, <3>2
    <3> QED
      BY <3>1, <3>3
  <2>3. size' \in Nat \ {0} /\ nnodes' \in Nat /\ last' \in Calls \cup {NULL}
    BY <1>0, <1>1, <1>2 DEF IInv, TypeOK
  <2>4. /\ nodes' \in [0 .. size' - 1 -> Seq(Node)]
        /\ new_nodes' \in [0 .. new_size' - 1 -> Seq(Node)]
        /\ i' \in 0..size'
    BY <1>1, <1>7, <1>8, <2>1, <2>2 DEF Array
  <2> QED
    BY <1>7, <2>2, <2>3, <2>4 DEF TypeOK
<1>10. Placed'
  <2>1. InPlace(nodes', size) /\ Distinct(nodes', size)
    BY <1>3, <1>4, <1>6, InsertedInPlace, InsertedDistinct DEF IInv, Placed
  <2> QED
    BY <1>1, <1>7, <1>8, <2>1 DEF Placed
<1>11. Contents' = [Contents EXCEPT ![Name[key]] = val]
  <2>1. ASSUME NEW name \in Names, NEW v \in Values
        PROVE  Binds(nodes', size, name, v) <=>
                 (name = Name[key] /\ v = val) \/ (name # Name[key] /\ Binds(nodes, size, name, v))
    <3>1. Binds(nodes', size, name, v) <=>
            Binds(nodes, size, name, v) \/ (Name[key] = name /\ val = v)
      BY <1>5, <1>6, InsertedBinds
    <3>2. ~Binds(nodes, size, Name[key], v)
      BY LookupFinds DEF Add
    <3> QED
      BY <3>1, <3>2
  <2>2. \A name, v : ~Binds(new_nodes, new_size, name, v)
    BY EmptyArray, SizesSorted DEF IInv, Control, Add
  <2>3. Rebinds(nodes, size, new_nodes, new_size,
                nodes', size', new_nodes', new_size', Name[key], val)
    BY <1>1, <1>7, <1>8, <2>1, <2>2 DEF Either, Rebinds
  <2>4. Proper(nodes, size, new_nodes, new_size) /\ Proper(nodes', size', new_nodes', new_size')
    BY <1>10 DEF IInv, Placed, Proper
  <2>5. ContentsOf(nodes', size', new_nodes', new_size') =
          [ContentsOf(nodes, size, new_nodes, new_size) EXCEPT ![Name[key]] = val]
    BY <1>3, <2>3, <2>4, OneMoreContents
  <2> QED
    BY <2>5 DEF Contents
<1> QED
  BY <1>7, <1>9, <1>10, <1>11 DEF IInv

LEMMA MoveNodeStep ==
  ASSUME IInv, MoveNode
  PROVE  IInv' /\ Contents' = Contents
<1> DEFINE node == Head(nodes[i])
           c == node.key_hash % new_size
<1>1. /\ UNCHANGED <<size, nnodes, resizing, new_size, i, last>>
      /\ nodes' = [nodes EXCEPT ![i] = Tail(@)]
      /\ new_nodes' = [new_nodes EXCEPT ![c] = <<node>> \o @]
  BY DEF MoveNode
<1>2. /\ size \in Nat \ {0} /\ nodes \in Array(size) /\ i \in 0 .. size - 1
      /\ new_size \in Nat \ {0} /\ new_nodes \in Array(new_size) /\ nodes[i] # <<>>
  BY DEF IInv, TypeOK, Array, MoveNode
<1>3. Inserted(nodes', nodes, size, i, 1, node)
  BY <1>1, <1>2, TailInserts
<1> HIDE DEF node
<1>4. /\ node \in Node /\ c \in 0 .. new_size - 1
      /\ InPlace(nodes', size) /\ Distinct(nodes', size) /\ Fresh(nodes', size, node)
      /\ Fits(node, c, new_size)
  <2>1. /\ node \in Node /\ InPlace(nodes', size) /\ Fits(node, i, size)
        /\ Distinct(nodes', size) /\ Fresh(nodes', size, node)
    <3>1. node \in Node /\ InPlace(nodes, size) /\ Distinct(nodes, size)
      BY <1>3 DEF IInv, Placed, Inserted
    <3>2. InPlace(nodes', size) /\ Fits(node, i, size)
      BY <1>3, <3>1, InsertedInPlace
    <3>3. Distinct(nodes', size) /\ Fresh(nodes', size, node)
      BY <1>3, <3>1, InsertedDistinct
    <3> QED
      BY <3>1, <3>2, <3>3
  <2> QED
    BY <1>2, <2>1 DEF Fits, Node
<1> HIDE DEF c
<1>5. Inserted(new_nodes, new_nodes', new_size, c, 1, node)
  BY <1>1, <1>2, <1>4, ConsInserts
<1>6. Fresh(new_nodes, new_size, node)
  BY <1>3 DEF IInv, Placed, Apart, Inserted, Fresh
<1>7. /\ InPlace(new_nodes', new_size) /\ Distinct(new_nodes', new_size)
  BY <1>4, <1>5, <1>6, InsertedInPlace, InsertedDistinct DEF IInv, Placed
<1>8. Apart(nodes', size, new_nodes', new_size)
  <2> SUFFICES ASSUME NEW e \in 0 .. size - 1, NEW p \in DOMAIN nodes'[e]
               PROVE  Fresh(new_nodes', new_size, nodes'[e][p])
    BY DEF Apart, Fresh
  <2>1. Name[node.key] # Name[nodes'[e][p].key]
    BY <1>4 DEF Fresh
  <2>2. Fresh(new_nodes, new_size, nodes'[e][p])
    BY <1>3 DEF IInv, Placed, Apart, Inserted, Fresh
  <2> QED
    BY <1>5, <2>1, <2>2, InsertedFresh
<1>9. TypeOK' /\ Placed'
  BY <1>1, <1>3, <1>4, <1>5, <1>7, <1>8 DEF IInv, TypeOK, Placed, Inserted, Array
<1>10. Control'
  <2>1. \A b \in 0 .. i - 1 : nodes'[b] = nodes[b]
    BY <1>1, <1>2 DEF Array
  <2> QED
    BY <1>1, <2>1 DEF IInv, Control, MoveNode, Load
<1>11. Contents' = Contents
  <2>1. ASSUME NEW name \in Names, NEW v \in Values
        PROVE  Either(nodes', size', new_nodes', new_size', name, v) <=>
                 Either(nodes, size, new_nodes, new_size, name, v)
    BY <1>1, <1>3, <1>5, InsertedBinds DEF Either
  <2>2. Proper(nodes, size, new_nodes, new_size) /\ Proper(nodes', size', new_nodes', new_size')
    BY <1>9 DEF IInv, Placed, Proper
  <2>3. ContentsOf(nodes', size', new_nodes', new_size') =
          ContentsOf(nodes, size, new_nodes, new_size)
    BY <2>1, <2>2, SameContents
  <2> QED
    BY <2>3 DEF Contents
<1> QED
  BY <1>9, <1>10, <1>11 DEF IInv

LEMMA NextChainStep ==
  ASSUME IInv, NextChain
  PROVE  IInv' /\ Contents' = Contents
<1>1. /\ UNCHANGED <<size, nnodes, nodes, resizing, new_size, new_nodes, last>>
      /\ i' = i + 1 /\ i < size /\ resizing /\ nodes[i] = <<>>
  BY DEF NextChain, table
<1>2. i \in Nat /\ size \in Nat
  BY DEF IInv, TypeOK
<1>3. TypeOK'
  <2>1. i' \in 0..size
    BY <1>1, <1>2
  <2> QED
    BY <1>1, <2>1 DEF IInv, TypeOK
<1>4. Placed' /\ Contents' = Contents
  BY <1>1 DEF IInv, Placed, Contents
<1>5. \A b \in 0 .. i' - 1 : nodes'[b] = <<>>
  <2>1. \A b \in 0 .. i' - 1 : b \in 0 .. i - 1 \/ b = i
    BY <1>1, <1>2
  <2> QED
    BY <1>1, <2>1 DEF IInv, Control
<1>6. Control'
  BY <1>1, <1>5 DEF IInv, Control, Load
<1> QED
  BY <1>3, <1>4, <1>6 DEF IInv

\* All chains of the old array have been emptied, so the new array has what
\* the two had together.
LEMMA ResizedStep ==
  ASSUME IInv, Resized
  PROVE  IInv' /\ Contents' = Contents
<1>1. /\ UNCHANGED <<nnodes, last>> /\ nodes' = new_nodes /\ size' = new_size
      /\ resizing' = FALSE /\ new_size' = MinSize /\ new_nodes' = Empty(MinSize) /\ i' = 0
      /\ resizing /\ i = size
  BY DEF Resized, NoResize
<1>2. /\ Empty(MinSize) \in Array(MinSize) /\ InPlace(Empty(MinSize), MinSize)
      /\ Distinct(Empty(MinSize), MinSize)
      /\ \A a, m : Apart(a, m, Empty(MinSize), MinSize)
      /\ \A name, v : ~Binds(Empty(MinSize), MinSize, name, v)
  BY EmptyArray, SizesSorted
<1>3. TypeOK'
  <2>1. /\ size' \in Nat \ {0} /\ nnodes' \in Nat /\ last' \in Calls \cup {NULL}
        /\ nodes' \in [0 .. size' - 1 -> Seq(Node)]
    BY <1>1 DEF IInv, TypeOK
  <2>2. new_size' \in Nat \ {0} /\ new_nodes' \in [0 .. new_size' - 1 -> Seq(Node)]
    BY <1>1, <1>2, SizesSorted DEF Array
  <2>3. i' \in 0..size'
    BY <1>1, <2>1
  <2>4. resizing' \in BOOLEAN
    BY <1>1, Zenon
  <2> QED
    BY <2>1, <2>2, <2>3, <2>4 DEF TypeOK
<1>4. Placed'
  BY <1>1, <1>2 DEF IInv, Placed
<1>5. Control'
  BY <1>1, SizesSorted DEF IInv, Control, Load
<1>6. \A name, v : ~Binds(nodes, size, name, v)
  <2>1. \A b \in 0 .. size - 1 : DOMAIN nodes[b] = {}
    BY <1>1 DEF IInv, Control
  <2> QED
    BY <2>1 DEF Binds
<1>7. Contents' = Contents
  <2>1. \A name \in Names, v \in Values :
          Either(nodes', size', new_nodes', new_size', name, v) <=>
            Either(nodes, size, new_nodes, new_size, name, v)
    BY <1>1, <1>2, <1>6 DEF Either
  <2>2. Proper(nodes, size, new_nodes, new_size) /\ Proper(nodes', size', new_nodes', new_size')
    BY <1>4 DEF IInv, Placed, Proper
  <2>3. ContentsOf(nodes', size', new_nodes', new_size') =
          ContentsOf(nodes, size, new_nodes, new_size)
    BY <2>1, <2>2, SameContents
  <2> QED
    BY <2>3 DEF Contents
<1> QED
  BY <1>3, <1>4, <1>5, <1>7 DEF IInv

LEMMA DestroyStep ==
  ASSUME IInv, Destroy
  PROVE  IInv' /\ Contents' = [name \in Names |-> NULL]
<1>1. /\ size' = MinSize /\ nnodes' = 0 /\ nodes' = Empty(MinSize) /\ last' = NULL
      /\ UNCHANGED <<resizing, new_size, new_nodes, i>> /\ ~resizing
      /\ new_size = MinSize /\ new_nodes = Empty(MinSize)
  BY DEF Destroy, locals, IInv, Control
<1>2. /\ Empty(MinSize) \in Array(MinSize) /\ InPlace(Empty(MinSize), MinSize)
      /\ Distinct(Empty(MinSize), MinSize)
      /\ \A a, m : Apart(a, m, Empty(MinSize), MinSize)
      /\ \A name, v : ~Binds(Empty(MinSize), MinSize, name, v)
  BY EmptyArray, SizesSorted
<1>3. TypeOK'
  <2>1. /\ size' \in Nat \ {0} /\ nodes' \in [0 .. size' - 1 -> Seq(Node)]
        /\ new_size' \in Nat \ {0} /\ new_nodes' \in [0 .. new_size' - 1 -> Seq(Node)]
    BY <1>1, <1>2, SizesSorted DEF Array
  <2>2. nnodes' \in Nat /\ last' \in Calls \cup {NULL}
    BY <1>1 DEF IInv, TypeOK
  <2>3. i' = 0 /\ i' \in 0..size'
    <3>1. i = 0
      BY DEF Destroy, IInv, Control
    <3> QED
      BY <1>1, <3>1, SizesSorted
  <2>4. resizing' \in BOOLEAN
    BY <1>1, Zenon DEF IInv, TypeOK
  <2> QED
    BY <2>1, <2>2, <2>3, <2>4 DEF TypeOK
<1>4. Placed'
  BY <1>1, <1>2 DEF Placed
<1>5. Control'
  BY <1>1, SizesSorted DEF Control, Load, IInv
<1>6. \A name \in Names : Contents'[name] = NULL
  <2>1. \A name, v : ~Either(nodes', size', new_nodes', new_size', name, v)
    BY <1>1, <1>2 DEF Either
  <2>2. \A name \in Names : ContentsOf(nodes', size', new_nodes', new_size')[name] = NULL
    BY <1>4, <2>1, ContentsIs DEF Placed
  <2> QED
    BY <2>2 DEF Contents
<1>7. Contents' = [name \in Names |-> Contents'[name]]
  BY ContentsDomain DEF Contents
<1> QED
  BY <1>3, <1>4, <1>5, <1>6, <1>7 DEF IInv

-----------------------------------------------------------------------------

\* A step of the table is a step of the map or leaves the map alone.
LEMMA StepPreserves ==
  ASSUME IInv, [Next]_vars
  PROVE  IInv' /\ [Map!Next]_<<Contents, last>>
<1>1. ASSUME NEW key \in Keys, Lookup(key)
      PROVE  IInv' /\ Map!Next
  <2>1. /\ IInv' /\ Contents' = Contents /\ Name[key] \in Names
        /\ last' = Map!Called("lookup", Name[key], Contents[Name[key]])
    BY <1>1, LookupStep, KeysAssumption DEF Called, Map!Called
  <2>2. Map!Lookup(Name[key])
    BY <2>1 DEF Map!Lookup
  <2> QED
    BY <2>1, <2>2 DEF Map!Next
<1>2. ASSUME NEW key \in Keys, NEW val \in Values, Replace(key, val) \/ Add(key, val)
      PROVE  IInv' /\ Map!Next
  <2>1. /\ IInv' /\ Contents' = [Contents EXCEPT ![Name[key]] = val] /\ Name[key] \in Names
        /\ last' = Map!Called("insert", Name[key], val)
    BY <1>2, ReplaceStep, AddStep, KeysAssumption DEF Replace, Add, Called, Map!Called
  <2>2. Map!Insert(Name[key], val)
    BY <2>1 DEF Map!Insert
  <2> QED
    BY <2>1, <2>2 DEF Map!Next
<1>3. ASSUME MoveNode \/ NextChain \/ Resized
      PROVE  IInv' /\ UNCHANGED <<Contents, last>>
  BY <1>3, MoveNodeStep, NextChainStep, ResizedStep DEF MoveNode, NextChain, Resized
<1>4. ASSUME Destroy
      PROVE  IInv' /\ Map!Next
  <2>1. IInv' /\ Map!Clear
    BY <1>4, DestroyStep DEF Map!Clear, Destroy
  <2> QED
    BY <2>1 DEF Map!Next
<1>5. ASSUME UNCHANGED vars
      PROVE  IInv' /\ UNCHANGED <<Contents, last>>
  BY <1>5 DEF vars, table, locals, IInv, TypeOK, Placed, Control, Load, Contents
<1> QED
  BY <1>1, <1>2, <1>3, <1>4, <1>5 DEF Next

\* The inductive invariant holds (src/vm/hash.c:115-207).
THEOREM InvariantHolds == Spec => []IInv
<1>1. Init => IInv
  BY InitStep
<1>2. IInv /\ [Next]_vars => IInv'
  BY StepPreserves
<1> QED
  BY <1>1, <1>2, PTL DEF Spec

\* An array has a chain for each remainder: no index leaves it
\* (src/vm/hash.c:156).
THEOREM TypeCorrect == Spec => []TypeOK
<1>1. IInv => TypeOK
  BY DEF IInv
<1> QED
  BY <1>1, InvariantHolds, PTL

\* A key has at most one node, in the chain where a lookup will search for it,
\* also in the middle of a resize (src/vm/hash.c:126-134).
THEOREM NodesPlaced == Spec => []Placed
<1>1. IInv => Placed
  BY DEF IInv
<1> QED
  BY <1>1, InvariantHolds, PTL

\* Chains stay short and tables never shrink (src/vm/hash.c:141-149).
THEOREM ChainsStayShort == Spec => []LoadBounded
<1>1. IInv => LoadBounded
  BY DEF IInv, Control, Load, LoadBounded
<1> QED
  BY <1>1, InvariantHolds, PTL

\* The table implements the map (src/vm/hash.c:179-207).
THEOREM TableIsMap == Spec => Implements
<1>1. Init => Map!Init
  BY InitStep DEF Init, Map!Init
<1>2. IInv /\ [Next]_vars => [Map!Next]_<<Contents, last>>
  BY StepPreserves
<1> QED
  BY <1>1, <1>2, InvariantHolds, PTL DEF Spec, Implements, Map!Spec

-----------------------------------------------------------------------------
(* The count of the nodes.                                                 *)

LEMMA PlacesElements ==
  ASSUME NEW array, NEW n
  PROVE  \A x : x \in Places(array, n) <=>
                  \E b \in 0 .. n - 1 : \E p \in DOMAIN array[b] : x = <<b, p>>
BY DEF Places

\* Chain c of t is a node longer than that of a, and the others are as long.
Longer(a, t, n, c) ==
  /\ c \in 0 .. n - 1 /\ Len(a[c]) \in Nat
  /\ DOMAIN a[c] = 1 .. Len(a[c]) /\ DOMAIN t[c] = 1 .. Len(a[c]) + 1
  /\ \A b \in 0 .. n - 1 : b # c => DOMAIN t[b] = DOMAIN a[b]

LEMMA LongerPlaces ==
  ASSUME NEW a, NEW t, NEW n, NEW c, Longer(a, t, n, c)
  PROVE  \E x : x \notin Places(a, n) /\ Places(t, n) = Places(a, n) \cup {x}
<1> DEFINE x == <<c, Len(a[c]) + 1>>
<1>1. x \notin Places(a, n)
  BY PlacesElements DEF Longer
<1>2. ASSUME NEW y, y \in Places(t, n)
      PROVE  y \in Places(a, n) \cup {x}
  <2>1. PICK b \in 0 .. n - 1 : \E p \in DOMAIN t[b] : y = <<b, p>>
    BY <1>2, PlacesElements
  <2>2. PICK p \in DOMAIN t[b] : y = <<b, p>>
    BY <2>1
  <2>3. p \in DOMAIN a[b] \/ (b = c /\ p = Len(a[c]) + 1)
    BY <2>2 DEF Longer
  <2> QED
    BY <2>2, <2>3, PlacesElements
<1>3. ASSUME NEW y, y \in Places(a, n) \cup {x}
      PROVE  y \in Places(t, n)
  <2>1. \E b \in 0 .. n - 1 : \E p \in DOMAIN t[b] : y = <<b, p>>
    <3>1. CASE y = x
      <4>1. c \in 0 .. n - 1 /\ Len(a[c]) + 1 \in DOMAIN t[c]
        BY DEF Longer
      <4> QED
        BY <3>1, <4>1
    <3>2. CASE y \in Places(a, n)
      <4>1. PICK b \in 0 .. n - 1 : \E p \in DOMAIN a[b] : y = <<b, p>>
        BY <3>2, PlacesElements
      <4>2. PICK p \in DOMAIN a[b] : y = <<b, p>>
        BY <4>1
      <4>3. p \in DOMAIN t[b]
        BY <4>2 DEF Longer
      <4> QED
        BY <4>2, <4>3
    <3> QED
      BY <1>3, <3>1, <3>2
  <2> QED
    BY <2>1, PlacesElements
<1> HIDE DEF x
<1> QED
  BY <1>1, <1>2, <1>3

\* The number of its nodes is finite, and is one more than that of a.
LEMMA LongerCount ==
  ASSUME NEW a, NEW t, NEW n, NEW c, Longer(a, t, n, c)
  PROVE  /\ IsFiniteSet(Places(t, n)) <=> IsFiniteSet(Places(a, n))
         /\ IsFiniteSet(Places(a, n)) =>
              /\ Cardinality(Places(a, n)) \in Nat
              /\ Cardinality(Places(t, n)) = Cardinality(Places(a, n)) + 1
<1>1. PICK x : x \notin Places(a, n) /\ Places(t, n) = Places(a, n) \cup {x}
  BY LongerPlaces
<1>2. IsFiniteSet(Places(t, n)) => IsFiniteSet(Places(a, n))
  <2>1. Places(a, n) \in SUBSET Places(t, n)
    BY <1>1
  <2> QED
    BY <2>1, FS_Subset
<1>3. IsFiniteSet(Places(a, n)) =>
        /\ IsFiniteSet(Places(t, n))
        /\ Cardinality(Places(a, n)) \in Nat
        /\ Cardinality(Places(t, n)) = Cardinality(Places(a, n)) + 1
  BY <1>1, FS_AddElement, FS_CardinalityType
<1> QED
  BY <1>2, <1>3

LEMMA NoPlaces ==
  ASSUME NEW array, NEW n, \A b \in 0 .. n - 1 : array[b] = <<>>
  PROVE  IsFiniteSet(Places(array, n)) /\ Cardinality(Places(array, n)) = 0
<1>1. \A b \in 0 .. n - 1 : DOMAIN array[b] = {}
  OBVIOUS
<1>2. Places(array, n) = {}
  BY <1>1, PlacesElements
<1> QED
  BY <1>2, FS_EmptySet

LEMMA SamePlaces ==
  ASSUME NEW a, NEW t, NEW n, \A b \in 0 .. n - 1 : DOMAIN t[b] = DOMAIN a[b]
  PROVE  Places(t, n) = Places(a, n)
<1>1. \A x : x \in Places(t, n) <=> x \in Places(a, n)
  BY PlacesElements
<1> QED
  BY <1>1

LEMMA EmptyPlaces ==
  ASSUME NEW n \in Nat \ {0}
  PROVE  IsFiniteSet(Places(Empty(n), n)) /\ Cardinality(Places(Empty(n), n)) = 0
<1>1. \A b \in 0 .. n - 1 : Empty(n)[b] = <<>>
  BY DEF Empty
<1> QED
  BY <1>1, NoPlaces

\* The inductive invariant of the count.
CountInv ==
  /\ IsFiniteSet(Places(nodes, size)) /\ IsFiniteSet(Places(new_nodes, new_size))
  /\ Counted

LEMMA AddCounts ==
  ASSUME IInv, CountInv, NEW key \in Keys, NEW val \in Values, Add(key, val)
  PROVE  CountInv'
<1> DEFINE c == Bucket(key)
           node == [key |-> key, val |-> val, key_hash |-> Hash[key]]
<1>1. /\ size' = size /\ nnodes' = nnodes + 1 /\ nnodes \in Nat
      /\ nodes' = [nodes EXCEPT ![c] = Append(@, node)]
      /\ size \in Nat \ {0} /\ nodes \in Array(size) /\ c \in 0 .. size - 1
      /\ node \in Node
  BY LookupFinds, KeysAssumption DEF Add, IInv, TypeOK, Array, Node
<1> HIDE DEF c, node
<1>2. Longer(nodes, nodes', size, c)
  <2>1. nodes[c] \in Seq(Node) /\ nodes'[c] = Append(nodes[c], node)
    BY <1>1 DEF Array
  <2>2. \A b \in 0 .. size - 1 : b # c => nodes'[b] = nodes[b]
    BY <1>1 DEF Array
  <2> QED
    BY <1>1, <2>1, <2>2, AppendElements DEF Longer
<1>3. /\ IsFiniteSet(Places(nodes', size))
      /\ Cardinality(Places(nodes, size)) \in Nat
      /\ Cardinality(Places(nodes', size)) = Cardinality(Places(nodes, size)) + 1
  BY <1>2, LongerCount DEF CountInv
<1>4. /\ IsFiniteSet(Places(new_nodes, new_size)) /\ Cardinality(Places(new_nodes, new_size)) = 0
  <2>1. new_size = MinSize /\ new_nodes = Empty(MinSize) /\ MinSize \in Nat \ {0}
    BY SizesSorted DEF IInv, Control, Add
  <2> QED
    BY <2>1, EmptyPlaces
<1>5. /\ IsFiniteSet(Places(new_nodes', new_size'))
      /\ Cardinality(Places(new_nodes', new_size')) = 0
  <2>1. CASE MaybeResize(size, nnodes')
    <3>1. new_nodes' = Empty(new_size') /\ new_size' = Clamp(spaced_primes_closest(nnodes'))
      BY <2>1 DEF Add, StartResize
    <3>2. InRange(size) /\ Load(size)
      BY DEF IInv, Control, Add
    <3>3. new_size' \in Nat \ {0}
      BY <1>1, <3>1, <3>2, NewSize
    <3> QED
      BY <3>1, <3>3, EmptyPlaces
  <2>2. CASE ~MaybeResize(size, nnodes')
    <3>1. new_size' = new_size /\ new_nodes' = new_nodes
      BY <2>2 DEF Add, locals
    <3> QED
      BY <1>4, <3>1
  <2> QED
    BY <2>1, <2>2
<1>6. Counted'
  <2>1. nnodes = Cardinality(Places(nodes, size)) + Cardinality(Places(new_nodes, new_size))
    BY DEF CountInv, Counted
  <2>2. nnodes' = Cardinality(Places(nodes', size)) + Cardinality(Places(new_nodes', new_size'))
    BY <1>1, <1>3, <1>4, <1>5, <2>1
  <2> QED
    BY <1>1, <2>2 DEF Counted
<1> QED
  BY <1>1, <1>3, <1>5, <1>6 DEF CountInv

LEMMA MoveNodeCounts ==
  ASSUME IInv, CountInv, MoveNode
  PROVE  CountInv'
<1> DEFINE node == Head(nodes[i])
           c == node.key_hash % new_size
<1>1. /\ UNCHANGED <<size, nnodes, new_size>> /\ nnodes \in Nat
      /\ nodes' = [nodes EXCEPT ![i] = Tail(@)]
      /\ new_nodes' = [new_nodes EXCEPT ![c] = <<node>> \o @]
      /\ size \in Nat \ {0} /\ nodes \in Array(size) /\ i \in 0 .. size - 1
      /\ new_size \in Nat \ {0} /\ new_nodes \in Array(new_size) /\ nodes[i] # <<>>
  BY DEF IInv, TypeOK, Array, MoveNode
<1>2. nodes[i] \in Seq(Node) /\ node \in Node
  BY <1>1, TailElements DEF Array
<1>3. c \in 0 .. new_size - 1
  BY <1>1, <1>2 DEF Node
<1> HIDE DEF c, node
<1>4. Longer(nodes', nodes, size, i)
  <2>1. nodes'[i] = Tail(nodes[i])
    BY <1>1 DEF Array
  <2>2. \A b \in 0 .. size - 1 : b # i => nodes'[b] = nodes[b]
    BY <1>1 DEF Array
  <2>3. /\ Tail(nodes[i]) \in Seq(Node)
        /\ Len(Tail(nodes[i])) = Len(nodes[i]) - 1 /\ Len(nodes[i]) \in Nat \ {0}
    BY <1>1, <1>2
  <2>4. Len(nodes'[i]) = Len(nodes[i]) - 1 /\ DOMAIN nodes'[i] = 1 .. Len(nodes'[i])
    BY <2>1, <2>3
  <2>5. DOMAIN nodes[i] = 1 .. Len(nodes'[i]) + 1 /\ Len(nodes'[i]) \in Nat
    BY <1>2, <2>3, <2>4
  <2>6. \A b \in 0 .. size - 1 : b # i => DOMAIN nodes[b] = DOMAIN nodes'[b]
    BY <2>2
  <2> QED
    BY <1>1, <2>4, <2>5, <2>6 DEF Longer
<1>5. Longer(new_nodes, new_nodes', new_size, c)
  <2>1. new_nodes[c] \in Seq(Node) /\ new_nodes'[c] = <<node>> \o new_nodes[c]
    BY <1>1, <1>3 DEF Array
  <2>2. \A b \in 0 .. new_size - 1 : b # c => new_nodes'[b] = new_nodes[b]
    BY <1>1, <1>3 DEF Array
  <2> QED
    BY <1>2, <1>3, <2>1, <2>2, ConsElements DEF Longer
<1>6. /\ IsFiniteSet(Places(nodes', size))
      /\ Cardinality(Places(nodes', size)) \in Nat
      /\ Cardinality(Places(nodes, size)) = Cardinality(Places(nodes', size)) + 1
  BY <1>4, LongerCount DEF CountInv
<1>7. /\ IsFiniteSet(Places(new_nodes', new_size))
      /\ Cardinality(Places(new_nodes, new_size)) \in Nat
      /\ Cardinality(Places(new_nodes', new_size)) = Cardinality(Places(new_nodes, new_size)) + 1
  BY <1>5, LongerCount DEF CountInv
<1>8. Counted'
  <2>1. nnodes = Cardinality(Places(nodes, size)) + Cardinality(Places(new_nodes, new_size))
    BY DEF CountInv, Counted
  <2>2. nnodes = Cardinality(Places(nodes', size)) + Cardinality(Places(new_nodes', new_size))
    BY <1>6, <1>7, <2>1
  <2> QED
    BY <1>1, <2>2 DEF Counted
<1> QED
  BY <1>1, <1>6, <1>7, <1>8 DEF CountInv

LEMMA ReplaceCounts ==
  ASSUME IInv, CountInv, NEW key \in Keys, NEW val \in Values, Replace(key, val)
  PROVE  CountInv'
<1> DEFINE c == Bucket(key)
           p == LookupNode(key)
<1>1. /\ UNCHANGED <<size, nnodes, new_size, new_nodes>>
      /\ nodes' = [nodes EXCEPT ![c][p].val = val]
      /\ size \in Nat \ {0} /\ nodes \in Array(size)
      /\ c \in 0 .. size - 1 /\ p \in DOMAIN nodes[c]
  BY LookupFinds DEF Replace, IInv, TypeOK, Array, locals
<1> HIDE DEF c, p
<1>2. \A b \in 0 .. size - 1 : DOMAIN nodes'[b] = DOMAIN nodes[b]
  BY <1>1, ExceptRevalues DEF Revalued
<1>3. Places(nodes', size) = Places(nodes, size)
  BY <1>2, SamePlaces
<1> QED
  BY <1>1, <1>3 DEF CountInv, Counted

LEMMA ResizedCounts ==
  ASSUME IInv, CountInv, Resized
  PROVE  CountInv'
<1>1. /\ nnodes' = nnodes /\ nodes' = new_nodes /\ size' = new_size
      /\ new_size' = MinSize /\ new_nodes' = Empty(MinSize) /\ MinSize \in Nat \ {0}
  BY SizesSorted DEF Resized, NoResize
<1>2. Cardinality(Places(nodes, size)) = 0
  <2>1. \A b \in 0 .. size - 1 : nodes[b] = <<>>
    BY DEF IInv, Control, Resized
  <2> QED
    BY <2>1, NoPlaces
<1>3. /\ IsFiniteSet(Places(Empty(MinSize), MinSize))
      /\ Cardinality(Places(Empty(MinSize), MinSize)) = 0
  BY <1>1, EmptyPlaces
<1>4. Cardinality(Places(new_nodes, new_size)) \in Nat
  BY FS_CardinalityType DEF CountInv
<1>5. nnodes' = Cardinality(Places(nodes', size')) + Cardinality(Places(new_nodes', new_size'))
  BY <1>1, <1>2, <1>3, <1>4 DEF CountInv, Counted
<1> QED
  BY <1>1, <1>3, <1>5 DEF CountInv, Counted

LEMMA DestroyCounts ==
  ASSUME IInv, CountInv, Destroy
  PROVE  CountInv'
<1>1. /\ nnodes' = 0 /\ size' = MinSize /\ nodes' = Empty(MinSize) /\ MinSize \in Nat \ {0}
      /\ new_size' = MinSize /\ new_nodes' = Empty(MinSize)
  BY SizesSorted DEF Destroy, locals, IInv, Control
<1> QED
  BY <1>1, EmptyPlaces DEF CountInv, Counted

LEMMA StepCounts ==
  ASSUME IInv, CountInv, [Next]_vars
  PROVE  CountInv'
<1>1. CASE \E key \in Keys : Lookup(key)
  BY <1>1 DEF Lookup, table, locals, CountInv, Counted
<1>2. CASE \E key \in Keys, val \in Values : Replace(key, val)
  BY <1>2, ReplaceCounts
<1>3. CASE \E key \in Keys, val \in Values : Add(key, val)
  BY <1>3, AddCounts
<1>4. CASE NextChain
  BY <1>4 DEF NextChain, table, CountInv, Counted
<1>5. CASE UNCHANGED vars
  BY <1>5 DEF vars, table, locals, CountInv, Counted
<1> QED
  BY <1>1, <1>2, <1>3, <1>4, <1>5, MoveNodeCounts, ResizedCounts, DestroyCounts DEF Next

\* No resize loses a node or counts one twice (src/vm/hash.c:204).
THEOREM NodesCounted == Spec => []Counted
<1>1. Init => CountInv
  BY EmptyPlaces, SizesSorted DEF Init, CountInv, Counted
<1>2. IInv /\ CountInv /\ [Next]_vars => CountInv'
  BY StepCounts
<1>3. CountInv => Counted
  BY DEF CountInv
<1> QED
  BY <1>1, <1>2, <1>3, InvariantHolds, PTL DEF Spec
=============================================================================

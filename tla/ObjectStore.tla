----------------------------- MODULE ObjectStore -----------------------------
(***************************************************************************)
(* What src/vm/heap.c promises to the rest of the machine: a heap in which *)
(* objects have an identity and never move.  Words and roots hold objects  *)
(* or 0, anything that is no pointer.  Objects are created from roots,     *)
(* read and written, and at any time some that no root reaches may         *)
(* disappear; nothing else ever happens to an object.                      *)
(***************************************************************************)
EXTENDS Integers

CONSTANTS
  Objects,   \* identities; there may be no more objects at once than these
  Fields,    \* pointer words of an object
  Roots      \* slots of the machine's stack and registers, positive numbers

VARIABLES
  words,     \* the words of the objects that there are
  root       \* the root slots

store == <<words, root>>

Init ==
  /\ words = [o \in {} |-> 0]
  /\ root = [r \in Roots |-> 0]

\* The value of source operand s: root s, or an immediate.
Operand(s) == IF s = 0 THEN 0 ELSE root[s]

New(o, d, src) ==
  /\ o \in Objects \ DOMAIN words
  /\ words' = [p \in DOMAIN words \cup {o} |->
                 IF p = o THEN [g \in Fields |-> Operand(src[g])] ELSE words[p]]
  /\ root' = [root EXCEPT ![d] = o]

Load(d, s, g) ==
  /\ root[s] \in DOMAIN words
  /\ root' = [root EXCEPT ![d] = words[root[s]][g]]
  /\ UNCHANGED words

Store(d, g, s) ==
  /\ root[d] \in DOMAIN words
  /\ words' = [words EXCEPT ![root[d]][g] = Operand(s)]
  /\ UNCHANGED root

Move(d, s) ==
  /\ root' = [root EXCEPT ![d] = Operand(s)]
  /\ UNCHANGED words

\* Only the objects in K stay: those in root slots, and with an object all
\* that its words hold.
Drop(K) ==
  /\ \A r \in Roots : root[r] \in K \cup {0}
  /\ \A o \in K, g \in Fields : words[o][g] \in K \cup {0}
  /\ words' = [o \in K |-> words[o]]
  /\ UNCHANGED root

Next ==
  \/ \E o \in Objects, d \in Roots, src \in [Fields -> Roots \cup {0}] : New(o, d, src)
  \/ \E d, s \in Roots, g \in Fields : Load(d, s, g)
  \/ \E d \in Roots, s \in Roots \cup {0}, g \in Fields : Store(d, g, s)
  \/ \E d \in Roots, s \in Roots \cup {0} : Move(d, s)
  \/ \E K \in SUBSET DOMAIN words : Drop(K)

Spec == Init /\ [][Next]_store
=============================================================================

------------------------------- MODULE Values -------------------------------
(***************************************************************************)
(* The values of the virtual machine (src/vm/types.h) and the objects that *)
(* pointers lead to.  An immediate value carries what it is; a pointer     *)
(* carries an address, Ptr on the heap of a thread and Const in the        *)
(* constants of a module.  Symbols are interned, so their text is as good  *)
(* as their address.  A text is a sequence of character codes.             *)
(***************************************************************************)
EXTENDS Integers, SequencesExt

Fix(v) == [k |-> "fix", v |-> v]
Char(c) == [k |-> "char", c |-> c]
CIf(b) == [k |-> "bool", b |-> b]
Null == [k |-> "null"]
Void == [k |-> "void"]
Eof == [k |-> "eof"]
Func(f) == [k |-> "func", f |-> f]
Native(n) == [k |-> "native", n |-> n]
Symbol(s) == [k |-> "symbol", s |-> s]
Ptr(a) == [k |-> "ptr", a |-> a]
Const(a) == [k |-> "const", a |-> a]
Stale == [k |-> "stale"]             \* a pointer that a collection has missed
Slot(i) == [k |-> "slot", i |-> i]   \* a place in the operand stack
NoPtr == [k |-> "none"]

\* CHAR: a character is read as a signed number of 16 bits.
ShortBound == 2 ^ 15
Short(c) == ((c + ShortBound) % (2 * ShortBound)) - ShortBound

\* What fits in one byte of a text.
Byte(c) == ((c + 128) % 256) - 128

NoObject == [ty |-> "none"]

\* A text lies in the block of its string, where the allocated flag lets it
\* follow the block, or in the mapped file, or it is a symbol's.  zero: a
\* terminating zero follows it.
StringOf(s) == [ty |-> "string", s |-> s, at |-> "block", allocated |-> TRUE, zero |-> TRUE]
OtherText(s, place) == [StringOf(s) EXCEPT !.at = place, !.allocated = FALSE]
BytevectorOf(data) == [ty |-> "bytevector", data |-> data]
StructOf(type, fields) == [ty |-> "struct", type |-> type, fields |-> fields]

\* The list flag and the length of a pair: 0 stands for a flag that is off.
\* They are not written when the rest is a pair that is no list itself.
Unset == -1
ListLength(cdr, rest) ==
  IF cdr = Null THEN 1
  ELSE IF rest.ty # "pair" THEN 0
  ELSE IF rest.len > 0 THEN rest.len + 1 ELSE Unset

\* _cons: rest is the object that cdr leads to.
PairOf(car, cdr, rest) ==
  [ty |-> "pair", car |-> car, cdr |-> cdr, len |-> ListLength(cdr, rest)]
=============================================================================

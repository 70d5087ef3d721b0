------------------------------ MODULE Natives -------------------------------
(***************************************************************************)
(* The natives on strings, structures and bytevectors: src/vm/strings.c,   *)
(* src/vm/struct.c and src/vm/bytevector.c.  A native reads its arguments  *)
(* in the operand stack, where a collection updates them; what it has in   *)
(* C locals it does not.                                                   *)
(***************************************************************************)
EXTENDS Vm

CONSTANT FreshPairs   \* as many pairs fit an empty fresh space

ASSUME NativesAssumption == FreshPairs \in Nat

StringArg(n) == IsType(thread, Argument(n), {"string"})
StructArg(n) == IsType(thread, Argument(n), {"struct"})
SymbolArg(n) == IsType(thread, Argument(n), {"symbol"})
BytesArg(n) == IsType(thread, Argument(n), {"bytevector"})
FixnumArg(n) == Argument(n).k = "fix"
CharArg(n) == Argument(n).k = "char"
Arg1 == Object(thread, Argument(2))   \* the object that the first argument leads to

\* FIXNUM and CHAR of a value that nobody has tested.
Untagged(v) ==
  CASE v.k = "fix" -> v.v
    [] v.k = "char" -> v.c
    [] v.k = "bool" -> IF v.b THEN 1 ELSE 2
    [] v = Null -> 0
    [] v = Void -> 3
    [] v = Eof -> 4
    [] OTHER -> ShortBound            \* an address, beyond any size

Collections == IF Collecting THEN BOOLEAN ELSE {FALSE}
After(gc, t) == IF gc THEN Collected(t) ELSE t

\* The new object is made of arguments as the allocation has left them.
ReturningNew(t, object) ==
  IF object = NoObject THEN Undefined
  ELSE LET p == Place(t, object)
       IN  /\ thread' = Push(p, New(p))
           /\ call' = Calling(Argv(p, Argc, 1), 1)
           /\ UNCHANGED <<module, pc>>

\* A string copied from one that is read after the allocation.
Copied(t, v, first, last) ==
  LET o == Object(t, v)
  IN  IF o.at = "lost" THEN NoObject ELSE StringOf(SubSeq(o.s, first, last))

\* A heap object changes where it is.
Updating(object) ==
  Returning([Switched EXCEPT !.heap[Argument(2).a] = object], Void)

-----------------------------------------------------------------------------
(* Strings.                                                                *)

MakeString ==
  /\ Called("make_string")
  /\ IF ~(FixnumArg(2) /\ CharArg(3)) THEN Fails
     ELSE IF Argument(2).v < 0 THEN Undefined
     ELSE \E t \in MayCollect(Switched) : ReturningNew(t,
            StringOf([i \in 1..Argv(t, Argc, 2).v |-> Byte(Argv(t, Argc, 3).c)]))

\* Both strings are known by their addresses before the allocation, and the
\* allocated flag is not set.
StringConcat ==
  /\ Called("string_concat")
  /\ IF ~(StringArg(2) /\ StringArg(3)) THEN Fails
     ELSE \E gc \in Collections :
       LET b == Object(thread, Argument(3))
           p == Place(After(gc, Switched),
                      [StringOf(Arg1.s \o b.s) EXCEPT !.allocated = FALSE, !.zero = b.zero])
       IN  IF "lost" \in {Arg1.at, b.at} \/ (gc /\ (IsPtr(Argument(2)) \/ IsPtr(Argument(3))))
           THEN Undefined
           ELSE /\ thread' = Push(p, New(p))
                /\ call' = Calling(Argv(p, Argc, 1), 1)
                /\ UNCHANGED <<module, pc>>

\* string-copy!
StringCopyTo ==
  /\ Called("string_copy_to")
  /\ LET dst == Arg1
         src == Object(thread, Argument(4))
         pos == Argument(3).v
     IN  IF ~(StringArg(2) /\ IsPtr(Argument(2)) /\ StringArg(4) /\ FixnumArg(3)
                /\ dst.allocated)
         THEN Fails
         ELSE IF ~(pos >= 0 /\ pos + Len(src.s) <= Len(dst.s)) THEN Fails
         ELSE IF src.at = "lost" THEN Undefined
         ELSE Updating([dst EXCEPT !.s =
                [i \in DOMAIN @ |-> IF i - pos \in DOMAIN src.s THEN src.s[i - pos] ELSE @[i]]])

StringCopy ==
  /\ Called("string_copy")
  /\ IF ~StringArg(2) THEN Fails
     ELSE \E t \in MayCollect(Switched) : ReturningNew(t,
            LET new == Copied(t, Argv(t, Argc, 2), 1, Len(Arg1.s))
            IN  IF Arg1.zero \/ new = NoObject THEN new ELSE [new EXCEPT !.zero = FALSE])

\* The text is not copied.
SymbolToString ==
  /\ Called("symbol_to_string")
  /\ IF ~SymbolArg(2) THEN Fails
     ELSE \E t \in MayCollect(Switched) : ReturningNew(t, OtherText(Argv(t, Argc, 2).s, "symbol"))

\* A negative position leads before the text, into the header.
StringRef ==
  /\ Called("string_ref")
  /\ IF ~(StringArg(2) /\ FixnumArg(3)) THEN Fails
     ELSE LET pos == Argument(3).v
          IN  IF pos >= Len(Arg1.s) THEN Fails
              ELSE IF Arg1.at = "lost" THEN Undefined
              ELSE \E c \in IF pos >= 0 THEN {Arg1.s[pos + 1]} ELSE {0, 1} :
                     Returning(Switched, Char(c))

\* The mapped file cannot be written to; a symbol would change its name.
StringSet ==
  /\ Called("string_set")
  /\ IF ~(StringArg(2) /\ FixnumArg(3) /\ CharArg(4)) THEN Fails
     ELSE LET pos == Argument(3).v
          IN  IF ~(pos >= 0 /\ pos < Len(Arg1.s)) THEN Fails
              ELSE IF Arg1.at # "block" THEN Undefined
              ELSE Updating([Arg1 EXCEPT !.s[pos + 1] = Byte(Argument(4).c)])

StringLength ==
  /\ Called("string_length")
  /\ IF StringArg(2) THEN Returning(Switched, Fix(Len(Arg1.s))) ELSE Fails

StringEq ==
  /\ Called("string_eq")
  /\ LET b == Object(thread, Argument(3))
     IN  IF ~(StringArg(2) /\ StringArg(3)) THEN Fails
         ELSE IF "lost" \in {Arg1.at, b.at} THEN Undefined
         ELSE \E behind \in BehindBlock :
                Returning(Switched, CIf(CText(Arg1, behind) = CText(b, behind)))

\* Nothing is written behind the characters: a zero follows them only when
\* they do not fill the block, whose size is a multiple of 8.
Substring ==
  /\ Called("substring")
  /\ IF ~(StringArg(2) /\ FixnumArg(3) /\ FixnumArg(4)) THEN Fails
     ELSE LET start == Argument(3).v
              end == Argument(4).v
          IN  IF ~(start >= 0 /\ start <= end /\ end <= Len(Arg1.s)) THEN Fails
              ELSE \E t \in MayCollect(Switched) : ReturningNew(t,
                     LET new == Copied(t, Argv(t, Argc, 2), start + 1, end)
                     IN  IF (end - start) % 8 # 0 \/ new = NoObject THEN new
                         ELSE [new EXCEPT !.zero = FALSE])

-----------------------------------------------------------------------------
(* Structures.                                                             *)

MakeStruct ==
  /\ Called("make_struct")
  /\ IF Argc < 2 THEN Undefined
     ELSE IF ~SymbolArg(2) THEN Fails
     ELSE \E t \in MayCollect(Switched) : ReturningNew(t,
            StructOf(Argv(t, Argc, 2), [i \in 1..Argc - 2 |-> Argv(t, Argc, i + 2)]))

AllocStruct ==
  /\ Called("alloc_struct")
  /\ IF ~(SymbolArg(2) /\ FixnumArg(3)) THEN Fails
     ELSE IF Argument(3).v < 0 THEN Undefined
     ELSE \E t \in MayCollect(Switched) : ReturningNew(t,
            StructOf(Argv(t, Argc, 2), [i \in 1..Argv(t, Argc, 3).v |-> Argv(t, Argc, 4)]))

StructSize ==
  /\ Called("struct_size")
  /\ IF StructArg(2) THEN Returning(Switched, Fix(Len(Arg1.fields))) ELSE Fails

InStruct(pos) == pos >= 0 /\ pos < Len(Arg1.fields)

StructSet ==
  /\ Called("struct_set")
  /\ LET pos == Untagged(Argument(3))
     IN  IF ~(StructArg(2) /\ IsPtr(Argument(2))) THEN Fails
         ELSE IF ~InStruct(pos) THEN Fails
         ELSE Updating([Arg1 EXCEPT !.fields[pos + 1] = Argument(4)])

StructRef ==
  /\ Called("struct_ref")
  /\ IF ~(StructArg(2) /\ FixnumArg(3)) THEN Fails
     ELSE IF ~InStruct(Argument(3).v) THEN Fails
     ELSE Returning(Switched, Arg1.fields[Argument(3).v + 1])

StructType ==
  /\ Called("struct_type")
  /\ IF StructArg(2) THEN Returning(Switched, Arg1.type) ELSE Fails

\* The pairs of a list of these values, the last one first, behind as many
\* objects as there are.
ListOf(values, objects) ==
  [i \in 1 .. Len(values) |->
     [ty |-> "pair", car |-> values[Len(values) + 1 - i],
      cdr |-> IF i = 1 THEN Null ELSE Ptr(objects + i - 1), len |-> i]]

\* heap_require_blocks makes room for all pairs, after which _list gets the
\* address of the fields.  When even the empty space has no room for them, a
\* second collection moves the fields away.
StructToList ==
  /\ Called("struct_to_list")
  /\ IF ~StructArg(2) THEN Fails
     ELSE \E gc \in Collections :
       LET t == After(gc, Switched)
           fields == Object(t, Argv(t, Argc, 2)).fields
           l == [t EXCEPT !.heap = @ \o ListOf(fields, Len(t.heap))]
       IN  IF gc /\ Len(Arg1.fields) > FreshPairs /\ IsPtr(Argument(2)) THEN Undefined
           ELSE /\ thread' = Push(l, IF fields = <<>> THEN Null ELSE New(l))
                /\ call' = Calling(Argv(t, Argc, 1), 1)
                /\ UNCHANGED <<module, pc>>

-----------------------------------------------------------------------------
(* Bytevectors.                                                            *)

MakeBytevector ==
  /\ Called("make_bytevector")
  /\ IF ~(FixnumArg(2) /\ FixnumArg(3)) THEN Fails
     ELSE IF Argument(2).v < 0 THEN Undefined
     ELSE \E t \in MayCollect(Switched) : ReturningNew(t,
            BytevectorOf([i \in 1..Argv(t, Argc, 2).v |-> Argv(t, Argc, 3).v % 256]))

\* The position is tested twice and the value not at all; no byte may be 0.
Bytevector8Set ==
  /\ Called("bytevector_8_set")
  /\ LET val == Untagged(Argument(4))
         pos == Argument(3).v
     IN  IF ~(BytesArg(2) /\ FixnumArg(3)) THEN Fails
         ELSE IF ~(pos >= 0 /\ pos < Len(Arg1.data) /\ val > 0 /\ val < 256) THEN Fails
         ELSE Updating([Arg1 EXCEPT !.data[pos + 1] = val])

-----------------------------------------------------------------------------

Next ==
  \/ Step
  \/ MakeString \/ StringConcat \/ StringCopyTo \/ StringCopy \/ SymbolToString
  \/ StringRef \/ StringSet \/ StringLength \/ StringEq \/ Substring
  \/ MakeStruct \/ AllocStruct \/ StructSize \/ StructSet \/ StructRef \/ StructType
  \/ StructToList
  \/ MakeBytevector \/ Bytevector8Set
=============================================================================

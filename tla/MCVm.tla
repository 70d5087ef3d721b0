-------------------------------- MODULE MCVm --------------------------------
(***************************************************************************)
(* Source programs for the compiler and the virtual machine.               *)
(***************************************************************************)
EXTENDS MCTexts

-----------------------------------------------------------------------------
(* Closures and environments.                                              *)

\* A counter: two closures share one variable, a second pair another.
Counter == Program(<<
  Def("make", L(<<"n">>, <<
    Pair(L(<<>>, <<SetTo("n", Plus(V("n"), Num(1))), V("n")>>),
         L(<<"m">>, <<SetTo("n", V("m"))>>))>>)),
  LetIn("a", F("make", <<Num(1)>>), <<
    LetIn("b", F("make", <<Num(5)>>), <<
      Show(Call(Car(V("a")), <<>>)),
      Call(Cdr(V("a")), <<Num(7)>>),
      Show(Call(Car(V("b")), <<>>)),
      Show(Call(Car(V("a")), <<>>))>>)>>)>>)

\* Variables three functions out, past one that captures nothing.
Nested == Program(<<
  Def("f", L(<<"x", "y">>, <<
    L(<<"z">>, <<
      L(<<"u">>, <<
        L(<<"w">>, <<
          SetTo("x", Plus(V("x"), V("w"))),
          Plus(V("x"), Plus(V("y"), V("w")))>>)>>)>>)>>)),
  LetIn("g", Call(F("f", <<Num(1), Num(2)>>), <<Num(3)>>), <<
    LetIn("h", F("g", <<Num(4)>>), <<
      Show(F("h", <<Num(10)>>)), Show(F("h", <<Num(20)>>))>>)>>)>>)

\* A loop that keeps a frame on the stack and one that builds a list.
Loops == Program(<<
  Def("sum", L(<<"n", "acc">>, <<
    If(Less(V("n"), Num(1)), V("acc"),
       F("sum", <<Minus(V("n"), Num(1)), Plus(V("acc"), V("n"))>>))>>)),
  Def("upto", L(<<"n">>, <<
    If(Op("$=", <<V("n"), Num(0)>>), Nil,
       Pair(V("n"), F("upto", <<Minus(V("n"), Num(1))>>)))>>)),
  Show(F("sum", <<Num(3), Num(0)>>)),
  Show(F("upto", <<Num(2)>>))>>)

-----------------------------------------------------------------------------
(* Continuations.                                                          *)

\* Out of a computation, and back into it a second time.
Escape == Program(<<
  Show(Plus(Num(1), F("callcc", <<L(<<"k">>, <<Plus(Num(10), F("k", <<Num(2)>>))>>)>>)))>>)

Reenter == Program(<<
  Def("saved", Bool(FALSE)),
  Def("n", Num(0)),
  LetIn("v", F("callcc", <<L(<<"k">>, <<SetTo("saved", V("k")), Num(1)>>)>>), <<
    Show(V("v")),
    SetTo("n", Plus(V("n"), Num(1))),
    If(Less(V("n"), Num(3)), F("saved", <<Plus(V("n"), Num(10))>>), Show(V("n")))>>)>>)

-----------------------------------------------------------------------------
(* Natives, as heads of calls and as values; rest arguments.               *)

Applications == Program(<<
  Def("f", LRest(<<"a">>, "r", <<Pair(V("r"), V("a"))>>)),
  Show(F("f", <<Num(1)>>)),
  Show(F("f", <<Num(1), Num(2), Num(3)>>)),
  Show(F("apply", <<V("f"), F("list", <<Num(4), Num(5)>>)>>)),
  LetIn("d", F("apply", <<V("list"), F("list", <<V("display"), Num(6)>>)>>), <<
    Call(Car(V("d")), <<Car(Cdr(V("d")))>>),
    Show(F("void", <<>>))>>)>>)

Eqs == Program(<<
  Def("p", Pair(Num(1), Nil)),
  Show(IsEq(V("p"), V("p"))),
  Show(IsEq(V("p"), Pair(Num(2), Nil))),
  Show(Not(IsEq(Car(V("p")), Num(1)))),
  F("p", <<>>)>>)

-----------------------------------------------------------------------------
(* Data: what the module file holds, and what the natives make of it.      *)

ListOfData(items) == FoldRight(QPair, items, Nil)
Is(test, e) == Op("$type-test", <<V(test), e>>)

\* A nested list with one of everything, shared constants, an improper list.
Data == Program(<<
  Def("l", Quote(ListOfData(<<Sym(<<97>>), QPair(Num(-1), Str(<<115>>)), Bool(TRUE), Nil, Chr(955),
                              Vec(<<Num(2), ListOfData(<<Sym(<<98>>), Sym(<<97>>)>>)>>)>>))),
  Show(V("l")),
  Show(F("apply", <<V("list"), V("l")>>)),
  Show(IsEq(Car(V("l")), Quote(Sym(<<97>>)))),
  Show(IsEq(Car(V("l")), Car(Car(Cdr(V("l")))))),
  Show(Pair(F("length", <<V("l")>>), F("length", <<Pair(Str(<<115>>), V("l"))>>))),
  Show(IsEq(Quote(ListOfData(<<Num(3)>>)), Quote(ListOfData(<<Num(3)>>)))),
  Call(Quote(Sym(<<97>>)), <<>>)>>)

\* Every type test on every type of value.
Tests == <<"TT_FIXNUM", "TT_NULL", "TT_LIST", "TT_PAIR", "TT_PROCEDURE", "TT_BOOLEAN",
           "TT_CHAR", "TT_SYMBOL", "TT_STRUCT", "TT_STRING", "TT_BYTEVECTOR", "TT_EOF">>
Anything == <<Num(5), Nil, Pair(Num(1), Nil), Pair(Num(1), Num(2)), V("list"), Bool(FALSE),
              Chr(66), Quote(Sym(<<97>>)), Quote(Vec(<<Nil>>)), Str(<<115>>), F("eof_object", <<>>),
              Quote(ListOfData(<<Num(1), Num(2)>>)), Quote(QPair(Num(1), Num(2))),
              F("make_string", <<Num(1), Chr(66)>>), F("make_bytevector", <<Num(1), Num(1)>>),
              F("make_struct", <<Quote(Sym(<<97>>))>>)>>
Typed(e) == Program(<<
  LetIn("x", e, [i \in DOMAIN Tests |-> Show(Is(Tests[i], V("x")))])>>)

\* Numbers and characters.
Numbers == Program(<<
  Def("f", L(<<"a", "b">>, <<
    Show(Op("$*", <<V("a"), V("b")>>)), Show(Op("$>", <<V("a"), V("b")>>)),
    Show(Op("$/", <<V("a"), V("b")>>)), Show(Op("$%", <<V("a"), V("b")>>))>>)),
  F("f", <<Num(7), Num(2)>>), F("f", <<Num(-7), Num(2)>>),
  F("f", <<Num(7), Num(-2)>>), F("f", <<Num(-7), Num(-7)>>),
  Show(F("integer_to_char", <<Plus(F("char_to_integer", <<Chr(955)>>), Num(1))>>)),
  F("f", <<Num(1), Num(0)>>)>>)

\* Lists of one value, and the register for the libraries' cache.
Lists == Program(<<
  F("library_cache", <<F("make_list", <<Num(2), Pair(Num(1), Num(2))>>)>>),
  Show(F("make_list", <<Num(0), Num(7)>>)),
  Show(F("library_cache", <<>>)),
  Show(F("length", <<F("library_cache", <<>>)>>)),
  Show(F("length", <<Pair(Num(1), Num(2))>>))>>)

\* Strings that are changed, copied and cut, next to ones that may not be.
Texts == Program(<<
  Def("t", F("make_string", <<Num(3), Chr(97)>>)),
  F("string_set", <<V("t"), Num(1), Chr(98)>>),
  LetIn("c", F("string_copy", <<V("t")>>), <<
    F("string_copy_to", <<V("t"), Num(1), Str(<<99, 100>>)>>),
    LetIn("u", F("substring", <<V("t"), Num(1), Num(3)>>), <<
      Show(Pair(V("c"), V("t"))), Show(V("u")),
      Show(Pair(F("string_eq", <<V("u"), Str(<<99, 100>>)>>),
                F("string_eq", <<V("u"), V("t")>>))),
      Show(Pair(F("string_ref", <<V("c"), Num(1)>>), F("string_length", <<V("u")>>))),
      Show(F("string_eq", <<F("symbol_to_string", <<Quote(Sym(<<97>>))>>),
                            F("substring", <<Str(<<98, 97>>), Num(1), Num(2)>>)>>))>>)>>)>>)

\* Structures that share a pair and lead to each other.
Structures == Program(<<
  Def("v", F("make_struct", <<Quote(Sym(<<97>>)), Num(1), Pair(Num(2), Nil)>>)),
  Def("w", F("alloc_struct", <<Quote(Sym(<<98>>)), Num(2), V("v")>>)),
  F("struct_set", <<V("v"), Num(0), Str(<<115>>)>>),
  F("struct_set", <<V("w"), Num(1), F("struct_ref", <<V("v"), Num(1)>>)>>),
  Show(V("w")),
  Show(F("struct_to_list", <<V("w")>>)),
  Show(Pair(F("struct_type", <<V("w")>>), F("struct_size", <<V("w")>>))),
  Show(F("struct_to_list", <<Quote(Vec(<<Num(1), Num(2)>>))>>)),
  F("apply", <<V("struct_set"), F("list", <<V("v"), Num(2), Nil>>)>>)>>)

Bytes == Program(<<
  Def("b", F("make_bytevector", <<Num(2), Num(7)>>)),
  F("bytevector_8_set", <<V("b"), Num(1), Num(255)>>),
  Show(Pair(V("b"), F("make_bytevector", <<Num(1), Num(0)>>)))>>)

-----------------------------------------------------------------------------
(* Exceptions: every way to raise one, with and without a handler.         *)

Handled(bad) == Program(<<
  Def("g", L(<<"x", "y">>, <<V("x")>>)),
  F("handlers", <<Pair(L(<<"e">>, <<Show(Num(9)), Show(V("e")), bad>>), Nil)>>),
  Show(Num(1)), Show(bad), Show(Num(2))>>)

Raises == <<
  Handled(Car(Num(3))), Handled(Cdr(Nil)), Handled(Call(Num(3), <<>>)),
  Handled(F("g", <<Num(1)>>)),
  Handled(F("callcc", <<Num(1)>>)), Handled(F("apply", <<V("list"), Nil>>)),
  Handled(F("handlers", <<Num(3)>>)), Handled(F("display", <<>>)),
  Handled(F("length", <<Num(3)>>)), Handled(F("make_list", <<Nil, Nil>>)),
  Handled(F("char_to_integer", <<Num(65)>>)), Handled(F("integer_to_char", <<Chr(65)>>)),
  Handled(F("library_cache", <<Nil>>)), Handled(Call(Quote(Sym(<<97>>)), <<>>)),
  Program(<<Show(Car(Nil))>>)>>

\* Arguments that the natives on strings, structures and bytevectors refuse.
Fresh == F("make_string", <<Num(2), Chr(65)>>)
FreshBytes == F("make_bytevector", <<Num(2), Num(1)>>)
Twice == Quote(Vec(<<Num(1), Num(2)>>))
Refused == <<
  F("make_string", <<Chr(65), Num(1)>>), F("string_concat", <<Fresh, Num(1)>>),
  F("string_copy", <<Nil>>), F("symbol_to_string", <<Fresh>>),
  F("string_copy_to", <<Fresh, Num(1), Fresh>>), F("string_copy_to", <<Fresh, Num(-1), Str(<<>>)>>),
  F("string_copy_to", <<Str(<<115>>), Num(0), Str(<<>>)>>),
  F("string_ref", <<Fresh, Num(2)>>), F("string_ref", <<Fresh, Nil>>),
  F("string_set", <<Fresh, Num(2), Chr(65)>>), F("string_set", <<Fresh, Num(-1), Chr(65)>>),
  F("string_set", <<Fresh, Num(0), Num(65)>>), F("string_length", <<Nil>>),
  F("string_eq", <<Fresh, Nil>>), F("substring", <<Fresh, Num(1), Num(0)>>),
  F("substring", <<Fresh, Num(0), Num(3)>>), F("substring", <<Fresh, Num(-1), Num(1)>>),
  F("make_struct", <<Num(1)>>), F("alloc_struct", <<Fresh, Num(1), Num(1)>>),
  F("struct_size", <<Fresh>>), F("struct_ref", <<Twice, Num(2)>>),
  F("struct_ref", <<Twice, Num(-1)>>), F("struct_set", <<Twice, Num(0), Nil>>),
  F("struct_type", <<Nil>>), F("struct_to_list", <<Fresh>>),
  F("make_bytevector", <<Nil, Num(1)>>), F("bytevector_8_set", <<FreshBytes, Num(2), Num(1)>>),
  F("bytevector_8_set", <<FreshBytes, Num(0), Num(256)>>),
  F("bytevector_8_set", <<Fresh, Num(0), Num(1)>>)>>

\* Without a collection: what string_concat makes is not found by one.
Concatenation == Program(<<
  Def("a", F("string_concat", <<Fresh, Str(<<115>>)>>)),
  Show(F("string_concat", <<V("a"), V("a")>>)),
  Show(F("string_eq", <<F("string_copy", <<V("a")>>), V("a")>>)),
  Show(F("struct_to_list", <<Quote(Vec(<<Num(1), Num(2), Num(3)>>))>>))>>)

Sources ==
  <<Counter, Nested, Loops, Escape, Reenter, Applications, Eqs, Data, Numbers, Lists,
    Texts, Structures, Bytes>>
    \o [i \in DOMAIN Anything |-> Typed(Anything[i])]

-----------------------------------------------------------------------------
(* All programs made of these expressions inside each other.  Each has the *)
(* expression e somewhere, and x, f and z as variables; j keeps the names  *)
(* of two expressions apart.                                               *)

Name(s, j) == s \o ToString(j)

Context(i, j, e) ==
  LET y == Name("y", j)
      w == Name("w", j)
  IN  CASE i = 1 -> Plus(e, V("x"))
        [] i = 2 -> F("f", <<e>>)
        [] i = 3 -> LetIn(y, e, <<F("f", <<V(y)>>)>>)
        [] i = 4 -> LetIn(y, L(<<w>>, <<Plus(V(w), V("x"))>>), <<F(y, <<e>>)>>)
        [] i = 5 -> If(Less(e, Num(2)), V("x"), Num(5))
        [] i = 6 -> If(Less(V("x"), Num(2)), e, F("f", <<V("x")>>))
        [] i = 7 -> F("callcc", <<L(<<y>>, <<F("f", <<F(y, <<e>>)>>)>>)>>)
        [] i = 8 -> Call(L(<<>>, <<SetTo("z", e), V("z")>>), <<>>)
        [] i = 9 -> Call(Call(L(<<y>>, <<L(<<w>>, <<Plus(V(w), V(y))>>)>>), <<e>>), <<V("x")>>)
        [] i = 10 -> Car(Pair(e, Pair(V("f"), Nil)))
        [] i = 11 -> F("apply", <<V("f"), F("list", <<e>>)>>)
        [] i = 12 -> Call(L(<<>>, <<
             Def(y, L(<<w>>, <<If(Less(V(w), Num(1)), e,
                                  F(y, <<Minus(V(w), Num(1))>>))>>)),
             F(y, <<V("x")>>)>>), <<>>)

Main(e) == Program(<<
  Def("main", L(<<"x", "f", "z">>, <<e>>)),
  Show(F("main", <<Num(1), L(<<"a">>, <<Plus(V("a"), Num(1))>>), Num(0)>>))>>)


NContexts == 12

\* Every way to wrap each of the expressions once more.
Wrapped(es, j) ==
  FlattenSeq([i \in 1..NContexts |-> [k \in DOMAIN es |-> Context(i, j, es[k])]])

Combined(depth) ==
  LET es == FoldLeft(Wrapped, <<V("x")>>, [j \in 1..depth |-> j])
  IN  [k \in DOMAIN es |-> Main(es[k])]

-----------------------------------------------------------------------------

Compiled == Sources \o Combined(3)

\* A loop that allocates nothing, and programs that end by an exception.
Toggle == Program(<<
  Def("loop", L(<<"go", "n">>, <<
    If(V("go"), F("loop", <<Not(V("go")), V("n")>>), V("n")) >>)),
  Show(F("loop", <<Bool(TRUE), Num(1)>>))>>)

Ending == <<Toggle, Escape, Reenter, Concatenation>> \o Raises
            \o [i \in DOMAIN Refused |-> Handled(Refused[i])]

-----------------------------------------------------------------------------
(* Programs that go wrong.                                                 *)

\* A local function that no other function refers to.
LocalFunction == <<Program(<<
  Def("f", L(<<"x">>, <<
    Def("g", L(<<"y">>, <<Plus(V("y"), Num(1))>>)),
    F("g", <<V("x")>>)>>)),
  Show(F("f", <<Num(1)>>))>>)>>

\* A rest list of two pairs.
RestPairs == <<Program(<<
  Def("f", LRest(<<>>, "r", <<Car(V("r"))>>)),
  Show(F("f", <<Pair(Num(1), Nil), Pair(Num(2), Nil)>>))>>)>>
=============================================================================

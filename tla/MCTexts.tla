------------------------------ MODULE MCTexts -------------------------------
(***************************************************************************)
(* Programs as text, with macros, and what each is to mean: the same       *)
(* program written without them.                                           *)
(***************************************************************************)
EXTENDS VmCorrect, CoreLibraries, MCScheme

Written(text, plain) == [imports |-> FormsOfCore, text |-> text, plain |-> plain]

\* Forms of the text.
Block(body) == Listed(<<S("let"), Nil>> \o body)
Macro1(name, reserved, pattern, template) ==
  Listed(<<S("define-syntax"), S(name),
           Listed(<<S("syntax-rules"), Listed(reserved),
                    Listed(<<QPair(S("_"), Listed(pattern)), template>>)>>)>>)

NForms == 14

\* The i-th form around e.
FormText(i, e) ==
  CASE i = 1 -> Let1("y", e, <<Do("f", <<S("y")>>)>>)
    [] i = 2 -> Do("or", <<e, Num(7)>>)
    [] i = 3 -> Do("and", <<S("x"), Bool(TRUE), e>>)
    [] i = 4 -> Do("cond", <<Listed(<<Do("$<", <<S("x"), Num(1)>>), Num(5)>>),
                             Listed(<<e, S("=>"), S("f")>>), Listed(<<S("else"), S("x")>>)>>)
    [] i = 5 -> Do("cond", <<Listed(<<Do("not", <<S("x")>>), Num(5)>>), Listed(<<e>>)>>)
    [] i = 6 -> Listed(<<S("let"), S("loop"),
                         Listed(<<Listed(<<S("y"), S("x")>>), Listed(<<S("z"), e>>)>>),
                         Do("if", <<Do("$<", <<S("y"), Num(1)>>), S("z"),
                                    Do("loop", <<Do("$-", <<S("y"), Num(1)>>),
                                                 Do("f", <<S("z")>>)>>)>>)>>)
    [] i = 7 -> Listed(<<S("let*"), Listed(<<Listed(<<S("y"), e>>),
                                             Listed(<<S("y"), Do("f", <<S("y")>>)>>)>>),
                         Do("$+", <<S("y"), S("x")>>)>>)
    [] i = 8 -> Do("case", <<e, Listed(<<Listed(<<Num(0), Num(1)>>), S("x")>>),
                             Listed(<<Listed(<<Num(2)>>), Do("f", <<S("x")>>)>>),
                             Listed(<<S("else"), Num(4)>>)>>)
    [] i = 9 -> Block(<<Macro1("choose", <<S("then")>>, <<S("c"), S("then"), S("a"), S("b")>>,
                               Do("cond", <<Listed(<<S("c"), S("a")>>), Listed(<<S("else"), S("b")>>)>>)),
                        Do("choose", <<Do("$<", <<S("x"), e>>), S("then"), Do("f", <<S("x")>>), Num(5)>>)>>)
    [] i = 10 -> Listed(<<Fun(<<"y", "z">>, <<
                            Macro1("swap!", <<>>, <<S("a"), S("b")>>,
                              Let1("tmp", S("a"), <<Do("set!", <<S("a"), S("b")>>),
                                                    Do("set!", <<S("b"), S("tmp")>>)>>)),
                            Do("swap!", <<S("y"), S("z")>>), Do("$-", <<S("y"), S("z")>>)>>),
                          e, S("x")>>)
    [] i = 11 -> Block(<<DefineRest(<<"g", "y">>, "r", <<
                           Do("if", <<Do("null?", <<S("r")>>), Do("g", <<S("y"), S("y")>>),
                                      Do("$+", <<Do("car", <<S("r")>>), e>>)>>)>>),
                         Do("g", <<S("x")>>)>>)
    [] i = 12 -> Do("car", <<Do("apply", <<S("cons"), Do("list", <<e, S("x")>>)>>)>>)
    [] i = 13 -> Listed(<<Fun(<<"y">>, <<
                            Do("when", <<Do("$<", <<S("y"), Num(3)>>), Do("display", <<S("y")>>)>>),
                            Do("unless", <<Do("eq?", <<S("y"), Num(2)>>), Do("display", <<S("x")>>),
                                           Do("display", <<Num(0)>>)>>),
                            Do("set!", <<S("y"), Do("f", <<S("y")>>)>>), S("y")>>), e>>)
    [] i = 14 -> Let1("g", Listed(<<S("lambda"), Dotted(<<S("y")>>, S("r")),
                                    Do("if", <<Num(0), Do("car", <<S("r")>>)>>)>>),
                      <<Do("g", <<S("x"), e>>)>>)

\* The same without macros.  A name with a mark of its own is no variable of e.
FormPlain(i, e) ==
  CASE i = 1 -> LetIn("y", e, <<F("f", <<V("y")>>)>>)
    [] i = 2 -> LetIn("or.t", e, <<If(V("or.t"), V("or.t"), Num(7))>>)
    [] i = 3 -> If(V("x"), e, Bool(FALSE))
    [] i = 4 -> If(Less(V("x"), Num(1)), Num(5),
                   LetIn("cond.t", e, <<If(V("cond.t"), F("f", <<V("cond.t")>>), V("x"))>>))
    [] i = 5 -> If(V("x"), e, Num(5))
    [] i = 6 -> Call(L(<<>>, <<
                  Def("loop", L(<<"y", "z">>, <<
                    If(Less(V("y"), Num(1)), V("z"),
                       F("loop", <<Minus(V("y"), Num(1)), F("f", <<V("z")>>)>>))>>)),
                  F("loop", <<V("x"), e>>)>>), <<>>)
    [] i = 7 -> LetIn("y", e, <<LetIn("z", F("f", <<V("y")>>), <<Plus(V("z"), V("x"))>>)>>)
    [] i = 8 -> LetIn("case.t", e, <<
                  If(Less(V("case.t"), Num(2)), If(Less(Num(-1), V("case.t")), V("x"), Num(4)),
                     If(IsEq(V("case.t"), Num(2)), F("f", <<V("x")>>), Num(4)))>>)
    [] i = 9 -> If(Less(V("x"), e), F("f", <<V("x")>>), Num(5))
    [] i = 10 -> Minus(V("x"), e)
    [] i = 11 -> Plus(V("x"), e)
    [] i = 12 -> e
    [] i = 13 -> LetIn("y", e, <<
                   If(Less(V("y"), Num(3)), Show(V("y")), Num(0)),
                   If(IsEq(V("y"), Num(2)), Num(0), Call(L(<<>>, <<Show(V("x")), Show(Num(0))>>), <<>>)),
                   F("f", <<V("y")>>)>>)
    [] i = 14 -> e

MainText(e) == <<
  DefineFun(<<"memv", "v", "l">>, <<
    Do("if", <<Do("null?", <<S("l")>>), Bool(FALSE),
               Do("or", <<Do("eq?", <<S("v"), Do("car", <<S("l")>>)>>),
                          Do("memv", <<S("v"), Do("cdr", <<S("l")>>)>>)>>)>>)>>),
  DefineFun(<<"main", "x", "f">>, <<e>>),
  Do("display", <<Do("main", <<Num(1), Fun(<<"a">>, <<Do("$+", <<S("a"), Num(1)>>)>>)>>)>>)>>

MainPlain(e) == Program(<<
  Def("main", L(<<"x", "f">>, <<e>>)),
  Show(F("main", <<Num(1), L(<<"a">>, <<Plus(V("a"), Num(1))>>)>>))>>)

\* Every form in every other.
Combined2 ==
  [j \in 1 .. NForms * NForms |->
     LET outer == ((j - 1) \div NForms) + 1
         inner == ((j - 1) % NForms) + 1
     IN  Written(MainText(FormText(outer, FormText(inner, S("x")))),
                 MainPlain(FormPlain(outer, FormPlain(inner, V("x")))))]

\* Definitions and expressions within begin.
Spliced == Written(
  <<Do("begin", <<DefineVar("a", Num(1)), Do("display", <<S("a")>>),
                  Do("begin", <<DefineFun(<<"b">>, <<Do("cons", <<S("a"), S("a")>>)>>)>>)>>),
    Do("display", <<Do("b", <<>>)>>), Do("define", <<S("c")>>), Do("set!", <<S("c"), Num(2)>>),
    Do("display", <<S("c")>>)>>,
  Program(<<Show(Num(1)), Show(Pair(Num(1), Num(1))), Show(Num(2))>>))

\* Variables with the name of a macro, of a form and of each other.
Shadowed == Written(
  <<Do("display", <<
      Listed(<<Fun(<<"x", "when">>, <<
                 Let1("quote", Do("when", <<S("x")>>), <<
                   Let1("x", Do("$+", <<S("x"), S("x")>>), <<
                     Do("quote", <<Do("when", <<S("x")>>)>>)>>)>>)>>),
               Num(3),
               Fun(<<"x">>, <<Let1("y", S("x"), <<Fun(<<"x">>, <<Do("cons", <<S("x"), S("y")>>)>>)>>)>>)>>)>>)>>,
  Program(<<
    Def("k", L(<<"a">>, <<L(<<"b">>, <<Pair(V("b"), V("a"))>>)>>)),
    Show(Call(F("k", <<Num(3)>>), <<F("k", <<Num(6)>>)>>))>>))

\* Macros made of macros, one of which is used by one before it.
Layered == Written(
  <<Macro1("either", <<>>, <<S("a"), S("b")>>, Do("or", <<Do("both", <<S("a"), S("b")>>), S("b")>>)),
    Macro1("both", <<>>, <<S("a"), S("b")>>, Do("and", <<S("a"), S("b")>>)),
    Do("display", <<Fun(<<"b", "a">>, <<Do("either", <<S("b"), S("a")>>)>>)>>),
    Do("display", <<Listed(<<Fun(<<"b", "a">>, <<Do("either", <<S("b"), S("a")>>)>>),
                             Bool(FALSE), Num(8)>>)>>),
    Do("display", <<Let1("tmp", Num(4), <<Do("either", <<Bool(FALSE), S("tmp")>>)>>)>>)>>,
  Program(<<Show(L(<<>>, <<Num(0)>>)), Show(Num(8)), Show(Num(4))>>))

-----------------------------------------------------------------------------
(* Programs that import the core libraries.                                *)

Importing(lib, text, plain) == [imports |-> lib.macros, text |-> lib.forms \o text, plain |-> plain]
WithExceptions == [macros |-> FormsOfCore, forms |-> CoreExceptions]
WithLists == [macros |-> FormsOfCore, forms |-> CoreExceptions \o CoreLists]
WithVectors == [macros |-> FormsOfCore, forms |-> CoreExceptions \o CoreLists \o CoreVectors]
WithArithmetic == [macros |-> FormsOfCore \o FormsOfArithmetic,
                forms |-> CoreExceptions \o CoreLists \o CoreArithmetic]
WithStrings == [WithArithmetic EXCEPT !.forms = @ \o CoreStrings]

Shows(es) == [i \in DOMAIN es |-> Do("display", <<es[i]>>)]
Showing(es) == [i \in DOMAIN es |-> Show(es[i])]
Handling(handler, body) ==
  Do("with-exception-handler", <<Fun(<<"e">>, handler), Fun(<<>>, body)>>)
Signal(how, x) == Do(how, <<x>>)

\* What the default exception handler shows.
Unhandled(shown) == Showing(<<Str(<<85>>), shown, Str(<<10>>)>>)

Exceptional == <<
  Importing(WithExceptions, <<
      Do("display", <<Handling(<<Form(<<"display", "e">>), Num(5)>>, <<Signal("raise-continuable", Num(3))>>)>>),
      Signal("raise", Num(9)), Do("display", <<Num(2)>>)>>,
    Program(Showing(<<Num(3), Num(5)>>) \o Unhandled(Num(9)))),
  Importing(WithExceptions, <<
      Handling(<<Do("display", <<Num(1)>>)>>,
               <<Handling(<<Form(<<"display", "e">>), Signal("raise", Num(7))>>, <<Signal("raise", Num(6))>>)>>),
      Do("display", <<Num(2)>>)>>,
    Program(Showing(<<Num(6), Num(1)>>))),
  Importing(WithExceptions, <<
      Handling(<<Do("display", <<Num(1)>>), Do("car", <<S("e")>>)>>, <<Do("cdr", <<Num(4)>>)>>)>>,
    Program(Showing(<<Num(1)>>) \o Unhandled(Str(Message)))),
  Importing(WithExceptions, <<
      Handling(<<Do("$+", <<S("e"), Num(10)>>)>>,
               <<Handling(<<Do("$+", <<Signal("raise-continuable", S("e")), Num(1)>>)>>,
                          Shows(<<Signal("raise-continuable", Num(1)), Signal("raise-continuable", Num(2))>>)),
                 Do("display", <<Signal("raise-continuable", Num(3))>>)>>)>>,
    Program(Showing(<<Num(12), Num(13), Num(13)>>))),
  Importing(WithExceptions, <<
      Assertion(Do("eq?", <<Num(1), Num(1)>>)), Do("display", <<Num(1)>>),
      Assertion(Do("eq?", <<Num(1), Num(2)>>))>>,
    Program(<<Show(Num(1))>> \o
            Unhandled(Quote(Listed(<<Str(<<65>>), Listed(<<Sym(<<"eq?">>), Num(1), Num(2)>>)>>))))),
  Importing(WithExceptions, <<
      Handling(<<Form(<<"display", "e">>)>>,
               <<Do("error", <<Quoted(S("a")), Str(<<109>>), Num(1), Num(2)>>)>>)>>,
    Program(<<Show(Quote(Listed(<<Sym(<<"a">>), Str(<<109>>), Listed(<<Num(1), Num(2)>>)>>)))>>))>>

Numbered(ns) == Listed([i \in DOMAIN ns |-> Num(ns[i])])
List1(ns) == Quoted(Numbered(ns))
Shown1(ns) == Quote(Numbered(ns))
Sequential == <<
  Importing(WithLists,
    Shows(<<Do("map", <<Fun(<<"x">>, <<Do("$+", <<S("x"), Num(1)>>)>>), List1(<<1, 2>>)>>),
            Do("map", <<S("cons"), List1(<<1, 2>>), List1(<<3, 4>>)>>),
            Do("map", <<S("car"), Quoted(Nil)>>)>>),
    Program(Showing(<<Shown1(<<2, 3>>),
                      Quote(Listed(<<QPair(Num(1), Num(3)), QPair(Num(2), Num(4))>>)), Nil>>))),
  Importing(WithLists,
    Shows(<<Do("for-each", <<S("display"), List1(<<1, 2>>)>>),
            Do("for-each", <<Fun(<<"a", "b">>, <<Do("display", <<Do("$-", <<S("a"), S("b")>>)>>)>>),
                             List1(<<5, 7>>), List1(<<1, 2>>)>>)>>)
      \o <<Do("map", <<Num(1), Quoted(Nil)>>)>>,
    Program(Showing(<<Num(1), Num(2), F("void", <<>>), Num(4), Num(5), F("void", <<>>)>>)
            \o Unhandled(Quote(Listed(<<Str(<<65>>),
                                        Listed(<<Sym(<<"procedure?">>), Sym(<<"proc">>)>>)>>))))),
  Importing(WithLists,
    Shows(<<Do("fold-left", <<S("list"), Num(0), List1(<<1, 2>>)>>),
            Do("fold-left", <<S("list"), Num(0), List1(<<1, 2>>), List1(<<3, 4>>)>>),
            Do("fold-right", <<S("list"), Num(0), List1(<<1, 2>>)>>),
            Do("fold-right", <<S("list"), Num(0), List1(<<1, 2>>), List1(<<3, 4>>)>>)>>),
    Program(Showing(<<
      Quote(Listed(<<Numbered(<<0, 1>>), Num(2)>>)),
      Quote(Listed(<<Numbered(<<0, 1, 3>>), Num(2), Num(4)>>)),
      Quote(Listed(<<Num(1), Numbered(<<2, 0>>)>>)),
      Quote(Listed(<<Num(1), Num(3), Numbered(<<2, 4, 0>>)>>))>>))),
  Importing(WithLists,
    Shows(<<Do("append", <<>>), Do("append", <<List1(<<1>>)>>),
            Do("append", <<List1(<<1, 2>>), Quoted(Nil), List1(<<3>>), Num(4)>>),
            Do("reverse", <<List1(<<1, 2, 3>>)>>),
            Do("memq", <<Quoted(S("b")), Quoted(Form(<<"a", "b", "c">>))>>),
            Do("memv", <<Num(1), Quoted(Nil)>>),
            Do("assq", <<Num(2), Quoted(Listed(<<Numbered(<<1, 3>>), Numbered(<<2, 4>>)>>))>>),
            Do("assp", <<Fun(<<"x">>, <<Do("$<", <<S("x"), Num(2)>>)>>),
                         Quoted(Listed(<<Numbered(<<2, 3>>), Numbered(<<1, 4>>)>>))>>)>>),
    Program(Showing(<<
      Nil, Shown1(<<1>>), Quote(Dotted(<<Num(1), Num(2), Num(3)>>, Num(4))), Shown1(<<3, 2, 1>>),
      Quote(Listed(<<Sym(<<"b">>), Sym(<<"c">>)>>)), Bool(FALSE), Shown1(<<2, 4>>), Shown1(<<1, 4>>)>>))),
  Importing(WithVectors,
    <<DefineVar("v", Do("vector", <<Num(1), Num(2)>>)),
      Do("vector-set!", <<S("v"), Num(0), Do("make-list", <<Num(2)>>)>>)>>
      \o Shows(<<S("v"), Do("vector-map", <<Fun(<<"x">>, <<Do("pair?", <<S("x")>>)>>), S("v")>>),
                 Do("vector->list", <<Do("make-vector", <<Num(1), Num(7)>>)>>),
                 Do("vector-for-each", <<S("display"), Quoted(Vec(<<Num(1), Num(2)>>))>>),
                 Do("string-for-each", <<S("display"), Str(<<97, 98>>)>>),
                 Do("vector-length", <<Do("vector-ref", <<S("v"), Num(0)>>)>>)>>),
    Program(Showing(<<
      Quote(Vec(<<Listed(<<Bool(FALSE), Bool(FALSE)>>), Num(2)>>)),
      Quote(Vec(<<Bool(TRUE), Bool(FALSE)>>)), Shown1(<<7>>), Num(1), Num(2), F("void", <<>>),
      Chr(97), Chr(98), F("void", <<>>)>>)
      \o Unhandled(Quote(Listed(<<Str(<<65>>), Listed(<<Sym(<<"vector?">>), Sym(<<"obj">>)>>)>>)))))>>

Arithmetical == <<
  Importing(WithArithmetic,
    Shows(<<Do("+", <<>>), Do("+", <<Num(4)>>), Do("+", <<Num(1), Num(2), Num(3), Num(4)>>),
            Do("*", <<Num(2), Num(3), Num(4)>>), Do("-", <<Num(3)>>), Do("-", <<Num(9), Num(2), Num(1)>>),
            Do("/", <<Num(12), Num(2), Num(2)>>), Do("mod", <<Num(7), Num(4)>>),
            Do("<", <<Num(2), Num(1), Num(3)>>), Do("=", <<Num(1), Num(1)>>), Do(">", <<Num(1)>>),
            Do("map", <<S("+"), List1(<<1, 2>>), List1(<<3, 4>>)>>),
            Do("apply", <<S("*"), List1(<<2, 3, 4>>)>>),
            Do("apply", <<S("<"), List1(<<1, 2, 2>>)>>), Do("apply", <<S("<"), List1(<<1, 2, 3>>)>>)>>),
    Program(Showing(<<
      Num(0), Num(4), Num(10), Num(24), Num(-3), Num(6), Num(3), Num(3), Bool(FALSE), Bool(TRUE),
      Bool(TRUE), Shown1(<<4, 6>>), Num(24), Bool(FALSE), Bool(TRUE)>>))),
  \* fxnot of another number than -1, -9 and so on is no fixnum.
  Importing(WithArithmetic,
    Shows(<<Do("fxand", <<>>), Do("fxand", <<Num(13), Num(7), Num(-2)>>), Do("fxior", <<Num(9), Num(3)>>),
            Do("fxxor", <<Num(13), Num(7)>>), Do("fxxor", <<Num(-6), Num(11)>>),
            Do("fxnot", <<Num(-1)>>), Do("apply", <<S("fxand"), List1(<<14, 7>>)>>),
            Do("map", <<Fun(<<"a">>, <<Do("fxior", <<S("a"), Num(-4)>>)>>), List1(<<1, -3>>)>>)>>),
    Program(Showing(<<
      Num(-1), Op("$and", <<Num(13), Op("$and", <<Num(7), Num(-2)>>)>>), Op("$ior", <<Num(9), Num(3)>>),
      Op("$xor", <<Num(13), Num(7)>>), Op("$xor", <<Num(-6), Num(11)>>), Op("$not", <<Num(-1)>>),
      Op("$and", <<Num(14), Num(7)>>),
      Op("$cons", <<Op("$ior", <<Num(1), Num(-4)>>),
                     Op("$cons", <<Op("$ior", <<Num(-3), Num(-4)>>), Nil>>)>>)>>)))>>

\* The longest parts of a text without a space.
Cuts(s) == {i \in DOMAIN s : s[i] = 32} \cup {0, Len(s) + 1}
Parts(s) ==
  LET starts == {i \in Cuts(s) : i + 1 \in DOMAIN s /\ s[i + 1] # 32}
      End(i) == Min({j \in Cuts(s) : j > i})
  IN  [n \in 1 .. Cardinality(starts) |->
         LET i == CHOOSE k \in starts : Cardinality({j \in starts : j < k}) = n - 1
         IN  SubSeq(s, i + 1, End(i) - 1)]
Spaced ==
  FlattenSeq([n \in 1..4 |-> [k \in 1 .. 2 ^ n |->
    [i \in 1..n |-> IF ((k - 1) \div 2 ^ (i - 1)) % 2 = 0 THEN 97 ELSE 32]]])

Textual == <<
  Importing(WithStrings,
    Shows(<<Do("list->string", <<Quoted(Listed(<<Chr(97), Chr(98)>>))>>), Do("string", <<>>),
            Do("string->list", <<Str(<<97, 98>>)>>),
            Do("string-append", <<Str(<<97>>), Str(<<>>), Str(<<98, 99>>)>>)>>),
    Program(Showing(<<Str(<<97, 98>>), Str(<<>>), Quote(Listed(<<Chr(97), Chr(98)>>)),
                      Str(<<97, 98, 99>>)>>))),
  Importing(WithStrings,
    <<Do("for-each", <<Fun(<<"s">>, <<
          Do("display", <<Do("string-split", <<S("s"), Quoted(Listed(<<Chr(32)>>))>>)>>)>>),
        Quoted(Listed([i \in DOMAIN Spaced |-> Str(Spaced[i])]))>>)>>,
    Program(Showing([i \in DOMAIN Spaced |->
      LET parts == [n \in DOMAIN Parts(Spaced[i]) |-> Str(Parts(Spaced[i])[n])]
      IN  IF parts = <<>> THEN Nil ELSE Quote(Listed(parts))])))>>

OnLibraries == Exceptional \o Sequential \o Arithmetical \o Textual

AllTexts == Combined2 \o <<Spliced, Shadowed, Layered>> \o OnLibraries
NoFiles == <<>>
=============================================================================

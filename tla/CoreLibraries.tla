--------------------------- MODULE CoreLibraries ----------------------------
(***************************************************************************)
(* The libraries core.exceptions, core.sequence, core.arithmetic and       *)
(* core.strings of src/scheme, as the text of programs.  A program that    *)
(* imports one is modelled by a program that has its forms at the front.   *)
(*                                                                         *)
(* A native has the name that Scheme.tla gives it, and a text for display  *)
(* is one letter long.                                                     *)
(***************************************************************************)
EXTENDS Expander

-----------------------------------------------------------------------------
(* Forms of the text; a sequence of strings stands for names.              *)

NamesOf(strings) == [i \in DOMAIN strings |-> S(strings[i])]
Form(strings) == Listed(NamesOf(strings))
Do(f, args) == Listed(<<S(f)>> \o args)
Quoted(x) == Do("quote", <<x>>)
Fun(args, body) == Listed(<<S("lambda"), Form(args)>> \o body)
BindTo(s, e) == Listed(<<Listed(<<S(s), e>>)>>)
Let1(s, e, body) == Listed(<<S("let"), BindTo(s, e)>> \o body)
Loop(vars, vals, body) ==
  Listed(<<S("let"), S("loop"), Listed([i \in DOMAIN vars |-> Listed(<<S(vars[i]), vals[i]>>)])>>
           \o body)
DefineVar(s, e) == Do("define", <<S(s), e>>)
DefineFun(head, body) == Listed(<<S("define"), Form(head)>> \o body)
DefineRest(head, rest, body) == Listed(<<S("define"), Dotted(NamesOf(head), S(rest))>> \o body)
Cond(clauses) == Listed(<<S("cond")>> \o [i \in DOMAIN clauses |-> Listed(clauses[i])])
Assertion(e) == Do("assert", <<e>>)

\* make-exporter: a library ends with a list of what it defines.
Exporting(strings) == Form(<<"list">> \o strings)

-----------------------------------------------------------------------------
(* core.exceptions: handlers are a list, the first of which is called.     *)

DefaultException ==
  DefineFun(<<"default-exception", "obj">>,
            <<Do("display", <<Str(<<85>>)>>), Form(<<"display", "obj">>),
              Do("display", <<Str(<<10>>)>>), Form(<<"__exit">>)>>)

WithExceptionHandler ==
  DefineFun(<<"with-exception-handler", "new", "thunk">>, <<
    Let1("parent", Form(<<"handlers">>), <<
      Do("handlers", <<Form(<<"cons", "new", "parent">>)>>),
      Let1("res", Form(<<"thunk">>), <<Form(<<"handlers", "parent">>), S("res")>>)>>)>>)

\* The handler is called without itself.
RaiseText ==
  DefineFun(<<"raise", "x">>, <<
    Let1("hs", Form(<<"handlers">>), <<
      Do("handlers", <<Form(<<"cdr", "hs">>)>>),
      Listed(<<Form(<<"car", "hs">>), S("x")>>), Form(<<"__exit">>)>>)>>)

RaiseContinuable ==
  DefineFun(<<"raise-continuable", "x">>, <<
    Let1("hs", Form(<<"handlers">>), <<
      Do("handlers", <<Form(<<"cdr", "hs">>)>>),
      Let1("res", Listed(<<Form(<<"car", "hs">>), S("x")>>), <<
        Form(<<"handlers", "hs">>), S("res")>>)>>)>>)

ErrorText ==
  DefineRest(<<"error", "who", "msg">>, "irritants",
             <<Do("raise", <<Form(<<"list", "who", "msg", "irritants">>)>>)>>)

MacroAssert ==
  Listed(<<S("define-syntax"), S("assert"),
           Listed(<<S("syntax-rules"), Nil,
                    Listed(<<Form(<<"_", "expr">>),
                             Do("if", <<Form(<<"not", "expr">>),
                                        Do("raise", <<Quoted(Listed(<<Str(<<65>>), S("expr")>>))>>)>>)>>)>>)>>)

CoreExceptions == <<
  DefaultException,
  Do("handlers", <<Do("cons", <<S("default-exception"), Form(<<"handlers">>)>>)>>),
  WithExceptionHandler, RaiseText, RaiseContinuable, MacroAssert, ErrorText,
  DefineVar("assertion-violation", S("error")),
  Exporting(<<"with-exception-handler", "raise", "raise-continuable", "error",
              "assertion-violation">>)>>

-----------------------------------------------------------------------------
(* core.sequence                                                           *)

CarLst == Form(<<"car", "lst">>)
CdrLst == Form(<<"cdr", "lst">>)
MapCar == Form(<<"map", "car", "lst">>)
MapCdr == Form(<<"map", "cdr", "lst">>)

\* One list, or a list of lists whose first one tells where to stop.
UnlessNull(done, e) == Do("if", <<Form(<<"null?", "lst">>), done, e>>)
UnlessFirstNull(done, e) == Do("if", <<Do("null?", <<CarLst>>), done, e>>)
OneOrMore(one, more, init) == <<
  Assertion(Form(<<"procedure?", "proc">>)),
  Do("if", <<Form(<<"null?", "lst2">>), Form(<<one>> \o init \o <<"lst1">>),
             Listed(NamesOf(<<more>> \o init) \o <<Form(<<"cons", "lst1", "lst2">>)>>)>>)>>

ForEach == DefineRest(<<"for-each", "proc", "lst1">>, "lst2", <<
  DefineFun(<<"for-each-1", "lst">>, <<
    UnlessNull(Form(<<"void">>),
      Do("begin", <<Do("proc", <<CarLst>>), Do("for-each-1", <<CdrLst>>)>>))>>),
  DefineFun(<<"for-each-n", "lst">>, <<
    UnlessFirstNull(Form(<<"void">>),
      Do("begin", <<Do("apply", <<S("proc"), MapCar>>), Do("for-each-n", <<MapCdr>>)>>))>>)>>
  \o OneOrMore("for-each-1", "for-each-n", <<>>))

MapText == DefineRest(<<"map", "proc", "lst1">>, "lst2", <<
  DefineFun(<<"map-1", "lst">>, <<
    UnlessNull(Quoted(Nil),
      Do("begin", <<Do("cons", <<Do("proc", <<CarLst>>), Do("map-1", <<CdrLst>>)>>)>>))>>),
  DefineFun(<<"map-n", "lst">>, <<
    UnlessFirstNull(Quoted(Nil),
      Do("cons", <<Do("apply", <<S("proc"), MapCar>>), Do("map-n", <<MapCdr>>)>>))>>)>>
  \o OneOrMore("map-1", "map-n", <<>>))

FoldLeftText == DefineRest(<<"fold-left", "proc", "init", "lst1">>, "lst2", <<
  DefineFun(<<"fold-left-1", "res", "lst">>, <<
    UnlessNull(S("res"), Do("fold-left-1", <<Do("proc", <<S("res"), CarLst>>), CdrLst>>))>>),
  DefineFun(<<"fold-left-n", "res", "lst">>, <<
    UnlessFirstNull(S("res"),
      Do("fold-left-n", <<Do("apply", <<S("proc"), Do("cons", <<S("res"), MapCar>>)>>), MapCdr>>))>>)>>
  \o OneOrMore("fold-left-1", "fold-left-n", <<"init">>))

FoldRightText == DefineRest(<<"fold-right", "proc", "init", "lst1">>, "lst2", <<
  DefineFun(<<"fold-right-1", "lst">>, <<
    UnlessNull(S("init"), Do("proc", <<CarLst, Do("fold-right-1", <<CdrLst>>)>>))>>),
  DefineFun(<<"fold-right-n", "lst">>, <<
    UnlessFirstNull(S("init"),
      Do("apply", <<S("proc"),
           Do("append", <<MapCar, Do("list", <<Do("fold-right-n", <<MapCdr>>)>>)>>)>>))>>)>>
  \o OneOrMore("fold-right-1", "fold-right-n", <<>>))

ReverseText == DefineFun(<<"reverse", "lst">>, <<
  Do("fold-left", <<Fun(<<"x", "y">>, <<Form(<<"cons", "y", "x">>)>>), Quoted(Nil), S("lst")>>)>>)

Append2 == DefineFun(<<"append2", "b", "a">>, <<Form(<<"fold-right", "cons", "b", "a">>)>>)
AppendText == DefineRest(<<"append">>, "args", <<
  Do("if", <<Form(<<"null?", "args">>), Quoted(Nil),
       Let1("rev", Form(<<"reverse", "args">>), <<
         Do("fold-left", <<S("append2"), Form(<<"car", "rev">>), Form(<<"cdr", "rev">>)>>)>>)>>)>>)

MemqText == DefineFun(<<"memq", "val", "lst">>, <<
  Cond(<< <<Form(<<"null?", "lst">>), Bool(FALSE)>>,
          <<Do("eq?", <<CarLst, S("val")>>), S("lst")>>,
          <<S("else"), Do("memq", <<S("val"), CdrLst>>)>> >>)>>)

\* assp and assq, which differ in what they ask of the first of a pair.
Ass(name, key, test) == DefineFun(<<name, key, "alist">>, <<
  Cond(<< <<Form(<<"null?", "alist">>), Bool(FALSE)>>,
          <<test, Form(<<"car", "alist">>)>>,
          <<S("else"), Do(name, <<S(key), Form(<<"cdr", "alist">>)>>)>> >>)>>)
Caar == DefineFun(<<"caar", "x">>, <<Do("car", <<Form(<<"car", "x">>)>>)>>)
AsspText == Ass("assp", "proc", Do("proc", <<Form(<<"caar", "alist">>)>>))
AssqText == Ass("assq", "obj", Do("eq?", <<Form(<<"caar", "alist">>), S("obj")>>))

CoreLists == <<ForEach, MapText, FoldLeftText, FoldRightText, ReverseText, Append2, AppendText,
               MemqText, DefineVar("memv", S("memq")), Caar, AsspText, AssqText,
               Exporting(<<"for-each", "map", "fold-left", "fold-right", "reverse", "append",
                           "caar", "memq", "memv", "assq", "assp">>)>>

\* A vector is a structure of type vector.
TypeVector == Quoted(Sym(VectorName))
OnVector(head, native) ==
  DefineFun(head, <<Assertion(Form(<<"vector?", "obj">>)), Form(<<native>> \o Tail(head))>>)
OrElse(args, default) ==
  Do("if", <<Form(<<"null?", args>>), default, Form(<<"car", args>>)>>)

CoreVectors == <<
  DefineRest(<<"make-list", "count">>, "args",
    <<Do("make_list", <<S("count"), OrElse("args", Bool(FALSE))>>)>>),
  DefineRest(<<"vector">>, "args",
    <<Do("apply", <<S("make_struct"), Do("cons", <<TypeVector, S("args")>>)>>)>>),
  DefineFun(<<"vector?", "obj">>, <<
    Do("and", <<Form(<<"struct?", "obj">>),
                Do("eq?", <<Form(<<"struct_type", "obj">>), TypeVector>>)>>)>>),
  OnVector(<<"vector-length", "obj">>, "struct_size"),
  OnVector(<<"vector-ref", "obj", "idx">>, "struct_ref"),
  OnVector(<<"vector-set!", "obj", "idx", "val">>, "struct_set"),
  DefineRest(<<"make-vector", "size">>, "args", <<
    Do("alloc_struct", <<TypeVector, S("size"), OrElse("args", Form(<<"void">>))>>)>>),
  OnVector(<<"vector->list", "obj">>, "struct_to_list"),
  DefineFun(<<"vec-for-each-1", "ref", "len", "proc", "vec">>, <<
    Loop(<<"n">>, <<Num(0)>>, <<
      Do("if", <<Do("$=", <<S("n"), Form(<<"len", "vec">>)>>), Form(<<"void">>),
           Do("begin", <<Do("proc", <<Form(<<"ref", "vec", "n">>)>>),
                         Do("loop", <<Do("$+", <<Num(1), S("n")>>)>>)>>)>>)>>)>>),
  DefineFun(<<"vector-for-each-1", "proc", "vec">>, <<
    Assertion(Form(<<"vector?", "vec">>)),
    Form(<<"vec-for-each-1", "struct_ref", "struct_size", "proc", "vec">>)>>),
  DefineVar("vector-for-each", S("vector-for-each-1")),
  DefineFun(<<"vector-map-1", "proc", "vec">>, <<
    Let1("res", Do("make-vector", <<Form(<<"vector-length", "vec">>)>>), <<
      Loop(<<"n">>, <<Num(0)>>, <<
        Do("if", <<Do("$=", <<S("n"), Form(<<"struct_size", "vec">>)>>), S("res"),
             Do("begin", <<
               Do("struct_set", <<S("res"), S("n"),
                                  Do("proc", <<Form(<<"struct_ref", "vec", "n">>)>>)>>),
               Do("loop", <<Do("$+", <<Num(1), S("n")>>)>>)>>)>>)>>)>>)>>),
  DefineVar("vector-map", S("vector-map-1")),
  DefineFun(<<"string-for-each-1", "proc", "vec">>, <<
    Form(<<"vec-for-each-1", "string_ref", "string_length", "proc", "vec">>)>>),
  DefineVar("string-for-each", S("string-for-each-1")),
  Exporting(<<"make-list", "vector", "vector?", "make-vector", "vector-ref", "vector-set!",
              "vector->list", "vector-for-each", "vector-map", "string-for-each">>)>>

-----------------------------------------------------------------------------
(* core.arithmetic: operators of any number of arguments, as macros around *)
(* those of the VM, and as values.                                         *)

AB == <<S("a"), S("b")>>
OpAB(op) == Do(op, AB)

\* op, in a procedure that make makes of it.
AsProcedure(make, init, op) ==
  Rule(S("id"), S("id"), Do(make, init \o <<Fun(<<"x", "y">>, <<Form(<<op, "x", "y">>)>>)>>))
Operator(rules) == [k |-> "rules", reserved |-> {}, rules |-> rules]
Taking(args, template) == Rule(Listed(<<S("_")>> \o args), Nil, template)

\* More arguments than two: (mac a b c ...).
MoreOperands(template) == Rule(Listed(<<S("mac")>> \o AB \o More("c")), Nil, template)
Leftmost(op) == MoreOperands(Listed(<<S("mac"), OpAB(op)>> \o More("c")))

AddMul(op, init) == Operator(<<
  Taking(<<>>, init), Taking(<<S("a")>>, S("a")), Taking(AB, OpAB(op)), Leftmost(op),
  AsProcedure("__add/mul_proc", <<init>>, op)>>)

SubDiv(op, init) == Operator(<<
  Taking(<<S("a")>>, Do(op, <<init, S("a")>>)), Taking(AB, OpAB(op)), Leftmost(op),
  AsProcedure("__sub/div_proc", <<init>>, op)>>)

\* The second argument is not compared with the third.
CmpOp(op) == Operator(<<
  Taking(<<S("a")>>, Bool(TRUE)), Taking(AB, OpAB(op)),
  MoreOperands(Do("and", <<OpAB(op), Listed(<<S("mac")>> \o More("c"))>>)),
  AsProcedure("__cmp-proc", <<>>, op)>>)

FormsOfArithmetic == <<
  Export("+", Macro(AddMul("$+", Num(0)))), Export("*", Macro(AddMul("$*", Num(1)))),
  Export("-", Macro(SubDiv("$-", Num(0)))), Export("/", Macro(SubDiv("$/", Num(1)))),
  Export("mod", Macro(OpBinary("$%"))),
  Export("<", Macro(CmpOp("$<"))), Export(">", Macro(CmpOp("$>"))), Export("=", Macro(CmpOp("$="))),
  Export("fxand", Macro(AddMul("$and", Num(-1)))), Export("fxior", Macro(AddMul("$ior", Num(1)))),
  Export("fxxor", Macro(AddMul("$xor", Num(1)))), Export("fxnot", Macro(OpUnary("$not")))>>

CoreArithmetic == <<
  DefineFun(<<"__add/mul_proc", "init", "proc">>, <<
    Listed(<<S("lambda"), S("args"), Form(<<"fold-left", "proc", "init", "args">>)>>)>>),
  DefineFun(<<"__sub/div_proc", "init", "proc">>, <<
    Listed(<<S("lambda"), Dotted(<<S("first")>>, S("rest")),
             Do("fold-left", <<S("proc"), S("init"), Form(<<"cons", "first", "rest">>)>>)>>)>>),
  DefineFun(<<"__cmp-proc", "proc">>, <<
    Listed(<<S("lambda"), Dotted(<<S("init")>>, S("args")),
             Loop(<<"a", "arg">>, NamesOf(<<"init", "args">>), <<
               Cond(<< <<Form(<<"null?", "arg">>), Bool(TRUE)>>,
                       <<Do("proc", <<S("a"), Form(<<"car", "arg">>)>>),
                         Do("loop", <<Form(<<"car", "arg">>), Form(<<"cdr", "arg">>)>>)>>,
                       <<S("else"), Bool(FALSE)>> >>)>>)>>)>>),
  Exporting(<<"__cmp-proc", "__add/mul_proc", "__sub/div_proc">>)>>

-----------------------------------------------------------------------------
(* core.strings                                                            *)


Plus1(n) == Do("+", <<Num(1), S(n)>>)

ListToString == DefineFun(<<"list->string", "lst">>, <<
  Listed(<<S("let*"), Listed(<<Listed(<<S("slen"), Form(<<"length", "lst">>)>>),
                               Listed(<<S("sres"), Do("make_string", <<S("slen"), Chr(32)>>)>>)>>),
    Loop(<<"pos", "chars">>, <<Num(0), S("lst")>>, <<
      Do("if", <<Form(<<"null?", "chars">>), S("sres"),
           Do("begin", <<Do("string_set", <<S("sres"), S("pos"), Form(<<"car", "chars">>)>>),
                         Do("loop", <<Plus1("pos"), Form(<<"cdr", "chars">>)>>)>>)>>)>>)>>)>>)

StringText == DefineRest(<<"string">>, "args", <<Form(<<"list->string", "args">>)>>)

StringToList == DefineFun(<<"string->list", "str">>, <<
  Loop(<<"pos", "res">>, <<Do("-", <<Form(<<"string_length", "str">>), Num(1)>>), Quoted(Nil)>>, <<
    Do("if", <<Do("=", <<S("pos"), Num(0)>>),
         Do("cons", <<Form(<<"string_ref", "str", "pos">>), S("res")>>),
         Do("loop", <<Do("-", <<S("pos"), Num(1)>>),
                      Do("cons", <<Form(<<"string_ref", "str", "pos">>), S("res")>>)>>)>>)>>)>>)

SumStrings == DefineFun(<<"sum-strings", "strings">>, <<
  Do("fold-left", <<Fun(<<"len", "s">>, <<Do("+", <<S("len"), Form(<<"string_length", "s">>)>>)>>),
                    Num(0), S("strings")>>)>>)

StringAppend == DefineRest(<<"string-append">>, "args", <<
  Listed(<<S("let*"), Listed(<<Listed(<<S("tlen"), Form(<<"sum-strings", "args">>)>>),
                               Listed(<<S("res"), Do("make_string", <<S("tlen"), Chr(32)>>)>>)>>),
    Loop(<<"args", "pos">>, <<S("args"), Num(0)>>, <<
      Do("if", <<Form(<<"null?", "args">>), S("res"),
           Do("begin", <<
             Do("string_copy_to", <<S("res"), S("pos"), Form(<<"car", "args">>)>>),
             Do("loop", <<Form(<<"cdr", "args">>),
                          Do("+", <<S("pos"), Do("string_length", <<Form(<<"car", "args">>)>>)>>)>>)>>)>>)>>)>>)>>)

LastPos == Do("-", <<S("len"), Num(1)>>)
MatchPos == Form(<<"match?", "pos">>)
StringSplit == DefineFun(<<"string-split", "str", "sep">>, <<
  DefineFun(<<"match?", "n">>, <<
    Do("memq", <<Form(<<"string_ref", "str", "n">>), S("sep")>>)>>),
  Let1("len", Form(<<"string_length", "str">>), <<
    Loop(<<"last", "pos">>, <<Num(0), Num(0)>>, <<
      DefineFun(<<"ss", "l">>, <<Form(<<"substring", "str", "last", "l">>)>>),
      Cond(<<
        <<Do("=", <<S("pos"), LastPos>>),
          Do("if", <<MatchPos,
               Do("if", <<Do("=", <<LastPos, S("last")>>), Quoted(Nil),
                    Do("list", <<Do("ss", <<Do("if", <<MatchPos, LastPos, S("len")>>)>>)>>)>>),
               Do("list", <<Form(<<"ss", "len">>)>>)>>)>>,
        <<MatchPos,
          Do("if", <<Form(<<"=", "last", "pos">>),
               Do("loop", <<Plus1("last"), Plus1("pos")>>),
               Do("cons", <<Form(<<"ss", "pos">>),
                            Do("loop", <<Plus1("pos"), Plus1("pos")>>)>>)>>)>>,
        <<S("else"), Do("loop", <<S("last"), Plus1("pos")>>)>> >>)>>)>>)>>)

CoreStrings == <<ListToString, StringText, StringToList, SumStrings, StringAppend, StringSplit,
                 Exporting(<<"list->string", "string", "string->list", "string-append",
                             "string-split">>)>>
=============================================================================

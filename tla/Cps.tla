-------------------------------- MODULE Cps ---------------------------------
(***************************************************************************)
(* src/scheme/compiler/cps.scm: conversion of an expanded program to       *)
(* continuation passing style.  Every lambda gets a first argument for its *)
(* continuation; res, the code that is to go on with the value of a node   *)
(* under the given name, is <<>> when that name already is a continuation. *)
(***************************************************************************)
EXTENDS Scheme

RECURSIVE SelfEval(_)
SelfEval(x) ==
  \/ x.t \in {"var", "num", "bool", "nil", "chr", "str", "quote"}
  \/ x.t = "op" /\ \A i \in DOMAIN x.args : SelfEval(x.args[i])

Inlinable(x) == x.t = "lambda"

\* eq? on nodes: symbols, numbers and characters are eq? when they are equal,
\* two pairs or strings only when they are one.
Eq(x, i, y, j) ==
  i = j \/ (x.t = y.t /\ x.t \in {"var", "num", "bool", "chr"} /\ x = y)

RECURSIVE SpliceBegin(_)
SpliceBegin(body) ==
  IF body = <<>> THEN <<>>
  ELSE IF Head(body).t = "begin"
       THEN SpliceBegin(Head(body).body) \o SpliceBegin(Tail(body))
       ELSE <<Head(body)>> \o SpliceBegin(Tail(body))

RECURSIVE Convert(_, _, _, _), ConvertSeq(_, _, _, _), ConvertDefines(_, _, _, _)
RECURSIVE ConvertOperands(_, _, _, _, _)

Sub(path, s) == Append(path, s)
Nth(path, s, i) == path \o <<s, ToString(i)>>

\* Definitions are hoisted to an extend form and assigned in order, before
\* the expressions of the body.
ConvertBody(body, name, path) ==
  LET defines == SelectSeq(body, LAMBDA x : x.t = "define")
      exprs == SelectSeq(body, LAMBDA x : x.t # "define")
      rest == ConvertSeq(<<>>, exprs, name, path)
  IN  [ext |-> [i \in DOMAIN defines |-> defines[i].n],
       body |-> <<ConvertDefines(defines, Len(defines), rest, path)>>]

ConvertLambda(x, path) ==
  LET name == Sub(path, "k")
      converted == ConvertBody(x.body, name, path)
  IN  Lam(<<name>> \o x.args, x.rest, converted.ext, SpliceBegin(converted.body))

\* What follows an assignment of val to n.
SetBody(res, n, val, name) ==
  <<Set(n, val)>> \o IF res = <<>> THEN <<Call(Prim("void"), <<Var(name)>>)>>
                                   ELSE SpliceBegin(res)

ConvertSet(res, n, value, name, path) ==
  IF SelfEval(value) THEN Begin(SetBody(res, n, value, name))
  ELSE IF Inlinable(value)
  THEN Begin(SetBody(res, n, ConvertLambda(value, Sub(path, "v")), name))
  ELSE LET setter == Sub(path, "s")
           nv == Sub(path, "n")
       IN  Call(Lambda(<<setter>>, <<Convert(<<>>, value, setter, Sub(path, "v"))>>),
                <<Lambda(<<nv>>, SetBody(res, n, Var(nv), name))>>)

ConvertDefines(defines, i, prev, path) ==
  IF i = 0 THEN prev
  ELSE ConvertDefines(defines, i - 1,
         ConvertSet(<<prev>>, defines[i].n, defines[i].e, Nth(path, "dn", i),
                    Nth(path, "d", i)),
         path)

ConvertIf(res, x, name, path) ==
  LET predname == IF SelfEval(x.c) THEN x.c ELSE Var(Sub(path, "p"))
      lname == Sub(path, "l")
      escape == IF res = <<>> THEN name ELSE lname
      condition == If(predname, Convert(<<>>, x.a, escape, Sub(path, "t")),
                                Convert(<<>>, x.b, escape, Sub(path, "e")))
      expr == IF res = <<>> THEN condition
              ELSE Call(Lambda(<<lname>>, <<condition>>), <<Lambda(<<name>>, res)>>)
  IN  IF SelfEval(x.c) THEN expr
      ELSE Convert(<<expr>>, x.c, predname.n, Sub(path, "c"))

\* The head of a call and its arguments, or the arguments of an operation.
Operands(x) == IF x.t = "op" THEN x.args ELSE <<x.f>> \o x.args

\* The operand as it stands in the converted call.
OperandRef(x, path, i) ==
  IF SelfEval(x) THEN x
  ELSE IF Inlinable(x) THEN ConvertLambda(x, Nth(path, "a", i))
  ELSE Var(Nth(path, "an", i))

ConvertCall(res, x, name, path) ==
  LET operands == Operands(x)
      refs == [i \in DOMAIN operands |-> OperandRef(operands[i], path, i)]
      control == IF res = <<>> THEN Var(name)
                 ELSE Lambda(<<name>>, SpliceBegin(res))
      expr == IF x.t = "op" THEN Call(control, <<Op(x.o, refs)>>)
              ELSE Call(refs[1], <<control>> \o Tail(refs))
  IN  ConvertOperands(operands, Len(operands), refs, expr, path)

\* The last operand is converted first and so ends up innermost.
ConvertOperands(operands, i, refs, prev, path) ==
  IF i = 0 THEN prev
  ELSE ConvertOperands(operands, i - 1, refs,
         IF SelfEval(operands[i]) \/ Inlinable(operands[i]) THEN prev
         ELSE Convert(<<prev>>, operands[i], refs[i].n, Nth(path, "a", i)),
         path)

Convert(res, x, name, path) ==
  IF SelfEval(x) \/ Inlinable(x)
  THEN LET val == IF SelfEval(x) THEN x ELSE ConvertLambda(x, path)
       IN  IF res = <<>> THEN Call(Var(name), <<val>>)
           ELSE Call(Lambda(<<name>>, res), <<val>>)
  ELSE IF x.t = "if" THEN ConvertIf(res, x, name, path)
  ELSE IF x.t = "begin" THEN ConvertSeq(res, x.body, name, path)
  ELSE IF x.t = "set!" THEN ConvertSet(res, x.n, x.e, name, path)
  ELSE ConvertCall(res, x, name, path)

\* The expressions of a body, from the last to the first.  Of those that
\* evaluate to themselves only the one in tail position counts.
IsTail(source, i) == Eq(source[i], i, source[Len(source)], Len(source))

ConvertSeq(res, source, name, path) ==
  LET step[i \in 0..Len(source)] ==   \* after the last i expressions
        IF i = 0 THEN res
        ELSE LET n == Len(source) + 1 - i
                 x == source[n]
             IN  IF SelfEval(x)
                 THEN IF IsTail(source, n) THEN <<Call(Var(name), <<x>>)>>
                                         ELSE step[i - 1]
                 ELSE <<Convert(step[i - 1], x,
                                IF IsTail(source, n) THEN name
                                                   ELSE Nth(path, "qn", n),
                                Nth(path, "q", n))>>
  IN  step[Len(source)][1]

CpsConvert(x) == ConvertLambda(x, <<"r">>)
=============================================================================

------------------------------ MODULE Reference ------------------------------
(***************************************************************************)
(* What an expanded program means: a direct evaluator, with an explicit    *)
(* continuation, that knows nothing of CPS, environments on the stack or   *)
(* bytecode.  The compiler and the VM are checked against it.              *)
(*                                                                         *)
(* A value is a record whose field k says what it is.  A variable is a     *)
(* location of the store; env maps names to locations.  A state is in mode *)
(* "eval" (evaluate x in env), "ret" (give val to the topmost frame) or    *)
(* "done"; why says how the program ended.  A string, structure or         *)
(* bytevector that a program has made is a location of the store as well,  *)
(* so that it can be changed.                                              *)
(***************************************************************************)
EXTENDS Scheme

RNum(v) == [k |-> "num", v |-> v]
RBool(b) == [k |-> "bool", b |-> b]
RNil == [k |-> "nil"]
RVoid == [k |-> "void"]
RStr(s) == [k |-> "str", s |-> s]
RChr(c) == [k |-> "char", c |-> c]
RSym(y) == [k |-> "symbol", s |-> y]
RVec(type, items) == [k |-> "vec", type |-> type, items |-> items]
RBytes(data) == [k |-> "bytes", data |-> data]
RCell(loc) == [k |-> "cell", loc |-> loc]
REof == [k |-> "eof"]
RPair(a, d) == [k |-> "pair", car |-> a, cdr |-> d]
RClo(x, env) == [k |-> "clo", x |-> x, env |-> env]
RPrim(n) == [k |-> "prim", n |-> n]
RCont(kont) == [k |-> "cont", kont |-> kont]

IsProcedure(v) == v.k \in {"clo", "prim", "cont"}

Content(s, v) == IF v.k = "cell" THEN s.store[v.loc] ELSE v

\* What display shows of a value.
RECURSIVE Shown(_, _)
Shown(s, v) ==
  LET c == Content(s, v)
  IN  CASE IsProcedure(c) -> [k |-> "proc"]
        [] c.k = "pair" -> RPair(Shown(s, c.car), Shown(s, c.cdr))
        [] c.k = "vec" -> RVec(c.type, [i \in DOMAIN c.items |-> Shown(s, c.items[i])])
        [] OTHER -> c

\* The value of a literal.
RECURSIVE ValueOf(_)
ValueOf(d) ==
  CASE d.t = "num" -> RNum(d.v)
    [] d.t = "bool" -> RBool(d.b)
    [] d.t = "nil" -> RNil
    [] d.t = "chr" -> RChr(d.c)
    [] d.t = "str" -> RStr(d.s)
    [] d.t = "sym" -> RSym(d.y)
    [] d.t = "cons" -> RPair(ValueOf(d.car), ValueOf(d.cdr))
    [] d.t = "vec" -> RVec(VectorName, [i \in DOMAIN d.items |-> ValueOf(d.items[i])])

RECURSIVE IsList(_)
IsList(v) == v.k = "nil" \/ (v.k = "pair" /\ IsList(v.cdr))

ListOf(vals) == FoldRight(LAMBDA v, rest : RPair(v, rest), vals, RNil)

RECURSIVE ElementsOf(_)
ElementsOf(l) == IF l.k = "pair" THEN <<l.car>> \o ElementsOf(l.cdr) ELSE <<>>

Return(s, v) == [s EXCEPT !.mode = "ret", !.val = v]
Done(s, why) == [s EXCEPT !.mode = "done", !.why = why]
PushFrame(s, fr) == [s EXCEPT !.kont = <<fr>> \o @]
EvalIn(s, x, env) == [s EXCEPT !.mode = "eval", !.x = x, !.env = env]

\* Evaluate the forms of a body in order; the last one is in tail position.
EvalSeq(s, forms, env) ==
  EvalIn(IF Len(forms) = 1 THEN s
         ELSE PushFrame(s, [fr |-> "seq", forms |-> Tail(forms), env |-> env]),
         Head(forms), env)

\* A body: its definitions first, in order, then its expressions.
BodyForms(body) ==
  SelectSeq(body, LAMBDA x : x.t = "define") \o SelectSeq(body, LAMBDA x : x.t # "define")

Enter(s, clo, args) ==
  LET x == clo.x
      n == Len(x.args)
      forms == BodyForms(x.body)
      defs == SelectSeq(x.body, LAMBDA y : y.t = "define")
      names == x.args \o x.rest \o [i \in DOMAIN defs |-> defs[i].n]
      vals == SubSeq(args, 1, n)
                \o (IF x.rest = <<>> THEN <<>> ELSE <<ListOf(SubSeq(args, n + 1, Len(args)))>>)
                \o [i \in DOMAIN defs |-> RNum(0)]
      base == Len(s.store)
      env == [nm \in {names[i] : i \in DOMAIN names} |->
                base + CHOOSE i \in DOMAIN names : names[i] = nm] @@ clo.env
  IN  EvalSeq([s EXCEPT !.store = @ \o vals], forms, env)

AcceptsArgs(x, args) ==
  IF x.rest = <<>> THEN Len(args) = Len(x.args) ELSE Len(args) >= Len(x.args)

Make(s, content) ==
  Return([s EXCEPT !.store = Append(@, content)], RCell(Len(s.store) + 1))
Change(s, cell, content) == Return([s EXCEPT !.store[cell.loc] = content], RVoid)

\* An error calls the topmost handler, which is expected not to return.
RECURSIVE Apply(_, _, _)
RECURSIVE Data(_, _, _, _)
Raise(s) ==
  IF s.handlers.k = "pair" /\ IsProcedure(s.handlers.car)
  THEN Apply([s EXCEPT !.handlers = s.handlers.cdr, !.kont = <<>>],
             s.handlers.car, <<RStr(<<109>>)>>)
  ELSE Done(s, "killed")

\* The natives on strings, structures and bytevectors; a holds what the
\* arguments contain.  A literal cannot be changed.
Data(s, n, args, a) ==
  LET kinds == [i \in DOMAIN a |-> a[i].k]
      Changes == args # <<>> /\ args[1].k = "cell"
      Within(i, size) == a[i].v >= 0 /\ a[i].v < size
  IN  CASE n = "make_string" /\ kinds = <<"num", "char">> ->
             Make(s, RStr([i \in 1..a[1].v |-> a[2].c]))
        [] n = "string_concat" /\ kinds = <<"str", "str">> -> Make(s, RStr(a[1].s \o a[2].s))
        [] n = "string_copy" /\ kinds = <<"str">> -> Make(s, a[1])
        [] n = "substring" /\ kinds = <<"str", "num", "num">>
             /\ 0 <= a[2].v /\ a[2].v <= a[3].v /\ a[3].v <= Len(a[1].s) ->
             Make(s, RStr(SubSeq(a[1].s, a[2].v + 1, a[3].v)))
        [] n = "string_copy_to" /\ kinds = <<"str", "num", "str">> /\ Changes
             /\ 0 <= a[2].v /\ a[2].v + Len(a[3].s) <= Len(a[1].s) ->
             Change(s, args[1],
                    RStr(SubSeq(a[1].s, 1, a[2].v) \o a[3].s
                           \o SubSeq(a[1].s, a[2].v + Len(a[3].s) + 1, Len(a[1].s))))
        [] n = "symbol_to_string" /\ kinds = <<"symbol">> -> Return(s, RStr(a[1].s))
        [] n = "string_ref" /\ kinds = <<"str", "num">> /\ Within(2, Len(a[1].s)) ->
             Return(s, RChr(a[1].s[a[2].v + 1]))
        [] n = "string_set" /\ kinds = <<"str", "num", "char">> /\ Changes
             /\ Within(2, Len(a[1].s)) ->
             Change(s, args[1], [a[1] EXCEPT !.s[a[2].v + 1] = a[3].c])
        [] n = "string_length" /\ kinds = <<"str">> -> Return(s, RNum(Len(a[1].s)))
        [] n = "string_eq" /\ kinds = <<"str", "str">> -> Return(s, RBool(a[1].s = a[2].s))
        [] n = "make_struct" /\ a # <<>> /\ a[1].k = "symbol" ->
             Make(s, RVec(a[1].s, Tail(args)))
        [] n = "alloc_struct" /\ Len(a) = 3 /\ a[1].k = "symbol" /\ a[2].k = "num" ->
             Make(s, RVec(a[1].s, [i \in 1..a[2].v |-> args[3]]))
        [] n = "struct_size" /\ kinds = <<"vec">> -> Return(s, RNum(Len(a[1].items)))
        [] n = "struct_ref" /\ kinds = <<"vec", "num">> /\ Within(2, Len(a[1].items)) ->
             Return(s, a[1].items[a[2].v + 1])
        [] n = "struct_set" /\ Len(a) = 3 /\ a[1].k = "vec" /\ a[2].k = "num" /\ Changes
             /\ Within(2, Len(a[1].items)) ->
             Change(s, args[1], [a[1] EXCEPT !.items[a[2].v + 1] = args[3]])
        [] n = "struct_type" /\ kinds = <<"vec">> -> Return(s, RSym(a[1].type))
        [] n = "struct_to_list" /\ kinds = <<"vec">> -> Return(s, ListOf(a[1].items))
        [] n = "make_bytevector" /\ kinds = <<"num", "num">> ->
             Make(s, RBytes([i \in 1..a[1].v |-> a[2].v]))
        [] n = "bytevector_8_set" /\ kinds = <<"bytes", "num", "num">>
             /\ Within(2, Len(a[1].data)) /\ Within(3, 256) ->
             Change(s, args[1], [a[1] EXCEPT !.data[a[2].v + 1] = a[3].v])
        [] OTHER -> Raise(s)

Apply(s, f, args) ==
  IF f.k = "clo" THEN IF AcceptsArgs(f.x, args) THEN Enter(s, f, args) ELSE Raise(s)
  ELSE IF f.k = "cont" THEN IF Len(args) = 1 THEN Return([s EXCEPT !.kont = f.kont], args[1])
                            ELSE Raise(s)
  ELSE IF f.k \in {"pair", "str", "cell"} THEN Done(s, "fatal")
  ELSE IF f.k # "prim" THEN Raise(s)
  ELSE CASE f.n = "display" /\ Len(args) = 1 ->
              Return([s EXCEPT !.out = Append(@, Shown(s, args[1]))], RVoid)
         [] f.n = "__exit" /\ Len(args) = 0 -> Done(s, "exit")
         [] f.n = "callcc" /\ Len(args) = 1 /\ IsProcedure(args[1]) ->
              Apply(s, args[1], <<RCont(s.kont)>>)
         [] f.n = "apply" /\ Len(args) = 2 /\ IsProcedure(args[1]) /\ args[2].k = "pair" ->
              Apply(s, args[1], ElementsOf(args[2]))
         [] f.n = "list" -> Return(s, ListOf(args))
         [] f.n = "length" /\ Len(args) = 1 /\ IsList(args[1]) ->
              Return(s, RNum(Len(ElementsOf(args[1]))))
         [] f.n = "make_list" /\ Len(args) = 2 /\ args[1].k = "num" ->
              Return(s, ListOf([i \in 1..args[1].v |-> args[2]]))
         [] f.n = "eof_object" /\ Len(args) = 0 -> Return(s, REof)
         [] f.n = "char_to_integer" /\ Len(args) = 1 /\ args[1].k = "char" ->
              Return(s, RNum(args[1].c))
         [] f.n = "integer_to_char" /\ Len(args) = 1 /\ args[1].k = "num" ->
              Return(s, RChr(args[1].v))
         [] f.n = "library_cache" /\ Len(args) = 0 -> Return(s, s.cache)
         [] f.n = "library_cache" /\ Len(args) = 1 /\ args[1].k = "pair" ->
              Return([s EXCEPT !.cache = args[1]], RVoid)
         [] f.n = "void" /\ Len(args) = 0 -> Return(s, RVoid)
         [] f.n = "handlers" /\ Len(args) = 0 -> Return(s, s.handlers)
         [] f.n = "handlers" /\ Len(args) = 1 /\ args[1].k \in {"pair", "nil"} ->
              Return([s EXCEPT !.handlers = args[1]], RVoid)
         [] OTHER -> Data(s, f.n, args, [i \in DOMAIN args |-> Content(s, args[i])])

\* What the predicate of this name says.
Test(test, v) ==
  CASE test = "TT_FIXNUM" -> v.k = "num"
    [] test = "TT_NULL" -> v.k = "nil"
    [] test = "TT_LIST" -> IsList(v)
    [] test = "TT_PAIR" -> v.k = "pair"
    [] test = "TT_PROCEDURE" -> IsProcedure(v)
    [] test = "TT_BOOLEAN" -> v.k = "bool"
    [] test = "TT_CHAR" -> v.k = "char"
    [] test = "TT_SYMBOL" -> v.k = "symbol"
    [] test = "TT_STRUCT" -> v.k = "vec"
    [] test = "TT_STRING" -> v.k = "str"
    [] test = "TT_BYTEVECTOR" -> v.k = "bytes"
    [] test = "TT_EOF" -> v.k = "eof"

\* The quotient a / b without its fraction.
Truncated(a, b) ==
  LET n == IF b < 0 THEN -a ELSE a
      d == IF b < 0 THEN -b ELSE b
  IN  IF n < 0 THEN -((-n) \div d) ELSE n \div d

\* The number whose bits are what P says of the bits of a and b, for numbers of
\* BitBound bits and a sign.
BitBound == 6
Bit(a, i) == (a \div 2 ^ i) % 2 = 1
Bits(P(_, _), a, b) ==
  MapThenSumSet(LAMBDA i : IF i = BitBound THEN -(2 ^ i) ELSE 2 ^ i,
                {i \in 0 .. BitBound : P(Bit(a, i), Bit(b, i))})

\* Two pairs or literals are eq? when they look the same: no program that is
\* evaluated compares different ones that do.
Operate(s, o, a) ==
  CASE o = "$cons" -> Return(s, RPair(a[1], a[2]))
    [] o = "$car" -> IF a[1].k = "pair" THEN Return(s, a[1].car) ELSE Raise(s)
    [] o = "$cdr" -> IF a[1].k = "pair" THEN Return(s, a[1].cdr) ELSE Raise(s)
    [] o = "$+" -> Return(s, RNum(a[1].v + a[2].v))
    [] o = "$-" -> Return(s, RNum(a[1].v - a[2].v))
    [] o = "$*" -> Return(s, RNum(a[1].v * a[2].v))
    [] o \in {"$/", "$%"} /\ a[2] = RNum(0) -> Done(s, "fatal")
    [] o = "$/" -> Return(s, RNum(Truncated(a[1].v, a[2].v)))
    [] o = "$%" -> Return(s, RNum(a[1].v - a[2].v * Truncated(a[1].v, a[2].v)))
    [] o = "$and" -> Return(s, RNum(Bits(LAMBDA p, q : p /\ q, a[1].v, a[2].v)))
    [] o = "$ior" -> Return(s, RNum(Bits(LAMBDA p, q : p \/ q, a[1].v, a[2].v)))
    [] o = "$xor" -> Return(s, RNum(Bits(LAMBDA p, q : p # q, a[1].v, a[2].v)))
    [] o = "$not" -> Return(s, RNum(Bits(LAMBDA p, q : ~p, a[1].v, a[1].v)))
    [] o = "$>" -> Return(s, RBool(a[1].v > a[2].v))
    [] o = "$type-test" -> Return(s, RBool(Test(a[1].n, Content(s, a[2]))))
    [] o = "$<" -> Return(s, RBool(a[1].v < a[2].v))
    [] o = "$=" -> Return(s, RBool(a[1].v = a[2].v))
    [] o = "$eq?" -> Return(s, RBool(a[1].k = a[2].k /\ a[1] = a[2]))
    [] o = "$!" -> Return(s, RBool(a[1] = RBool(FALSE)))

EvalStep(s) ==
  LET x == s.x
  IN  CASE x.t \in {"num", "bool", "nil", "chr", "str"} -> Return(s, ValueOf(x))
        [] x.t = "quote" -> Return(s, ValueOf(x.d))
        [] x.t = "var" ->
             Return(s, IF x.n \in DOMAIN s.env THEN s.store[s.env[x.n]] ELSE RPrim(x.n[1]))
        [] x.t = "lambda" -> Return(s, RClo(x, s.env))
        [] x.t = "if" -> EvalIn(PushFrame(s, [fr |-> "if", x |-> x, env |-> s.env]), x.c, s.env)
        [] x.t \in {"set!", "define"} ->
             EvalIn(PushFrame(s, [fr |-> "set", loc |-> s.env[x.n]]), x.e, s.env)
        [] x.t = "begin" -> EvalSeq(s, x.body, s.env)
        [] OTHER ->
             LET nodes == IF x.t = "op" THEN x.args ELSE <<x.f>> \o x.args
             IN  EvalIn(PushFrame(s, [fr |-> "args", x |-> x, todo |-> Tail(nodes),
                                      done |-> <<>>, env |-> s.env]),
                        Head(nodes), s.env)

ReturnStep(s) ==
  IF s.kont = <<>> THEN Done(s, "exit")
  ELSE LET fr == Head(s.kont)
           r == [s EXCEPT !.kont = Tail(@)]
       IN  CASE fr.fr = "if" ->
                  EvalIn(r, IF s.val = RBool(FALSE) THEN fr.x.b ELSE fr.x.a, fr.env)
             [] fr.fr = "set" -> Return([r EXCEPT !.store[fr.loc] = s.val], RVoid)
             [] fr.fr = "seq" -> EvalSeq(r, fr.forms, fr.env)
             [] OTHER ->
                  LET done == Append(fr.done, s.val)
                  IN  IF fr.todo # <<>>
                      THEN EvalIn(PushFrame(r, [fr EXCEPT !.done = done,
                                                          !.todo = Tail(@)]),
                                  Head(fr.todo), fr.env)
                      ELSE IF fr.x.t = "op" THEN Operate(r, fr.x.o, done)
                      ELSE Apply(r, Head(done), Tail(done))

RECURSIVE RunFor(_, _)
RunFor(s, fuel) ==
  IF s.mode = "done" \/ fuel = 0 THEN s
  ELSE RunFor(IF s.mode = "eval" THEN EvalStep(s) ELSE ReturnStep(s), fuel - 1)

\* How the program ends, and what it displays on the way.
Meaning(x, fuel) ==
  LET start == [mode |-> "eval", x |-> x, env |-> <<>>, val |-> RVoid, kont |-> <<>>,
                store |-> <<>>, out |-> <<>>, handlers |-> RNil, cache |-> RNil, why |-> ""]
      ended == RunFor(Enter(start, RClo(x, <<>>), <<>>), fuel)
  IN  [why |-> ended.why, out |-> ended.out]
=============================================================================

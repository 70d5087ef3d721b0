------------------------------ MODULE Expander ------------------------------
(***************************************************************************)
(* src/scheme/compiler/expand.scm, syntax-core.scm and syntax-pattern.scm: *)
(* expansion of the text of a program.  An identifier finds its binding by *)
(* the marks and substitutions that have been wrapped around it.           *)
(*                                                                         *)
(* The text is made of the data of Scheme.tla: Var(n) is a symbol.  A mark *)
(* and a label are, like a name of gen-name, the path of the node that     *)
(* makes them.  The procedure of a macro is evaluated by the Scheme that   *)
(* the compiler runs on; here it is the rules that it was written with.    *)
(***************************************************************************)
EXTENDS Scheme

-----------------------------------------------------------------------------
(* Syntax objects.                                                         *)

Syntax(expr, wrap) == [t |-> "syntax", expr |-> expr, wrap |-> wrap]
SyntaxError == [t |-> "error"]

Mark(path) == [mark |-> path]
IsMark(w) == "mark" \in DOMAIN w

\* Substitutions with the same marks, next to each other: labels maps names to
\* labels, and of those for one name the first counts.
Substs(names, labels, marks) ==
  [marks |-> marks,
   labels |-> [sym \in ToSet(names) |-> labels[Min({i \in DOMAIN names : names[i] = sym})]]]

IsSyntax(x) == x.t = "syntax"
Datum(x) == IF IsSyntax(x) THEN x.expr ELSE x

RECURSIVE Strip(_)
Strip(x) ==
  CASE IsSyntax(x) -> Strip(x.expr)
    [] x.t = "cons" -> QPair(Strip(x.car), Strip(x.cdr))
    [] OTHER -> x

IsIdentifier(x) == IsSyntax(x) /\ x.expr.t = "var"
SyntaxIsPair(x) == Datum(x).t = "cons"
SyntaxIsNull(x) == Datum(x) = Nil

\* A mark that meets itself goes away.
JoinWraps(wrap1, wrap2) ==
  IF wrap1 # <<>> /\ wrap2 # <<>> /\ IsMark(Last(wrap1)) /\ Last(wrap1) = Head(wrap2)
  THEN Front(wrap1) \o Tail(wrap2)
  ELSE wrap1 \o wrap2

ExtendWrap(wrap, x) ==
  IF IsSyntax(x) THEN Syntax(x.expr, JoinWraps(wrap, x.wrap)) ELSE Syntax(x, wrap)
AddMark(mark, x) == ExtendWrap(<<mark>>, x)

SyntaxCar(x) == IF IsSyntax(x) THEN ExtendWrap(x.wrap, x.expr.car) ELSE x.car
SyntaxCdr(x) == IF IsSyntax(x) THEN ExtendWrap(x.wrap, x.expr.cdr) ELSE x.cdr

\* The elements of a list, and what comes after the last of them.
RECURSIVE SyntaxItems(_), SyntaxRest(_)
SyntaxItems(x) ==
  IF SyntaxIsPair(x) THEN <<SyntaxCar(x)>> \o SyntaxItems(SyntaxCdr(x)) ELSE <<>>
SyntaxRest(x) == IF SyntaxIsPair(x) THEN SyntaxRest(SyntaxCdr(x)) ELSE x
SyntaxIsList(x) == SyntaxIsNull(SyntaxRest(x))

RECURSIVE Dotted(_, _)
Dotted(items, tail) ==
  IF items = <<>> THEN tail ELSE QPair(Head(items), Dotted(Tail(items), tail))
Listed(items) == Dotted(items, Nil)

WrapMarks(wrap) == SelectSeq(wrap, IsMark)

\* Mutant: what the missing arm gives is false.
SameMarksStrict(m1, m2) == Len(m1) = Len(m2) /\ m1 = m2

\* The code's conditional has no second arm, and what is not false is true.
SameMarks(m1, m2) == Len(m1) = Len(m2) => m1 = m2

NoLabel == <<>>
FindLabel(sym, wrap) ==
  LET found == {i \in DOMAIN wrap :
                  /\ ~IsMark(wrap[i]) /\ sym \in DOMAIN wrap[i].labels
                  /\ SameMarks(wrap[i].marks, WrapMarks(SubSeq(wrap, i, Len(wrap))))}
  IN  IF found = {} THEN NoLabel ELSE wrap[Min(found)].labels[sym]

Core(form) == [type |-> "core", value |-> form]
Lexical(n) == [type |-> "lexical", value |-> Var(n)]
Macro(rules) == [type |-> "macro", value |-> rules]
Free == [type |-> "free"]
Displaced == [type |-> "displaced"]

\* r maps labels to bindings.
IdBinding(id, r) ==
  LET label == FindLabel(id.expr, id.wrap)
  IN  IF label = NoLabel THEN Free
      ELSE IF label \in DOMAIN r THEN r[label] ELSE Displaced

-----------------------------------------------------------------------------
(* Patterns and templates.  What a pattern binds is a function of the      *)
(* names in it; a name before an ellipsis is bound to a list.              *)

S(name) == Var(<<name>>)
Ellipsis == S("...")
EllipsisPair(pat) == pat.t = "cons" /\ pat.cdr.t = "cons" /\ pat.cdr.car = Ellipsis

RECURSIVE PatternMatch(_, _, _)
PatternMatch(reserved, x, pat) ==
  CASE EllipsisPair(pat) ->
         /\ SyntaxIsList(x)
         /\ \A i \in DOMAIN SyntaxItems(x) : PatternMatch(reserved, SyntaxItems(x)[i], pat.car)
    [] pat = Nil -> SyntaxIsNull(x)
    [] pat.t = "cons" /\ ~EllipsisPair(pat) ->
         /\ SyntaxIsPair(x)
         /\ PatternMatch(reserved, SyntaxCar(x), pat.car)
         /\ PatternMatch(reserved, SyntaxCdr(x), pat.cdr)
    [] pat.t = "var" -> pat \in reserved => IsIdentifier(x) /\ x.expr = pat
    [] OTHER -> pat = Datum(x)

RECURSIVE PatternVars(_)
PatternVars(pat) ==
  CASE pat.t = "cons" -> PatternVars(pat.car) \cup PatternVars(pat.cdr)
    [] pat.t = "var" -> {pat}
    [] OTHER -> {}

NoVars == [v \in {} |-> Nil]
NoItems == Listed(<<Nil>>)   \* a name before an ellipsis that stands for nothing

RECURSIVE PatternBind(_, _, _)
PatternBind(reserved, x, pat) ==
  CASE EllipsisPair(pat) ->
         LET items == SyntaxItems(x)
             bound == [i \in DOMAIN items |-> PatternBind(reserved, items[i], pat.car)]
         IN  IF pat.car.t = "var" THEN pat.car :> Listed(items)
             ELSE [v \in PatternVars(pat.car) \ (IF items = <<>> THEN {} ELSE reserved) |->
                     IF items = <<>> THEN NoItems
                     ELSE Listed([i \in DOMAIN items |-> bound[i][v]])]
    [] pat.t = "cons" /\ ~EllipsisPair(pat) ->
         PatternBind(reserved, SyntaxCar(x), pat.car) @@ PatternBind(reserved, SyntaxCdr(x), pat.cdr)
    [] pat.t = "var" /\ pat # S("_") /\ pat \notin reserved -> pat :> x
    [] OTHER -> NoVars

\* What follows an ellipsis is dropped.
RECURSIVE GenSyntax(_, _)
GenSyntax(vars, stx) ==
  CASE EllipsisPair(stx) /\ stx.car \in DOMAIN vars ->
         IF vars[stx.car] = NoItems THEN Nil ELSE vars[stx.car]
    [] stx.t = "cons" /\ ~EllipsisPair(stx) ->
         QPair(GenSyntax(vars, stx.car), GenSyntax(vars, stx.cdr))
    [] stx.t = "var" /\ stx \in DOMAIN vars -> vars[stx]
    [] OTHER -> stx

\* A rule: a pattern, a name that has to be an identifier or Nil, a template.
Rule(pat, fender, template) == [pat |-> pat, fender |-> fender, template |-> template]

PassFender(rule, bind) == rule.fender = Nil \/ IsIdentifier(bind[rule.fender])

ScDispatch(vars, x, reserved, rules) ==
  LET Bound(i) == PatternBind(reserved, x, rules[i].pat)
      passed == {i \in DOMAIN rules : /\ PatternMatch(reserved, x, rules[i].pat)
                                      /\ PassFender(rules[i], Bound(i))}
  IN  IF passed = {} THEN SyntaxError
      ELSE GenSyntax(Bound(Min(passed)) @@ vars, rules[Min(passed)].template)

-----------------------------------------------------------------------------
(* The macros of src/scheme/core.forms.scm.                                *)

SyntaxRule(pattern, template) == Rule(QPair(S("dummy"), pattern), Nil, template)
SyntaxRules(rules) == [k |-> "rules", reserved |-> {}, rules |-> rules]

More(name) == <<S(name), Ellipsis>>
Body == <<S("e1")>> \o More("e2")
BeginBody == Listed(<<S("begin")>> \o Body)
LetT(e, body) == Listed(<<S("let"), Listed(<<Listed(<<S("t"), e>>)>>), body>>)
IfT(c, a, b) == Listed(<<S("if"), c, a, b>>)

OrMacro == SyntaxRules(<<
  SyntaxRule(Nil, Bool(FALSE)),
  SyntaxRule(Listed(<<S("a")>>), S("a")),
  SyntaxRule(Listed(<<S("a")>> \o More("b")),
    LetT(S("a"), IfT(S("t"), S("t"), Listed(<<S("or")>> \o More("b")))))>>)

AndMacro == SyntaxRules(<<
  SyntaxRule(Nil, Bool(TRUE)),
  SyntaxRule(Listed(<<S("a")>>), S("a")),
  SyntaxRule(Listed(<<S("a")>> \o More("b")),
    IfT(S("a"), Listed(<<S("and")>> \o More("b")), Bool(FALSE)))>>)

Bindings == Listed(<<Listed(<<S("vars"), S("vals")>>), Ellipsis>>)
LambdaVars == Listed(<<S("lambda"), Listed(More("vars"))>> \o Body)

LetMacro == SyntaxRules(<<
  SyntaxRule(Listed(<<Bindings>> \o Body), Listed(<<LambdaVars>> \o More("vals"))),
  SyntaxRule(Listed(<<S("loop"), Bindings>> \o Body),
    Listed(<<S("let"), Nil, Listed(<<S("define"), S("loop"), LambdaVars>>),
             Listed(<<S("loop")>> \o More("vals"))>>))>>)

LetStarMacro == SyntaxRules(<<
  SyntaxRule(Listed(<<Nil>> \o Body), Listed(<<S("let"), Nil>> \o Body)),
  SyntaxRule(Listed(<<Listed(<<Listed(<<S("var1"), S("val1")>>)>> \o More("head"))>> \o Body),
    Listed(<<S("let"), Listed(<<Listed(<<S("var1"), S("val1")>>)>>),
             Listed(<<S("let*"), Listed(More("head"))>> \o Body)>>))>>)

WhenMacro == SyntaxRules(<<
  SyntaxRule(Listed(<<S("test")>> \o Body), Listed(<<S("if"), S("test"), BeginBody>>))>>)
UnlessMacro == SyntaxRules(<<
  SyntaxRule(Listed(<<S("test")>> \o Body),
    Listed(<<S("if"), Listed(<<S("not"), S("test")>>), BeginBody>>))>>)

\* An operator of the VM, called or as a value.
OpMacro(op, args) ==
  [k |-> "rules", reserved |-> {}, rules |-> <<
     Rule(Listed(<<S("_")>> \o args), Nil, Listed(op \o args)),
     Rule(S("id"), S("id"), Listed(<<S("lambda"), Listed(args), Listed(op \o args)>>))>>]
OpUnary(op) == OpMacro(<<S(op)>>, <<S("a")>>)
OpBinary(op) == OpMacro(<<S(op)>>, <<S("a"), S("b")>>)
TypeTest(tname) == OpMacro(<<S("$type-test"), S(tname)>>, <<S("a")>>)

\* One clause of cond, with the others (rest) or without.
CondReserved == {S("else"), S("=>")}
CondRules(rest) == <<
  Rule(Listed(<<S("e0")>>), Nil,
       LetT(S("e0"), Listed(<<S("if"), S("t"), S("t")>> \o rest))),
  Rule(Listed(<<S("e0"), S("=>"), S("e1")>>), Nil,
       LetT(S("e0"), Listed(<<S("if"), S("t"), Listed(<<S("e1"), S("t")>>)>> \o rest))),
  Rule(Listed(<<S("e0")>> \o Body), Nil, Listed(<<S("if"), S("e0"), BeginBody>> \o rest))>>
CondElse == Rule(Listed(<<S("else")>> \o Body), Nil, BeginBody)

RECURSIVE CondClauses(_, _, _)
CondClauses(clause, clauses, vars) ==
  IF clauses = Nil THEN ScDispatch(vars, clause, CondReserved, <<CondElse>> \o CondRules(<<>>))
  ELSE ScDispatch(S("rest") :> CondClauses(clauses.car, clauses.cdr, vars) @@ vars,
                  clause, CondReserved, CondRules(<<S("rest")>>))

\* One clause of case.
KeyRule(rest) ==
  Rule(Listed(<<Listed(More("k"))>> \o Body), Nil,
       Listed(<<S("if"), Listed(<<S("memv"), S("t"), Listed(<<S("quote"), Listed(More("k"))>>)>>),
                BeginBody>> \o rest))

RECURSIVE CaseClauses(_, _, _)
CaseClauses(clause, clauses, vars) ==
  IF clauses = Nil THEN ScDispatch(vars, clause, {S("else")}, <<CondElse, KeyRule(<<>>)>>)
  ELSE ScDispatch(S("rest") :> CaseClauses(clauses.car, clauses.cdr, vars) @@ vars,
                  clause, {S("else")}, <<KeyRule(<<S("rest")>>)>>)

Clauses == <<S("m1")>> \o More("m2")

\* The procedure of a macro, called with x.
Apply1(macro, x) ==
  LET Vars(pat) == PatternBind({}, x, pat)
      CondPat == Listed(<<S("_")>> \o Clauses)
      CasePat == Listed(<<S("_"), S("e")>> \o Clauses)
  IN  CASE macro.k = "rules" -> ScDispatch(NoVars, x, macro.reserved, macro.rules)
        [] macro.k = "cond" ->
             IF ~PatternMatch({}, x, CondPat) THEN SyntaxError
             ELSE CondClauses(Vars(CondPat)[S("m1")], Vars(CondPat)[S("m2")], Vars(CondPat))
        [] macro.k = "case" ->
             IF ~PatternMatch({}, x, CasePat) THEN SyntaxError
             ELSE LET body == CaseClauses(Vars(CasePat)[S("m1")], Vars(CasePat)[S("m2")], Vars(CasePat))
                  IN  GenSyntax(S("body") :> body @@ Vars(CasePat), LetT(S("e"), S("body")))

Export(name, binding) == [name |-> name, binding |-> binding]
FormsOfCore == <<
  Export("quote", Core("quote")), Export("lambda", Core("lambda")),
  Export("define", Core("define")), Export("if", Core("if")), Export("set!", Core("set!")),
  Export("begin", Core("begin")),
  Export("or", Macro(OrMacro)), Export("and", Macro(AndMacro)), Export("let", Macro(LetMacro)),
  Export("let*", Macro(LetStarMacro)), Export("cond", Macro([k |-> "cond"])),
  Export("case", Macro([k |-> "case"])), Export("when", Macro(WhenMacro)),
  Export("unless", Macro(UnlessMacro)), Export("not", Macro(OpUnary("$!"))),
  Export("car", Macro(OpUnary("$car"))), Export("cdr", Macro(OpUnary("$cdr"))),
  Export("cons", Macro(OpBinary("$cons"))), Export("eq?", Macro(OpBinary("$eq?"))),
  Export("fixnum?", Macro(TypeTest("TT_FIXNUM"))), Export("null?", Macro(TypeTest("TT_NULL"))),
  Export("list?", Macro(TypeTest("TT_LIST"))), Export("pair?", Macro(TypeTest("TT_PAIR"))),
  Export("procedure?", Macro(TypeTest("TT_PROCEDURE"))),
  Export("boolean?", Macro(TypeTest("TT_BOOLEAN"))), Export("char?", Macro(TypeTest("TT_CHAR"))),
  Export("symbol?", Macro(TypeTest("TT_SYMBOL"))), Export("struct?", Macro(TypeTest("TT_STRUCT"))),
  Export("string?", Macro(TypeTest("TT_STRING"))),
  Export("bytevector?", Macro(TypeTest("TT_BYTEVECTOR"))),
  Export("eof-object?", Macro(TypeTest("TT_EOF")))>>

-----------------------------------------------------------------------------
(* Bodies.                                                                 *)

\* The head of a form is compared by its text.
IsForm(x, name) == SyntaxIsPair(x) /\ Datum(SyntaxCar(x)) = S(name)

RECURSIVE SpliceForms(_)
SpliceForms(body) ==
  IF body = <<>> THEN <<>>
  ELSE (IF IsForm(Head(body), "begin") THEN SpliceForms(SyntaxItems(SyntaxCdr(Head(body))))
                                       ELSE <<Head(body)>>)
         \o SpliceForms(Tail(body))

Second(x) == SyntaxCar(SyntaxCdr(x))
Third(x) == SyntaxCar(SyntaxCdr(SyntaxCdr(x)))

\* make-macro, for (define-syntax name (syntax-rules (reserved ...) (pattern
\* template) ...)): the keyword of a pattern is not looked at.
RulesOf(expander) ==
  LET clauses == SyntaxItems(SyntaxCdr(SyntaxCdr(expander)))
  IN  [k |-> "rules", reserved |-> ToSet(SyntaxItems(SyntaxCar(SyntaxCdr(expander)))),
       rules |-> [i \in DOMAIN clauses |->
                    SyntaxRule(SyntaxCdr(SyntaxCar(clauses[i])), Second(clauses[i]))]]

\* The macros of a body, one after the other: each is expanded under the
\* names of those before it.
ExtendSyntax(env, macros, path) ==
  LET CompileI(done, i) ==
        LET name == ExtendWrap(done.wrap, Second(macros[i]))
            label == path \o <<"s", ToString(i)>>
        IN  [wrap |-> <<Substs(<<name.expr>>, <<label>>, WrapMarks(name.wrap))>> \o done.wrap,
             env |-> label :> Macro(RulesOf(Strip(Third(macros[i])))) @@ done.env]
  IN  FoldLeft(CompileI, [wrap |-> <<>>, env |-> env], [i \in DOMAIN macros |-> i])

\* The names that a body defines.
ScanDefines(body) ==
  LET defines == SelectSeq(body, LAMBDA x : IsForm(x, "define"))
      Name(head) == IF SyntaxIsPair(head) THEN SyntaxCar(head) ELSE head
  IN  [i \in DOMAIN defines |-> Name(Second(defines[i]))]

-----------------------------------------------------------------------------
(* Expansion: x in the environment r, at the node path.                    *)

GenLabels(vars, path) == [i \in DOMAIN vars |-> path \o <<"l", ToString(i)>>]
GenNames(vars, path) == [i \in DOMAIN vars |-> path \o <<"v", ToString(i)>>]

ExpMacro(macro, x, path) ==
  LET m == Mark(path)
      xm == AddMark(m, x)
  IN  AddMark(m, ExtendWrap(xm.wrap, Apply1(macro, xm)))

RECURSIVE Expand(_, _, _), ExpExprs(_, _, _)

\* The new variables of src, with the marks of src, and those that the body
\* defines.
ExpandBody(src, r, vars, body, path) ==
  LET spliced == SpliceForms(body)
      IsMacro(x) == IsForm(x, "define-syntax")
      extended == ExtendSyntax(r, SelectSeq(spliced, IsMacro), path)
      forms == SelectSeq(spliced, LAMBDA x : ~IsMacro(x))
      all == vars \o ScanDefines(forms)
      names == GenNames(all, path)
      labels == GenLabels(all, path)
      substs == Substs([i \in DOMAIN all |-> all[i].expr], labels, WrapMarks(src.wrap))
      new == [l \in ToSet(labels) |-> Lexical(names[CHOOSE i \in DOMAIN all : labels[i] = l])]
  IN  Expand(ExtendWrap(<<substs>> \o extended.wrap, Listed(forms)), new @@ extended.env,
             Append(path, "b"))

ExpLambda(x, r, path) ==
  LET vars == SyntaxItems(Second(x))
      rest == SyntaxRest(Second(x))
      all == IF SyntaxIsNull(rest) THEN vars ELSE Append(vars, rest)
      names == GenNames(all, path)
  IN  QPair(S("lambda"),
        QPair(Dotted([i \in DOMAIN vars |-> Var(names[i])],
                     IF SyntaxIsNull(rest) THEN Nil ELSE Var(Last(names))),
              ExpandBody(x, r, all, SyntaxItems(SyntaxCdr(SyntaxCdr(x))), path)))

ExpDefine(x, r, path) ==
  LET head == Second(x)
      rest == SyntaxItems(SyntaxCdr(SyntaxCdr(x)))
      args == IF SyntaxIsList(head) THEN Listed(SyntaxItems(SyntaxCdr(head))) ELSE SyntaxCdr(head)
      Defined(var, value) ==
        Listed(<<S("define"), Expand(var, r, path), Expand(value, r, Append(path, "e"))>>)
  IN  IF SyntaxIsPair(head)
      THEN Defined(SyntaxCar(head),
             ExtendWrap(x.wrap, Listed(<<S("lambda"), args>> \o rest)))
      ELSE IF rest = <<>> THEN Listed(<<S("define"), Expand(head, r, path), Listed(<<S("void")>>)>>)
      ELSE Defined(head, rest[1])

AlwaysTrue(dt) == dt # Bool(FALSE) /\ dt.t \notin {"cons", "var"}

ExpIf(x, r, path) ==
  LET arm == SyntaxItems(SyntaxCdr(x))
      pred == Expand(arm[1], r, Append(path, "p"))
      Arm(i) == Expand(arm[i], r, path \o <<"i", ToString(i)>>)
  IN  IF Len(arm) = 2
      THEN Expand(ExtendWrap(x.wrap,
             Listed(<<S("if"), arm[1], arm[2], Listed(<<S("void")>>)>>)), r, path)
      ELSE IF AlwaysTrue(pred) THEN Arm(2)
      ELSE IF pred = Bool(FALSE) THEN Arm(3)
      ELSE Listed(<<S("if"), pred, Arm(2), Arm(3)>>)

ExpCore(form, x, r, path) ==
  LET n == Len(SyntaxItems(x)) - 1   \* operands
  IN  CASE ~SyntaxIsList(x) -> SyntaxError
        [] form = "quote" /\ n = 1 -> Listed(<<S("quote"), Strip(Second(x))>>)
        [] form = "lambda" /\ n >= 1 -> ExpLambda(x, r, path)
        [] form = "define" /\ n >= 1 /\ (SyntaxIsPair(Second(x)) \/ n <= 2) -> ExpDefine(x, r, path)
        [] form = "if" /\ n \in {2, 3} -> ExpIf(x, r, path)
        [] form = "set!" /\ n = 2 ->
             Listed(<<S("set!"), Expand(Second(x), r, path), Expand(Third(x), r, Append(path, "e"))>>)
        [] form = "begin" /\ n = 1 -> Expand(Second(x), r, path)
        [] form = "begin" /\ n # 1 -> QPair(S("begin"), ExpExprs(SyntaxCdr(x), r, path))
        [] OTHER -> SyntaxError

ExpExprs(x, r, path) ==
  CASE SyntaxIsPair(x) ->
         QPair(Expand(SyntaxCar(x), r, Append(path, "a")),
               ExpExprs(SyntaxCdr(x), r, Append(path, "d")))
    [] SyntaxIsNull(x) -> Nil
    [] OTHER -> Expand(x, r, path)

\* An identifier alone, or at the head of a form.
Expand(x, r, path) ==
  LET form == SyntaxIsPair(x)
      head == IF form THEN SyntaxCar(x) ELSE x
      b == IF IsIdentifier(head) THEN IdBinding(head, r) ELSE Free
      With(first) == IF form THEN QPair(first, ExpExprs(SyntaxCdr(x), r, Append(path, "d")))
                             ELSE first
  IN  CASE b.type = "macro" ->
             Expand(ExpMacro(b.value, x, path), r, Append(path, "m"))
        [] b.type = "lexical" -> With(b.value)
        [] b.type = "core" -> IF form THEN ExpCore(b.value, x, r, path) ELSE SyntaxError
        [] b.type = "displaced" -> SyntaxError
        [] b.type = "free" /\ form /\ ~IsIdentifier(head) -> With(Expand(head, r, Append(path, "a")))
        [] b.type = "free" /\ (~form \/ IsIdentifier(head)) -> With(Strip(head))

-----------------------------------------------------------------------------
(* A program with what it imports, and what the later phases see.          *)

TopMark == Mark(<<"top">>)

ExpandText(imports, forms) ==
  LET labels == GenLabels(imports, <<>>)
      substs == Substs([i \in DOMAIN imports |-> S(imports[i].name)], labels, <<TopMark>>)
      Bind(env, i) == labels[i] :> imports[i].binding @@ env
      env == FoldLeft(Bind, <<>>, [i \in DOMAIN imports |-> i])
  IN  Expand(Syntax(Listed(<<S("lambda"), Nil>> \o forms), <<substs, TopMark>>), env, <<"v">>)

Operators == {"$+", "$-", "$*", "$/", "$%", "$<", "$>", "$=", "$cons", "$car", "$cdr", "$!",
              "$eq?", "$type-test", "$and", "$ior", "$xor", "$not"}

\* A quoted symbol has its name as the one character of its text.
RECURSIVE QuotedDatum(_)
QuotedDatum(x) ==
  CASE x.t = "cons" -> QPair(QuotedDatum(x.car), QuotedDatum(x.cdr))
    [] x.t = "vec" -> Vec([i \in DOMAIN x.items |-> QuotedDatum(x.items[i])])
    [] x.t = "var" -> Sym(x.n)
    [] OTHER -> x

\* The nodes that Scheme.tla has for data.
RECURSIVE Node(_)
Node(x) ==
  LET items == SyntaxItems(x)
      nodes == [i \in 1 .. Len(items) - 1 |-> Node(items[i + 1])]
      Head1(name) == x.t = "cons" /\ items[1] = S(name)
  IN  CASE Head1("quote") -> IF items[2] = Nil THEN Nil ELSE Quote(QuotedDatum(items[2]))
        [] Head1("lambda") ->
             LET vars == SyntaxItems(items[2])
                 rest == SyntaxRest(items[2])
             IN  Lam([i \in DOMAIN vars |-> vars[i].n], IF rest = Nil THEN <<>> ELSE <<rest.n>>,
                     <<>>, Tail(nodes))
        [] Head1("define") -> Define(items[2].n, nodes[2])
        [] Head1("set!") -> Set(items[2].n, nodes[2])
        [] Head1("if") -> If(nodes[1], nodes[2], nodes[3])
        [] Head1("begin") -> Begin(nodes)
        [] x.t = "cons" /\ items[1].t = "var" /\ items[1].n[1] \in Operators -> Op(items[1].n[1], nodes)
        [] OTHER -> IF x.t = "cons" THEN Call(Node(items[1]), nodes) ELSE x

ExpandFile(imports, forms) == Node(ExpandText(imports, forms))
=============================================================================

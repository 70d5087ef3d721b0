------------------------------ MODULE Optimizer ------------------------------
(***************************************************************************)
(* src/scheme/compiler/analyze.scm and source-optimizer.scm: definitions   *)
(* that nobody refers to and expressions without effect are dropped, and   *)
(* arguments of a lambda that is called where it stands are inlined.       *)
(* Analysis turns a variable that it finds bound into a reference; a name  *)
(* that is defined further down is not found yet and stays a symbol.       *)
(***************************************************************************)
EXTENDS Scheme

Ref(n) == [t |-> "ref", n |-> n]

Names(l) == {l.args[i] : i \in DOMAIN l.args} \cup {l.rest[i] : i \in DOMAIN l.rest}

\* The names that a body has defined up to its i-th form.
DefinedUpTo(body, i) == {body[j].n : j \in {j \in 1..i : body[j].t = "define"}}

RECURSIVE Analyze(_, _)
AnalyzeAll(seq, bound) == [i \in DOMAIN seq |-> Analyze(seq[i], bound)]

AnalyzeLambda(x, bound) ==
  [x EXCEPT !.body = [i \in DOMAIN x.body |->
     Analyze(x.body[i], bound \cup Names(x) \cup DefinedUpTo(x.body, i))]]

\* An assignment to a name that is not found is left as it is.
Analyze(x, bound) ==
  CASE x.t = "var" /\ x.n \in bound -> Ref(x.n)
    [] x.t = "lambda" -> AnalyzeLambda(x, bound)
    [] x.t = "if" -> If(Analyze(x.c, bound), Analyze(x.a, bound), Analyze(x.b, bound))
    [] x.t = "set!" /\ x.n \in bound -> Set(x.n, Analyze(x.e, bound))
    [] x.t = "set!" -> [x EXCEPT !.t = "raw"]
    [] x.t = "define" -> Define(x.n, Analyze(x.e, bound))
    [] x.t = "begin" -> Begin(AnalyzeAll(x.body, bound))
    [] x.t = "call" -> Call(Analyze(x.f, bound), AnalyzeAll(x.args, bound))
    [] x.t = "op" -> Op(x.o, AnalyzeAll(x.args, bound))
    [] OTHER -> x

\* The nodes directly below a node.
Children(x) ==
  CASE x.t = "lambda" -> x.body
    [] x.t = "if" -> <<x.c, x.a, x.b>>
    [] x.t \in {"set!", "define"} -> <<x.e>>
    [] x.t = "begin" -> x.body
    [] x.t = "call" -> <<x.f>> \o x.args
    [] x.t = "op" -> x.args
    [] OTHER -> <<>>

\* Every node of a program, itself first.
RECURSIVE Nodes(_)
Nodes(x) ==
  <<x>> \o FoldLeft(LAMBDA s, c : s \o Nodes(c), <<>>, Children(x))

\* The names that are referred to (binding-ref-count), and those assigned.
Referred(root) ==
  LET nodes == Nodes(root)
  IN  {nodes[i].n : i \in {i \in DOMAIN nodes : nodes[i].t \in {"ref", "set!"}}}
Mutated(root) ==
  LET nodes == Nodes(root)
  IN  {nodes[i].n : i \in {i \in DOMAIN nodes : nodes[i].t = "set!"}}

\* What analyze.scm takes for self-evaluating: references and lambdas are
\* records there, and so neither pairs nor symbols.
SelfEvalNode(x) == x.t \in {"num", "bool", "nil", "chr", "str", "quote", "ref", "lambda"}

SideEffectsFree(x) ==
  \/ SelfEvalNode(x)
  \/ x.t = "op"
  \/ /\ x.t = "call" /\ x.f.t = "var" /\ IsBuiltin(x.f.n)
     /\ ~SideEffect(x.f.n) /\ ~ChangesCont(x.f.n)

\* info: what analysis found out; sub: the values of inlined arguments.
RECURSIVE Optimize(_, _, _)
OptimizeAll(seq, sub, info) == [i \in DOMAIN seq |-> Optimize(seq[i], sub, info)]

RefCountZero(n, info) == n \notin info.referred

Kept(body, i, info) ==
  IF body[i].t = "define" THEN ~RefCountZero(body[i].n, info)
  ELSE i = Len(body) \/ ~SideEffectsFree(body[i])

OptimizeBody(body, sub, info) ==
  LET kept == SelectSeq([i \in DOMAIN body |-> i], LAMBDA i : Kept(body, i, info))
  IN  [j \in DOMAIN kept |-> Optimize(body[kept[j]], sub, info)]

MayInline(n, val, info) ==
  /\ n \notin info.mutated
  /\ SelfEvalNode(val)
  /\ ~(val.t = "ref" /\ val.n \in info.mutated)

OptimizeLambdaCall(x, sub, info) ==
  LET func == x.f
      ins == {i \in DOMAIN func.args : MayInline(func.args[i], x.args[i], info)}
      used == SelectSeq([i \in DOMAIN func.args |-> i], LAMBDA i : i \notin ins)
      inlined == [n \in {func.args[i] : i \in ins} |->
                    Optimize(x.args[CHOOSE i \in ins : func.args[i] = n], sub, info)]
      body == OptimizeBody(func.body, inlined @@ sub, info)
      hasDefines == \E i \in DOMAIN func.body : func.body[i].t = "define"
  IN  IF ins = {} THEN Call(Optimize(func, sub, info), OptimizeAll(x.args, sub, info))
      ELSE IF used = <<>> /\ ~hasDefines THEN Begin(body)
      ELSE Call(Lambda([j \in DOMAIN used |-> func.args[used[j]]], body),
                [j \in DOMAIN used |-> Optimize(x.args[used[j]], sub, info)])

Optimize(x, sub, info) ==
  CASE x.t = "lambda" -> [x EXCEPT !.body = OptimizeBody(x.body, sub, info)]
    [] x.t = "ref" -> IF x.n \in DOMAIN sub THEN sub[x.n] ELSE Var(x.n)
    [] x.t = "call" /\ x.f.t = "lambda" -> OptimizeLambdaCall(x, sub, info)
    [] x.t = "call" -> Call(Optimize(x.f, sub, info), OptimizeAll(x.args, sub, info))
    [] x.t = "op" -> Op(x.o, OptimizeAll(x.args, sub, info))
    [] x.t = "if" -> If(Optimize(x.c, sub, info), Optimize(x.a, sub, info),
                        Optimize(x.b, sub, info))
    [] x.t = "set!" -> Set(x.n, Optimize(x.e, sub, info))
    [] x.t = "define" -> Define(x.n, Optimize(x.e, sub, info))
    [] x.t = "begin" -> Begin(OptimizeAll(x.body, sub, info))
    [] x.t = "raw" -> Set(x.n, x.e)
    [] OTHER -> x

OptimizeSource(x) ==
  LET analyzed == Analyze(x, {})
  IN  Optimize(analyzed, <<>>, [referred |-> Referred(analyzed),
                                mutated |-> Mutated(analyzed)])
=============================================================================

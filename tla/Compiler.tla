------------------------------ MODULE Compiler ------------------------------
(***************************************************************************)
(* src/scheme/compiler/compiler.scm: bytecode for a program in             *)
(* continuation passing style.  The state cs of a compilation holds the    *)
(* environments of the functions being compiled, innermost first, the      *)
(* constants and the functions emitted so far, the code of the node just   *)
(* compiled, and whether the compiler gave up on an undefined name.        *)
(***************************************************************************)
EXTENDS Scheme

Emit(cs, code) == [cs EXCEPT !.code = code]

\* Slots of the arguments, the rest list last.
SetFuncArgs(x) ==
  LET names == x.args \o x.rest
  IN  [n \in ToSet(names) |-> (CHOOSE i \in DOMAIN names : names[i] = n) - 1]

MakeEnv(cs, x) ==
  [tbl |-> SetFuncArgs(x), size |-> Len(x.args) + Len(x.rest), argc |-> Len(x.args),
   swallow |-> x.rest # <<>>, depth |-> Len(cs.envs), onheap |-> FALSE,
   bindings |-> <<>>, bindmap |-> <<>>]

EnvDefine(env, name) ==
  [env EXCEPT !.tbl = (name :> env.size) @@ @, !.size = @ + 1]

\* The list and x's index in it, x added at its young end when it is new.
Indexed(list, x) ==
  IF Contains(list, x) THEN [list |-> list, idx |-> SelectInSeq(list, LAMBDA y : y = x) - 1]
  ELSE [list |-> Append(list, x), idx |-> Len(list)]

\* Mutant: a known binding counts from the young end of the list.
EnvBindYoung(env, up, idx) ==
  LET map == Indexed(env.bindmap, up)
      binding == Indexed(env.bindings, <<map.idx, idx>>)
  IN  [env |-> [env EXCEPT !.bindmap = map.list, !.bindings = binding.list],
       idx |-> Len(binding.list) - 1 - binding.idx]

\* A binding is a slot of the environment that an entry of the bindmap,
\* a list of depth marks, leads to.
EnvBind(env, up, idx) ==
  LET map == Indexed(env.bindmap, up)
      binding == Indexed(env.bindings, <<map.idx, idx>>)
  IN  [env |-> [env EXCEPT !.bindmap = map.list, !.bindings = binding.list],
       idx |-> binding.idx]

MakeConst(cs, datum) ==
  LET const == Indexed(cs.consts, datum)
  IN  [cs |-> [cs EXCEPT !.consts = const.list], idx |-> const.idx]

LoadConst(cs, datum) ==
  LET const == MakeConst(cs, datum)
  IN  Emit(const.cs, <<<<"LOAD_CONST", const.idx>>>>)

\* The environments that know the name, by their distance.
Owners(cs, name) == {i \in DOMAIN cs.envs : name \in DOMAIN cs.envs[i].tbl}

\* An access to a name: op is LOAD or SET.
Access(cs, name, local, bind) ==
  LET i == Min(Owners(cs, name))
      slot == cs.envs[i].tbl[name]
      bound == EnvBind(cs.envs[1], cs.envs[i].depth, slot)
  IN  IF i = 1 THEN Emit(cs, <<<<local, slot>>>>)
      ELSE Emit([cs EXCEPT !.envs[i].onheap = TRUE, !.envs[1] = bound.env],
                <<<<bind, bound.idx>>>>)

CompileVar(cs, name) ==
  IF Owners(cs, name) # {} THEN Access(cs, name, "LOAD_LOCAL", "LOAD_BIND")
  ELSE IF IsBuiltin(name) THEN LoadConst(cs, Static(name[1]))
  ELSE [cs EXCEPT !.err = TRUE]

RECURSIVE Compile(_, _)

\* The nodes one after the other, their code in a row.
CompileAll(cs, nodes) ==
  FoldLeft(LAMBDA s, x : LET c == Compile(s, x) IN Emit(c, s.code \o c.code),
           Emit(cs, <<>>), nodes)

MakeFunc(code, env) ==
  [code |-> code, env_size |-> env.size, argc |-> env.argc, swallow |-> env.swallow,
   heap_env |-> env.onheap, depth |-> env.depth, bindings |-> env.bindings,
   bindmap |-> env.bindmap]

CompileFunc(cs, x) ==
  LET env == FoldLeft(EnvDefine, MakeEnv(cs, x), x.ext)
      body == CompileAll([cs EXCEPT !.envs = <<env>> \o @], x.body)
      func == MakeFunc(body.code, Head(body.envs))
  IN  Emit([body EXCEPT !.envs = Tail(@), !.fns = Append(@, func)],
           <<<<"LOAD_CLOSURE", Len(body.fns)>>>>)

\* Mutant: the jump to the else branch counts that branch as well.
CompileIfPastElse(cs, x) ==
  LET pred == Compile(cs, x.c)
      then == Compile(pred, x.a)
      else == Compile(then, x.b)
  IN  Emit(else, pred.code \o <<<<"JUMP_IF_FALSE", Len(then.code) + 1 + Len(else.code)>>>>
                   \o then.code \o <<<<"JUMP_FORWARD", Len(else.code)>>>> \o else.code)

\* Mutant: a false condition leads to the jump that ends the other branch.
CompileIfNoSkip(cs, x) ==
  LET pred == Compile(cs, x.c)
      then == Compile(pred, x.a)
      else == Compile(then, x.b)
  IN  Emit(else, pred.code \o <<<<"JUMP_IF_FALSE", Len(then.code)>>>>
                   \o then.code \o <<<<"JUMP_FORWARD", Len(else.code)>>>> \o else.code)

CompileIf(cs, x) ==
  LET pred == Compile(cs, x.c)
      then == Compile(pred, x.a)
      else == Compile(then, x.b)
  IN  Emit(else, pred.code \o <<<<"JUMP_IF_FALSE", Len(then.code) + 1>>>>
                   \o then.code \o <<<<"JUMP_FORWARD", Len(else.code)>>>> \o else.code)

\* Mutant: natives that keep their continuation are not told apart.
ContSafeAlways(n) == IsBuiltin(n)

ContSafe(n) == IsBuiltin(n) /\ ~ChangesCont(n)

\* The continuation is a lambda and the function a native that leaves the
\* environment alone.
OptimizeCont(x) ==
  /\ x.f.t = "var" /\ ContSafe(x.f.n)
  /\ x.args # <<>> /\ x.args[1].t = "lambda"

LambdaCall(func) == func[1][1] = "LOAD_CLOSURE"

RewriteFunc(code) == <<<<"LOAD_FUNC", code[1][2]>>>> \o Tail(code)

CompileCall(cs, x) ==
  LET func == Compile(cs, x.f)
      args == CompileAll(func, x.args)
  IN  IF func.err THEN func
      ELSE Emit(args, (IF OptimizeCont(x) THEN RewriteFunc(args.code) ELSE args.code)
                  \o (IF LambdaCall(func.code) THEN RewriteFunc(func.code) ELSE func.code)
                  \o <<<<"FUNC_CALL", Len(x.args)>>>>)

\* The slot is looked up before the value is compiled.
CompileAssignment(cs, x) ==
  IF Owners(cs, x.n) = {} THEN [cs EXCEPT !.err = TRUE]
  ELSE LET store == Access(cs, x.n, "SET_LOCAL", "SET_BIND")
           value == Compile(store, x.e)
       IN  Emit(value, value.code \o store.code)

CompileOperation(cs, x) ==
  LET test == x.o = "$type-test"   \* its first operand says which
      args == CompileAll(cs, IF test THEN Tail(x.args) ELSE x.args)
  IN  Emit(args, args.code \o <<<<x.o, IF test THEN x.args[1].n[1] ELSE 0>>>>)

\* A begin that is left over is a call of an undefined name.
Compile(cs, x) ==
  CASE cs.err -> cs
    [] x.t = "op" -> CompileOperation(cs, x)
    [] x.t = "lambda" -> CompileFunc(cs, x)
    [] x.t = "if" -> CompileIf(cs, x)
    [] x.t = "nil" -> Emit(cs, <<<<"PUSH_NULL", 0>>>>)
    [] x.t = "set!" -> CompileAssignment(cs, x)
    [] x.t = "call" -> CompileCall(cs, x)
    [] x.t = "quote" -> LoadConst(cs, x.d)
    [] x.t \in {"num", "chr", "str"} -> LoadConst(cs, x)
    [] x.t = "bool" -> Emit(cs, <<<<"PUSH_BOOL", IF x.b THEN 1 ELSE 0>>>>)
    [] x.t = "var" -> CompileVar(cs, x.n)
    [] OTHER -> [cs EXCEPT !.err = TRUE]

\* The last function is the entry point.
StartCompile(root) ==
  LET cs == Compile([envs |-> <<>>, consts |-> <<>>, fns |-> <<>>, code |-> <<>>,
                     err |-> FALSE], root)
  IN  [consts |-> cs.consts, functions |-> cs.fns, entry_point |-> Len(cs.fns) - 1,
       err |-> cs.err]
=============================================================================

--------------------------------- MODULE Vm ---------------------------------
(***************************************************************************)
(* The virtual machine: eval_thread of src/vm/vm.c, the natives of         *)
(* src/vm/primitives.c that it needs, and what a collection does to what   *)
(* they hold.  It runs the bytecode of one module.                         *)
(*                                                                         *)
(* thread is the vm_thread_t, with the heap and the standard output;       *)
(* pc and call are what eval_thread keeps in locals.  Every object of the  *)
(* heap has an address, its index; a collection moves all of them.  A      *)
(* pointer that a collection could not see and that is still in use is     *)
(* Stale.                                                                  *)
(***************************************************************************)
EXTENDS Values

CONSTANTS
  StackSize,    \* slots of the operand stack
  Collecting    \* may an allocation find the heap full?

ASSUME VmAssumption == StackSize \in Nat \ {0} /\ Collecting \in BOOLEAN

VARIABLES
  module,   \* module_t: constants and the objects they lead to, functions, entry point
  thread,   \* vm_thread_t
  pc,       \* index of the next instruction
  call      \* <<>>, or the function and the number of arguments to dispatch on

vars == <<module, thread, pc, call>>

-----------------------------------------------------------------------------
(* Types of values.                                                        *)

IsPtr(v) == v.k = "ptr"
IsFunc(v) == v.k \in {"func", "native"}

\* What a pointer leads to.
Object(t, v) ==
  CASE v.k = "ptr" -> t.heap[v.a]
    [] v.k = "const" -> module.objects[v.a]
    [] v.k = "symbol" -> [ty |-> "symbol", s |-> v.s]
    [] OTHER -> NoObject

IsType(t, v, types) == Object(t, v).ty \in types

\* IS_FUNC
IsProc(t, v) == IsFunc(v) \/ IsType(t, v, {"closure", "cont"})

\* (argc, swallow) of the natives, the continuation counted.
NativeHeader ==
  [display |-> <<2, FALSE>>, __exit |-> <<1, FALSE>>, callcc |-> <<2, FALSE>>,
   apply |-> <<3, FALSE>>, list |-> <<1, TRUE>>, void |-> <<1, FALSE>>,
   load_library |-> <<2, FALSE>>,
   handlers |-> <<1, TRUE>>, library_cache |-> <<1, TRUE>>, length |-> <<2, FALSE>>,
   make_list |-> <<3, FALSE>>, eof_object |-> <<1, FALSE>>,
   char_to_integer |-> <<2, FALSE>>, integer_to_char |-> <<2, FALSE>>,
   make_struct |-> <<1, TRUE>>, alloc_struct |-> <<4, FALSE>>, struct_size |-> <<2, FALSE>>,
   struct_ref |-> <<3, FALSE>>, struct_set |-> <<4, FALSE>>, struct_type |-> <<2, FALSE>>,
   struct_to_list |-> <<2, FALSE>>, symbol_to_string |-> <<2, FALSE>>,
   string_ref |-> <<3, FALSE>>, string_set |-> <<4, FALSE>>, string_length |-> <<2, FALSE>>,
   string_eq |-> <<3, FALSE>>, string_concat |-> <<3, FALSE>>, substring |-> <<4, FALSE>>,
   string_copy |-> <<2, FALSE>>, string_copy_to |-> <<4, FALSE>>, make_string |-> <<3, FALSE>>,
   make_bytevector |-> <<3, FALSE>>, bytevector_8_set |-> <<4, FALSE>>]

Function(f) == module.functions[f + 1]
Fn == Function(thread.func)

-----------------------------------------------------------------------------
(* Collection.  An object knows what it points to; a thread what its roots *)
(* are.                                                                    *)

\* env: prev, depth and objects, with the function that it belongs to;
\* closure: env and function; cont: function; pair: car and cdr; struct: fields.
Fields(o) ==
  CASE o.ty = "env" -> <<o.prev>> \o o.objects
    [] o.ty = "closure" -> <<o.env>>
    [] o.ty = "cont" -> <<o.func>>
    [] o.ty = "pair" -> <<o.car, o.cdr>>
    [] o.ty = "struct" -> o.fields
    [] OTHER -> <<>>

\* string_visit: a text in the block is found again only when the flag is set.
StringVisit(o) == IF o.at = "block" /\ ~o.allocated THEN [o EXCEPT !.at = "lost"] ELSE o

Addresses(values) == {v.a : v \in {v \in ToSet(values) : IsPtr(v)}}

\* Mutant: the register for loaded libraries is not a root.
RootsNoCache(t) ==
  <<t.env>> \o [i \in 1 .. t.idx |-> t.opstack[i]]
    \o <<t.closure, t.exception_handlers>> \o t.local_roots

\* thread_get_roots
Roots(t) ==
  <<t.env>> \o [i \in 1 .. t.idx |-> t.opstack[i]]
    \o <<t.closure, t.lib_cache, t.exception_handlers>> \o t.local_roots

\* x, step[x], step[step[x]] and so on.
Walk(step, x, n) ==
  LET at[k \in 0..n] == IF k = 0 THEN x ELSE step[at[k - 1]]
  IN  at

\* What can be found in as many rounds as there are objects.
Reachable(heap, found) ==
  LET further == [some \in SUBSET DOMAIN heap |->
                    some \cup UNION {Addresses(Fields(heap[a])) : a \in some}]
  IN  Walk(further, found, Len(heap))[Len(heap)]

\* Mutant: the locals pointer is not updated.
AfterGcNever(t, env, objects) == objects

\* thread_after_gc
AfterGc(t, env, objects) == IF t.heap_env THEN env ELSE objects

\* The blocks that are copied, in their order.
LiveSet(t) ==
  LET reached == Reachable(t.heap, Addresses(Roots(t)))
      copy == [s \in [next : Nat, live : Seq(Nat)] |->
                 [next |-> s.next + 1,
                  live |-> IF s.next \in reached THEN Append(s.live, s.next) ELSE s.live]]
  IN  Walk(copy, [next |-> 1, live |-> <<>>], Len(t.heap))[Len(t.heap)].live

\* heap_mark: a pointer to a block leads to its copy.
HeapMark(live, v) ==
  IF ~IsPtr(v) THEN v
  ELSE IF v.a \in ToSet(live) THEN Ptr(CHOOSE i \in DOMAIN live : live[i] = v.a)
  ELSE Stale

CopiedTo(t, live) ==
  LET Move(v) == HeapMark(live, v)
      Lost(v) == IF IsPtr(v) THEN Stale ELSE v
      Updated(o) ==
        CASE o.ty = "env" -> [o EXCEPT !.prev = Move(@),
                                       !.objects = [i \in DOMAIN @ |-> Move(@[i])]]
          [] o.ty = "closure" -> [o EXCEPT !.env = Move(@)]
          [] o.ty = "cont" -> [o EXCEPT !.func = Move(@)]
          [] o.ty = "pair" -> [o EXCEPT !.car = Move(@), !.cdr = Move(@)]
          [] o.ty = "struct" -> [o EXCEPT !.fields = [i \in DOMAIN @ |-> Move(@[i])]]
          [] o.ty = "string" -> StringVisit(o)
          [] OTHER -> o
  IN  [t EXCEPT
        !.heap = [i \in DOMAIN live |-> Updated(t.heap[live[i]])],
        !.env = Move(@), !.closure = Move(@), !.lib_cache = Move(@),
        !.exception_handlers = Move(@),
        !.opstack = [i \in DOMAIN @ |-> IF i <= t.idx THEN Move(@[i]) ELSE Lost(@[i])],
        !.local_roots = [i \in DOMAIN @ |-> Move(@[i])],
        !.objects = AfterGc(t, Move(t.env), Lost(@))]

Collected(t) == CopiedTo(t, LiveSet(t))

\* An allocation may collect first; the new object has the last address.
MayCollect(t) == {t} \cup (IF Collecting THEN {Collected(t)} ELSE {})
Place(t, object) == [t EXCEPT !.heap = Append(@, object)]
New(t) == Ptr(Len(t.heap))

-----------------------------------------------------------------------------
(* The operand stack.                                                      *)

Stop(t, why) == [t EXCEPT !.status = why]

\* With CHECK_OPSTACK a push that would fill the stack is fatal; past that
\* point it writes behind the stack.
PushAll(t, values) ==
  IF t.idx + Len(values) < StackSize
  THEN [t EXCEPT !.opstack = [i \in DOMAIN @ |-> IF i \in t.idx + 1 .. t.idx + Len(values)
                                                THEN values[i - t.idx] ELSE @[i]],
                 !.idx = @ + Len(values)]
  ELSE Stop(t, IF t.idx < StackSize THEN "fatal" ELSE "undefined")

Push(t, v) == PushAll(t, <<v>>)

\* The i-th value from the top, the top being the first.
Top(t, i) == t.opstack[t.idx + 1 - i]
Pop(t, n) == [t EXCEPT !.idx = @ - n]

\* The n-th argument of a native (the continuation is the first).
Argv(t, argc, n) == t.opstack[t.idx - argc + n]

\* thread->objects[i]
Local(t, i) ==
  IF IsPtr(t.objects) THEN t.heap[t.objects.a].objects[i + 1]
  ELSE t.opstack[t.objects.i + i + 1]
SetLocal(t, i, v) ==
  IF IsPtr(t.objects) THEN [t EXCEPT !.heap[t.objects.a].objects[i + 1] = v]
  ELSE [t EXCEPT !.opstack[t.objects.i + i + 1] = v]

\* The environment that a binding of the current function is a slot of.
BoundEnv(t, binding) == t.opstack[t.bindmap.i + binding[1] + 1]

\* The environments from env outwards, 0 after the outermost.
Ancestors(heap, env) ==
  LET outward == [a \in 0 .. Len(heap) |->
                    IF a = 0 \/ heap[a].ty # "env" \/ ~IsPtr(heap[a].prev) THEN 0
                    ELSE heap[a].prev.a]
  IN  Walk(outward, IF IsPtr(env) THEN env.a ELSE 0, Len(heap))

\* env_display: the nearest of the environments, from env outwards, that has
\* this depth; there may be none.
EnvDisplay(heap, env, depth) ==
  LET at == Ancestors(heap, env)
      Ends(n) == n \notin DOMAIN at \/ at[n] = 0 \/ heap[at[n]].depth = depth
      n == CHOOSE n \in 0 .. Len(heap) + 1 : Ends(n) /\ \A m \in 0 .. n - 1 : ~Ends(m)
  IN  IF n \notin DOMAIN at \/ at[n] = 0 THEN NoPtr ELSE Ptr(at[n])

EnvNew(t, f, prev) ==
  Place(t, [ty |-> "env", prev |-> prev, depth |-> Function(f).depth, fn |-> f,
            objects |-> [i \in 1..Function(f).env_size |-> Fix(0)]])

\* _cons on the heap.
PlacePair(t, car, cdr) == Place(t, PairOf(car, cdr, Object(t, cdr)))

\* _list: of the values that lie in these places of the stack, the last one
\* first, which Longer puts in front.  The result ends up in the one local root.
Longer(threads, slots, n) ==
  {LET p == PlacePair(u, u.opstack[slots[Len(slots) + 1 - n]], u.local_roots[1])
   IN  [p EXCEPT !.local_roots = <<New(p)>>] : u \in UNION {MayCollect(v) : v \in threads}}

ListOfSlots(t, slots) ==
  LET listed[n \in 0 .. Len(slots)] ==
        IF n = 0 THEN {[t EXCEPT !.local_roots = <<Null>>]}
        ELSE Longer(listed[n - 1], slots, n)
  IN  listed[Len(slots)]

PushList(t, slots) ==
  {Push([u EXCEPT !.local_roots = <<>>], u.local_roots[1]) : u \in ListOfSlots(t, slots)}

-----------------------------------------------------------------------------
(* enter_interp, in its three parts.  Each gives the threads that may come  *)
(* of it.                                                                  *)

\* The arguments beyond the fixed ones go to a list, after they have been
\* popped.
Swallowed(t, fn, argc) ==
  LET i == argc - fn.argc
  IN  IF ~fn.swallow THEN {t}
      ELSE IF i = 0 THEN {Push(t, Null)}
      ELSE PushList(Pop(t, i), [j \in 1..i |-> t.idx - i + j])

ArgsEntered(fn, argc) == IF fn.swallow THEN fn.argc + 1 ELSE argc

HeapFrame(t, f, argc) ==
  {LET p == EnvNew(u, f, u.env)
       env == New(p)
   IN  [p EXCEPT !.env = env, !.objects = env,
                 !.heap[env.a].objects =
                   [i \in DOMAIN @ |-> IF i <= argc THEN p.opstack[p.idx - argc + i] ELSE @[i]],
                 !.idx = IF argc = 0 THEN @ ELSE 0] : u \in MayCollect(t)}

\* Mutant: arguments stay where they are.
StackFrameInPlace(t, argc) == [t EXCEPT !.objects = Slot(t.idx - argc)]

\* Arguments that lie high in the stack move to its bottom.
StackFrame(t, argc) ==
  IF t.idx > argc * 2
  THEN [t EXCEPT !.opstack = [i \in DOMAIN @ |-> IF i <= argc THEN @[t.idx - argc + i] ELSE @[i]],
                 !.objects = Slot(0), !.idx = argc]
  ELSE [t EXCEPT !.objects = Slot(t.idx - argc)]

\* Mutant: the bindmap is not reserved on the stack.
BindmapInitUnreserved(t, fn) ==
  LET envs == [i \in DOMAIN fn.bindmap |-> EnvDisplay(t.heap, t.env, fn.bindmap[i])]
  IN  IF fn.bindings = <<>> \/ t.bindmap # NoPtr THEN t
      ELSE [t EXCEPT !.bindmap = Slot(t.idx),
                     !.opstack = [i \in DOMAIN @ |->
                        IF i \in t.idx + 1 .. t.idx + Len(envs) THEN envs[i - t.idx] ELSE @[i]]]

\* bindmap_init; nothing tests that the stack has room.
BindmapInit(t, fn) ==
  LET envs == [i \in DOMAIN fn.bindmap |-> EnvDisplay(t.heap, t.env, fn.bindmap[i])]
      n == Len(envs)
  IN  IF fn.bindings = <<>> \/ t.bindmap # NoPtr THEN t
      ELSE IF t.idx + n > StackSize THEN Stop(t, "undefined")
      ELSE IF \E i \in 1..n : ~IsPtr(envs[i]) THEN Stop(t, "fatal")
      ELSE [t EXCEPT !.bindmap = Slot(t.idx), !.idx = @ + n,
                     !.opstack = [i \in DOMAIN @ |->
                        IF i \in t.idx + 1 .. t.idx + n THEN envs[i - t.idx] ELSE @[i]]]

EnterInterp(t, f, argc) ==
  LET fn == Function(f)
      n == ArgsEntered(fn, argc)
      swallowed == Swallowed([t EXCEPT !.func = f], fn, argc)
      entered == IF fn.heap_env THEN UNION {HeapFrame(u, f, n) : u \in swallowed}
                 ELSE {StackFrame(u, n) : u \in swallowed}
  IN  {BindmapInit([u EXCEPT !.heap_env = fn.heap_env], fn) : u \in entered}

-----------------------------------------------------------------------------
(* push_exception_handler and RAISE: call the handler on top of the list,  *)
(* with the exit as its continuation, or leave eval_thread.  The pair is   *)
(* held in a C local while the message is allocated.                       *)

Message == <<109>>   \* the text of any message
NoCall == <<>>
Calling(fp, argc) == <<fp, argc>>

CallHandler(t, handler, rest) ==
  LET p == Place(t, StringOf(Message))
  IN  [thread |-> PushAll([p EXCEPT !.exception_handlers = rest], <<Native("__exit"), New(p)>>),
       call |-> Calling(handler, 2)]

Raised(t) ==
  LET handlers == t.exception_handlers
      pair == Object(t, handlers)
  IN  IF ~IsType(t, handlers, {"pair"}) \/ ~IsProc(t, pair.car)
      THEN {[thread |-> Stop(t, "killed"), call |-> NoCall]}
      ELSE {CallHandler(t, pair.car, pair.cdr)}
             \cup (IF Collecting THEN {CallHandler(Collected(t), Stale, Stale)} ELSE {})

Raise(t) ==
  \E r \in Raised(t) : thread' = r.thread /\ call' = r.call

-----------------------------------------------------------------------------
(* Instructions.                                                           *)

Running == thread.status = "run"
Instruction == Fn.code[pc + 1]
Fetching(ops) == Running /\ call = NoCall /\ Instruction[1] \in ops
Arg == Instruction[2]
Binding == Fn.bindings[Arg + 1]

Next1(t) == thread' = t /\ pc' = pc + 1 /\ UNCHANGED <<module, call>>

Load ==
  /\ Fetching({"LOAD_LOCAL", "LOAD_CONST", "LOAD_FUNC", "PUSH_BOOL", "PUSH_NULL"})
  /\ LET op == Instruction[1]
     IN  Next1(Push(thread,
           CASE op = "LOAD_LOCAL" -> Local(thread, Arg)
             [] op = "LOAD_CONST" -> module.consts[Arg + 1]
             [] op = "LOAD_FUNC" -> Func(Arg)
             [] op = "PUSH_BOOL" -> CIf(Arg = 1)
             [] op = "PUSH_NULL" -> Null))

\* Does the pointer lead to an environment that has this slot?
HasSlot(env, i) == IsPtr(env) /\ i + 1 \in DOMAIN thread.heap[env.a].objects

LoadBind ==
  /\ Fetching({"LOAD_BIND"})
  /\ LET env == BoundEnv(thread, Binding)
     IN  Next1(IF HasSlot(env, Binding[2])
               THEN Push(thread, thread.heap[env.a].objects[Binding[2] + 1])
               ELSE Stop(thread, "undefined"))

LoadClosure ==
  /\ Fetching({"LOAD_CLOSURE"})
  /\ \E t \in MayCollect(thread) :
       LET p == Place(t, [ty |-> "closure", env |-> t.env, func |-> Arg])
       IN  Next1(Push(p, New(p)))

SetLocalSlot ==
  /\ Fetching({"SET_LOCAL"})
  /\ Next1(SetLocal(Pop(thread, 1), Arg, Top(thread, 1)))

SetBind ==
  /\ Fetching({"SET_BIND"})
  /\ LET env == BoundEnv(thread, Binding)
     IN  Next1(IF HasSlot(env, Binding[2])
               THEN [Pop(thread, 1) EXCEPT
                       !.heap[env.a].objects[Binding[2] + 1] = Top(thread, 1)]
               ELSE Stop(thread, "undefined"))

\* A jump counts from the instruction that follows it.
Jump ==
  /\ Fetching({"JUMP_IF_FALSE", "JUMP_FORWARD"})
  /\ LET conditional == Instruction[1] = "JUMP_IF_FALSE"
         taken == conditional => Top(thread, 1) = CIf(FALSE)
     IN  /\ thread' = IF conditional THEN Pop(thread, 1) ELSE thread
         /\ pc' = pc + 1 + IF taken THEN Arg ELSE 0
         /\ UNCHANGED <<module, call>>

\* Division truncates.
Abs(a) == IF a < 0 THEN -a ELSE a
Div(a, b) == LET q == Abs(a) \div Abs(b) IN IF (a < 0) = (b < 0) THEN q ELSE -q

\* Numbers are in two's complement, and all bits from NumberBits on are as
\* the sign.
NumberBits == 30
BitNot(a) == -1 - a
BitAnd(a, b) ==
  LET bit == [s \in [a : Int, b : Int, weight : Int, sum : Int] |->
                [a |-> s.a \div 2, b |-> s.b \div 2, weight |-> 2 * s.weight,
                 sum |-> s.sum + (IF s.a % 2 = 1 /\ s.b % 2 = 1 THEN s.weight ELSE 0)]]
      end == Walk(bit, [a |-> a, b |-> b, weight |-> 1, sum |-> 0], NumberBits)[NumberBits]
  IN  end.sum - (IF a < 0 /\ b < 0 THEN end.weight ELSE 0)
BitIor(a, b) == BitNot(BitAnd(BitNot(a), BitNot(b)))
BitXor(a, b) == BitIor(a, b) - BitAnd(a, b)

Compute(op, a, b) ==
  CASE op = "$+" -> Fix(a + b)
    [] op = "$-" -> Fix(a - b)
    [] op = "$*" -> Fix(a * b)
    [] op = "$/" -> Fix(Div(a, b))
    [] op = "$%" -> Fix(a - b * Div(a, b))
    [] op = "$<" -> CIf(a < b)
    [] op = "$>" -> CIf(a > b)
    [] op = "$=" -> CIf(a = b)
    [] op = "$and" -> Fix(BitAnd(a, b))
    [] op = "$ior" -> Fix(BitIor(a, b))
    [] op = "$xor" -> Fix(BitXor(a, b))

\* A division by zero ends the process.
Arithmetic ==
  /\ Fetching({"$+", "$-", "$*", "$/", "$%", "$<", "$>", "$=", "$and", "$ior", "$xor"})
  /\ LET op == Instruction[1]
         a == Top(thread, 2)
         b == Top(thread, 1)
         t == Pop(thread, 2)
     IN  Next1(IF a.k # "fix" \/ b.k # "fix" THEN Stop(t, "undefined")
               ELSE IF op \in {"$/", "$%"} /\ b.v = 0 THEN Stop(t, "fatal")
               ELSE Push(t, Compute(op, a.v, b.v)))

\* The number is pushed without a tag: the last three bits of it, where a tag
\* is looked for, make it a fixnum, a character or a pointer to nowhere.
PushUntagged(t, w) ==
  CASE w % 8 = 0 -> Push(t, Fix(w \div 8))
    [] w % 8 = 3 -> Push(t, Char(w \div 8))
    [] OTHER -> Stop(t, "undefined")

OpBitNot ==
  /\ Fetching({"$not"})
  /\ LET a == Top(thread, 1)
         t == Pop(thread, 1)
     IN  Next1(IF a.k # "fix" THEN Stop(t, "undefined") ELSE PushUntagged(t, BitNot(a.v)))

OpEqPtr ==
  /\ Fetching({"$eq?"})
  /\ Next1(Push(Pop(thread, 2), CIf(Top(thread, 2) = Top(thread, 1))))

\* Mutant: tests for true.
OpNotTrue ==
  /\ Fetching({"$!"})
  /\ Next1(Push(Pop(thread, 1), CIf(Top(thread, 1) = CIf(TRUE))))

OpNot ==
  /\ Fetching({"$!"})
  /\ Next1(Push(Pop(thread, 1), CIf(Top(thread, 1) = CIf(FALSE))))

OpCons ==
  /\ Fetching({"$cons"})
  /\ \E t \in MayCollect([Pop(thread, 2) EXCEPT
                             !.local_roots = <<Top(thread, 2), Top(thread, 1)>>]) :
       LET p == PlacePair(t, t.local_roots[1], t.local_roots[2])
       IN  Next1([Push(p, New(p)) EXCEPT !.local_roots = <<>>])

PairField ==
  /\ Fetching({"$car", "$cdr"})
  /\ LET a == Top(thread, 1)
         pair == Object(thread, a)
         t == Pop(thread, 1)
     IN  IF a = Stale THEN Next1(Stop(t, "undefined"))
         ELSE IF IsType(thread, a, {"pair"})
         THEN Next1(Push(t, IF Instruction[1] = "$car" THEN pair.car ELSE pair.cdr))
         ELSE Raise(t) /\ UNCHANGED <<module, pc>>

\* IS_LIST of a pair; a flag that was never written is on or off.
ListFlag(pair) == IF pair.len = Unset THEN BOOLEAN ELSE {pair.len > 0}

TestOf(test, v) ==
  CASE test = "TT_FIXNUM" -> {v.k = "fix"}
    [] test = "TT_NULL" -> {v = Null}
    [] test = "TT_LIST" -> IF IsType(thread, v, {"pair"}) THEN ListFlag(Object(thread, v))
                           ELSE {v = Null}
    [] test = "TT_PROCEDURE" -> {IsProc(thread, v)}
    [] test = "TT_BOOLEAN" -> {v.k = "bool"}
    [] test = "TT_CHAR" -> {v.k = "char"}
    [] test = "TT_EOF" -> {v = Eof}
    [] test = "TT_PAIR" -> {IsType(thread, v, {"pair"})}
    [] test = "TT_SYMBOL" -> {IsType(thread, v, {"symbol"})}
    [] test = "TT_STRUCT" -> {IsType(thread, v, {"struct"})}
    [] test = "TT_STRING" -> {IsType(thread, v, {"string"})}
    [] test = "TT_BYTEVECTOR" -> {IsType(thread, v, {"bytevector"})}

OpTypeTest ==
  /\ Fetching({"$type-test"})
  /\ \E yes \in TestOf(Arg, Top(thread, 1)) : Next1(Push(Pop(thread, 1), CIf(yes)))

FuncCall ==
  /\ Fetching({"FUNC_CALL"})
  /\ thread' = Pop(thread, 1)
  /\ call' = Calling(Top(thread, 1), Arg)
  /\ UNCHANGED <<module, pc>>

-----------------------------------------------------------------------------
(* dispatch_func.                                                          *)

Dispatching == Running /\ call # NoCall
Fp == call[1]
Argc == call[2]

\* A continuation stands for its function; its own continuation is dropped.
CallCont ==
  /\ Dispatching /\ IsType(thread, Fp, {"cont"})
  /\ call' = Calling(thread.heap[Fp.a].func, Argc - 1)
  /\ UNCHANGED <<module, thread, pc>>

Callable == IsFunc(Fp) \/ IsType(thread, Fp, {"closure"})

\* A closure brings its environment, a plain function runs in the current one.
Switched ==
  IF IsFunc(Fp) THEN [thread EXCEPT !.bindmap = NoPtr, !.closure = NoPtr]
  ELSE [thread EXCEPT !.env = thread.heap[Fp.a].env, !.bindmap = NoPtr, !.closure = Fp]

Interpreted == Fp.k # "native"
Callee == IF IsPtr(Fp) THEN thread.heap[Fp.a].func ELSE Fp.f

Header ==
  IF Interpreted THEN <<Function(Callee).argc, Function(Callee).swallow>>
  ELSE NativeHeader[Fp.n]

ArityOk == IF Header[2] THEN Argc >= Header[1] ELSE Argc = Header[1]

CallInterp ==
  /\ Dispatching /\ Callable /\ ArityOk /\ Interpreted
  /\ thread' \in EnterInterp(Switched, Callee, Argc)
  /\ pc' = 0 /\ call' = NoCall /\ UNCHANGED module

RaiseArity ==
  /\ Dispatching /\ Callable /\ ~ArityOk
  /\ Raise(Switched) /\ UNCHANGED <<module, pc>>

\* A number, boolean or the like is an exception, another object the end.
CallNonProcedure ==
  /\ Dispatching /\ ~IsProc(thread, Fp)
  /\ IF Fp = Stale \/ IsPtr(Fp)
     THEN /\ thread' = Stop(thread, IF Fp = Stale THEN "undefined" ELSE "fatal")
          /\ call' = NoCall
     ELSE Raise(thread)
  /\ UNCHANGED <<module, pc>>

-----------------------------------------------------------------------------
(* The natives.  One that returns a value pushes it, and its continuation  *)
(* is called; call/cc and apply say what to call instead.                  *)

Called(n) ==
  Dispatching /\ Fp = Native(n) /\ ArityOk
Argument(n) == Argv(Switched, Argc, n)

\* RETURN_OBJ
Returning(t, v) ==
  /\ thread' = Push(t, v)
  /\ call' = Calling(Argument(1), 1)
  /\ UNCHANGED <<module, pc>>

Fails == Raise(Switched) /\ UNCHANGED <<module, pc>>

\* The characters up to the first zero, or on past the text that has none.
CText(o, behind) ==
  LET bytes == (IF o.zero THEN o.s ELSE o.s \o behind) \o <<0>>
  IN  SubSeq(bytes, 1, SelectInSeq(bytes, LAMBDA c : c = 0) - 1)

\* What lies behind a text that ends with its block: a zero, or the header of
\* the next block.
BehindBlock == {<<>>, <<1>>}

\* What has an address.
Addressed(t) == {Ptr(a) : a \in DOMAIN t.heap} \cup {Const(a) : a \in DOMAIN module.objects}

\* print_obj
Shown(t, v, behind) ==
  LET places == Addressed(t)
      Plain(u) ==
        CASE IsProc(t, u) -> [k |-> "proc"]
          [] u.k = "fix" -> [k |-> "num", v |-> u.v]
          [] u.k = "char" -> Char(Short(u.c))
          [] u = Null -> [k |-> "nil"]
          [] OTHER -> u
      shown[p \in places] ==
        LET o == Object(t, p)
            Item(u) == IF u \in places THEN shown[u] ELSE Plain(u)
        IN  CASE o.ty = "pair" -> [k |-> "pair", car |-> Item(o.car), cdr |-> Item(o.cdr)]
              [] o.ty = "struct" -> [k |-> "vec", type |-> o.type.s,
                                     items |-> [i \in DOMAIN o.fields |-> Item(o.fields[i])]]
              [] o.ty = "string" -> [k |-> "str", s |-> CText(o, behind)]
              [] o.ty = "bytevector" -> [k |-> "bytes", data |-> o.data]
              [] OTHER -> Plain(p)
  IN  IF v \in places THEN shown[v] ELSE Plain(v)

\* May the object be shown, or has a text in it been lost?
Readable(t, v) ==
  LET places == Addressed(t)
      readable[p \in places] ==
        LET o == Object(t, p)
            Item(u) == IF u \in places THEN readable[u] ELSE u # Stale
        IN  CASE o.ty = "pair" -> Item(o.car) /\ Item(o.cdr)
              [] o.ty = "struct" -> \A i \in DOMAIN o.fields : Item(o.fields[i])
              [] o.ty = "string" -> o.at # "lost"
              [] OTHER -> TRUE
  IN  IF v \in places THEN readable[v] ELSE v # Stale

\* Something happens that the code does not define.
Undefined ==
  /\ thread' = Stop(Switched, "undefined")
  /\ call' = NoCall
  /\ UNCHANGED <<module, pc>>

Display ==
  /\ Called("display")
  /\ IF ~Readable(thread, Argument(2)) THEN Undefined
     ELSE \E behind \in BehindBlock :
            Returning([Switched EXCEPT !.out = Append(@, Shown(thread, Argument(2), behind))],
                      Void)

VmExit ==
  /\ Called("__exit")
  /\ thread' = Stop(Switched, "exit")
  /\ call' = NoCall
  /\ UNCHANGED <<module, pc>>

CallCc ==
  /\ Called("callcc")
  /\ IF IsProc(thread, Argument(2))
     THEN \E t \in MayCollect(Push(Switched, Argument(1))) :
            LET p == Place(t, [ty |-> "cont", func |-> Top(t, 1)])
            IN  /\ thread' = Push(p, New(p))
                /\ call' = Calling(Top(t, 2), 2)
                /\ UNCHANGED <<module, pc>>
     ELSE Fails

\* The values of a list, as far as it consists of pairs.
Elements(t, l) ==
  LET Pair(v) == IF v \in Addressed(t) /\ IsType(t, v, {"pair"}) THEN v ELSE NoPtr
      rest == [v \in Addressed(t) \cup {NoPtr} |->
                 IF v = NoPtr \/ ~IsType(t, v, {"pair"}) THEN NoPtr ELSE Pair(Object(t, v).cdr)]
      cells == Len(t.heap) + Len(module.objects)
      at == Walk(rest, Pair(l), cells)
      n == CHOOSE n \in 0 .. cells + 1 :
             (n \notin DOMAIN at \/ at[n] = NoPtr) /\ \A k \in 0 .. n - 1 : at[k] # NoPtr
  IN  [i \in 1..n |-> Object(t, at[i - 1]).car]

Apply ==
  /\ Called("apply")
  /\ IF IsProc(thread, Argument(2)) /\ IsType(thread, Argument(3), {"pair"})
     THEN LET args == <<Argument(1)>> \o Elements(thread, Argument(3))
          IN  /\ thread' = PushAll(Switched, args)
              /\ call' = Calling(Argument(2), Len(args))
              /\ UNCHANGED <<module, pc>>
     ELSE Fails

ReturningList(slots) ==
  \E t \in PushList(Switched, slots) :
    /\ thread' = t
    /\ call' = Calling(Argv(t, Argc + 1, 1), 1)
    /\ UNCHANGED <<module, pc>>

List ==
  /\ Called("list")
  /\ ReturningList([j \in 1 .. Argc - 1 |-> thread.idx - Argc + 1 + j])

\* A list of as many times the same value.
MakeList ==
  /\ Called("make_list")
  /\ IF Argument(2).k = "fix" THEN ReturningList([j \in 1..Argument(2).v |-> thread.idx])
     ELSE Fails

\* The length that the pair has kept since it was made.
Length ==
  /\ Called("length")
  /\ LET l == Argument(2)
     IN  IF l = Null THEN Returning(Switched, Fix(0))
         ELSE IF ~IsType(thread, l, {"pair"}) THEN Fails
         ELSE \E flag \in ListFlag(Object(thread, l)) :
                IF ~flag THEN Fails
                ELSE IF Object(thread, l).len = Unset
                THEN thread' = Stop(Switched, "undefined") /\ UNCHANGED <<module, pc, call>>
                ELSE Returning(Switched, Fix(Object(thread, l).len))

GetEof == Called("eof_object") /\ Returning(Switched, Eof)

CharToInteger ==
  /\ Called("char_to_integer")
  /\ IF Argument(2).k = "char" THEN Returning(Switched, Fix(Short(Argument(2).c))) ELSE Fails

IntegerToChar ==
  /\ Called("integer_to_char")
  /\ IF Argument(2).k = "fix" THEN Returning(Switched, Char(Argument(2).v)) ELSE Fails

LibraryCache ==
  /\ Called("library_cache")
  /\ IF Argc # 2 THEN Returning(Switched, thread.lib_cache)
     ELSE IF IsType(thread, Argument(2), {"pair"})
     THEN Returning([Switched EXCEPT !.lib_cache = Argument(2)], Void)
     ELSE Fails

GetVoid == Called("void") /\ Returning(Switched, Void)

ExceptionHandlers ==
  /\ Called("handlers")
  /\ IF Argc # 2 THEN Returning(Switched, thread.exception_handlers)
     ELSE IF IsType(thread, Argument(2), {"pair"}) \/ Argument(2) = Null
     THEN Returning([Switched EXCEPT !.exception_handlers = Argument(2)], Void)
     ELSE Fails

-----------------------------------------------------------------------------

\* First time initialization: the entry point always has an environment on
\* the heap, and the exit is its continuation.
Started(m) ==
  LET fn == m.functions[m.entry_point + 1]
      objects == [i \in 1..fn.env_size |-> IF i = 1 THEN Native("__exit") ELSE Fix(0)]
  IN  [heap |-> <<[ty |-> "env", prev |-> NoPtr, depth |-> fn.depth, fn |-> m.entry_point,
                   objects |-> objects]>>,
       opstack |-> [i \in 1..StackSize |-> Fix(0)], idx |-> 0, objects |-> Ptr(1),
       env |-> Ptr(1), bindmap |-> NoPtr, func |-> m.entry_point, closure |-> NoPtr,
       heap_env |-> TRUE, lib_cache |-> Null, exception_handlers |-> Null,
       local_roots |-> <<>>, out |-> <<>>, status |-> "run"]

\* A program that does not compile never gets here.
NotCompiled == [status |-> "uncompiled", out |-> <<>>]

Start(m) ==
  /\ module = m
  /\ thread = IF m.err THEN NotCompiled ELSE Started(m)
  /\ pc = 0
  /\ call = NoCall

\* eval_thread has returned.
Stopped == ~Running /\ UNCHANGED vars

Step ==
  \/ Load \/ LoadBind \/ LoadClosure \/ SetLocalSlot \/ SetBind \/ Jump
  \/ Arithmetic \/ OpBitNot \/ OpEqPtr \/ OpNot \/ OpCons \/ PairField \/ OpTypeTest
  \/ FuncCall
  \/ CallCont \/ CallInterp \/ RaiseArity \/ CallNonProcedure
  \/ Display \/ VmExit \/ CallCc \/ Apply \/ List \/ MakeList \/ Length
  \/ GetVoid \/ GetEof \/ CharToInteger \/ IntegerToChar
  \/ ExceptionHandlers \/ LibraryCache
  \/ Stopped
=============================================================================

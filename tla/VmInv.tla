-------------------------------- MODULE VmInv --------------------------------
(***************************************************************************)
(* What holds in the machine whatever program it runs, as long as the      *)
(* bytecode is in order, and the inductive invariant that it rests on.     *)
(* The compiler gives every instruction the height of the operands that    *)
(* lie on the stack when it is reached; a module is in order when the      *)
(* heights agree and every operand of an instruction is within bounds.     *)
(***************************************************************************)
EXTENDS Natives

-----------------------------------------------------------------------------
(* Bytecode that is in order.                                              *)

IsSeq(s) == s \in Seq(ToSet(s))

Unreached == -1   \* the height of an instruction that no other leads to

Pushing == {"LOAD_LOCAL", "LOAD_CONST", "LOAD_FUNC", "PUSH_BOOL", "PUSH_NULL", "LOAD_BIND",
            "LOAD_CLOSURE"}
Replacing == {"$not", "$!", "$car", "$cdr", "$type-test"}
Joining == {"$+", "$-", "$*", "$/", "$%", "$<", "$>", "$=", "$and", "$ior", "$xor",
            "$eq?", "$cons"}
Popping == {"SET_LOCAL", "SET_BIND", "JUMP_IF_FALSE"}

\* The operands that an instruction needs, and how many more there are after it.
Needs(ins) ==
  CASE ins[1] \in Replacing \cup Popping -> 1
    [] ins[1] \in Joining -> 2
    [] ins[1] = "FUNC_CALL" -> 1 + ins[2]
    [] OTHER -> 0
Grows(ins) ==
  CASE ins[1] \in Pushing -> 1
    [] ins[1] \in Joining \cup Popping -> -1
    [] OTHER -> 0

Arguments(fn) == ArgsEntered(fn, fn.argc)

\* The entry point has its variables on the heap, as has a function that says so.
Slots(f) ==
  IF f = module.entry_point \/ Function(f).heap_env THEN Function(f).env_size
  ELSE Arguments(Function(f))

Loadable == (0 .. Len(module.functions) - 1) \ {module.entry_point}

InBounds(f, ins) ==
  /\ ins[1] \in {"LOAD_LOCAL", "SET_LOCAL"} => ins[2] \in 0 .. Slots(f) - 1
  /\ ins[1] = "LOAD_CONST" => ins[2] + 1 \in DOMAIN module.consts
  /\ ins[1] \in {"LOAD_FUNC", "LOAD_CLOSURE"} => ins[2] \in Loadable
  /\ ins[1] \in {"LOAD_BIND", "SET_BIND"} => ins[2] + 1 \in DOMAIN Function(f).bindings
  /\ ins[1] \in {"JUMP_IF_FALSE", "JUMP_FORWARD", "FUNC_CALL"} => ins[2] \in Nat

\* Where control can be after the i-th instruction, a call apart.
Successors(code, i) ==
  (IF code[i][1] \in {"FUNC_CALL", "JUMP_FORWARD"} THEN {} ELSE {i + 1})
    \cup (IF code[i][1] \in {"JUMP_IF_FALSE", "JUMP_FORWARD"} THEN {i + 1 + code[i][2]} ELSE {})

CodeOK(f) ==
  LET code == Function(f).code
      height == module.heights[f + 1]
  IN  /\ 1 \in DOMAIN code /\ height[1] = 0
      /\ \A i \in DOMAIN code :
           height[i] # Unreached =>
             /\ height[i] \in 0 .. i - 1
             /\ Needs(code[i]) <= height[i]
             /\ InBounds(f, code[i])
             /\ \A j \in Successors(code, i) :
                  j \in DOMAIN code /\ height[j] = height[i] + Grows(code[i])

FunctionOK(f) ==
  LET fn == Function(f)
  IN  /\ fn.argc \in Nat /\ fn.env_size \in Nat
      /\ fn.swallow \in BOOLEAN /\ fn.heap_env \in BOOLEAN
      /\ Arguments(fn) <= fn.env_size
      /\ fn.heap_env => Arguments(fn) > 0
      /\ IsSeq(fn.bindmap) /\ IsSeq(fn.code)
      /\ \A i \in DOMAIN fn.bindings : fn.bindings[i][1] \in 0 .. Len(fn.bindmap) - 1
      /\ fn.bindings = <<>> \/ f = module.entry_point => fn.bindings = <<>> /\ fn.bindmap = <<>>
      /\ CodeOK(f)

-----------------------------------------------------------------------------
(* Values and objects.  barred: the kinds of values that do not occur; that *)
(* is "stale" as long as no collection has lost a pointer.                 *)

Value(barred, heap, v) ==
  /\ v.k \notin barred
  /\ v.k = "ptr" => v.a \in DOMAIN heap
  /\ v.k = "const" => v.a \in DOMAIN module.objects
  /\ v.k = "func" => v.f \in Loadable
  /\ v.k = "fix" => v.v \in Int
  /\ v.k = "char" => v.c \in Int
  /\ v.k = "symbol" => v.s \in Seq(Int)

EnvValue(heap, v) == v.k = "ptr" /\ v.a \in DOMAIN heap /\ heap[v.a].ty = "env"

\* What an object holds, whoever it belongs to.
DataOK(barred, heap, o) ==
  /\ o.ty = "pair" => /\ DOMAIN o = {"ty", "car", "cdr", "len"}
                      /\ Value(barred, heap, o.car) /\ Value(barred, heap, o.cdr)
                      /\ o.len \in Int
  /\ o.ty = "struct" => /\ DOMAIN o = {"ty", "type", "fields"}
                        /\ \A i \in DOMAIN o.fields : Value(barred, heap, o.fields[i])
                        /\ IsSeq(o.fields)
                        /\ o.type.k = "symbol" /\ o.type.s \in Seq(Int)
  /\ o.ty = "string" => /\ DOMAIN o = {"ty", "s", "at", "allocated", "zero"}
                        /\ o.s \in Seq(Int)
  /\ o.ty = "bytevector" => DOMAIN o = {"ty", "data"}

ObjectOK(barred, heap, o) ==
  /\ o.ty \in {"env", "closure", "cont", "pair", "struct", "string", "bytevector"}
  /\ o.ty = "env" => /\ DOMAIN o = {"ty", "prev", "depth", "fn", "objects"}
                     /\ IsPtr(o.prev) => EnvValue(heap, o.prev)
                     /\ o.prev.k \in {"ptr", "none"}
                     /\ \A i \in DOMAIN o.objects : Value(barred, heap, o.objects[i])
                     /\ IsSeq(o.objects)
  /\ o.ty = "closure" => /\ DOMAIN o = {"ty", "env", "func"}
                         /\ EnvValue(heap, o.env) /\ o.func \in Loadable
  /\ o.ty = "cont" => DOMAIN o = {"ty", "func"} /\ Value(barred, heap, o.func)
  /\ DataOK(barred, heap, o)

\* Nothing in the constants of a module points to the heap, and their texts are
\* in the mapped file.
Constant(v) == v.k \notin {"ptr", "func", "stale"} /\ Value({"stale"}, <<>>, v)

ConstantsOK ==
  /\ \A i \in DOMAIN module.consts : Constant(module.consts[i])
  /\ \A a \in DOMAIN module.objects :
       LET o == module.objects[a]
       IN  /\ o.ty \in {"pair", "struct", "string"}
           /\ DataOK({"stale"}, <<>>, o)
           /\ o.ty = "pair" => Constant(o.car) /\ Constant(o.cdr)
           /\ o.ty = "struct" => \A i \in DOMAIN o.fields : Constant(o.fields[i])
           /\ o.ty = "string" => o.at = "file"

ModuleOK ==
  /\ module.err = FALSE
  /\ IsSeq(module.functions) /\ IsSeq(module.objects)
  /\ module.entry_point \in 0 .. Len(module.functions) - 1
  /\ \A f \in 0 .. Len(module.functions) - 1 : FunctionOK(f)
  /\ ConstantsOK
-----------------------------------------------------------------------------
(* The inductive invariant of a running machine.                           *)

AllRegisters(t) ==
  DOMAIN t = {"heap", "opstack", "idx", "objects", "env", "bindmap", "func", "closure",
              "heap_env", "lib_cache", "exception_handlers", "local_roots", "out", "status"}

\* What a collection finds in order and leaves in order, wherever it happens.
HeapOK(barred, t) ==
  /\ AllRegisters(t)
  /\ IsSeq(t.heap)
  /\ \A a \in DOMAIN t.heap : ObjectOK(barred, t.heap, t.heap[a])
  /\ DOMAIN t.opstack = 1..StackSize
  /\ t.idx \in 0..StackSize
  /\ \A i \in 1 .. t.idx : Value(barred, t.heap, t.opstack[i])
  /\ EnvValue(t.heap, t.env)
  /\ \A v \in {t.closure, t.lib_cache, t.exception_handlers} : Value(barred, t.heap, v)
  /\ t.heap_env \in BOOLEAN
  /\ IF t.heap_env THEN EnvValue(t.heap, t.objects) ELSE t.objects.k = "slot"

ThreadOK(barred, t) == HeapOK(barred, t) /\ t.local_roots = <<>>

\* Where the arguments of the current function end.
Base(t) == IF t.heap_env THEN 0 ELSE t.objects.i + Arguments(Function(t.func))

\* The operands lie above the arguments and the bindmap, as many as the
\* height of the next instruction says.
FrameOK(t, at) ==
  LET fn == Function(t.func)
      height == module.heights[t.func + 1]
  IN  /\ t.func \in 0 .. Len(module.functions) - 1
      /\ at + 1 \in DOMAIN fn.code /\ at \in Nat /\ height[at + 1] # Unreached
      /\ t.idx = Base(t) + Len(fn.bindmap) + height[at + 1]
      /\ IF t.heap_env THEN /\ t.objects = t.env
                            /\ Len(t.heap[t.env.a].objects) = fn.env_size
         ELSE /\ t.objects.i \in 0 .. Arguments(fn)
              /\ Slots(t.func) = Arguments(fn)
      /\ fn.bindings # <<>> => t.bindmap = Slot(Base(t))
      /\ \A i \in 1 .. Len(fn.bindmap) : EnvValue(t.heap, t.opstack[Base(t) + i])

\* The arguments of a call lie on the stack.
CallOK(barred, t, c) ==
  /\ c = <<c[1], c[2]>>
  /\ Value(barred, t.heap, c[1])
  /\ c[2] \in Int /\ c[2] <= t.idx

StateOK(barred, t, at, c) ==
  t.status = "run" =>
    /\ ThreadOK(barred, t)
    /\ IF c = NoCall THEN FrameOK(t, at) ELSE CallOK(barred, t, c)

MachineOK(barred) == StateOK(barred, thread, pc, call)

IInv == MachineOK({"stale"})

-----------------------------------------------------------------------------
(* Where a collection loses a pointer: in two places, and nowhere else.    *)

\* A handler would be called for an exception that this thread raises.
HasHandler(t) ==
  IsType(t, t.exception_handlers, {"pair"}) /\ IsProc(t, Object(t, t.exception_handlers).car)

\* push_exception_handler: the handlers' pair is in a C local when the message
\* is allocated.
LosesHandler ==
  \E t \in {Pop(thread, 1)} \cup (IF call = NoCall THEN {} ELSE {thread, Switched}) :
    HasHandler(t) /\ Collecting /\ thread' = CallHandler(Collected(t), Stale, Stale).thread

\* enter_interp: what goes to the list of the rest has been popped when the
\* pairs are allocated.
LosesRest ==
  /\ Dispatching /\ Callable /\ ArityOk /\ Interpreted
  /\ Function(Callee).swallow /\ Collecting
  /\ \E i \in 1 .. Argc - Function(Callee).argc : IsPtr(Top(thread, i))

Losing == LosesHandler \/ LosesRest

\* The machine on any bytecode that is in order.
MachineSpec == ModuleOK /\ Start(module) /\ [][Next]_vars

\* And as long as no collection has lost a pointer.
LosslessSpec == MachineSpec /\ [][~Losing]_vars

-----------------------------------------------------------------------------
(* Properties.                                                             *)

Statuses == {"run", "exit", "killed", "fatal", "undefined", "uncompiled"}

\* The thread's registers fit together, and control is always on an
\* instruction of the current function: no jump leads past its end
\* (src/vm/vm.c:341-349, src/scheme/compiler/compiler.scm:219-227).
TypeOK ==
  /\ thread.status \in Statuses
  /\ Running =>
       /\ thread.idx \in 0..StackSize
       /\ thread.func \in 0 .. Len(module.functions) - 1
       /\ call = NoCall => pc \in 0 .. Len(Fn.code) - 1
       /\ IsPtr(thread.env) /\ thread.heap[thread.env.a].ty = "env"

\* What the program can still use: registers, the live part of the stack, the
\* locals of the current function.
InUse ==
  {thread.env, thread.closure, thread.lib_cache, thread.exception_handlers, thread.objects}
    \cup {thread.opstack[i] : i \in 1..thread.idx} \cup ToSet(thread.local_roots)

\* No value in use, and none that it leads to, has been left behind by a
\* collection: thread_get_roots, thread_after_gc and the visitors between them
\* find every pointer (src/vm/vm.c:580-608).
NoStale ==
  Running =>
    /\ Stale \notin InUse
    /\ \A a \in DOMAIN thread.heap : Stale \notin ToSet(Fields(thread.heap[a]))

\* A call leaves at most twice its arguments and the bindmap on the stack, so
\* that a program that never returns from a call, as all do in continuation
\* passing style, does not fill it (src/vm/vm.c:184-197).
StackBounded ==
  (Running /\ call = NoCall) =>
    thread.idx <= 2 * Arguments(Fn) + Len(Fn.bindmap) + pc

\* Operands never reach down into the arguments and the bindmap of a function
\* that keeps them on the stack.
FrameKept ==
  (Running /\ call = NoCall) =>
    thread.idx >= Len(Fn.bindmap) +
      (IF IsPtr(thread.objects) THEN 0 ELSE thread.objects.i + Arguments(Fn))
=============================================================================

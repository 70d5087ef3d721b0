---------------------------- MODULE NativesProofs ----------------------------
(***************************************************************************)
(* Proofs about Vm and Natives: calls and natives keep the invariant of    *)
(* VmInv, and what follows from it holds for every module whose bytecode   *)
(* is in order and every size of the operand stack.                        *)
(***************************************************************************)
EXTENDS VmProofs

-----------------------------------------------------------------------------
(* The dispatch of a call.                                                 *)

LEMMA AtCall ==
  ASSUME NEW barred, MachineOK(barred), Dispatching
  PROVE  /\ HeapOK(barred, thread) /\ thread.local_roots = <<>> /\ AllRegisters(thread)
         /\ Value(barred, thread.heap, Fp) /\ Argc \in Int /\ Argc <= thread.idx
         /\ thread.idx \in 0..StackSize /\ call # NoCall
BY DEF MachineOK, StateOK, ThreadOK, CallOK, Dispatching, Running, Fp, Argc, HeapOK

LEMMA SwitchedIs ==
  ASSUME NEW barred \in SUBSET {"stale"}, ModuleOK, MachineOK(barred), Dispatching, Callable
  PROVE  \A s : s = Switched =>
           /\ HeapOK(barred, s) /\ s.local_roots = <<>> /\ SameStack(thread, s)
           /\ s.heap = thread.heap /\ s.bindmap = NoPtr /\ s.status = "run"
           /\ s.lib_cache = thread.lib_cache /\ s.exception_handlers = thread.exception_handlers
<1>1. SUFFICES ASSUME NEW s, s = Switched
               PROVE  /\ HeapOK(barred, s) /\ s.local_roots = <<>> /\ SameStack(thread, s)
                      /\ s.heap = thread.heap /\ s.bindmap = NoPtr /\ s.status = "run"
                      /\ s.lib_cache = thread.lib_cache
                      /\ s.exception_handlers = thread.exception_handlers
  OBVIOUS
<1>2. /\ HeapOK(barred, thread) /\ thread.local_roots = <<>> /\ AllRegisters(thread)
      /\ Value(barred, thread.heap, Fp) /\ thread.status = "run"
  BY AtCall DEF Dispatching, Running
<1>3. PICK e, c : e = (IF IsFunc(Fp) THEN thread.env ELSE thread.heap[Fp.a].env)
                  /\ c = (IF IsFunc(Fp) THEN NoPtr ELSE Fp)
  OBVIOUS
<1>4. s = [thread EXCEPT !.env = e, !.bindmap = NoPtr, !.closure = c]
  <2>1. CASE IsFunc(Fp)
    <3>1. s = [thread EXCEPT !.bindmap = NoPtr, !.closure = NoPtr]
      BY <1>1, <2>1 DEF Switched
    <3>2. e = thread.env /\ c = NoPtr
      BY <1>3, <2>1
    <3>3. QED
      BY <1>2, <3>1, <3>2 DEF AllRegisters
  <2>2. CASE ~IsFunc(Fp)
    BY <1>1, <1>3, <2>2 DEF Switched
  <2>3. QED
    BY <2>1, <2>2
<1>5. /\ AllRegisters(s) /\ s.heap = thread.heap /\ SameStack(thread, s) /\ s.env = e
      /\ s.objects = thread.objects /\ s.heap_env = thread.heap_env /\ s.closure = c
      /\ s.lib_cache = thread.lib_cache /\ s.exception_handlers = thread.exception_handlers
      /\ s.local_roots = thread.local_roots /\ s.status = thread.status /\ s.bindmap = NoPtr
  BY <1>2, <1>4 DEF AllRegisters, SameStack
<1>6. EnvValue(thread.heap, e)
  <2>1. CASE IsFunc(Fp)
    BY <1>2, <1>3, <2>1 DEF HeapOK
  <2>2. CASE ~IsFunc(Fp)
    <3>1. Object(thread, Fp).ty = "closure"
      BY <2>2 DEF Callable, IsType
    <3>2. IsPtr(Fp)
      BY <1>2, <3>1, Leads
    <3>3. Object(thread, Fp) = thread.heap[Fp.a] /\ ObjectOK(barred, thread.heap, thread.heap[Fp.a])
      BY <1>2, <3>2, Leads
    <3>4. QED
      BY <1>3, <2>2, <3>1, <3>3 DEF ObjectOK
  <2>3. QED
    BY <2>1, <2>2
<1>7. Value(barred, thread.heap, c)
  BY <1>2, <1>3, Immediates
<1>8. Value(barred, thread.heap, thread.lib_cache) /\ Value(barred, thread.heap, thread.exception_handlers)
  BY <1>2 DEF HeapOK
<1>9. HeapOK(barred, s)
  BY <1>2, <1>5, <1>6, <1>7, <1>8, HeapSame
<1>10. QED
  BY <1>2, <1>5, <1>9

LEMMA CallContStep ==
  ASSUME NEW barred \in SUBSET {"stale"}, ModuleOK, MachineOK(barred), CallCont
  PROVE  MachineOK(barred)'
<1>1. /\ Dispatching /\ IsType(thread, Fp, {"cont"}) /\ thread' = thread /\ module' = module
      /\ call' = Calling(thread.heap[Fp.a].func, Argc - 1)
  BY DEF CallCont
<1>2. /\ HeapOK(barred, thread) /\ thread.local_roots = <<>> /\ AllRegisters(thread)
      /\ Value(barred, thread.heap, Fp) /\ Argc \in Int /\ Argc <= thread.idx
      /\ thread.idx \in 0..StackSize
  BY <1>1, AtCall
<1>3. Object(thread, Fp).ty = "cont"
  BY <1>1 DEF IsType
<1>4. IsPtr(Fp)
  BY <1>2, <1>3, Leads
<1>5. Object(thread, Fp) = thread.heap[Fp.a] /\ ObjectOK(barred, thread.heap, thread.heap[Fp.a])
  BY <1>2, <1>4, Leads
<1>6. PICK v, n, p : v = thread.heap[Fp.a].func /\ n = Argc - 1 /\ p = thread
  OBVIOUS
<1>7. Value(barred, p.heap, v)
  BY <1>3, <1>5, <1>6 DEF ObjectOK
<1>8. n \in Int /\ n <= p.idx /\ HeapOK(barred, p) /\ p.local_roots = <<>>
  BY <1>2, <1>6, VmAssumption
<1>9. thread' = p /\ call' = Calling(v, n) /\ module' = module
  BY <1>1, <1>6
<1>10. QED
  BY <1>7, <1>8, <1>9, Calls

LEMMA SwitchedRaises ==
  ASSUME NEW barred \in SUBSET {"stale"}, ModuleOK, MachineOK(barred), Dispatching, Callable,
         Fails, "stale" \in barred => ~Losing
  PROVE  MachineOK(barred)'
<1>1. PICK s : s = Switched
  OBVIOUS
<1>2. HeapOK(barred, s) /\ s.local_roots = <<>>
  BY <1>1, SwitchedIs
<1>3. Raise(s) /\ module' = module
  BY <1>1 DEF Fails
<1>4. "stale" \in barred =>
        ~(HasHandler(s) /\ Collecting /\ thread' = CallHandler(Collected(s), Stale, Stale).thread)
  BY <1>1 DEF Losing, LosesHandler, Dispatching
<1>5. QED
  BY <1>2, <1>3, <1>4, RaiseStep

LEMMA RaiseArityStep ==
  ASSUME NEW barred \in SUBSET {"stale"}, ModuleOK, MachineOK(barred), RaiseArity,
         "stale" \in barred => ~Losing
  PROVE  MachineOK(barred)'
<1>1. Dispatching /\ Callable /\ Fails
  BY DEF RaiseArity, Fails
<1>2. QED
  BY <1>1, SwitchedRaises

LEMMA CallNonProcedureStep ==
  ASSUME NEW barred \in SUBSET {"stale"}, ModuleOK, MachineOK(barred), CallNonProcedure,
         "stale" \in barred => ~Losing
  PROVE  MachineOK(barred)'
<1>1. Dispatching /\ module' = module
  BY DEF CallNonProcedure
<1>2. HeapOK(barred, thread) /\ thread.local_roots = <<>>
  BY <1>1, AtCall
<1>3. CASE Fp = Stale \/ IsPtr(Fp)
  <2>1. PICK p : p = Stop(thread, IF Fp = Stale THEN "undefined" ELSE "fatal")
    OBVIOUS
  <2>2. thread' = p
    BY <1>3, <2>1 DEF CallNonProcedure
  <2>3. p.status # "run"
    BY <1>2, <2>1, StopIs DEF HeapOK
  <2>4. QED
    BY <2>2, <2>3, StoppedIs
<1>4. CASE ~(Fp = Stale \/ IsPtr(Fp))
  <2>1. PICK t : t = thread
    OBVIOUS
  <2>2. Raise(t)
    BY <1>4, <2>1 DEF CallNonProcedure
  <2>3. "stale" \in barred =>
        ~(HasHandler(t) /\ Collecting /\ thread' = CallHandler(Collected(t), Stale, Stale).thread)
    BY <1>1, <2>1 DEF Losing, LosesHandler, Dispatching
  <2>4. QED
    BY <1>1, <1>2, <2>1, <2>2, <2>3, RaiseStep
<1>5. QED
  BY <1>3, <1>4

LEMMA ArgumentsAre ==
  ASSUME NEW barred \in SUBSET {"stale"}, ModuleOK, MachineOK(barred), Dispatching, Callable
  PROVE  /\ \A i \in 1..Argc : Value(barred, thread.heap, Argument(i))
         /\ \A i : Argument(i) = thread.opstack[thread.idx - Argc + i]
<1>1. HeapOK(barred, thread) /\ Argc \in Int /\ Argc <= thread.idx /\ thread.idx \in 0..StackSize
  BY AtCall
<1>2. PICK s : s = Switched
  OBVIOUS
<1>3. SameStack(thread, s)
  BY <1>2, SwitchedIs
<1>4. \A i : Argument(i) = thread.opstack[thread.idx - Argc + i]
  BY <1>2, <1>3 DEF Argument, Argv, SameStack
<1>5. ASSUME NEW i \in 1..Argc
      PROVE  Value(barred, thread.heap, thread.opstack[thread.idx - Argc + i])
  <2>1. thread.idx - Argc + i \in 1 .. thread.idx
    BY <1>1, VmAssumption
  <2>2. QED
    BY <1>1, <2>1 DEF HeapOK
<1>6. QED
  BY <1>4, <1>5

LEMMA CalledIs ==
  ASSUME NEW barred, MachineOK(barred), NEW n, Called(n), NEW k \in Nat, NativeHeader[n][1] = k
  PROVE  Dispatching /\ Callable /\ Argc >= k /\ Argc \in Int
<1>1. Dispatching /\ Fp = Native(n) /\ ArityOk
  BY DEF Called
<1>2. Fp.k = "native" /\ Fp.n = n
  BY <1>1 DEF Native
<1>3. Callable
  BY <1>2 DEF Callable, IsFunc
<1>4. Header = NativeHeader[n]
  BY <1>2 DEF Header, Interpreted
<1>5. Argc \in Int
  BY <1>1, AtCall
<1>6. Argc >= k
  BY <1>1, <1>4, <1>5 DEF ArityOk
<1>7. QED
  BY <1>1, <1>3, <1>5, <1>6

-----------------------------------------------------------------------------
(* Natives that return a value.                                            *)

LEMMA ReturningStep ==
  ASSUME NEW barred \in SUBSET {"stale"}, ModuleOK, MachineOK(barred), Dispatching, Callable,
         Argc >= 1, NEW p, HeapOK(barred, p), p.local_roots = <<>>,
         p.idx = thread.idx, Extends(thread.heap, p.heap),
         NEW v, Value(barred, p.heap, v), Returning(p, v)
  PROVE  MachineOK(barred)'
<1>1. PICK a, w : a = Argument(1) /\ w = Push(p, v)
  OBVIOUS
<1>2. thread' = w /\ call' = Calling(a, 1) /\ module' = module
  BY <1>1 DEF Returning
<1>3. Value(barred, thread.heap, a) /\ Argc \in Int /\ thread.idx \in 0..StackSize
  BY <1>1, ArgumentsAre, AtCall
<1>4. w.status = "run" =>
        HeapOK(barred, w) /\ w.local_roots = <<>> /\ Value(barred, w.heap, a) /\ 1 <= w.idx
  <2>1. SUFFICES ASSUME w.status = "run"
                 PROVE  HeapOK(barred, w) /\ w.local_roots = <<>> /\ Value(barred, w.heap, a)
                        /\ 1 <= w.idx
    OBVIOUS
  <2>2. HeapOK(barred, w) /\ SameRegisters(p, w) /\ w.heap = p.heap /\ w.idx = p.idx + 1
    BY <1>1, <2>1, PushIs
  <2>3. Value(barred, p.heap, a)
    BY <1>3, ValueGrows
  <2>4. QED
    BY <1>3, <2>2, <2>3, VmAssumption DEF SameRegisters, SameFrame
<1>5. PICK n : n = 1
  OBVIOUS
<1>6. n \in Int /\ call' = Calling(a, n)
  BY <1>2, <1>5
<1>7. w.status = "run" =>
        HeapOK(barred, w) /\ w.local_roots = <<>> /\ Value(barred, w.heap, a) /\ n <= w.idx
  BY <1>4, <1>5
<1>8. QED
  BY <1>2, <1>6, <1>7, Calls

LEMMA ReturnsStep ==
  ASSUME NEW barred \in SUBSET {"stale"}, ModuleOK, MachineOK(barred), Dispatching, Callable,
         Argc >= 1, NEW v, Value(barred, thread.heap, v), Returning(Switched, v)
  PROVE  MachineOK(barred)'
<1>1. PICK s : s = Switched
  OBVIOUS
<1>2. HeapOK(barred, s) /\ s.local_roots = <<>> /\ SameStack(thread, s) /\ s.heap = thread.heap
  BY <1>1, SwitchedIs
<1>3. Extends(thread.heap, s.heap)
  BY <1>2, ExtendsSelf
<1>4. QED
  BY <1>1, <1>2, <1>3, ReturningStep DEF SameStack

LEMMA UndefinedStep ==
  ASSUME NEW barred \in SUBSET {"stale"}, ModuleOK, MachineOK(barred), Dispatching, Callable,
         NEW why, why # "run", thread' = Stop(Switched, why)
  PROVE  MachineOK(barred)'
<1>1. PICK s, p : s = Switched /\ p = Stop(s, why)
  OBVIOUS
<1>2. AllRegisters(s)
  BY <1>1, SwitchedIs DEF HeapOK
<1>3. p.status # "run"
  BY <1>1, <1>2, StopIs
<1>4. QED
  BY <1>1, <1>3, StoppedIs

LEMMA ArgumentsMove ==
  ASSUME NEW barred \in SUBSET {"stale"}, ModuleOK, MachineOK(barred), Dispatching, Callable,
         NEW t, CollectedTo(barred, Switched, t), NEW i \in 1..Argc
  PROVE  /\ Value(barred, t.heap, Argv(t, Argc, i))
         /\ Moves(thread, t, Argument(i), Argv(t, Argc, i))
<1>1. HeapOK(barred, thread) /\ Argc \in Int /\ Argc <= thread.idx /\ thread.idx \in 0..StackSize
  BY AtCall
<1>2. PICK s, j : s = Switched /\ j = thread.idx - Argc + i
  OBVIOUS
<1>3. SameStack(thread, s) /\ s.heap = thread.heap
  BY <1>2, SwitchedIs
<1>4. j \in 1 .. thread.idx
  BY <1>1, <1>2, VmAssumption
<1>5. Argument(i) = s.opstack[j] /\ t.idx = s.idx /\ HeapOK(barred, t)
  BY <1>2, <1>3, ArgumentsAre DEF SameStack, CollectedTo
<1>6. Argv(t, Argc, i) = t.opstack[j]
  BY <1>2, <1>3, <1>5 DEF Argv, SameStack
<1>7. j \in 1 .. s.idx
  BY <1>3, <1>4 DEF SameStack
<1>8. Moves(s, t, s.opstack[j], t.opstack[j])
  BY <1>2, <1>7 DEF CollectedTo
<1>9. Moves(thread, t, s.opstack[j], t.opstack[j])
  BY <1>3, <1>8 DEF Moves
<1>10. Value(barred, t.heap, t.opstack[j])
  BY <1>5, <1>7 DEF HeapOK
<1>11. QED
  BY <1>5, <1>6, <1>9, <1>10

LEMMA ReturningNewStep ==
  ASSUME NEW barred \in SUBSET {"stale"}, ModuleOK, MachineOK(barred), Dispatching, Callable,
         Argc >= 1, NEW t \in MayCollect(Switched),
         NEW o, o # NoObject => ObjectOK(barred, t.heap, o), ReturningNew(t, o)
  PROVE  MachineOK(barred)'
<1>1. PICK s : s = Switched
  OBVIOUS
<1>2. /\ HeapOK(barred, s) /\ s.local_roots = <<>> /\ SameStack(thread, s)
      /\ s.heap = thread.heap /\ s.status = "run"
  BY <1>1, SwitchedIs
<1>3. CollectedTo(barred, s, t)
  BY <1>1, <1>2, NoRoots, Allocates
<1>4. CollectedTo(barred, Switched, t)
  BY <1>1, <1>3
<1>5. /\ HeapOK(barred, t) /\ t.local_roots = <<>> /\ t.idx = thread.idx
      /\ Argc \in Int /\ thread.idx \in 0..StackSize
  BY <1>2, <1>3, NoRootsKept, AtCall DEF CollectedTo, SameStack
<1>6. CASE o = NoObject
  <2>1. thread' = Stop(Switched, "undefined")
    BY <1>6 DEF ReturningNew, Undefined
  <2>2. QED
    BY <2>1, UndefinedStep
<1>7. CASE o # NoObject
  <2>1. PICK p, v, w, a : p = Place(t, o) /\ v = New(p) /\ w = Push(p, v) /\ a = Argv(p, Argc, 1)
    OBVIOUS
  <2>2. thread' = w /\ call' = Calling(a, 1) /\ module' = module
    BY <1>7, <2>1 DEF ReturningNew
  <2>3. HeapOK(barred, p) /\ Value(barred, p.heap, v)
    BY <1>5, <1>7, <2>1, PlaceKeeps
  <2>4. SameRegisters(t, p) /\ SameStack(t, p) /\ Extends(t.heap, p.heap)
    BY <1>5, <2>1, PlaceIs DEF HeapOK
  <2>5. Value(barred, p.heap, a)
    <3>1. Value(barred, t.heap, Argv(t, Argc, 1))
      BY <1>4, <1>5, ArgumentsMove
    <3>2. a = Argv(t, Argc, 1)
      BY <2>1, <2>4 DEF Argv, SameStack
    <3>3. QED
      BY <2>4, <3>1, <3>2, ValueGrows
  <2>6. w.status = "run" =>
          HeapOK(barred, w) /\ w.local_roots = <<>> /\ Value(barred, w.heap, a) /\ 1 <= w.idx
    <3>1. SUFFICES ASSUME w.status = "run"
                   PROVE  HeapOK(barred, w) /\ w.local_roots = <<>> /\ Value(barred, w.heap, a)
                          /\ 1 <= w.idx
      OBVIOUS
    <3>2. HeapOK(barred, w) /\ SameRegisters(p, w) /\ w.heap = p.heap /\ w.idx = p.idx + 1
      BY <2>1, <2>3, <3>1, PushIs
    <3>3. w.local_roots = <<>>
      BY <1>5, <2>4, <3>2 DEF SameRegisters, SameFrame
    <3>4. 1 <= w.idx
      BY <1>5, <2>4, <3>2, VmAssumption DEF SameStack
    <3>5. QED
      BY <2>5, <3>2, <3>3, <3>4
  <2>7. QED
    BY <2>2, <2>6, Calls
<1>8. QED
  BY <1>6, <1>7

LEMMA RegisterSet ==
  ASSUME NEW barred \in SUBSET {"stale"}, ModuleOK, MachineOK(barred), Dispatching, Callable,
         NEW x, NEW v, Value(barred, thread.heap, v)
  PROVE  \A p : \/ p = [Switched EXCEPT !.out = Append(@, x)]
                \/ p = [Switched EXCEPT !.lib_cache = v]
                \/ p = [Switched EXCEPT !.exception_handlers = v]
                => /\ HeapOK(barred, p) /\ p.local_roots = <<>> /\ p.idx = thread.idx
                   /\ Extends(thread.heap, p.heap) /\ p.heap = thread.heap
<1>1. SUFFICES ASSUME NEW p, \/ p = [Switched EXCEPT !.out = Append(@, x)]
                             \/ p = [Switched EXCEPT !.lib_cache = v]
                             \/ p = [Switched EXCEPT !.exception_handlers = v]
               PROVE  /\ HeapOK(barred, p) /\ p.local_roots = <<>> /\ p.idx = thread.idx
                      /\ Extends(thread.heap, p.heap) /\ p.heap = thread.heap
  OBVIOUS
<1>2. PICK s : s = Switched
  OBVIOUS
<1>3. HeapOK(barred, s) /\ s.local_roots = <<>> /\ SameStack(thread, s) /\ s.heap = thread.heap
  BY <1>2, SwitchedIs
<1>4. PICK y : y = Append(s.out, x)
  OBVIOUS
<1>5. \/ p = [s EXCEPT !.out = y] \/ p = [s EXCEPT !.lib_cache = v]
      \/ p = [s EXCEPT !.exception_handlers = v]
  BY <1>1, <1>2, <1>4
<1>6. /\ AllRegisters(p) /\ SameStack(s, p) /\ p.heap = s.heap /\ p.env = s.env
      /\ p.objects = s.objects /\ p.heap_env = s.heap_env /\ p.local_roots = s.local_roots
      /\ p.closure = s.closure
      /\ p.lib_cache \in {s.lib_cache, v} /\ p.exception_handlers \in {s.exception_handlers, v}
  BY <1>3, <1>5 DEF HeapOK, AllRegisters, SameStack
<1>7. /\ EnvValue(s.heap, s.env) /\ Value(barred, s.heap, s.closure)
      /\ Value(barred, s.heap, s.lib_cache) /\ Value(barred, s.heap, s.exception_handlers)
  BY <1>3 DEF HeapOK
<1>8. Value(barred, s.heap, p.lib_cache) /\ Value(barred, s.heap, p.exception_handlers)
  BY <1>3, <1>6, <1>7
<1>9. HeapOK(barred, p)
  BY <1>3, <1>6, <1>7, <1>8, HeapSame
<1>10. Extends(thread.heap, p.heap)
  BY <1>3, <1>6, ExtendsSelf
<1>11. QED
  BY <1>3, <1>6, <1>9, <1>10 DEF SameStack

LEMMA DisplayStep ==
  ASSUME NEW barred \in SUBSET {"stale"}, ModuleOK, MachineOK(barred), Display
  PROVE  MachineOK(barred)'
<1>1. Called("display") /\ NativeHeader["display"][1] = 2
  BY DEF Display, NativeHeader
<1>2. Dispatching /\ Callable /\ Argc >= 2 /\ Argc \in Int
  BY <1>1, CalledIs
<1>3. CASE ~Readable(thread, Argument(2))
  BY <1>2, <1>3, UndefinedStep DEF Display, Undefined
<1>4. CASE Readable(thread, Argument(2))
  <2>1. PICK behind \in BehindBlock :
          Returning([Switched EXCEPT !.out = Append(@, Shown(thread, Argument(2), behind))], Void)
    BY <1>4 DEF Display
  <2>2. PICK x : x = Shown(thread, Argument(2), behind)
    OBVIOUS
  <2>3. PICK p : p = [Switched EXCEPT !.out = Append(@, x)]
    OBVIOUS
  <2>4. Returning(p, Void)
    BY <2>1, <2>2, <2>3
  <2>5. Value(barred, thread.heap, Void)
    BY Immediates
  <2>6. /\ HeapOK(barred, p) /\ p.local_roots = <<>> /\ p.idx = thread.idx
        /\ Extends(thread.heap, p.heap)
    BY <1>2, <2>3, <2>5, RegisterSet
  <2>7. Value(barred, p.heap, Void)
    BY Immediates
  <2>8. Argc >= 1
    BY <1>2
  <2>9. QED
    BY <1>2, <2>4, <2>6, <2>7, <2>8, ReturningStep
<1>5. QED
  BY <1>3, <1>4

LEMMA VmExitStep ==
  ASSUME NEW barred \in SUBSET {"stale"}, ModuleOK, MachineOK(barred), VmExit
  PROVE  MachineOK(barred)'
<1>1. Called("__exit") /\ NativeHeader["__exit"][1] = 1 /\ thread' = Stop(Switched, "exit")
  BY DEF VmExit, NativeHeader
<1>2. Dispatching /\ Callable
  BY <1>1, CalledIs
<1>3. QED
  BY <1>1, <1>2, UndefinedStep

LEMMA LengthStep ==
  ASSUME NEW barred \in SUBSET {"stale"}, ModuleOK, MachineOK(barred), Length,
         "stale" \in barred => ~Losing
  PROVE  MachineOK(barred)'
<1>1. Called("length") /\ NativeHeader["length"][1] = 2
  BY DEF Length, NativeHeader
<1>2. Dispatching /\ Callable /\ Argc >= 2 /\ Argc \in Int /\ Argc >= 1
  BY <1>1, CalledIs
<1>3. PICK l, o : l = Argument(2) /\ o = Object(thread, l)
  OBVIOUS
<1>4. Value(barred, thread.heap, l) /\ HeapOK(barred, thread)
  BY <1>2, <1>3, ArgumentsAre, AtCall
<1>5. \/ Returning(Switched, Fix(0))
      \/ Fails
      \/ thread' = Stop(Switched, "undefined")
      \/ o.ty = "pair" /\ Returning(Switched, Fix(o.len))
  BY <1>3 DEF Length, IsType
<1>6. CASE Returning(Switched, Fix(0))
  <2>1. Value(barred, thread.heap, Fix(0))
    BY Immediates
  <2>2. QED
    BY <1>2, <1>6, <2>1, ReturnsStep
<1>7. CASE Fails
  BY <1>2, <1>7, SwitchedRaises
<1>8. CASE thread' = Stop(Switched, "undefined")
  BY <1>2, <1>8, UndefinedStep
<1>9. CASE o.ty = "pair" /\ Returning(Switched, Fix(o.len))
  <2>1. DataOK(barred, thread.heap, o)
    BY <1>3, <1>4, <1>9, Leads
  <2>2. o.len \in Int
    BY <1>9, <2>1 DEF DataOK
  <2>3. Value(barred, thread.heap, Fix(o.len))
    BY <2>2, Immediates
  <2>4. QED
    BY <1>2, <1>9, <2>3, ReturnsStep
<1>10. QED
  BY <1>5, <1>6, <1>7, <1>8, <1>9

LEMMA GetVoidStep ==
  ASSUME NEW barred \in SUBSET {"stale"}, ModuleOK, MachineOK(barred), GetVoid
  PROVE  MachineOK(barred)'
<1>1. Called("void") /\ NativeHeader["void"][1] = 1 /\ Returning(Switched, Void)
  BY DEF GetVoid, NativeHeader
<1>2. Dispatching /\ Callable /\ Argc >= 1 /\ Argc \in Int
  BY <1>1, CalledIs
<1>3. Value(barred, thread.heap, Void)
  BY Immediates
<1>4. QED
  BY <1>1, <1>2, <1>3, ReturnsStep

LEMMA GetEofStep ==
  ASSUME NEW barred \in SUBSET {"stale"}, ModuleOK, MachineOK(barred), GetEof
  PROVE  MachineOK(barred)'
<1>1. Called("eof_object") /\ NativeHeader["eof_object"][1] = 1 /\ Returning(Switched, Eof)
  BY DEF GetEof, NativeHeader
<1>2. Dispatching /\ Callable /\ Argc >= 1 /\ Argc \in Int
  BY <1>1, CalledIs
<1>3. Value(barred, thread.heap, Eof)
  BY Immediates
<1>4. QED
  BY <1>1, <1>2, <1>3, ReturnsStep

LEMMA ShortIs ==
  ASSUME NEW c \in Int
  PROVE  Short(c) \in Int
<1>1. ShortBound \in Int
  BY DEF ShortBound
<1>2. 2 * ShortBound > 0
  BY DEF ShortBound
<1>3. PICK n \in Int : n = 2 * ShortBound /\ n > 0
  BY <1>1, <1>2
<1>4. (c + ShortBound) % n \in Int
  BY <1>1, <1>3
<1>5. QED
  BY <1>1, <1>3, <1>4 DEF Short

LEMMA CharToIntegerStep ==
  ASSUME NEW barred \in SUBSET {"stale"}, ModuleOK, MachineOK(barred), CharToInteger,
         "stale" \in barred => ~Losing
  PROVE  MachineOK(barred)'
<1>1. Called("char_to_integer") /\ NativeHeader["char_to_integer"][1] = 2
  BY DEF CharToInteger, NativeHeader
<1>2. Dispatching /\ Callable /\ Argc >= 2 /\ Argc \in Int /\ Argc >= 1
  BY <1>1, CalledIs
<1>3. PICK a : a = Argument(2)
  OBVIOUS
<1>4. Value(barred, thread.heap, a)
  BY <1>2, <1>3, ArgumentsAre
<1>5. CASE a.k = "char"
  <2>1. Short(a.c) \in Int
    BY <1>4, <1>5, ShortIs DEF Value
  <2>2. Value(barred, thread.heap, Fix(Short(a.c)))
    BY <2>1, Immediates
  <2>3. Returning(Switched, Fix(Short(a.c)))
    BY <1>3, <1>5 DEF CharToInteger
  <2>4. QED
    BY <1>2, <2>2, <2>3, ReturnsStep
<1>6. CASE a.k # "char"
  BY <1>2, <1>3, <1>6, SwitchedRaises DEF CharToInteger
<1>7. QED
  BY <1>5, <1>6

LEMMA IntegerToCharStep ==
  ASSUME NEW barred \in SUBSET {"stale"}, ModuleOK, MachineOK(barred), IntegerToChar,
         "stale" \in barred => ~Losing
  PROVE  MachineOK(barred)'
<1>1. Called("integer_to_char") /\ NativeHeader["integer_to_char"][1] = 2
  BY DEF IntegerToChar, NativeHeader
<1>2. Dispatching /\ Callable /\ Argc >= 2 /\ Argc \in Int /\ Argc >= 1
  BY <1>1, CalledIs
<1>3. PICK a : a = Argument(2)
  OBVIOUS
<1>4. Value(barred, thread.heap, a)
  BY <1>2, <1>3, ArgumentsAre
<1>5. CASE a.k = "fix"
  <2>1. Value(barred, thread.heap, Char(a.v))
    <3>1. a.v \in Int
      BY <1>4, <1>5 DEF Value
    <3>2. QED
      BY <3>1, Immediates
  <2>2. Returning(Switched, Char(a.v))
    BY <1>3, <1>5 DEF IntegerToChar
  <2>3. QED
    BY <1>2, <2>1, <2>2, ReturnsStep
<1>6. CASE a.k # "fix"
  BY <1>2, <1>3, <1>6, SwitchedRaises DEF IntegerToChar
<1>7. QED
  BY <1>5, <1>6

LEMMA LibraryCacheStep ==
  ASSUME NEW barred \in SUBSET {"stale"}, ModuleOK, MachineOK(barred), LibraryCache,
         "stale" \in barred => ~Losing
  PROVE  MachineOK(barred)'
<1>1. Called("library_cache") /\ NativeHeader["library_cache"][1] = 1
  BY DEF LibraryCache, NativeHeader
<1>2. Dispatching /\ Callable /\ Argc >= 1 /\ Argc \in Int
  BY <1>1, CalledIs
<1>3. CASE Argc # 2
  <2>1. Value(barred, thread.heap, thread.lib_cache)
    BY <1>2, AtCall DEF HeapOK
  <2>2. Returning(Switched, thread.lib_cache)
    BY <1>3 DEF LibraryCache
  <2>3. QED
    BY <1>2, <2>1, <2>2, ReturnsStep
<1>4. CASE Argc = 2 /\ IsType(thread, Argument(2), {"pair"})
  <2>1. PICK v, p : v = Argument(2) /\ p = [Switched EXCEPT !.lib_cache = v]
    OBVIOUS
  <2>2. Value(barred, thread.heap, v)
    BY <1>2, <1>4, <2>1, ArgumentsAre
  <2>3. /\ HeapOK(barred, p) /\ p.local_roots = <<>> /\ p.idx = thread.idx
        /\ Extends(thread.heap, p.heap)
    BY <1>2, <2>1, <2>2, RegisterSet
  <2>4. Returning(p, Void)
    BY <1>4, <2>1 DEF LibraryCache
  <2>5. Value(barred, p.heap, Void)
    BY Immediates
  <2>6. QED
    BY <1>2, <2>3, <2>4, <2>5, ReturningStep
<1>5. CASE Argc = 2 /\ ~IsType(thread, Argument(2), {"pair"})
  BY <1>2, <1>5, SwitchedRaises DEF LibraryCache
<1>6. QED
  BY <1>3, <1>4, <1>5

LEMMA ExceptionHandlersStep ==
  ASSUME NEW barred \in SUBSET {"stale"}, ModuleOK, MachineOK(barred), ExceptionHandlers,
         "stale" \in barred => ~Losing
  PROVE  MachineOK(barred)'
<1>1. Called("handlers") /\ NativeHeader["handlers"][1] = 1
  BY DEF ExceptionHandlers, NativeHeader
<1>2. Dispatching /\ Callable /\ Argc >= 1 /\ Argc \in Int
  BY <1>1, CalledIs
<1>3. CASE Argc # 2
  <2>1. Value(barred, thread.heap, thread.exception_handlers)
    BY <1>2, AtCall DEF HeapOK
  <2>2. Returning(Switched, thread.exception_handlers)
    BY <1>3 DEF ExceptionHandlers
  <2>3. QED
    BY <1>2, <2>1, <2>2, ReturnsStep
<1>4. CASE Argc = 2 /\ (IsType(thread, Argument(2), {"pair"}) \/ Argument(2) = Null)
  <2>1. PICK v, p : v = Argument(2) /\ p = [Switched EXCEPT !.exception_handlers = v]
    OBVIOUS
  <2>2. Value(barred, thread.heap, v)
    BY <1>2, <1>4, <2>1, ArgumentsAre
  <2>3. /\ HeapOK(barred, p) /\ p.local_roots = <<>> /\ p.idx = thread.idx
        /\ Extends(thread.heap, p.heap)
    BY <1>2, <2>1, <2>2, RegisterSet
  <2>4. Returning(p, Void)
    BY <1>4, <2>1 DEF ExceptionHandlers
  <2>5. Value(barred, p.heap, Void)
    BY Immediates
  <2>6. QED
    BY <1>2, <2>3, <2>4, <2>5, ReturningStep
<1>5. CASE Argc = 2 /\ ~(IsType(thread, Argument(2), {"pair"}) \/ Argument(2) = Null)
  BY <1>2, <1>5, SwitchedRaises DEF ExceptionHandlers
<1>6. QED
  BY <1>3, <1>4, <1>5

-----------------------------------------------------------------------------
(* call/cc and apply.                                                      *)

LEMMA PushAlways ==
  ASSUME NEW barred, NEW t, HeapOK(barred, t), NEW v, Value(barred, t.heap, v),
         NEW p, p = Push(t, v)
  PROVE  HeapOK(barred, p) /\ p.local_roots = t.local_roots
<1>1. CASE p.status = "run"
  <2>1. HeapOK(barred, p) /\ SameRegisters(t, p)
    BY <1>1, PushIs
  <2>2. QED
    BY <2>1 DEF SameRegisters, SameFrame
<1>2. CASE p.status # "run"
  <2>1. p = PushAll(t, <<v>>)
    BY DEF Push
  <2>2. CASE p = Stop(t, "fatal") \/ p = Stop(t, "undefined")
    <3>1. PICK why : p = [t EXCEPT !.status = why]
      BY <2>2 DEF Stop
    <3>2. /\ AllRegisters(p) /\ p.heap = t.heap /\ SameStack(t, p) /\ p.env = t.env
          /\ p.objects = t.objects /\ p.heap_env = t.heap_env /\ p.closure = t.closure
          /\ p.lib_cache = t.lib_cache /\ p.exception_handlers = t.exception_handlers
          /\ p.local_roots = t.local_roots
      BY <3>1 DEF HeapOK, AllRegisters, SameStack
    <3>3. /\ EnvValue(t.heap, t.env) /\ Value(barred, t.heap, t.closure)
          /\ Value(barred, t.heap, t.lib_cache) /\ Value(barred, t.heap, t.exception_handlers)
      BY DEF HeapOK
    <3>4. QED
      BY <3>2, <3>3, HeapSame
  <2>3. CASE ~(p = Stop(t, "fatal") \/ p = Stop(t, "undefined"))
    <3>1. PICK s : s = <<v>>
      OBVIOUS
    <3>2. IsSeq(s) /\ \A i \in 1 .. Len(s) : Value(barred, t.heap, s[i])
      <4>1. IsSeq(s) /\ Len(s) = 1 /\ s[1] = v
        BY <3>1, OneIsSeq
      <4>2. QED
        BY <4>1
    <3>3. PICK n, stack : /\ n = t.idx + Len(s)
                          /\ stack = [i \in DOMAIN t.opstack |->
                                        IF i \in t.idx + 1 .. t.idx + Len(s)
                                        THEN s[i - t.idx] ELSE t.opstack[i]]
      OBVIOUS
    <3>4. t.idx + Len(s) < StackSize /\ p = [t EXCEPT !.opstack = stack, !.idx = n]
      BY <2>1, <2>3, <3>1, <3>3 DEF PushAll
    <3>5. AllRegisters(t) /\ DOMAIN t.opstack = 1..StackSize /\ t.idx \in 0..StackSize
      BY DEF HeapOK
    <3>6. /\ AllRegisters(p) /\ SameRegisters(t, p) /\ p.heap = t.heap /\ p.opstack = stack /\ p.idx = n
      BY <3>4, <3>5 DEF AllRegisters, SameRegisters, SameFrame
    <3>7. n \in 0..StackSize /\ DOMAIN stack = 1..StackSize
      <4>1. Len(s) \in Nat
        BY <3>2, SeqIs
      <4>2. QED
        BY <3>3, <3>4, <3>5, <4>1, VmAssumption
    <3>8. \A i \in 1..n : Value(barred, t.heap, stack[i])
      <4>1. SUFFICES ASSUME NEW i \in 1..n PROVE Value(barred, t.heap, stack[i])
        OBVIOUS
      <4>2. Len(s) \in Nat
        BY <3>2, SeqIs
      <4>3. i \in DOMAIN t.opstack
        BY <3>5, <3>7, VmAssumption
      <4>4. CASE i \in t.idx + 1 .. t.idx + Len(s)
        <5>1. i - t.idx \in 1 .. Len(s)
          BY <3>5, <4>2, <4>4, VmAssumption
        <5>2. stack[i] = s[i - t.idx]
          BY <3>3, <4>3, <4>4
        <5>3. QED
          BY <3>2, <5>1, <5>2
      <4>5. CASE i \notin t.idx + 1 .. t.idx + Len(s)
        <5>1. i \in 1 .. t.idx
          BY <3>3, <3>5, <4>2, <4>5, VmAssumption
        <5>2. stack[i] = t.opstack[i]
          BY <3>3, <4>3, <4>5
        <5>3. QED
          BY <5>1, <5>2 DEF HeapOK
      <4>6. QED
        BY <4>4, <4>5
    <3>9. HeapOK(barred, p)
      BY <3>6, <3>7, <3>8 DEF HeapOK, SameRegisters, SameFrame
    <3>10. QED
      BY <3>6, <3>9 DEF SameRegisters, SameFrame
  <2>4. QED
    BY <2>2, <2>3
<1>3. QED
  BY <1>1, <1>2

LEMMA Running1 ==
  ASSUME NEW barred, NEW t, HeapOK(barred, t), NEW v, Push(t, v).status = "run"
  PROVE  t.status = "run"
<1>1. PICK s, p : s = <<v>> /\ p = PushAll(t, s)
  OBVIOUS
<1>2. p = Push(t, v)
  BY <1>1 DEF Push
<1>3. IsSeq(s)
  BY <1>1, OneIsSeq
<1>4. AllRegisters(t) /\ DOMAIN t.opstack = 1..StackSize /\ t.idx \in 0..StackSize
  BY DEF HeapOK
<1>5. SameRegisters(t, p)
  BY <1>1, <1>2, <1>3, <1>4, PushAllIs
<1>6. QED
  BY <1>2, <1>5 DEF SameRegisters, SameFrame

LEMMA CallCcStep ==
  ASSUME NEW barred \in SUBSET {"stale"}, ModuleOK, MachineOK(barred), CallCc,
         "stale" \in barred => ~Losing
  PROVE  MachineOK(barred)'
<1>1. Called("callcc") /\ NativeHeader["callcc"][1] = 2
  BY DEF CallCc, NativeHeader
<1>2. Dispatching /\ Callable /\ Argc >= 2 /\ Argc \in Int /\ Argc >= 1
  BY <1>1, CalledIs
<1>3. CASE ~IsProc(thread, Argument(2))
  BY <1>2, <1>3, SwitchedRaises DEF CallCc
<1>4. CASE IsProc(thread, Argument(2))
  <2>1. PICK s, a, w : s = Switched /\ a = Argument(1) /\ w = Push(s, a)
    OBVIOUS
  <2>2. PICK t \in MayCollect(w) :
          LET p == Place(t, [ty |-> "cont", func |-> Top(t, 1)])
          IN  /\ thread' = Push(p, New(p))
              /\ call' = Calling(Top(t, 2), 2)
              /\ UNCHANGED <<module, pc>>
    BY <1>4, <2>1 DEF CallCc
  <2>3. PICK o, f, p, v, u : /\ f = Top(t, 2) /\ o = [ty |-> "cont", func |-> Top(t, 1)]
                             /\ p = Place(t, o) /\ v = New(p) /\ u = Push(p, v)
    OBVIOUS
  <2>4. thread' = u /\ call' = Calling(f, 2) /\ module' = module
    BY <2>2, <2>3
  <2>5. HeapOK(barred, s) /\ s.local_roots = <<>> /\ SameStack(thread, s) /\ s.heap = thread.heap
    BY <1>2, <2>1, SwitchedIs
  <2>6. Value(barred, s.heap, a)
    BY <1>2, <2>1, <2>5, ArgumentsAre
  <2>7. HeapOK(barred, w) /\ w.local_roots = <<>>
    BY <2>1, <2>5, <2>6, PushAlways
  <2>8. CollectedTo(barred, w, t)
    BY <2>2, <2>7, NoRoots, Allocates
  <2>9. HeapOK(barred, t) /\ t.local_roots = <<>> /\ t.status = w.status /\ t.idx = w.idx
    BY <2>7, <2>8, NoRootsKept DEF CollectedTo
  <2>10. SUFFICES ASSUME u.status = "run"
                  PROVE  /\ HeapOK(barred, u) /\ u.local_roots = <<>>
                         /\ Value(barred, u.heap, f) /\ 2 <= u.idx
    <3>1. PICK n : n = 2
      OBVIOUS
    <3>2. n \in Int /\ call' = Calling(f, n)
      BY <2>4, <3>1
    <3>3. SUFFICES u.status = "run" => /\ HeapOK(barred, u) /\ u.local_roots = <<>>
                                       /\ Value(barred, u.heap, f) /\ n <= u.idx
      BY <2>4, <3>2, Calls
    <3>4. QED
      BY <3>1
  <2>11. SameRegisters(t, p) /\ SameStack(t, p) /\ Extends(t.heap, p.heap)
    BY <2>3, <2>9, PlaceIs DEF HeapOK
  <2>12. w.status = "run"
    <3>1. AllRegisters(p) /\ DOMAIN p.opstack = 1..StackSize /\ p.idx \in 0..StackSize
      <4>1. AllRegisters(p)
        BY <2>3, <2>9, PlaceIs DEF HeapOK
      <4>2. QED
        BY <2>9, <2>11, <4>1 DEF HeapOK, SameStack
    <3>2. PICK q : q = <<v>>
      OBVIOUS
    <3>3. IsSeq(q) /\ u = PushAll(p, q)
      BY <2>3, <3>2, OneIsSeq DEF Push
    <3>4. SameRegisters(p, u)
      BY <2>10, <3>1, <3>3, PushAllIs
    <3>5. QED
      BY <2>9, <2>10, <2>11, <3>4 DEF SameRegisters, SameFrame
  <2>13. w.idx = thread.idx + 1
    BY <2>1, <2>5, <2>6, <2>12, PushIs DEF SameStack
  <2>14. t.idx \in 2 .. StackSize
    BY <1>2, <2>9, <2>13, AtCall, VmAssumption DEF HeapOK
  <2>15. Value(barred, t.heap, Top(t, 1)) /\ Value(barred, t.heap, Top(t, 2))
    <3>1. t.idx + 1 - 1 \in 1 .. t.idx /\ t.idx + 1 - 2 \in 1 .. t.idx
      BY <2>14, VmAssumption
    <3>2. QED
      BY <2>9, <3>1 DEF HeapOK, Top
  <2>16. ObjectOK(barred, t.heap, o)
    <3>1. PICK x : x = Top(t, 1)
      OBVIOUS
    <3>2. o = [ty |-> "cont", func |-> x]
      BY <2>3, <3>1
    <3>3. Value(barred, t.heap, x)
      BY <2>15, <3>1
    <3>4. QED
      BY <3>2, <3>3 DEF ObjectOK, DataOK
  <2>17. HeapOK(barred, p) /\ Value(barred, p.heap, v)
    BY <2>3, <2>9, <2>16, PlaceKeeps
  <2>18. HeapOK(barred, u) /\ SameRegisters(p, u) /\ u.heap = p.heap /\ u.idx = p.idx + 1
    BY <2>3, <2>10, <2>17, PushIs
  <2>19. Value(barred, p.heap, f)
    BY <2>3, <2>11, <2>15, ValueGrows
  <2>20. u.local_roots = <<>>
    BY <2>9, <2>11, <2>18 DEF SameRegisters, SameFrame
  <2>21. 2 <= u.idx
    BY <2>11, <2>14, <2>18, VmAssumption DEF SameStack
  <2>22. QED
    BY <2>18, <2>19, <2>20, <2>21
<1>5. QED
  BY <1>3, <1>4

LEMMA ElementsAre ==
  ASSUME NEW barred \in SUBSET {"stale"}, ModuleOK, NEW t, HeapOK(barred, t), NEW l
  PROVE  /\ IsSeq(Elements(t, l))
         /\ \A i \in DOMAIN Elements(t, l) : Value(barred, t.heap, Elements(t, l)[i])
<1> DEFINE Pair(v) == IF v \in Addressed(t) /\ IsType(t, v, {"pair"}) THEN v ELSE NoPtr
           D == Addressed(t) \cup {NoPtr}
           IsPair(v) == v \in Addressed(t) /\ IsType(t, v, {"pair"})
<1>1. PICK rest : rest = [v \in Addressed(t) \cup {NoPtr} |->
                 IF v = NoPtr \/ ~IsType(t, v, {"pair"}) THEN NoPtr ELSE Pair(Object(t, v).cdr)]
  OBVIOUS
<1>0. PICK cells : cells = Len(t.heap) + Len(module.objects)
  OBVIOUS
<1>2. PICK x : x = Pair(l)
  OBVIOUS
<1>3. cells \in Nat
  <2>1. IsSeq(t.heap) /\ IsSeq(module.objects)
    BY DEF HeapOK, ModuleOK
  <2>2. Len(t.heap) \in Nat /\ Len(module.objects) \in Nat
    BY <2>1, SeqIs
  <2>3. QED
    <3>1. PICK a, b : a = Len(t.heap) /\ b = Len(module.objects)
      OBVIOUS
    <3>2. a \in Nat /\ b \in Nat
      BY <2>2, <3>1
    <3>3. cells = a + b
      BY <1>0, <3>1
    <3>4. QED
      BY <3>2, <3>3
<1>4. rest \in [D -> D] /\ x \in D /\ (x = NoPtr \/ IsPair(x))
      /\ \A v \in D : rest[v] = NoPtr \/ IsPair(rest[v])
  BY <1>1, <1>2
<1>5. PICK at : at = Walk(rest, x, cells)
  OBVIOUS
<1>6. Steps(rest, x, cells, at) /\ at \in [0..cells -> D]
  BY <1>3, <1>4, <1>5, WalkIs
<1>7. \A k \in 0..cells : at[k] = NoPtr \/ IsPair(at[k])
  <2>1. SUFFICES ASSUME NEW k \in 0..cells PROVE at[k] = NoPtr \/ IsPair(at[k])
    OBVIOUS
  <2>2. CASE k = 0
    <3>1. at[0] = x
      BY <1>3, <1>6 DEF Steps
    <3>2. QED
      BY <1>4, <2>2, <3>1
  <2>3. CASE k # 0
    <3>1. k - 1 \in 0..cells /\ at[k] = rest[at[k - 1]]
      BY <1>3, <1>6, <2>3 DEF Steps
    <3>2. at[k - 1] \in D
      BY <1>6, <3>1
    <3>3. QED
      BY <1>4, <3>1, <3>2
  <2>4. QED
    BY <2>2, <2>3
<1> DEFINE Ends(n) == n \notin DOMAIN at \/ at[n] = NoPtr
<1>8. PICK n : n = CHOOSE j \in 0 .. cells + 1 :
                     (j \notin DOMAIN at \/ at[j] = NoPtr) /\ \A k \in 0 .. j - 1 : at[k] # NoPtr
  OBVIOUS
<1>9. n \in 0 .. cells + 1 /\ \A k \in 0 .. n - 1 : at[k] # NoPtr
  <2>1. PICK T : T = {m \in 0 .. cells + 1 : Ends(m)}
    OBVIOUS
  <2>2. cells + 1 \in T /\ T \in SUBSET Nat
    BY <1>3, <1>6, <2>1
  <2>3. PICK m \in T : \A y \in T : m <= y
    BY <2>2, LeastNat
  <2>4. m \in 0 .. cells + 1 /\ Ends(m)
    BY <2>1, <2>3
  <2>5. \A k \in 0 .. m - 1 : at[k] # NoPtr
    <3>1. SUFFICES ASSUME NEW k \in 0 .. m - 1, at[k] = NoPtr PROVE FALSE
      OBVIOUS
    <3>2. k \in 0 .. cells + 1 /\ ~(m <= k)
      BY <1>3, <2>4
    <3>3. k \in T
      BY <2>1, <3>1, <3>2
    <3>4. QED
      BY <2>3, <3>2, <3>3
  <2>6. QED
    BY <1>8, <2>4, <2>5
<1>10. PICK e : e = Elements(t, l)
  OBVIOUS
<1>11. e = [i \in 1..n |-> Object(t, at[i - 1]).car]
  BY SMTT(30), <1>0, <1>1, <1>2, <1>5, <1>8, <1>10 DEF Elements
<1>12. n \in Nat
  BY <1>3, <1>9
<1>13. \A i \in 1..n : Value(barred, t.heap, e[i])
  <2>1. SUFFICES ASSUME NEW i \in 1..n PROVE Value(barred, t.heap, e[i])
    OBVIOUS
  <2>2. i - 1 \in 0..cells /\ i - 1 \in 0 .. n - 1
    BY <1>3, <1>9
  <2>3. IsPair(at[i - 1])
    BY <1>7, <1>9, <2>2
  <2>4. PICK v, o : v = at[i - 1] /\ o = Object(t, v)
    OBVIOUS
  <2>5. v \in Addressed(t) /\ o.ty = "pair"
    BY <2>3, <2>4 DEF IsType
  <2>6. Value(barred, t.heap, v)
    BY <2>5 DEF Addressed, Ptr, Const, Value
  <2>7. DataOK(barred, t.heap, o)
    BY <2>4, <2>5, <2>6, Leads
  <2>8. Value(barred, t.heap, o.car)
    BY <2>5, <2>7 DEF DataOK
  <2>9. e[i] = o.car
    BY <1>11, <2>4
  <2>10. QED
    BY <2>8, <2>9
<1>14. IsSeq(e) /\ DOMAIN e = 1..n
  <2>1. PICK S : S = {Object(t, at[i - 1]).car : i \in 1..n}
    OBVIOUS
  <2>2. e \in [1..n -> S]
    BY <1>11, <2>1
  <2>3. QED
    BY <1>12, <2>2, SeqMade
<1>15. QED
  BY <1>10, <1>13, <1>14

LEMMA ApplyStep ==
  ASSUME NEW barred \in SUBSET {"stale"}, ModuleOK, MachineOK(barred), Apply,
         "stale" \in barred => ~Losing
  PROVE  MachineOK(barred)'
<1>1. Called("apply") /\ NativeHeader["apply"][1] = 3
  BY DEF Apply, NativeHeader
<1>2. Dispatching /\ Callable /\ Argc >= 3 /\ Argc \in Int
  BY <1>1, CalledIs
<1>3. CASE ~(IsProc(thread, Argument(2)) /\ IsType(thread, Argument(3), {"pair"}))
  BY <1>2, <1>3, SwitchedRaises DEF Apply
<1>4. CASE IsProc(thread, Argument(2)) /\ IsType(thread, Argument(3), {"pair"})
  <2>1. PICK e, a, one, args, s, f, p :
          /\ e = Elements(thread, Argument(3)) /\ a = Argument(1) /\ one = <<a>>
          /\ args = one \o e /\ s = Switched /\ f = Argument(2) /\ p = PushAll(s, args)
    OBVIOUS
  <2>2. thread' = p /\ call' = Calling(f, Len(args)) /\ module' = module
    BY <1>4, <2>1 DEF Apply
  <2>3. Value(barred, thread.heap, a) /\ Value(barred, thread.heap, f)
    BY <1>2, <2>1, ArgumentsAre
  <2>4. HeapOK(barred, s) /\ s.local_roots = <<>> /\ SameStack(thread, s) /\ s.heap = thread.heap
    BY <1>2, <2>1, SwitchedIs
  <2>5. IsSeq(e) /\ \A i \in DOMAIN e : Value(barred, thread.heap, e[i])
    BY <1>2, <2>1, AtCall, ElementsAre
  <2>6. IsSeq(one) /\ Len(one) = 1 /\ one[1] = a
    BY <2>1, OneIsSeq
  <2>7. /\ IsSeq(args) /\ Len(args) = Len(one) + Len(e)
        /\ \A i \in 1 .. Len(one) : args[i] = one[i]
        /\ \A i \in Len(one) + 1 .. Len(one) + Len(e) : args[i] = e[i - Len(one)]
    <3>1. args = one \o e
      BY <2>1
    <3>2. IsSeq(one) /\ IsSeq(e)
      BY <2>5, <2>6
    <3>3. QED
      BY <3>1, <3>2, CatIs
  <2>8. Len(e) \in Nat /\ DOMAIN e = 1 .. Len(e)
    BY <2>5, SeqIs
  <2>9. \A i \in 1 .. Len(args) : Value(barred, s.heap, args[i])
    <3>1. SUFFICES ASSUME NEW i \in 1 .. Len(args) PROVE Value(barred, s.heap, args[i])
      OBVIOUS
    <3>2. CASE i = 1
      BY <2>3, <2>4, <2>6, <2>7, <3>2
    <3>3. CASE i # 1
      <4>1. i - 1 \in DOMAIN e /\ args[i] = e[i - 1]
        BY <2>6, <2>7, <2>8, <3>3
      <4>2. QED
        BY <2>4, <2>5, <4>1
    <3>4. QED
      BY <3>2, <3>3
  <2>10. PICK n : n = Len(args)
    OBVIOUS
  <2>11. n \in Int
    BY <2>6, <2>7, <2>8, <2>10
  <2>12. p.status = "run" =>
           HeapOK(barred, p) /\ p.local_roots = <<>> /\ Value(barred, p.heap, f) /\ n <= p.idx
    <3>1. SUFFICES ASSUME p.status = "run"
                   PROVE  HeapOK(barred, p) /\ p.local_roots = <<>> /\ Value(barred, p.heap, f)
                          /\ n <= p.idx
      OBVIOUS
    <3>0. p = PushAll(s, args) /\ IsSeq(args)
      BY <2>1, <2>7
    <3>2. HeapOK(barred, p)
      BY <2>4, <2>9, <3>0, <3>1, PushAllKeeps
    <3>3. SameRegisters(s, p) /\ p.heap = s.heap /\ p.idx = s.idx + Len(args)
      <4>1. AllRegisters(s) /\ DOMAIN s.opstack = 1..StackSize /\ s.idx \in 0..StackSize
        BY <2>4 DEF HeapOK
      <4>2. QED
        BY <3>0, <3>1, <4>1, PushAllIs
    <3>4. n <= p.idx
      <4>1. s.idx \in 0..StackSize
        BY <2>4 DEF HeapOK
      <4>2. QED
        BY <2>10, <2>11, <3>3, <4>1, VmAssumption
    <3>5. QED
      BY <2>3, <2>4, <3>2, <3>3, <3>4 DEF SameRegisters, SameFrame
  <2>13. QED
    BY <2>2, <2>10, <2>11, <2>12, Calls
<1>5. QED
  BY <1>3, <1>4

-----------------------------------------------------------------------------
(* Lists of what lies on the stack.                                        *)

\* What has been listed after m values, as a relation.
Listed(t, slots, m, at) ==
  /\ DOMAIN at = 0..m
  /\ at[0] = {[t EXCEPT !.local_roots = <<Null>>]}
  /\ \A n \in 1..m : at[n] = Longer(at[n - 1], slots, n)

LEMMA ListedExists ==
  ASSUME NEW t, NEW slots, NEW m \in Nat
  PROVE  \E at : at = [n \in 0..m |-> at[n]] /\ Listed(t, slots, m, at)
<1> DEFINE Is(at, n) == at = [l \in 0..n |-> at[l]] /\ Listed(t, slots, n, at)
           T == {n \in Nat : ~ \E at : Is(at, n)}
<1>1. SUFFICES ASSUME T # {} PROVE FALSE
  OBVIOUS
<1>2. PICK n \in T : \A l \in T : n <= l
  BY <1>1, LeastNat
<1>3. n # 0
  <2>1. PICK first : first = {[t EXCEPT !.local_roots = <<Null>>]}
    OBVIOUS
  <2>2. PICK at : at = [l \in 0..0 |-> first]
    OBVIOUS
  <2>3. Is(at, 0)
    BY <2>1, <2>2 DEF Listed
  <2>4. QED
    BY <2>3
<1>4. n - 1 \in Nat /\ n - 1 \notin T
  BY <1>2, <1>3
<1>5. PICK at : Is(at, n - 1)
  BY <1>4
<1>6. PICK last : last = Longer(at[n - 1], slots, n)
  OBVIOUS
<1>7. PICK v : v = [l \in 0..n |-> IF l = n THEN last ELSE at[l]]
  OBVIOUS
<1>8. v = [l \in 0..n |-> v[l]] /\ DOMAIN v = 0..n
  BY <1>7
<1>9. v[n] = last /\ \A l \in 0 .. n - 1 : v[l] = at[l]
  BY <1>4, <1>7
<1>10. v[0] = {[t EXCEPT !.local_roots = <<Null>>]}
  <2>1. v[0] = at[0]
    BY <1>4, <1>9
  <2>2. QED
    BY <1>5, <2>1 DEF Listed
<1>11. ASSUME NEW l \in 1..n
       PROVE  v[l] = Longer(v[l - 1], slots, l)
  <2>1. v[l - 1] = at[l - 1]
    BY <1>4, <1>9
  <2>2. CASE l = n
    BY <1>6, <1>9, <2>1, <2>2
  <2>3. CASE l # n
    <3>1. l \in 1 .. n - 1 /\ v[l] = at[l]
      BY <1>4, <1>9, <2>3
    <3>2. at[l] = Longer(at[l - 1], slots, l)
      BY <1>5, <3>1 DEF Listed
    <3>3. QED
      BY <2>1, <3>1, <3>2
  <2>4. QED
    BY <2>2, <2>3
<1>12. Listed(t, slots, n, v)
  BY <1>8, <1>10, <1>11 DEF Listed
<1>13. QED
  BY <1>2, <1>8, <1>12

LEMMA ListOfSlotsIs ==
  ASSUME NEW t, NEW slots, Len(slots) \in Nat
  PROVE  \E at : Listed(t, slots, Len(slots), at) /\ ListOfSlots(t, slots) = at[Len(slots)]
<1>1. PICK m \in Nat : m = Len(slots)
  OBVIOUS
<1>2. PICK first : first = {[t EXCEPT !.local_roots = <<Null>>]}
  OBVIOUS
<1> DEFINE e(u, k) == IF k = 0 THEN first ELSE Longer(u[k - 1], slots, k)
           Upto(u) == [k \in 0..m |-> e(u, k)]
<1>3. PICK w : w = [n \in 0..m |-> w[n]] /\ Listed(t, slots, m, w)
  BY ListedExists
<1>4. w = Upto(w)
  <2>1. \A n \in 0..m : w[n] = e(w, n)
    <3>1. w[0] = first /\ \A k \in 1..m : w[k] = Longer(w[k - 1], slots, k)
      <4>1. Listed(t, slots, m, w)
        BY <1>3
      <4>2. QED
        BY <1>2, <4>1 DEF Listed
    <3>2. SUFFICES ASSUME NEW n \in 0..m PROVE w[n] = e(w, n)
      OBVIOUS
    <3>3. CASE n = 0
      BY <3>1, <3>3
    <3>4. CASE n # 0
      <4>1. n \in 1..m
        BY <3>4
      <4>2. QED
        BY <3>1, <3>4, <4>1
    <3>5. QED
      BY <3>3, <3>4
  <2> HIDE DEF e
  <2>2. QED
    BY <1>3, <2>1
<1>5. PICK u : u = (CHOOSE y : y = Upto(y))
  OBVIOUS
<1>6. ListOfSlots(t, slots) = u[m]
  BY <1>1, <1>2, <1>5 DEF ListOfSlots
<1>7. u = Upto(u)
  <2> HIDE DEF Upto
  <2>1. QED
    BY <1>4, <1>5, Zenon
<1>8. DOMAIN u = 0..m /\ \A k \in 0..m : u[k] = e(u, k)
  BY <1>7
<1>9. u[0] = first /\ \A k \in 1..m : u[k] = Longer(u[k - 1], slots, k)
  <2>1. \A k \in 1..m : k \in 0..m /\ k # 0
    OBVIOUS
  <2>2. QED
    BY <1>8, <2>1
<1>10. Listed(t, slots, m, u)
  BY <1>2, <1>8, <1>9 DEF Listed
<1>11. QED
  BY <1>1, <1>6, <1>10

\* A place of the stack that a list takes a value from: above the operands a
\* collection does not find pointers.
Listable(barred, u, i) ==
  /\ i \in 1..StackSize
  /\ Value(barred, u.heap, u.opstack[i])
  /\ i > u.idx /\ "stale" \in barred /\ Collecting => ~IsPtr(u.opstack[i])

\* A thread that has listed some values.
Listing(barred, t, slots, u) ==
  /\ HeapOK(barred, u) /\ RootsOK(barred, u) /\ DOMAIN u.local_roots = 1..1
  /\ u.idx = t.idx /\ u.func = t.func /\ u.bindmap = t.bindmap
  /\ u.heap_env = t.heap_env /\ u.status = t.status
  /\ \A j \in DOMAIN slots : Listable(barred, u, slots[j])

LEMMA OneRoot ==
  ASSUME NEW barred, NEW t, HeapOK(barred, t), NEW v, Value(barred, t.heap, v)
  PROVE  \A p : p = [t EXCEPT !.local_roots = <<v>>] =>
           /\ HeapOK(barred, p) /\ SameStack(t, p) /\ p.heap = t.heap
           /\ RootsOK(barred, p) /\ DOMAIN p.local_roots = 1..1
           /\ p.bindmap = t.bindmap /\ p.func = t.func /\ p.heap_env = t.heap_env
           /\ p.status = t.status
<1>1. SUFFICES ASSUME NEW p, p = [t EXCEPT !.local_roots = <<v>>]
               PROVE  /\ HeapOK(barred, p) /\ SameStack(t, p) /\ p.heap = t.heap
                      /\ RootsOK(barred, p) /\ DOMAIN p.local_roots = 1..1
                      /\ p.bindmap = t.bindmap /\ p.func = t.func /\ p.heap_env = t.heap_env
                      /\ p.status = t.status
  OBVIOUS
<1>2. PICK r : r = <<v>>
  OBVIOUS
<1>3. p = [t EXCEPT !.local_roots = r]
  BY <1>1, <1>2
<1>4. /\ HeapOK(barred, p) /\ SameStack(t, p) /\ p.heap = t.heap /\ p.local_roots = r
      /\ p.bindmap = t.bindmap /\ p.func = t.func /\ p.heap_env = t.heap_env /\ p.status = t.status
  BY <1>3, RootsSet
<1>5. IsSeq(r) /\ Len(r) = 1 /\ r[1] = v
  BY <1>2, OneIsSeq
<1>6. DOMAIN r = 1..1
  BY <1>5, SeqIs
<1>7. \A i \in 1..1 : r[i] = v
  BY <1>5
<1>8. RootsOK(barred, p)
  BY <1>4, <1>5, <1>6, <1>7 DEF RootsOK
<1>9. QED
  BY <1>4, <1>6, <1>8

LEMMA ListableCollected ==
  ASSUME NEW barred, "ptr" \notin barred, NEW u, HeapOK(barred, u),
         NEW c, c \in MayCollect(u), CollectedTo(barred, u, c),
         NEW i, Listable(barred, u, i)
  PROVE  Listable(barred, c, i)
<1>0. c = u \/ Collecting
  BY DEF MayCollect
<1>1. i \in 1..StackSize /\ c.idx = u.idx /\ u.idx \in 0..StackSize
  BY DEF Listable, CollectedTo, HeapOK
<1>2. CASE i <= u.idx
  <2>1. i \in 1 .. u.idx
    BY <1>1, <1>2, VmAssumption
  <2>2. Moves(u, c, u.opstack[i], c.opstack[i])
    BY <2>1 DEF CollectedTo
  <2>3. Value(barred, c.heap, c.opstack[i])
    BY <2>2, MovesKeeps DEF Listable
  <2>4. ~(i > c.idx)
    BY <1>1, <2>1, VmAssumption
  <2>5. QED
    BY <1>1, <2>3, <2>4 DEF Listable
<1>3. CASE ~(i <= u.idx)
  <2>1. i \in u.idx + 1 .. StackSize /\ i > u.idx
    BY <1>1, <1>3, VmAssumption
  <2>2. \/ c.opstack[i] = u.opstack[i] /\ (c = u \/ ~IsPtr(u.opstack[i]))
        \/ c.opstack[i] = Stale /\ IsPtr(u.opstack[i])
    BY <2>1 DEF CollectedTo
  <2>3. CASE c = u
    BY <2>3
  <2>4. CASE c.opstack[i] = u.opstack[i] /\ ~IsPtr(u.opstack[i])
    <3>1. Value(barred, u.heap, u.opstack[i])
      BY DEF Listable
    <3>2. Value(barred, c.heap, u.opstack[i])
      BY <2>4, <3>1 DEF Value, IsPtr
    <3>3. QED
      BY <1>1, <2>4, <3>2 DEF Listable
  <2>5. CASE c # u /\ c.opstack[i] = Stale /\ IsPtr(u.opstack[i])
    <3>1. "stale" \notin barred
      BY <1>0, <2>1, <2>5 DEF Listable
    <3>2. Value(barred, c.heap, Stale)
      BY <3>1, StaleValue
    <3>3. QED
      BY <1>1, <2>5, <3>1, <3>2 DEF Listable
  <2>6. QED
    BY <2>2, <2>3, <2>4, <2>5
<1>4. QED
  BY <1>2, <1>3

LEMMA LongerKeeps ==
  ASSUME NEW barred \in SUBSET {"stale"}, ModuleOK, NEW t, NEW slots, Len(slots) \in Nat,
         DOMAIN slots = 1 .. Len(slots), NEW n \in 1 .. Len(slots),
         NEW threads, \A u \in threads : Listing(barred, t, slots, u),
         NEW w \in Longer(threads, slots, n)
  PROVE  Listing(barred, t, slots, w)
<1>1. PICK v, u : v \in threads /\ u \in MayCollect(v) /\
        w = LET p == PlacePair(u, u.opstack[slots[Len(slots) + 1 - n]], u.local_roots[1])
            IN  [p EXCEPT !.local_roots = <<New(p)>>]
  BY DEF Longer
<1>2. /\ HeapOK(barred, v) /\ RootsOK(barred, v) /\ DOMAIN v.local_roots = 1..1
      /\ v.idx = t.idx /\ v.func = t.func /\ v.bindmap = t.bindmap
      /\ v.heap_env = t.heap_env /\ v.status = t.status
      /\ \A j \in DOMAIN slots : Listable(barred, v, slots[j])
  <2>1. Listing(barred, t, slots, v)
    BY <1>1
  <2>2. QED
    BY <2>1 DEF Listing
<1>3. CollectedTo(barred, v, u)
  BY <1>1, <1>2, Allocates
<1>4. /\ HeapOK(barred, u) /\ RootsOK(barred, u) /\ DOMAIN u.local_roots = 1..1
      /\ u.idx = t.idx /\ u.func = t.func /\ u.bindmap = t.bindmap
      /\ u.heap_env = t.heap_env /\ u.status = t.status
  BY <1>2, <1>3 DEF CollectedTo
<1>5. \A j \in DOMAIN slots : Listable(barred, u, slots[j])
  BY <1>1, <1>2, <1>3, ListableCollected
<1>6. PICK a, b : a = u.opstack[slots[Len(slots) + 1 - n]] /\ b = u.local_roots[1]
  OBVIOUS
<1>7. Value(barred, u.heap, a)
  <2>1. Len(slots) + 1 - n \in DOMAIN slots
    OBVIOUS
  <2>2. QED
    BY <1>5, <1>6, <2>1 DEF Listable
<1>8. Value(barred, u.heap, b)
  BY <1>4, <1>6 DEF RootsOK
<1>9. PICK o, p, x : o = PairOf(a, b, Object(u, b)) /\ p = Place(u, o) /\ x = New(p)
  OBVIOUS
<1>10. w = [p EXCEPT !.local_roots = <<x>>]
  BY <1>1, <1>6, <1>9 DEF PlacePair
<1>11. ObjectOK(barred, u.heap, o)
  BY <1>4, <1>7, <1>8, <1>9, PairIs
<1>12. HeapOK(barred, p) /\ Value(barred, p.heap, x)
  BY <1>4, <1>9, <1>11, PlaceKeeps
<1>13. SameRegisters(u, p) /\ SameStack(u, p) /\ Extends(u.heap, p.heap)
  BY <1>4, <1>9, PlaceIs DEF HeapOK
<1>14. /\ HeapOK(barred, w) /\ SameStack(p, w) /\ w.heap = p.heap
       /\ RootsOK(barred, w) /\ DOMAIN w.local_roots = 1..1
       /\ w.bindmap = p.bindmap /\ w.func = p.func /\ w.heap_env = p.heap_env
       /\ w.status = p.status
  BY <1>10, <1>12, OneRoot
<1>15. \A j \in DOMAIN slots : Listable(barred, w, slots[j])
  <2>1. SUFFICES ASSUME NEW j \in DOMAIN slots PROVE Listable(barred, w, slots[j])
    OBVIOUS
  <2>2. Listable(barred, u, slots[j])
    BY <1>5
  <2>3. w.opstack = u.opstack /\ w.idx = u.idx /\ Extends(u.heap, w.heap)
    BY <1>13, <1>14 DEF SameStack
  <2>4. Value(barred, w.heap, w.opstack[slots[j]])
    BY <2>2, <2>3, ValueGrows DEF Listable
  <2>5. QED
    BY <2>2, <2>3, <2>4 DEF Listable
<1>16. /\ w.idx = t.idx /\ w.func = t.func /\ w.bindmap = t.bindmap
       /\ w.heap_env = t.heap_env /\ w.status = t.status
  BY <1>4, <1>13, <1>14 DEF SameStack, SameRegisters, SameFrame
<1>17. QED
  BY <1>14, <1>15, <1>16 DEF Listing

LEMMA ListOfSlotsKeeps ==
  ASSUME NEW barred \in SUBSET {"stale"}, ModuleOK, NEW t, HeapOK(barred, t),
         NEW slots, Len(slots) \in Nat, DOMAIN slots = 1 .. Len(slots),
         \A j \in DOMAIN slots : Listable(barred, t, slots[j]),
         NEW u \in ListOfSlots(t, slots)
  PROVE  Listing(barred, t, slots, u)
<1>1. PICK m \in Nat : m = Len(slots)
  OBVIOUS
<1>2. PICK at : Listed(t, slots, m, at) /\ ListOfSlots(t, slots) = at[m]
  BY <1>1, ListOfSlotsIs
<1> DEFINE Good(S) == \A v \in S : Listing(barred, t, slots, v)
           T == {n \in 0..m : ~Good(at[n])}
<1>3. SUFFICES ASSUME T # {} PROVE FALSE
  <2>1. m \in 0..m
    OBVIOUS
  <2>2. QED
    BY <1>2, <2>1
<1>4. PICK n \in T : \A l \in T : n <= l
  <2>1. T \in SUBSET Nat
    OBVIOUS
  <2>2. QED
    BY <1>3, <2>1, LeastNat
<1>5. n # 0
  <2>1. PICK p : p = [t EXCEPT !.local_roots = <<Null>>]
    OBVIOUS
  <2>2. at[0] = {p}
    BY <1>2, <2>1 DEF Listed
  <2>3. Value(barred, t.heap, Null)
    BY Immediates
  <2>4. /\ HeapOK(barred, p) /\ SameStack(t, p) /\ p.heap = t.heap
        /\ RootsOK(barred, p) /\ DOMAIN p.local_roots = 1..1
        /\ p.bindmap = t.bindmap /\ p.func = t.func /\ p.heap_env = t.heap_env
        /\ p.status = t.status
    <3>1. PICK v : v = Null
      OBVIOUS
    <3>2. Value(barred, t.heap, v) /\ p = [t EXCEPT !.local_roots = <<v>>]
      BY <2>1, <2>3, <3>1
    <3> HIDE DEF T, Good
    <3>3. QED
      BY <3>2, OneRoot
  <2>5. \A j \in DOMAIN slots : Listable(barred, p, slots[j])
    BY <2>4 DEF Listable, SameStack
  <2>6. Listing(barred, t, slots, p)
    BY <2>4, <2>5 DEF Listing, SameStack
  <2>7. Good(at[0])
    BY <2>2, <2>6
  <2>8. QED
    BY <1>4, <2>7
<1>6. n \in 1..m /\ n - 1 \in 0..m /\ n - 1 \notin T
  BY <1>4, <1>5
<1>7. Good(at[n - 1])
  BY <1>6
<1>8. at[n] = Longer(at[n - 1], slots, n)
  BY <1>2, <1>6 DEF Listed
<1>9. Good(at[n])
  <2>1. n \in 1 .. Len(slots)
    BY <1>1, <1>6
  <2>2. PICK threads : threads = at[n - 1]
    OBVIOUS
  <2>3. \A v \in threads : Listing(barred, t, slots, v)
    BY <1>7, <2>2
  <2>4. \A w \in Longer(threads, slots, n) : Listing(barred, t, slots, w)
    BY <2>1, <2>3, LongerKeeps
  <2>5. QED
    BY <1>8, <2>2, <2>4
<1>10. QED
  BY <1>4, <1>9

LEMMA PushListKeeps ==
  ASSUME NEW barred \in SUBSET {"stale"}, ModuleOK, NEW t, HeapOK(barred, t),
         NEW slots, Len(slots) \in Nat, DOMAIN slots = 1 .. Len(slots),
         \A j \in DOMAIN slots : Listable(barred, t, slots[j]),
         NEW p \in PushList(t, slots)
  PROVE  /\ HeapOK(barred, p) /\ p.local_roots = <<>>
         /\ p.status = "run" =>
              /\ p.idx = t.idx + 1 /\ p.func = t.func /\ p.bindmap = t.bindmap
              /\ p.heap_env = t.heap_env /\ t.status = "run"
<1>1. PICK u : u \in ListOfSlots(t, slots)
                 /\ p = Push([u EXCEPT !.local_roots = <<>>], u.local_roots[1])
  BY DEF PushList
<1>2. Listing(barred, t, slots, u)
  BY <1>1, ListOfSlotsKeeps
<1>3. /\ HeapOK(barred, u) /\ RootsOK(barred, u) /\ DOMAIN u.local_roots = 1..1
      /\ u.idx = t.idx /\ u.func = t.func /\ u.bindmap = t.bindmap
      /\ u.heap_env = t.heap_env /\ u.status = t.status
  BY <1>2 DEF Listing
<1>4. PICK v, q : v = u.local_roots[1] /\ q = [u EXCEPT !.local_roots = <<>>]
  OBVIOUS
<1>5. p = Push(q, v)
  BY <1>1, <1>4
<1>6. /\ HeapOK(barred, q) /\ SameStack(u, q) /\ q.heap = u.heap /\ q.local_roots = <<>>
      /\ q.bindmap = u.bindmap /\ q.func = u.func /\ q.heap_env = u.heap_env /\ q.status = u.status
  <2>1. PICK r : r = <<>>
    OBVIOUS
  <2>2. q = [u EXCEPT !.local_roots = r]
    BY <1>4, <2>1
  <2>3. /\ HeapOK(barred, q) /\ SameStack(u, q) /\ q.heap = u.heap /\ q.local_roots = r
        /\ q.bindmap = u.bindmap /\ q.func = u.func /\ q.heap_env = u.heap_env
        /\ q.status = u.status
    <3>1. HeapOK(barred, u)
      BY <1>3
    <3>2. \A p1 : p1 = [u EXCEPT !.local_roots = r] =>
           /\ HeapOK(barred, p1) /\ SameStack(u, p1) /\ p1.heap = u.heap /\ p1.local_roots = r
           /\ p1.env = u.env /\ p1.objects = u.objects /\ p1.bindmap = u.bindmap
           /\ p1.func = u.func /\ p1.heap_env = u.heap_env /\ p1.status = u.status
      BY <3>1, RootsSet
    <3>3. QED
      BY <2>2, <3>2
  <2>4. QED
    BY <2>1, <2>3
<1>7. Value(barred, q.heap, v)
  BY <1>3, <1>4, <1>6 DEF RootsOK
<1>8. HeapOK(barred, p) /\ p.local_roots = <<>>
  BY <1>5, <1>6, <1>7, PushAlways
<1>9. ASSUME p.status = "run"
      PROVE  /\ p.idx = t.idx + 1 /\ p.func = t.func /\ p.bindmap = t.bindmap
             /\ p.heap_env = t.heap_env /\ t.status = "run"
  <2>1. SameRegisters(q, p) /\ p.idx = q.idx + 1
    BY <1>5, <1>6, <1>7, <1>9, PushIs
  <2>2. QED
    BY <1>3, <1>6, <1>9, <2>1 DEF SameRegisters, SameFrame, SameStack
<1>10. QED
  BY <1>8, <1>9

LEMMA ReturningListStep ==
  ASSUME NEW barred \in SUBSET {"stale"}, ModuleOK, MachineOK(barred), Dispatching, Callable,
         Argc >= 1, NEW slots, Len(slots) \in Nat, DOMAIN slots = 1 .. Len(slots),
         \A j \in DOMAIN slots : slots[j] \in 1 .. thread.idx, ReturningList(slots)
  PROVE  MachineOK(barred)'
<1>1. PICK s, p : /\ s = Switched /\ p \in PushList(s, slots) /\ thread' = p
                  /\ call' = Calling(Argv(p, Argc + 1, 1), 1) /\ module' = module
  BY DEF ReturningList
<1>2. /\ HeapOK(barred, s) /\ SameStack(thread, s) /\ s.heap = thread.heap
  BY <1>1, SwitchedIs
<1>3. HeapOK(barred, thread) /\ Argc \in Int /\ Argc <= thread.idx /\ thread.idx \in 0..StackSize
  BY AtCall
<1>4. \A j \in DOMAIN slots : Listable(barred, s, slots[j])
  <2>1. SUFFICES ASSUME NEW j \in DOMAIN slots PROVE Listable(barred, s, slots[j])
    OBVIOUS
  <2>2. PICK i : i = slots[j]
    OBVIOUS
  <2>3. i \in 1 .. thread.idx
    BY <2>2
  <2>4. i \in 1..StackSize /\ ~(i > thread.idx)
    BY <1>3, <2>3, VmAssumption
  <2>5. Value(barred, thread.heap, thread.opstack[i])
    BY <1>3, <2>3 DEF HeapOK
  <2>6. QED
    BY <1>2, <2>2, <2>4, <2>5 DEF Listable, SameStack
<1>5. /\ HeapOK(barred, p) /\ p.local_roots = <<>>
      /\ p.status = "run" => p.idx = s.idx + 1
  BY <1>1, <1>2, <1>4, PushListKeeps
<1>6. PICK a, n : a = Argv(p, Argc + 1, 1) /\ n = 1
  OBVIOUS
<1>7. p.status = "run" =>
        HeapOK(barred, p) /\ p.local_roots = <<>> /\ Value(barred, p.heap, a) /\ n <= p.idx
  <2>1. SUFFICES ASSUME p.status = "run" PROVE Value(barred, p.heap, a) /\ n <= p.idx
    BY <1>5
  <2>2. p.idx = thread.idx + 1
    BY <1>2, <1>5, <2>1 DEF SameStack
  <2>3. a = p.opstack[p.idx - (Argc + 1) + 1]
    BY <1>6 DEF Argv
  <2>4. p.idx - (Argc + 1) + 1 \in 1 .. p.idx
    BY <1>3, <2>2, VmAssumption
  <2>5. n <= p.idx
    BY <1>3, <1>6, <2>2, VmAssumption
  <2>6. QED
    BY <1>5, <2>3, <2>4, <2>5 DEF HeapOK
<1>8. call' = Calling(a, n) /\ n \in Int
  BY <1>1, <1>6
<1>9. QED
  BY <1>1, <1>7, <1>8, Calls

LEMMA Numbered ==
  ASSUME NEW n \in Int, NEW s, DOMAIN s = 1..n, NEW S, s \in [1..n -> S]
  PROVE  Len(s) \in Nat /\ DOMAIN s = 1 .. Len(s)
<1>1. CASE n \in Nat
  BY <1>1, SeqMade
<1>2. CASE n \notin Nat
  <2>1. PICK m \in Nat : m = 0
    OBVIOUS
  <2>2. 1..n = 1..m
    BY <1>2, <2>1
  <2>3. s \in [1..m -> S]
    BY <2>2
  <2>4. QED
    BY <2>3, SeqMade
<1>3. QED
  BY <1>1, <1>2

LEMMA ListStep ==
  ASSUME NEW barred \in SUBSET {"stale"}, ModuleOK, MachineOK(barred), List
  PROVE  MachineOK(barred)'
<1>1. Called("list") /\ NativeHeader["list"][1] = 1
  BY DEF List, NativeHeader
<1>2. Dispatching /\ Callable /\ Argc >= 1 /\ Argc \in Int
  BY <1>1, CalledIs
<1>3. Argc <= thread.idx /\ thread.idx \in 0..StackSize
  BY <1>2, AtCall
<1>4. PICK n, top, slots : n = Argc - 1 /\ top = thread.idx /\ slots = [j \in 1..n |-> top - Argc + 1 + j]
  OBVIOUS
<1>5. ReturningList(slots)
  BY <1>4 DEF List
<1>6. n \in Int /\ DOMAIN slots = 1..n /\ slots \in [1..n -> Int]
  BY <1>2, <1>3, <1>4, VmAssumption
<1>7. Len(slots) \in Nat /\ DOMAIN slots = 1 .. Len(slots)
  BY <1>6, Numbered
<1>8. \A j \in DOMAIN slots : slots[j] \in 1 .. thread.idx
  <2>1. \A j \in 1..n : slots[j] \in 1..top
    BY <1>2, <1>3, <1>4, VmAssumption
  <2>2. QED
    BY <1>4, <1>6, <2>1
<1>9. QED
  BY <1>2, <1>5, <1>7, <1>8, ReturningListStep

LEMMA MakeListStep ==
  ASSUME NEW barred \in SUBSET {"stale"}, ModuleOK, MachineOK(barred), MakeList,
         "stale" \in barred => ~Losing
  PROVE  MachineOK(barred)'
<1>1. Called("make_list") /\ NativeHeader["make_list"][1] = 3
  BY DEF MakeList, NativeHeader
<1>2. Dispatching /\ Callable /\ Argc >= 3 /\ Argc \in Int /\ Argc >= 1
  BY <1>1, CalledIs
<1>3. Argc <= thread.idx /\ thread.idx \in 0..StackSize
  BY <1>2, AtCall
<1>4. PICK a : a = Argument(2)
  OBVIOUS
<1>5. Value(barred, thread.heap, a)
  BY <1>2, <1>4, ArgumentsAre
<1>6. CASE a.k = "fix"
  <2>1. PICK n, top, slots : n = a.v /\ top = thread.idx /\ slots = [j \in 1..n |-> top]
    OBVIOUS
  <2>2. ReturningList(slots)
    BY <1>4, <1>6, <2>1 DEF MakeList
  <2>3. n \in Int
    BY <1>5, <1>6, <2>1 DEF Value
  <2>4. DOMAIN slots = 1..n /\ slots \in [1..n -> {top}]
    BY <2>1
  <2>5. Len(slots) \in Nat /\ DOMAIN slots = 1 .. Len(slots)
    BY <2>3, <2>4, Numbered
  <2>6. top \in 1..top
    BY <1>2, <1>3, <2>1, VmAssumption
  <2>7. \A j \in DOMAIN slots : slots[j] \in 1 .. thread.idx
    BY <2>1, <2>4, <2>6
  <2>8. QED
    BY <1>2, <2>2, <2>5, <2>7, ReturningListStep
<1>7. CASE a.k # "fix"
  BY <1>2, <1>4, <1>7, SwitchedRaises DEF MakeList
<1>8. QED
  BY <1>6, <1>7

-----------------------------------------------------------------------------
(* The activation of an interpreted function.                              *)

LEMMA EnvDisplayIn ==
  ASSUME NEW barred, NEW heap, IsSeq(heap), \A a \in DOMAIN heap : ObjectOK(barred, heap, heap[a]),
         NEW env, EnvValue(heap, env), NEW depth
  PROVE  \/ ~IsPtr(EnvDisplay(heap, env, depth))
         \/ EnvValue(heap, EnvDisplay(heap, env, depth))
<1>1. PICK m : m = Len(heap)
  OBVIOUS
<1>2. m \in Nat /\ DOMAIN heap = 1..m
  BY <1>1, SeqIs
<1>3. PICK outward : outward = [a \in 0 .. Len(heap) |->
                    IF a = 0 \/ heap[a].ty # "env" \/ ~IsPtr(heap[a].prev) THEN 0
                    ELSE heap[a].prev.a]
  OBVIOUS
<1>4. PICK x, at : x = (IF IsPtr(env) THEN env.a ELSE 0) /\ at = Walk(outward, x, Len(heap))
  OBVIOUS
<1>a. at = Ancestors(heap, env)
  BY <1>3, <1>4 DEF Ancestors
<1> DEFINE IsEnv(a) == a \in 1..m /\ heap[a].ty = "env"
<1>5. x \in 0..m /\ (x = 0 \/ IsEnv(x))
  BY <1>2, <1>4 DEF EnvValue, IsPtr
<1>6. \A a \in 0..m : outward[a] \in 0..m /\ (outward[a] = 0 \/ IsEnv(outward[a]))
  <2>1. SUFFICES ASSUME NEW a \in 0..m
                 PROVE  outward[a] \in 0..m /\ (outward[a] = 0 \/ IsEnv(outward[a]))
    OBVIOUS
  <2>2. outward[a] = IF a = 0 \/ heap[a].ty # "env" \/ ~IsPtr(heap[a].prev) THEN 0
                     ELSE heap[a].prev.a
    BY <1>1, <1>3
  <2>3. CASE a = 0 \/ heap[a].ty # "env" \/ ~IsPtr(heap[a].prev)
    BY <1>2, <2>2, <2>3
  <2>4. CASE ~(a = 0 \/ heap[a].ty # "env" \/ ~IsPtr(heap[a].prev))
    <3>1. a \in DOMAIN heap
      BY <1>2, <2>4
    <3>2. ObjectOK(barred, heap, heap[a])
      BY <3>1
    <3>3. EnvValue(heap, heap[a].prev)
      BY <2>4, <3>2 DEF ObjectOK
    <3>4. QED
      BY <1>2, <2>2, <2>4, <3>3 DEF EnvValue
  <2>5. QED
    BY <2>3, <2>4
<1>7. outward \in [0..m -> 0..m]
  BY <1>1, <1>3, <1>6
<1>8. Steps(outward, x, m, at) /\ at \in [0..m -> 0..m]
  BY <1>1, <1>2, <1>4, <1>5, <1>7, WalkIs
<1>9. \A k \in 0..m : at[k] = 0 \/ IsEnv(at[k])
  <2>1. SUFFICES ASSUME NEW k \in 0..m PROVE at[k] = 0 \/ IsEnv(at[k])
    OBVIOUS
  <2>2. CASE k = 0
    BY <1>5, <1>8, <2>2 DEF Steps
  <2>3. CASE k # 0
    <3>1. k \in 1..m /\ k - 1 \in 0..m
      BY <1>2, <2>3
    <3>2. at[k] = outward[at[k - 1]] /\ at[k - 1] \in 0..m
      BY <1>8, <3>1 DEF Steps
    <3>3. QED
      BY <1>6, <3>2
  <2>4. QED
    BY <2>2, <2>3
<1> DEFINE Ends(n) == n \notin DOMAIN at \/ at[n] = 0 \/ heap[at[n]].depth = depth
<1>10. PICK n : n = CHOOSE j \in 0 .. Len(heap) + 1 : Ends(j) /\ \A k \in 0 .. j - 1 : ~Ends(k)
  OBVIOUS
<1>11. EnvDisplay(heap, env, depth) = IF n \notin DOMAIN at \/ at[n] = 0 THEN NoPtr ELSE Ptr(at[n])
  BY <1>a, <1>10 DEF EnvDisplay
<1>12. CASE n \notin DOMAIN at \/ at[n] = 0
  BY <1>11, <1>12 DEF IsPtr, NoPtr
<1>13. CASE ~(n \notin DOMAIN at \/ at[n] = 0)
  <2>1. n \in 0..m
    BY <1>8, <1>13
  <2>2. IsEnv(at[n])
    BY <1>9, <1>13, <2>1
  <2>3. PICK a : a = at[n]
    OBVIOUS
  <2>4. EnvValue(heap, Ptr(a))
    BY <1>2, <2>2, <2>3 DEF EnvValue, Ptr
  <2>5. QED
    BY <1>1, <1>11, <1>13, <2>3, <2>4
<1>14. QED
  BY <1>12, <1>13

LEMMA EnvDisplayIs ==
  ASSUME NEW barred, NEW t, HeapOK(barred, t), NEW depth
  PROVE  \/ ~IsPtr(EnvDisplay(t.heap, t.env, depth))
         \/ EnvValue(t.heap, EnvDisplay(t.heap, t.env, depth))
<1>1. PICK heap, env : heap = t.heap /\ env = t.env
  OBVIOUS
<1>2. IsSeq(heap) /\ (\A a \in DOMAIN heap : ObjectOK(barred, heap, heap[a])) /\ EnvValue(heap, env)
  BY <1>1 DEF HeapOK
<1>3. \/ ~IsPtr(EnvDisplay(heap, env, depth))
      \/ EnvValue(heap, EnvDisplay(heap, env, depth))
  BY <1>2, EnvDisplayIn
<1>4. QED
  BY <1>1, <1>3

LEMMA HeapOther ==
  ASSUME NEW barred, NEW t, HeapOK(barred, t), NEW p, AllRegisters(p), p.heap = t.heap,
         p.opstack = t.opstack, p.idx \in 0 .. t.idx, EnvValue(t.heap, p.env),
         p.closure = t.closure, p.lib_cache = t.lib_cache,
         p.exception_handlers = t.exception_handlers, p.heap_env \in BOOLEAN,
         IF p.heap_env THEN EnvValue(t.heap, p.objects) ELSE p.objects.k = "slot"
  PROVE  HeapOK(barred, p)
<1>1. t.idx \in 0..StackSize
  BY DEF HeapOK
<1>2. p.idx \in 0..StackSize /\ \A i \in 1 .. p.idx : i \in 1 .. t.idx
  BY <1>1, VmAssumption
<1>3. QED
  BY <1>1, <1>2 DEF HeapOK

\* What bindmap_init leaves behind.
BindmapDone(t, fn, b) ==
  /\ b.heap = t.heap /\ b.env = t.env /\ b.objects = t.objects /\ b.func = t.func
  /\ b.heap_env = t.heap_env /\ b.local_roots = t.local_roots
  /\ b.idx = t.idx + Len(fn.bindmap)
  /\ fn.bindings # <<>> => b.bindmap = Slot(t.idx)
  /\ \A i \in 1 .. Len(fn.bindmap) : EnvValue(b.heap, b.opstack[t.idx + i])

LEMMA BindmapIs ==
  ASSUME NEW barred \in SUBSET {"stale"}, NEW t, HeapOK(barred, t), t.bindmap = NoPtr,
         NEW fn, IsSeq(fn.bindmap), fn.bindings = <<>> => fn.bindmap = <<>>,
         NEW b, b = BindmapInit(t, fn), b.status = "run"
  PROVE  t.status = "run" /\ HeapOK(barred, b) /\ BindmapDone(t, fn, b)
<1>1. PICK k : k = Len(fn.bindmap)
  OBVIOUS
<1>2. k \in Nat /\ DOMAIN fn.bindmap = 1..k
  BY <1>1, SeqIs
<1>3. CASE fn.bindings = <<>>
  <2>1. b = t
    BY <1>3 DEF BindmapInit
  <2>2. k = 0
    BY <1>1, <1>3
  <2>3. t.idx \in 0..StackSize
    BY DEF HeapOK
  <2>4. t.idx = t.idx + k
    BY <2>2, <2>3, VmAssumption
  <2>5. \A i \in 1..k : FALSE
    BY <2>2
  <2>6. QED
    BY <1>1, <1>3, <2>1, <2>4, <2>5 DEF BindmapDone
<1>4. CASE fn.bindings # <<>>
  <2>1. PICK envs, n : envs = [i \in DOMAIN fn.bindmap |-> EnvDisplay(t.heap, t.env, fn.bindmap[i])]
                       /\ n = Len(envs)
    OBVIOUS
  <2>2. DOMAIN envs = 1..k /\ n = k
    <3>1. PICK S : S = {envs[i] : i \in 1..k}
      OBVIOUS
    <3>2. envs \in [1..k -> S]
      BY <1>2, <2>1, <3>1
    <3>3. QED
      BY <1>2, <2>1, <3>2, SeqMade
  <2>3. PICK stack, m, s : /\ m = t.idx + n /\ s = Slot(t.idx)
                           /\ stack = [i \in DOMAIN t.opstack |->
                                IF i \in t.idx + 1 .. t.idx + n THEN envs[i - t.idx] ELSE t.opstack[i]]
    OBVIOUS
  <2>4. \/ b = Stop(t, "undefined") \/ b = Stop(t, "fatal")
        \/ /\ ~(t.idx + n > StackSize)
           /\ \A i \in 1..n : IsPtr(envs[i])
           /\ b = [t EXCEPT !.bindmap = s, !.idx = m, !.opstack = stack]
    BY <1>4, <2>1, <2>3 DEF BindmapInit
  <2>5. AllRegisters(t) /\ DOMAIN t.opstack = 1..StackSize /\ t.idx \in 0..StackSize
    BY DEF HeapOK
  <2>6. /\ ~(t.idx + n > StackSize)
        /\ \A i \in 1..n : IsPtr(envs[i])
        /\ b = [t EXCEPT !.bindmap = s, !.idx = m, !.opstack = stack]
    <3>1. Stop(t, "undefined").status # "run" /\ Stop(t, "fatal").status # "run"
      BY <2>5, StopIs
    <3>2. QED
      BY <2>4, <3>1
  <2>7. /\ AllRegisters(b) /\ b.heap = t.heap /\ b.env = t.env /\ b.objects = t.objects
        /\ b.func = t.func /\ b.heap_env = t.heap_env /\ b.local_roots = t.local_roots
        /\ b.idx = m /\ b.opstack = stack /\ b.bindmap = s /\ b.status = t.status
        /\ b.closure = t.closure /\ b.lib_cache = t.lib_cache
        /\ b.exception_handlers = t.exception_handlers
    BY <2>5, <2>6 DEF AllRegisters
  <2>8. m \in 0..StackSize
    BY <1>2, <2>2, <2>3, <2>5, <2>6, VmAssumption
  <2>9. \A i \in 1..k : EnvValue(t.heap, stack[t.idx + i])
    <3>1. SUFFICES ASSUME NEW i \in 1..k PROVE EnvValue(t.heap, stack[t.idx + i])
      OBVIOUS
    <3>0. PICK j : j = t.idx + i
      OBVIOUS
    <3>2. j \in DOMAIN t.opstack /\ j \in t.idx + 1 .. t.idx + n /\ j - t.idx = i
      BY <1>2, <2>2, <2>3, <2>5, <2>8, <3>0, VmAssumption
    <3>3. stack[t.idx + i] = envs[i]
      <4>1. stack[j] = envs[j - t.idx]
        BY <2>3, <3>2
      <4>2. QED
        BY <3>0, <3>2, <4>1
    <3>4. envs[i] = EnvDisplay(t.heap, t.env, fn.bindmap[i])
      BY <1>2, <2>1
    <3>5. IsPtr(envs[i])
      BY <2>2, <2>6
    <3>6. QED
      BY <3>3, <3>4, <3>5, EnvDisplayIs
  <2>10. \A i \in 1..m : Value(barred, t.heap, stack[i])
    <3>1. SUFFICES ASSUME NEW i \in 1..m PROVE Value(barred, t.heap, stack[i])
      OBVIOUS
    <3>2. i \in DOMAIN t.opstack
      BY <2>5, <2>8, VmAssumption
    <3>3. CASE i \in t.idx + 1 .. t.idx + n
      <4>1. i - t.idx \in 1..k /\ t.idx + (i - t.idx) = i
        BY <1>2, <2>2, <2>5, <3>3, VmAssumption
      <4>2. EnvValue(t.heap, stack[i])
        BY <2>9, <4>1
      <4>3. QED
        BY <4>2 DEF EnvValue, Value
    <3>4. CASE i \notin t.idx + 1 .. t.idx + n
      <4>1. i \in 1 .. t.idx
        BY <1>2, <2>2, <2>3, <2>5, <3>4, VmAssumption
      <4>2. stack[i] = t.opstack[i]
        BY <2>3, <3>2, <3>4
      <4>3. QED
        BY <4>1, <4>2 DEF HeapOK
    <3>5. QED
      BY <3>3, <3>4
  <2>11. DOMAIN stack = 1..StackSize
    BY <2>3, <2>5
  <2>12. HeapOK(barred, b)
    BY <2>7, <2>8, <2>10, <2>11 DEF HeapOK
  <2>13. QED
    BY <1>1, <2>2, <2>3, <2>7, <2>9, <2>12 DEF BindmapDone
<1>5. QED
  BY <1>3, <1>4

\* What a frame on the stack with n arguments looks like.
StackFramed(t, n, q) ==
  /\ q.heap = t.heap /\ q.env = t.env /\ q.func = t.func
  /\ q.bindmap = t.bindmap /\ q.local_roots = t.local_roots /\ q.status = t.status
  /\ q.heap_env = FALSE /\ q.objects.k = "slot" /\ q.objects.i \in 0..n
  /\ q.idx = q.objects.i + n

LEMMA StackFrameIs ==
  ASSUME NEW barred, NEW t, HeapOK(barred, t), NEW n \in Nat, n <= t.idx,
         NEW q, q = [StackFrame(t, n) EXCEPT !.heap_env = FALSE]
  PROVE  HeapOK(barred, q) /\ StackFramed(t, n, q)
<1>1. /\ AllRegisters(t) /\ DOMAIN t.opstack = 1..StackSize /\ t.idx \in 0..StackSize
      /\ EnvValue(t.heap, t.env)
  BY DEF HeapOK
<1>2. CASE ~(t.idx > n * 2)
  <2>1. PICK i, s : i = t.idx - n /\ s = Slot(i)
    OBVIOUS
  <2>2. q = [[t EXCEPT !.objects = s] EXCEPT !.heap_env = FALSE]
    BY <1>2, <2>1 DEF StackFrame
  <2>3. /\ AllRegisters(q) /\ q.heap = t.heap /\ q.env = t.env /\ q.func = t.func
        /\ q.bindmap = t.bindmap /\ q.local_roots = t.local_roots /\ q.status = t.status
        /\ q.heap_env = FALSE /\ q.objects = s /\ q.idx = t.idx /\ q.opstack = t.opstack
        /\ q.closure = t.closure /\ q.lib_cache = t.lib_cache
        /\ q.exception_handlers = t.exception_handlers
    BY <1>1, <2>2 DEF AllRegisters
  <2>4. s.k = "slot" /\ s.i = i
    BY <2>1 DEF Slot
  <2>5. i \in 0..n /\ t.idx = i + n /\ t.idx \in 0 .. t.idx
    BY <1>1, <1>2, <2>1, VmAssumption
  <2>6. HeapOK(barred, q)
    BY <1>1, <2>3, <2>4, <2>5, HeapOther
  <2>7. QED
    BY <2>3, <2>4, <2>5, <2>6 DEF StackFramed
<1>3. CASE t.idx > n * 2
  <2>1. PICK s, stack : /\ s = Slot(0)
                        /\ stack = [i \in DOMAIN t.opstack |->
                                      IF i <= n THEN t.opstack[t.idx - n + i] ELSE t.opstack[i]]
    OBVIOUS
  <2>2. q = [[t EXCEPT !.opstack = stack, !.objects = s, !.idx = n] EXCEPT !.heap_env = FALSE]
    BY <1>3, <2>1 DEF StackFrame
  <2>3. /\ AllRegisters(q) /\ q.heap = t.heap /\ q.env = t.env /\ q.func = t.func
        /\ q.bindmap = t.bindmap /\ q.local_roots = t.local_roots /\ q.status = t.status
        /\ q.heap_env = FALSE /\ q.objects = s /\ q.idx = n /\ q.opstack = stack
        /\ q.closure = t.closure /\ q.lib_cache = t.lib_cache
        /\ q.exception_handlers = t.exception_handlers
    BY <1>1, <2>2 DEF AllRegisters
  <2>4. s.k = "slot" /\ s.i = 0
    BY <2>1 DEF Slot
  <2>5. n \in 0..StackSize /\ DOMAIN stack = 1..StackSize
    BY <1>1, <2>1, VmAssumption
  <2>6. \A i \in 1..n : Value(barred, t.heap, stack[i])
    <3>1. SUFFICES ASSUME NEW i \in 1..n PROVE Value(barred, t.heap, stack[i])
      OBVIOUS
    <3>2. PICK j : j = t.idx - n + i
      OBVIOUS
    <3>3. i \in DOMAIN t.opstack /\ i <= n /\ j \in 1 .. t.idx
      BY <1>1, <3>2, VmAssumption
    <3>4. stack[i] = t.opstack[j]
      BY <2>1, <3>2, <3>3
    <3>5. QED
      BY <3>3, <3>4 DEF HeapOK
  <2>7. HeapOK(barred, q)
    BY <2>3, <2>4, <2>5, <2>6 DEF HeapOK
  <2>8. n = 0 + n /\ 0 \in 0..n
    OBVIOUS
  <2>9. QED
    BY <2>3, <2>4, <2>7, <2>8 DEF StackFramed
<1>4. QED
  BY <1>2, <1>3

LEMMA ZeroValue ==
  ASSUME NEW barred \in SUBSET {"stale"}, NEW heap
  PROVE  Value(barred, heap, Fix(0))
BY Immediates

\* What a frame on the heap looks like.
HeapFramed(t, f, q) ==
  /\ q.func = t.func /\ q.bindmap = t.bindmap
  /\ q.local_roots = <<>> /\ q.status = t.status
  /\ q.heap_env = TRUE /\ q.objects = q.env /\ q.idx = 0
  /\ Len(q.heap[q.env.a].objects) = Function(f).env_size

LEMMA HeapFrameIs ==
  ASSUME NEW barred \in SUBSET {"stale"}, NEW t, HeapOK(barred, t), t.local_roots = <<>>,
         NEW f, Function(f).env_size \in Nat,
         NEW n \in Nat, n # 0, n <= t.idx, n <= Function(f).env_size,
         NEW x \in HeapFrame(t, f, n), NEW q, q = [x EXCEPT !.heap_env = TRUE]
  PROVE  HeapOK(barred, q) /\ HeapFramed(t, f, q)
<1>1. PICK u \in MayCollect(t) :
        LET p == EnvNew(u, f, u.env)
            env == New(p)
        IN  x = [p EXCEPT !.env = env, !.objects = env,
                 !.heap[env.a].objects =
                   [i \in DOMAIN @ |-> IF i <= n THEN p.opstack[p.idx - n + i] ELSE @[i]],
                 !.idx = IF n = 0 THEN @ ELSE 0]
  BY DEF HeapFrame
<1>2. CollectedTo(barred, t, u)
  BY <1>1, NoRoots, Allocates
<1>3. /\ HeapOK(barred, u) /\ u.local_roots = <<>> /\ u.idx = t.idx /\ u.func = t.func
      /\ u.bindmap = t.bindmap /\ u.status = t.status
  BY <1>2, NoRootsKept DEF CollectedTo
<1>4. PICK size, zeros : size = Function(f).env_size /\ zeros = [i \in 1..size |-> Fix(0)]
  OBVIOUS
<1>5. IsSeq(zeros) /\ Len(zeros) = size /\ DOMAIN zeros = 1..size
  <2>1. zeros \in [1..size -> {Fix(0)}]
    BY <1>4
  <2>2. QED
    BY <1>4, <2>1, SeqMade
<1>6. PICK o, p, env : /\ o = [ty |-> "env", prev |-> u.env, depth |-> Function(f).depth,
                               fn |-> f, objects |-> zeros]
                       /\ p = Place(u, o) /\ env = New(p)
  OBVIOUS
<1>7. p = EnvNew(u, f, u.env)
  BY <1>4, <1>6 DEF EnvNew
<1>8. ObjectOK(barred, u.heap, o)
  <2>1. PICK e : e = u.env
    OBVIOUS
  <2>2. EnvValue(u.heap, e)
    BY <1>3, <2>1 DEF HeapOK
  <2>3. /\ o.ty = "env" /\ DOMAIN o = {"ty", "prev", "depth", "fn", "objects"}
        /\ o.prev = e /\ o.objects = zeros
    BY <1>6, <2>1
  <2>4. \A i \in DOMAIN zeros : Value(barred, u.heap, zeros[i])
    <3>1. Value(barred, u.heap, Fix(0))
      BY ZeroValue
    <3>2. \A i \in DOMAIN zeros : zeros[i] = Fix(0)
      BY <1>4
    <3>3. QED
      BY <3>1, <3>2
  <2>5. QED
    BY <1>5, <2>2, <2>3, <2>4 DEF ObjectOK, DataOK, EnvValue
<1>9. HeapOK(barred, p) /\ EnvValue(p.heap, env)
  <2>1. o.ty = "env" /\ p = Place(u, o)
    BY <1>6
  <2>2. HeapOK(barred, p) /\ EnvValue(p.heap, New(p))
    BY <1>3, <1>8, <2>1, PlaceKeeps
  <2>3. QED
    BY <1>6, <2>2
<1>10. /\ SameRegisters(u, p) /\ SameStack(u, p) /\ AllRegisters(p)
       /\ env = Ptr(Len(u.heap) + 1) /\ DOMAIN p.heap = 1 .. Len(u.heap) + 1
       /\ p.heap[Len(u.heap) + 1] = o
  BY <1>3, <1>6, PlaceIs DEF HeapOK
<1>11. PICK a, filled, new, heap :
         /\ a = env.a
         /\ filled = [i \in DOMAIN zeros |-> IF i <= n THEN p.opstack[p.idx - n + i] ELSE zeros[i]]
         /\ new = [o EXCEPT !.objects = filled]
         /\ heap = [p.heap EXCEPT ![a] = new]
  OBVIOUS
<1>12. a = Len(u.heap) + 1 /\ a \in DOMAIN p.heap /\ p.heap[a] = o
  <2>1. a = Len(u.heap) + 1
    BY <1>10, <1>11 DEF Ptr
  <2>2. a \in DOMAIN p.heap
    BY <1>9, <1>11 DEF EnvValue
  <2>3. QED
    BY <1>10, <2>1, <2>2
<1>13. /\ new.ty = "env" /\ DOMAIN new = {"ty", "prev", "depth", "fn", "objects"}
       /\ new.prev = o.prev /\ new.objects = filled /\ o.objects = zeros /\ o.ty = "env"
  BY <1>6, <1>11
<1>14. IsSeq(filled) /\ Len(filled) = size /\ \A i \in DOMAIN filled : Value(barred, p.heap, filled[i])
  <2>1. PICK S : S = {filled[i] : i \in 1..size}
    OBVIOUS
  <2>2. filled \in [1..size -> S]
    BY <1>5, <1>11, <2>1
  <2>3. IsSeq(filled) /\ Len(filled) = size /\ DOMAIN filled = 1..size
    BY <1>4, <2>2, SeqMade
  <2>4. SUFFICES ASSUME NEW i \in 1..size PROVE Value(barred, p.heap, filled[i])
    BY <2>3
  <2>5. CASE i <= n
    <3>1. PICK j : j = p.idx - n + i
      OBVIOUS
    <3>2. p.idx \in 0..StackSize /\ p.idx = t.idx
      BY <1>3, <1>9, <1>10 DEF HeapOK, SameStack
    <3>3. j \in 1 .. p.idx
      BY <1>4, <2>5, <3>1, <3>2, VmAssumption
    <3>4. filled[i] = p.opstack[j]
      BY <1>5, <1>11, <2>5, <3>1
    <3>5. QED
      BY <1>9, <3>3, <3>4 DEF HeapOK
  <2>6. CASE ~(i <= n)
    <3>1. filled[i] = Fix(0)
      BY <1>4, <1>5, <1>11, <2>6
    <3>2. QED
      BY <3>1, ZeroValue
  <2>7. QED
    BY <2>5, <2>6
<1>15. ObjectOK(barred, p.heap, new)
  <2>1. ObjectOK(barred, p.heap, o)
    BY <1>9, <1>12 DEF HeapOK
  <2>2. (IsPtr(o.prev) => EnvValue(p.heap, o.prev)) /\ o.prev.k \in {"ptr", "none"}
    BY <1>13, <2>1 DEF ObjectOK
  <2>3. QED
    BY <1>13, <1>14, <2>2 DEF ObjectOK, DataOK
<1>16. PICK y : y = [p EXCEPT !.heap = heap]
  OBVIOUS
<1>17. HeapOK(barred, y) /\ AllRegisters(y) /\ y.heap = heap
  <2>1. /\ AllRegisters(y) /\ SameRegisters(p, y) /\ y.opstack = p.opstack
        /\ y.heap = [p.heap EXCEPT ![a] = new] /\ y.idx = p.idx
    BY <1>10, <1>11, <1>16 DEF AllRegisters, SameRegisters, SameFrame
  <2>2. new.ty = p.heap[a].ty /\ (new.ty = "env" => Len(new.objects) = Len(p.heap[a].objects))
    BY <1>5, <1>12, <1>13, <1>14
  <2>3. y.idx \in 0 .. p.idx
    BY <1>9, <2>1, VmAssumption DEF HeapOK
  <2>4. HeapOK(barred, y)
    BY <1>9, <1>12, <1>15, <2>1, <2>2, <2>3, HeapSet
  <2>5. QED
    BY <1>11, <2>1, <2>4
<1>18. q = [y EXCEPT !.env = env, !.objects = env, !.idx = 0, !.heap_env = TRUE]
  <2>1. x = [p EXCEPT !.env = env, !.objects = env,
                 !.heap[env.a].objects =
                   [i \in DOMAIN @ |-> IF i <= n THEN p.opstack[p.idx - n + i] ELSE @[i]],
                 !.idx = IF n = 0 THEN @ ELSE 0]
    BY <1>1, <1>6, <1>7
  <2>2. x = [p EXCEPT !.env = env, !.objects = env, !.heap = heap, !.idx = 0]
    <3>1. x = [p EXCEPT !.env = env, !.objects = env,
                 !.heap[a].objects = filled, !.idx = 0]
      <4>1. PICK F : F = [i \in DOMAIN p.heap[env.a].objects |->
                            IF i <= n THEN p.opstack[p.idx - n + i] ELSE p.heap[env.a].objects[i]]
        OBVIOUS
      <4>2. p.heap[env.a].objects = zeros
        BY <1>11, <1>12, <1>13
      <4>3. F = filled
        BY <1>11, <4>1, <4>2
      <4>4. x = [p EXCEPT !.env = env, !.objects = env, !.heap[env.a].objects = F, !.idx = 0]
        BY <2>1, <4>1
      <4>5. QED
        BY <1>11, <4>3, <4>4
    <3>2. heap = [p.heap EXCEPT ![a].objects = filled]
      BY <1>11, <1>12
    <3>3. QED
      BY <1>10, <3>1, <3>2 DEF AllRegisters
  <2>3. QED
    BY <1>10, <1>16, <2>2 DEF AllRegisters
<1>19. /\ AllRegisters(q) /\ q.heap = y.heap /\ q.opstack = y.opstack /\ q.idx = 0 /\ q.env = env
       /\ q.objects = env /\ q.closure = y.closure /\ q.lib_cache = y.lib_cache
       /\ q.exception_handlers = y.exception_handlers /\ q.heap_env = TRUE
       /\ q.func = y.func /\ q.bindmap = y.bindmap /\ q.local_roots = y.local_roots
       /\ q.status = y.status
  BY <1>17, <1>18 DEF AllRegisters
<1>20. heap[a] = new /\ DOMAIN heap = DOMAIN p.heap
  BY <1>11, <1>12
<1>21. EnvValue(y.heap, env)
  BY <1>9, <1>11, <1>12, <1>13, <1>17, <1>20 DEF EnvValue
<1>22. HeapOK(barred, q)
  <2>1. 0 \in 0 .. y.idx
    BY <1>17, VmAssumption DEF HeapOK
  <2>2. QED
    BY <1>17, <1>19, <1>21, <2>1, HeapOther
<1>23. Len(q.heap[q.env.a].objects) = size
  <2>1. q.env.a = a
    BY <1>11, <1>19
  <2>2. q.heap[a].objects = filled
    BY <1>13, <1>17, <1>19, <1>20
  <2>3. QED
    BY <1>14, <2>1, <2>2
<1>24. /\ y.func = t.func /\ y.bindmap = t.bindmap /\ y.local_roots = <<>> /\ y.status = t.status
  BY <1>3, <1>10, <1>16 DEF SameRegisters, SameFrame, AllRegisters
<1>25. QED
  BY <1>4, <1>19, <1>22, <1>23, <1>24 DEF HeapFramed

\* The arguments of a call with argc of them, as many as the function takes, on
\* a stack where a collection finds those that go to the list of the rest.
Swallows(barred, t, fn, argc) ==
  /\ fn.argc \in Nat /\ argc \in Int /\ argc <= t.idx
  /\ IF fn.swallow THEN argc >= fn.argc ELSE argc = fn.argc
  /\ fn.swallow /\ Collecting /\ "stale" \in barred =>
       \A i \in 1 .. argc - fn.argc : ~IsPtr(Top(t, i))

SwallowedTo(t, fn, argc, u) ==
  /\ ArgsEntered(fn, argc) <= u.idx
  /\ u.func = t.func /\ u.bindmap = t.bindmap /\ t.status = "run"

LEMMA SwallowedIs ==
  ASSUME NEW barred \in SUBSET {"stale"}, ModuleOK, NEW t, HeapOK(barred, t), t.local_roots = <<>>,
         NEW fn, NEW argc, Swallows(barred, t, fn, argc), NEW u \in Swallowed(t, fn, argc)
  PROVE  /\ HeapOK(barred, u) /\ u.local_roots = <<>>
         /\ u.status = "run" => SwallowedTo(t, fn, argc, u)
<1>0. /\ fn.argc \in Nat /\ argc \in Int /\ argc <= t.idx
      /\ IF fn.swallow THEN argc >= fn.argc ELSE argc = fn.argc
      /\ fn.swallow /\ Collecting /\ "stale" \in barred =>
           \A i \in 1 .. argc - fn.argc : ~IsPtr(Top(t, i))
  BY DEF Swallows
<1> USE <1>0
<1>1. t.idx \in 0..StackSize
  BY DEF HeapOK
<1>2. CASE ~fn.swallow
  <2>1. u = t
    BY <1>2 DEF Swallowed
  <2>2. ArgsEntered(fn, argc) = argc
    BY <1>2 DEF ArgsEntered
  <2>3. QED
    BY <1>2, <2>1, <2>2 DEF SwallowedTo
<1>3. CASE fn.swallow /\ argc = fn.argc
  <2>1. PICK v : v = Null
    OBVIOUS
  <2>2. u = Push(t, v)
    <3>1. argc - fn.argc = 0
      BY <1>3
    <3>2. QED
      BY <1>3, <2>1, <3>1 DEF Swallowed
  <2>3. Value(barred, t.heap, v)
    BY <2>1, Immediates
  <2>4. HeapOK(barred, u) /\ u.local_roots = <<>>
    BY <2>2, <2>3, PushAlways
  <2>5. ASSUME u.status = "run"
        PROVE  /\ ArgsEntered(fn, argc) <= u.idx
               /\ u.func = t.func /\ u.bindmap = t.bindmap /\ t.status = "run"
    <3>1. SameRegisters(t, u) /\ u.idx = t.idx + 1
      BY <2>2, <2>3, <2>5, PushIs
    <3>2. ArgsEntered(fn, argc) = fn.argc + 1
      BY <1>3 DEF ArgsEntered
    <3>3. fn.argc + 1 <= t.idx + 1
      BY <1>1, <1>3, VmAssumption
    <3>4. QED
      BY <2>5, <3>1, <3>2, <3>3 DEF SameRegisters, SameFrame
  <2>6. QED
    BY <2>4, <2>5 DEF SwallowedTo
<1>4. CASE fn.swallow /\ argc # fn.argc
  <2>1. PICK n, top, p, slots :
          n = argc - fn.argc /\ top = t.idx /\ p = Pop(t, n) /\ slots = [j \in 1..n |-> top - n + j]
    OBVIOUS
  <2>2. n \in Nat /\ n # 0 /\ n <= t.idx /\ t.idx - n >= fn.argc
    BY <1>1, <1>4, <2>1, VmAssumption
  <2>3. u \in PushList(p, slots)
    BY <1>4, <2>1, <2>2 DEF Swallowed
  <2>4. HeapOK(barred, p) /\ SameRegisters(t, p) /\ p.heap = t.heap
        /\ p.idx = t.idx - n /\ p.opstack = t.opstack
    BY <2>1, <2>2, PopIs
  <2>5. DOMAIN slots = 1..n /\ slots \in [1..n -> Int]
    BY <1>1, <2>1, <2>2, VmAssumption
  <2>6. Len(slots) \in Nat /\ DOMAIN slots = 1 .. Len(slots)
    BY <2>2, <2>5, Numbered
  <2>7. \A j \in DOMAIN slots : Listable(barred, p, slots[j])
    <3>1. SUFFICES ASSUME NEW j \in 1..n PROVE Listable(barred, p, slots[j])
      BY <2>5
    <3>2. PICK i, k : i = top - n + j /\ k = n + 1 - j
      OBVIOUS
    <3>3. slots[j] = i
      BY <2>1, <3>2
    <3>4. i \in 1 .. t.idx /\ i \in 1..StackSize /\ k \in 1..n /\ i = t.idx + 1 - k
      <4>1. top \in Int /\ top <= StackSize /\ StackSize \in Int /\ n \in Int /\ n <= top /\ j \in 1..n
        BY <1>1, <2>1, <2>2, VmAssumption
      <4>2. i \in 1..top /\ i \in 1..StackSize /\ k \in 1..n /\ i = top + 1 - k
        BY <3>2, <4>1
      <4>3. QED
        BY <2>1, <4>2
    <3>5. Value(barred, p.heap, p.opstack[i])
      BY <2>4, <3>4 DEF HeapOK
    <3>6. "stale" \in barred /\ Collecting => ~IsPtr(p.opstack[i])
      <4>1. Top(t, k) = t.opstack[i]
        BY <3>4 DEF Top
      <4>2. k \in 1 .. argc - fn.argc
        BY <2>1, <3>4
      <4>3. QED
        BY <1>4, <2>4, <4>1, <4>2
    <3>7. QED
      BY <3>3, <3>4, <3>5, <3>6 DEF Listable
  <2>8. /\ HeapOK(barred, u) /\ u.local_roots = <<>>
        /\ u.status = "run" =>
              /\ u.idx = p.idx + 1 /\ u.func = p.func /\ u.bindmap = p.bindmap
              /\ p.status = "run"
    BY <2>3, <2>4, <2>6, <2>7, PushListKeeps
  <2>9. ArgsEntered(fn, argc) = fn.argc + 1
    BY <1>4 DEF ArgsEntered
  <2>10. fn.argc + 1 <= p.idx + 1
    BY <1>1, <2>2, <2>4, VmAssumption
  <2>11. QED
    BY <2>4, <2>8, <2>9, <2>10 DEF SameRegisters, SameFrame, SwallowedTo
<1>5. QED
  BY <1>2, <1>3, <1>4

LEMMA StatusKept ==
  ASSUME NEW t, AllRegisters(t), NEW b, NEW fn, b = BindmapInit(t, fn), b.status = "run"
  PROVE  t.status = "run"
<1>1. CASE b = t
  BY <1>1
<1>2. CASE b = Stop(t, "undefined") \/ b = Stop(t, "fatal")
  BY <1>2, StopIs
<1>3. CASE ~(b = t) /\ ~(b = Stop(t, "undefined") \/ b = Stop(t, "fatal"))
  <2>1. PICK envs : envs = [i \in DOMAIN fn.bindmap |-> EnvDisplay(t.heap, t.env, fn.bindmap[i])]
    OBVIOUS
  <2>2. b = [t EXCEPT !.bindmap = Slot(t.idx), !.idx = @ + Len(envs),
                     !.opstack = [i \in DOMAIN @ |->
                        IF i \in t.idx + 1 .. t.idx + Len(envs) THEN envs[i - t.idx] ELSE @[i]]]
    BY <1>3, <2>1 DEF BindmapInit
  <2>3. PICK x, y, z : b = [t EXCEPT !.bindmap = x, !.idx = y, !.opstack = z]
    BY <2>2
  <2>4. b.status = t.status
    BY <2>3 DEF AllRegisters
  <2>5. QED
    BY <2>4
<1>4. QED
  BY <1>1, <1>2, <1>3

LEMMA FramesKeepStatus ==
  ASSUME NEW barred \in SUBSET {"stale"}, NEW u, HeapOK(barred, u), u.local_roots = <<>>,
         NEW f, NEW n
  PROVE  /\ \A x \in HeapFrame(u, f, n) : AllRegisters(x) /\ x.status = u.status
         /\ AllRegisters(StackFrame(u, n)) /\ StackFrame(u, n).status = u.status
<1>1. AllRegisters(u)
  BY DEF HeapOK
<1>2. AllRegisters(StackFrame(u, n)) /\ StackFrame(u, n).status = u.status
  <2>1. PICK w : w = StackFrame(u, n)
    OBVIOUS
  <2>2. PICK a, b, c, d : w = [u EXCEPT !.opstack = a, !.objects = b, !.idx = c]
                          \/ w = [u EXCEPT !.objects = d]
    BY <2>1 DEF StackFrame
  <2>3. AllRegisters(w) /\ w.status = u.status
    BY <1>1, <2>2 DEF AllRegisters
  <2>4. QED
    BY <2>1, <2>3
<1>3. ASSUME NEW x \in HeapFrame(u, f, n)
      PROVE  AllRegisters(x) /\ x.status = u.status
  <2>1. PICK v \in MayCollect(u) :
        LET p == EnvNew(v, f, v.env)
            env == New(p)
        IN  x = [p EXCEPT !.env = env, !.objects = env,
                 !.heap[env.a].objects =
                   [i \in DOMAIN @ |-> IF i <= n THEN p.opstack[p.idx - n + i] ELSE @[i]],
                 !.idx = IF n = 0 THEN @ ELSE 0]
    BY <1>3 DEF HeapFrame
  <2>2. CollectedTo(barred, u, v)
    BY <2>1, NoRoots, Allocates
  <2>3. HeapOK(barred, v) /\ v.status = u.status
    BY <2>2 DEF CollectedTo
  <2>4. PICK o, p : p = EnvNew(v, f, v.env) /\ p = Place(v, o)
    BY DEF EnvNew
  <2>5. AllRegisters(p) /\ SameRegisters(v, p)
    BY <2>3, <2>4, PlaceIs DEF HeapOK
  <2>6. PICK a, b, c, d : x = [p EXCEPT !.env = a, !.objects = b, !.heap = c, !.idx = d]
    <3>1. PICK env, F : x = [p EXCEPT !.env = env, !.objects = env, !.heap[env.a].objects = F,
                                      !.idx = IF n = 0 THEN @ ELSE 0]
      BY <2>1, <2>4
    <3>2. PICK c : c = [p.heap EXCEPT ![env.a].objects = F]
      OBVIOUS
    <3>3. PICK d : d = IF n = 0 THEN p.idx ELSE 0
      OBVIOUS
    <3>4. x = [p EXCEPT !.env = env, !.objects = env, !.heap = c, !.idx = d]
      BY <2>5, <3>1, <3>2, <3>3 DEF AllRegisters
    <3>5. QED
      BY <3>4
  <2>7. AllRegisters(x) /\ x.status = p.status
    BY <2>5, <2>6 DEF AllRegisters
  <2>8. QED
    BY <2>3, <2>5, <2>7 DEF SameRegisters, SameFrame
<1>4. QED
  BY <1>2, <1>3

LEMMA CalleeIs ==
  ASSUME NEW barred \in SUBSET {"stale"}, ModuleOK, MachineOK(barred), Dispatching, Callable,
         Interpreted
  PROVE  Callee \in Loadable
<1>1. HeapOK(barred, thread) /\ Value(barred, thread.heap, Fp)
  BY AtCall
<1>2. CASE IsPtr(Fp)
  <2>1. Object(thread, Fp).ty = "closure"
    BY <1>2 DEF Callable, IsFunc, IsPtr, IsType
  <2>2. Object(thread, Fp) = thread.heap[Fp.a] /\ ObjectOK(barred, thread.heap, thread.heap[Fp.a])
    BY <1>1, <1>2, Leads
  <2>3. QED
    BY <1>2, <2>1, <2>2 DEF ObjectOK, Callee
<1>3. CASE ~IsPtr(Fp)
  <2>1. IsFunc(Fp)
    <3>1. Object(thread, Fp).ty # "closure"
      BY <1>1, <1>3, Leads
    <3>2. QED
      BY <3>1 DEF Callable, IsType
  <2>2. Fp.k = "func"
    BY <2>1 DEF IsFunc, Interpreted
  <2>3. QED
    BY <1>1, <1>3, <2>2 DEF Value, Callee
<1>4. QED
  BY <1>2, <1>3

LEMMA Enters ==
  ASSUME ModuleOK, NEW barred, NEW f \in Loadable, NEW b, HeapOK(barred, b), b.func = f,
         b.local_roots = <<>>, b.heap_env = Function(f).heap_env,
         NEW base \in Nat, b.idx = base + Len(Function(f).bindmap),
         Function(f).bindings # <<>> => b.bindmap = Slot(base),
         \A i \in 1 .. Len(Function(f).bindmap) : EnvValue(b.heap, b.opstack[base + i]),
         IF b.heap_env
         THEN base = 0 /\ b.objects = b.env
              /\ Len(b.heap[b.env.a].objects) = Function(f).env_size
         ELSE b.objects.i \in 0 .. Arguments(Function(f))
              /\ base = b.objects.i + Arguments(Function(f))
  PROVE  StateOK(barred, b, 0, NoCall)
<1>1. f \in 0 .. Len(module.functions) - 1 /\ f # module.entry_point
  BY DEF Loadable
<1>2. FunctionOK(f) /\ Len(Function(f).bindmap) \in Nat
  BY <1>1, FunctionIs
<1>3. PICK code, height : code = Function(f).code /\ height = module.heights[f + 1]
  OBVIOUS
<1>4. 1 \in DOMAIN code /\ height[1] = 0
  BY <1>2, <1>3 DEF FunctionOK, CodeOK
<1>5. Base(b) = base
  BY DEF Base
<1>6. b.idx = Base(b) + Len(Function(f).bindmap) + height[0 + 1]
  BY <1>2, <1>4, <1>5
<1>7. ~b.heap_env => Slots(f) = Arguments(Function(f))
  BY <1>1 DEF Slots
<1>8. 0 + 1 \in DOMAIN code /\ 0 \in Nat /\ height[0 + 1] # Unreached
  BY <1>4 DEF Unreached
<1>9. FrameOK(b, 0)
  BY <1>1, <1>3, <1>5, <1>6, <1>7, <1>8 DEF FrameOK
<1>10. QED
  BY <1>9 DEF StateOK, ThreadOK

\* enter_interp: whatever the arguments and the kind of the frame, control
\* comes to the first instruction with nothing above the bindmap.
\* The frame of f that n arguments have been put in.
Framed(f, h, n, q) ==
  /\ q.func = f /\ q.bindmap = NoPtr /\ q.local_roots = <<>>
  /\ q.heap_env = h
  /\ IF h THEN /\ q.objects = q.env /\ q.idx = 0
               /\ Len(q.heap[q.env.a].objects) = Function(f).env_size
     ELSE q.objects.i \in 0..n /\ q.idx = q.objects.i + n

LEMMA FrameEntered ==
  ASSUME NEW barred \in SUBSET {"stale"}, NEW f, NEW h \in BOOLEAN, NEW n \in Nat,
         Function(f).env_size \in Nat, n <= Function(f).env_size, h => n > 0,
         NEW u, HeapOK(barred, u), u.local_roots = <<>>, u.func = f, u.bindmap = NoPtr, n <= u.idx,
         NEW x, IF h THEN x \in HeapFrame(u, f, n) ELSE x = StackFrame(u, n)
  PROVE  \A q : q = [x EXCEPT !.heap_env = h] => HeapOK(barred, q) /\ Framed(f, h, n, q)
<1>1. SUFFICES ASSUME NEW q, q = [x EXCEPT !.heap_env = h]
               PROVE  HeapOK(barred, q) /\ Framed(f, h, n, q)
  OBVIOUS
<1>2. CASE h = TRUE
  <2>1. q = [x EXCEPT !.heap_env = TRUE]
    BY <1>1, <1>2
  <2>2. x \in HeapFrame(u, f, n) /\ n # 0
    BY <1>2
  <2>3. HeapOK(barred, q) /\ HeapFramed(u, f, q)
    BY <2>1, <2>2, HeapFrameIs
  <2>4. QED
    BY <1>2, <2>3 DEF HeapFramed, Framed
<1>3. CASE h = FALSE
  <2>1. q = [StackFrame(u, n) EXCEPT !.heap_env = FALSE]
    BY <1>1, <1>3
  <2>2. HeapOK(barred, q) /\ StackFramed(u, n, q)
    BY <2>1, StackFrameIs
  <2>3. QED
    BY <1>3, <2>2 DEF StackFramed, Framed
<1>4. QED
  BY <1>2, <1>3

LEMMA EnteredIs ==
  ASSUME NEW barred \in SUBSET {"stale"}, ModuleOK, NEW f \in Loadable,
         NEW fn, Function(f) = fn, NEW n, n = Arguments(fn),
         NEW q, HeapOK(barred, q), Framed(f, fn.heap_env, n, q),
         NEW b, BindmapDone(q, fn, b), HeapOK(barred, b)
  PROVE  StateOK(barred, b, 0, NoCall)
<1>1. f \in 0 .. Len(module.functions) - 1
  BY DEF Loadable
<1>2. Len(fn.bindmap) \in Nat
  BY <1>1, FunctionIs
<1>3. PICK base : base = q.idx
  OBVIOUS
<1>4. base \in Nat
  BY <1>3, VmAssumption DEF HeapOK
<1>5. /\ b.heap = q.heap /\ b.env = q.env /\ b.objects = q.objects
      /\ b.func = q.func /\ b.heap_env = q.heap_env /\ b.local_roots = q.local_roots
      /\ b.idx = base + Len(fn.bindmap)
      /\ fn.bindings # <<>> => b.bindmap = Slot(base)
      /\ \A i \in 1 .. Len(fn.bindmap) : EnvValue(b.heap, b.opstack[base + i])
  BY <1>3 DEF BindmapDone
<1>6. /\ q.func = f /\ q.local_roots = <<>> /\ q.heap_env = fn.heap_env
      /\ IF fn.heap_env THEN /\ q.objects = q.env /\ base = 0
                             /\ Len(q.heap[q.env.a].objects) = fn.env_size
         ELSE q.objects.i \in 0..n /\ base = q.objects.i + n
  BY <1>3 DEF Framed
<1>7. IF b.heap_env
      THEN base = 0 /\ b.objects = b.env /\ Len(b.heap[b.env.a].objects) = fn.env_size
      ELSE b.objects.i \in 0 .. Arguments(fn) /\ base = b.objects.i + Arguments(fn)
  BY <1>5, <1>6
<1>8. b.func = f /\ b.local_roots = <<>> /\ b.heap_env = fn.heap_env
  BY <1>5, <1>6
<1>9. QED
  BY <1>4, <1>5, <1>7, <1>8, Enters

LEMMA CallInterpStep ==
  ASSUME NEW barred \in SUBSET {"stale"}, ModuleOK, MachineOK(barred), CallInterp,
         "stale" \in barred => ~Losing
  PROVE  MachineOK(barred)'
<1>0. PICK f, fn, n, argc : f = Callee /\ fn = Function(f) /\ argc = Argc /\ n = ArgsEntered(fn, argc)
  OBVIOUS
<1>1. /\ Dispatching /\ Callable /\ ArityOk /\ Interpreted
      /\ thread' \in EnterInterp(Switched, Callee, Argc)
      /\ pc' = 0 /\ call' = NoCall /\ module' = module
  BY DEF CallInterp
<1>2. f \in Loadable
  BY <1>0, <1>1, CalleeIs
<1>3. f \in 0 .. Len(module.functions) - 1
  BY <1>2 DEF Loadable
<1>4. FunctionOK(f)
  BY <1>3, FunctionIs
<1>5. /\ fn.argc \in Nat /\ fn.swallow \in BOOLEAN /\ fn.heap_env \in BOOLEAN
      /\ fn.env_size \in Nat /\ Arguments(fn) <= fn.env_size
      /\ fn.heap_env => Arguments(fn) > 0
  BY <1>0, <1>4 DEF FunctionOK
<1>6. argc \in Int /\ argc <= thread.idx /\ thread.idx \in 0..StackSize
  BY <1>0, <1>1, AtCall
<1>7. IF fn.swallow THEN argc >= fn.argc ELSE argc = fn.argc
  BY <1>0, <1>1, <1>5 DEF ArityOk, Header
<1>8. n = Arguments(fn) /\ n \in Nat
  BY <1>0, <1>5, <1>7 DEF ArgsEntered, Arguments
<1>9. PICK s : s = Switched
  OBVIOUS
<1>10. /\ HeapOK(barred, s) /\ s.local_roots = <<>> /\ SameStack(thread, s)
       /\ s.bindmap = NoPtr /\ s.status = "run"
  BY <1>1, <1>9, SwitchedIs
<1>11. PICK s2 : s2 = [s EXCEPT !.func = f]
  OBVIOUS
<1>12. /\ HeapOK(barred, s2) /\ s2.local_roots = <<>> /\ SameStack(s, s2)
       /\ s2.bindmap = NoPtr /\ s2.func = f
  <2>1. /\ AllRegisters(s2) /\ s2.heap = s.heap /\ SameStack(s, s2) /\ s2.env = s.env
        /\ s2.objects = s.objects /\ s2.heap_env = s.heap_env /\ s2.closure = s.closure
        /\ s2.lib_cache = s.lib_cache /\ s2.exception_handlers = s.exception_handlers
        /\ s2.bindmap = s.bindmap /\ s2.local_roots = s.local_roots /\ s2.func = f
    BY <1>10, <1>11 DEF HeapOK, AllRegisters, SameStack
  <2>2. /\ EnvValue(s.heap, s.env) /\ Value(barred, s.heap, s.closure)
        /\ Value(barred, s.heap, s.lib_cache) /\ Value(barred, s.heap, s.exception_handlers)
    BY <1>10 DEF HeapOK
  <2>3. HeapOK(barred, s2)
    BY <1>10, <2>1, <2>2, HeapSame
  <2>4. QED
    BY <1>10, <2>1, <2>3
<1>13. s2.idx = thread.idx /\ s2.opstack = thread.opstack
  BY <1>10, <1>12 DEF SameStack
<1>14. PICK u, x : /\ u \in Swallowed(s2, fn, argc)
                   /\ IF fn.heap_env THEN x \in HeapFrame(u, f, n) ELSE x = StackFrame(u, n)
                   /\ thread' = BindmapInit([x EXCEPT !.heap_env = fn.heap_env], fn)
  <2>1. thread' \in EnterInterp(s, f, argc)
    BY <1>0, <1>1, <1>9
  <2>2. QED
    BY <1>0, <1>11, <2>1 DEF EnterInterp
<1>15. PICK q : q = [x EXCEPT !.heap_env = fn.heap_env]
  OBVIOUS
<1>16. PICK b : b = BindmapInit(q, fn)
  OBVIOUS
<1>17. thread' = b
  BY <1>14, <1>15, <1>16
<1>18. CASE b.status # "run"
  BY <1>17, <1>18, StoppedIs
<1>19. CASE b.status = "run"
  <2>1. fn.swallow /\ Collecting /\ "stale" \in barred =>
          \A i \in 1 .. argc - fn.argc : ~IsPtr(Top(s2, i))
    <3>1. \A i : Top(s2, i) = Top(thread, i)
      BY <1>13 DEF Top
    <3>2. QED
      BY <1>0, <1>1, <3>1 DEF Losing, LosesRest
  <2>2. Swallows(barred, s2, fn, argc)
    BY <1>5, <1>6, <1>7, <1>13, <2>1 DEF Swallows
  <2>3. HeapOK(barred, u) /\ u.local_roots = <<>> /\ (u.status = "run" => SwallowedTo(s2, fn, argc, u))
    BY <1>12, <1>14, <2>2, SwallowedIs
  <2>4. AllRegisters(x) /\ x.status = u.status
    <3>1. x \in HeapFrame(u, f, n) \/ x = StackFrame(u, n)
      BY <1>14
    <3>2. PICK y : y = StackFrame(u, n)
      OBVIOUS
    <3>3. AllRegisters(y) /\ y.status = u.status
      BY <2>3, <3>2, FramesKeepStatus
    <3>4. \A z \in HeapFrame(u, f, n) : AllRegisters(z) /\ z.status = u.status
      BY <2>3, FramesKeepStatus
    <3>5. QED
      BY <3>1, <3>2, <3>3, <3>4
  <2>5. AllRegisters(q) /\ q.status = x.status
    BY <1>15, <2>4 DEF AllRegisters
  <2>6. q.status = "run"
    BY <1>16, <1>19, <2>5, StatusKept
  <2>7. SwallowedTo(s2, fn, argc, u)
    BY <2>3, <2>4, <2>5, <2>6
  <2>8. n <= u.idx /\ u.func = f /\ u.bindmap = NoPtr
    BY <1>0, <1>12, <2>7 DEF SwallowedTo
  <2>9. PICK h : h = fn.heap_env
    OBVIOUS
  <2>10. HeapOK(barred, q) /\ Framed(f, h, n, q)
    <3>1. /\ h \in BOOLEAN /\ Function(f).env_size \in Nat /\ n <= Function(f).env_size
          /\ h => n > 0
      BY <1>0, <1>5, <1>8, <2>9
    <3>2. IF h THEN x \in HeapFrame(u, f, n) ELSE x = StackFrame(u, n)
      BY <1>14, <2>9
    <3>3. q = [x EXCEPT !.heap_env = h]
      BY <1>15, <2>9
    <3>4. \A q1 : q1 = [x EXCEPT !.heap_env = h] => HeapOK(barred, q1) /\ Framed(f, h, n, q1)
      BY <1>8, <2>3, <2>8, <3>1, <3>2, FrameEntered
    <3>5. QED
      BY <3>3, <3>4
  <2>11. q.bindmap = NoPtr
    BY <2>10 DEF Framed
  <2>12. HeapOK(barred, b) /\ BindmapDone(q, fn, b)
    <3>1. IsSeq(fn.bindmap) /\ (fn.bindings = <<>> => fn.bindmap = <<>>)
      BY <1>0, <1>4 DEF FunctionOK
    <3>2. QED
      BY <1>16, <1>19, <2>10, <2>11, <3>1, BindmapIs
  <2>13. StateOK(barred, b, 0, NoCall)
    <3>1. Function(f) = fn
      BY <1>0
    <3>2. Framed(f, fn.heap_env, n, q)
      BY <2>9, <2>10
    <3>3. QED
      BY <1>2, <1>8, <2>10, <2>12, <3>1, <3>2, EnteredIs
  <2>14. QED
    BY <1>1, <1>17, <2>13, NewState
<1>20. QED
  BY <1>18, <1>19

-----------------------------------------------------------------------------
(* The natives on strings, structures and bytevectors.                     *)

\* The ways in which a native can end.
Completes(barred) ==
  \/ Fails
  \/ Undefined
  \/ \E v : Value(barred, thread.heap, v) /\ Returning(Switched, v)
  \/ \E t \in MayCollect(Switched) : \E o :
       (o = NoObject \/ ObjectOK(barred, t.heap, o)) /\ ReturningNew(t, o)
  \/ \E o : /\ IsPtr(Argument(2)) /\ ObjectOK(barred, thread.heap, o)
            /\ o.ty = Arg1.ty /\ o.ty # "env" /\ Updating(o)

LEMMA UpdatingStep ==
  ASSUME NEW barred \in SUBSET {"stale"}, ModuleOK, MachineOK(barred), Dispatching, Callable,
         Argc >= 2, NEW o, IsPtr(Argument(2)), ObjectOK(barred, thread.heap, o),
         o.ty = Arg1.ty, o.ty # "env", Updating(o)
  PROVE  MachineOK(barred)'
<1>1. PICK s, v, a : s = Switched /\ v = Argument(2) /\ a = v.a
  OBVIOUS
<1>2. /\ HeapOK(barred, s) /\ s.local_roots = <<>> /\ SameStack(thread, s) /\ s.heap = thread.heap
  BY <1>1, SwitchedIs
<1>3. Argc \in Int /\ HeapOK(barred, thread) /\ Argc >= 1 /\ 2 \in 1..Argc
  BY AtCall
<1>4. Value(barred, thread.heap, v)
  BY <1>1, <1>3, ArgumentsAre
<1>5. a \in DOMAIN thread.heap /\ Object(thread, v) = thread.heap[a]
  BY <1>1, <1>3, <1>4, Leads
<1>6. o.ty = s.heap[a].ty
  BY <1>1, <1>2, <1>5 DEF Arg1
<1>7. PICK heap, p : heap = [s.heap EXCEPT ![a] = o] /\ p = [s EXCEPT !.heap = heap]
  OBVIOUS
<1>8. p = [s EXCEPT !.heap[a] = o]
  <2>1. AllRegisters(s)
    BY <1>2 DEF HeapOK
  <2>2. QED
    BY <1>7, <2>1 DEF AllRegisters
<1>9. /\ AllRegisters(p) /\ SameRegisters(s, p) /\ p.idx = s.idx /\ p.opstack = s.opstack
      /\ p.heap = heap
  BY <1>2, <1>7 DEF HeapOK, AllRegisters, SameRegisters, SameFrame
<1>10. p.idx \in 0 .. s.idx
  BY <1>2, <1>9, VmAssumption DEF HeapOK
<1>11. HeapOK(barred, p) /\ Extends(s.heap, p.heap)
  <2>1. \A q : /\ AllRegisters(q) /\ SameRegisters(s, q) /\ q.idx \in 0 .. s.idx
               /\ q.opstack = s.opstack /\ q.heap = [s.heap EXCEPT ![a] = o]
               => HeapOK(barred, q) /\ Extends(s.heap, q.heap)
    BY <1>2, <1>5, <1>6, HeapSet
  <2>2. QED
    BY <1>7, <1>9, <1>10, <2>1
<1>12. p.local_roots = <<>> /\ p.idx = thread.idx /\ Extends(thread.heap, p.heap)
  BY <1>2, <1>9, <1>11 DEF SameRegisters, SameFrame, SameStack
<1>13. Returning(p, Void)
  BY <1>1, <1>8 DEF Updating
<1>14. Value(barred, p.heap, Void)
  BY Immediates
<1>15. QED
  BY <1>3, <1>11, <1>12, <1>13, <1>14, ReturningStep

LEMMA NativeStep ==
  ASSUME NEW barred \in SUBSET {"stale"}, ModuleOK, MachineOK(barred), Dispatching, Callable,
         Argc >= 1, IsPtr(Argument(2)) => Argc >= 2, "stale" \in barred => ~Losing,
         Completes(barred)
  PROVE  MachineOK(barred)'
<1>1. CASE Fails
  BY <1>1, SwitchedRaises
<1>2. CASE Undefined
  <2>1. thread' = Stop(Switched, "undefined")
    BY <1>2 DEF Undefined
  <2>2. QED
    BY <2>1, UndefinedStep
<1>3. CASE \E v : Value(barred, thread.heap, v) /\ Returning(Switched, v)
  BY <1>3, ReturnsStep
<1>4. CASE \E t \in MayCollect(Switched) : \E o :
             (o = NoObject \/ ObjectOK(barred, t.heap, o)) /\ ReturningNew(t, o)
  BY <1>4, ReturningNewStep
<1>5. CASE \E o : /\ IsPtr(Argument(2)) /\ ObjectOK(barred, thread.heap, o)
                  /\ o.ty = Arg1.ty /\ o.ty # "env" /\ Updating(o)
  BY <1>5, UpdatingStep
<1>6. QED
  BY <1>1, <1>2, <1>3, <1>4, <1>5 DEF Completes

LEMMA NativeIs ==
  ASSUME NEW barred \in SUBSET {"stale"}, ModuleOK, MachineOK(barred), NEW n, Called(n),
         NEW k \in Nat, NativeHeader[n][1] = k, k >= 1
  PROVE  /\ Dispatching /\ Callable /\ Argc \in Int /\ Argc >= k /\ Argc >= 1
         /\ HeapOK(barred, thread)
         /\ \A i \in 1..k : Value(barred, thread.heap, Argument(i))
<1>1. Dispatching /\ Callable /\ Argc >= k /\ Argc \in Int
  BY CalledIs
<1>2. \A i \in 1..k : i \in 1..Argc
  BY <1>1
<1>3. QED
  BY <1>1, <1>2, ArgumentsAre, AtCall

\* What an allocation does to the arguments of a native.
LEMMA AllocatedIs ==
  ASSUME NEW barred \in SUBSET {"stale"}, ModuleOK, MachineOK(barred), Dispatching, Callable,
         NEW t \in MayCollect(Switched)
  PROVE  /\ HeapOK(barred, t) /\ t.idx = thread.idx
         /\ \A i \in 1..Argc : /\ Value(barred, t.heap, Argv(t, Argc, i))
                               /\ Moves(thread, t, Argument(i), Argv(t, Argc, i))
                               /\ ~IsPtr(Argument(i)) => Argv(t, Argc, i) = Argument(i)
<1>1. PICK s : s = Switched
  OBVIOUS
<1>2. /\ HeapOK(barred, s) /\ s.local_roots = <<>> /\ SameStack(thread, s)
  BY <1>1, SwitchedIs
<1>3. CollectedTo(barred, s, t)
  BY <1>1, <1>2, NoRoots, Allocates
<1>4. CollectedTo(barred, Switched, t)
  BY <1>1, <1>3
<1>5. \A i \in 1..Argc : /\ Value(barred, t.heap, Argv(t, Argc, i))
                         /\ Moves(thread, t, Argument(i), Argv(t, Argc, i))
  BY <1>4, ArgumentsMove
<1>6. QED
  BY <1>2, <1>3, <1>5 DEF CollectedTo, Moves, SameStack

LEMMA TextIs ==
  ASSUME NEW barred, NEW heap, NEW s \in Seq(Int)
  PROVE  /\ \A o : /\ o.ty = "string" /\ DOMAIN o = {"ty", "s", "at", "allocated", "zero"}
                   /\ o.s = s
                   => ObjectOK(barred, heap, o)
         /\ ObjectOK(barred, heap, StringOf(s))
         /\ ObjectOK(barred, heap, [StringOf(s) EXCEPT !.zero = FALSE])
         /\ \A z : ObjectOK(barred, heap, [StringOf(s) EXCEPT !.allocated = FALSE, !.zero = z])
         /\ \A place : ObjectOK(barred, heap, OtherText(s, place))
<1>1. ASSUME NEW o, o.ty = "string", DOMAIN o = {"ty", "s", "at", "allocated", "zero"}, o.s = s
      PROVE  ObjectOK(barred, heap, o)
  BY <1>1 DEF ObjectOK, DataOK
<1>2. ObjectOK(barred, heap, StringOf(s))
  <2>1. PICK o : o = StringOf(s)
    OBVIOUS
  <2>2. o.ty = "string" /\ DOMAIN o = {"ty", "s", "at", "allocated", "zero"} /\ o.s = s
    BY <2>1 DEF StringOf
  <2>3. QED
    BY <1>1, <2>1, <2>2
<1>3. ObjectOK(barred, heap, [StringOf(s) EXCEPT !.zero = FALSE])
  <2>1. PICK o : o = [StringOf(s) EXCEPT !.zero = FALSE]
    OBVIOUS
  <2>2. o.ty = "string" /\ DOMAIN o = {"ty", "s", "at", "allocated", "zero"} /\ o.s = s
    BY <2>1 DEF StringOf
  <2>3. QED
    BY <1>1, <2>1, <2>2
<1>4. ASSUME NEW z
      PROVE  ObjectOK(barred, heap, [StringOf(s) EXCEPT !.allocated = FALSE, !.zero = z])
  <2>1. PICK o : o = [StringOf(s) EXCEPT !.allocated = FALSE, !.zero = z]
    OBVIOUS
  <2>2. o.ty = "string" /\ DOMAIN o = {"ty", "s", "at", "allocated", "zero"} /\ o.s = s
    BY <2>1 DEF StringOf
  <2>3. QED
    BY <1>1, <2>1, <2>2
<1>5. ASSUME NEW place PROVE ObjectOK(barred, heap, OtherText(s, place))
  <2>1. PICK o : o = OtherText(s, place)
    OBVIOUS
  <2>2. o.ty = "string" /\ DOMAIN o = {"ty", "s", "at", "allocated", "zero"} /\ o.s = s
    BY <2>1 DEF OtherText, StringOf
  <2>3. QED
    BY <1>1, <2>1, <2>2
<1>6. QED
  BY <1>1, <1>2, <1>3, <1>4, <1>5

\* The argument is a string, and so is what it leads to after an allocation.
LEMMA StringIs ==
  ASSUME NEW barred \in SUBSET {"stale"}, ModuleOK, NEW t, HeapOK(barred, t),
         NEW v, Value(barred, t.heap, v), IsType(t, v, {"string"})
  PROVE  /\ Object(t, v).s \in Seq(Int)
         /\ DOMAIN Object(t, v) = {"ty", "s", "at", "allocated", "zero"}
         /\ Object(t, v).ty = "string"
         /\ Len(Object(t, v).s) \in Nat
<1>1. PICK o : o = Object(t, v)
  OBVIOUS
<1>2. o.ty = "string"
  BY <1>1 DEF IsType
<1>3. DataOK(barred, t.heap, o)
  BY <1>1, <1>2, Leads
<1>4. o.s \in Seq(Int) /\ DOMAIN o = {"ty", "s", "at", "allocated", "zero"}
  BY <1>2, <1>3 DEF DataOK
<1>5. Len(o.s) \in Nat
  BY <1>4
<1>6. QED
  BY <1>1, <1>2, <1>4, <1>5

LEMMA MovedString ==
  ASSUME NEW barred \in SUBSET {"stale"}, ModuleOK, NEW t, HeapOK(barred, t), NEW c,
         NEW v, Value(barred, t.heap, v), NEW w, Moves(t, c, v, w), IsType(t, v, {"string"})
  PROVE  Object(c, w).s = Object(t, v).s
<1>1. CASE IsPtr(v)
  <2>1. Object(t, v) = t.heap[v.a] /\ t.heap[v.a].ty = "string"
    BY <1>1, Leads DEF IsType
  <2>2. IsPtr(w) /\ c.heap[w.a].s = t.heap[v.a].s
    BY <1>1, <2>1 DEF Moves
  <2>3. Object(c, w) = c.heap[w.a]
    BY <2>2 DEF Object, IsPtr
  <2>4. QED
    BY <2>1, <2>2, <2>3
<1>2. CASE ~IsPtr(v)
  <2>1. w = v
    BY <1>2 DEF Moves
  <2>2. Object(c, v) = Object(t, v)
    BY <1>2 DEF Object, IsPtr
  <2>3. QED
    BY <2>1, <2>2
<1>3. QED
  BY <1>1, <1>2

LEMMA ByteIs ==
  ASSUME NEW c \in Int
  PROVE  Byte(c) \in Int
BY DEF Byte

LEMMA MakeStringStep ==
  ASSUME NEW barred \in SUBSET {"stale"}, ModuleOK, MachineOK(barred), MakeString,
         "stale" \in barred => ~Losing
  PROVE  MachineOK(barred)'
<1>1. PICK k \in Nat : Called("make_string") /\ NativeHeader["make_string"][1] = k /\ k = 3
  BY DEF MakeString, NativeHeader
<1>2. /\ Dispatching /\ Callable /\ Argc \in Int /\ Argc >= 3 /\ Argc >= 1
      /\ \A i \in 1..3 : Value(barred, thread.heap, Argument(i))
  <2>1. /\ Dispatching /\ Callable /\ Argc \in Int /\ Argc >= k /\ Argc >= 1
        /\ HeapOK(barred, thread) /\ \A i \in 1..k : Value(barred, thread.heap, Argument(i))
    BY <1>1, NativeIs
  <2>2. QED
    BY <1>1, <2>1
<1>3. CASE Fails \/ Undefined
  BY <1>2, <1>3, NativeStep DEF Completes
<1>4. CASE ~(Fails \/ Undefined)
  <2>1. PICK t : /\ t \in MayCollect(Switched)
                 /\ FixnumArg(2) /\ CharArg(3) /\ ~(Argument(2).v < 0)
                 /\ ReturningNew(t, StringOf([i \in 1..Argv(t, Argc, 2).v |-> Byte(Argv(t, Argc, 3).c)]))
    BY <1>4 DEF MakeString
  <2>2. PICK n, c, s : /\ n = Argv(t, Argc, 2).v /\ c = Argv(t, Argc, 3).c
                       /\ s = [i \in 1..n |-> Byte(c)]
    OBVIOUS
  <2>3. 2 \in 1..Argc /\ 3 \in 1..Argc
    BY <1>2
  <2>4. Argv(t, Argc, 2) = Argument(2) /\ Argv(t, Argc, 3) = Argument(3)
    BY <1>2, <2>1, <2>3, AllocatedIs DEF FixnumArg, CharArg, IsPtr
  <2>5. n \in Nat /\ c \in Int
    <3>1. Value(barred, thread.heap, Argument(2)) /\ Value(barred, thread.heap, Argument(3))
      BY <1>2
    <3>2. n \in Int /\ c \in Int /\ ~(n < 0)
      BY <2>1, <2>2, <2>4, <3>1 DEF Value, FixnumArg, CharArg
    <3>3. QED
      BY <3>2
  <2>6. s \in Seq(Int)
    <3>1. PICK b : b = Byte(c)
      OBVIOUS
    <3>2. b \in Int /\ s = [i \in 1..n |-> b]
      BY <2>2, <2>5, <3>1, ByteIs
    <3>3. QED
      BY <2>5, <3>2
  <2>7. ObjectOK(barred, t.heap, StringOf(s)) /\ ReturningNew(t, StringOf(s))
    BY <2>1, <2>2, <2>6, TextIs
  <2>8. Completes(barred)
    BY <2>1, <2>7 DEF Completes
  <2>9. QED
    BY <1>2, <2>8, NativeStep
<1>5. QED
  BY <1>3, <1>4

LEMMA SymbolToStringStep ==
  ASSUME NEW barred \in SUBSET {"stale"}, ModuleOK, MachineOK(barred), SymbolToString,
         "stale" \in barred => ~Losing
  PROVE  MachineOK(barred)'
<1>1. PICK k \in Nat : Called("symbol_to_string") /\ NativeHeader["symbol_to_string"][1] = k /\ k = 2
  BY DEF SymbolToString, NativeHeader
<1>2. /\ Dispatching /\ Callable /\ Argc \in Int /\ Argc >= 2 /\ Argc >= 1
      /\ HeapOK(barred, thread) /\ \A i \in 1..2 : Value(barred, thread.heap, Argument(i))
  <2>1. /\ Dispatching /\ Callable /\ Argc \in Int /\ Argc >= k /\ Argc >= 1
        /\ HeapOK(barred, thread) /\ \A i \in 1..k : Value(barred, thread.heap, Argument(i))
    BY <1>1, NativeIs
  <2>2. QED
    BY <1>1, <2>1
<1>3. CASE Fails
  BY <1>2, <1>3, NativeStep DEF Completes
<1>4. CASE ~Fails
  <2>1. PICK t : /\ t \in MayCollect(Switched) /\ SymbolArg(2)
                 /\ ReturningNew(t, OtherText(Argv(t, Argc, 2).s, "symbol"))
    BY <1>4 DEF SymbolToString
  <2>2. PICK v : v = Argument(2)
    OBVIOUS
  <2>3. Value(barred, thread.heap, v) /\ Object(thread, v).ty = "symbol"
    BY <1>2, <2>1, <2>2 DEF SymbolArg, IsType
  <2>4. v.k = "symbol" /\ v.s \in Seq(Int)
    BY <1>2, <2>3, Leads
  <2>5. 2 \in 1..Argc /\ ~IsPtr(Argument(2))
    BY <1>2, <2>2, <2>4 DEF IsPtr
  <2>6. Argv(t, Argc, 2) = v
    BY <1>2, <2>1, <2>2, <2>5, AllocatedIs
  <2>7. /\ ObjectOK(barred, t.heap, OtherText(v.s, "symbol"))
        /\ ReturningNew(t, OtherText(v.s, "symbol"))
    BY <2>1, <2>4, <2>6, TextIs
  <2>8. Completes(barred)
    BY <2>1, <2>7 DEF Completes
  <2>9. QED
    BY <1>2, <2>8, NativeStep
<1>5. QED
  BY <1>3, <1>4

LEMMA StringLengthStep ==
  ASSUME NEW barred \in SUBSET {"stale"}, ModuleOK, MachineOK(barred), StringLength,
         "stale" \in barred => ~Losing
  PROVE  MachineOK(barred)'
<1>1. PICK k \in Nat : Called("string_length") /\ NativeHeader["string_length"][1] = k /\ k = 2
  BY DEF StringLength, NativeHeader
<1>2. /\ Dispatching /\ Callable /\ Argc \in Int /\ Argc >= 2 /\ Argc >= 1
      /\ HeapOK(barred, thread) /\ \A i \in 1..2 : Value(barred, thread.heap, Argument(i))
  <2>1. /\ Dispatching /\ Callable /\ Argc \in Int /\ Argc >= k /\ Argc >= 1
        /\ HeapOK(barred, thread) /\ \A i \in 1..k : Value(barred, thread.heap, Argument(i))
    BY <1>1, NativeIs
  <2>2. QED
    BY <1>1, <2>1
<1>3. StringArg(2) => Len(Arg1.s) \in Nat
  BY <1>2, StringIs DEF StringArg, Arg1
<1>4. StringArg(2) => Value(barred, thread.heap, Fix(Len(Arg1.s)))
  <2>1. PICK n : n = Len(Arg1.s)
    OBVIOUS
  <2>2. n \in Int => Value(barred, thread.heap, Fix(n))
    BY Immediates
  <2>3. QED
    BY <1>3, <2>1, <2>2
<1>5. Completes(barred)
  BY <1>4 DEF StringLength, Completes
<1>6. QED
  BY <1>2, <1>5, NativeStep

LEMMA StringEqStep ==
  ASSUME NEW barred \in SUBSET {"stale"}, ModuleOK, MachineOK(barred), StringEq,
         "stale" \in barred => ~Losing
  PROVE  MachineOK(barred)'
<1>1. PICK k \in Nat : Called("string_eq") /\ NativeHeader["string_eq"][1] = k /\ k = 3
  BY DEF StringEq, NativeHeader
<1>2. /\ Dispatching /\ Callable /\ Argc \in Int /\ Argc >= 3 /\ Argc >= 1
      /\ HeapOK(barred, thread)
  <2>1. /\ Dispatching /\ Callable /\ Argc \in Int /\ Argc >= k /\ Argc >= 1
        /\ HeapOK(barred, thread) /\ \A i \in 1..k : Value(barred, thread.heap, Argument(i))
    BY <1>1, NativeIs
  <2>2. QED
    BY <1>1, <2>1
<1>3. \A b : Value(barred, thread.heap, CIf(b))
  BY Immediates
<1>4. Fails \/ Undefined \/ \E b : Returning(Switched, CIf(b))
  BY DEF StringEq
<1>5. Completes(barred)
  BY <1>3, <1>4 DEF Completes
<1>6. QED
  BY <1>2, <1>5, NativeStep

LEMMA SubTextIs ==
  ASSUME NEW s \in Seq(Int), NEW m \in Int, m >= 1, NEW n \in Int, n <= Len(s)
  PROVE  SubSeq(s, m, n) \in Seq(Int)
<1>1. \A i \in DOMAIN s : s[i] \in Int
  BY SeqIn
<1>2. Len(s) \in Nat /\ DOMAIN s = 1 .. Len(s)
  OBVIOUS
<1>3. PICK k \in Nat : k = IF m <= n THEN 1 + n - m ELSE 0
  <2>1. CASE m <= n
    <3>1. 1 + n - m \in Nat
      BY <2>1
    <3>2. QED
      BY <2>1, <3>1
  <2>2. CASE ~(m <= n)
    BY <2>2
  <2>3. QED
    BY <2>1, <2>2
<1>4. SubSeq(s, m, n) = [i \in 1..k |-> s[i + m - 1]]
  BY <1>3, <1>2
<1>5. \A i \in 1..k : s[i + m - 1] \in Int
  <2>1. SUFFICES ASSUME NEW i \in 1..k PROVE i + m - 1 \in DOMAIN s
    BY <1>1
  <2>2. QED
    BY <1>2, <1>3
<1>6. QED
  BY <1>4, <1>5

\* What can be changed in place is on the heap: a text in a block, a bytevector.
LEMMA OnHeap ==
  ASSUME NEW barred \in SUBSET {"stale"}, ModuleOK, NEW t, NEW v, Value(barred, t.heap, v),
         (Object(t, v).ty = "string" /\ Object(t, v).at = "block") \/ Object(t, v).ty = "bytevector"
  PROVE  IsPtr(v)
<1>1. SUFFICES ASSUME v.k # "ptr" PROVE FALSE
  BY DEF IsPtr
<1>2. CASE v.k = "const"
  <2>1. PICK o : o = module.objects[v.a]
    OBVIOUS
  <2>2. v.a \in DOMAIN module.objects
    BY <1>2 DEF Value
  <2>3. o.ty \in {"pair", "struct", "string"} /\ (o.ty = "string" => o.at = "file")
    BY <2>1, <2>2 DEF ModuleOK, ConstantsOK
  <2>4. Object(t, v) = o
    BY <1>2, <2>1 DEF Object
  <2>5. QED
    BY <2>3, <2>4
<1>3. CASE v.k # "const"
  <2>1. Object(t, v) = [ty |-> "symbol", s |-> v.s] \/ Object(t, v) = NoObject
    BY <1>1, <1>3 DEF Object
  <2>2. Object(t, v).ty \in {"symbol", "none"}
    BY <2>1 DEF NoObject
  <2>3. QED
    BY <2>2
<1>4. QED
  BY <1>2, <1>3

\* A part of the text of the first argument, read after the allocation.
LEMMA TextCopied ==
  ASSUME NEW barred \in SUBSET {"stale"}, ModuleOK, MachineOK(barred), Dispatching, Callable,
         Argc >= 2, NEW t \in MayCollect(Switched), StringArg(2),
         NEW first \in Int, first >= 1, NEW last \in Int, last <= Len(Arg1.s)
  PROVE  \A new : new = Copied(t, Argv(t, Argc, 2), first, last) =>
           \/ new = NoObject
           \/ /\ ObjectOK(barred, t.heap, new)
              /\ ObjectOK(barred, t.heap, [new EXCEPT !.zero = FALSE])
<1>1. PICK v, w, o : v = Argument(2) /\ w = Argv(t, Argc, 2) /\ o = Object(t, w)
  OBVIOUS
<1>2. Argc \in Int /\ HeapOK(barred, thread) /\ 2 \in 1..Argc
  BY AtCall
<1>3. Value(barred, thread.heap, v) /\ IsType(thread, v, {"string"})
  BY <1>1, <1>2, ArgumentsAre DEF StringArg
<1>4. Moves(thread, t, v, w)
  BY <1>1, <1>2, AllocatedIs
<1>5. o.s = Object(thread, v).s /\ Object(thread, v).s \in Seq(Int)
  BY <1>1, <1>2, <1>3, <1>4, MovedString, StringIs
<1>6. Object(thread, v) = Arg1
  BY <1>1 DEF Arg1
<1>7. PICK text, part : text = o.s /\ part = SubSeq(text, first, last)
  OBVIOUS
<1>8. part \in Seq(Int)
  <2>1. text \in Seq(Int) /\ last <= Len(text)
    BY <1>5, <1>6, <1>7
  <2>2. QED
    BY <1>7, <2>1, SubTextIs
<1>9. SUFFICES ASSUME NEW new, new = Copied(t, Argv(t, Argc, 2), first, last), new # NoObject
               PROVE  /\ ObjectOK(barred, t.heap, new)
                      /\ ObjectOK(barred, t.heap, [new EXCEPT !.zero = FALSE])
  OBVIOUS
<1>10. new = StringOf(part)
  BY <1>1, <1>7, <1>9 DEF Copied
<1>11. QED
  BY <1>8, <1>10, TextIs

LEMMA StringCopyStep ==
  ASSUME NEW barred \in SUBSET {"stale"}, ModuleOK, MachineOK(barred), StringCopy,
         "stale" \in barred => ~Losing
  PROVE  MachineOK(barred)'
<1>1. PICK k \in Nat : Called("string_copy") /\ NativeHeader["string_copy"][1] = k /\ k = 2
  BY DEF StringCopy, NativeHeader
<1>2. /\ Dispatching /\ Callable /\ Argc \in Int /\ Argc >= 2 /\ Argc >= 1
      /\ HeapOK(barred, thread) /\ \A i \in 1..2 : Value(barred, thread.heap, Argument(i))
  <2>1. /\ Dispatching /\ Callable /\ Argc \in Int /\ Argc >= k /\ Argc >= 1
        /\ HeapOK(barred, thread) /\ \A i \in 1..k : Value(barred, thread.heap, Argument(i))
    BY <1>1, NativeIs
  <2>2. QED
    BY <1>1, <2>1
<1>3. CASE Fails
  BY <1>2, <1>3, NativeStep DEF Completes
<1>4. CASE ~Fails
  <2>1. PICK t, new, o :
          /\ t \in MayCollect(Switched) /\ StringArg(2)
          /\ new = Copied(t, Argv(t, Argc, 2), 1, Len(Arg1.s))
          /\ o = IF Arg1.zero \/ new = NoObject THEN new ELSE [new EXCEPT !.zero = FALSE]
          /\ ReturningNew(t, o)
    BY <1>4 DEF StringCopy
  <2>2. PICK first, last : first = 1 /\ last = Len(Arg1.s)
    OBVIOUS
  <2>3. last \in Int /\ last <= Len(Arg1.s) /\ first \in Int /\ first >= 1
    <3>1. Len(Arg1.s) \in Nat
      BY <1>2, <2>1, StringIs DEF StringArg, Arg1
    <3>2. QED
      BY <2>2, <3>1
  <2>4. \/ new = NoObject
        \/ /\ ObjectOK(barred, t.heap, new)
           /\ ObjectOK(barred, t.heap, [new EXCEPT !.zero = FALSE])
    BY <1>2, <2>1, <2>2, <2>3, TextCopied
  <2>5. o = NoObject \/ ObjectOK(barred, t.heap, o)
    BY <2>1, <2>4
  <2>6. Completes(barred)
    BY <2>1, <2>5 DEF Completes
  <2>7. QED
    BY <1>2, <2>6, NativeStep
<1>5. QED
  BY <1>3, <1>4

LEMMA StringConcatStep ==
  ASSUME NEW barred \in SUBSET {"stale"}, ModuleOK, MachineOK(barred), StringConcat,
         "stale" \in barred => ~Losing
  PROVE  MachineOK(barred)'
<1>1. PICK k \in Nat : Called("string_concat") /\ NativeHeader["string_concat"][1] = k /\ k = 3
  BY DEF StringConcat, NativeHeader
<1>2. /\ Dispatching /\ Callable /\ Argc \in Int /\ Argc >= 3 /\ Argc >= 1
      /\ HeapOK(barred, thread) /\ \A i \in 1..3 : Value(barred, thread.heap, Argument(i))
  <2>1. /\ Dispatching /\ Callable /\ Argc \in Int /\ Argc >= k /\ Argc >= 1
        /\ HeapOK(barred, thread) /\ \A i \in 1..k : Value(barred, thread.heap, Argument(i))
    BY <1>1, NativeIs
  <2>2. QED
    BY <1>1, <2>1
<1>3. CASE Fails \/ Undefined
  BY <1>2, <1>3, NativeStep DEF Completes
<1>4. CASE ~(Fails \/ Undefined)
  <2>1. PICK gc, b, t, o, p :
          /\ gc \in Collections /\ StringArg(2) /\ StringArg(3)
          /\ b = Object(thread, Argument(3)) /\ t = After(gc, Switched)
          /\ o = [StringOf(Arg1.s \o b.s) EXCEPT !.allocated = FALSE, !.zero = b.zero]
          /\ p = Place(t, o)
          /\ thread' = Push(p, New(p)) /\ call' = Calling(Argv(p, Argc, 1), 1)
          /\ UNCHANGED <<module, pc>>
    BY <1>4 DEF StringConcat
  <2>2. t \in MayCollect(Switched)
    BY <2>1 DEF Collections, After, MayCollect
  <2>3. Arg1.s \in Seq(Int) /\ b.s \in Seq(Int)
    BY <1>2, <2>1, StringIs DEF StringArg, Arg1
  <2>4. PICK s : s = Arg1.s \o b.s
    OBVIOUS
  <2>5. s \in Seq(Int)
    BY <2>3, <2>4
  <2>6. ObjectOK(barred, t.heap, o)
    <3>1. o = [StringOf(s) EXCEPT !.allocated = FALSE, !.zero = b.zero]
      BY <2>1, <2>4
    <3>2. \A z : ObjectOK(barred, t.heap, [StringOf(s) EXCEPT !.allocated = FALSE, !.zero = z])
      BY <2>5, TextIs
    <3>3. QED
      BY <3>1, <3>2
  <2>7. o # NoObject
    BY <2>6 DEF ObjectOK, NoObject
  <2>8. ReturningNew(t, o)
    BY <2>1, <2>7 DEF ReturningNew
  <2>9. Completes(barred)
    BY <2>2, <2>6, <2>8 DEF Completes
  <2>10. QED
    BY <1>2, <2>9, NativeStep
<1>5. QED
  BY <1>3, <1>4

LEMMA StringCopyToStep ==
  ASSUME NEW barred \in SUBSET {"stale"}, ModuleOK, MachineOK(barred), StringCopyTo,
         "stale" \in barred => ~Losing
  PROVE  MachineOK(barred)'
<1>1. PICK k \in Nat : Called("string_copy_to") /\ NativeHeader["string_copy_to"][1] = k /\ k = 4
  BY DEF StringCopyTo, NativeHeader
<1>2. /\ Dispatching /\ Callable /\ Argc \in Int /\ Argc >= 4 /\ Argc >= 1
      /\ HeapOK(barred, thread) /\ \A i \in 1..4 : Value(barred, thread.heap, Argument(i))
  <2>1. /\ Dispatching /\ Callable /\ Argc \in Int /\ Argc >= k /\ Argc >= 1
        /\ HeapOK(barred, thread) /\ \A i \in 1..k : Value(barred, thread.heap, Argument(i))
    BY <1>1, NativeIs
  <2>2. QED
    BY <1>1, <2>1
<1>3. CASE Fails \/ Undefined
  BY <1>2, <1>3, NativeStep DEF Completes
<1>4. CASE ~(Fails \/ Undefined)
  <2>1. PICK src, pos, text, new :
          /\ StringArg(2) /\ IsPtr(Argument(2)) /\ StringArg(4) /\ FixnumArg(3)
          /\ src = Object(thread, Argument(4)) /\ pos = Argument(3).v
          /\ text = [i \in DOMAIN Arg1.s |->
                       IF i - pos \in DOMAIN src.s THEN src.s[i - pos] ELSE Arg1.s[i]]
          /\ new = [Arg1 EXCEPT !.s = text]
          /\ Updating(new)
    <3>1. PICK src, pos, new :
            /\ StringArg(2) /\ IsPtr(Argument(2)) /\ StringArg(4) /\ FixnumArg(3)
            /\ src = Object(thread, Argument(4)) /\ pos = Argument(3).v
            /\ new = [Arg1 EXCEPT !.s = [i \in DOMAIN @ |->
                        IF i - pos \in DOMAIN src.s THEN src.s[i - pos] ELSE @[i]]]
            /\ Updating(new)
      BY <1>4 DEF StringCopyTo
    <3>2. DOMAIN Arg1 = {"ty", "s", "at", "allocated", "zero"}
      BY <1>2, <3>1, StringIs DEF StringArg, Arg1
    <3>3. QED
      BY <3>1, <3>2
  <2>2. PICK dst : dst = Arg1
    OBVIOUS
  <2>3. /\ dst.s \in Seq(Int) /\ DOMAIN dst = {"ty", "s", "at", "allocated", "zero"}
        /\ dst.ty = "string"
    BY <1>2, <2>1, <2>2, StringIs DEF StringArg, Arg1
  <2>4. src.s \in Seq(Int)
    BY <1>2, <2>1, StringIs DEF StringArg
  <2>5. text \in Seq(Int)
    <3>1. \A i \in DOMAIN src.s : src.s[i] \in Int
      BY <2>4, SeqIn
    <3>2. Len(dst.s) \in Nat /\ DOMAIN dst.s = 1 .. Len(dst.s) /\ \A i \in DOMAIN dst.s : dst.s[i] \in Int
      BY <2>3, SeqIn
    <3>3. text \in [1 .. Len(dst.s) -> Int]
      BY <2>1, <2>2, <3>1, <3>2
    <3>4. QED
      BY <3>2, <3>3
  <2>6. /\ new.ty = "string" /\ DOMAIN new = {"ty", "s", "at", "allocated", "zero"}
        /\ new.s = text
    BY <2>1, <2>2, <2>3
  <2>7. ObjectOK(barred, thread.heap, new)
    BY <2>5, <2>6, TextIs
  <2>8. new.ty = Arg1.ty /\ new.ty # "env"
    BY <2>2, <2>3, <2>6
  <2>9. Completes(barred)
    BY <2>1, <2>7, <2>8 DEF Completes
  <2>10. QED
    BY <1>2, <2>9, NativeStep
<1>5. QED
  BY <1>3, <1>4

LEMMA StringRefStep ==
  ASSUME NEW barred \in SUBSET {"stale"}, ModuleOK, MachineOK(barred), StringRef,
         "stale" \in barred => ~Losing
  PROVE  MachineOK(barred)'
<1>1. PICK k \in Nat : Called("string_ref") /\ NativeHeader["string_ref"][1] = k /\ k = 3
  BY DEF StringRef, NativeHeader
<1>2. /\ Dispatching /\ Callable /\ Argc \in Int /\ Argc >= 3 /\ Argc >= 1
      /\ HeapOK(barred, thread) /\ \A i \in 1..3 : Value(barred, thread.heap, Argument(i))
  <2>1. /\ Dispatching /\ Callable /\ Argc \in Int /\ Argc >= k /\ Argc >= 1
        /\ HeapOK(barred, thread) /\ \A i \in 1..k : Value(barred, thread.heap, Argument(i))
    BY <1>1, NativeIs
  <2>2. QED
    BY <1>1, <2>1
<1>3. CASE Fails \/ Undefined
  BY <1>2, <1>3, NativeStep DEF Completes
<1>4. CASE ~(Fails \/ Undefined)
  <2>1. PICK pos, c : /\ StringArg(2) /\ FixnumArg(3) /\ pos = Argument(3).v
                      /\ ~(pos >= Len(Arg1.s))
                      /\ IF pos >= 0 THEN c = Arg1.s[pos + 1] ELSE c \in {0, 1}
                      /\ Returning(Switched, Char(c))
    BY <1>4 DEF StringRef
  <2>2. pos \in Int
    <3>1. Value(barred, thread.heap, Argument(3))
      BY <1>2
    <3>2. QED
      BY <2>1, <3>1 DEF Value, FixnumArg
  <2>3. PICK s : s = Arg1.s
    OBVIOUS
  <2>4. s \in Seq(Int)
    BY <1>2, <2>1, <2>3, StringIs DEF StringArg, Arg1
  <2>5. c \in Int
    <3>1. CASE pos >= 0
      <4>1. pos + 1 \in DOMAIN s
        BY <2>1, <2>2, <2>3, <2>4, <3>1
      <4>2. QED
        BY <2>1, <2>3, <2>4, <3>1, <4>1, SeqIn
    <3>2. CASE ~(pos >= 0)
      BY <2>1, <3>2
    <3>3. QED
      BY <3>1, <3>2
  <2>6. Value(barred, thread.heap, Char(c))
    BY <2>5, Immediates
  <2>7. Completes(barred)
    BY <2>1, <2>6 DEF Completes
  <2>8. QED
    BY <1>2, <2>7, NativeStep
<1>5. QED
  BY <1>3, <1>4

LEMMA StringSetStep ==
  ASSUME NEW barred \in SUBSET {"stale"}, ModuleOK, MachineOK(barred), StringSet,
         "stale" \in barred => ~Losing
  PROVE  MachineOK(barred)'
<1>1. PICK k \in Nat : Called("string_set") /\ NativeHeader["string_set"][1] = k /\ k = 4
  BY DEF StringSet, NativeHeader
<1>2. /\ Dispatching /\ Callable /\ Argc \in Int /\ Argc >= 4 /\ Argc >= 1
      /\ HeapOK(barred, thread) /\ \A i \in 1..4 : Value(barred, thread.heap, Argument(i))
  <2>1. /\ Dispatching /\ Callable /\ Argc \in Int /\ Argc >= k /\ Argc >= 1
        /\ HeapOK(barred, thread) /\ \A i \in 1..k : Value(barred, thread.heap, Argument(i))
    BY <1>1, NativeIs
  <2>2. QED
    BY <1>1, <2>1
<1>3. CASE Fails \/ Undefined
  BY <1>2, <1>3, NativeStep DEF Completes
<1>4. CASE ~(Fails \/ Undefined)
  <2>1. PICK j, c, b, new : /\ StringArg(2) /\ FixnumArg(3) /\ CharArg(4)
                            /\ Arg1.at = "block"
                            /\ j = Argument(3).v + 1 /\ c = Argument(4).c /\ b = Byte(c)
                            /\ new = [Arg1 EXCEPT !.s[j] = b]
                            /\ Updating(new)
    BY <1>4 DEF StringSet
  <2>2. PICK dst, v : dst = Arg1 /\ v = Argument(2)
    OBVIOUS
  <2>3. /\ dst.s \in Seq(Int) /\ DOMAIN dst = {"ty", "s", "at", "allocated", "zero"}
        /\ dst.ty = "string"
    BY <1>2, <2>1, <2>2, StringIs DEF StringArg, Arg1
  <2>4. IsPtr(v)
    <3>1. Value(barred, thread.heap, v) /\ Object(thread, v) = dst
      BY <1>2, <2>2 DEF Arg1
    <3>2. Object(thread, v).ty = "string" /\ Object(thread, v).at = "block"
      BY <2>1, <2>2, <2>3, <3>1
    <3>3. QED
      BY <3>1, <3>2, OnHeap
  <2>5. b \in Int
    <3>1. Value(barred, thread.heap, Argument(4))
      BY <1>2
    <3>2. c \in Int
      BY <2>1, <3>1 DEF Value, CharArg
    <3>3. QED
      BY <2>1, <3>2, ByteIs
  <2>6. PICK text : text = [dst.s EXCEPT ![j] = b]
    OBVIOUS
  <2>7. text \in Seq(Int)
    <3>1. Len(dst.s) \in Nat /\ DOMAIN dst.s = 1 .. Len(dst.s) /\ \A i \in DOMAIN dst.s : dst.s[i] \in Int
      BY <2>3, SeqIn
    <3>2. dst.s \in [1 .. Len(dst.s) -> Int]
      BY <2>3, <3>1
    <3>3. text \in [1 .. Len(dst.s) -> Int]
      BY <2>5, <2>6, <3>2
    <3>4. QED
      BY <3>1, <3>3
  <2>8. /\ new.ty = "string" /\ DOMAIN new = {"ty", "s", "at", "allocated", "zero"}
        /\ new.s = text
    BY <2>1, <2>2, <2>3, <2>6
  <2>9. ObjectOK(barred, thread.heap, new)
    BY <2>7, <2>8, TextIs
  <2>10. new.ty = Arg1.ty /\ new.ty # "env" /\ IsPtr(Argument(2))
    BY <2>2, <2>3, <2>4, <2>8
  <2>11. Completes(barred)
    BY <2>1, <2>9, <2>10 DEF Completes
  <2>12. QED
    BY <1>2, <2>11, NativeStep
<1>5. QED
  BY <1>3, <1>4

LEMMA SubstringStep ==
  ASSUME NEW barred \in SUBSET {"stale"}, ModuleOK, MachineOK(barred), Substring,
         "stale" \in barred => ~Losing
  PROVE  MachineOK(barred)'
<1>1. PICK k \in Nat : Called("substring") /\ NativeHeader["substring"][1] = k /\ k = 4
  BY DEF Substring, NativeHeader
<1>2. /\ Dispatching /\ Callable /\ Argc \in Int /\ Argc >= 4 /\ Argc >= 1
      /\ HeapOK(barred, thread) /\ \A i \in 1..4 : Value(barred, thread.heap, Argument(i))
  <2>1. /\ Dispatching /\ Callable /\ Argc \in Int /\ Argc >= k /\ Argc >= 1
        /\ HeapOK(barred, thread) /\ \A i \in 1..k : Value(barred, thread.heap, Argument(i))
    BY <1>1, NativeIs
  <2>2. QED
    BY <1>1, <2>1
<1>3. CASE Fails
  BY <1>2, <1>3, NativeStep DEF Completes
<1>4. CASE ~Fails
  <2>1. PICK start, end, t, new, o :
          /\ StringArg(2) /\ FixnumArg(3) /\ FixnumArg(4)
          /\ start = Argument(3).v /\ end = Argument(4).v
          /\ start >= 0 /\ start <= end /\ end <= Len(Arg1.s)
          /\ t \in MayCollect(Switched)
          /\ new = Copied(t, Argv(t, Argc, 2), start + 1, end)
          /\ o = IF (end - start) % 8 # 0 \/ new = NoObject THEN new
                 ELSE [new EXCEPT !.zero = FALSE]
          /\ ReturningNew(t, o)
    BY <1>4 DEF Substring
  <2>2. start \in Int /\ end \in Int
    <3>1. Value(barred, thread.heap, Argument(3)) /\ Value(barred, thread.heap, Argument(4))
      BY <1>2
    <3>2. QED
      BY <2>1, <3>1 DEF Value, FixnumArg
  <2>3. PICK first : first = start + 1
    OBVIOUS
  <2>4. first \in Int /\ first >= 1
    BY <2>1, <2>2, <2>3
  <2>5. \/ new = NoObject
        \/ /\ ObjectOK(barred, t.heap, new)
           /\ ObjectOK(barred, t.heap, [new EXCEPT !.zero = FALSE])
    <3>1. Argc >= 2
      BY <1>2
    <3>2. QED
      BY <1>2, <2>1, <2>2, <2>3, <2>4, <3>1, TextCopied
  <2>6. o = NoObject \/ ObjectOK(barred, t.heap, o)
    BY <2>1, <2>5
  <2>7. Completes(barred)
    BY <2>1, <2>6 DEF Completes
  <2>8. QED
    BY <1>2, <2>7, NativeStep
<1>5. QED
  BY <1>3, <1>4

LEMMA StructIs ==
  ASSUME NEW barred \in SUBSET {"stale"}, ModuleOK, NEW t, HeapOK(barred, t),
         NEW v, Value(barred, t.heap, v), IsType(t, v, {"struct"})
  PROVE  LET o == Object(t, v) IN
         /\ o.ty = "struct" /\ DOMAIN o = {"ty", "type", "fields"}
         /\ IsSeq(o.fields) /\ Len(o.fields) \in Nat /\ DOMAIN o.fields = 1 .. Len(o.fields)
         /\ \A i \in DOMAIN o.fields : Value(barred, t.heap, o.fields[i])
         /\ o.type.k = "symbol" /\ o.type.s \in Seq(Int)
<1>1. PICK o : o = Object(t, v)
  OBVIOUS
<1>2. o.ty = "struct"
  BY <1>1 DEF IsType
<1>3. DataOK(barred, t.heap, o)
  BY <1>1, <1>2, Leads
<1>4. /\ DOMAIN o = {"ty", "type", "fields"} /\ IsSeq(o.fields)
      /\ \A i \in DOMAIN o.fields : Value(barred, t.heap, o.fields[i])
      /\ o.type.k = "symbol" /\ o.type.s \in Seq(Int)
  BY <1>2, <1>3 DEF DataOK
<1>5. Len(o.fields) \in Nat /\ DOMAIN o.fields = 1 .. Len(o.fields)
  BY <1>4, SeqIs
<1>6. QED
  BY <1>1, <1>2, <1>4, <1>5

LEMMA StructMade ==
  ASSUME NEW barred, NEW heap, NEW type, type.k = "symbol", type.s \in Seq(Int),
         NEW n \in Nat, NEW fields, DOMAIN fields = 1..n, fields = [i \in 1..n |-> fields[i]],
         \A i \in 1..n : Value(barred, heap, fields[i])
  PROVE  ObjectOK(barred, heap, StructOf(type, fields))
<1>1. IsSeq(fields)
  <2>1. PICK S : S = {fields[i] : i \in 1..n}
    OBVIOUS
  <2>2. fields \in [1..n -> S]
    BY <2>1
  <2>3. QED
    BY <2>2, SeqMade
<1>2. PICK o : o = StructOf(type, fields)
  OBVIOUS
<1>3. /\ o.ty = "struct" /\ DOMAIN o = {"ty", "type", "fields"} /\ o.type = type
      /\ o.fields = fields
  BY <1>2 DEF StructOf
<1>4. ObjectOK(barred, heap, o)
  BY <1>1, <1>3 DEF ObjectOK, DataOK
<1>5. QED
  BY <1>2, <1>4

\* A symbol is where it is.
LEMMA SymbolIs ==
  ASSUME NEW barred \in SUBSET {"stale"}, ModuleOK, NEW t, HeapOK(barred, t),
         NEW v, Value(barred, t.heap, v), IsType(t, v, {"symbol"})
  PROVE  v.k = "symbol" /\ v.s \in Seq(Int) /\ ~IsPtr(v)
<1>1. Object(t, v).ty = "symbol"
  BY DEF IsType
<1>2. v.k = "symbol" /\ v.s \in Seq(Int)
  BY <1>1, Leads
<1>3. QED
  BY <1>2 DEF IsPtr

LEMMA MakeStructStep ==
  ASSUME NEW barred \in SUBSET {"stale"}, ModuleOK, MachineOK(barred), MakeStruct,
         "stale" \in barred => ~Losing
  PROVE  MachineOK(barred)'
<1>1. PICK k \in Nat : Called("make_struct") /\ NativeHeader["make_struct"][1] = k /\ k = 1
  BY DEF MakeStruct, NativeHeader
<1>2. /\ Dispatching /\ Callable /\ Argc \in Int /\ Argc >= 1 /\ Argc >= 1
      /\ HeapOK(barred, thread) /\ \A i \in 1..1 : Value(barred, thread.heap, Argument(i))
  <2>1. /\ Dispatching /\ Callable /\ Argc \in Int /\ Argc >= k /\ Argc >= 1
        /\ HeapOK(barred, thread) /\ \A i \in 1..k : Value(barred, thread.heap, Argument(i))
    BY <1>1, NativeIs
  <2>2. QED
    BY <1>1, <2>1
<1>3. CASE Fails \/ Undefined
  <2>2. CASE Undefined
    <3>1. thread' = Stop(Switched, "undefined")
      BY <2>2 DEF Undefined
    <3>2. QED
      BY <1>2, <3>1, UndefinedStep
  <2>3. CASE Fails
    BY <1>2, <2>3, SwitchedRaises
  <2>4. QED
    BY <1>3, <2>2, <2>3
<1>4. CASE ~(Fails \/ Undefined)
  <2>1. PICK t, n, fields, o :
          /\ Argc >= 2 /\ SymbolArg(2) /\ t \in MayCollect(Switched)
          /\ n = Argc - 2
          /\ fields = [i \in 1..n |-> Argv(t, Argc, i + 2)]
          /\ o = StructOf(Argv(t, Argc, 2), fields)
          /\ ReturningNew(t, o)
    <3>1. ~(Argc < 2) /\ SymbolArg(2)
      BY <1>4 DEF MakeStruct
    <3>2. Argc >= 2
      BY <1>2, <3>1
    <3>3. PICK t \in MayCollect(Switched) : ReturningNew(t,
            StructOf(Argv(t, Argc, 2), [i \in 1..Argc - 2 |-> Argv(t, Argc, i + 2)]))
      BY <1>4, <3>1 DEF MakeStruct
    <3>4. PICK n, fields : n = Argc - 2 /\ fields = [i \in 1..n |-> Argv(t, Argc, i + 2)]
      OBVIOUS
    <3>5. QED
      BY <3>1, <3>2, <3>3, <3>4
  <2>2. PICK v : v = Argument(2)
    OBVIOUS
  <2>3. 2 \in 1..Argc /\ n \in Nat /\ \A i \in 1..n : i + 2 \in 1..Argc
    BY <1>2, <2>1
  <2>4. Value(barred, thread.heap, v)
    BY <1>2, <2>2, <2>3, ArgumentsAre
  <2>5. v.k = "symbol" /\ v.s \in Seq(Int) /\ ~IsPtr(v)
    BY <1>2, <2>1, <2>2, <2>4, SymbolIs DEF SymbolArg
  <2>6. Argv(t, Argc, 2) = v
    BY <1>2, <2>1, <2>2, <2>3, <2>5, AllocatedIs
  <2>7. \A i \in 1..n : Value(barred, t.heap, fields[i])
    <3>1. \A j \in 1..Argc : Value(barred, t.heap, Argv(t, Argc, j))
      BY <1>2, <2>1, AllocatedIs
    <3>2. QED
      BY <2>1, <2>3, <3>1
  <2>8. DOMAIN fields = 1..n /\ fields = [i \in 1..n |-> fields[i]]
    BY <2>1
  <2>9. ObjectOK(barred, t.heap, StructOf(v, fields))
    BY <2>3, <2>5, <2>7, <2>8, StructMade
  <2>10. Completes(barred)
    BY <2>1, <2>6, <2>9 DEF Completes
  <2>11. QED
    BY <1>2, <2>1, <2>10, NativeStep
<1>5. QED
  BY <1>3, <1>4

LEMMA AllocStructStep ==
  ASSUME NEW barred \in SUBSET {"stale"}, ModuleOK, MachineOK(barred), AllocStruct,
         "stale" \in barred => ~Losing
  PROVE  MachineOK(barred)'
<1>1. PICK k \in Nat : Called("alloc_struct") /\ NativeHeader["alloc_struct"][1] = k /\ k = 4
  BY DEF AllocStruct, NativeHeader
<1>2. /\ Dispatching /\ Callable /\ Argc \in Int /\ Argc >= 4 /\ Argc >= 1
      /\ HeapOK(barred, thread) /\ \A i \in 1..4 : Value(barred, thread.heap, Argument(i))
  <2>1. /\ Dispatching /\ Callable /\ Argc \in Int /\ Argc >= k /\ Argc >= 1
        /\ HeapOK(barred, thread) /\ \A i \in 1..k : Value(barred, thread.heap, Argument(i))
    BY <1>1, NativeIs
  <2>2. QED
    BY <1>1, <2>1
<1>3. CASE Fails \/ Undefined
  BY <1>2, <1>3, NativeStep DEF Completes
<1>4. CASE ~(Fails \/ Undefined)
  <2>1. PICK t, n, x, fields, o :
          /\ SymbolArg(2) /\ FixnumArg(3) /\ ~(Argument(3).v < 0) /\ t \in MayCollect(Switched)
          /\ n = Argv(t, Argc, 3).v /\ x = Argv(t, Argc, 4)
          /\ fields = [i \in 1..n |-> x]
          /\ o = StructOf(Argv(t, Argc, 2), fields)
          /\ ReturningNew(t, o)
    BY <1>2, <1>4 DEF AllocStruct
  <2>2. PICK v, w : v = Argument(2) /\ w = Argument(3)
    OBVIOUS
  <2>3. 2 \in 1..Argc /\ 3 \in 1..Argc /\ 4 \in 1..Argc
    BY <1>2
  <2>4. Value(barred, thread.heap, v) /\ Value(barred, thread.heap, w)
    BY <1>2, <2>2, <2>3, ArgumentsAre
  <2>5. v.k = "symbol" /\ v.s \in Seq(Int) /\ ~IsPtr(v)
    BY <1>2, <2>1, <2>2, <2>4, SymbolIs DEF SymbolArg
  <2>6. ~IsPtr(w) /\ w.v \in Int
    BY <2>1, <2>2, <2>4 DEF FixnumArg, IsPtr, Value
  <2>7. Argv(t, Argc, 2) = v
    BY <1>2, <2>1, <2>2, <2>3, <2>5, AllocatedIs
  <2>8. Argv(t, Argc, 3) = w
    BY <1>2, <2>1, <2>2, <2>3, <2>6, AllocatedIs
  <2>9. n \in Nat
    BY <2>1, <2>2, <2>6, <2>8
  <2>10. Value(barred, t.heap, x)
    BY <1>2, <2>1, <2>3, AllocatedIs
  <2>11. DOMAIN fields = 1..n /\ fields = [i \in 1..n |-> fields[i]] /\ \A i \in 1..n : fields[i] = x
    BY <2>1
  <2>12. ObjectOK(barred, t.heap, StructOf(v, fields))
    BY <2>5, <2>9, <2>10, <2>11, StructMade
  <2>13. Completes(barred)
    BY <2>1, <2>7, <2>12 DEF Completes
  <2>14. QED
    BY <1>2, <2>13, NativeStep
<1>5. QED
  BY <1>3, <1>4

LEMMA StructSizeStep ==
  ASSUME NEW barred \in SUBSET {"stale"}, ModuleOK, MachineOK(barred), StructSize,
         "stale" \in barred => ~Losing
  PROVE  MachineOK(barred)'
<1>1. PICK k \in Nat : Called("struct_size") /\ NativeHeader["struct_size"][1] = k /\ k = 2
  BY DEF StructSize, NativeHeader
<1>2. /\ Dispatching /\ Callable /\ Argc \in Int /\ Argc >= 2 /\ Argc >= 1
      /\ HeapOK(barred, thread) /\ \A i \in 1..2 : Value(barred, thread.heap, Argument(i))
  <2>1. /\ Dispatching /\ Callable /\ Argc \in Int /\ Argc >= k /\ Argc >= 1
        /\ HeapOK(barred, thread) /\ \A i \in 1..k : Value(barred, thread.heap, Argument(i))
    BY <1>1, NativeIs
  <2>2. QED
    BY <1>1, <2>1
<1>3. StructArg(2) => Len(Arg1.fields) \in Nat
  BY <1>2, StructIs DEF StructArg, Arg1
<1>4. StructArg(2) => Value(barred, thread.heap, Fix(Len(Arg1.fields)))
  <2>1. PICK n : n = Len(Arg1.fields)
    OBVIOUS
  <2>2. n \in Int => Value(barred, thread.heap, Fix(n))
    BY Immediates
  <2>3. QED
    BY <1>3, <2>1, <2>2
<1>5. Completes(barred)
  BY <1>4 DEF StructSize, Completes
<1>6. QED
  BY <1>2, <1>5, NativeStep

LEMMA StructRefStep ==
  ASSUME NEW barred \in SUBSET {"stale"}, ModuleOK, MachineOK(barred), StructRef,
         "stale" \in barred => ~Losing
  PROVE  MachineOK(barred)'
<1>1. PICK k \in Nat : Called("struct_ref") /\ NativeHeader["struct_ref"][1] = k /\ k = 3
  BY DEF StructRef, NativeHeader
<1>2. /\ Dispatching /\ Callable /\ Argc \in Int /\ Argc >= 3 /\ Argc >= 1
      /\ HeapOK(barred, thread) /\ \A i \in 1..3 : Value(barred, thread.heap, Argument(i))
  <2>1. /\ Dispatching /\ Callable /\ Argc \in Int /\ Argc >= k /\ Argc >= 1
        /\ HeapOK(barred, thread) /\ \A i \in 1..k : Value(barred, thread.heap, Argument(i))
    BY <1>1, NativeIs
  <2>2. QED
    BY <1>1, <2>1
<1>3. CASE Fails
  BY <1>2, <1>3, NativeStep DEF Completes
<1>4. CASE ~Fails
  <2>1. PICK o, pos, v : /\ StructArg(2) /\ FixnumArg(3) /\ o = Arg1 /\ pos = Argument(3).v
                         /\ pos >= 0 /\ pos < Len(o.fields) /\ v = o.fields[pos + 1]
                         /\ Returning(Switched, v)
    BY <1>4 DEF StructRef, InStruct
  <2>2. pos \in Int
    <3>1. Value(barred, thread.heap, Argument(3))
      BY <1>2
    <3>2. QED
      BY <2>1, <3>1 DEF Value, FixnumArg
  <2>3. /\ Len(o.fields) \in Nat /\ DOMAIN o.fields = 1 .. Len(o.fields)
        /\ \A i \in DOMAIN o.fields : Value(barred, thread.heap, o.fields[i])
    BY <1>2, <2>1, StructIs DEF StructArg, Arg1
  <2>4. pos + 1 \in DOMAIN o.fields
    BY <2>1, <2>2, <2>3
  <2>5. Value(barred, thread.heap, v)
    BY <2>1, <2>3, <2>4
  <2>6. Completes(barred)
    BY <2>1, <2>5 DEF Completes
  <2>7. QED
    BY <1>2, <2>6, NativeStep
<1>5. QED
  BY <1>3, <1>4

LEMMA StructTypeStep ==
  ASSUME NEW barred \in SUBSET {"stale"}, ModuleOK, MachineOK(barred), StructType,
         "stale" \in barred => ~Losing
  PROVE  MachineOK(barred)'
<1>1. PICK k \in Nat : Called("struct_type") /\ NativeHeader["struct_type"][1] = k /\ k = 2
  BY DEF StructType, NativeHeader
<1>2. /\ Dispatching /\ Callable /\ Argc \in Int /\ Argc >= 2 /\ Argc >= 1
      /\ HeapOK(barred, thread) /\ \A i \in 1..2 : Value(barred, thread.heap, Argument(i))
  <2>1. /\ Dispatching /\ Callable /\ Argc \in Int /\ Argc >= k /\ Argc >= 1
        /\ HeapOK(barred, thread) /\ \A i \in 1..k : Value(barred, thread.heap, Argument(i))
    BY <1>1, NativeIs
  <2>2. QED
    BY <1>1, <2>1
<1>3. StructArg(2) => Value(barred, thread.heap, Arg1.type)
  <2>1. SUFFICES ASSUME StructArg(2) PROVE Value(barred, thread.heap, Arg1.type)
    OBVIOUS
  <2>2. PICK v : v = Arg1.type
    OBVIOUS
  <2>3. v.k = "symbol" /\ v.s \in Seq(Int)
    <3>1. PICK w, o : w = Argument(2) /\ o = Object(thread, w)
      OBVIOUS
    <3>2. Value(barred, thread.heap, w) /\ IsType(thread, w, {"struct"})
      BY <1>2, <2>1, <3>1 DEF StructArg
    <3>3. o.type.k = "symbol" /\ o.type.s \in Seq(Int)
      BY <1>2, <3>1, <3>2, StructIs
    <3>4. v = o.type
      BY <2>2, <3>1 DEF Arg1
    <3>5. QED
      BY <3>3, <3>4
  <2>4. Value(barred, thread.heap, v)
    BY <2>3 DEF Value
  <2>5. QED
    BY <2>2, <2>4
<1>4. Completes(barred)
  BY <1>3 DEF StructType, Completes
<1>5. QED
  BY <1>2, <1>4, NativeStep

LEMMA StructSetStep ==
  ASSUME NEW barred \in SUBSET {"stale"}, ModuleOK, MachineOK(barred), StructSet,
         "stale" \in barred => ~Losing
  PROVE  MachineOK(barred)'
<1>1. PICK k \in Nat : Called("struct_set") /\ NativeHeader["struct_set"][1] = k /\ k = 4
  BY DEF StructSet, NativeHeader
<1>2. /\ Dispatching /\ Callable /\ Argc \in Int /\ Argc >= 4 /\ Argc >= 1
      /\ HeapOK(barred, thread) /\ \A i \in 1..4 : Value(barred, thread.heap, Argument(i))
  <2>1. /\ Dispatching /\ Callable /\ Argc \in Int /\ Argc >= k /\ Argc >= 1
        /\ HeapOK(barred, thread) /\ \A i \in 1..k : Value(barred, thread.heap, Argument(i))
    BY <1>1, NativeIs
  <2>2. QED
    BY <1>1, <2>1
<1>3. CASE Fails
  BY <1>2, <1>3, NativeStep DEF Completes
<1>4. CASE ~Fails
  <2>1. PICK o, pos, j, x, new :
          /\ StructArg(2) /\ IsPtr(Argument(2)) /\ o = Arg1
          /\ pos = Untagged(Argument(3)) /\ pos >= 0 /\ pos < Len(o.fields)
          /\ j = pos + 1 /\ x = Argument(4) /\ new = [o EXCEPT !.fields[j] = x]
          /\ Updating(new)
    BY <1>4 DEF StructSet, InStruct
  <2>2. pos \in Int
    <3>1. PICK v : v = Argument(3)
      OBVIOUS
    <3>2. Value(barred, thread.heap, v)
      BY <1>2, <3>1
    <3>3. ShortBound \in Int
      BY DEF ShortBound
    <3>4. v.k = "fix" => v.v \in Int
      BY <3>2 DEF Value
    <3>5. v.k = "char" => v.c \in Int
      BY <3>2 DEF Value
    <3>6. Untagged(v) \in Int
      BY <3>3, <3>4, <3>5 DEF Untagged
    <3>7. QED
      BY <2>1, <3>1, <3>6
  <2>3. /\ o.ty = "struct" /\ DOMAIN o = {"ty", "type", "fields"}
        /\ IsSeq(o.fields) /\ Len(o.fields) \in Nat /\ DOMAIN o.fields = 1 .. Len(o.fields)
        /\ \A i \in DOMAIN o.fields : Value(barred, thread.heap, o.fields[i])
        /\ o.type.k = "symbol" /\ o.type.s \in Seq(Int)
    <3>1. PICK w : w = Argument(2)
      OBVIOUS
    <3>2. Value(barred, thread.heap, w) /\ IsType(thread, w, {"struct"})
      BY <1>2, <2>1, <3>1 DEF StructArg
    <3>3. o = Object(thread, w)
      BY <2>1, <3>1 DEF Arg1
    <3>4. HeapOK(barred, thread)
      BY <1>2
    <3>5. o.ty = "struct"
      BY <3>2, <3>3 DEF IsType
    <3>6. DataOK(barred, thread.heap, o)
      BY <3>2, <3>3, <3>4, <3>5, Leads
    <3>7. /\ DOMAIN o = {"ty", "type", "fields"} /\ IsSeq(o.fields)
          /\ \A i \in DOMAIN o.fields : Value(barred, thread.heap, o.fields[i])
          /\ o.type.k = "symbol" /\ o.type.s \in Seq(Int)
      BY <3>5, <3>6 DEF DataOK
    <3>8. Len(o.fields) \in Nat /\ DOMAIN o.fields = 1 .. Len(o.fields)
      BY <3>7, SeqIs
    <3>9. QED
      BY <3>5, <3>7, <3>8
  <2>4. j \in DOMAIN o.fields
    BY <2>1, <2>2, <2>3
  <2>5. PICK old, fields : old = o.fields /\ fields = [old EXCEPT ![j] = x]
    OBVIOUS
  <2>6. /\ IsSeq(fields) /\ DOMAIN fields = DOMAIN old
        /\ fields[j] = x /\ \A i \in DOMAIN old : i # j => fields[i] = old[i]
    BY <2>3, <2>4, <2>5, SetIs
  <2>7. Value(barred, thread.heap, x)
    BY <1>2, <2>1
  <2>8. \A i \in DOMAIN fields : Value(barred, thread.heap, fields[i])
    BY <2>3, <2>5, <2>6, <2>7
  <2>9. /\ new.ty = "struct" /\ DOMAIN new = {"ty", "type", "fields"}
        /\ new.type = o.type /\ new.fields = fields
    BY <2>1, <2>3, <2>5
  <2>10. ObjectOK(barred, thread.heap, new)
    BY <2>3, <2>6, <2>8, <2>9 DEF ObjectOK, DataOK
  <2>11. new.ty = Arg1.ty /\ new.ty # "env"
    BY <2>1, <2>3, <2>9
  <2>12. Completes(barred)
    BY <2>1, <2>10, <2>11 DEF Completes
  <2>13. QED
    BY <1>2, <2>12, NativeStep
<1>5. QED
  BY <1>3, <1>4

LEMMA MakeBytevectorStep ==
  ASSUME NEW barred \in SUBSET {"stale"}, ModuleOK, MachineOK(barred), MakeBytevector,
         "stale" \in barred => ~Losing
  PROVE  MachineOK(barred)'
<1>1. PICK k \in Nat : Called("make_bytevector") /\ NativeHeader["make_bytevector"][1] = k /\ k = 3
  BY DEF MakeBytevector, NativeHeader
<1>2. /\ Dispatching /\ Callable /\ Argc \in Int /\ Argc >= 3 /\ Argc >= 1
      /\ HeapOK(barred, thread) /\ \A i \in 1..3 : Value(barred, thread.heap, Argument(i))
  <2>1. /\ Dispatching /\ Callable /\ Argc \in Int /\ Argc >= k /\ Argc >= 1
        /\ HeapOK(barred, thread) /\ \A i \in 1..k : Value(barred, thread.heap, Argument(i))
    BY <1>1, NativeIs
  <2>2. QED
    BY <1>1, <2>1
<1>3. CASE Fails \/ Undefined
  BY <1>2, <1>3, NativeStep DEF Completes
<1>4. CASE ~(Fails \/ Undefined)
  <2>1. PICK t, data, o : /\ t \in MayCollect(Switched) /\ o = BytevectorOf(data)
                          /\ ReturningNew(t, o)
    BY <1>4 DEF MakeBytevector
  <2>2. o.ty = "bytevector" /\ DOMAIN o = {"ty", "data"}
    BY <2>1 DEF BytevectorOf
  <2>3. ObjectOK(barred, t.heap, o)
    BY <2>2 DEF ObjectOK, DataOK
  <2>4. Completes(barred)
    BY <2>1, <2>3 DEF Completes
  <2>5. QED
    BY <1>2, <2>4, NativeStep
<1>5. QED
  BY <1>3, <1>4

LEMMA Bytevector8SetStep ==
  ASSUME NEW barred \in SUBSET {"stale"}, ModuleOK, MachineOK(barred), Bytevector8Set,
         "stale" \in barred => ~Losing
  PROVE  MachineOK(barred)'
<1>1. PICK k \in Nat : Called("bytevector_8_set") /\ NativeHeader["bytevector_8_set"][1] = k /\ k = 4
  BY DEF Bytevector8Set, NativeHeader
<1>2. /\ Dispatching /\ Callable /\ Argc \in Int /\ Argc >= 4 /\ Argc >= 1
      /\ HeapOK(barred, thread) /\ \A i \in 1..4 : Value(barred, thread.heap, Argument(i))
  <2>1. /\ Dispatching /\ Callable /\ Argc \in Int /\ Argc >= k /\ Argc >= 1
        /\ HeapOK(barred, thread) /\ \A i \in 1..k : Value(barred, thread.heap, Argument(i))
    BY <1>1, NativeIs
  <2>2. QED
    BY <1>1, <2>1
<1>3. CASE Fails
  BY <1>2, <1>3, NativeStep DEF Completes
<1>4. CASE ~Fails
  <2>1. PICK o, v, j, val, new :
          /\ BytesArg(2) /\ o = Arg1 /\ v = Argument(2) /\ j = Argument(3).v + 1
          /\ new = [o EXCEPT !.data[j] = val]
          /\ Updating(new)
    BY <1>4 DEF Bytevector8Set
  <2>2. Value(barred, thread.heap, v) /\ o = Object(thread, v)
    BY <1>2, <2>1 DEF Arg1
  <2>3. o.ty = "bytevector"
    BY <2>1, <2>2 DEF BytesArg, IsType
  <2>4. IsPtr(v)
    BY <2>2, <2>3, OnHeap
  <2>5. ObjectOK(barred, thread.heap, o)
    BY <1>2, <2>2, <2>4, Leads
  <2>6. DOMAIN o = {"ty", "data"}
    BY <2>3, <2>5 DEF ObjectOK, DataOK
  <2>7. new.ty = "bytevector" /\ DOMAIN new = {"ty", "data"}
    BY <2>1, <2>3, <2>6
  <2>8. ObjectOK(barred, thread.heap, new)
    BY <2>7 DEF ObjectOK, DataOK
  <2>9. new.ty = Arg1.ty /\ new.ty # "env" /\ IsPtr(Argument(2))
    BY <2>1, <2>3, <2>4, <2>7
  <2>10. Completes(barred)
    BY <2>1, <2>8, <2>9 DEF Completes
  <2>11. QED
    BY <1>2, <2>10, NativeStep
<1>5. QED
  BY <1>3, <1>4

LEMMA StoppedStep ==
  ASSUME NEW barred \in SUBSET {"stale"}, MachineOK(barred), Stopped
  PROVE  MachineOK(barred)'
<1>1. thread' = thread /\ pc' = pc /\ call' = call /\ module' = module
  BY DEF Stopped, vars
<1>2. StateOK(barred, thread, pc, call)
  BY DEF MachineOK
<1>3. QED
  BY <1>1, <1>2, NewState

LEMMA MovedStruct ==
  ASSUME NEW barred \in SUBSET {"stale"}, ModuleOK, NEW t, HeapOK(barred, t), NEW c,
         NEW v, Value(barred, t.heap, v), NEW w, Moves(t, c, v, w), IsType(t, v, {"struct"})
  PROVE  IsType(c, w, {"struct"})
<1>1. CASE IsPtr(v)
  <2>1. Object(t, v) = t.heap[v.a] /\ t.heap[v.a].ty = "struct"
    BY <1>1, Leads DEF IsType
  <2>2. IsPtr(w) /\ c.heap[w.a].ty = "struct"
    BY <1>1, <2>1 DEF Moves
  <2>3. Object(c, w) = c.heap[w.a]
    BY <2>2 DEF Object, IsPtr
  <2>4. QED
    BY <2>2, <2>3 DEF IsType
<1>2. CASE ~IsPtr(v)
  <2>1. w = v
    BY <1>2 DEF Moves
  <2>2. Object(c, v) = Object(t, v)
    BY <1>2 DEF Object, IsPtr
  <2>3. QED
    BY <2>1, <2>2 DEF IsType
<1>3. QED
  BY <1>1, <1>2

\* As many objects more on the heap as there are values.
Continued(barred, t, values, heap) ==
  /\ Extends(t.heap, heap) /\ IsSeq(heap) /\ Len(heap) = Len(t.heap) + Len(values)
  /\ \A a \in DOMAIN heap : ObjectOK(barred, heap, heap[a])

\* The pairs of a list on the heap, and what they hold.
LEMMA ListOfIs ==
  ASSUME NEW barred \in SUBSET {"stale"}, NEW t, HeapOK(barred, t),
         NEW values, IsSeq(values), \A i \in DOMAIN values : Value(barred, t.heap, values[i]),
         NEW heap, heap = t.heap \o ListOf(values, Len(t.heap))
  PROVE  Continued(barred, t, values, heap)
<1>1. PICK n, m, pairs : n = Len(values) /\ m = Len(t.heap) /\ pairs = ListOf(values, m)
  OBVIOUS
<1>2. n \in Nat /\ DOMAIN values = 1..n
  BY <1>1, SeqIs
<1>3. IsSeq(t.heap) /\ m \in Nat /\ DOMAIN t.heap = 1..m
  BY <1>1, SeqIs DEF HeapOK
<1>4. pairs = [i \in 1..n |-> [ty |-> "pair", car |-> values[n + 1 - i],
                               cdr |-> IF i = 1 THEN Null ELSE Ptr(m + i - 1), len |-> i]]
  BY <1>1 DEF ListOf
<1>5. IsSeq(pairs) /\ Len(pairs) = n /\ DOMAIN pairs = 1..n
  <2>1. PICK S : S = {pairs[i] : i \in 1..n}
    OBVIOUS
  <2>2. pairs \in [1..n -> S]
    BY <1>4, <2>1
  <2>3. QED
    BY <1>2, <2>2, SeqMade
<1>6. heap = t.heap \o pairs
  BY <1>1
<1>7. PICK h : h = t.heap
  OBVIOUS
<1>8. heap = h \o pairs /\ IsSeq(h) /\ Len(h) = m
  BY <1>1, <1>3, <1>6, <1>7
<1>9. /\ IsSeq(heap) /\ Len(heap) = m + n /\ DOMAIN heap = 1 .. m + n
      /\ \A i \in 1..m : heap[i] = h[i]
      /\ \A i \in m + 1 .. m + n : heap[i] = pairs[i - m]
  <2>1. /\ IsSeq(h \o pairs) /\ Len(h \o pairs) = Len(h) + Len(pairs)
        /\ DOMAIN (h \o pairs) = 1 .. Len(h) + Len(pairs)
        /\ \A i \in 1 .. Len(h) : (h \o pairs)[i] = h[i]
        /\ \A i \in Len(h) + 1 .. Len(h) + Len(pairs) : (h \o pairs)[i] = pairs[i - Len(h)]
    BY <1>5, <1>8, CatIs
  <2>2. QED
    BY <1>5, <1>8, <2>1
<1>10. Extends(h, heap)
  <2>1. DOMAIN h = 1..m /\ \A i \in 1..m : i \in DOMAIN heap
    BY <1>2, <1>3, <1>7, <1>9
  <2>2. QED
    BY <1>8, <1>9, <2>1 DEF Extends
<1>11. ASSUME NEW a \in 1..m PROVE ObjectOK(barred, heap, heap[a])
  <2>1. ObjectOK(barred, h, h[a])
    BY <1>3, <1>7 DEF HeapOK
  <2>2. QED
    BY <1>9, <1>10, <2>1, ObjectGrows
<1>12. ASSUME NEW a \in m + 1 .. m + n PROVE ObjectOK(barred, heap, heap[a])
  <2>1. PICK i, j, car, cdr, o : /\ i = a - m /\ j = n + 1 - i /\ car = values[j]
                                 /\ cdr = IF i = 1 THEN Null ELSE Ptr(m + i - 1)
                                 /\ o = heap[a]
    OBVIOUS
  <2>2. i \in 1..n /\ j \in 1..n /\ i \in Int
    BY <1>2, <1>3, <2>1
  <2>3. o = [ty |-> "pair", car |-> car, cdr |-> cdr, len |-> i]
    BY <1>4, <1>9, <2>1, <2>2
  <2>4. Value(barred, heap, car)
    <3>1. Value(barred, h, car)
      BY <1>2, <1>7, <2>1, <2>2
    <3>2. QED
      BY <1>10, <3>1, ValueGrows
  <2>5. Value(barred, heap, cdr)
    <3>1. CASE i = 1
      BY <2>1, <3>1, Immediates
    <3>2. CASE i # 1
      <4>1. PICK b : b = m + i - 1
        OBVIOUS
      <4>2. cdr = Ptr(b)
        BY <2>1, <3>2, <4>1
      <4>3. b \in 1 .. m + n
        BY <1>2, <1>3, <2>2, <3>2, <4>1
      <4>4. b \in DOMAIN heap
        BY <1>9, <4>3
      <4>5. QED
        BY <4>2, <4>4 DEF Value, Ptr
    <3>3. QED
      BY <3>1, <3>2
  <2>6. /\ o.ty = "pair" /\ DOMAIN o = {"ty", "car", "cdr", "len"}
        /\ o.car = car /\ o.cdr = cdr /\ o.len = i
    BY <2>3
  <2>7. ObjectOK(barred, heap, o)
    BY <2>2, <2>4, <2>5, <2>6 DEF ObjectOK, DataOK
  <2>8. QED
    BY <2>1, <2>7
<1>13. \A a \in DOMAIN heap : a \in 1..m \/ a \in m + 1 .. m + n
  BY <1>2, <1>3, <1>9
<1>14. QED
  BY <1>1, <1>7, <1>9, <1>10, <1>11, <1>12, <1>13 DEF Continued

LEMMA StructToListStep ==
  ASSUME NEW barred \in SUBSET {"stale"}, ModuleOK, MachineOK(barred), StructToList,
         "stale" \in barred => ~Losing
  PROVE  MachineOK(barred)'
<1>1. PICK k \in Nat : Called("struct_to_list") /\ NativeHeader["struct_to_list"][1] = k /\ k = 2
  BY DEF StructToList, NativeHeader
<1>2. /\ Dispatching /\ Callable /\ Argc \in Int /\ Argc >= 2 /\ Argc >= 1
      /\ HeapOK(barred, thread) /\ \A i \in 1..2 : Value(barred, thread.heap, Argument(i))
  <2>1. /\ Dispatching /\ Callable /\ Argc \in Int /\ Argc >= k /\ Argc >= 1
        /\ HeapOK(barred, thread) /\ \A i \in 1..k : Value(barred, thread.heap, Argument(i))
    BY <1>1, NativeIs
  <2>2. QED
    BY <1>1, <2>1
<1>3. CASE Fails \/ Undefined
  BY <1>2, <1>3, NativeStep DEF Completes
<1>4. CASE ~(Fails \/ Undefined)
  <2>1. PICK gc, t, w, fields, heap, l, x, a, p :
          /\ gc \in Collections /\ StructArg(2) /\ t = After(gc, Switched) /\ w = Argv(t, Argc, 2)
          /\ fields = Object(t, w).fields /\ heap = t.heap \o ListOf(fields, Len(t.heap))
          /\ l = [t EXCEPT !.heap = heap]
          /\ x = IF fields = <<>> THEN Null ELSE New(l)
          /\ a = Argv(t, Argc, 1)
          /\ p = Push(l, x)
          /\ thread' = p /\ call' = Calling(a, 1) /\ module' = module
    <3>1. PICK gc, t, fields, l :
            /\ gc \in Collections /\ StructArg(2) /\ t = After(gc, Switched)
            /\ fields = Object(t, Argv(t, Argc, 2)).fields
            /\ l = [t EXCEPT !.heap = @ \o ListOf(fields, Len(t.heap))]
            /\ thread' = Push(l, IF fields = <<>> THEN Null ELSE New(l))
            /\ call' = Calling(Argv(t, Argc, 1), 1) /\ module' = module
      BY <1>4 DEF StructToList
    <3>2. t \in MayCollect(Switched)
      BY <3>1 DEF Collections, After, MayCollect
    <3>3. AllRegisters(t)
      BY <1>2, <3>2, AllocatedIs DEF HeapOK
    <3>4. PICK heap : heap = t.heap \o ListOf(fields, Len(t.heap))
      OBVIOUS
    <3>5. l = [t EXCEPT !.heap = heap]
      BY <3>1, <3>3, <3>4 DEF AllRegisters
    <3>6. QED
      BY <3>1, <3>4, <3>5
  <2>2. t \in MayCollect(Switched)
    BY <2>1 DEF Collections, After, MayCollect
  <2>3. HeapOK(barred, t) /\ t.local_roots = <<>>
    <3>1. PICK s : s = Switched
      OBVIOUS
    <3>2. HeapOK(barred, s) /\ s.local_roots = <<>> /\ t \in MayCollect(s)
      BY <1>2, <2>2, <3>1, SwitchedIs
    <3>3. CollectedTo(barred, s, t)
      BY <3>2, NoRoots, Allocates
    <3>4. QED
      BY <3>2, <3>3, NoRootsKept DEF CollectedTo
  <2>4. 1 \in 1..Argc /\ 2 \in 1..Argc
    BY <1>2
  <2>5. /\ Value(barred, t.heap, w) /\ Moves(thread, t, Argument(2), w)
        /\ Value(barred, t.heap, a)
    BY <1>2, <2>1, <2>2, <2>4, AllocatedIs
  <2>6. IsType(t, w, {"struct"})
    BY <1>2, <2>1, <2>4, <2>5, ArgumentsAre, MovedStruct DEF StructArg
  <2>7. /\ IsSeq(fields) /\ Len(fields) \in Nat
        /\ \A i \in DOMAIN fields : Value(barred, t.heap, fields[i])
    BY <2>1, <2>3, <2>5, <2>6, StructIs
  <2>8. /\ Extends(t.heap, heap) /\ IsSeq(heap) /\ Len(heap) = Len(t.heap) + Len(fields)
        /\ \A b \in DOMAIN heap : ObjectOK(barred, heap, heap[b])
    <3>1. heap = t.heap \o ListOf(fields, Len(t.heap))
      BY <2>1
    <3>2. Continued(barred, t, fields, heap)
      BY <2>3, <2>7, <3>1, ListOfIs
    <3>3. QED
      BY <3>2 DEF Continued
  <2>9. /\ AllRegisters(l) /\ SameRegisters(t, l) /\ l.opstack = t.opstack /\ l.idx = t.idx
        /\ l.heap = heap /\ l.local_roots = t.local_roots
    BY <2>1, <2>3 DEF HeapOK, AllRegisters, SameRegisters, SameFrame
  <2>10. HeapOK(barred, l)
    <3>1. l.idx \in 0 .. t.idx
      BY <2>3, <2>9, VmAssumption DEF HeapOK
    <3>2. QED
      BY <2>3, <2>8, <2>9, <3>1, HeapKept
  <2>11. Value(barred, heap, x)
    <3>1. CASE fields = <<>>
      BY <2>1, <3>1, Immediates
    <3>2. CASE fields # <<>>
      <4>1. PICK n, m : n = Len(fields) /\ m = Len(t.heap)
        OBVIOUS
      <4>2. n # 0 /\ n \in Nat
        BY <2>7, <3>2, <4>1 DEF IsSeq
      <4>3. m \in Nat
        BY <2>3, <4>1, SeqIs DEF HeapOK
      <4>4. Len(heap) = m + n /\ DOMAIN heap = 1 .. Len(heap)
        BY <2>8, <4>1, SeqIs
      <4>5. PICK top : top = m + n
        OBVIOUS
      <4>6. top = Len(heap)
        BY <4>4, <4>5
      <4>7. x = Ptr(top)
        BY <2>1, <2>9, <3>2, <4>6 DEF New
      <4>8. top \in 1..top
        BY <4>2, <4>3, <4>5
      <4>9. top \in DOMAIN heap
        BY <4>4, <4>6, <4>8
      <4>10. QED
        BY <4>7, <4>9 DEF Value, Ptr
    <3>3. QED
      BY <3>1, <3>2
  <2>12. p.status = "run" =>
           HeapOK(barred, p) /\ p.local_roots = <<>> /\ Value(barred, p.heap, a) /\ 1 <= p.idx
    <3>1. SUFFICES ASSUME p.status = "run"
                   PROVE  HeapOK(barred, p) /\ p.local_roots = <<>> /\ Value(barred, p.heap, a)
                          /\ 1 <= p.idx
      OBVIOUS
    <3>2. HeapOK(barred, p) /\ SameRegisters(l, p) /\ p.heap = l.heap /\ p.idx = l.idx + 1
      <4>1. p = Push(l, x) /\ Value(barred, l.heap, x)
        BY <2>1, <2>9, <2>11
      <4>2. QED
        BY <2>10, <3>1, <4>1, PushIs
    <3>3. p.local_roots = <<>>
      BY <2>3, <2>9, <3>2 DEF SameRegisters, SameFrame
    <3>4. 1 <= p.idx
      <4>1. l.idx \in 0..StackSize
        BY <2>10 DEF HeapOK
      <4>2. QED
        BY <3>2, <4>1, VmAssumption
    <3>5. Value(barred, p.heap, a)
      BY <2>5, <2>8, <2>9, <3>2, ValueGrows
    <3>6. QED
      BY <3>2, <3>3, <3>4, <3>5
  <2>13. PICK one \in Int : one = 1
    OBVIOUS
  <2>14. thread' = p /\ call' = Calling(a, one) /\ module' = module
    BY <2>1, <2>13
  <2>15. p.status = "run" => HeapOK(barred, p) /\ p.local_roots = <<>> /\ Value(barred, p.heap, a)
                             /\ one <= p.idx
    BY <2>12, <2>13
  <2>16. QED
    BY <2>14, <2>15, Calls
<1>5. QED
  BY <1>3, <1>4

-----------------------------------------------------------------------------
(* Every step keeps the invariant.                                         *)

LEMMA VmStep ==
  ASSUME NEW barred \in SUBSET {"stale"}, ModuleOK, MachineOK(barred), Step,
         "stale" \in barred => ~Losing
  PROVE  MachineOK(barred)'
<1>1. CASE Load
  BY <1>1, LoadStep
<1>2. CASE LoadBind
  BY <1>2, LoadBindStep
<1>3. CASE LoadClosure
  BY <1>3, LoadClosureStep
<1>4. CASE SetLocalSlot
  BY <1>4, SetLocalStep
<1>5. CASE SetBind
  BY <1>5, SetBindStep
<1>6. CASE Jump
  BY <1>6, JumpStep
<1>7. CASE Arithmetic
  BY <1>7, ArithmeticStep
<1>8. CASE OpBitNot
  BY <1>8, OpBitNotStep
<1>9. CASE OpEqPtr
  BY <1>9, OpEqPtrStep
<1>10. CASE OpNot
  BY <1>10, OpNotStep
<1>11. CASE OpCons
  BY <1>11, OpConsStep
<1>12. CASE PairField
  BY <1>12, PairFieldStep
<1>13. CASE OpTypeTest
  BY <1>13, OpTypeTestStep
<1>14. CASE FuncCall
  BY <1>14, FuncCallStep
<1>15. CASE CallCont
  BY <1>15, CallContStep
<1>16. CASE CallInterp
  BY <1>16, CallInterpStep
<1>17. CASE RaiseArity
  BY <1>17, RaiseArityStep
<1>18. CASE CallNonProcedure
  BY <1>18, CallNonProcedureStep
<1>19. CASE Display
  BY <1>19, DisplayStep
<1>20. CASE VmExit
  BY <1>20, VmExitStep
<1>21. CASE CallCc
  BY <1>21, CallCcStep
<1>22. CASE Apply
  BY <1>22, ApplyStep
<1>23. CASE List
  BY <1>23, ListStep
<1>24. CASE MakeList
  BY <1>24, MakeListStep
<1>25. CASE Length
  BY <1>25, LengthStep
<1>26. CASE GetVoid
  BY <1>26, GetVoidStep
<1>27. CASE GetEof
  BY <1>27, GetEofStep
<1>28. CASE CharToInteger
  BY <1>28, CharToIntegerStep
<1>29. CASE IntegerToChar
  BY <1>29, IntegerToCharStep
<1>30. CASE ExceptionHandlers
  BY <1>30, ExceptionHandlersStep
<1>31. CASE LibraryCache
  BY <1>31, LibraryCacheStep
<1>32. CASE Stopped
  BY <1>32, StoppedStep
<1>33. QED
  BY <1>1, <1>2, <1>3, <1>4, <1>5, <1>6, <1>7, <1>8, <1>9, <1>10, <1>11, <1>12, <1>13, <1>14,
     <1>15, <1>16, <1>17, <1>18, <1>19, <1>20, <1>21, <1>22, <1>23, <1>24, <1>25, <1>26, <1>27,
     <1>28, <1>29, <1>30, <1>31, <1>32 DEF Step

LEMMA MachineStep ==
  ASSUME NEW barred \in SUBSET {"stale"}, ModuleOK, MachineOK(barred), [Next]_vars,
         "stale" \in barred => ~Losing
  PROVE  MachineOK(barred)'
<1>1. CASE MakeString
  BY <1>1, MakeStringStep
<1>2. CASE StringConcat
  BY <1>2, StringConcatStep
<1>3. CASE StringCopyTo
  BY <1>3, StringCopyToStep
<1>4. CASE StringCopy
  BY <1>4, StringCopyStep
<1>5. CASE SymbolToString
  BY <1>5, SymbolToStringStep
<1>6. CASE StringRef
  BY <1>6, StringRefStep
<1>7. CASE StringSet
  BY <1>7, StringSetStep
<1>8. CASE StringLength
  BY <1>8, StringLengthStep
<1>9. CASE StringEq
  BY <1>9, StringEqStep
<1>10. CASE Substring
  BY <1>10, SubstringStep
<1>11. CASE MakeStruct
  BY <1>11, MakeStructStep
<1>12. CASE AllocStruct
  BY <1>12, AllocStructStep
<1>13. CASE StructSize
  BY <1>13, StructSizeStep
<1>14. CASE StructSet
  BY <1>14, StructSetStep
<1>15. CASE StructRef
  BY <1>15, StructRefStep
<1>16. CASE StructType
  BY <1>16, StructTypeStep
<1>17. CASE StructToList
  BY <1>17, StructToListStep
<1>18. CASE MakeBytevector
  BY <1>18, MakeBytevectorStep
<1>19. CASE Bytevector8Set
  BY <1>19, Bytevector8SetStep
<1>20. CASE Step
  BY <1>20, VmStep
<1>21. CASE UNCHANGED vars
  <2>1. thread' = thread /\ pc' = pc /\ call' = call /\ module' = module
    BY <1>21 DEF vars
  <2>2. StateOK(barred, thread, pc, call)
    BY DEF MachineOK
  <2>3. QED
    BY <2>1, <2>2, NewState
<1>22. QED
  BY <1>1, <1>2, <1>3, <1>4, <1>5, <1>6, <1>7, <1>8, <1>9, <1>10, <1>11, <1>12, <1>13, <1>14,
     <1>15, <1>16, <1>17, <1>18, <1>19, <1>20, <1>21 DEF Next

LEMMA ModuleFixed ==
  ASSUME [Next]_vars
  PROVE  module' = module
<1>1. CASE Load
  BY <1>1 DEF Load, Next1, Raise, Undefined, Returning, ReturningNew, ReturningList, Updating,
     Fails, vars
<1>2. CASE LoadBind
  BY <1>2 DEF LoadBind, Next1, Raise, Undefined, Returning, ReturningNew, ReturningList,
     Updating, Fails, vars
<1>3. CASE LoadClosure
  BY <1>3 DEF LoadClosure, Next1, Raise, Undefined, Returning, ReturningNew, ReturningList,
     Updating, Fails, vars
<1>4. CASE SetLocalSlot
  BY <1>4 DEF SetLocalSlot, Next1, Raise, Undefined, Returning, ReturningNew, ReturningList,
     Updating, Fails, vars
<1>5. CASE SetBind
  BY <1>5 DEF SetBind, Next1, Raise, Undefined, Returning, ReturningNew, ReturningList,
     Updating, Fails, vars
<1>6. CASE Jump
  BY <1>6 DEF Jump, Next1, Raise, Undefined, Returning, ReturningNew, ReturningList, Updating,
     Fails, vars
<1>7. CASE Arithmetic
  BY <1>7 DEF Arithmetic, Next1, Raise, Undefined, Returning, ReturningNew, ReturningList,
     Updating, Fails, vars
<1>8. CASE OpBitNot
  BY <1>8 DEF OpBitNot, Next1, Raise, Undefined, Returning, ReturningNew, ReturningList,
     Updating, Fails, vars
<1>9. CASE OpEqPtr
  BY <1>9 DEF OpEqPtr, Next1, Raise, Undefined, Returning, ReturningNew, ReturningList,
     Updating, Fails, vars
<1>10. CASE OpNot
  BY <1>10 DEF OpNot, Next1, Raise, Undefined, Returning, ReturningNew, ReturningList,
     Updating, Fails, vars
<1>11. CASE OpCons
  BY <1>11 DEF OpCons, Next1, Raise, Undefined, Returning, ReturningNew, ReturningList,
     Updating, Fails, vars
<1>12. CASE PairField
  BY <1>12 DEF PairField, Next1, Raise, Undefined, Returning, ReturningNew, ReturningList,
     Updating, Fails, vars
<1>13. CASE OpTypeTest
  BY <1>13 DEF OpTypeTest, Next1, Raise, Undefined, Returning, ReturningNew, ReturningList,
     Updating, Fails, vars
<1>14. CASE FuncCall
  BY <1>14 DEF FuncCall, Next1, Raise, Undefined, Returning, ReturningNew, ReturningList,
     Updating, Fails, vars
<1>15. CASE CallCont
  BY <1>15 DEF CallCont, Next1, Raise, Undefined, Returning, ReturningNew, ReturningList,
     Updating, Fails, vars
<1>16. CASE CallInterp
  BY <1>16 DEF CallInterp, Next1, Raise, Undefined, Returning, ReturningNew, ReturningList,
     Updating, Fails, vars
<1>17. CASE RaiseArity
  BY <1>17 DEF RaiseArity, Next1, Raise, Undefined, Returning, ReturningNew, ReturningList,
     Updating, Fails, vars
<1>18. CASE CallNonProcedure
  BY <1>18 DEF CallNonProcedure, Next1, Raise, Undefined, Returning, ReturningNew,
     ReturningList, Updating, Fails, vars
<1>19. CASE Display
  BY <1>19 DEF Display, Next1, Raise, Undefined, Returning, ReturningNew, ReturningList,
     Updating, Fails, vars
<1>20. CASE VmExit
  BY <1>20 DEF VmExit, Next1, Raise, Undefined, Returning, ReturningNew, ReturningList,
     Updating, Fails, vars
<1>21. CASE CallCc
  BY <1>21 DEF CallCc, Next1, Raise, Undefined, Returning, ReturningNew, ReturningList,
     Updating, Fails, vars
<1>22. CASE Apply
  BY <1>22 DEF Apply, Next1, Raise, Undefined, Returning, ReturningNew, ReturningList,
     Updating, Fails, vars
<1>23. CASE List
  BY <1>23 DEF List, Next1, Raise, Undefined, Returning, ReturningNew, ReturningList, Updating,
     Fails, vars
<1>24. CASE MakeList
  BY <1>24 DEF MakeList, Next1, Raise, Undefined, Returning, ReturningNew, ReturningList,
     Updating, Fails, vars
<1>25. CASE Length
  BY <1>25 DEF Length, Next1, Raise, Undefined, Returning, ReturningNew, ReturningList,
     Updating, Fails, vars
<1>26. CASE GetVoid
  BY <1>26 DEF GetVoid, Next1, Raise, Undefined, Returning, ReturningNew, ReturningList,
     Updating, Fails, vars
<1>27. CASE GetEof
  BY <1>27 DEF GetEof, Next1, Raise, Undefined, Returning, ReturningNew, ReturningList,
     Updating, Fails, vars
<1>28. CASE CharToInteger
  BY <1>28 DEF CharToInteger, Next1, Raise, Undefined, Returning, ReturningNew, ReturningList,
     Updating, Fails, vars
<1>29. CASE IntegerToChar
  BY <1>29 DEF IntegerToChar, Next1, Raise, Undefined, Returning, ReturningNew, ReturningList,
     Updating, Fails, vars
<1>30. CASE ExceptionHandlers
  BY <1>30 DEF ExceptionHandlers, Next1, Raise, Undefined, Returning, ReturningNew,
     ReturningList, Updating, Fails, vars
<1>31. CASE LibraryCache
  BY <1>31 DEF LibraryCache, Next1, Raise, Undefined, Returning, ReturningNew, ReturningList,
     Updating, Fails, vars
<1>32. CASE Stopped
  BY <1>32 DEF Stopped, Next1, Raise, Undefined, Returning, ReturningNew, ReturningList,
     Updating, Fails, vars
<1>33. CASE MakeString
  BY <1>33 DEF MakeString, Next1, Raise, Undefined, Returning, ReturningNew, ReturningList,
     Updating, Fails, vars
<1>34. CASE StringConcat
  BY <1>34 DEF StringConcat, Next1, Raise, Undefined, Returning, ReturningNew, ReturningList,
     Updating, Fails, vars
<1>35. CASE StringCopyTo
  BY <1>35 DEF StringCopyTo, Next1, Raise, Undefined, Returning, ReturningNew, ReturningList,
     Updating, Fails, vars
<1>36. CASE StringCopy
  BY <1>36 DEF StringCopy, Next1, Raise, Undefined, Returning, ReturningNew, ReturningList,
     Updating, Fails, vars
<1>37. CASE SymbolToString
  BY <1>37 DEF SymbolToString, Next1, Raise, Undefined, Returning, ReturningNew, ReturningList,
     Updating, Fails, vars
<1>38. CASE StringRef
  BY <1>38 DEF StringRef, Next1, Raise, Undefined, Returning, ReturningNew, ReturningList,
     Updating, Fails, vars
<1>39. CASE StringSet
  BY <1>39 DEF StringSet, Next1, Raise, Undefined, Returning, ReturningNew, ReturningList,
     Updating, Fails, vars
<1>40. CASE StringLength
  BY <1>40 DEF StringLength, Next1, Raise, Undefined, Returning, ReturningNew, ReturningList,
     Updating, Fails, vars
<1>41. CASE StringEq
  BY <1>41 DEF StringEq, Next1, Raise, Undefined, Returning, ReturningNew, ReturningList,
     Updating, Fails, vars
<1>42. CASE Substring
  BY <1>42 DEF Substring, Next1, Raise, Undefined, Returning, ReturningNew, ReturningList,
     Updating, Fails, vars
<1>43. CASE MakeStruct
  BY <1>43 DEF MakeStruct, Next1, Raise, Undefined, Returning, ReturningNew, ReturningList,
     Updating, Fails, vars
<1>44. CASE AllocStruct
  BY <1>44 DEF AllocStruct, Next1, Raise, Undefined, Returning, ReturningNew, ReturningList,
     Updating, Fails, vars
<1>45. CASE StructSize
  BY <1>45 DEF StructSize, Next1, Raise, Undefined, Returning, ReturningNew, ReturningList,
     Updating, Fails, vars
<1>46. CASE StructSet
  BY <1>46 DEF StructSet, Next1, Raise, Undefined, Returning, ReturningNew, ReturningList,
     Updating, Fails, vars
<1>47. CASE StructRef
  BY <1>47 DEF StructRef, Next1, Raise, Undefined, Returning, ReturningNew, ReturningList,
     Updating, Fails, vars
<1>48. CASE StructType
  BY <1>48 DEF StructType, Next1, Raise, Undefined, Returning, ReturningNew, ReturningList,
     Updating, Fails, vars
<1>49. CASE StructToList
  BY <1>49 DEF StructToList, Next1, Raise, Undefined, Returning, ReturningNew, ReturningList,
     Updating, Fails, vars
<1>50. CASE MakeBytevector
  BY <1>50 DEF MakeBytevector, Next1, Raise, Undefined, Returning, ReturningNew, ReturningList,
     Updating, Fails, vars
<1>51. CASE Bytevector8Set
  BY <1>51 DEF Bytevector8Set, Next1, Raise, Undefined, Returning, ReturningNew, ReturningList,
     Updating, Fails, vars
<1>52. QED
  BY <1>1, <1>2, <1>3, <1>4, <1>5, <1>6, <1>7, <1>8, <1>9, <1>10, <1>11, <1>12, <1>13, <1>14,
     <1>15, <1>16, <1>17, <1>18, <1>19, <1>20, <1>21, <1>22, <1>23, <1>24, <1>25, <1>26, <1>27,
     <1>28, <1>29, <1>30, <1>31, <1>32, <1>33, <1>34, <1>35, <1>36, <1>37, <1>38, <1>39, <1>40,
     <1>41, <1>42, <1>43, <1>44, <1>45, <1>46, <1>47, <1>48, <1>49, <1>50, <1>51 DEF Next,
     Step, vars

-----------------------------------------------------------------------------
(* It holds at the start, and so for ever.                                 *)

LEMMA StartedIs ==
  ASSUME NEW barred \in SUBSET {"stale"}, ModuleOK
  PROVE  StateOK(barred, Started(module), 0, NoCall)
<1> DEFINE f == module.entry_point
           objects == [i \in 1 .. Function(f).env_size |->
                         IF i = 1 THEN Native("__exit") ELSE Fix(0)]
           env == [ty |-> "env", prev |-> NoPtr, depth |-> Function(f).depth, fn |-> f,
                   objects |-> objects]
           t == Started(module)
<1>1. f \in 0 .. Len(module.functions) - 1 /\ FunctionOK(f)
  BY FunctionIs DEF ModuleOK
<1>2. Function(f).env_size \in Nat /\ Function(f).bindings = <<>> /\ Function(f).bindmap = <<>>
  BY <1>1 DEF FunctionOK
<1>3. /\ DOMAIN objects = 1 .. Function(f).env_size
      /\ \A i \in DOMAIN objects : Value(barred, <<env>>, objects[i])
  BY <1>2 DEF Value, Native, Fix
<1>4. IsSeq(objects) /\ Len(objects) = Function(f).env_size
  <2>1. objects \in [1 .. Function(f).env_size -> {Native("__exit"), Fix(0)}]
    OBVIOUS
  <2>2. QED
    BY <2>1, <1>2, SeqMade
<1>5. t = [heap |-> <<env>>, opstack |-> [i \in 1..StackSize |-> Fix(0)], idx |-> 0,
           objects |-> Ptr(1), env |-> Ptr(1), bindmap |-> NoPtr, func |-> f, closure |-> NoPtr,
           heap_env |-> TRUE, lib_cache |-> Null, exception_handlers |-> Null,
           local_roots |-> <<>>, out |-> <<>>, status |-> "run"]
  BY DEF Started, Function
<1> HIDE DEF t, objects
<1>6. EnvValue(<<env>>, Ptr(1))
  BY DEF EnvValue, Ptr
<1>7. ObjectOK(barred, <<env>>, env)
  BY <1>3, <1>4 DEF ObjectOK, DataOK, NoPtr, IsPtr
<1>8. IsSeq(<<env>>) /\ DOMAIN <<env>> = {1}
  BY OneIsSeq
<1>9. \A v \in {NoPtr, Null} : Value(barred, <<env>>, v)
  BY DEF Value, NoPtr, Null
<1>10. ThreadOK(barred, t)
  <2>1. AllRegisters(t) /\ t.local_roots = <<>>
    BY <1>5 DEF AllRegisters
  <2>2. IsSeq(t.heap) /\ \A a \in DOMAIN t.heap : ObjectOK(barred, t.heap, t.heap[a])
    BY <1>5, <1>7, <1>8
  <2>3. DOMAIN t.opstack = 1..StackSize /\ t.idx \in 0..StackSize /\ 1 .. t.idx = {}
    BY <1>5, VmAssumption
  <2>4. EnvValue(t.heap, t.env) /\ t.heap_env = TRUE /\ EnvValue(t.heap, t.objects)
    BY <1>5, <1>6
  <2>5. \A v \in {t.closure, t.lib_cache, t.exception_handlers} : Value(barred, t.heap, v)
    BY <1>5, <1>9
  <2>6. QED
    BY <2>1, <2>2, <2>3, <2>4, <2>5 DEF ThreadOK, HeapOK
<1>11. FrameOK(t, 0)
  <2>1. t.func = f /\ t.idx = 0 /\ Base(t) = 0 /\ t.heap_env = TRUE /\ t.objects = t.env
    BY <1>5 DEF Base
  <2>2. 1 \in DOMAIN Function(f).code /\ module.heights[f + 1][1] = 0
    BY <1>1 DEF FunctionOK, CodeOK
  <2>3. Len(Function(f).bindmap) = 0 /\ 1 .. Len(Function(f).bindmap) = {}
    BY <1>2
  <2>4. Len(t.heap[t.env.a].objects) = Function(f).env_size
    BY <1>4, <1>5 DEF Ptr
  <2>5. QED
    BY <2>1, <2>2, <2>3, <2>4, <1>1, <1>2 DEF FrameOK, Unreached
<1>12. QED
  BY <1>10, <1>11 DEF StateOK, t

LEMMA MachineStart ==
  ASSUME NEW barred \in SUBSET {"stale"}, ModuleOK, Start(module)
  PROVE  MachineOK(barred)
<1>1. module.err = FALSE
  BY DEF ModuleOK
<1>2. thread = Started(module) /\ pc = 0 /\ call = NoCall
  BY <1>1 DEF Start
<1>3. QED
  BY <1>2, StartedIs DEF MachineOK

\* The state of the machine at some moment, from its invariant.
LEMMA FrameNow ==
  ASSUME NEW barred, ModuleOK, MachineOK(barred), Running, call = NoCall
  PROVE  /\ HeapOK(barred, thread) /\ FrameOK(thread, pc)
         /\ thread.func \in 0 .. Len(module.functions) - 1
         /\ pc \in 0 .. Len(Fn.code) - 1
         /\ Arguments(Fn) \in Nat /\ Len(Fn.bindmap) \in Nat
         /\ thread.idx \in Nat
         /\ \E h \in 0 .. pc : thread.idx = Base(thread) + Len(Fn.bindmap) + h
         /\ Base(thread) = IF IsPtr(thread.objects) THEN 0
                           ELSE thread.objects.i + Arguments(Fn)
         /\ ~IsPtr(thread.objects) => thread.objects.i \in 0 .. Arguments(Fn)
<1>1. HeapOK(barred, thread) /\ FrameOK(thread, pc)
  BY DEF MachineOK, StateOK, ThreadOK, Running
<1>2. thread.func \in 0 .. Len(module.functions) - 1 /\ pc \in Nat /\ pc + 1 \in DOMAIN Fn.code
  BY <1>1 DEF FrameOK, Fn
<1>3. DOMAIN Fn.code = 1 .. Len(Fn.code) /\ Len(Fn.code) \in Nat
  BY <1>2, FunctionIs, SeqIs DEF Fn, FunctionOK
<1>4. pc \in 0 .. Len(Fn.code) - 1
  BY <1>2, <1>3
<1>5. Arguments(Fn) \in Nat /\ Len(Fn.bindmap) \in Nat
  BY <1>2, FunctionIs DEF Fn
<1>6. thread.idx \in Nat
  BY <1>1 DEF HeapOK
<1>7. thread.idx = Base(thread) + Len(Fn.bindmap) + Height(thread, pc) /\ Height(thread, pc) \in 0 .. pc
  BY <1>1, FrameIs DEF Bottom, Fn
<1>8. IsPtr(thread.objects) <=> thread.heap_env
  BY <1>1 DEF HeapOK, EnvValue, IsPtr
<1>9. Base(thread) = IF IsPtr(thread.objects) THEN 0 ELSE thread.objects.i + Arguments(Fn)
  BY <1>8 DEF Base, Fn
<1>10. ~IsPtr(thread.objects) => thread.objects.i \in 0 .. Arguments(Fn)
  BY <1>1, <1>8 DEF FrameOK, Fn
<1>11. QED
  BY <1>1, <1>2, <1>4, <1>5, <1>6, <1>7, <1>9, <1>10

LEMMA StackBoundedNow ==
  ASSUME NEW barred, ModuleOK, MachineOK(barred)
  PROVE  StackBounded
<1> SUFFICES ASSUME Running, call = NoCall
             PROVE  thread.idx <= 2 * Arguments(Fn) + Len(Fn.bindmap) + pc
  BY DEF StackBounded
<1>1. PICK h \in 0 .. pc : thread.idx = Base(thread) + Len(Fn.bindmap) + h
  BY FrameNow
<1>2. pc \in 0 .. Len(Fn.code) - 1
  BY FrameNow
<1>3. PICK n \in Nat, b \in Nat : n = Arguments(Fn) /\ b = Len(Fn.bindmap)
  BY FrameNow
<1>4. PICK low \in Int : low = Base(thread) /\ low <= 2 * n
  BY FrameNow, <1>3
<1>5. PICK top \in Nat : top = thread.idx
  BY FrameNow
<1>6. PICK at \in Int : at = pc /\ h <= at
  BY <1>1, <1>2
<1>7. top = low + b + h
  BY <1>1, <1>3, <1>4, <1>5
<1>8. top <= 2 * n + b + at
  BY <1>4, <1>6, <1>7
<1>9. QED
  BY <1>8, <1>3, <1>5, <1>6

LEMMA FrameKeptNow ==
  ASSUME NEW barred, ModuleOK, MachineOK(barred)
  PROVE  FrameKept
<1> SUFFICES ASSUME Running, call = NoCall
             PROVE  thread.idx >= Len(Fn.bindmap) + Base(thread)
  BY FrameNow DEF FrameKept
<1>1. PICK h \in 0 .. pc : thread.idx = Base(thread) + Len(Fn.bindmap) + h
  BY FrameNow
<1>2. PICK b \in Nat, low \in Int, top \in Nat :
         b = Len(Fn.bindmap) /\ low = Base(thread) /\ top = thread.idx
  BY FrameNow
<1>3. top = low + b + h
  BY <1>1, <1>2
<1>4. top >= b + low
  BY <1>3
<1>5. QED
  BY <1>4, <1>2

LEMMA NoStaleNow ==
  ASSUME ModuleOK, MachineOK({"stale"})
  PROVE  NoStale
<1> SUFFICES ASSUME Running
             PROVE  /\ Stale \notin InUse
                    /\ \A a \in DOMAIN thread.heap : Stale \notin ToSet(Fields(thread.heap[a]))
  BY DEF NoStale
<1>1. ThreadOK({"stale"}, thread)
  BY DEF MachineOK, StateOK, Running
<1>2. \A v : Value({"stale"}, thread.heap, v) => v # Stale
  BY DEF Value, Stale
<1>3. Stale \notin InUse
  <2>1. Stale # thread.env /\ Stale # thread.objects
    BY <1>1 DEF ThreadOK, HeapOK, EnvValue, Stale
  <2>2. Stale \notin {thread.closure, thread.lib_cache, thread.exception_handlers}
    BY <1>1, <1>2 DEF ThreadOK, HeapOK
  <2>3. Stale \notin {thread.opstack[i] : i \in 1..thread.idx}
    BY <1>1, <1>2 DEF ThreadOK, HeapOK
  <2>4. ToSet(thread.local_roots) = {}
    BY <1>1 DEF ThreadOK, ToSet
  <2>5. QED
    BY <2>1, <2>2, <2>3, <2>4 DEF InUse
<1>4. ASSUME NEW a \in DOMAIN thread.heap
      PROVE  Stale \notin ToSet(Fields(thread.heap[a]))
  <2> DEFINE o == thread.heap[a]
  <2>1. ObjectOK({"stale"}, thread.heap, o)
    BY <1>1 DEF ThreadOK, HeapOK
  <2>2. \A x \in ToSet(Fields(o)) : x # Stale
    <3>1. CASE o.ty = "env"
      <4>1. o.prev # Stale /\ \A i \in DOMAIN o.objects : o.objects[i] # Stale
        BY <2>1, <3>1, <1>2 DEF ObjectOK, Stale
      <4>2. ToSet(Fields(o)) = {o.prev} \cup {o.objects[i] : i \in DOMAIN o.objects}
        BY <2>1, <3>1, FieldsAre
      <4>3. QED
        BY <4>1, <4>2
    <3>2. CASE o.ty = "closure"
      <4>1. o.env # Stale
        BY <2>1, <3>2 DEF ObjectOK, EnvValue, Stale
      <4>2. ToSet(Fields(o)) = {o.env}
        BY <2>1, <3>2, FieldsAre
      <4>3. QED
        BY <4>1, <4>2
    <3>3. CASE o.ty = "cont"
      <4>1. o.func # Stale
        BY <2>1, <3>3, <1>2 DEF ObjectOK
      <4>2. ToSet(Fields(o)) = {o.func}
        BY <2>1, <3>3, FieldsAre
      <4>3. QED
        BY <4>1, <4>2
    <3>4. CASE o.ty = "pair"
      <4>1. o.car # Stale /\ o.cdr # Stale
        BY <2>1, <3>4, <1>2 DEF ObjectOK, DataOK
      <4>2. ToSet(Fields(o)) = {o.car, o.cdr}
        BY <2>1, <3>4, FieldsAre
      <4>3. QED
        BY <4>1, <4>2
    <3>5. CASE o.ty = "struct"
      <4>1. \A i \in DOMAIN o.fields : o.fields[i] # Stale
        BY <2>1, <3>5, <1>2 DEF ObjectOK, DataOK
      <4>2. ToSet(Fields(o)) = {o.fields[i] : i \in DOMAIN o.fields}
        BY <2>1, <3>5, FieldsAre
      <4>3. QED
        BY <4>1, <4>2
    <3>6. CASE o.ty \in {"string", "bytevector"}
      BY <2>1, <3>6, FieldsAre
    <3>7. QED
      BY <2>1, <3>1, <3>2, <3>3, <3>4, <3>5, <3>6 DEF ObjectOK
  <2>3. QED
    BY <2>2
<1>5. QED
  BY <1>3, <1>4

-----------------------------------------------------------------------------
(* How the machine may have ended, and in which function, also between the *)
(* call of another and its first instruction.                              *)

Known(t) ==
  /\ {"status", "func"} \subseteq DOMAIN t
  /\ t.status \in Statuses /\ t.func \in 0 .. Len(module.functions) - 1

LEMMA KnownKept ==
  ASSUME NEW t, Known(t)
  PROVE  /\ \A why \in Statuses : Known(Stop(t, why))
         /\ \A values : Known(PushAll(t, values))
         /\ \A n : Known(Pop(t, n))
         /\ \A o : Known(Place(t, o))
         /\ \A i, v : Known(SetLocal(t, i, v))
         /\ Known(Collected(t))
         /\ \A u \in MayCollect(t) : Known(u)
         /\ \A f \in 0 .. Len(module.functions) - 1 : Known([t EXCEPT !.func = f])
         /\ \A x : /\ Known([t EXCEPT !.heap = x]) /\ Known([t EXCEPT !.heap_env = x])
                   /\ Known([t EXCEPT !.local_roots = x]) /\ Known([t EXCEPT !.out = x])
                   /\ Known([t EXCEPT !.lib_cache = x])
                   /\ Known([t EXCEPT !.exception_handlers = x])
<1>1. \A why \in Statuses : Known(Stop(t, why))
  BY DEF Known, Stop
<1>2. \A values : Known(PushAll(t, values))
  BY DEF Known, Stop, PushAll, Statuses
<1>3. \A n : Known(Pop(t, n))
  BY DEF Known, Pop
<1>4. \A o : Known(Place(t, o))
  BY DEF Known, Place
<1>5. \A i, v : Known(SetLocal(t, i, v))
  BY DEF Known, SetLocal
<1>6. Known(Collected(t))
  BY DEF Known, Collected, CopiedTo
<1>7. \A u \in MayCollect(t) : Known(u)
  BY <1>6 DEF MayCollect
<1>8. \A f \in 0 .. Len(module.functions) - 1 : Known([t EXCEPT !.func = f])
  BY DEF Known
<1>9. \A x : /\ Known([t EXCEPT !.heap = x]) /\ Known([t EXCEPT !.heap_env = x])
             /\ Known([t EXCEPT !.local_roots = x]) /\ Known([t EXCEPT !.out = x])
             /\ Known([t EXCEPT !.lib_cache = x])
             /\ Known([t EXCEPT !.exception_handlers = x])
  BY DEF Known
<1>10. QED
  BY <1>1, <1>2, <1>3, <1>4, <1>5, <1>6, <1>7, <1>8, <1>9

LEMMA KnownSwitched ==
  ASSUME Known(thread)
  PROVE  Known(Switched)
BY DEF Known, Switched

LEMMA KnownRaise ==
  ASSUME NEW t, Known(t), Raise(t)
  PROVE  Known(thread')
<1>1. Known(Stop(t, "killed"))
  BY KnownKept DEF Statuses
<1>2. ASSUME NEW u, Known(u), NEW handler, NEW rest
      PROVE  Known(CallHandler(u, handler, rest).thread)
  <2>1. Known(Place(u, StringOf(Message)))
    BY <1>2, KnownKept
  <2>2. Known([Place(u, StringOf(Message)) EXCEPT !.exception_handlers = rest])
    BY <2>1, KnownKept
  <2>3. QED
    BY <2>2, KnownKept DEF CallHandler
<1>3. Known(Collected(t))
  BY KnownKept
<1>4. ASSUME NEW r \in Raised(t)
      PROVE  Known(r.thread)
  BY <1>1, <1>2, <1>3 DEF Raised
<1>5. QED
  BY <1>4 DEF Raise

LEMMA KnownReturning ==
  ASSUME Known(thread)
  PROVE  /\ \A t, v : Known(t) /\ Returning(t, v) => Known(thread')
         /\ Undefined => Known(thread')
         /\ Fails => Known(thread')
         /\ \A t, object : Known(t) /\ ReturningNew(t, object) => Known(thread')
         /\ \A object : Updating(object) => Known(thread')
<1>1. \A t, v : Known(t) /\ Returning(t, v) => Known(thread')
  BY KnownKept DEF Returning, Push
<1>2. Undefined => Known(thread')
  BY KnownKept, KnownSwitched DEF Undefined, Statuses
<1>3. Fails => Known(thread')
  BY KnownSwitched, KnownRaise DEF Fails
<1>4. \A t, object : Known(t) /\ ReturningNew(t, object) => Known(thread')
  BY <1>2, KnownKept DEF ReturningNew, Push
<1>5. ASSUME NEW object
      PROVE  Known([Switched EXCEPT !.heap[Argument(2).a] = object])
  BY KnownSwitched DEF Known
<1>6. \A object : Updating(object) => Known(thread')
  BY <1>1, <1>5 DEF Updating
<1>7. QED
  BY <1>1, <1>2, <1>3, <1>4, <1>6

LEMMA KnownAfter ==
  ASSUME NEW t, Known(t), NEW gc
  PROVE  Known(After(gc, t))
BY KnownKept DEF After

LEMMA KnownPushList ==
  ASSUME NEW t, Known(t), NEW slots, Len(slots) \in Nat, NEW s \in PushList(t, slots)
  PROVE  Known(s)
<1>1. PICK m \in Nat : m = Len(slots)
  OBVIOUS
<1>2. PICK at : Listed(t, slots, m, at) /\ ListOfSlots(t, slots) = at[m]
  BY <1>1, ListOfSlotsIs
<1> DEFINE T == {n \in 0..m : ~ \A v \in at[n] : Known(v)}
<1>3. T = {}
  <2>1. SUFFICES ASSUME T # {} PROVE FALSE
    OBVIOUS
  <2>2. PICK n \in T : \A l \in T : n <= l
    <3>1. T \in SUBSET Nat
      OBVIOUS
    <3>2. QED
      BY <2>1, <3>1, LeastNat
  <2>3. n # 0
    <3>1. PICK p : p = [t EXCEPT !.local_roots = <<Null>>]
      OBVIOUS
    <3>2. Known(p)
      BY <3>1, KnownKept
    <3>3. at[0] = {p}
      BY <1>2, <3>1 DEF Listed
    <3>4. QED
      BY <2>2, <3>2, <3>3
  <2>4. n \in 1..m /\ n - 1 \in 0..m /\ n - 1 \notin T
    BY <2>2, <2>3
  <2>5. at[n] = Longer(at[n - 1], slots, n)
    BY <1>2, <2>4 DEF Listed
  <2>6. PICK threads : threads = at[n - 1]
    OBVIOUS
  <2>7. \A v \in threads : Known(v)
    BY <2>4, <2>6
  <2>8. \A u \in UNION {MayCollect(v) : v \in threads} : Known(u)
    BY <2>7, KnownKept
  <2>9. ASSUME NEW u, Known(u), NEW car, NEW cdr
        PROVE  Known([PlacePair(u, car, cdr) EXCEPT !.local_roots = <<New(PlacePair(u, car, cdr))>>])
    <3>1. Known(PlacePair(u, car, cdr))
      BY <2>9, KnownKept DEF PlacePair
    <3>2. QED
      BY <3>1, KnownKept
  <2>10. ASSUME NEW v \in Longer(threads, slots, n)
         PROVE  Known(v)
    <3>1. PICK u \in UNION {MayCollect(w) : w \in threads} :
             v = [PlacePair(u, u.opstack[slots[Len(slots) + 1 - n]], u.local_roots[1]) EXCEPT
                    !.local_roots = <<New(PlacePair(u, u.opstack[slots[Len(slots) + 1 - n]],
                                                    u.local_roots[1]))>>]
      BY DEF Longer
    <3>2. QED
      BY <2>8, <2>9, <3>1
  <2>11. QED
    BY <2>2, <2>5, <2>6, <2>10
<1>4. \A u \in ListOfSlots(t, slots) : Known(u)
  <2>1. m \in 0..m
    OBVIOUS
  <2>2. QED
    BY <1>2, <1>3, <2>1
<1>5. PICK u \in ListOfSlots(t, slots) :
         s = Push([u EXCEPT !.local_roots = <<>>], u.local_roots[1])
  BY DEF PushList
<1>6. Known([u EXCEPT !.local_roots = <<>>])
  BY <1>4, KnownKept
<1>7. QED
  BY <1>5, <1>6, KnownKept DEF Push

LEMMA KnownList ==
  ASSUME Known(thread), NEW slots, Len(slots) \in Nat, ReturningList(slots)
  PROVE  Known(thread')
BY KnownSwitched, KnownPushList DEF ReturningList

LEMMA KnownEntered ==
  ASSUME ModuleOK, NEW t, Known(t), NEW f \in 0 .. Len(module.functions) - 1, NEW argc \in Int,
         NEW s \in EnterInterp(t, f, argc)
  PROVE  Known(s)
<1> DEFINE fn == Function(f)
           n == ArgsEntered(fn, argc)
<1>1. fn.argc \in Nat
  BY FunctionIs DEF FunctionOK
<1>2. PICK p : p = [t EXCEPT !.func = f]
  OBVIOUS
<1>3. Known(p)
  BY <1>2, KnownKept
<1>4. \A u \in Swallowed(p, fn, argc) : Known(u)
  <2>1. Known(Push(p, Null))
    BY <1>3, KnownKept DEF Push
  <2>2. CASE fn.swallow /\ argc - fn.argc # 0
    <3>1. PICK i \in Int : i = argc - fn.argc
      BY <1>1
    <3>2. PICK slots : slots = [j \in 1..i |-> p.idx - i + j]
      OBVIOUS
    <3>3. slots \in [1..i -> {p.idx - i + j : j \in 1..i}]
      BY <3>2
    <3>4. Len(slots) \in Nat
      BY <3>3, Numbered
    <3>5. Known(Pop(p, i))
      BY <1>3, KnownKept
    <3>6. \A u \in PushList(Pop(p, i), slots) : Known(u)
      BY <3>4, <3>5, KnownPushList
    <3>7. Swallowed(p, fn, argc) = PushList(Pop(p, i), slots)
      BY <2>2, <3>1, <3>2 DEF Swallowed
    <3>8. QED
      BY <3>6, <3>7
  <2>3. QED
    BY <1>3, <2>1, <2>2 DEF Swallowed
<1>5. \A u \in Swallowed(p, fn, argc) : \A v \in HeapFrame(u, f, n) : Known(v)
  <2>1. ASSUME NEW u, Known(u), NEW v \in HeapFrame(u, f, n)
        PROVE  Known(v)
    <3>1. \A w \in MayCollect(u) : Known(EnvNew(w, f, w.env))
      BY <2>1, KnownKept DEF EnvNew
    <3>2. QED
      BY <2>1, <3>1 DEF HeapFrame, Known
  <2>2. QED
    BY <1>4, <2>1
<1>6. \A u \in Swallowed(p, fn, argc) : Known(StackFrame(u, n))
  BY <1>4 DEF StackFrame, Known
<1>7. ASSUME NEW u, Known(u)
      PROVE  Known(BindmapInit([u EXCEPT !.heap_env = fn.heap_env], fn))
  <2>1. PICK w : w = [u EXCEPT !.heap_env = fn.heap_env]
    OBVIOUS
  <2>2. Known(w)
    BY <1>7, <2>1, KnownKept
  <2>3. Known(BindmapInit(w, fn))
    BY <2>2 DEF BindmapInit, Known, Stop, Statuses
  <2>4. QED
    BY <2>1, <2>3
<1>8. QED
  BY <1>2, <1>5, <1>6, <1>7 DEF EnterInterp

LEMMA KnownStep ==
  ASSUME ModuleOK, MachineOK({}), Known(thread), [Next]_vars
  PROVE  Known(thread')
<1>1. CASE Load
  BY <1>1, KnownKept, KnownRaise DEF Load, Next1, Push, Statuses
<1>2. CASE LoadBind
  BY <1>2, KnownKept, KnownRaise DEF LoadBind, Next1, Push, Statuses
<1>3. CASE LoadClosure
  BY <1>3, KnownKept, KnownRaise DEF LoadClosure, Next1, Push, Statuses
<1>4. CASE SetLocalSlot
  BY <1>4, KnownKept, KnownRaise DEF SetLocalSlot, Next1, Push, Statuses
<1>5. CASE SetBind
  BY <1>5, KnownKept, KnownRaise DEF SetBind, Next1, Push, Statuses
<1>6. CASE Jump
  BY <1>6, KnownKept, KnownRaise DEF Jump, Next1, Push, Statuses
<1>7. CASE Arithmetic
  BY <1>7, KnownKept, KnownRaise DEF Arithmetic, Next1, Push, Statuses
<1>8. CASE OpBitNot
  BY <1>8, KnownKept DEF OpBitNot, Next1, PushUntagged, Push, Statuses
<1>9. CASE OpEqPtr
  BY <1>9, KnownKept, KnownRaise DEF OpEqPtr, Next1, Push, Statuses
<1>10. CASE OpNot
  BY <1>10, KnownKept, KnownRaise DEF OpNot, Next1, Push, Statuses
<1>11. CASE OpCons
  <2>1. ASSUME NEW x
        PROVE  Known([Pop(thread, 2) EXCEPT !.local_roots = x])
    <3>1. Known(Pop(thread, 2))
      BY KnownKept
    <3>2. QED
      BY <3>1, KnownKept
  <2>2. ASSUME NEW t, Known(t), NEW car, NEW cdr, NEW v
        PROVE  Known([Push(PlacePair(t, car, cdr), v) EXCEPT !.local_roots = <<>>])
    <3>1. Known(Push(PlacePair(t, car, cdr), v))
      BY <2>2, KnownKept DEF PlacePair, Push
    <3>2. QED
      BY <3>1, KnownKept
  <2>3. ASSUME NEW x, NEW t \in MayCollect([Pop(thread, 2) EXCEPT !.local_roots = x])
        PROVE  Known(t)
    BY <2>1, KnownKept
  <2>4. PICK x : x = <<Top(thread, 2), Top(thread, 1)>>
    OBVIOUS
  <2>5. PICK t \in MayCollect([Pop(thread, 2) EXCEPT !.local_roots = x]) :
          \E p : /\ p = PlacePair(t, t.local_roots[1], t.local_roots[2])
                /\ Next1([Push(p, New(p)) EXCEPT !.local_roots = <<>>])
    BY <1>11, <2>4 DEF OpCons
  <2>6. Known(t)
    BY <2>3
  <2>7. QED
    BY <2>2, <2>5, <2>6 DEF Next1
<1>12. CASE PairField
  BY <1>12, KnownKept, KnownRaise DEF PairField, Next1, Push, Statuses
<1>13. CASE OpTypeTest
  BY <1>13, KnownKept, KnownRaise DEF OpTypeTest, Next1, Push, Statuses
<1>14. CASE FuncCall
  BY <1>14, KnownKept, KnownRaise DEF FuncCall, Next1, Push, Statuses
<1>15. CASE CallCont
  BY <1>15, KnownKept, KnownRaise DEF CallCont, Next1, Push, Statuses
<1>16. CASE RaiseArity
  BY <1>16, KnownKept, KnownSwitched, KnownRaise, KnownReturning DEF RaiseArity, Push, Statuses
<1>17. CASE CallNonProcedure
  BY <1>17, KnownKept, KnownSwitched, KnownRaise, KnownReturning DEF CallNonProcedure, Push, Statuses
<1>18. CASE Display
  <2>1. \A x : Known([Switched EXCEPT !.out = x])
    BY KnownSwitched, KnownKept
  <2>2. QED
    BY <1>18, <2>1, KnownReturning DEF Display
<1>19. CASE VmExit
  BY <1>19, KnownKept, KnownSwitched, KnownRaise, KnownReturning DEF VmExit, Push, Statuses
<1>20. CASE CallCc
  <2>1. Known(Push(Switched, Argument(1)))
    BY KnownKept, KnownSwitched DEF Push
  <2>2. \A t \in MayCollect(Push(Switched, Argument(1))) : Known(t)
    BY <2>1, KnownKept
  <2>3. ASSUME NEW t, Known(t), NEW object, NEW v
        PROVE  Known(Push(Place(t, object), v))
    <3>1. Known(Place(t, object))
      BY <2>3, KnownKept
    <3>2. QED
      BY <3>1, KnownKept DEF Push
  <2>4. CASE Fails
    BY <2>4, KnownReturning
  <2>5. CASE ~Fails
    <3>1. PICK t, object, v :
            t \in MayCollect(Push(Switched, Argument(1))) /\ thread' = Push(Place(t, object), v)
      BY <1>20, <2>5 DEF CallCc
    <3>2. QED
      BY <2>2, <2>3, <3>1
  <2>6. QED
    BY <2>4, <2>5
<1>21. CASE Apply
  BY <1>21, KnownKept, KnownSwitched, KnownReturning DEF Apply
<1>22. CASE Length
  BY <1>22, KnownKept, KnownSwitched, KnownReturning DEF Length, Statuses
<1>23. CASE GetVoid
  BY <1>23, KnownSwitched, KnownReturning DEF GetVoid
<1>24. CASE GetEof
  BY <1>24, KnownSwitched, KnownReturning DEF GetEof
<1>25. CASE CharToInteger
  BY <1>25, KnownSwitched, KnownReturning DEF CharToInteger
<1>26. CASE IntegerToChar
  BY <1>26, KnownSwitched, KnownReturning DEF IntegerToChar
<1>27. CASE ExceptionHandlers
  <2>1. \A x : Known([Switched EXCEPT !.exception_handlers = x])
    BY KnownSwitched DEF Known
  <2>2. Known(Switched)
    BY KnownSwitched
  <2>3. QED
    BY <1>27, <2>1, <2>2, KnownReturning DEF ExceptionHandlers
<1>28. CASE LibraryCache
  BY <1>28, KnownKept, KnownSwitched, KnownReturning DEF LibraryCache
<1>29. CASE Stopped
  BY <1>29 DEF Stopped, vars
<1>30. CASE MakeString
  BY <1>30, KnownKept, KnownSwitched, KnownReturning DEF MakeString
<1>31. CASE StringConcat
  <2>1. \A gc, o : Known(Place(After(gc, Switched), o))
    BY KnownSwitched, KnownAfter, KnownKept
  <2>2. QED
    BY <1>31, <2>1, KnownKept, KnownReturning DEF StringConcat, Push
<1>32. CASE StringCopyTo
  BY <1>32, KnownSwitched, KnownReturning DEF StringCopyTo
<1>33. CASE StringCopy
  BY <1>33, KnownKept, KnownSwitched, KnownReturning DEF StringCopy
<1>34. CASE SymbolToString
  BY <1>34, KnownKept, KnownSwitched, KnownReturning DEF SymbolToString
<1>35. CASE StringRef
  BY <1>35, KnownSwitched, KnownReturning DEF StringRef
<1>36. CASE StringSet
  BY <1>36, KnownSwitched, KnownReturning DEF StringSet
<1>37. CASE StringLength
  BY <1>37, KnownSwitched, KnownReturning DEF StringLength
<1>38. CASE StringEq
  BY <1>38, KnownSwitched, KnownReturning DEF StringEq
<1>39. CASE Substring
  BY <1>39, KnownKept, KnownSwitched, KnownReturning DEF Substring
<1>40. CASE MakeStruct
  BY <1>40, KnownKept, KnownSwitched, KnownReturning DEF MakeStruct
<1>41. CASE AllocStruct
  BY <1>41, KnownKept, KnownSwitched, KnownReturning DEF AllocStruct
<1>42. CASE StructSize
  BY <1>42, KnownSwitched, KnownReturning DEF StructSize
<1>43. CASE StructSet
  BY <1>43, KnownSwitched, KnownReturning DEF StructSet
<1>44. CASE StructRef
  BY <1>44, KnownSwitched, KnownReturning DEF StructRef
<1>45. CASE StructType
  BY <1>45, KnownSwitched, KnownReturning DEF StructType
<1>46. CASE StructToList
  <2>1. \A gc, o : Known([After(gc, Switched) EXCEPT !.heap = o])
    BY KnownSwitched, KnownAfter, KnownKept
  <2>2. QED
    BY <1>46, <2>1, KnownKept, KnownReturning DEF StructToList, Push
<1>47. CASE MakeBytevector
  BY <1>47, KnownKept, KnownSwitched, KnownReturning DEF MakeBytevector
<1>48. CASE Bytevector8Set
  BY <1>48, KnownSwitched, KnownReturning DEF Bytevector8Set
<1>49. CASE List
  <2>1. Argc \in Int
    BY <1>49, AtCall DEF List, Called
  <2>2. PICK n, slots, x : n = Argc - 1 /\ x = thread.idx - Argc + 1 /\ slots = [j \in 1..n |-> x + j]
    OBVIOUS
  <2>3. n \in Int /\ DOMAIN slots = 1..n /\ slots \in [1..n -> {x + j : j \in 1..n}]
    BY <2>1, <2>2
  <2>4. Len(slots) \in Nat
    BY <2>3, Numbered
  <2>5. ReturningList(slots)
    BY <1>49, <2>2 DEF List
  <2>6. QED
    BY <2>4, <2>5, KnownList
<1>50. CASE MakeList
  <2>1. CASE Fails
    BY <2>1, KnownReturning
  <2>2. CASE ~Fails
    <3>1. PICK n, slots, x : n = Argument(2).v /\ x = thread.idx /\ slots = [j \in 1..n |-> x]
      OBVIOUS
    <3>2. Called("make_list") /\ Argument(2).k = "fix" /\ ReturningList(slots)
      BY <1>50, <2>2, <3>1 DEF MakeList
    <3>3. n \in Int
      <4>1. PICK k \in Nat : k = 3 /\ NativeHeader["make_list"][1] = k
        BY DEF NativeHeader
      <4>2. Dispatching /\ Callable /\ Argc >= 3 /\ Argc \in Int
        BY <3>2, <4>1, CalledIs
      <4>3. 2 \in 1..Argc
        BY <4>2
      <4>4. PICK v : v = Argument(2)
        OBVIOUS
      <4>5. Value({}, thread.heap, v)
        BY <4>2, <4>3, <4>4, ArgumentsAre
      <4>6. QED
        BY <3>1, <3>2, <4>4, <4>5 DEF Value
    <3>4. Len(slots) \in Nat
      <4>1. DOMAIN slots = 1..n /\ slots \in [1..n -> {x}]
        BY <3>1
      <4>2. QED
        BY <3>3, <4>1, Numbered
    <3>5. QED
      BY <3>2, <3>4, KnownList
  <2>3. QED
    BY <2>1, <2>2
<1>51. CASE CallInterp
  <2>1. /\ Dispatching /\ Callable /\ Interpreted
        /\ thread' \in EnterInterp(Switched, Callee, Argc)
    BY <1>51 DEF CallInterp
  <2>2. Callee \in 0 .. Len(module.functions) - 1 /\ Argc \in Int
    BY <2>1, CalleeIs, AtCall DEF Loadable
  <2>3. QED
    BY <2>1, <2>2, KnownSwitched, KnownEntered
<1>52. CASE UNCHANGED vars
  BY <1>52 DEF vars
<1>53. QED
  BY <1>1, <1>2, <1>3, <1>4, <1>5, <1>6, <1>7, <1>8, <1>9, <1>10, <1>11, <1>12, <1>13,
     <1>14, <1>15, <1>16, <1>17, <1>18, <1>19, <1>20, <1>21, <1>22, <1>23, <1>24, <1>25,
     <1>26, <1>27, <1>28, <1>29, <1>30, <1>31, <1>32, <1>33, <1>34, <1>35, <1>36, <1>37,
     <1>38, <1>39, <1>40, <1>41, <1>42, <1>43, <1>44, <1>45, <1>46, <1>47, <1>48, <1>49,
     <1>50, <1>51, <1>52 DEF Next, Step

-----------------------------------------------------------------------------
(* Theorems: what holds of any bytecode that is in order.                  *)

LEMMA NextKeeps ==
  ASSUME NEW barred \in SUBSET {"stale"}, ModuleOK, MachineOK(barred), [Next]_vars,
         "stale" \in barred => [~Losing]_vars
  PROVE  ModuleOK' /\ MachineOK(barred)'
<1>1. module' = module
  BY ModuleFixed
<1>2. ModuleOK'
  BY <1>1, FixedModule
<1>3. CASE UNCHANGED vars
  <2>1. thread' = thread /\ pc' = pc /\ call' = call
    BY <1>3 DEF vars
  <2>2. StateOK(barred, thread, pc, call)
    BY DEF MachineOK
  <2>3. QED
    BY <1>1, <1>2, <2>1, <2>2, NewState
<1>4. CASE ~UNCHANGED vars
  <2>1. "stale" \in barred => ~Losing
    BY <1>4
  <2>2. QED
    BY <1>2, <2>1, MachineStep
<1>5. QED
  BY <1>3, <1>4

\* A value that the machine holds is in order, whatever happens to the rest of
\* the invariant: MachineOK of no barred value.
LEMMA MachineHolds == MachineSpec => [](ModuleOK /\ MachineOK({}) /\ Known(thread))
<1>1. ModuleOK /\ Start(module) => ModuleOK /\ MachineOK({}) /\ Known(thread)
  <2>1. SUFFICES ASSUME ModuleOK, Start(module)
                 PROVE  MachineOK({}) /\ Known(thread)
    OBVIOUS
  <2>2. thread = Started(module)
    BY <2>1 DEF Start, ModuleOK
  <2>3. module.entry_point \in 0 .. Len(module.functions) - 1
    BY <2>1 DEF ModuleOK
  <2>4. Known(Started(module))
    BY <2>3 DEF Started, Known, Statuses
  <2>5. QED
    BY <2>1, <2>2, <2>4, MachineStart
<1>2. ModuleOK /\ MachineOK({}) /\ Known(thread) /\ [Next]_vars
        => (ModuleOK /\ MachineOK({}) /\ Known(thread))'
  <2>1. SUFFICES ASSUME ModuleOK, MachineOK({}), Known(thread), [Next]_vars
                 PROVE  ModuleOK' /\ MachineOK({})' /\ Known(thread)'
    OBVIOUS
  <2>2. ModuleOK' /\ MachineOK({})'
    BY <2>1, NextKeeps
  <2>3. Known(thread')
    BY <2>1, KnownStep
  <2>4. module' = module
    BY <2>1, ModuleFixed
  <2>5. QED
    BY <2>2, <2>3, <2>4 DEF Known
<1>3. QED
  BY <1>1, <1>2, PTL DEF MachineSpec

\* The registers of the thread fit together, and control never leaves the code
\* of the current function (src/vm/vm.c:341-349).
THEOREM TypeHolds == MachineSpec => []TypeOK
<1>1. ModuleOK /\ MachineOK({}) /\ Known(thread) => TypeOK
  <2>1. SUFFICES ASSUME ModuleOK, MachineOK({}), Known(thread)
                 PROVE  TypeOK
    OBVIOUS
  <2>2. thread.status \in Statuses /\ thread.func \in 0 .. Len(module.functions) - 1
    BY <2>1 DEF Known
  <2>3. ASSUME Running
        PROVE  /\ thread.idx \in 0..StackSize
               /\ IsPtr(thread.env) /\ thread.heap[thread.env.a].ty = "env"
    <3>1. HeapOK({}, thread)
      BY <2>1, <2>3 DEF MachineOK, StateOK, ThreadOK, Running
    <3>2. QED
      BY <3>1 DEF HeapOK, EnvValue, IsPtr
  <2>4. ASSUME Running, call = NoCall
        PROVE  pc \in 0 .. Len(Fn.code) - 1
    BY <2>1, <2>4, FrameNow
  <2>5. QED
    BY <2>2, <2>3, <2>4 DEF TypeOK
<1>2. QED
  BY <1>1, MachineHolds, PTL

\* However long a program runs and whatever it calls, what lies on the stack is
\* bounded by the function it is in: arguments twice, the bindmap, and an
\* operand for each instruction before (src/vm/vm.c:184-197).
THEOREM StackBoundedHolds == MachineSpec => []StackBounded
<1>1. ModuleOK /\ MachineOK({}) => StackBounded
  BY StackBoundedNow
<1>2. QED
  BY <1>1, MachineHolds, PTL

\* Operands never reach the arguments and the bindmap below them
\* (src/vm/vm.c:184-197, 341-349).
THEOREM FrameKeptHolds == MachineSpec => []FrameKept
<1>1. ModuleOK /\ MachineOK({}) => FrameKept
  BY FrameKeptNow
<1>2. QED
  BY <1>1, MachineHolds, PTL

\* As long as none of the two places below has lost a pointer, every instruction,
\* every native and every collection leaves objects, registers and the stack in
\* order, and no stale pointer anywhere (src/vm/vm.c:298-608).
THEOREM IInvHolds == LosslessSpec => []IInv
<1> DEFINE I == ModuleOK /\ MachineOK({"stale"})
<1>1. ModuleOK /\ Start(module) => I
  BY MachineStart
<1>2. I /\ [Next]_vars /\ [~Losing]_vars => I'
  BY NextKeeps
<1>3. I => IInv
  BY DEF IInv
<1>4. QED
  BY <1>1, <1>2, <1>3, PTL DEF LosslessSpec, MachineSpec

\* push_exception_handler, which allocates a message, and enter_interp, which
\* makes the list of the rest arguments, are the only ones to lose a pointer to a
\* collection: as long as they have not, none in use is stale
\* (src/vm/vm.c:580-608, 159-170, 200-225).
THEOREM NoStaleHolds == LosslessSpec => []NoStale
<1> DEFINE I == ModuleOK /\ MachineOK({"stale"})
<1>1. ModuleOK /\ Start(module) => I
  BY MachineStart
<1>2. I /\ [Next]_vars /\ [~Losing]_vars => I'
  BY NextKeeps
<1>3. I => NoStale
  BY NoStaleNow
<1>4. QED
  BY <1>1, <1>2, <1>3, PTL DEF LosslessSpec, MachineSpec
=============================================================================

----------------------------- MODULE VmCorrect ------------------------------
(***************************************************************************)
(* What the compiler and the virtual machine promise together: a program   *)
(* does what its source means, whenever the collector runs.                *)
(***************************************************************************)
EXTENDS VmInv, Fasl, Compiler, Optimizer, Cps, Expander

CONSTANTS
  Programs,   \* expanded programs, as a sequence
  Files,      \* programs as text, with their imports and an expanded one of the same meaning
  Fuel        \* steps of the reference evaluator, enough for every program

\* compile-file and module_load: the functions as module.c finds them in the
\* file that fasl.scm has written.
Parsed(ilr) == IF ilr.err THEN ilr ELSE ModuleParse(AssembleFile(ilr)) @@ [err |-> FALSE]
Assemble(source) == Parsed(StartCompile(CpsConvert(OptimizeSource(source))))

R == INSTANCE Reference

-----------------------------------------------------------------------------
(* The functions whose activations a function needs are those around it,   *)
(* as far as they live on the heap.                                        *)

Mentions(functions, g, f) ==
  \E i \in DOMAIN functions[g + 1].code :
    functions[g + 1].code[i] \in {<<"LOAD_CLOSURE", f>>, <<"LOAD_FUNC", f>>}

RECURSIVE Around(_, _)
Around(m, f) ==
  LET outer == {g \in 0 .. Len(m.functions) - 1 : Mentions(m.functions, g, f)}
  IN  (IF m.functions[f + 1].heap_env \/ f = m.entry_point THEN <<f>> ELSE <<>>)
        \o IF outer = {} THEN <<>> ELSE Around(m, CHOOSE g \in outer : TRUE)

\* The height of the operands at an instruction: that of one which leads to it,
\* the instruction before or a jump.
Heights(code) ==
  LET Known(heights, i) ==
        LET from == {j \in 1 .. i - 1 : heights[j] # Unreached /\ i \in Successors(code, j)}
            j == Max(from)
        IN  Append(heights, IF i = 1 THEN 0
                            ELSE IF from = {} THEN Unreached ELSE heights[j] + Grows(code[j]))
  IN  FoldLeft(Known, <<>>, [i \in DOMAIN code |-> i])

\* A module together with what its source means and, for every function, the
\* function itself and those around it, and the heights at its instructions;
\* none of them ever changes.
Loaded(m, meaning) ==
  m @@ [means |-> meaning,
        around |-> [f \in 0 .. Len(m.functions) - 1 |-> Around(m, f)],
        heights |-> [i \in DOMAIN m.functions |-> Heights(m.functions[i].code)]]

\* The machine starts with source, compiled, and is to do what plain means.
Begins(source, plain) ==
  \E m \in {Assemble(source)}, meaning \in {R!Meaning(plain, Fuel)} : Start(Loaded(m, meaning))

Init ==
  \/ \E source \in ToSet(Programs) : Begins(source, source)
  \/ \E file \in ToSet(Files) : Begins(ExpandFile(file.imports, file.text), file.plain)

Spec == Init /\ [][Next]_vars

-----------------------------------------------------------------------------

\* Whatever the compiler makes of a program is in order: instructions find the
\* operands that they need, on every path the same, and name constants,
\* functions, slots and bindings that there are
\* (src/scheme/compiler/compiler.scm:188-289).  No instruction tests any of it.
\* The module never changes, so it is enough to look at it at the start.  While
\* it runs, all that the theorems of NativesProofs rest on holds.
Verified ==
  /\ Running /\ thread = Started(module) => ModuleOK
  /\ IInv

\* A program that has ended has displayed what its source displays and has
\* ended the way its source does.  This is about the whole pipeline, from
\* optimize-source to eval_thread, and about every moment at which an
\* allocation may collect.
Correct ==
  ~Running => [why |-> thread.status, out |-> thread.out] = module.means

-----------------------------------------------------------------------------
(* Environments.                                                           *)

Inner(f) == module.around[f]

\* The functions around f alone.
Outer(f) == IF Inner(f) # <<>> /\ Head(Inner(f)) = f THEN Tail(Inner(f)) ELSE Inner(f)

RECURSIVE Chain(_, _)
Chain(heap, env) ==
  IF ~IsPtr(env) THEN <<>>
  ELSE <<heap[env.a].fn>> \o Chain(heap, heap[env.a].prev)

\* The environment in force is always that of the functions around the
\* current one, innermost first: for the function that runs, for the one
\* that LOAD_FUNC has loaded without an environment and that is now called,
\* and for every closure.  The bindmap, which finds environments by their
\* depth, and the omission of environments whose variables nobody captures,
\* rely on it (src/vm/vm.c:79-99, src/scheme/compiler/compiler.scm:174-192).
LexicalChain ==
  Running =>
    /\ call = NoCall => Chain(thread.heap, thread.env) = Inner(thread.func)
    /\ (call # NoCall /\ Fp.k = "func") => Chain(thread.heap, thread.env) = Outer(Fp.f)
    /\ \A a \in DOMAIN thread.heap : thread.heap[a].ty = "closure" =>
         Chain(thread.heap, thread.heap[a].env) = Outer(thread.heap[a].func)

-----------------------------------------------------------------------------

FairSpec == Spec /\ WF_vars(Next)

\* A program whose source ends is not kept running by the machine.
Ends == <>~Running
=============================================================================

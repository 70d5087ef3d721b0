----------------------------- MODULE Libraries ------------------------------
(***************************************************************************)
(* Programs made of libraries.  LibraryManager finds and expands the files *)
(* that a program is made of; this module says what forms they are         *)
(* expanded to, compiles them, and then lets the machine run the program   *)
(* and load the compiled libraries that it asks for (load_library of       *)
(* src/vm/vm.c).                                                           *)
(***************************************************************************)
EXTENDS VmCorrect, LibraryManager

VARIABLES
  libraries    \* the modules that have been loaded: entry points by name

libraryVars == <<vars, managerVars, libraries>>

-----------------------------------------------------------------------------
(* What becomes of a library and of a program, once their imports are      *)
(* resolved.                                                               *)

\* Mutant: the definitions of the first import.
IncludeFirst(resolved) == FlattenSeq([i \in DOMAIN resolved |-> resolved[1][1]])

Include(resolved) == FlattenSeq([i \in DOMAIN resolved |-> resolved[i][1]])

MakeExporter(file) ==
  IF file.exports = <<>> THEN <<Call(Prim("void"), <<>>)>>
  ELSE <<
    Define(<<"exports">>, Call(Prim("list"), [i \in DOMAIN file.exports |->
      Op("$cons", <<Quote(Sym(file.exports[i])), Var(Id(file.exports[i]))>>)])),
    Let(<<"res">>,
        Lambda(<<<<"imp">>>>, <<Call(Var(<<"__assqd?">>), <<Var(<<"imp">>), Var(<<"exports">>)>>)>>),
        <<Call(Prim("library_cache"), <<
            Op("$cons", <<Op("$cons", <<LibrarySymbol(file.name), Var(<<"res">>)>>),
                          Call(Prim("library_cache"), <<>>)>>)>>),
          Var(<<"res">>)>>)>>

\* The definition of __assqd?.
Assqd ==
  LET cur == Var(<<"cur">>)
      entry == Op("$car", <<cur>>)
  IN  Define(<<"__assqd?">>, Lambda(<<<<"x">>, <<"lst">>>>, <<Call(Lambda(<<>>, <<
        Define(<<"loop">>, Lambda(<<<<"cur">>>>, <<
          If(Op("$type-test", <<Prim("TT_NULL"), cur>>), Bool(FALSE),
             If(Op("$eq?", <<Op("$car", <<entry>>), Var(<<"x">>)>>), Op("$cdr", <<entry>>),
                Call(Var(<<"loop">>), <<Op("$cdr", <<cur>>)>>)))>>)),
        Call(Var(<<"loop">>), <<Var(<<"lst">>)>>)>>), <<>>)>>))

LibraryBody(file, resolved) ==
  Call(Lambda(<<>>, Include(resolved) \o file.body \o MakeExporter(file)), <<>>)

\* Mutant: the body runs whenever the library is loaded.
ExpandLibraryUncached(file, resolved) ==
  Lambda(<<>>, <<Assqd, LibraryBody(file, resolved)>>)

ExpandLibrary(file, resolved) ==
  Lambda(<<>>, <<Assqd,
    Let(<<"cached">>,
        Call(Var(<<"__assqd?">>), <<LibrarySymbol(file.name), Call(Prim("library_cache"), <<>>)>>),
        <<If(Var(<<"cached">>), Var(<<"cached">>), LibraryBody(file, resolved))>>)>>)

ExpandTop(file, resolved) == Lambda(<<>>, Include(resolved) \o file.body)

\* What Translate is: assemble writes a module, unless the compiler gives up.
CompileFile(file, resolved) ==
  LET ilr == StartCompile(CpsConvert(OptimizeSource(
               IF file.name = <<>> THEN ExpandTop(file, resolved) ELSE ExpandLibrary(file, resolved))))
  IN  [err |-> ilr.err, code |-> IF ilr.err THEN <<>> ELSE AssembleFile(ilr)]

\* A step of the library manager; what it ends with starts or ends the program.
Compiling ==
  /\ ManagerNext
  /\ thread' = CASE phase' = "compiled" -> [thread EXCEPT !.status = "compiled"]
                 [] phase' = "failed" -> NotCompiled
                 [] OTHER -> thread
  /\ UNCHANGED <<module, pc, call, libraries>>

\* The machine starts with the program.
Run ==
  /\ thread.status = "compiled"
  /\ \E mod \in {ModuleParse(cache[Head(open).place])} :
       /\ module' = mod @@ [means |-> module.means]
       /\ thread' = Started(mod)
  /\ UNCHANGED <<pc, call, managerVars, libraries>>

-----------------------------------------------------------------------------
(* load_library.  The functions, constants and objects of all modules form *)
(* one table each; those of a module that is loaded go behind the others.  *)

Linked(mod, new) ==
  LET f == Len(mod.functions)
      c == Len(mod.consts)
      Moved(v) == IF v.k = "const" THEN Const(v.a + Len(mod.objects)) ELSE v
      Object1(o) ==
        CASE o.ty = "pair" -> [o EXCEPT !.car = Moved(@), !.cdr = Moved(@)]
          [] o.ty = "struct" -> [o EXCEPT !.fields = [i \in DOMAIN @ |-> Moved(@[i])]]
          [] OTHER -> o
      Code(ins) ==
        CASE ins[1] \in {"LOAD_FUNC", "LOAD_CLOSURE"} -> <<ins[1], ins[2] + f>>
          [] ins[1] = "LOAD_CONST" -> <<ins[1], ins[2] + c>>
          [] OTHER -> ins
  IN  [mod EXCEPT
         !.functions = @ \o [i \in DOMAIN new.functions |->
            [new.functions[i] EXCEPT !.code = [j \in DOMAIN @ |-> Code(@[j])]]],
         !.consts = @ \o [i \in DOMAIN new.consts |-> Moved(new.consts[i])],
         !.objects = @ \o [i \in DOMAIN new.objects |-> Object1(new.objects[i])]]

\* A module is entered in the table before its entry point runs; the entry
\* point is called every time.
LoadLibrary ==
  /\ Called("load_library")
  /\ UNCHANGED <<pc, managerVars>>
  /\ IF ~IsType(thread, Argument(2), {"symbol"})
     THEN Raise(Switched) /\ UNCHANGED <<module, libraries>>
     ELSE LET name == Object(thread, Argument(2)).s
              place == At(".", name, "scm")
              known == name \in DOMAIN libraries
          IN  IF ~known /\ place \notin DOMAIN cache
              THEN /\ thread' = Stop(Switched, "fatal")
                   /\ call' = NoCall
                   /\ UNCHANGED <<module, libraries>>
              ELSE /\ IF known THEN UNCHANGED <<module, libraries>>
                      ELSE \E new \in {ModuleParse(cache[place])} :
                             /\ module' = Linked(module, new)
                             /\ libraries' = (name :> Len(module.functions) + new.entry_point)
                                               @@ libraries
                   /\ thread' = Push(Switched, Argument(1))
                   /\ call' = Calling(Func(libraries'[name]), 1)

-----------------------------------------------------------------------------
(* What a program with imports means: the bodies of the libraries whose    *)
(* definitions it may use, each once, after those that it imports itself,  *)
(* and then its own, all in the scope of those before.                     *)

RECURSIVE LoadOrder(_, _, _)
LoadOrder(contents, names, seen) ==
  FoldLeft(LAMBDA order, name :
             LET lib == CHOOSE file \in Range(contents) : file.name = name
             IN  IF name = Builtin THEN order
                 ELSE IF lib \in ToSet(order) \/ lib.exports = <<>> THEN order
                 ELSE Append(LoadOrder(contents, lib.imports, order), lib),
           seen, names)

Whole(world) ==
  LET main == world.files[world.main]
      Within(lib, rest) == <<Call(Lambda(<<>>, lib.body \o rest), <<>>)>>
  IN  Lambda(<<>>, FoldRight(Within, LoadOrder(world.files, main.imports, <<>>), main.body))

RECURSIVE Imported(_, _)
Imported(contents, names) ==
  LET new == names \cup UNION {ToSet(file.imports) :
                                 file \in {g \in Range(contents) : g.name \in names}}
  IN  IF new = names THEN names ELSE Imported(contents, new)

\* Names have one component: where a longer one may be installed depends on
\* what has been before, and load_library looks for its module elsewhere.
Complete(world) ==
  \A name \in Imported(world.files, ToSet(world.files[world.main].imports)) \ {Builtin} :
    Len(name) = 1 /\ \E file \in Range(world.files) : file.name = name

WorldMeans(world) ==
  IF Complete(world) THEN R!Meaning(Whole(world), Fuel)
  ELSE [why |-> "uncompiled", out |-> <<>>]

-----------------------------------------------------------------------------

LibrariesInit ==
  /\ ManagerInit
  /\ libraries = <<>>
  /\ \E world \in ToSet(Worlds) :
       files = world.files /\ Head(open).place = world.main /\ module \in {[means |-> WorldMeans(world)]}
  /\ thread = [status |-> "expanding", out |-> <<>>]
  /\ pc = 0 /\ call = NoCall

LibrariesNext ==
  \/ Compiling \/ Run
  \/ Next /\ UNCHANGED <<managerVars, libraries>>
  \/ LoadLibrary

Ended == thread.status \notin {"expanding", "compiled", "run"}

\* The compiler and the machine are sequential and go on until the program has
\* ended.  As some step is possible until then, this is the weak fairness of
\* LibrariesNext, whose ENABLED would expand and compile every file anew.
Progress == []<>Ended \/ []<><<LibrariesNext>>_libraryVars

LibrariesSpec == LibrariesInit /\ [][LibrariesNext]_libraryVars /\ Progress

-----------------------------------------------------------------------------

\* A program that is made of libraries does what it would do if their bodies
\* stood before its own, every one once; it does not compile when one is
\* missing (src/scheme/compiler/expand.scm:444-500,545-563, src/vm/vm.c:116-139).
ProgramCorrect ==
  Ended => [why |-> thread.status, out |-> thread.out] = module.means

\* The names of the entries in the register for loaded libraries.
RECURSIVE CacheNames(_)
CacheNames(l) ==
  IF l = Null THEN <<>>
  ELSE <<thread.heap[thread.heap[l.a].car.a].car.s>> \o CacheNames(thread.heap[l.a].cdr)

\* A library is registered at most once, and after everything that it imports
\* and that registers itself (src/scheme/compiler/expand.scm:483-493,556-562).
Registers(file) == file.exports # <<>>
Registered ==
  Running =>
    LET names == CacheNames(thread.lib_cache)
        Position(name) == {i \in DOMAIN names : names[i] = LibnameToSymbol(name)}
    IN  /\ \A i, j \in DOMAIN names : names[i] = names[j] => i = j
        /\ \A lib, imported \in {file \in Range(files) : Registers(file)} :
             imported.name \in ToSet(lib.imports) =>
               \A i \in Position(lib.name) : \E j \in Position(imported.name) : i < j

\* Imports that do not form a cycle come to an end, and so does the program
\* (src/scheme/compiler/expand.scm:433-448).
Finishes == <>Ended
=============================================================================

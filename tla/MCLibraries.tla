---------------------------- MODULE MCLibraries -----------------------------
(***************************************************************************)
(* Sets of source files for the library system.  Every library imports     *)
(* the macros of (b), as all of src/scheme do those of (core.forms).       *)
(***************************************************************************)
EXTENDS Libraries, MCScheme

\* Names of one component, and texts of exported definitions.
Forms == <<<<98>>>>
A == <<<<97>>>>
C == <<<<99>>>>
D == <<<<100>>>>
f == <<102>>
g == <<103>>
h == <<104>>

I(x) == Var(Id(x))
DefId(x, e) == Define(Id(x), e)
In(file) == At(".", LibnameToPath(file.name), "scm")
Main == At(".", <<>>, "scm")

CoreForms == SourceFile(Forms, <<>>, <<Builtin>>, <<>>)
World(libs, imports, body) ==
  [files |-> [place \in {In(lib) : lib \in libs \cup {CoreForms}} |->
                CHOOSE lib \in libs \cup {CoreForms} : In(lib) = place]
             @@ Main :> SourceFile(<<>>, <<>>, imports, body),
   main |-> Main]

\* A counter that tells when its library is loaded.
Counter == SourceFile(C, <<f>>, <<Forms>>, <<
  Def("n", Num(0)),
  DefId(f, L(<<>>, <<SetTo("n", Plus(V("n"), Num(1))), V("n")>>)),
  Show(Num(7))>>)

\* Two libraries that use it.
Left == SourceFile(A, <<g>>, <<Forms, C>>, <<
  DefId(g, L(<<"x">>, <<Plus(V("x"), Call(I(f), <<>>))>>)), Show(Num(8))>>)
Right == SourceFile(D, <<h>>, <<C, Forms>>, <<
  DefId(h, Call(I(f), <<>>)), Show(Quote(Sym(<<115>>)))>>)

UsesBoth == <<Show(Pair(I(h), Call(I(g), <<Num(10)>>))), Show(Call(I(g), <<Num(20)>>))>>

Diamond == World({Counter, Left, Right}, <<Forms, A, D>>, UsesBoth)

\* All three are imported, in another order, and one is not used.
Everything == World({Counter, Left, Right}, <<D, C, A>>,
                    <<Show(Call(I(f), <<>>)), Show(I(h))>>)

\* A library without definitions, which nothing has to load.
Silent == SourceFile(D, <<>>, <<Forms, C>>, <<Show(Call(I(f), <<>>))>>)
Unused == World({Counter, Silent}, <<D>>, <<Show(Num(1))>>)

\* One of the libraries is missing.
Missing == World({Left}, <<A>>, <<Show(Call(I(g), <<Num(1)>>))>>)

\* A library whose body raises an exception.
Raising == World({SourceFile(A, <<g>>, <<Forms>>, <<DefId(g, Car(Nil))>>)}, <<Forms, A>>,
  <<Show(I(g))>>)

\* A file that holds a library of another name.
Misnamed == [files |-> At(".", LibnameToPath(A), "scm") :> Right @@ In(Counter) :> Counter
                         @@ In(CoreForms) :> CoreForms
                         @@ Main :> SourceFile(<<>>, <<>>, <<A>>, <<Show(Num(1))>>),
             main |-> Main]

\* A name of two components.
Compound == World({SourceFile(<<<<99>>, <<100>>>>, <<f>>, <<Forms>>, <<DefId(f, Num(1))>>)},
                  <<<<<<99>>, <<100>>>>>>, <<Show(I(f))>>)

Plain == <<Diamond, Everything, Unused, Missing, Raising, Misnamed, Compound>>
=============================================================================

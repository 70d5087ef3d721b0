--------------------------- MODULE LibraryManager ---------------------------
(***************************************************************************)
(* How files are found and compiled.  expand-file resolves what a file     *)
(* imports before it expands the file itself: a library that is not in the *)
(* tree of libraries is looked for, expanded, installed in the tree and    *)
(* compiled (src/scheme/compiler/expand.scm, library-manager.scm).         *)
(*                                                                         *)
(* A source file holds a library, which has a name, or a program, which    *)
(* has none.  Its macros are expanded: it is the texts of the definitions  *)
(* it exports, the names it imports and the forms of its body, in which    *)
(* Id(x) is the variable spelled x.  A name is a sequence of texts.        *)
(***************************************************************************)
EXTENDS Scheme

CONSTANTS
  Worlds,           \* sets of source files: [files |-> contents by place, main |-> a place]
  MaxOpen,          \* bound: files that are being expanded at the same time
  Translate(_, _)   \* a file with its imports: [err |-> BOOLEAN, code |-> what is written]

VARIABLES
  files,       \* the source files
  root,        \* the tree of libraries: what is installed at every path, if anything
  open,        \* the calls of expand-file, the innermost last
  cache,       \* the compiled files, by place
  phase        \* "expanding" until the program is "compiled" or something "failed"

managerVars == <<files, root, open, cache, phase>>

SourceFile(name, exports, imports, body) ==
  [name |-> name, exports |-> exports, imports |-> imports, body |-> body]
At(dir, path, ext) == [dir |-> dir, path |-> path, ext |-> ext]

Id(x) == <<ToString(x)>>

-----------------------------------------------------------------------------
(* library-manager.scm.  A node of the tree is there for every path that   *)
(* leads to a library; NoLibrary stands for #f.                            *)

Builtin == <<<<36, 98>>>>   \* ($builtin), which is always there
NoLibrary == <<>>
Library(include) == <<include>>

FindLibrary(name) == IF name \in DOMAIN root THEN root[name] ELSE NoLibrary
Installed(name) == FindLibrary(name) # NoLibrary

\* library-install! fails unless what is left of a name, where it leaves the
\* tree, is one component or would be the first child of its node.
Installable(name) ==
  LET node == CHOOSE p \in Prefixes(name) \cap DOMAIN root :
                \A q \in Prefixes(name) \cap DOMAIN root : Len(q) <= Len(p)
      childless == \A p \in DOMAIN root : Len(p) > Len(node) => ~IsPrefix(node, p)
  IN  name \in DOMAIN root \/ Len(name) = Len(node) + 1 \/ childless

LibraryInstall(name, lib) ==
  [p \in DOMAIN root \cup Prefixes(name) |-> IF p = name THEN lib ELSE FindLibrary(p)]

\* libname->string
Joined(name, sep) == FoldLeft(LAMBDA s, c : s \o <<sep>> \o c, Head(name), Tail(name))
LibnameToPath(name) == Joined(name, 47)
LibnameToSymbol(name) == Joined(name, 46)

\* find-library-file: the first of these that there is.
Tried == <<<<".", "scm">>, <<".", "ss">>, <<".", "sls">>,
           <<"..", "scm">>, <<"..", "ss">>, <<"..", "sls">>>>
Candidate(name, n) == At(Tried[n][1], LibnameToPath(name), Tried[n][2])
Found(contents, name) == {n \in DOMAIN Tried : Candidate(name, n) \in DOMAIN contents}
LibraryFile(contents, name) ==
  Candidate(name, CHOOSE n \in Found(contents, name) : \A o \in Found(contents, name) : n <= o)

-----------------------------------------------------------------------------
(* Which sets of files are considered.                                     *)

AllImports(contents) == UNION {ToSet(contents[place].imports) : place \in DOMAIN contents}

\* Different names lead to different files, which a "/" in a part of a name
\* could spoil.
PathsDiffer(contents) ==
  \A name, other \in AllImports(contents) : LibnameToPath(name) = LibnameToPath(other) => name = other

\* No file is reached again by going from a file to what it imports: from any
\* set of files, one does not lead to any of them.
Acyclic(contents) ==
  \A places \in SUBSET DOMAIN contents : places # {} =>
    \E place \in places : \A name \in ToSet(contents[place].imports) :
      Found(contents, name) # {} => LibraryFile(contents, name) \notin places

ASSUME LibraryManagerAssumption ==
  /\ MaxOpen \in Nat
  /\ \A world \in ToSet(Worlds) :
       /\ IsFiniteSet(DOMAIN world.files) /\ world.main \in DOMAIN world.files
       /\ PathsDiffer(world.files) /\ Acyclic(world.files)

-----------------------------------------------------------------------------
(* What is installed of a library.                                         *)

LibraryVar(name) == <<"library", ToString(LibnameToSymbol(name))>>
LibrarySymbol(name) == Quote(Sym(LibnameToSymbol(name)))

MakeInclude(name, defines) ==
  <<Define(LibraryVar(name), Call(Prim("load_library"), <<LibrarySymbol(name)>>))>>
    \o [i \in DOMAIN defines |->
          Define(Id(defines[i]), Call(Var(LibraryVar(name)), <<Quote(Sym(defines[i]))>>))]

-----------------------------------------------------------------------------
(* expand-file, load-library and resolve-imports.                          *)

Expanding == phase = "expanding"
Call1(place) == [place |-> place, resolved |-> <<>>, loading |-> 0, expanded |-> FALSE]
Current == Last(open)
File == files[Current.place]

Entered(f, x, y) == [z \in DOMAIN f \cup {x} |-> IF z = x THEN y ELSE f[z]]

Loads(frame, i) == [frame EXCEPT !.loading = i]

\* Mutant: the imports resolved before are forgotten.
ResolveLast(frame, i, lib) == [Loads(frame, 0) EXCEPT !.resolved = Entered(<<>>, i, lib)]

Resolve(frame, i, lib) == [Loads(frame, 0) EXCEPT !.resolved = Entered(@, i, lib)]
Caller(calls, frame) == Append(Front(calls), frame)

Failed == phase' = "failed" /\ UNCHANGED open

\* resolve-import, in whatever order map calls it.
Unresolved == DOMAIN File.imports \ DOMAIN Current.resolved

ResolveInstalled ==
  /\ Expanding
  /\ \E i \in Unresolved :
       /\ Installed(File.imports[i])
       /\ open' = Caller(open, Resolve(Current, i, FindLibrary(File.imports[i])))
  /\ UNCHANGED <<files, root, cache, phase>>

\* The file of an import that is not in the tree.
LoadFile(i) ==
  /\ UNCHANGED <<files, root, cache>>
  /\ LET name == File.imports[i]
     IN  IF Found(files, name) = {} THEN Failed
         ELSE /\ Len(open) < MaxOpen
              /\ open' = Append(Caller(open, Loads(Current, i)), Call1(LibraryFile(files, name)))
              /\ UNCHANGED phase

\* Mutant: a library is loaded for every import of it.
LoadSourceAlways ==
  Expanding /\ \E i \in Unresolved : File.imports[i] # Builtin /\ LoadFile(i)

LoadSource ==
  Expanding /\ \E i \in Unresolved : ~Installed(File.imports[i]) /\ LoadFile(i)

\* Mutant: a library is done with its first import.
ResolvedOne == DOMAIN Current.resolved # {} \/ Unresolved = {}

Resolved == Unresolved = {}

\* A library goes to the tree before it is compiled.
LibraryExpanded ==
  /\ Expanding /\ Resolved /\ ~Current.expanded /\ File.name # <<>>
  /\ UNCHANGED <<files, cache>>
  /\ IF ~Installable(File.name) THEN Failed /\ UNCHANGED root
     ELSE /\ root' = LibraryInstall(File.name, Library(MakeInclude(File.name, File.exports)))
          /\ open' = Caller(open, [Current EXCEPT !.expanded = TRUE])
          /\ UNCHANGED phase

ProgramExpanded ==
  /\ Expanding /\ Resolved /\ ~Current.expanded /\ File.name = <<>>
  /\ open' = Caller(open, [Current EXCEPT !.expanded = TRUE])
  /\ UNCHANGED <<files, root, cache, phase>>

\* What called for a library finds it in the tree, unless the file holds
\* another one.
Return ==
  IF Len(open) = 1 THEN phase' = "compiled" /\ UNCHANGED open
  ELSE LET caller == open[Len(open) - 1]
           name == files[caller.place].imports[caller.loading]
       IN  IF ~Installed(name) THEN Failed
           ELSE /\ open' = Caller(Front(open), Resolve(caller, caller.loading, FindLibrary(name)))
                /\ UNCHANGED phase

FileCompiled ==
  /\ Expanding /\ Current.expanded
  /\ UNCHANGED <<files, root>>
  /\ \E result \in {Translate(File, Current.resolved)} :
       IF result.err THEN Failed /\ UNCHANGED cache
       ELSE cache' = Entered(cache, Current.place, result.code) /\ Return

-----------------------------------------------------------------------------

ManagerInit ==
  \E world \in ToSet(Worlds) :
    /\ files = world.files
    /\ root = Entered(Entered(<<>>, <<>>, NoLibrary), Builtin, Library(<<>>))
    /\ open = <<Call1(world.main)>>
    /\ cache = <<>> /\ phase = "expanding"

ManagerNext ==
  ResolveInstalled \/ LoadSource \/ LibraryExpanded \/ ProgramExpanded \/ FileCompiled

ManagerSpec == ManagerInit /\ [][ManagerNext]_managerVars

-----------------------------------------------------------------------------

\* What a file imports is installed and compiled when the file itself has been
\* expanded, and when the program is compiled so is all that is installed, so
\* that it can be loaded (src/scheme/compiler/expand.scm:433-448).
Compiled(name) == \E place \in DOMAIN cache : files[place].name = name
Available ==
  /\ \A place \in DOMAIN cache \cup (IF Current.expanded THEN {Current.place} ELSE {}) :
       \A name \in ToSet(files[place].imports) \ {Builtin} : Installed(name) /\ Compiled(name)
  /\ phase = "compiled" =>
       \A name \in DOMAIN root \ {Builtin} : Installed(name) => Compiled(name)

\* No file is expanded again that has been compiled, or is being expanded, in
\* whatever order imports are resolved (src/scheme/compiler/expand.scm:446-448).
ExpandedOnce ==
  Expanding =>
    /\ \A i, j \in DOMAIN open : open[i].place = open[j].place => i = j
    /\ \A i \in DOMAIN open : open[i].place \notin DOMAIN cache
=============================================================================

--------------------------- MODULE LibraryProofs ----------------------------
(***************************************************************************)
(* Proofs about LibraryManager: for every set of source files whose        *)
(* imports do not form a cycle, no file is expanded twice, and what a file *)
(* imports is compiled before the file itself, in whatever order imports   *)
(* are resolved.                                                           *)
(***************************************************************************)
EXTENDS LibraryManager, SequenceTheorems, FunctionTheorems, FiniteSetTheorems, TLAPS

-----------------------------------------------------------------------------
(* The inductive invariant.                                                *)

Imports(place) == files[place].imports
Built(name) == Installed(name) /\ (name = Builtin \/ Compiled(name))

IsFrame(frame) ==
  frame = [place |-> frame.place, resolved |-> frame.resolved,
           loading |-> frame.loading, expanded |-> frame.expanded]

Typed ==
  /\ \E world \in ToSet(Worlds) : files = world.files
  /\ phase \in {"expanding", "failed", "compiled"}
  /\ open \in Seq(ToSet(open)) /\ Len(open) > 0
  /\ \A i \in DOMAIN open : IsFrame(open[i]) /\ open[i].place \in DOMAIN files

\* Every call but the innermost waits for an import, whose file is expanded by
\* the next call.
Leads(frame, next) ==
  \E k \in DOMAIN Imports(frame.place) :
    /\ k = frame.loading
    /\ Found(files, Imports(frame.place)[k]) # {}
    /\ next.place = LibraryFile(files, Imports(frame.place)[k])
Chain ==
  \A i \in DOMAIN open : i < Len(open) => ~open[i].expanded /\ Leads(open[i], open[i + 1])

\* Imports count as resolved that are installed and compiled; all of them are
\* when a file has been expanded.
FrameBuilt(frame) ==
  LET imports == Imports(frame.place)
  IN  /\ \A k \in DOMAIN frame.resolved \cap DOMAIN imports : Built(imports[k])
      /\ frame.expanded => DOMAIN imports \subseteq DOMAIN frame.resolved
ResolvedBuilt == \A i \in DOMAIN open : FrameBuilt(open[i])

\* One library may be installed and not compiled: the one that has just been
\* expanded.
InstalledBuilt ==
  \A name \in DOMAIN root : Installed(name) =>
    \/ name = Builtin \/ Compiled(name)
    \/ Current.expanded /\ File.name = name

CacheBuilt ==
  \A place \in DOMAIN cache :
    /\ place \in DOMAIN files
    /\ \A name \in ToSet(Imports(place)) : Built(name)

\* A name that leads to a compiled file is installed, so it is not looked for.
Reached ==
  Expanding =>
    \A place \in DOMAIN cache : \A name \in AllImports(files) :
      (Found(files, name) # {} /\ LibraryFile(files, name) = place) => Installed(name)

OpenNotCompiled == Expanding => \A i \in DOMAIN open : open[i].place \notin DOMAIN cache

\* When the call of the program ends, it has been compiled.
ProgramCompiled == phase = "compiled" => Current.place \in DOMAIN cache

ManagerInv ==
  /\ Typed /\ Chain /\ ResolvedBuilt /\ InstalledBuilt /\ CacheBuilt
  /\ Reached /\ OpenNotCompiled /\ ProgramCompiled

-----------------------------------------------------------------------------
(* Sequences of calls.                                                     *)

LEMMA FrontFacts ==
  ASSUME NEW S, NEW calls \in Seq(S), Len(calls) > 0
  PROVE  /\ Front(calls) \in Seq(S) /\ Len(Front(calls)) = Len(calls) - 1
         /\ \A i \in 1..(Len(calls) - 1) : Front(calls)[i] = calls[i]
<1> DEFINE n == Len(calls) - 1
<1>1. n \in Nat /\ \A i \in 1..n : calls[i] \in S
  OBVIOUS
<1> HIDE DEF n
<1>2. /\ SubSeq(calls, 1, n) \in Seq(S)
      /\ Len(SubSeq(calls, 1, n)) = n
      /\ \A i \in 1..n : SubSeq(calls, 1, n)[i] = calls[i]
  BY <1>1, SubSeqProperties
<1> QED
  BY <1>2 DEF Front, n

\* The innermost call may become another one.
Becomes(new, calls, frame) ==
  /\ Len(new) = Len(calls) /\ DOMAIN new = 1..Len(calls)
  /\ \A i \in 1..Len(calls) : new[i] = IF i = Len(calls) THEN frame ELSE calls[i]

LEMMA CallerFacts ==
  ASSUME NEW S, NEW calls \in Seq(S), Len(calls) > 0, NEW frame
  PROVE  /\ Caller(calls, frame) \in Seq(S \cup {frame})
         /\ Becomes(Caller(calls, frame), calls, frame)
<1>1. PICK front : front = Front(calls)
  OBVIOUS
<1>2. /\ front \in Seq(S \cup {frame}) /\ Len(front) = Len(calls) - 1
      /\ \A i \in 1..(Len(calls) - 1) : front[i] = calls[i]
  BY <1>1, FrontFacts, SeqMonotonic
<1> QED
  BY <1>1, <1>2, AppendProperties DEF Caller, Becomes

LEMMA AppendFacts ==
  ASSUME NEW S, NEW calls \in Seq(S), NEW frame
  PROVE  /\ Append(calls, frame) \in Seq(S \cup {frame})
         /\ Len(Append(calls, frame)) = Len(calls) + 1
         /\ DOMAIN Append(calls, frame) = 1..(Len(calls) + 1)
         /\ \A i \in 1..(Len(calls) + 1) :
              Append(calls, frame)[i] = IF i = Len(calls) + 1 THEN frame ELSE calls[i]
<1>1. calls \in Seq(S \cup {frame})
  BY SeqMonotonic, SMT
<1> QED
  BY <1>1, AppendProperties

\* The innermost call may become another one, which makes a call.
Waits(new, calls, waiting, next) ==
  /\ Len(new) = Len(calls) + 1 /\ DOMAIN new = 1..(Len(calls) + 1)
  /\ new[Len(calls)] = waiting /\ new[Len(calls) + 1] = next
  /\ \A i \in 1..Len(calls) : i < Len(calls) => new[i] = calls[i]

LEMMA CallFacts ==
  ASSUME NEW S, NEW calls \in Seq(S), Len(calls) > 0, NEW waiting, NEW next
  PROVE  /\ Append(Caller(calls, waiting), next) \in Seq(S \cup {waiting} \cup {next})
         /\ Waits(Append(Caller(calls, waiting), next), calls, waiting, next)
<1>1. PICK c, n : c = Caller(calls, waiting) /\ n = Len(calls) /\ n \in Nat /\ n > 0
  OBVIOUS
<1>2. /\ c \in Seq(S \cup {waiting}) /\ Len(c) = n
      /\ \A i \in 1..n : c[i] = IF i = n THEN waiting ELSE calls[i]
  <2>1. c \in Seq(S \cup {waiting}) /\ Becomes(c, calls, waiting)
    BY <1>1, CallerFacts
  <2> QED
    BY <1>1, <2>1 DEF Becomes
<1>3. /\ Append(c, next) \in Seq(S \cup {waiting} \cup {next})
      /\ Len(Append(c, next)) = n + 1 /\ DOMAIN Append(c, next) = 1..(n + 1)
      /\ \A i \in 1..(n + 1) : Append(c, next)[i] = IF i = n + 1 THEN next ELSE c[i]
  BY <1>2, AppendFacts
<1> QED
  BY <1>1, <1>2, <1>3 DEF Waits

LEMMA OwnElements ==
  ASSUME NEW S, NEW s \in Seq(S)
  PROVE  s \in Seq(ToSet(s)) /\ DOMAIN s = 1..Len(s) /\ Len(s) \in Nat
BY DEF ToSet

-----------------------------------------------------------------------------
(* The files that are being expanded.                                      *)

\* The innermost call.
LEMMA CurrentFacts ==
  ASSUME Typed
  PROVE  /\ DOMAIN open = 1..Len(open) /\ Len(open) \in Nat /\ Len(open) \in DOMAIN open
         /\ Current = open[Len(open)] /\ IsFrame(Current) /\ Current.place \in DOMAIN files
         /\ File = files[Current.place] /\ File.imports = Imports(Current.place)
BY DEF Typed, Current, File, Last, Imports

LEMMA WorldFacts ==
  ASSUME Typed
  PROVE  PathsDiffer(files) /\ Acyclic(files)
BY LibraryManagerAssumption DEF Typed

\* As imports do not form a cycle, no file is expanded for the sake of itself.
LEMMA PlacesDiffer ==
  ASSUME Typed, Chain, NEW i \in DOMAIN open, NEW j \in DOMAIN open, i < j
  PROVE  open[i].place # open[j].place
<1> SUFFICES ASSUME open[i].place = open[j].place PROVE FALSE
  OBVIOUS
<1> DEFINE places == {open[k].place : k \in i..(j - 1)}
<1>1. DOMAIN open = 1..Len(open) /\ Len(open) \in Nat
  BY CurrentFacts
<1>2. places \in SUBSET DOMAIN files
  BY <1>1 DEF Typed
<1>3. open[i].place \in places
  BY <1>1
<1>4. PICK place \in places : \A name \in ToSet(files[place].imports) :
                                Found(files, name) # {} => LibraryFile(files, name) \notin places
  <2> HIDE DEF places
  <2> QED
    BY <1>2, <1>3, WorldFacts DEF Acyclic
<1>5. PICK k \in i..(j - 1) : place = open[k].place
  OBVIOUS
<1>6. Leads(open[k], open[k + 1])
  BY <1>1 DEF Chain
<1>7. open[k + 1].place \notin places
  BY <1>4, <1>5, <1>6 DEF Leads, Imports, ToSet
<1>8. k + 1 \in i..(j - 1) \/ k + 1 = j
  BY <1>1
<1> QED
  BY <1>3, <1>7, <1>8

\* The path of a file tells for which name it was found.
LEMMA OneName ==
  ASSUME Typed, NEW name \in AllImports(files), NEW other \in AllImports(files),
         LibraryFile(files, name) = LibraryFile(files, other)
  PROVE  name = other
<1>1. LibraryFile(files, name).path = LibnameToPath(name)
      /\ LibraryFile(files, other).path = LibnameToPath(other)
  BY DEF LibraryFile, Candidate, At
<1> QED
  BY <1>1, WorldFacts DEF PathsDiffer

LEMMA ImportsOfFile ==
  ASSUME NEW place \in DOMAIN files, NEW k \in DOMAIN Imports(place)
  PROVE  Imports(place)[k] \in ToSet(Imports(place)) /\ Imports(place)[k] \in AllImports(files)
BY DEF Imports, ToSet, AllImports

\* A name that is found leads to a file that is there.
LEMMA FileFound ==
  ASSUME NEW name, Found(files, name) # {}
  PROVE  LibraryFile(files, name) \in DOMAIN files
<1> DEFINE found == Found(files, name)
<1>1. DOMAIN Tried = 1..6
  BY DEF Tried
<1>2. found \subseteq 1..6
  BY <1>1 DEF Found
<1>3. \E n \in found : \A o \in found : n <= o
  BY <1>2
<1>4. (CHOOSE n \in found : \A o \in found : n <= o) \in found
  BY <1>3
<1> QED
  BY <1>4 DEF LibraryFile, Found

-----------------------------------------------------------------------------
(* What a step leaves as it is.                                            *)

\* The tree and the compiled files only grow.
Grows ==
  /\ files' = files /\ DOMAIN cache \subseteq DOMAIN cache'
  /\ root' = root \/ \E name, include : root' = LibraryInstall(name, Library(include))

LEMMA StillInstalled ==
  ASSUME Grows, NEW name
  PROVE  Installed(name) => Installed(name)'
<1>1. CASE root' = root
  BY <1>1 DEF Installed, FindLibrary
<1>2. ASSUME NEW other, NEW include, root' = LibraryInstall(other, Library(include)), Installed(name)
      PROVE  Installed(name)'
  <2>1. name \in DOMAIN root
    BY <1>2 DEF Installed, FindLibrary
  <2>2. name \in DOMAIN root'
        /\ root'[name] = IF name = other THEN Library(include) ELSE FindLibrary(name)
    BY <1>2, <2>1 DEF LibraryInstall
  <2>3. Library(include) # NoLibrary
    BY DEF Library, NoLibrary
  <2> QED
    BY <1>2, <2>2, <2>3 DEF Installed, FindLibrary
<1> QED
  BY <1>1, <1>2 DEF Grows

LEMMA StillBuilt ==
  ASSUME Grows, NEW name
  PROVE  /\ Compiled(name) => Compiled(name)'
         /\ Built(name) => Built(name)'
<1>1. Compiled(name) => Compiled(name)'
  BY DEF Compiled, Grows
<1> QED
  BY <1>1, StillInstalled DEF Built

LEMMA StillFrameBuilt ==
  ASSUME Grows, NEW frame, FrameBuilt(frame)
  PROVE  FrameBuilt(frame)'
<1>1. Imports(frame.place)' = Imports(frame.place)
  BY DEF Grows, Imports
<1>2. \A k : Built(Imports(frame.place)[k]) => Built(Imports(frame.place)[k])'
  <2> TAKE k
  <2>1. PICK name : name = Imports(frame.place)[k]
    OBVIOUS
  <2>2. Built(name) => Built(name)'
    BY StillBuilt
  <2> QED
    BY <1>1, <2>1, <2>2 DEF Built, Installed, FindLibrary, Compiled
<1> QED
  BY <1>1, <1>2 DEF FrameBuilt

\* Calls that go on, and one that has been looked at.
LEMMA FramesStay ==
  ASSUME Grows, ResolvedBuilt,
         \A i \in DOMAIN open' :
           \/ \E k \in DOMAIN open : open'[i] = open[k]
           \/ \E frame : open'[i] = frame /\ FrameBuilt(frame)'
  PROVE  ResolvedBuilt'
<1> SUFFICES ASSUME NEW i \in DOMAIN open'
             PROVE  \E frame : open'[i] = frame /\ FrameBuilt(frame)'
  BY DEF ResolvedBuilt, FrameBuilt, Imports, Built, Installed, FindLibrary, Compiled
<1>1. ASSUME NEW k \in DOMAIN open, open'[i] = open[k]
      PROVE  \E frame : open'[i] = frame /\ FrameBuilt(frame)'
  <2>1. PICK frame : frame = open[k]
    OBVIOUS
  <2>2. FrameBuilt(frame)
    BY <2>1 DEF ResolvedBuilt
  <2> QED
    BY <1>1, <2>1, <2>2, StillFrameBuilt
<1> QED
  BY <1>1

\* Calls that have all the fields of one.
LEMMA TypedCalls ==
  ASSUME Typed, files' = files, phase' \in {"expanding", "failed", "compiled"},
         NEW S, open' \in Seq(S), Len(open') > 0,
         \A i \in 1..Len(open') : IsFrame(open'[i]) /\ open'[i].place \in DOMAIN files
  PROVE  Typed'
<1>1. open' \in Seq(ToSet(open')) /\ DOMAIN open' = 1..Len(open')
  BY OwnElements
<1> QED
  BY <1>1 DEF Typed, IsFrame, ToSet

\* What is known about the compiled files when there are no new ones.
LEMMA SameCache ==
  ASSUME Grows, UNCHANGED cache, CacheBuilt, Reached, Expanding' => Expanding
  PROVE  CacheBuilt' /\ Reached'
<1>1. CacheBuilt'
  BY StillBuilt DEF CacheBuilt, Grows, Imports
<1>2. Reached'
  BY StillInstalled DEF Reached, Grows
<1> QED
  BY <1>1, <1>2

\* When something has failed or the program has been compiled, the calls stay.
LEMMA StoppedKeeps ==
  ASSUME ManagerInv, phase' \in {"failed", "compiled"}, UNCHANGED <<root, open>>,
         Grows, CacheBuilt', phase' = "compiled" => Current.place \in DOMAIN cache'
  PROVE  ManagerInv'
<1> USE DEF Grows
<1>1. Typed'
  BY DEF ManagerInv, Typed, IsFrame
<1>2. Chain'
  BY DEF ManagerInv, Chain, Leads, Imports
<1>3. ResolvedBuilt'
  BY FramesStay DEF ManagerInv, ResolvedBuilt
<1>4. InstalledBuilt'
  BY StillBuilt DEF ManagerInv, InstalledBuilt, Installed, FindLibrary, Current, File
<1>5. Reached' /\ OpenNotCompiled'
  BY DEF Reached, OpenNotCompiled, Expanding
<1>6. ProgramCompiled'
  BY DEF ProgramCompiled, Current
<1> QED
  BY <1>1, <1>2, <1>3, <1>4, <1>5, <1>6 DEF ManagerInv

-----------------------------------------------------------------------------
(* Steps that change the innermost call.                                   *)

LEMMA InnermostKeeps ==
  ASSUME ManagerInv, Expanding, Grows, UNCHANGED <<cache, phase>>,
         NEW frame, open' = Caller(open, frame),
         IsFrame(frame), frame.place = Current.place, FrameBuilt(frame)',
         \A name \in DOMAIN root' : Installed(name)' =>
           \/ name = Builtin \/ Compiled(name)
           \/ frame.expanded /\ File.name = name
  PROVE  ManagerInv'
<1> USE DEF Grows
<1>1. Typed /\ Chain /\ ResolvedBuilt /\ CacheBuilt /\ Reached /\ OpenNotCompiled
  BY DEF ManagerInv
<1>2. /\ DOMAIN open = 1..Len(open) /\ Len(open) \in Nat /\ Len(open) \in DOMAIN open
      /\ Current = open[Len(open)] /\ Current.place \in DOMAIN files
      /\ File = files[Current.place]
  BY <1>1, CurrentFacts
<1>3. /\ open' \in Seq(ToSet(open) \cup {frame}) /\ Len(open') = Len(open)
      /\ DOMAIN open' = 1..Len(open)
      /\ \A i \in 1..Len(open) : open'[i] = IF i = Len(open) THEN frame ELSE open[i]
  <2>1. open \in Seq(ToSet(open)) /\ Len(open) > 0
    BY <1>1 DEF Typed
  <2>2. PICK S, calls : S = ToSet(open) /\ calls = open
    OBVIOUS
  <2>3. calls \in Seq(S) /\ Len(calls) > 0
    BY <2>1, <2>2
  <2>4. /\ Caller(calls, frame) \in Seq(S \cup {frame})
        /\ Becomes(Caller(calls, frame), calls, frame)
    BY <2>3, CallerFacts
  <2> QED
    BY <2>2, <2>4 DEF Becomes
<1>4. \A i \in 1..Len(open) : open'[i].place = open[i].place
  BY <1>2, <1>3
<1>5. Typed'
  <2>1. \A i \in 1..Len(open') : IsFrame(open'[i]) /\ open'[i].place \in DOMAIN files
    BY <1>1, <1>2, <1>3, <1>4 DEF Typed
  <2> QED
    BY <1>1, <1>2, <1>3, <2>1, TypedCalls DEF Typed
<1>6. Chain'
  <2>1. ASSUME NEW i \in 1..Len(open), i < Len(open)
        PROVE  ~open'[i].expanded /\ Leads(open'[i], open'[i + 1])
    <3>1. i \in DOMAIN open /\ i + 1 \in 1..Len(open)
      BY <1>2, <2>1
    <3>2. ~open[i].expanded /\ Leads(open[i], open[i + 1])
      BY <1>1, <2>1, <3>1 DEF Chain
    <3>3. open'[i] = open[i] /\ open'[i + 1].place = open[i + 1].place
      <4> HIDE DEF Grows
      <4>1. open'[i + 1].place = open[i + 1].place
        BY <1>4, <3>1
      <4>2. i # Len(open) /\ i \in 1..Len(open)
        BY <2>1
      <4>3. open'[i] = open[i]
        BY <1>3, <4>2
      <4> QED
        BY <4>1, <4>3
    <3> QED
      BY <3>2, <3>3 DEF Leads
  <2> QED
    BY <1>3, <2>1 DEF Chain, Leads, Imports
<1>7. ResolvedBuilt'
  BY <1>1, <1>2, <1>3, FramesStay
<1>8. InstalledBuilt'
  <2>1. Current' = frame /\ File' = File
    BY <1>2, <1>3 DEF Current, File, Last
  <2> QED
    BY <2>1 DEF InstalledBuilt, Compiled
<1>9. CacheBuilt' /\ Reached'
  BY <1>1, SameCache DEF Expanding
<1>10. OpenNotCompiled'
  BY <1>1, <1>2, <1>3, <1>4 DEF OpenNotCompiled, Expanding
<1>11. ProgramCompiled'
  BY DEF ProgramCompiled, Expanding
<1> QED
  BY <1>5, <1>6, <1>7, <1>8, <1>9, <1>10, <1>11 DEF ManagerInv

\* An import that is installed has been compiled, as the innermost call has not
\* been expanded yet.
LEMMA UnresolvedFacts ==
  ASSUME ManagerInv, NEW i \in Unresolved
  PROVE  /\ i \in DOMAIN Imports(Current.place) /\ i \notin DOMAIN Current.resolved
         /\ File.imports = Imports(Current.place) /\ ~Current.expanded
         /\ Installed(Imports(Current.place)[i]) => Built(Imports(Current.place)[i])
<1>1. /\ Len(open) \in DOMAIN open /\ Current = open[Len(open)]
      /\ File.imports = Imports(Current.place)
  BY CurrentFacts DEF ManagerInv
<1>2. i \in DOMAIN Imports(Current.place) /\ i \notin DOMAIN Current.resolved
  BY <1>1 DEF Unresolved
<1>3. ~Current.expanded
  BY <1>1, <1>2 DEF ManagerInv, ResolvedBuilt, FrameBuilt
<1> QED
  BY <1>1, <1>2, <1>3 DEF ManagerInv, InstalledBuilt, Built, Installed, FindLibrary, NoLibrary

LEMMA ResolveFacts ==
  ASSUME NEW frame, IsFrame(frame), NEW i, NEW lib
  PROVE  /\ IsFrame(Resolve(frame, i, lib))
         /\ Resolve(frame, i, lib).place = frame.place
         /\ DOMAIN Resolve(frame, i, lib).resolved = {i} \cup DOMAIN frame.resolved
         /\ Resolve(frame, i, lib).expanded = frame.expanded
<1>1. PICK p, r, l, e : frame = [place |-> p, resolved |-> r, loading |-> l, expanded |-> e]
  BY DEF IsFrame
<1>2. Loads(frame, 0) = [place |-> p, resolved |-> r, loading |-> 0, expanded |-> e]
  BY <1>1 DEF Loads
<1>3. Resolve(frame, i, lib) =
        [place |-> p, resolved |-> Entered(r, i, lib), loading |-> 0, expanded |-> e]
  BY <1>2 DEF Resolve
<1>4. DOMAIN Entered(r, i, lib) = {i} \cup DOMAIN r
  BY DEF Entered
<1> QED
  BY <1>1, <1>3, <1>4 DEF IsFrame

LEMMA ResolveInstalledKeeps ==
  ASSUME ManagerInv, ResolveInstalled
  PROVE  ManagerInv'
<1>1. PICK i \in Unresolved :
        /\ Installed(File.imports[i])
        /\ open' = Caller(open, Resolve(Current, i, FindLibrary(File.imports[i])))
  BY DEF ResolveInstalled
<1>2. PICK frame : frame = Resolve(Current, i, FindLibrary(File.imports[i]))
  OBVIOUS
<1>3. Grows /\ UNCHANGED <<root, cache, phase>>
  BY DEF ResolveInstalled, Grows
<1>4. IsFrame(Current)
  BY CurrentFacts DEF ManagerInv
<1>5. /\ IsFrame(frame) /\ frame.place = Current.place /\ ~frame.expanded
      /\ DOMAIN frame.resolved = {i} \cup DOMAIN Current.resolved
  BY <1>2, <1>4, ResolveFacts, UnresolvedFacts
<1>6. FrameBuilt(frame)
  <2>1. FrameBuilt(Current)
    BY CurrentFacts DEF ManagerInv, ResolvedBuilt
  <2>2. Built(Imports(Current.place)[i])
    BY <1>1, UnresolvedFacts
  <2> QED
    BY <1>5, <2>1, <2>2 DEF FrameBuilt
<1>7. FrameBuilt(frame)'
  BY <1>3, <1>6, StillFrameBuilt
<1>8. \A name \in DOMAIN root' : Installed(name)' => name = Builtin \/ Compiled(name)
  BY <1>3, UnresolvedFacts DEF ManagerInv, InstalledBuilt, Installed, FindLibrary
<1> QED
  BY <1>1, <1>2, <1>3, <1>5, <1>7, <1>8, InnermostKeeps DEF ResolveInstalled

LEMMA ExpandFacts ==
  ASSUME NEW frame, IsFrame(frame)
  PROVE  LET new == [frame EXCEPT !.expanded = TRUE]
         IN  /\ IsFrame(new) /\ new.place = frame.place
             /\ new.resolved = frame.resolved /\ new.expanded = TRUE
<1>1. PICK p, r, l, e : frame = [place |-> p, resolved |-> r, loading |-> l, expanded |-> e]
  BY DEF IsFrame
<1>2. [frame EXCEPT !.expanded = TRUE] =
        [place |-> p, resolved |-> r, loading |-> l, expanded |-> TRUE]
  <2>1. PICK t : t = TRUE
    OBVIOUS
  <2>2. [frame EXCEPT !.expanded = t] = [place |-> p, resolved |-> r, loading |-> l, expanded |-> t]
    BY <1>1
  <2> QED
    BY <2>1, <2>2, Zenon
<1> QED
  BY <1>1, <1>2 DEF IsFrame

\* A file is expanded when all that it imports has been resolved.
LEMMA ExpandedKeeps ==
  ASSUME ManagerInv, Expanding, Grows, UNCHANGED <<cache, phase>>, Resolved, ~Current.expanded,
         open' = Caller(open, [Current EXCEPT !.expanded = TRUE]),
         \A name \in DOMAIN root' : Installed(name)' => Installed(name) \/ File.name = name
  PROVE  ManagerInv'
<1>1. PICK frame : frame = [Current EXCEPT !.expanded = TRUE]
  OBVIOUS
<1>2. IsFrame(Current) /\ FrameBuilt(Current) /\ File.imports = Imports(Current.place)
  BY CurrentFacts DEF ManagerInv, ResolvedBuilt
<1>3. /\ IsFrame(frame) /\ frame.place = Current.place
      /\ frame.resolved = Current.resolved /\ frame.expanded = TRUE
  BY <1>1, <1>2, ExpandFacts
<1>4. FrameBuilt(frame)
  BY <1>2, <1>3 DEF FrameBuilt, Resolved, Unresolved
<1>5. FrameBuilt(frame)'
  BY <1>4, StillFrameBuilt
<1>6. \A name \in DOMAIN root' : Installed(name)' =>
        name = Builtin \/ Compiled(name) \/ (frame.expanded /\ File.name = name)
  BY <1>3 DEF ManagerInv, InstalledBuilt, Installed, FindLibrary
<1> QED
  BY <1>1, <1>3, <1>5, <1>6, InnermostKeeps

LEMMA LibraryExpandedKeeps ==
  ASSUME ManagerInv, LibraryExpanded
  PROVE  ManagerInv'
<1>1. UNCHANGED <<files, cache>> /\ Expanding /\ Resolved /\ ~Current.expanded
  BY DEF LibraryExpanded
<1>2. CASE Failed /\ UNCHANGED root
  <2>1. Grows
    BY <1>1, <1>2 DEF Grows
  <2>2. CacheBuilt'
    BY <1>1, <1>2, <2>1, SameCache DEF ManagerInv, Failed, Expanding
  <2> QED
    BY <1>2, <2>1, <2>2, StoppedKeeps DEF Failed
<1>3. CASE /\ root' = LibraryInstall(File.name, Library(MakeInclude(File.name, File.exports)))
           /\ open' = Caller(open, [Current EXCEPT !.expanded = TRUE])
           /\ UNCHANGED phase
  <2>1. Grows
    BY <1>1, <1>3 DEF Grows
  <2>2. \A name \in DOMAIN root' : Installed(name)' => Installed(name) \/ File.name = name
    BY <1>3 DEF LibraryInstall, Installed, FindLibrary
  <2> QED
    BY <1>1, <1>3, <2>1, <2>2, ExpandedKeeps
<1> QED
  BY <1>2, <1>3 DEF LibraryExpanded

LEMMA ProgramExpandedKeeps ==
  ASSUME ManagerInv, ProgramExpanded
  PROVE  ManagerInv'
<1>1. Grows /\ UNCHANGED <<root, cache, phase>>
  BY DEF ProgramExpanded, Grows
<1>2. \A name \in DOMAIN root' : Installed(name)' => Installed(name) \/ File.name = name
  BY <1>1 DEF Installed, FindLibrary
<1> QED
  BY <1>1, <1>2, ExpandedKeeps DEF ProgramExpanded

-----------------------------------------------------------------------------
(* Steps that begin and end a call.                                        *)

LEMMA LoadsFacts ==
  ASSUME NEW frame, IsFrame(frame), NEW i
  PROVE  /\ IsFrame(Loads(frame, i)) /\ Loads(frame, i).place = frame.place
         /\ Loads(frame, i).resolved = frame.resolved
         /\ Loads(frame, i).expanded = frame.expanded /\ Loads(frame, i).loading = i
<1>1. PICK p, r, l, e : frame = [place |-> p, resolved |-> r, loading |-> l, expanded |-> e]
  BY DEF IsFrame
<1>2. Loads(frame, i) = [place |-> p, resolved |-> r, loading |-> i, expanded |-> e]
  BY <1>1 DEF Loads
<1> QED
  BY <1>1, <1>2 DEF IsFrame

\* A call of expand-file begins with nothing resolved.
LEMMA BeginsBuilt ==
  ASSUME NEW place
  PROVE  LET frame == Call1(place)
         IN  IsFrame(frame) /\ frame.place = place /\ ~frame.expanded /\ FrameBuilt(frame)
<1>1. DOMAIN Call1(place).resolved = {} /\ Call1(place).place = place /\ ~Call1(place).expanded
  BY DEF Call1
<1> QED
  BY <1>1 DEF IsFrame, FrameBuilt, Call1

LEMMA LoadFileKeeps ==
  ASSUME ManagerInv, Expanding, NEW i \in Unresolved, ~Installed(File.imports[i]),
         LoadFile(i), Found(files, File.imports[i]) # {}
  PROVE  ManagerInv'
<1>0. PICK name :
        /\ name = File.imports[i] /\ ~Installed(name) /\ Found(files, name) # {}
        /\ UNCHANGED <<files, root, cache, phase>>
        /\ open' = Append(Caller(open, Loads(Current, i)), Call1(LibraryFile(files, name)))
  BY DEF LoadFile
<1>1. Typed /\ Chain /\ ResolvedBuilt /\ CacheBuilt /\ Reached /\ OpenNotCompiled
  BY DEF ManagerInv
<1>2. /\ DOMAIN open = 1..Len(open) /\ Len(open) \in Nat /\ Len(open) \in DOMAIN open
      /\ Current = open[Len(open)] /\ IsFrame(Current) /\ Current.place \in DOMAIN files
  BY <1>1, CurrentFacts
<1>3. /\ i \in DOMAIN Imports(Current.place) /\ name = Imports(Current.place)[i]
      /\ ~Current.expanded
  BY <1>0, UnresolvedFacts
<1>4. PICK calls, waiting, next, n :
        /\ calls = open /\ waiting = Loads(Current, i)
        /\ next = Call1(LibraryFile(files, name)) /\ n = Len(open)
  OBVIOUS
<1>5. /\ IsFrame(waiting) /\ waiting.place = Current.place /\ ~waiting.expanded
      /\ waiting.resolved = Current.resolved /\ waiting.loading = i
  BY <1>2, <1>3, <1>4, LoadsFacts
<1>6. IsFrame(next) /\ next.place = LibraryFile(files, name) /\ ~next.expanded /\ FrameBuilt(next)
  BY <1>4, BeginsBuilt
<1>7. next.place \in DOMAIN files
  BY <1>0, <1>6, FileFound
<1>8. PICK S : calls \in Seq(S) /\ n = Len(calls) /\ n > 0 /\ n \in Nat
  BY <1>1, <1>4 DEF Typed
<1>9. PICK new : new = Append(Caller(calls, waiting), next) /\ open' = new
  BY <1>0, <1>4
<1>10. /\ open' \in Seq(S \cup {waiting} \cup {next}) /\ Len(open') = n + 1
       /\ DOMAIN open' = 1..(n + 1)
       /\ open'[n] = waiting /\ open'[n + 1] = next
       /\ \A j \in 1..n : j < n => open'[j] = calls[j]
  <2>1. calls \in Seq(S) /\ Len(calls) > 0
    BY <1>8
  <2>2. new \in Seq(S \cup {waiting} \cup {next}) /\ Waits(new, calls, waiting, next)
    BY <1>9, <2>1, CallFacts
  <2> QED
    BY <1>8, <1>9, <2>2 DEF Waits
<1>11. \A j \in 1..n : j < n => open'[j] = open[j]
  BY <1>4, <1>10
<1>12. \A j \in 1..n : open'[j].place = open[j].place
  <2>1. open'[n].place = open[n].place
    BY <1>2, <1>4, <1>5, <1>10
  <2> QED
    BY <1>8, <1>11, <2>1
<1>13. Typed'
  <2>1. \A j \in 1..Len(open') : IsFrame(open'[j]) /\ open'[j].place \in DOMAIN files
    <3>1. \A j \in 1..n : IsFrame(open[j]) /\ open[j].place \in DOMAIN files
      BY <1>1, <1>2, <1>4 DEF Typed
    <3>2. IsFrame(open'[n]) /\ IsFrame(open'[n + 1]) /\ open'[n + 1].place \in DOMAIN files
      BY <1>5, <1>6, <1>7, <1>10
    <3>3. \A j \in 1..n : IsFrame(open'[j]) /\ open'[j].place \in DOMAIN files
      <4> TAKE j \in 1..n
      <4>1. CASE j = n
        BY <1>12, <3>1, <3>2, <4>1
      <4>2. CASE j < n
        BY <1>11, <3>1, <4>2
      <4> QED
        BY <1>8, <4>1, <4>2
    <3> QED
      BY <1>8, <1>10, <3>2, <3>3
  <2> QED
    <3>1. files' = files /\ phase' \in {"expanding", "failed", "compiled"} /\ Len(open') > 0
      BY <1>0, <1>1, <1>8, <1>10 DEF Typed
    <3>2. PICK T : open' \in Seq(T)
      BY <1>10
    <3> QED
      BY <1>1, <2>1, <3>1, <3>2, TypedCalls
<1>14. Chain'
  <2>1. ASSUME NEW j \in 1..(n + 1), j < n
        PROVE  ~open'[j].expanded /\ Leads(open'[j], open'[j + 1])
    <3>1. j \in DOMAIN open /\ j < Len(open) /\ j + 1 \in 1..n
      BY <1>2, <1>4, <1>8, <2>1
    <3>2. ~open[j].expanded /\ Leads(open[j], open[j + 1])
      BY <1>1, <3>1 DEF Chain
    <3>3. open'[j] = open[j] /\ open'[j + 1].place = open[j + 1].place
      BY <1>8, <1>11, <1>12, <2>1, <3>1
    <3> QED
      BY <3>2, <3>3 DEF Leads
  <2>2. ~open'[n].expanded /\ Leads(open'[n], open'[n + 1])
    <3>1. Leads(waiting, next)
      BY <1>0, <1>3, <1>5, <1>6 DEF Leads
    <3> QED
      BY <1>5, <1>10, <3>1
  <2>3. \A j \in DOMAIN open' : j < Len(open') => ~open'[j].expanded /\ Leads(open'[j], open'[j + 1])
    BY <1>8, <1>10, <2>1, <2>2
  <2> QED
    BY <1>0, <2>3 DEF Chain, Leads, Imports
<1>15. Grows
  BY <1>0 DEF Grows
<1>16. ResolvedBuilt'
  <2>1. FrameBuilt(waiting)
    BY <1>1, <1>2, <1>5 DEF ResolvedBuilt, FrameBuilt
  <2>2. FrameBuilt(waiting)' /\ FrameBuilt(next)'
    BY <1>6, <1>15, <2>1, StillFrameBuilt
  <2> QED
    BY <1>1, <1>2, <1>4, <1>8, <1>10, <1>11, <1>15, <2>2, FramesStay
<1>17. InstalledBuilt'
  BY <1>0, <1>3 DEF ManagerInv, InstalledBuilt, Installed, FindLibrary, Compiled
<1>18. CacheBuilt' /\ Reached'
  BY <1>0, <1>1, <1>15, SameCache DEF Expanding
<1>19. OpenNotCompiled'
  <2>1. name \in AllImports(files)
    BY <1>2, <1>3, ImportsOfFile
  <2>2. next.place \notin DOMAIN cache
    BY <1>0, <1>1, <1>6, <2>1 DEF Reached
  <2>3. \A j \in 1..n : open'[j].place \notin DOMAIN cache
    BY <1>1, <1>2, <1>4, <1>12 DEF OpenNotCompiled
  <2> QED
    BY <1>0, <1>8, <1>10, <1>11, <2>2, <2>3 DEF OpenNotCompiled
<1>20. ProgramCompiled'
  BY <1>0 DEF ProgramCompiled, Expanding
<1> QED
  BY <1>13, <1>14, <1>16, <1>17, <1>18, <1>19, <1>20 DEF ManagerInv

LEMMA LoadSourceKeeps ==
  ASSUME ManagerInv, LoadSource
  PROVE  ManagerInv'
<1>1. PICK i \in Unresolved : ~Installed(File.imports[i]) /\ LoadFile(i)
  BY DEF LoadSource
<1>2. PICK name : name = File.imports[i]
  OBVIOUS
<1>3. UNCHANGED <<files, root, cache>> /\ Grows
  BY <1>1 DEF LoadFile, Grows
<1>4. CASE Failed
  <2>1. CacheBuilt'
    BY <1>3, <1>4, SameCache DEF ManagerInv, Failed, Expanding
  <2> QED
    BY <1>3, <1>4, <2>1, StoppedKeeps DEF Failed
<1>5. CASE Found(files, name) # {}
  BY <1>1, <1>2, <1>5, LoadFileKeeps DEF LoadSource
<1> QED
  BY <1>1, <1>2, <1>4, <1>5 DEF LoadFile

\* The import whose file the innermost call has compiled.
LEMMA WaitingFacts ==
  ASSUME Typed, Chain, Len(open) # 1, NEW n, n = Len(open) - 1
  PROVE  /\ n \in 1..Len(open) /\ n \in DOMAIN open /\ n > 0 /\ n < Len(open)
         /\ ~open[n].expanded
         /\ open[n].place \in DOMAIN files /\ IsFrame(open[n])
         /\ open[n].loading \in DOMAIN Imports(open[n].place)
         /\ LET name == Imports(open[n].place)[open[n].loading]
            IN  /\ name \in AllImports(files) /\ Found(files, name) # {}
                /\ Current.place = LibraryFile(files, name)
<1>1. n \in DOMAIN open /\ n \in 1..Len(open) /\ n > 0 /\ n < Len(open) /\ n + 1 = Len(open)
  BY CurrentFacts DEF Typed
<1>2. ~open[n].expanded /\ Leads(open[n], open[n + 1])
  BY <1>1 DEF Chain
<1>3. open[n].place \in DOMAIN files /\ IsFrame(open[n])
  BY <1>1 DEF Typed
<1>4. Current = open[n + 1]
  BY <1>1, CurrentFacts
<1> QED
  BY <1>1, <1>2, <1>3, <1>4, ImportsOfFile DEF Leads

\* A call of expand-file ends: its file is compiled, and what called for it goes
\* on with an import that is installed.
LEMMA ReturnKeeps ==
  ASSUME ManagerInv, Expanding, Current.expanded, UNCHANGED <<files, root, phase>>,
         NEW code, cache' = Entered(cache, Current.place, code), CacheBuilt',
         Len(open) # 1, Return, ~Failed
  PROVE  ManagerInv'
<1>1. Typed /\ Chain /\ ResolvedBuilt /\ InstalledBuilt /\ Reached /\ OpenNotCompiled
  BY DEF ManagerInv
<1>2. /\ DOMAIN open = 1..Len(open) /\ Len(open) \in Nat /\ Len(open) \in DOMAIN open
      /\ Current = open[Len(open)] /\ Current.place \in DOMAIN files
      /\ File = files[Current.place]
  BY <1>1, CurrentFacts
<1>3. PICK n : n = Len(open) - 1
  OBVIOUS
<1>4. PICK caller, name, lib, frame :
        /\ caller = open[n] /\ name = Imports(caller.place)[caller.loading]
        /\ lib = FindLibrary(name) /\ frame = Resolve(caller, caller.loading, lib)
  OBVIOUS
<1>5. /\ n \in 1..Len(open) /\ n \in DOMAIN open /\ n > 0 /\ n < Len(open) /\ n + 1 = Len(open)
      /\ ~caller.expanded /\ IsFrame(caller)
      /\ caller.place \in DOMAIN files /\ caller.loading \in DOMAIN Imports(caller.place)
      /\ name \in AllImports(files) /\ Found(files, name) # {}
      /\ Current.place = LibraryFile(files, name)
  BY <1>1, <1>2, <1>3, <1>4, WaitingFacts
<1>6. Installed(name) /\ open' = Caller(Front(open), frame)
  BY <1>3, <1>4 DEF Return, Imports
<1>7. /\ IsFrame(frame) /\ frame.place = caller.place /\ ~frame.expanded
      /\ DOMAIN frame.resolved = {caller.loading} \cup DOMAIN caller.resolved
  BY <1>4, <1>5, ResolveFacts
<1>8. PICK new, S : new = open' /\ new \in Seq(S) /\ Len(new) = n /\ DOMAIN new = 1..n
                    /\ new[n] = frame /\ \A i \in 1..n : i < n => new[i] = open[i]
  <2>1. PICK calls : calls = open /\ calls \in Seq(ToSet(open)) /\ Len(calls) > 0
    BY <1>1 DEF Typed
  <2>2. PICK front : front = Front(calls)
    OBVIOUS
  <2>3. /\ front \in Seq(ToSet(open)) /\ Len(front) = n
        /\ \A i \in 1..n : front[i] = calls[i]
    BY <1>3, <2>1, <2>2, FrontFacts
  <2>4. /\ Caller(front, frame) \in Seq(ToSet(open) \cup {frame})
        /\ Becomes(Caller(front, frame), front, frame)
    BY <1>5, <2>3, CallerFacts
  <2> QED
    BY <1>5, <1>6, <2>1, <2>2, <2>3, <2>4 DEF Becomes
<1>9. \A i \in 1..n : new[i].place = open[i].place
  BY <1>4, <1>7, <1>8, <1>5
<1>10. Grows
  BY DEF Grows, Entered
<1>11. \A other : (other = Builtin \/ Compiled(other) \/ File.name = other) =>
                    (other = Builtin \/ Compiled(other)')
  BY <1>2, <1>10, StillBuilt DEF Compiled, Entered
<1>12. \A other \in DOMAIN root : Installed(other) => other = Builtin \/ Compiled(other)'
  BY <1>1, <1>11 DEF InstalledBuilt
<1>13. Typed'
  <2>1. \A i \in 1..n : IsFrame(new[i]) /\ new[i].place \in DOMAIN files
    BY <1>1, <1>2, <1>5, <1>7, <1>8 DEF Typed
  <2>2. phase' \in {"expanding", "failed", "compiled"} /\ files' = files
    BY <1>1 DEF Typed
  <2> QED
    BY <1>1, <1>5, <1>8, <2>1, <2>2, TypedCalls
<1>14. Chain'
  <2>1. ASSUME NEW i \in 1..n, i < n
        PROVE  ~new[i].expanded /\ Leads(new[i], new[i + 1])
    <3>1. i \in DOMAIN open /\ i < Len(open) /\ i + 1 \in 1..n
      BY <1>2, <1>5, <2>1
    <3>2. ~open[i].expanded /\ Leads(open[i], open[i + 1])
      BY <1>1, <3>1 DEF Chain
    <3>3. new[i] = open[i] /\ new[i + 1].place = open[i + 1].place
      BY <1>8, <1>9, <2>1, <3>1
    <3> QED
      BY <3>2, <3>3 DEF Leads
  <2> QED
    BY <1>8, <2>1 DEF Chain, Leads, Imports
<1>15. ResolvedBuilt'
  <2>1. FrameBuilt(caller)'
    BY <1>1, <1>4, <1>5, <1>10, StillFrameBuilt DEF ResolvedBuilt
  <2>2. Built(name)'
    BY <1>6, <1>10, <1>12, StillInstalled DEF Built, Installed, FindLibrary, NoLibrary
  <2>3. FrameBuilt(frame)'
    <3> DEFINE BuiltNext(other) == Built(other)'
    <3>1. PICK imports : /\ imports = Imports(caller.place)
                         /\ imports = Imports(caller.place)' /\ imports = Imports(frame.place)'
      BY <1>7 DEF Imports
    <3>2. \A k \in DOMAIN caller.resolved \cap DOMAIN imports : BuiltNext(imports[k])
      BY <2>1, <3>1 DEF FrameBuilt, Built, Installed, FindLibrary, Compiled
    <3>3. BuiltNext(name)
      BY <2>2
    <3> HIDE DEF BuiltNext
    <3>4. \A k \in DOMAIN frame.resolved \cap DOMAIN imports : BuiltNext(imports[k])
      BY <1>4, <1>7, <3>1, <3>2, <3>3
    <3> QED
      BY <1>7, <3>1, <3>4 DEF BuiltNext, FrameBuilt, Built, Installed, FindLibrary, Compiled
  <2> QED
    BY <1>1, <1>2, <1>5, <1>8, <1>10, <2>3, FramesStay
<1>16. InstalledBuilt'
  BY <1>12 DEF InstalledBuilt, Installed, FindLibrary
<1>17. Reached'
  <2>1. ASSUME NEW place \in DOMAIN cache', NEW other \in AllImports(files),
               Found(files, other) # {}, LibraryFile(files, other) = place
        PROVE  Installed(other)
    <3>1. CASE place \in DOMAIN cache
      BY <1>1, <2>1, <3>1 DEF Reached
    <3>2. CASE place = Current.place
      BY <1>1, <1>5, <1>6, <2>1, <3>2, OneName
    <3> QED
      BY <3>1, <3>2 DEF Entered
  <2> QED
    BY <2>1 DEF Reached, Installed, FindLibrary
<1>18. OpenNotCompiled'
  <2>1. ASSUME NEW i \in 1..n
        PROVE  new[i].place \notin DOMAIN cache'
    <3>1. i \in DOMAIN open /\ i < Len(open)
      BY <1>2, <1>5
    <3>2. open[i].place \notin DOMAIN cache
      BY <1>1, <3>1 DEF OpenNotCompiled
    <3>3. open[i].place # Current.place
      BY <1>1, <1>2, <3>1, PlacesDiffer
    <3> QED
      BY <1>9, <3>2, <3>3 DEF Entered
  <2> QED
    BY <1>8, <2>1 DEF OpenNotCompiled
<1>19. ProgramCompiled'
  BY DEF ProgramCompiled, Expanding
<1> QED
  BY <1>13, <1>14, <1>15, <1>16, <1>17, <1>18, <1>19 DEF ManagerInv

LEMMA FileCompiledKeeps ==
  ASSUME ManagerInv, FileCompiled
  PROVE  ManagerInv'
<1>1. PICK result : \/ Failed /\ UNCHANGED cache
                    \/ cache' = Entered(cache, Current.place, result.code) /\ Return
  BY DEF FileCompiled
<1>2. Expanding /\ Current.expanded /\ UNCHANGED <<files, root>>
  BY DEF FileCompiled
<1>3. Grows
  BY <1>1, <1>2 DEF Grows, Entered
<1>4. CacheBuilt'
  <2>1. /\ Len(open) \in DOMAIN open /\ Current = open[Len(open)]
        /\ Current.place \in DOMAIN files
    BY CurrentFacts DEF ManagerInv
  <2>2. \A name \in ToSet(Imports(Current.place)) : Built(name)
    BY <1>2, <2>1 DEF ManagerInv, ResolvedBuilt, FrameBuilt, ToSet
  <2>3. \A place \in DOMAIN cache' :
          place \in DOMAIN files /\ \A name \in ToSet(Imports(place)) : Built(name)
    BY <1>1, <2>1, <2>2 DEF ManagerInv, CacheBuilt, Entered
  <2>4. \A name : Built(name) => Built(name)'
    BY <1>3, StillBuilt
  <2> QED
    BY <1>2, <2>3, <2>4 DEF CacheBuilt, Imports
<1>5. CASE phase' \in {"failed", "compiled"} /\ UNCHANGED open
  <2>1. phase' = "compiled" => Current.place \in DOMAIN cache'
    BY <1>1 DEF Failed, Entered
  <2> QED
    BY <1>2, <1>3, <1>4, <1>5, <2>1, StoppedKeeps
<1>6. CASE Len(open) # 1 /\ UNCHANGED phase /\ Return /\ ~Failed
  BY <1>1, <1>2, <1>4, <1>6, ReturnKeeps
<1>7. (phase' \in {"failed", "compiled"} /\ UNCHANGED open)
      \/ (Len(open) # 1 /\ UNCHANGED phase /\ Return /\ ~Failed)
  BY <1>1, <1>2 DEF Return, Failed, Expanding
<1> QED
  BY <1>5, <1>6, <1>7

-----------------------------------------------------------------------------
(* The specification.                                                      *)

LEMMA InitInv ==
  ASSUME ManagerInit
  PROVE  ManagerInv
<1>1. PICK world \in ToSet(Worlds) :
        /\ files = world.files /\ open = <<Call1(world.main)>> /\ world.main \in DOMAIN files
        /\ cache = <<>> /\ phase = "expanding"
        /\ root = Entered(Entered(<<>>, <<>>, NoLibrary), Builtin, Library(<<>>))
  BY LibraryManagerAssumption DEF ManagerInit
<1>2. PICK frame : /\ frame = Call1(world.main) /\ IsFrame(frame) /\ FrameBuilt(frame)
                   /\ frame.place = world.main
  BY BeginsBuilt
<1>3. /\ open = <<frame>> /\ open \in Seq({frame}) /\ Len(open) = 1
      /\ DOMAIN open = {1} /\ open[1] = frame
  BY <1>1, <1>2
<1>4. Typed
  <2>1. ToSet(open) = {frame}
    BY <1>3 DEF ToSet
  <2> QED
    BY <1>1, <1>2, <1>3, <2>1 DEF Typed
<1>5. Chain
  BY <1>3 DEF Chain
<1>6. ResolvedBuilt
  BY <1>2, <1>3 DEF ResolvedBuilt
<1>7. InstalledBuilt
  BY <1>1 DEF InstalledBuilt, Installed, FindLibrary, Entered
<1>8. CacheBuilt /\ Reached /\ OpenNotCompiled /\ ProgramCompiled
  BY <1>1 DEF CacheBuilt, Reached, OpenNotCompiled, ProgramCompiled
<1> QED
  BY <1>4, <1>5, <1>6, <1>7, <1>8 DEF ManagerInv

LEMMA StepKeeps ==
  ASSUME ManagerInv, [ManagerNext]_managerVars
  PROVE  ManagerInv'
<1>1. CASE UNCHANGED managerVars
  <2>1. files' = files /\ root' = root /\ open' = open /\ cache' = cache /\ phase' = phase
    BY <1>1 DEF managerVars
  <2> QED
    BY <2>1 DEF ManagerInv, Typed, IsFrame, Chain, Leads, ResolvedBuilt, FrameBuilt,
                InstalledBuilt, CacheBuilt, Reached, OpenNotCompiled, ProgramCompiled, Imports, Built, Compiled,
                Installed, FindLibrary, Current, File, Expanding
<1>2. CASE ManagerNext
  BY <1>2, ResolveInstalledKeeps, LoadSourceKeeps, LibraryExpandedKeeps, ProgramExpandedKeeps,
     FileCompiledKeeps DEF ManagerNext
<1> QED
  BY <1>1, <1>2

THEOREM Invariance == ManagerSpec => []ManagerInv
BY InitInv, StepKeeps, PTL DEF ManagerSpec

\* What a file imports is compiled before the file is expanded, and with the
\* program everything that has been installed
\* (src/scheme/compiler/expand.scm:433-448).
THEOREM AvailableHolds == ManagerSpec => []Available
<1>1. ManagerInv => Available
  <2> SUFFICES ASSUME ManagerInv PROVE Available
    OBVIOUS
  <2>1. \A place \in DOMAIN cache : \A name \in ToSet(files[place].imports) : Built(name)
    BY DEF ManagerInv, CacheBuilt, Imports
  <2>2. ASSUME Current.expanded
        PROVE  \A name \in ToSet(files[Current.place].imports) : Built(name)
    BY <2>2, CurrentFacts DEF ManagerInv, ResolvedBuilt, FrameBuilt, ToSet, Imports
  <2>3. ASSUME phase = "compiled", NEW name \in DOMAIN root \ {Builtin}, Installed(name)
        PROVE  Compiled(name)
    <3>1. File.name = name => Compiled(name)
      BY <2>3, CurrentFacts DEF ManagerInv, ProgramCompiled, Compiled
    <3> QED
      BY <2>3, <3>1 DEF ManagerInv, InstalledBuilt
  <2> QED
    BY <2>1, <2>2, <2>3 DEF Available, Built
<1> QED
  BY <1>1, Invariance, PTL

\* No file is expanded twice, in whatever order imports are resolved
\* (src/scheme/compiler/expand.scm:446-448).
THEOREM ExpandedOnceHolds == ManagerSpec => []ExpandedOnce
<1>1. ManagerInv => ExpandedOnce
  <2> SUFFICES ASSUME ManagerInv, Expanding PROVE ExpandedOnce
    BY DEF ExpandedOnce
  <2>1. \A i, j \in DOMAIN open : i < j => open[i].place # open[j].place
    BY PlacesDiffer DEF ManagerInv
  <2>2. \A i, j \in DOMAIN open : open[i].place = open[j].place => i = j
    BY <2>1, CurrentFacts DEF ManagerInv
  <2> QED
    BY <2>2 DEF ManagerInv, OpenNotCompiled, ExpandedOnce
<1> QED
  BY <1>1, Invariance, PTL

\* Calls of expand-file are nested no deeper than there are files, so a bound
\* MaxOpen that is at least their number rules nothing out
\* (src/scheme/compiler/expand.scm:433-448).
CallsBounded == Len(open) <= Cardinality(DOMAIN files)
THEOREM CallsBoundedHolds == ManagerSpec => []CallsBounded
<1>1. ManagerInv => CallsBounded
  <2> SUFFICES ASSUME ManagerInv PROVE Len(open) <= Cardinality(DOMAIN files)
    BY DEF CallsBounded
  <2>1. PICK n, S, places : /\ n = Len(open) /\ n \in Nat /\ S = DOMAIN files /\ IsFiniteSet(S)
                            /\ places = [i \in 1..n |-> open[i].place]
    BY CurrentFacts, LibraryManagerAssumption DEF ManagerInv, Typed
  <2>2. places \in [1..n -> S]
    BY <2>1, CurrentFacts DEF ManagerInv, Typed
  <2>3. \A i, j \in 1..n : i < j => places[i] # places[j]
    BY <2>1, CurrentFacts, PlacesDiffer DEF ManagerInv
  <2>4. \A i, j \in 1..n : places[i] = places[j] => i = j
    BY <2>1, <2>3
  <2>5. places \in Injection(1..n, S)
    BY <2>2, <2>4, Fun_IsInj
  <2>6. IsFiniteSet(1..n) /\ Cardinality(1..n) = n
    <3>1. n \in Int /\ 1 \in Int
      BY <2>1
    <3>2. IsFiniteSet(1..n) /\ Cardinality(1..n) = IF 1 > n THEN 0 ELSE n - 1 + 1
      BY <3>1, FS_Interval
    <3> QED
      BY <2>1, <3>2
  <2>7. Cardinality(1..n) <= Cardinality(S)
    BY <2>1, <2>5, FS_Injection
  <2> QED
    BY <2>1, <2>6, <2>7
<1> QED
  BY <1>1, Invariance, PTL
=============================================================================

# lgears, specified

TLA+ models of lgears, a Scheme system that consists of a bytecode virtual
machine in C (`src/vm`) and of a compiler and libraries in Scheme
(`src/scheme`).  TLC checks the models on small instances.  TLAPS proves, for all
instances, the safety properties of the collector, of its spaces, of the hash table and
of the library manager, and of the machine, on any bytecode that is in order, that
its stack, frames and pointers are.

1 The system; 2 The collector; 3 The compiler and the virtual machine; 4 Macros and
the core libraries; 5 Libraries; 6 The hash table; 7 Findings; 8 Not modelled, and
the plan.

The repository has no tests, and its README says only where the project was to
go.  The code, with its comments, is the reference.

## 1. The system

A source file goes through

    read-source -> expand -> optimize-source -> cps-convert -> start-compile -> assemble

and the resulting `.o` file is loaded by `module_load` and run by `eval_thread`,
one thread, to completion.  There is no concurrency of threads, no persistence
except for compiled files, and no time-out.  What is hard here is of another
kind: a collector that moves objects under the feet of everything else, a
compiler whose phases agree on unwritten conventions, and a calling convention
without returns.

| Component | State | Operations | Interacts with | What makes it correct |
|---|---|---|---|---|
| Collector, `heap.c` | four spaces, the flags `full_gc` and `old_map`, the remembered set; in each block forward pointer, generation, remembered bit | `heap_alloc`, `heap_require`, `heap_gc` (roots, old space, references, remembered, compaction) | roots through `thread_get_roots`, objects through `type->visit`, `thread_after_gc` at the end | reachable objects are kept, once, unchanged; no garbage is kept; ends only when memory is really out |
| VM thread, `vm.c` | operand stack, environment, locals pointer, bindmap, current function and closure, handlers | 30 instructions, `enter_interp`, `dispatch_func`, `RAISE`, library loading | allocates in the heap; calls natives through the trampoline | runs what the source means whenever a collection comes; the stack stays bounded; environments are those of the text |
| Natives, `primitives.c`, `strings.c`, `struct.c`, `bytevector.c` | none, apart from the thread's `local_roots` | some forty functions | stack, heap | hold no pointer across an allocation that the collector does not see |
| Hash table, `hash.c` | array of chains | lookup, insert, resize | globals, symbols, libraries, `old_map` | is a map |
| Module loader, `module.c`, and assembler, `fasl.scm` | constants and functions of a module | read, write | VM, compiler | reading gives what was written |
| Constant allocator, types, `const_allocator.c`, `types.c` | list of blocks, table of types | allocate, register | module loader, heap | a constant never moves |
| Expander, `expand.scm`, `syntax-core.scm`, `syntax-pattern.scm` | environments, marks and substitutions, library exports | `expand`, `syntax-case`, imports | library manager | hygiene: every variable has a name of its own |
| Library manager, `library-manager.scm` | tree of installed libraries | search, install, find file | expander | what was installed is found |
| Analysis and optimizer, `analyze.scm`, `source-optimizer.scm` | bindings with reference counts | `analyze`, `optimize` | expander before, CPS after | the program means the same |
| CPS conversion, `cps.scm` | the counter of `gen-name` | `convert` and its parts | compiler after | the same, and every call is a tail call |
| Compiler, `compiler.scm`, `opcode.scm`, `primitives-info.scm` | environments of the functions around, code, constants | `compile` and its parts | assembler | slots, bindings and jumps lead where the names do |
| Core libraries, `core.exceptions.scm`, `core.sequence.scm`, `core.arithmetic.scm`, `core.strings.scm` | the list of handlers | exceptions, sequences, vectors, operators, strings | expanded like any text, run on the VM | do what their names promise; handlers are put back |
| Other Scheme libraries, `core.ports.scm`, `core.files.scm`, `core.records.scm`, `base.scm`, `reader.scm` | port buffers, record types | ports, records, reading | | not modelled (section 8) |
| Tools, `format.scm`, `pprint.scm`, `cpacked.scm`, `gen-headers.scm`, `main.scm`, ... | none | printing, generated headers, command line | | not modelled: pure input and output |

`PROJECT.json` lists each with what is modelled of it, and the hazards, each at
the line where it bites.

## 2. The collector

### Modules

- `Heap.tla` is the collector and its mutator.  A step is one visit of
  `heap_mark`; between two visits the loop indices of `heap_scan_old`,
  `heap_scan_references` and `heap_scan_remebered` are variables, because their
  position is what the correctness depends on.
- `HeapInv.tla` has the inductive invariants.
- `HeapProofs.tla`, `HeapSafety.tla` hold the proofs.
- `ObjectStore.tla` is what the collector promises to the rest of the machine: a heap in
  which objects have an identity and never move.  `NamedHeap.tla` is `Heap` with a
  history variable, `name`, which says what object is in a block, and the mapping to
  `ObjectStore`; `StoreProofs.tla` proves the refinement.
- `MCHeap.tla`, `MCStore.tla` and their configurations are the instances for TLC.
- `Space.tla` is the same heap seen as bytes: what `Heap` abstracts to blocks of one
  size.  `SpaceProofs.tla` has its proofs, `MCSpace.tla` its instance.

| Code | Model |
|---|---|
| `space_t` of fresh, survived 1 and 2, old | adjacent ranges of addresses, `blocks[s]` blocks in use |
| `block_hdr_t.forward`, `generation`, `remembered` | `fwd`, `gen`, `rem` |
| payload; the forwarding address lies over its first word | `fld[a]`, `fld[a][1]` |
| `thread_get_roots` | `roots`; the mutator's `Load`, `Store`, `Move`, `New` on them are what the instructions do |
| `heap_alloc`, `heap_require` | `New`, `NewFull`, `Resume`, `Require` |
| the branches of `heap_mark` | `MarkSkip`, `MarkReached`, `MarkOld`, `MarkForwarded`, `MarkPostpone`, `MarkPromote`, `MarkSurvive`, the two overflows |
| ends of the loops of `heap_gc_main` | `RootsDone`, `ScanOldDone`, `ScanRefsDone`, `ScanRememberedDone` |
| `heap_gc_old`, rest of `heap_gc` | `HeapGcOld`, `Finish` |

Blocks have one size in `Heap`: the byte arithmetic of `heap.c` is in `Space`.
`heap_require` and `heap_require_blocks` compare strictly and do not look again
after the collection; the model does the same.  The generation at which an
object is promoted is a constant, 3 in the code, so that small instances reach
promotion and full collections.

In `Space` memory is a function from word-aligned offsets to words, and a word knows
which block it belongs to, where in it, and the size in the header.  `SpaceAlloc`
rounds a request up (`Need`) and writes the words; `SpaceMove` moves a block
as `memmove` does, also over its own old place; `HeapAlloc`, `Retry`,
`HeapRequire` and `HeapRequireBlocks` are the requests, before and after a collection;
`Walk`, `OldReset`, `Move`, `Moved` are the loops of `heap_gc_old`, `ScanOld` the loop of
`heap_scan_old`, during which `Promote` adds blocks behind it.  Which blocks live is
left open: `Heap` says that.  Every action takes the size of a block from its header,
as the code does; `index`, `room` are ghosts.

The ghost variables `id`, `graph`, `groots` of `Heap` name every object when a collection
begins and record what the heap was, so that the result can be compared with it.
No guard reads them.

### Two defects, and `tainted`

TLC found two ways in which a full collection damages the heap, each shown by a
`violation` run:

- `forward_twice`: the second pass visits every old object twice
  (`heap.c:242-244` puts it in the remembered set, `heap.c:259-260` scans the old
  space as well, since `full_gc` is already clear), so a word may go through
  `old_map` twice and end at another object.  It takes two old objects of which
  one slides to where the other was.
- `stale_bit`: an object promoted in the second pass keeps its remembered bit
  (`heap.c:420-422`), and the next full collection takes it for visited.

The ghost `tainted` is set when a full collection slides an object or begins with
such a bit, that is, just when one of the two could happen.  The safety
properties are stated for heaps that have never been tainted: all minor
collections, and all full collections that only drop objects at the end of the
old space.  `GcEnds` and `TypeOK` do not depend on it.

### Runs

| Run | Instance | Shows |
|---|---|---|
| `collect` | fresh 1, survived 1+1, old 2, promotion at 1, two roots | `TypeOK`, `OneCopy`, `Faithful`, `NoDangling`: sharing, cycles, old-to-young pointers, promotion while scanning, full collections |
| `space` | the same with promotion at 3, one root | `Precise`: exactly the live objects are kept; `OutOfMemoryIsReal`; `IInv`, `LiveInv`, which are proved below; `GcEnds`: no collection goes on for ever, tainted or not |
| `pairs` (`NamedHeap`) | two words per block, old 1, promotion at 1 | `Faithful` when the forwarding address overwrites only one of two words; `Implements`: the refinement of `ObjectStore`; `NameInv`, its invariant |
| `forward_twice`, `stale_bit` | one and two blocks more | the two defects |
| `blocks` (`Space`) | five blocks of sizes 1, 12 and 41, fresh space of 40 bytes, old space of 48, survived space of 24 | `Accounted`, `Intact`: blocks never overlap, also when moved over each other; `Walks`: the walks from header to header stand on headers while blocks are added; `Compacted`; `RoomKept`; `FatalIsReal` |

`OldSize >= SurvivedSize`, as in `heap.c:26-28` (five times).  Old space of two and two roots are
enough for an object to be shared by a root and an old word, for a cycle between
generations, and for a full collection that meets both live and dead old objects.
The runs where survivors overflow need the promotion age above 1.  `CHECK_DEADLOCK
FALSE` because `FATAL` ends the process.

In `blocks` sizes 1 and 12 are no multiples of the word, so that rounding matters, and
41 fits nowhere.  Fresh space holds two small blocks or a small and a large one, old
space three small ones or two large ones: enough for a large block to slide over the
place of a small one and for both to overlap while it moves.  Blocks are
interchangeable (symmetry).  `CHECK_DEADLOCK FALSE` is not needed here: what has
stopped stutters in `Stopped`.

Fairness is `WF(Collect \/ Retry)`: the collector runs on the mutator's only
thread, within `heap_alloc`, and nothing can interrupt it.  The mutator has none.

### The promise to the program

`ObjectStore` knows objects, their words, and the root slots.  Its steps are `New`,
`Load`, `Store`, `Move`, which the program does, and `Drop`: some objects that no root
reaches disappear.  In `NamedHeap` a new block gets a name that no block has, and the
end of a collection carries names over from the blocks that there were to those that
are kept.  The program sees `fld` and `roots` through the names while it runs, and
while it waits for a collection what it saw when that began (`graph`, `groots`).
`Implements` says that all a program can see is a behaviour of `ObjectStore`: visits and
compactions are no steps at all, and the end of a collection is a `Drop`.  As
names decide what `eq?` compares, that covers sharing as well as contents.  A process
that `FATAL` ends stops.  `NamedSpec` consists of the behaviours of `Heap` that are never
tainted; in others `Implements` is false, as the two defects show.

This is the collector that `Vm` has in section 3: there, too, a collection is one step
that keeps what the roots reach.

### Proofs

For all space sizes, block shapes, promotion ages and numbers of roots:

| Theorem | Statement |
|---|---|
| `HeapProofs!TypeCorrect` | `Spec => []TypeOK` |
| `HeapSafety!InvariantHolds` | `Spec => []IInv` |
| `HeapSafety!FaithfulHolds` | `Spec => []Faithful` |
| `HeapSafety!NoDanglingHolds` | `Spec => []NoDangling` |
| `HeapSafety!OneCopyHolds` | `Spec => []OneCopy` |
| `HeapSafety!LiveHolds` | `Spec => []LiveInv` |
| `HeapSafety!PreciseHolds` | `Spec => []Precise` |
| `HeapSafety!OutOfMemoryIsRealHolds` | `Spec => []OutOfMemoryIsReal` |
| `StoreProofs!NamesHold` | `NamedSpec => []NameInv` |
| `StoreProofs!CollectionsAreInvisible` | `NamedSpec => Implements` |

For all sizes of spaces, numbers of blocks and requests, of `Space`:

| Theorem | Statement |
|---|---|
| `SpaceProofs!TypeCorrect` | `Spec => []TypeOK` |
| `SpaceProofs!AccountedHolds` | `Spec => []Accounted` |
| `SpaceProofs!IntactHolds` | `Spec => []Intact` |
| `SpaceProofs!WalksHolds` | `Spec => []Walks` |
| `SpaceProofs!CompactedHolds` | `Spec => []Compacted` |
| `SpaceProofs!RoomKeptHolds` | `Spec => []RoomKept` |
| `SpaceProofs!FatalIsRealHolds` | `Spec => []FatalIsReal` |

They rest on the assumptions that `Heap.tla` and `Space.tla` name: `SizesAssumption`,
`ShapeAssumption`, `NullAssumption`; `SpaceAssumption`.

`Faithful` speaks of the end of a collection only and is not inductive.  `IInv`
says what holds between two visits:

- `Contents`: every slot, visited or not, still *refers* to its object, directly
  or through a forward pointer.  A visit replaces an indirect reference by a
  direct one and keeps this true.
- `Forwards`: a forward pointer leads to the one copy.
- `Bits`, `Listed`: who may have the remembered bit, and that what is in the
  remembered set is to be scanned.
- `Scanned`: behind the loop indices there are only visited slots; the exceptions
  are counted by `Waiting`, which says which of the loops will still come past.
- `Control`: which registers go together in which phase.

`HeapProofs` proves that a visit preserves it, first for the visits that copy
nothing, then for the two that copy; `HeapSafety` does the ends of the loops, the
compaction (which by assumption of `~tainted` slides nothing), the end, and the
mutator.  When the last loop is done nothing is `Waiting`, so all slots are
visited; with `Contents` that is `Faithful`.  `OneCopy` needs `Unique` in addition:
of the blocks not forwarded no two hold one object.

`Precise` and `OutOfMemoryIsReal` are about reachability.  `HeapSafety` first shows that
`ReachedIn`, a function by recursion on path length, is the least closed set that
contains where it starts (paths longer than the heap has blocks reach nothing new;
induction is by least counterexample).  `LiveInv` adds to `IInv` that

- `OnlyLive`: what has been copied or will be scanned is live.  A visit copies what a
  scanned slot refers to, so this is closed under graph edges.  At the end the kept
  objects contain the roots and are closed, so they are all the live ones, and by
  `OnlyLive` no others: `Precise`.
- `Origins`: what is in a survived space was young and what is in old space was there or
  ripe.  A full space then holds as many live objects of its kind as it has blocks, and
  the one that does not fit is one more: `OutOfMemoryIsReal`.
- `OldKept`: outside full collections the old objects leave a survived space free.
  This holds because `heap_gc` schedules a full collection as soon as it does not.  As
  the ripe objects all lie in the survived space, and one of them has not been copied, a minor
  collection has a block left for it, and cannot run out of old space.
- `Young0`: no object is ripe in fresh space, and no block is in old space before that
  exists.

The refinement has `NameInv`: names are distinct, those in use are of the allocated
blocks, and in a collection every recorded word and every copy leads to a named
block.  `Faithful` and `OneCopy`, at the end of a collection, are just what makes the
new naming one and the dropped objects a `Drop`.  That there is always an unused
name is the pigeonhole principle.

In `Space`, `LayoutInv` says that the blocks of a space, in the order of `index`, lie end to end from
0 to `pos`, and what the words of each are.  An allocation writes behind `pos`; a walk goes from one
header to the next because blocks lie end to end.  In a compaction there are two such
runs: what has been moved ends before the header that is read next, so `memmove`,
though it may overlap its own source, overwrites only what has been moved or dropped.
`RoomKept` and `FatalIsReal` go by `FreshInv`: what is free in fresh space is
whole words, promised room is never more than that, and after a collection all of fresh
space is free.  `heap_require` compares with the size that was asked for, not with the
rounded one; `EnoughIsRoom` shows that the strict comparison makes up for it, because
what is free is a multiple of the word.  `Retry` has all of fresh space, so it fails only
for a block that fits no empty one.

Only model-checked is `GcEnds`, as liveness is out of the prover's reach.

## 3. The compiler and the virtual machine

### Modules

- `Scheme.tla`: expanded programs, as the expander leaves them.
- `Optimizer.tla`: `analyze` and `optimize-source`.
- `Cps.tla`: `cps-convert`.
- `Compiler.tla`: `start-compile`.
- `Values.tla`: the values of the machine and the objects that they point to.
- `Natives.tla`: the natives on strings, structures and bytevectors.
- `Fasl.tla`: the module file, as `fasl.scm` writes it and as `module.c` reads it.
- `Vm.tla`: the machine, which runs one module instruction by instruction.  It knows
  nothing of the compiler.
- `VmInv.tla`: when bytecode is in order, what then holds in the machine, and the
  inductive invariant behind it.  `VmProofs.tla` (collections, instructions,
  exceptions) and `NativesProofs.tla` (calls, natives, the theorems) have the proofs.
- `Reference.tla` says what an expanded program means.  It is not a translation of
  any code: it is an evaluator with an explicit continuation and a store, that
  knows nothing of bytecode or CPS.
- `VmCorrect.tla` composes them: in an initial state some program has been optimized,
  converted, compiled, written to a file and read back, and the machine is about to
  run it.  `Programs` are given as trees and mean themselves; `Files` are texts, which
  go through the expander first and mean what the program given with them means.  The
  properties of programs are here, those of the machine alone in `VmInv`.  `MCVm.tla` and `MCTexts.tla` have the programs, `MCScheme.tla`
  short ways to write them.

| Code | Model |
|---|---|
| `module_t` | `module`, which never changes: constants, their objects, functions, entry point; three more fields, `means`, `around` and `heights`, say what its source means, how its functions nest and how many operands lie on the stack at each instruction.  Only properties read them |
| `vm_thread_t` | `thread`, with the heap and what has been displayed |
| `opcode`, `func` of `eval_thread` | `pc`, `thread.func` |
| `goto dispatch_func` with `fp`, `op_arg` | `call`: one step per turn of the trampoline |
| an instruction | `Load`, `LoadBind`, `LoadClosure`, `SetLocalSlot`, `SetBind`, `Jump`, `Arithmetic`, `OpBitNot`, `OpEqPtr`, `OpNot`, `OpCons`, `PairField`, `OpTypeTest`, `FuncCall` |
| `dispatch_func` | `CallCont`, `CallInterp` (with all of `enter_interp`), `RaiseArity`, `CallNonProcedure`, and one action per native |
| `RAISE`, `push_exception_handler` | `Raise` |
| `heap_gc` | `Collected`: all objects move, what the roots do not reach is gone; possible at every allocation |
| a C local or a place above the stack's top that a collection passes over | `Stale` |
| the pointers of `const_allocator` | `Const(a)`, an index of `module.objects` |
| a string's text in a heap block, in a constant or in a symbol; `allocated` | where the text lies, whether a collection finds it, whether a zero ends it |
| `list` and `length` of a pair | `len`, 0 for no list, `Unset` for bits that `_cons` does not write; reading these gives either answer |
| undefined behaviour (following a stale pointer, arithmetic on something else than numbers) | `status = "undefined"` |
| `error` in the compiler | `status = "uncompiled"` |

The collector is here what section 2 proves of it: it keeps what the roots reach.
Addresses are indices of a sequence that a collection compacts, so that nearly
every collection moves something.

Data are abstracted: numbers are small integers (characters keep their 16 bits), a
string or a symbol is its text as one value, a name is the path of the node that
makes it.  A field of the module file is one element of a sequence, so sizes count
fields; that a number fits its field, that there are at most 255 constants and that
a text has at most 254 bytes is assumed.  Of `gen-name` only is taken as given that it
never gives a name twice.

### Properties

- `Correct`: a program that has ended displayed what the reference displays and
  ended in the same way.  It is about the composition of all phases and of the
  VM under arbitrary collections.
- `LexicalChain`: the environments in force are those of the functions around the
  current one, as far as they have one on the heap.  The compiler never writes
  this down; `env_display` searches by depth, `LOAD_FUNC` omits the closure, natives
  leave `env` alone, and `heap_env` omits environments, all on its strength.
- `StackBounded`, `FrameKept`: no call leaves more behind than twice its arguments
  and the bindmap, and operands never reach down into them.
- `NoStale`: no pointer in use was left behind by a collection.
- `Verified`: what the compiler makes of a program is in order (`ModuleOK`, below), and
  the invariant that is proved of such bytecode, `IInv`, holds of it.  The machine tests
  nothing of the kind: it pops what it takes to be there and jumps where it is told.
- `Ends`: programs that end are brought to an end.

### Runs

| Run | Programs | Shows |
|---|---|---|
| `compiled` | thirteen by hand (shared variables, four nested functions, loops, escaping and re-entered continuations, rest arguments and natives, `eq?`, constants of every kind, numbers and characters, lists and the library cache, strings, structures, bytevectors), each of twelve type tests on sixteen values, and the 1728 nestings, three deep, of twelve contexts around a variable; collection possible at every allocation | the six invariants above and `TypeOK` |
| `ends` | a loop, jumps through continuations, fifteen programs that raise in every way, with a handler that raises again and without one, 29 calls that natives refuse, and the 214 texts of section 4; no collection | `Correct`, and `Ends` under `WF(Next)` |
| `local_function` | one | a local definition without a slot |
| `rest_pairs` | one | rest arguments lost in a collection |

The twelve contexts are: operand, argument, `let` of a value, `let` of a function,
condition, branch, `call/cc` with escape, assignment, call of the result of a call,
pairs, `apply` and `list`, local recursive function.  Three deep, each meets each
other in both positions and twice, and a variable is captured across up to four
functions.

`StackSize` is 24 (40 in `ends`, where functions of the libraries have more arguments): more than any of the programs needs when `StackBounded` holds
(an overflow would end it, and contradict `Correct`).  `Fuel` = 1000 bounds the
steps of the reference evaluator; programs that ran out of it would have no `why`
and contradict `Correct` too.  `Collecting` is off in `ends`, because
raising an exception is not safe under a collection (below).

### Known restrictions

The programs of the passing runs stay clear of what the code does not get right.
Two of these are shown by runs:

- A local definition that no inner function captures (`local_function`): a frame on
  the operand stack is as long as the arguments (`vm.c:181-189`).
- Rest arguments that are pointers (`rest_pairs`): they are popped before `_list`
  allocates (`vm.c:162-164`).

The others follow from the same modules, with the program put in `MCVm`:

- `(+ (let ((y x)) (+ y 1)) x)`: the optimizer turns such a `let` to a `begin`;
  `convert-seq` takes a last expression that evaluates to itself for the tail of
  everything, calls a name that is bound nowhere, and drops the rest
  (`cps.scm:155-162`).  The compiler gives up.
- `(if (< x 2) (set! x 5) x)`: `convert-set` makes a `begin`, which the conversion of
  a branch does not splice (`cps.scm:95-111`).  The compiler gives up.  The same goes
  for the value of a `set!` that is an operand.
- `(begin x (display 7) x)` as a branch: `tail?` compares with `eq?`, so the first `x`
  is taken for the tail and nothing is displayed (`cps.scm:154-160`).
- An exception that meets a collection: `push_exception_handler` keeps the pair of
  handlers in a C local while it allocates the message (`vm.c:211-223`).
- A lambda that is called where it stands, with another number of arguments than it
  has or with rest arguments: `inline-lambda!` itself fails.
- A definition that is mentioned only above its own place, as in
  `(define (b) c) (define c 2)`: the optimizer has not counted the reference when it
  meets the definition, and drops it (`source-optimizer.scm:38-56`); the compiler then
  gives up.  In a library the list of exports at the end saves exported names.
- The list flag of a pair whose rest is a pair and no list, as in `(cons 1 (cons 2 3))`:
  `_cons` leaves it as it was in memory (`primitives.c:63-68`), and `length` and the
  test for lists read it.  `Vm` allows both answers, and the programs do not ask.
- `string_concat` keeps the addresses of both texts over `heap_alloc`, and never sets
  `allocated`: the text is lost in the next collection, and `string-copy!` refuses such
  a string (`strings.c:104-124`).
- A substring of no or of eight characters (or 16, ...) ends with its block, without
  the zero that readers look for (`strings.c:236-242`).
- `string_ref` does not check that the position is not negative; `string-set!` on a
  literal writes to a file that is mapped for reading only, on what `symbol->string`
  gives it changes the symbol; `string-set!` and `make-string` cut characters to a signed
  byte (`strings.c:83-198`).
- `bytevector-u8-set!` refuses the value 0 (`bytevector.c:80-95`); `make-struct` without
  a type name reads past its arguments (`struct.c:63-75`); `struct->list` with more
  fields than fresh space has room for pairs allocates without room (`struct.c:137-148`).
- `string?` is known to the compiler and not installed in the machine, so loading a
  module that names it is fatal; `bytevector-length` is not installed; `bytevector?` is
  installed and not known to the compiler.
- `fxnot`: `OP_BIT_NOT` pushes the complement without shifting it (`vm.c:477-481`), so
  its last three bits are taken for a tag: of -1, -9, -17, ... it makes a fixnum, which is
  right for -1 only, of others a character or a pointer to nowhere.  `OpBitNot` does the
  same; the programs ask for the complement of -1.
- A pair that is called like a function: `dispatch_func` ends the process when it is
  on the heap and raises an exception when it is a constant (`vm.c:361-387`), a
  difference that the reference does not know.

Except for the first of the natives above, which `ends` runs without collections, the
programs avoid these.  They do not depend on the order in which operands are evaluated, and never
compare two pairs that look the same.

Fairness is `WF(Next)`: one thread runs `eval_thread` and never waits.

### Proofs

`VmInv` takes the machine without its compiler.  `ModuleOK` says of a module what a
bytecode verifier would test:

- every instruction that can be reached has one height, the number of operands on the
  stack, whichever way it is reached; it finds the operands it needs, and control never
  leaves the code (`CodeOK`);
- slots, constants, functions and bindings that instructions name exist (`InBounds`);
- a function has no more arguments than its environment has room for, and its bindings
  lie in its bindmap (`FunctionOK`); constants do not point to the heap (`ConstantsOK`).

`MachineSpec` is the machine on any such module, whoever made it, with collections at any
allocation.  For every module, every `StackSize` and every `FreshPairs`:

| Theorem | Statement |
|---|---|
| `NativesProofs!TypeHolds` | `MachineSpec => []TypeOK` |
| `NativesProofs!StackBoundedHolds` | `MachineSpec => []StackBounded` |
| `NativesProofs!FrameKeptHolds` | `MachineSpec => []FrameKept` |
| `NativesProofs!IInvHolds` | `LosslessSpec => []IInv` |
| `NativesProofs!NoStaleHolds` | `LosslessSpec => []NoStale` |

The hypothesis is not taken on trust: `Verified` checks in the run `compiled` that each
of its modules, as the compiler made it and the loader read it, satisfies `ModuleOK`.
The theorems rest on `VmAssumption` and `NativesAssumption` and nothing else.

None of the properties is inductive.  That the stack is bounded needs that a call finds
its arguments, so that operands are where heights say, so that the function that was called
left them there; that `thread->env` points to an environment needs that every
closure's does, and that every collection takes all of them along.
`MachineOK(barred)` is the invariant:

- `HeapOK`: every object has the fields of its kind, environments lead to environments,
  values point to what exists; the registers and the live part of the stack hold values.
  It says nothing about where control is, so collections keep it wherever they happen.
- `FrameOK`, between two instructions: the operands lie above the arguments and the
  bindmap, exactly as many as the height of the next instruction; `objects` is the
  environment or points at arguments on the stack; each binding in the bindmap is an
  environment.
- `CallOK`, while a call goes through the trampoline: its arguments are on the stack.

`barred` is a set of kinds of values that do not occur.  With `barred = {}` the invariant
holds of every run, and `TypeHolds`, `StackBoundedHolds` and `FrameKeptHolds` follow, also
after the machine has lost a pointer: a stale word is then a value like any other, until
somebody follows it, which ends the thread as undefined.  With `barred = {"stale"}` it is
`IInv`, and `NoStale` follows; it holds as long as none of two steps has lost a
pointer.  `Losing` names them: a handler called after a collection by
`push_exception_handler` (`vm.c:211-223`), and rest arguments that are pointers
(`vm.c:162-164`).  Both are real, `rest_pairs` shows one, so `LosslessSpec` is what
there is to prove: the theorem says that these two are *all*.  No other instruction
or native loses a pointer by an allocation, and thread_get_roots, thread_after_gc
and the visitors forget nothing.  (`string_concat` and `struct_to_list` hold raw pointers
too; what they read after a collection is undefined in `Vm` and ends the thread.)

A collection is proved once.  `CollectedKeeps`: the roots reach the roots, what is
reached is closed under the fields of objects (`ReachableIs`, by counting: a set of
addresses that grows at every step of a path runs out), so that every reference of a
kept object is one of a kept object and moves with it.  `Moves` says what a value
becomes, and each instruction or native that allocates combines it with a lemma on
what it then pushes (`PushAllKeeps`, `PlaceKeeps`, `NewState`).  Instructions without a call go
by `Advances` and `InstructionDone`, which put the next height in place of this one.
`EnteredIs` is `enter_interp`, with the rest arguments (`SwallowedIs`), the two sorts of frame
(`HeapFrameIs`, `StackFrameIs`) and the bindmap, whose entries are found by walking up
`prev` (`EnvDisplayIs`).  `PushList` and `EnvDisplay` repeat a step as often as data say; they
are recursive functions on numbers, and what is shown of them is by least
counterexample (`LeastNat`).  The status and the function of a thread that has ended are
followed separately (`Known`), as `TypeOK` speaks of them too.

What the proofs found out about the model: the lists that `_list` and `struct_to_list`
make, `env_display` and reachability had to be functions instead of `RECURSIVE` operators, and
reading what an undefined case never has (a field of another kind of object, more
elements than a list has) had to be an outcome of its own.  `Vm` leaves out the
test of `STACK_POP` for an empty stack (`vm.h:124-126`): `FrameOK` says that the
operands that an instruction pops are there, so that it never strikes.

### What is not proved

`Correct`, `LexicalChain` and `Ends` are model-checked only.  The compiler and the reference
are recursive operators on trees, and what they compute for every program is beyond
the prover at hand; so is, for the same reason, that every module that the compiler makes
satisfies `ModuleOK`.  `LexicalChain` depends on more than `ModuleOK` says of bytecode: a
function that `LOAD_FUNC` loads without its environment must be called before the
environment changes, so only where the compiler put it, as the continuation of a native, and
nothing tests where else such a value may go.  `JUMP_FORWARD` is part of the
model and of the proofs, but in code that comes from `cps-convert` both branches end in a
call and it is never reached.

## 4. Macros and the core libraries

- `Expander.tla`: `expand.scm`, `syntax-core.scm`, `syntax-pattern.scm`, and the macros
  of `core.forms.scm`.
- `CoreLibraries.tla`: the text of `core.exceptions`, `core.sequence`,
  `core.arithmetic` and `core.strings`.
- `MCTexts.tla`: programs as texts, each with the same program written without macros.

| Code | Model |
|---|---|
| `syntax-object`, `mark`, `subst` | `Syntax`, `Mark`, `Substs` (all substitutions that one place makes, as they have the same marks) |
| the environment `r`, `binding` | a function from labels to `Core`, `Lexical`, `Macro` |
| `find-label`, `same-marks?`, `id-binding` | `FindLabel`, `SameMarks`, `IdBinding` |
| `pattern-match`, `pattern-bind-named`, `gen-syntax`, `sc-dispatch` | `PatternMatch`, `PatternBind`, `GenSyntax`, `ScDispatch` |
| the procedure of a macro, which the host Scheme evaluates | the rules it was written with (`SyntaxRules`, `CondClauses`, `CaseClauses`, `OpMacro`, `RulesOf`) |
| `exp-macro`, `expand-body`, `exp-lambda`, `exp-define`, `exp-if`, `expand` | `ExpMacro`, `ExpandBody`, `ExpLambda`, `ExpDefine`, `ExpIf`, `Expand` |
| `expand-top` on a program with what it imports | `ExpandText`; `Node` makes the tree that the optimizer takes |
| the body of a library, with `make-exporter` at its end | its forms in front of those of the program |

The texts of the run `ends` are: 196 programs in which each of fourteen macro uses
(`let`, named `let`, `let*`, `or`, `and`, `cond` with and without `=>`, `case`, `when` and
`unless`, local macros with a reserved word and with an introduced variable, internal
definitions with rest arguments, operators as values) stands in each; three more with
definitions spliced from `begin`, variables named like forms and macros, and macros
that use each other in any order; and fifteen that import the core libraries, among
them handlers that raise again, continue, and are left to the default one, and
`string-split` on all texts of up to four characters that are spaces or not.  Bit
operations are by arithmetic in `Vm` and bit by bit in `Reference`, where numbers have
`BitBound` bits and a sign, more than any that the programs have.  All go through the
modelled expander, optimizer, conversion, compiler, module file and machine, so
`Correct` compares what a text displays, in the end, with what the plain program means
(`Reference`).  Two deep, each macro meets the substitutions and marks of each other.

What the texts stay clear of:

- `(let ((t 5)) (or #f t))` is `#f`.  `same-marks?` has an `if` without a second arm,
  whose value counts as true, so marks of different number never tell variables apart:
  what a macro introduces catches the user's variable of that name
  (`syntax-core.scm:197-205`).  The mutant of `Correct` in `ends`
  gives the missing arm, and most texts no longer compile: a template is stripped and
  wrapped again at the place of use, where its free names would then be found by none.
- For the same reason free names of a template mean what they mean where it is used.
- What follows an ellipsis in a template is dropped (`expand.scm:104-126`); a body whose
  first form is the name of a macro alone is taken for a use of it.
- `(< a b c)` compares `a` with `b` and then goes on with `c`: `(< 1 3 2)` is `#t`.  `-` and
  `/` as values fold over all arguments from 0 and 1: `(apply - '(5 2))` is -7.  `fxior`
  and `fxxor` start at 1 (`core.arithmetic.scm`).
- A continuation that leaves `with-exception-handler` leaves its handler installed
  (`core.exceptions.scm:33-38`).
- `string->list` and `string-split` fail on the empty string; `map` and the folds do not
  check that several lists have one length.

Nothing here is proved: the expander is recursion over trees.

## 5. Libraries

`LibraryManager.tla` is `expand-file` with the tree of libraries and the compiled files: in
what order files are found, expanded, installed and compiled.  What a file is translated to
is its parameter `Translate`.  `Libraries.tla` says what that is, with the compiler of section
3, and lets the machine run what comes out, `load_library` included: `Compiling` is a step of
the manager, and what it ends with starts or ends the program.  `MCLibraries.tla` has sets of
source files, `LibraryProofs.tla` the proofs.

| Code | Model |
|---|---|
| the tree of `lnode`s, `find-library`, `library-install!` | `root`, `FindLibrary`, `Installable`, `LibraryInstall` |
| `find-library-file`, `try-file` | `Found`, `LibraryFile`: the first of six places |
| calls of `expand-file`, `resolve-imports` in the order of `map` | `open`; `ResolveInstalled`, `LoadSource`, in any order |
| `expand-library`, `expand-top` | `LibraryExpanded`, `ProgramExpanded` |
| `load-library` after `expand-file` | `FileCompiled`, `Return` |
| `make-include`, `make-exporter`, the text around a body | `MakeInclude`, `MakeExporter`, `ExpandLibrary`, `ExpandTop`, `CompileFile` |
| `load_library`, its table, `library-cache` | `LoadLibrary`, `libraries`, `thread.lib_cache` |

`ProgramCorrect` says that a program does what it would do if the bodies of its
libraries stood in front of its own, each once, and that it does not compile when a
file is missing.  `Available`: what a file imports is installed and compiled when the file has
been expanded, and with the program everything that is installed.  `ExpandedOnce`,
`Registered`: no file is expanded and
no body run a second time.  `NoStale` is that of section 3: the register of loaded
libraries is reached from the thread only.  `Finishes`: all of it ends.

The run `libraries` has seven sets of files: a library used by two others and by the
program, in several orders of import; one that nobody uses; one that exports nothing;
a missing one; one whose body raises; a file that holds another library than its name
says; and a name of two components.  `MaxOpen` is 4 files at once, as many as
the longest chain of imports has; `Finishes` would fail if it were in the way.  A collection is possible at every allocation.  Fairness is `Progress`: a sequential
program goes on until it has ended.  As some step is always possible until then, this
is weak fairness of the next-state relation, whose `ENABLED` would be costly to evaluate.

What the sets stay clear of: names of two components are refused at the root, whose
first child is always `$builtin`, and depend on what has been installed elsewhere
(`library-manager.scm:69-81`); compiled files are written to `cache/<path>.o` and looked
for at `cache/<dotted name>.scm.o`, which is the same for names of one component only;
libraries that import each other are loaded for ever; a library that exports no
definition is never run; one that is imported and not used is loaded all the same.

Proved in `LibraryProofs`, for all finite sets of source files, whatever they hold, and
whatever `Translate` makes of them or refuses:

| Theorem | Statement |
|---|---|
| `AvailableHolds` | `ManagerSpec => []Available` |
| `ExpandedOnceHolds` | `ManagerSpec => []ExpandedOnce` |
| `CallsBoundedHolds` | `ManagerSpec => [](Len(open) <= Cardinality(DOMAIN files))` |

They assume (`LibraryManagerAssumption`) that imports form no cycle, which the code relies on,
and that different names have different paths, which fails only if a symbol contains a
slash.  Files may hold a library of any name, or of the same name as another.  Both properties
need more than they say: a file is not loaded again *because* its name is in the tree, which
it is by the time it is compiled, or what called for it fails.  So the invariant,
`ManagerInv`, says that

- each call waits for an import whose file the next call expands (`Chain`), so that a file
  twice among them would be a cycle of imports (`PlacesDiffer`);
- a name whose file has been compiled is in the tree (`Reached`);
- imports count as resolved only when they are installed and compiled (`ResolvedBuilt`,
  `CacheBuilt`), and at most one library is installed and not compiled, the one that
  has just been expanded (`InstalledBuilt`): this is why the order of installing and
  compiling is harmless.

By `CallsBounded`, a `MaxOpen` that is no less than the number of files rules nothing out.

## 6. The hash table

Three tables are kept for as long as the VM runs (symbols, natives, libraries), and
`old_map` for the second pass of a collection, where it must find the new place of
every object that moved.

- `Mapping.tla` says what a table promises: a map from names to values.  `last` is the
  last call with its argument and its value, so that an implementation has to
  answer the call that was made and not some other one.
- `HashTable.tla` is `hash.c`.
- `HashProofs.tla` has the proofs, `MCHash.tla` the instance.

| Code | Model |
|---|---|
| `hash_table_t` | `size`, `nnodes`, `nodes`, a function from `0 .. size - 1` to sequences of nodes |
| `hash`, `equal` | constants: `Hash[k]`, and `Name[k]`, what `equal` compares |
| `hash_table_lookup`, `hash_table_insert` | `Lookup`, `Replace`, `Add` |
| `hash_table_resize` and its locals | `StartResize`, `MoveNode`, `NextChain`, `Resized`; `new_size`, `new_nodes`, `i` |
| `hash_table_destroy`, then `hash_table_init` | `Destroy` |

A key is a pointer, and two pointers may have one name: that is how `make_symbol`
finds a symbol by a text that lies elsewhere.  A resize takes a step per node,
because the two arrays together have to have every node once at any time; nobody
calls the table meanwhile.

`Placed` says that a key has at most one node and where it is; `Counted`, that
`nnodes` is the number of nodes; `LoadBounded`, that chains are short on average
and that the first half of the condition in `hash_table_maybe_resize`, which
shrinks a table, is never true: nothing is ever removed.  `Implements` is the
refinement: `map` is what both arrays together bind each name to.

The run `table` has four names, one of them with two pointers, two with the same
hash, and sizes 1, 2 and 5 in place of `primes`: the table grows with its third
node, to a size that separates some of the hashes that met in one chain and not the
others, and goes on from there.

Proved in `HashProofs`, for all keys, hash functions, values and sizes with the
named assumptions (equal keys have equal hashes; sizes increase, each by less than
three times, which those of `hash.c:33-69` do):

| Theorem | Statement |
|---|---|
| `InvariantHolds` | `Spec => []IInv` |
| `TypeCorrect` | `Spec => []TypeOK` |
| `NodesPlaced` | `Spec => []Placed` |
| `NodesCounted` | `Spec => []Counted` |
| `ChainsStayShort` | `Spec => []LoadBounded` |
| `TableIsMap` | `Spec => Implements` |

`IInv` adds to `TypeOK` and `Placed` that chains before `i` are empty in a resize,
that there is no second array outside, and the load.  Appending to a chain,
putting a node in front and taking the first away are all seen as `Inserted`, at
some place, forwards or backwards; five lemmas say what an insertion does to
bindings, places and distinctness, and each action combines them.
`Contents` is a `CHOOSE`; `ContentsIs` says that `Distinct` and `Apart` leave it no
choice.  `NewSize` finds the smallest size above the number of nodes by a
least-element argument and is where the sizes matter: if one were three times the
one before, a table that has just grown could be due for shrinking.  For `Counted` the
nodes of an array are the places, pairs of an index and a position in the chain; an
insertion adds one place at the end of a chain, removing the first node takes the
last place away, and moving a node does both, so `Cardinality` follows.

## 7. Findings

| Run | Where | What |
|---|---|---|
| `forward_twice` | `heap.c:268` | pointers to old objects forwarded twice |
| `stale_bit` | `heap.c:422` | remembered bit copied along |
| `local_function` | `vm.c:188` | no room for internal definitions in a stack frame |
| `rest_pairs` | `vm.c:163` | rest arguments popped before `_list` |

## 8. Not modelled, and the plan

Not modelled:

- `core.ports.scm` and `core.files.scm` do not compile: both name `describe-os-error`,
  which nothing defines, and natives that the machine does not have.  `base.scm` imports
  libraries that are not there.
- `core.records.scm`: procedures on vectors.  Its text, with the libraries it imports, is
  too large a program for TLC (names are paths, and each definition nests in the one
  before).
- `reader.scm` runs on the host before everything else and has no state but a position.
- The procedures of macros, evaluated by the host; `builtin-call`; nested ellipses;
  `with-syntax`, `let-syntax`.
- The width of fixnums; the width of fields in the module file;
  debug symbols; the blocks of the constant allocator and `module_free`.
- Formatting, pretty-printing, generated headers and command line: input and output.

Every safety property of the runs of sections 2 and 6 is proved, of section 5 those of
the library manager, and of section 3 those of the machine: `TypeOK`, `StackBounded`, `FrameKept`,
`NoStale` and the second part of `Verified`.  TLC alone shows

- `Correct`, `LexicalChain` and the first part of `Verified` of section 3, `ProgramCorrect` and
  `Registered` of section 5: they are about what recursive operators on trees compute
  (the expander, the compiler, the reference), or reach them, and the prover takes neither
  such operators nor induction over data;
- `GcEnds`, `Ends` and `Finishes`: liveness, which the prover does not do.

What could be proved next is `LexicalChain`, with a discipline for the values of `LOAD_FUNC`
added to `ModuleOK`, and the length of the chain of environments as the measure.

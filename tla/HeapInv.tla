------------------------------ MODULE HeapInv ------------------------------
(***************************************************************************)
(* The inductive invariant behind Faithful and NoDangling: what holds      *)
(* between any two visits of heap_mark, in a minor collection and in both  *)
(* passes of a full one, as long as the collection is not tainted.         *)
(***************************************************************************)
EXTENDS Heap

GcPCs == {"roots", "old", "refs", "rem", "gc_old", "finish"}

\* The second pass of a full collection: heap->old_map is there.
SecondPass == old_map # NULL

\* A block whose words can be trusted: in the second pass, of the evacuated
\* spaces only what the first pass copied or postponed.
Usable(a) ==
  /\ Allocated(a)
  /\ SecondPass /\ InFrom(a) => fwd[a] \/ rem[a]

\* Value v leads, possibly through a forward pointer, to object i.
Refers(v, i) ==
  IF i = 0 THEN v = 0 ELSE v \in Addrs /\ Usable(v) /\ id[v] = i

\* What heap_mark leaves in a slot: not a pointer into the evacuated spaces,
\* or, in the first pass of a full collection, one to a block that is marked.
Visited(v) ==
  \/ v = 0
  \/ InSpace(future_survived, v)
  \/ IF full_gc THEN rem[v] ELSE InSpace("old", v)

\* The blocks outside future_survived that this pass has to scan.
Must(a) == Allocated(a) /\ IF full_gc THEN rem[a] ELSE InSpace("old", a)

\* Those that a loop has still to finish.
Waiting(a) ==
  \/ \E j \in 1..Len(remembered) :
       remembered[j] = a /\ (pc = "rem" => j >= k)
  \/ ~full_gc /\ pc = "roots" /\ InSpace("old", a)
  \/ ~full_gc /\ pc = "old" /\ InSpace("old", a) /\ a >= At("old", k)

\* Control: where the registers and flags can be in each phase.
Control ==
  /\ cont <= blocks[future_survived]
  /\ pc \in {"roots", "old"} => cont = 0
  /\ pc = "old" => ~full_gc
  /\ pc \in {"gc_old", "finish"} =>
       remembered = <<>> /\ cont = blocks[future_survived]
  /\ pc = "gc_old" => full_gc
  /\ pc = "finish" => ~full_gc
  /\ full_gc => ~SecondPass
  /\ SecondPass => \A a \in DOMAIN old_map : old_map[a] = a

\* Every slot refers to the object that it referred to at the beginning.
Contents ==
  /\ \A r \in Roots : Refers(roots[r], groots[r])
  /\ \A a \in Addrs : Usable(a) /\ ~fwd[a] =>
       /\ id[a] \in Addrs
       /\ \A g \in Fields : Refers(fld[a][g], graph[id[a]][g])

\* A forward pointer leads to the one copy of the object.
Forwards ==
  \A a \in Addrs : Allocated(a) /\ fwd[a] =>
    /\ InFrom(a)
    /\ fld[a][1] \in Addrs
    /\ Allocated(fld[a][1])
    /\ \/ InSpace(future_survived, fld[a][1])
       \/ ~full_gc /\ InSpace("old", fld[a][1])
    /\ id[fld[a][1]] = id[a]

\* Remembered bits are on old blocks and on postponed ones.
Bits ==
  \A a \in Addrs : Allocated(a) /\ rem[a] =>
    /\ ~fwd[a]
    /\ InSpace("old", a) \/ (InFrom(a) /\ gen[a] = PromoteGen)

\* The remembered set holds blocks that this pass has to scan.
Listed == \A j \in 1..Len(remembered) : Must(remembered[j])

\* The scans: what they have passed is visited.
Scanned ==
  /\ \A r \in Roots : (pc = "roots" => r < k) => Visited(roots[r])
  /\ \A i \in 1..cont, g \in Fields : Visited(fld[At(future_survived, i)][g])
  /\ \A g \in Fields : g < f =>
       AtSlot /\ pc # "roots" /\ Visited(fld[CurBlock][g])
  /\ \A a \in Addrs : Must(a) /\ ~Waiting(a) =>
       \A g \in Fields : Visited(fld[a][g])

GcInv == Control /\ Contents /\ Forwards /\ Bits /\ Listed /\ Scanned

\* Between collections.
RunInv ==
  /\ \A r \in Roots : roots[r] = 0 \/ Allocated(roots[r])
  /\ \A a \in Addrs : Allocated(a) =>
       /\ \A g \in Fields : fld[a][g] = 0 \/ Allocated(fld[a][g])
       /\ ~fwd[a]
       /\ rem[a] => InSpace("old", a)
  /\ blocks[future_survived] = 0
  /\ remembered = <<>>
  /\ old_map = NULL

\* The inductive invariant of the collector (heap_gc).
IInv ==
  ~tainted => /\ pc \in {"run", "resume"} => RunInv
              /\ pc \in GcPCs => GcInv

\* Of the blocks that have not moved, each holds an object of its own.
Unique ==
  (~tainted /\ pc \in GcPCs) =>
    \A a, b \in Addrs :
      (/\ Allocated(a) /\ ~fwd[a] /\ Allocated(b) /\ ~fwd[b]
       /\ id[a] = id[b]) => a = b

-----------------------------------------------------------------------------
(* Behind Precise and OutOfMemoryIsReal.                                   *)

\* A collection that compacts the old space, in either pass.
Whole == full_gc \/ SecondPass

\* Where the objects in each space come from: the blocks of the evacuated
\* spaces and the old blocks were there, the others are copies of young
\* objects or, in the old space, of ripe ones.
Origins ==
  \A a \in Addrs : Allocated(a) =>
    /\ InFrom(a) => id[a] = a
    /\ InSpace("old", a) =>
         id[a] = a \/ (InFrom(id[a]) /\ gen[id[a]] = PromoteGen)
    /\ InSpace(future_survived, a) => InFrom(id[a]) /\ gen[id[a]] # PromoteGen

\* A minor collection keeps all that was in the old space, and found it with
\* room for a survived space.
OldKept ==
  ~Whole =>
    /\ \A a \in OldObjects : Allocated(a)
    /\ Cardinality(OldObjects) + SurvivedSize <= OldSize

\* What has been copied and what will be scanned is live.
OnlyLive ==
  \A a \in Addrs :
    (Allocated(a) /\ InSpace(future_survived, a)) \/ Must(a) => id[a] \in Live

\* New objects are young, and there is no old object before the first one is
\* promoted.
Young0 ==
  /\ \A a \in Addrs : InSpace("fresh", a) => gen[a] # PromoteGen
  /\ ~old_mem => blocks["old"] = 0

LiveInv ==
  ~tainted => /\ Young0
              /\ pc \in {"run", "resume"} /\ ~full_gc =>
                   blocks["old"] + SurvivedSize <= OldSize
              /\ pc \in GcPCs => Origins /\ OldKept /\ OnlyLive
=============================================================================

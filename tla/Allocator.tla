------------------------------ MODULE Allocator ------------------------------
(***************************************************************************)
(* stateplex/core/allocator.cpp: the allocators of a program, the blocks   *)
(* they obtain, the slices they cut them into and the lists of free slices *)
(* they keep, one for each class of sizes.  Allocators are swapped between *)
(* dispatchers, so memory is freed to whichever allocator the thread has   *)
(* by then; and a caller may understate the size, as strings and arrays do *)
(* (module Strings).                                                       *)
(***************************************************************************)
EXTENDS SizeClasses, Sequences, FiniteSets

CONSTANTS Allocators,
          Sizes,         \* the sizes that callers ask for
          nBlocks,       \* blocks obtained at once: 16 in the code
          MaxBlocks,     \* bound: blocks obtained in a behaviour
          MaxAllocations,  \* bound: calls of allocate() in a behaviour
          MaxFrees       \* bound: calls of deallocate() in a behaviour

ASSUME AllocatorAssumption ==
  /\ Sizes \subseteq 1..LargestSliced
  /\ nBlocks \in Nat \ {0} /\ MaxBlocks \in Nat
  /\ MaxAllocations \in Nat /\ MaxFrees \in Nat

S == INSTANCE SequencesExt

Index == 0..MAX_SLICE_INDEX

VARIABLES
  mFreeBlocks,   \* of each allocator: its blocks not cut yet, by their numbers
  mFreeSlices,   \* of each allocator and class: the slices free for it
  obtained,      \* blocks obtained so far by all
  live,          \* what callers hold: a slice and the size they asked for
  frees          \* calls of deallocate() so far

vars == <<mFreeBlocks, mFreeSlices, obtained, live, frees>>

Init ==
  /\ mFreeBlocks = [a \in Allocators |-> <<>>]
  /\ mFreeSlices = [a \in Allocators |-> [i \in Index |-> <<>>]]
  /\ obtained = 0
  /\ live = {}
  /\ frees = 0

-----------------------------------------------------------------------------
\* A slice is the address it begins at: a block and an offset in it.
Slices(index, block) ==
  [k \in 1..nSlices(index) |-> [block |-> block, offset |-> SliceOffset(index, k - 1)]]

\* allocateBlocks: what mFreeBlocks becomes.
Blocks(free) == free \o [k \in 1..nBlocks |-> obtained + k]

\* sliceBlock, when the class has no free slice left: the first free block,
\* one just obtained if there is none, leaves its list and is cut.
Sliced(a, index) ==
  LET blocks == IF mFreeBlocks[a] = <<>> THEN Blocks(<<>>) ELSE mFreeBlocks[a]
  IN  [blocks |-> Tail(blocks), slices |-> Slices(index, Head(blocks))]

allocate(a, size) ==
  LET index == sliceSizeToIndex(size)
      empty == mFreeSlices[a][index] = <<>>
      obtains == empty /\ mFreeBlocks[a] = <<>>
  IN  /\ Cardinality(live) + frees < MaxAllocations
      /\ obtains => obtained + nBlocks <= MaxBlocks
      /\ obtained' = IF obtains THEN obtained + nBlocks ELSE obtained
      /\ \E now \in {IF empty THEN Sliced(a, index)
                     ELSE [blocks |-> mFreeBlocks[a], slices |-> mFreeSlices[a][index]]} :
           /\ mFreeBlocks' = [mFreeBlocks EXCEPT ![a] = now.blocks]
           /\ mFreeSlices' = [mFreeSlices EXCEPT ![a][index] = Tail(now.slices)]
           /\ live' = live \cup {[slice |-> Head(now.slices), size |-> size]}
      /\ UNCHANGED frees

\* A slip: the slice put in no list.
deallocateForgetting(a, held, size) ==
  /\ held \in live
  /\ frees < MaxFrees
  /\ live' = live \ {held}
  /\ frees' = frees + 1
  /\ UNCHANGED <<mFreeBlocks, mFreeSlices, obtained>>

\* block->mAllocator is zero, never set, so it is never this allocator: the
\* branches that count the allocations of a block are never taken.
deallocate(a, held, size) ==
  /\ held \in live
  /\ frees < MaxFrees
  /\ mFreeSlices' = [mFreeSlices EXCEPT ![a][sliceSizeToIndex(size)] = S!Cons(held.slice, @)]
  /\ live' = live \ {held}
  /\ frees' = frees + 1
  /\ UNCHANGED <<mFreeBlocks, obtained>>

Next ==
  \E a \in Allocators, size \in Sizes :
    \/ allocate(a, size)
    \/ \E held \in live : size <= held.size /\ deallocate(a, held, size)

Spec == Init /\ [][Next]_vars

-----------------------------------------------------------------------------
\* The places in the lists of free slices.
FreePlaces ==
  UNION {{[list |-> <<a, i>>, at |-> k] : k \in DOMAIN mFreeSlices[a][i]} :
         a \in Allocators, i \in Index}

SliceAt(place) == mFreeSlices[place.list[1]][place.list[2]][place.at]

\* What the program may write to: the bytes asked for, and of a free slice
\* what its class serves, the list's own pointers among them.
Extents ==
  {[from |-> held.slice, length |-> held.size] : held \in live}
  \cup {[from |-> SliceAt(p), length |-> sliceSizeFromIndex(p.list[2])] : p \in FreePlaces}

TypeOK ==
  /\ \A a \in Allocators : S!ToSet(mFreeBlocks[a]) \subseteq 1..obtained
  /\ \A held \in live : held.size \in Sizes /\ held.slice.block \in 1..obtained
  /\ \A p \in FreePlaces : SliceAt(p).block \in 1..obtained

Apart(x, y) ==
  \/ x.from.offset + x.length <= y.from.offset
  \/ y.from.offset + y.length <= x.from.offset

\* Memory in use and memory waiting to be used never overlap, nor reach into
\* the header or out of the end of a block, nor into a block not cut yet.
ExtentsDisjoint ==
  \E extents \in {Extents} : \A x \in extents :
    /\ x.from.offset >= sizeofBlock
    /\ x.from.offset + x.length <= BLOCK_SIZE
    /\ \A a \in Allocators : ~S!Contains(mFreeBlocks[a], x.from.block)
    /\ \A y \in extents \ {x} : x.from.block = y.from.block => Apart(x, y)

\* A slice is free once at most, and then nobody holds it.
FreeOnce ==
  \E free \in {{SliceAt(p) : p \in FreePlaces}} :
    /\ Cardinality(free) = Cardinality(FreePlaces)
    /\ \A held \in live : held.slice \notin free

\* No slice of a cut block is lost: as many are live or free as were cut.
NothingLost ==
  \E extents \in {Extents} : \A b \in 1..obtained :
    \/ \E a \in Allocators : S!Contains(mFreeBlocks[a], b)
    \/ Cardinality({x \in extents : x.from.block = b}) \in {nSlices(i) : i \in Index}

\* Every slice of every block is in one list or in one hand, also if it was
\* freed to another allocator or as something smaller than it was asked for
\* (allocator.cpp:88-178).
SlicesAccounted == FreeOnce /\ NothingLost
=============================================================================

---------------------------- MODULE SizeClasses ----------------------------
(***************************************************************************)
(* The arithmetic of stateplex/core/allocator.cpp: which slices serve      *)
(* which sizes, and where the slices of a block are.  Numbers are bytes.   *)
(***************************************************************************)
EXTENDS Integers

CONSTANT BLOCK_SIZE     \* 4 * 4096 in the code

\* The sizes of the two structures where a pointer has 8 bytes.
sizeofSlice == 16
sizeofBlock == 32

ASSUME BlockSizeAssumption == BLOCK_SIZE \in Nat /\ BLOCK_SIZE >= 2048

MAX_SLICE_INDEX == 16 + ((BLOCK_SIZE - sizeofBlock) \div 8 - 128) \div 128

\* What is larger goes to allocateChunk.
LargestSliced == (BLOCK_SIZE - sizeofBlock) \div 8

sliceSizeToIndex(size) ==
  LET rest == IF size < sizeofSlice THEN 0 ELSE size - sizeofSlice
  IN  IF rest <= 128 THEN (rest + 15) \div 16 ELSE (rest + 127) \div 128 + 7

sliceSizeFromIndex(index) ==
  (IF index <= 8 THEN index * 16 ELSE (index - 7) * 128) + sizeofSlice

\* A slip: the header of the block forgotten in the division.
nSlicesHeaderless(index) == BLOCK_SIZE \div sliceSizeFromIndex(index)

nSlices(index) == (BLOCK_SIZE - sizeofBlock) \div sliceSizeFromIndex(index)

\* The offset in its block of slice k, counted from 0.
SliceOffset(index, k) == sizeofBlock + k * sliceSizeFromIndex(index)

-----------------------------------------------------------------------------
\* The slice for a size is large enough, and its list is one of the array's.
ClassServes(size) ==
  /\ sliceSizeFromIndex(sliceSizeToIndex(size)) >= size
  /\ sliceSizeToIndex(size) \in 0..MAX_SLICE_INDEX

\* It is no larger than the rounding makes it: one step more would do less.
ClassTight(size) ==
  sliceSizeToIndex(size) > 0 =>
    sliceSizeFromIndex(sliceSizeToIndex(size) - 1) < size
=============================================================================

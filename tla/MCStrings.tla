----------------------------- MODULE MCStrings -----------------------------
EXTENDS Strings, TLC
CONSTANTS one, two
MCAllocators == {one, two}
(* A string in a class of 16 bytes' granularity, and arrays of one of 128.
   The length of 255 loses its highest bit, and copies of it then are of a
   smaller size; that of 256 is kept in two bytes. *)
MCStringLengths == {125}
MCArrayLengths == {255, 256}
MCSizes == {}
MCSymmetry == Permutations(MCAllocators)
=============================================================================

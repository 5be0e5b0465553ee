---------------------------- MODULE MCLinkedList ----------------------------
EXTENDS LinkedList, TLC
CONSTANTS a, b, c, p, q
MCItem == {a, b, c}
MCList == {p, q}
(* The items are interchangeable, and so are the lists. *)
MCSymmetry == Permutations(MCItem) \cup Permutations(MCList)
=============================================================================

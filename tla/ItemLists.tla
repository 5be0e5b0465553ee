----------------------------- MODULE ItemLists -----------------------------
(***************************************************************************)
(* What the lists of stateplex/core/list.h promise: every list is a        *)
(* sequence of items, an item is in at most one list, and adding an item   *)
(* anywhere takes it out of the place it was in.                           *)
(***************************************************************************)
EXTENDS Naturals, Sequences

CONSTANTS Item, List

S == INSTANCE SequencesExt

VARIABLE contents

Init == contents = [l \in List |-> <<>>]

ListOf(item) == {l \in List : S!Contains(contents[l], item)}

\* A list of items that are in it once, without the item.
PlaceOf(list, item) == CHOOSE k \in DOMAIN list : list[k] = item

Without(list, item) ==
  IF S!Contains(list, item) THEN S!RemoveAt(list, PlaceOf(list, item)) ELSE list

Drop(item) == [l \in List |-> Without(contents[l], item)]

AddTail(list, item) ==
  contents' = [Drop(item) EXCEPT ![list] = S!Snoc(item, @)]

AddHead(list, item) ==
  contents' = [Drop(item) EXCEPT ![list] = S!Cons(item, @)]

\* offset 0 puts the item before the existing one, 1 after it
AddBeside(item, existing, offset) ==
  \E list \in ListOf(existing) :
    LET at == PlaceOf(Drop(item)[list], existing)
    IN  /\ item # existing
        /\ contents' = [Drop(item) EXCEPT ![list] = S!InsertAt(@, at + offset, item)]

Remove(item) == contents' = Drop(item)

SpliceHead(list, source) ==
  /\ list # source
  /\ contents' = [contents EXCEPT ![list] = contents[source] \o @, ![source] = <<>>]

SpliceTail(list, source) ==
  /\ list # source
  /\ contents' = [contents EXCEPT ![list] = @ \o contents[source], ![source] = <<>>]

Next ==
  \/ \E item \in Item : Remove(item)
  \/ \E item \in Item, list \in List : AddHead(list, item) \/ AddTail(list, item)
  \/ \E item, existing \in Item, offset \in {0, 1} : AddBeside(item, existing, offset)
  \/ \E list, source \in List : SpliceHead(list, source) \/ SpliceTail(list, source)

Spec == Init /\ [][Next]_contents
=============================================================================

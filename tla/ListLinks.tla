----------------------------- MODULE ListLinks -----------------------------
(***************************************************************************)
(* stateplex/core/list.h as operators.  A value of links holds the mNext   *)
(* and the mPrevious pointer of every node; the nodes are the ListItems    *)
(* and the sentinel (mItems) of every List, which stands for its list.     *)
(* An operator returns the links after the call.                           *)
(***************************************************************************)
EXTENDS Naturals, Sequences

CONSTANTS Item, List,
          Null        \* the pointer 0

ASSUME ListAssumption == Item \cap List = {} /\ Null \notin Item \cup List

S == INSTANCE SequencesExt

Node == Item \cup List

\* Every node points to itself: an item in no list, a list without items.
Unlinked ==
  [next |-> [n \in Node |-> n], prev |-> [n \in Node |-> n]]

-----------------------------------------------------------------------------
(* ListItem *)

\* A slip: the backward pointer forgotten.
BypassForwards(links, item) ==
  [links EXCEPT !.next[links.prev[item]] = links.next[item]]

\* The item's neighbours are joined to each other; its own pointers stay.
Bypass(links, item) ==
  [links EXCEPT !.next[links.prev[item]] = links.next[item],
                !.prev[links.next[item]] = links.prev[item]]

\* ListItem::addBetween, in the order of its assignments.
ItemBetween(links, item, previous, next) ==
  [links EXCEPT !.next[previous] = item,
                !.prev[item] = previous,
                !.next[item] = next,
                !.prev[next] = item]

\* The neighbour is read before the item leaves its old place.
AddBefore(links, item, existing) ==
  ItemBetween(Bypass(links, item), item, links.prev[existing], existing)

AddAfter(links, item, existing) ==
  ItemBetween(Bypass(links, item), item, existing, links.next[existing])

Remove(links, item) ==
  [Bypass(links, item) EXCEPT !.next[item] = item, !.prev[item] = item]

-----------------------------------------------------------------------------
(* List *)

NullAt(list, node) == IF node = list THEN Null ELSE node

\* A slip: the sentinel taken for an item.
FirstUnchecked(links, list) == links.next[list]

First(links, list) == NullAt(list, links.next[list])
Last(links, list) == NullAt(list, links.prev[list])
NextOf(links, list, item) == NullAt(list, links.next[item])
PreviousOf(links, list, item) == NullAt(list, links.prev[item])
IsEmpty(links, list) == links.next[list] = list

AddHead(links, list, item) == AddAfter(links, item, list)
AddTail(links, list, item) == AddBefore(links, item, list)

\* A slip: both ends of source read before anything is written, which loses
\* the target's neighbour when source is empty.
ContentsBetweenFromEnds(links, source, previous, next) ==
  [links EXCEPT !.next[previous] = links.next[source],
                !.prev[links.next[source]] = previous,
                !.next[links.prev[source]] = next,
                !.prev[next] = links.prev[source],
                !.next[source] = source,
                !.prev[source] = source]

\* List::addBetween, in the order of its assignments: everything of source
\* goes between two nodes of another list.  The last node is read after the
\* second assignment, which makes it previous when source is empty; that is
\* why an empty source changes nothing.
ContentsBetween(links, source, previous, next) ==
  LET first == links.next[source]
      last  == IF first = source THEN previous ELSE links.prev[source]
  IN  [links EXCEPT !.next[previous] = first,
                    !.prev[first] = previous,
                    !.next[last] = next,
                    !.prev[next] = last,
                    !.next[source] = source,
                    !.prev[source] = source]

SpliceHead(links, list, source) ==
  ContentsBetween(links, source, list, links.next[list])
SpliceTail(links, list, source) ==
  ContentsBetween(links, source, links.prev[list], list)

-----------------------------------------------------------------------------
(* ListIterator: the node after the current one is fetched when the current *)
(* one is reached, so the current item may leave the list.                  *)

At(links, list, backwards, node) ==
  [current |-> node,
   subsequent |-> IF node = Null THEN Null
                  ELSE IF backwards THEN PreviousOf(links, list, node)
                  ELSE NextOf(links, list, node)]

Iterator(links, list, backwards) ==
  At(links, list, backwards,
     IF backwards THEN Last(links, list) ELSE First(links, list))

\* A slip: the next node looked up from the current one, which may have moved.
SubsequentOfCurrent(links, list, backwards, iterator) ==
  At(links, list, backwards, At(links, list, backwards, iterator.current).subsequent)

Subsequent(links, list, backwards, iterator) ==
  At(links, list, backwards, iterator.subsequent)
=============================================================================

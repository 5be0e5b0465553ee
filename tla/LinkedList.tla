----------------------------- MODULE LinkedList -----------------------------
(***************************************************************************)
(* The lists of stateplex/core/list.h in use: any call on any item and     *)
(* list, in any order, with one iterator running over one of the lists.    *)
(* pointers is the pointer structure of the program; contents is what the  *)
(* same calls do to the abstract lists of ItemLists, so that the two can   *)
(* be compared after every call.                                           *)
(***************************************************************************)
EXTENDS ListLinks

CONSTANT Careful   \* callers respect the conditions on the calls, below

ASSUME CarefulAssumption == Careful \in BOOLEAN

VARIABLES pointers,
          contents,
          listIterator,    \* a ListIterator and what it iterates, or NoIterator
          planned,     \* the items it has to visit, in the order it should
          visited      \* those of them it has visited

listVars == <<pointers, contents, listIterator, planned, visited>>
iteration == <<listIterator, planned, visited>>

Lists == INSTANCE ItemLists

NoIterator == [current |-> Null, subsequent |-> Null, list |-> Null, backwards |-> FALSE]

ListInit ==
  /\ pointers = Unlinked
  /\ Lists!Init
  /\ listIterator = NoIterator
  /\ planned = <<>>
  /\ visited = <<>>

-----------------------------------------------------------------------------
(* What the calls need of their callers, though no comment says so. *)

Linked(item) == Lists!ListOf(item) # {}

\* An item is not added next to itself, nor to where it already is.
MayAddBefore(item, existing) ==
  Careful => item # existing /\ pointers.prev[existing] # item
MayAddAfter(item, existing) ==
  Careful => item # existing /\ pointers.next[existing] # item

\* While a list is iterated, the item fetched next stays in it.
MayMove(item) == Careful => item # listIterator.subsequent
MaySplice(list, source) ==
  /\ list # source
  /\ Careful => (source = listIterator.list => listIterator.subsequent = Null)

\* A moved item is no longer one the iteration has to visit.
Moves(item) ==
  /\ MayMove(item)
  /\ planned' = Lists!Without(planned, item)
  /\ visited' = Lists!Without(visited, item)
  /\ UNCHANGED listIterator

-----------------------------------------------------------------------------
CallAddBefore(item, existing) ==
  /\ Linked(existing)
  /\ MayAddBefore(item, existing)
  /\ pointers' = AddBefore(pointers, item, existing)
  /\ Lists!AddBeside(item, existing, 0)
  /\ Moves(item)

CallAddAfter(item, existing) ==
  /\ Linked(existing)
  /\ MayAddAfter(item, existing)
  /\ pointers' = AddAfter(pointers, item, existing)
  /\ Lists!AddBeside(item, existing, 1)
  /\ Moves(item)

CallAddHead(list, item) ==
  /\ MayAddAfter(item, list)
  /\ pointers' = AddHead(pointers, list, item)
  /\ Lists!AddHead(list, item)
  /\ Moves(item)

CallAddTail(list, item) ==
  /\ MayAddBefore(item, list)
  /\ pointers' = AddTail(pointers, list, item)
  /\ Lists!AddTail(list, item)
  /\ Moves(item)

CallRemove(item) ==
  /\ pointers' = Remove(pointers, item)
  /\ Lists!Remove(item)
  /\ Moves(item)

CallSpliceHead(list, source) ==
  /\ MaySplice(list, source)
  /\ pointers' = SpliceHead(pointers, list, source)
  /\ Lists!SpliceHead(list, source)
  /\ UNCHANGED iteration

CallSpliceTail(list, source) ==
  /\ MaySplice(list, source)
  /\ pointers' = SpliceTail(pointers, list, source)
  /\ Lists!SpliceTail(list, source)
  /\ UNCHANGED iteration

-----------------------------------------------------------------------------
Over(list, backwards, i) ==
  [current |-> i.current, subsequent |-> i.subsequent,
   list |-> list, backwards |-> backwards]

Visit(node) == IF S!Contains(planned', node) THEN <<node>> ELSE <<>>

BeginIteration(list, backwards) ==
  /\ listIterator.current = Null
  /\ listIterator' = Over(list, backwards, Iterator(pointers, list, backwards))
  /\ planned' = IF backwards THEN S!Reverse(contents[list]) ELSE contents[list]
  /\ visited' = Visit(listIterator'.current)
  /\ UNCHANGED <<pointers, contents>>

Advance ==
  /\ listIterator.current # Null
  /\ listIterator' = Over(listIterator.list, listIterator.backwards,
                      Subsequent(pointers, listIterator.list, listIterator.backwards, listIterator))
  /\ UNCHANGED planned
  /\ visited' = visited \o Visit(listIterator'.current)
  /\ UNCHANGED <<pointers, contents>>

ListNext ==
  \/ \E item, existing \in Item : CallAddBefore(item, existing) \/ CallAddAfter(item, existing)
  \/ \E list \in List, item \in Item : CallAddHead(list, item) \/ CallAddTail(list, item)
  \/ \E item \in Item : CallRemove(item)
  \/ \E list, source \in List : CallSpliceHead(list, source) \/ CallSpliceTail(list, source)
  \/ \E list \in List, backwards \in BOOLEAN : BeginIteration(list, backwards)
  \/ Advance

ListSpec == ListInit /\ [][ListNext]_listVars

-----------------------------------------------------------------------------
ListTypeOK ==
  /\ pointers \in [next : [Node -> Node], prev : [Node -> Node]]
  /\ DOMAIN contents = List
  /\ listIterator.current \in Item \cup {Null}
  /\ listIterator.subsequent \in Item \cup {Null}

\* The two pointers of every node agree with its neighbours: no call leaves
\* a node that one direction reaches and the other does not.
RingsOK ==
  \A n \in Node : pointers.prev[pointers.next[n]] = n /\ pointers.next[pointers.prev[n]] = n

\* The ring through a sentinel is the sequence the same calls built: nothing
\* is lost, duplicated or left in two lists by a move or a splice.
Represents ==
  \A l \in List :
    LET ring == S!Cons(l, contents[l])
        following(k) == ring[(k % Len(ring)) + 1]
    IN  \A k \in DOMAIN ring :
          /\ pointers.next[ring[k]] = following(k)
          /\ pointers.prev[following(k)] = ring[k]

\* An iteration that has ended visited, once each and in order, the items
\* that stayed in the list, whatever was done to the current item meanwhile.
IterationComplete ==
  listIterator.current = Null => visited = planned
=============================================================================
